----------------------------- MODULE CuratedLayer -----------------------------
(***************************************************************************)
(* What CuratedDataLoader (etl/curation/load.py) promises the readers of   *)
(* a local curated root, "local atomic-run publication": a run is not      *)
(* there, or it is there with every dataset, and then it stays.            *)
(***************************************************************************)
CONSTANT Loads      \* the curated runs, one loader process each
CONSTANT Datasets   \* the datasets of CURATED_DATASET_SPECS

VARIABLE visible    \* run -> dataset -> what a reader finds of it

States == {"absent", "partial", "whole"}

Nothing == [d \in Datasets |-> "absent"]
Everything == [d \in Datasets |-> "whole"]

Init == visible = [l \in Loads |-> Nothing]

PublishAll(l) ==
  /\ visible[l] = Nothing
  /\ visible' = [visible EXCEPT ![l] = Everything]

Next == \E l \in Loads : PublishAll(l)

Spec == Init /\ [][Next]_visible

=============================================================================
