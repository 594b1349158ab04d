------------------------------ MODULE RawLayer ------------------------------
(***************************************************************************)
(* What ingestion promises the readers of the raw layer of one table       *)
(* (etl/ingestion): a run is not there, or it is there with one whole      *)
(* increment of a source that has existed by then, and then it stays.      *)
(***************************************************************************)
CONSTANT Runs       \* the ingestion runs

VARIABLES visible,  \* run -> the rows a reader finds, none before it appears
          offered   \* the increments of the source's versions so far

Init == visible = [r \in Runs |-> {}]

Appear(r) ==
  /\ visible[r] = {}
  /\ \E increment \in offered : visible' = [visible EXCEPT ![r] = increment]
  /\ UNCHANGED offered

\* The producer writes another version.
Offer ==
  /\ offered \subseteq offered'
  /\ UNCHANGED visible

Next == Offer \/ \E r \in Runs : Appear(r)

Spec == Init /\ [][Next]_<<visible, offered>>

=============================================================================
