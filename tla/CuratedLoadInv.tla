---------------------------- MODULE CuratedLoadInv ----------------------------
(***************************************************************************)
(* The inductive invariant behind the safety properties of CuratedLoad.    *)
(***************************************************************************)
EXTENDS CuratedLoad

\* The datasets before the position of a load are whole where the load has
\* put them.
WrittenSoFar(l) ==
  \A d \in Datasets : d < position[l] => data[l][d] = "whole"

\* Nothing of a local run is at its final location before the rename, and
\* nothing is anywhere before the first write.
Hidden(l) ==
  /\ place[l] = "none" => data[l] = Nothing
  /\ IsLocal /\ place[l] = "final"
       => pc[l] \in {"publish", "isdir", "scan", "rmdir", "abort", "end"}

\* A local run at its final location is whole.
FinalIsWhole(l) ==
  IsLocal /\ place[l] = "final" => \A d \in Datasets : data[l][d] = "whole"

\* Where a load stands says which datasets are written and where they are.
Progress(l) ==
  /\ pc[l] \in {"validate", "write"} => WrittenSoFar(l)
  /\ pc[l] = "validate" => place[l] = "none" /\ position[l] = 1
  /\ pc[l] = "write"
       => position[l] \in Datasets /\ (place[l] = "none" => position[l] = 1)
  /\ pc[l] \in {"publish", "isdir", "scan", "rmdir"}
       => IsLocal /\ \A d \in Datasets : data[l][d] = "whole"
  /\ pc[l] = "publish" => place[l] \in {"staging", "final"}
  /\ pc[l] \in {"isdir", "scan", "rmdir"} => place[l] = "final"
  /\ pc[l] = "abort" => IsLocal

\* The caller of a load that ended well finds every dataset in its place.
\* (SuccessIsComplete of one load)
Told(l) ==
  result[l] = "ok" => /\ pc[l] = "end"
                      /\ place[l] = "final"
                      /\ \A d \in Datasets : data[l][d] = "whole"

LoadInv(l) == Hidden(l) /\ FinalIsWhole(l) /\ Progress(l) /\ Told(l)

IInv == TypeOK /\ \A l \in Loads : LoadInv(l)

=============================================================================
