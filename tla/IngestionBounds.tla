--------------------------- MODULE IngestionBounds ---------------------------
(***************************************************************************)
(* The parameters the ingestion modules share.                             *)
(***************************************************************************)
EXTENDS Naturals

CONSTANT Pipelines    \* the processes that ingest the table
CONSTANT Row          \* the rows a source file may hold
CONSTANT MaxRuns      \* bound on the number of ingestion runs
CONSTANT MaxVersions  \* bound on the versions of the source file
CONSTANT MaxDate      \* bound on the watermark values; 0 is None

ASSUME BoundsAssumption ==
  /\ MaxRuns \in Nat \ {0}
  /\ MaxVersions \in Nat \ {0}
  /\ MaxDate \in Nat

Runs == 1 .. MaxRuns
Versions == 1 .. MaxVersions

=============================================================================
