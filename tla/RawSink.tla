------------------------------ MODULE RawSink ------------------------------
(***************************************************************************)
(* LocalRawDataSink (etl/ingestion/incremental_loader.py) for one table.   *)
(*                                                                         *)
(* A run writes its parts into  _staging/<run_id>/<table>  and publishes   *)
(* them by renaming that directory to                                      *)
(* table=<table>/ingestion_date=<day>/run_id=<run_id>.  Both names belong  *)
(* to the run alone, so what the file system holds for a run is one        *)
(* directory that is absent, staged or published.                          *)
(*                                                                         *)
(* `parts' is what the part files of the directory hold: pairs of a row    *)
(* and of its position in the source file, so that a set stands for the    *)
(* sequence of parts the run appended.                                     *)
(***************************************************************************)
EXTENDS IngestionBounds

DirStates == {"absent", "staging", "published"}

VARIABLES
  dir,      \* run -> where its directory is
  parts     \* run -> the <<position, row>> pairs its part files hold

sinkVars == <<dir, parts>>

SinkTypeOK ==
  /\ dir \in [Runs -> DirStates]
  /\ parts \in [Runs -> SUBSET (Nat \X Row)]

SinkInit ==
  /\ dir = [r \in Runs |-> "absent"]
  /\ parts = [r \in Runs |-> {}]

Published == {r \in Runs : dir[r] = "published"}

\* begin: mkdir(exist_ok=False) of the staging directory.
SinkBegin(r) ==
  /\ dir[r] = "absent"
  /\ dir' = [dir EXCEPT ![r] = "staging"]
  /\ UNCHANGED parts

\* write: one part file for the chunk's rows, none for an empty frame.  The
\* part is written under a temporary name and renamed, so the directory holds
\* all of a chunk or nothing of it.
SinkWrite(r, chunk) ==
  /\ parts' = [parts EXCEPT ![r] = @ \union chunk]
  /\ UNCHANGED dir

\* commit: refuses a session without rows, otherwise one directory rename.
SinkCommit(r) ==
  /\ parts[r] # {}
  /\ dir[r] = "staging"
  /\ dir' = [dir EXCEPT ![r] = "published"]
  /\ UNCHANGED parts

\* Mutant: abort removes the run's directory wherever it is.
SinkAbortAnywhere(r) ==
  /\ dir' = [dir EXCEPT ![r] = "absent"]
  /\ parts' = [parts EXCEPT ![r] = {}]

\* abort: rmtree of the staging directory, nothing when there is none (the
\* run was published, or nothing was staged).
SinkAbort(r) ==
  IF dir[r] = "staging"
  THEN /\ dir' = [dir EXCEPT ![r] = "absent"]
       /\ parts' = [parts EXCEPT ![r] = {}]
  ELSE UNCHANGED sinkVars

=============================================================================
