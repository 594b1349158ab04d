----------------------------- MODULE CuratedLoad -----------------------------
(***************************************************************************)
(* CuratedDataLoader.load (etl/curation/load.py): several processes, each  *)
(* with a run identifier of its own, write the datasets of a curated run   *)
(* under one curated root.                                                 *)
(*                                                                         *)
(* On a local root the datasets are written to _staging/run_id=<run> and   *)
(* the directory is renamed to processing_date=<day>/run_id=<run>; on a    *)
(* remote root they are written in place.  Every storage operation is an   *)
(* operation of _run_with_retry, which repeats it after a transient error  *)
(* until max_attempts attempts were made.                                  *)
(***************************************************************************)
EXTENDS Naturals

CONSTANT Loads          \* the curated runs, one loader process each
CONSTANT DatasetCount   \* the datasets are written in the order 1, 2, ...
CONSTANT MaxAttempts    \* RetrySettings.max_attempts
CONSTANT IsLocal        \* _is_local_uri of the curated root
CONSTANT ErrorIfExists  \* the loads whose write mode is errorifexists
CONSTANT Faults         \* what may go wrong around the loaders
CONSTANT MaxFaults      \* bound on the transient errors of a load

\* "transient": an operation fails with an error the retry repeats
\* "lostack":   a transient error is reported for a rename that took effect
\* "reject":    the frames are refused: a bundle with other datasets, missing
\*              partition columns, or an error of the Spark job itself
\* "rmtree":    the staging directory cannot be removed
\* "kill":      a process ends between two steps, or an exception that load
\*              does not name leaves it
ASSUME LoadAssumption ==
  /\ DatasetCount \in Nat \ {0}
  /\ MaxAttempts \in Nat \ {0}
  /\ IsLocal \in BOOLEAN
  /\ ErrorIfExists \subseteq Loads
  /\ Faults \subseteq {"transient", "lostack", "reject", "rmtree", "kill"}
  /\ MaxFaults \in Nat

Datasets == 1 .. DatasetCount

VARIABLES
  pc,        \* load -> its next step
  position,  \* load -> the dataset it is writing
  attempt,   \* load -> the attempt of the operation under retry
  result,    \* load -> what its caller was told
  place,     \* load -> where the directory of its run is
  data,      \* load -> dataset -> what its directory holds
  root,      \* whether the _staging directory exists
  errors,    \* load -> the transient errors it has met
  warned     \* the loads that logged pyspark_curated_staging_cleanup_failed

fileVars == <<place, data, root>>
eventVars == <<errors, warned>>
vars == <<pc, position, attempt, result, fileVars, eventVars>>

Labels == {"validate", "write", "publish", "isdir", "scan", "rmdir", "abort", "end"}
Results == {"none", "ok", "failed", "killed"}
Places == {"none", "staging", "final"}
States == {"absent", "partial", "whole"}

Nothing == [d \in Datasets |-> "absent"]

TypeOK ==
  /\ pc \in [Loads -> Labels]
  /\ position \in [Loads -> 1 .. DatasetCount + 1]
  /\ attempt \in [Loads -> 1 .. MaxAttempts]
  /\ result \in [Loads -> Results]
  /\ place \in [Loads -> Places]
  /\ data \in [Loads -> [Datasets -> States]]
  /\ root \in BOOLEAN
  /\ errors \in [Loads -> 0 .. MaxFaults]
  /\ warned \subseteq Loads

Init ==
  /\ pc = [l \in Loads |-> "validate"]
  /\ position = [l \in Loads |-> 1]
  /\ attempt = [l \in Loads |-> 1]
  /\ result = [l \in Loads |-> "none"]
  /\ place = [l \in Loads |-> "none"]
  /\ data = [l \in Loads |-> Nothing]
  /\ root = FALSE
  /\ errors = [l \in Loads |-> 0]
  /\ warned = {}

At(l, label) == pc[l] = label
GoTo(l, label) == pc' = [pc EXCEPT ![l] = label]

End(l, answer) ==
  /\ GoTo(l, "end")
  /\ result' = [result EXCEPT ![l] = answer]

\* An exception that load catches: a local run is aborted, a remote one is
\* reported as it is.
Raise(l) ==
  IF IsLocal THEN GoTo(l, "abort") /\ UNCHANGED result ELSE End(l, "failed")

(***************************************************************************)
(* _run_with_retry.                                                        *)
(***************************************************************************)
\* Mutant: the last attempt is not made.
FailedAttemptOneShort(l) ==
  /\ errors[l] < MaxFaults
  /\ errors' = [errors EXCEPT ![l] = @ + 1]
  /\ IF attempt[l] + 1 < MaxAttempts
     THEN attempt' = [attempt EXCEPT ![l] = @ + 1] /\ UNCHANGED <<pc, result>>
     ELSE UNCHANGED attempt /\ Raise(l)
  /\ UNCHANGED <<position, warned>>

\* An attempt ends with a transient error: the next attempt, or, after the
\* last one, the error itself (reraise=True).
FailedAttempt(l) ==
  /\ errors[l] < MaxFaults
  /\ errors' = [errors EXCEPT ![l] = @ + 1]
  /\ IF attempt[l] < MaxAttempts
     THEN attempt' = [attempt EXCEPT ![l] = @ + 1] /\ UNCHANGED <<pc, result>>
     ELSE UNCHANGED attempt /\ Raise(l)
  /\ UNCHANGED <<position, warned>>

Fresh(l) == attempt' = [attempt EXCEPT ![l] = 1]

(***************************************************************************)
(* The datasets.                                                           *)
(***************************************************************************)
\* The directory of the dataset being written is made, with the directories
\* above it, and holds this much of the dataset afterwards.
Holds(l, state) ==
  /\ place' = [place EXCEPT ![l] = IF IsLocal THEN "staging" ELSE "final"]
  /\ root' = (root \/ IsLocal)
  /\ data' = [data EXCEPT ![l][position[l]] = state]

\* Mutant: the directory of the run is looked at, not that of the dataset.
WritableRun(l) ==
  l \in ErrorIfExists => place[l] = "none"

\* errorifexists refuses a dataset directory an earlier attempt left behind.
Writable(l) == l \in ErrorIfExists => data[l][position[l]] = "absent"

AcceptBundle(l) ==
  /\ At(l, "validate")
  /\ GoTo(l, "write")
  /\ UNCHANGED <<position, attempt, result, fileVars, eventVars>>

\* _validate_bundle: before the try statement, nothing to abort.
RejectBundle(l) ==
  /\ "reject" \in Faults
  /\ At(l, "validate")
  /\ End(l, "failed")
  /\ UNCHANGED <<position, attempt, fileVars, eventVars>>

\* Mutant: the run is published before its last dataset is written.
WriteDatasetPublishesEarly(l) ==
  /\ At(l, "write")
  /\ Writable(l)
  /\ Holds(l, "whole")
  /\ Fresh(l)
  /\ position' = [position EXCEPT ![l] = @ + 1]
  /\ IF position[l] + 1 < DatasetCount
     THEN UNCHANGED <<pc, result>>
     ELSE IF IsLocal THEN GoTo(l, "publish") /\ UNCHANGED result ELSE End(l, "ok")
  /\ UNCHANGED eventVars

\* One dataset is written; the last one is followed by the publication of a
\* local run and by the end of a remote one.
WriteDataset(l) ==
  /\ At(l, "write")
  /\ Writable(l)
  /\ Holds(l, "whole")
  /\ Fresh(l)
  /\ position' = [position EXCEPT ![l] = @ + 1]
  /\ IF position[l] < DatasetCount
     THEN UNCHANGED <<pc, result>>
     ELSE IF IsLocal THEN GoTo(l, "publish") /\ UNCHANGED result ELSE End(l, "ok")
  /\ UNCHANGED eventVars

\* A Spark job fails with a transient error, before it touched the storage or
\* after it wrote some or all of the dataset.
WriteFails(l) ==
  /\ "transient" \in Faults
  /\ At(l, "write")
  /\ Writable(l)
  /\ \/ UNCHANGED fileVars
     \/ \E state \in {"partial", "whole"} : Holds(l, state)
  /\ FailedAttempt(l)

\* Missing partition columns, or a job that fails for good: Spark evaluates
\* the whole lineage here.
RejectDataset(l) ==
  /\ "reject" \in Faults
  /\ At(l, "write")
  /\ \/ UNCHANGED fileVars
     \/ Writable(l) /\ Holds(l, "partial")
  /\ Raise(l)
  /\ UNCHANGED <<position, attempt, eventVars>>

\* The path exists: not a transient error.
RefuseExisting(l) ==
  /\ At(l, "write")
  /\ ~Writable(l)
  /\ Raise(l)
  /\ UNCHANGED <<position, attempt, fileVars, eventVars>>

(***************************************************************************)
(* _publish_local_run.  The final path is new because the run identifier   *)
(* is, and the staging path exists because the datasets were written.      *)
(***************************************************************************)
Publish(l) ==
  /\ At(l, "publish")
  /\ place[l] = "staging"
  /\ place' = [place EXCEPT ![l] = "final"]
  /\ Fresh(l)
  /\ GoTo(l, "isdir")
  /\ UNCHANGED <<position, result, data, root, eventVars>>

\* The rename fails, or is only reported to have failed.
PublishFails(l) ==
  /\ At(l, "publish")
  /\ \/ "transient" \in Faults /\ UNCHANGED place
     \/ "lostack" \in Faults /\ place' = [place EXCEPT ![l] = "final"]
  /\ FailedAttempt(l)
  /\ UNCHANGED <<data, root>>

\* The rename is repeated after it took effect: there is no staging path, an
\* OSError that is repeated in its turn until the last attempt.
PublishMissing(l) ==
  /\ At(l, "publish")
  /\ place[l] # "staging"
  /\ IF attempt[l] < MaxAttempts
     THEN attempt' = [attempt EXCEPT ![l] = @ + 1] /\ UNCHANGED <<pc, result>>
     ELSE UNCHANGED attempt /\ Raise(l)
  /\ UNCHANGED <<position, fileVars, eventVars>>

\* The run is published; the staging root is removed when it is empty, in
\* three steps that other loaders may come between: is_dir, iterdir, rmdir.
RootIsThere(l) ==
  /\ At(l, "isdir")
  /\ IF root THEN GoTo(l, "scan") /\ UNCHANGED result ELSE End(l, "ok")
  /\ UNCHANGED <<position, attempt, fileVars, eventVars>>

RootIsEmpty == \A k \in Loads : place[k] # "staging"

ScanRoot(l) ==
  /\ At(l, "scan")
  /\ root
  /\ IF RootIsEmpty THEN GoTo(l, "rmdir") /\ UNCHANGED result ELSE End(l, "ok")
  /\ UNCHANGED <<position, attempt, fileVars, eventVars>>

\* Another loader removed the directory since is_dir: iterdir raises.
ScanMissing(l) ==
  /\ At(l, "scan")
  /\ ~root
  /\ Raise(l)
  /\ UNCHANGED <<position, attempt, fileVars, eventVars>>

\* Mutant: the root is removed with what is in it.
RemoveRootTree(l) ==
  /\ At(l, "rmdir")
  /\ root' = FALSE
  /\ place' = [k \in Loads |-> IF place[k] = "staging" THEN "none" ELSE place[k]]
  /\ data' = [k \in Loads |-> IF place[k] = "staging" THEN Nothing ELSE data[k]]
  /\ End(l, "ok")
  /\ UNCHANGED <<position, attempt, eventVars>>

\* rmdir refuses a directory that is missing or no longer empty, and the
\* error is suppressed.
RemoveRoot(l) ==
  /\ At(l, "rmdir")
  /\ root' = (root /\ ~RootIsEmpty)
  /\ End(l, "ok")
  /\ UNCHANGED <<position, attempt, place, data, eventVars>>

(***************************************************************************)
(* _abort_local_run.                                                       *)
(***************************************************************************)
\* Mutant: the run is removed wherever it is.
AbortAnywhere(l) ==
  /\ At(l, "abort")
  /\ place' = [place EXCEPT ![l] = "none"]
  /\ data' = [data EXCEPT ![l] = Nothing]
  /\ End(l, "failed")
  /\ UNCHANGED <<position, attempt, root, eventVars>>

\* Mutant: nothing is removed once a rename was tried.
AbortForgets(l) ==
  /\ At(l, "abort")
  /\ IF place[l] = "staging" /\ position[l] <= DatasetCount
     THEN /\ place' = [place EXCEPT ![l] = "none"]
          /\ data' = [data EXCEPT ![l] = Nothing]
     ELSE UNCHANGED <<place, data>>
  /\ End(l, "failed")
  /\ UNCHANGED <<position, attempt, root, eventVars>>

Abort(l) ==
  /\ At(l, "abort")
  /\ IF place[l] = "staging"
     THEN /\ place' = [place EXCEPT ![l] = "none"]
          /\ data' = [data EXCEPT ![l] = Nothing]
     ELSE UNCHANGED <<place, data>>
  /\ End(l, "failed")
  /\ UNCHANGED <<position, attempt, root, eventVars>>

\* rmtree fails: a warning, and the original error is raised all the same.
AbortFails(l) ==
  /\ "rmtree" \in Faults
  /\ At(l, "abort")
  /\ place[l] = "staging"
  /\ warned' = warned \union {l}
  /\ End(l, "failed")
  /\ UNCHANGED <<position, attempt, fileVars, errors>>

Step(l) ==
  \/ AcceptBundle(l) \/ WriteDataset(l) \/ RefuseExisting(l)
  \/ Publish(l) \/ PublishMissing(l)
  \/ RootIsThere(l) \/ ScanRoot(l) \/ ScanMissing(l) \/ RemoveRoot(l)
  \/ Abort(l)

Kill(l) ==
  /\ "kill" \in Faults
  /\ ~At(l, "end")
  /\ End(l, "killed")
  /\ UNCHANGED <<position, attempt, fileVars, eventVars>>

Fault(l) ==
  \/ RejectBundle(l) \/ WriteFails(l) \/ RejectDataset(l)
  \/ PublishFails(l) \/ AbortFails(l) \/ Kill(l)

Finished ==
  /\ \A l \in Loads : At(l, "end")
  /\ UNCHANGED vars

Next ==
  \/ \E l \in Loads : Step(l) \/ Fault(l)
  \/ Finished

Spec == Init /\ [][Next]_vars

\* A load waits for nothing but its own storage operations.
FairSpec == Spec /\ \A l \in Loads : WF_vars(Step(l))

(***************************************************************************)
(* Properties.                                                             *)
(***************************************************************************)
\* What a reader of the curated root finds of a run.
Visible == [l \in Loads |-> IF place[l] = "final" THEN data[l] ELSE Nothing]

Layer == INSTANCE CuratedLayer WITH visible <- Visible

\* A local run appears at its final location in one step, with every dataset,
\* and is never changed or removed afterwards, whatever fails in the loader
\* or is done by the others (class CuratedDataLoader).
AtomicallyPublished == Layer!Spec

\* The caller is told of success only when every dataset is at the location
\* the result names, local or remote.
SuccessIsComplete ==
  \A l \in Loads :
    result[l] = "ok" => place[l] = "final" /\ \A d \in Datasets : data[l][d] = "whole"

\* A staging directory belongs to a load that is still running or was killed:
\* each failure removes it, or says in the log that it could not.
StagingReclaimed ==
  \A l \in Loads :
    place[l] = "staging" => result[l] \in {"none", "killed"} \/ l \in warned

\* Nobody else removes the staging directory of a load: cleaning the shared
\* root after a publication leaves the runs being written alone.
StagingUndisturbed ==
  [][\A l \in Loads : place[l] = "staging" /\ place'[l] = "none" => At(l, "abort")]_vars

\* A load that errorifexists refuses has itself to blame: an attempt of the same
\* dataset met a transient error before, and the directory it left is what the
\* retry finds; never one of another load, nor of its other datasets.
RefusedByOwnAttempt ==
  \A l \in Loads : At(l, "write") /\ ~Writable(l) => attempt[l] > 1

\* Transient errors fewer than max_attempts do not cost an overwriting load
\* its run: whatever a failed attempt left behind, the next one replaces it.
RetryAbsorbsFaults ==
  \A l \in Loads \ ErrorIfExists : At(l, "write") ~> result[l] = "ok"

\* A load that reports "Unable to publish curated run" has published nothing.
ErrorMeansUnpublished ==
  \A l \in Loads : result[l] = "failed" => place[l] # "final"

=============================================================================
