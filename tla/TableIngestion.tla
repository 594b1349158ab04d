--------------------------- MODULE TableIngestion ---------------------------
(***************************************************************************)
(* IngestionPipeline._ingest_table (etl/ingestion/ingestion_pipeline.py)   *)
(* for one retail table, with the components it drives: CSVReader,         *)
(* SchemaValidator and DataQualityValidator (as the grade of a row),       *)
(* IncrementalLoader, DuplicateHandler, LocalRawDataSink (RawSink) and     *)
(* JsonCheckpointStore (CheckpointStore).                                  *)
(*                                                                         *)
(* Several pipelines, each a process of its own, ingest the same table     *)
(* over the same roots while the source file is rewritten under them.      *)
(*                                                                         *)
(* A version of the source file is a header, right or wrong, and its rows. *)
(* The identity SourceMetadata records (path, size, modification time) is  *)
(* the version's number: a rewrite is assumed to change size or time.      *)
(***************************************************************************)
EXTENDS RawSink, CheckpointStore, Sequences

CONSTANT Feeds        \* the contents a version may have
CONSTANT ChunkSize    \* CSVReadOptions.chunk_size
CONSTANT Modes        \* the load modes in use: "incremental", "full"
CONSTANT Strategy     \* DuplicateStrategy: "drop" or "error"
CONSTANT Watermarked  \* whether the table's schema names a watermark column
CONSTANT Faults       \* what may go wrong around the pipeline
CONSTANT Disturbed    \* the runs it may happen to

Grades == {"good", "malformed", "implausible"}

\* "io":     an operation fails without effect on every attempt of its retry
\* "lostack": an operation takes effect but reports an OSError, so that a
\*           retry repeats it on a state that has already changed
\* "rmtree": the staging directory cannot be removed
\* "kill":   a process ends between any two steps
ASSUME ConstantsAssumption ==
  /\ ChunkSize \in Nat \ {0}
  /\ Modes \subseteq {"incremental", "full"}
  /\ Strategy \in {"drop", "error"}
  /\ Watermarked \in BOOLEAN
  /\ Faults \subseteq {"io", "lostack", "rmtree", "kill"}
  /\ Disturbed \subseteq Runs
  /\ \A r \in Row : r.date \in 1 .. MaxDate /\ r.grade \in Grades
  /\ \A f \in Feeds : f.header \in BOOLEAN /\ f.rows \in Seq(Row)

VARIABLES
  feed,     \* version -> what the source file holds in that version
  version,  \* the version the source file is in
  pc,       \* pipeline -> the next step of _ingest_table
  job,      \* pipeline -> its local variables
  seen,     \* pipeline -> the primary keys in its duplicate index
  outcome,  \* run -> what became of it
  lastRun   \* the last run identifier handed out

sourceVars == <<feed, version>>
runVars == <<outcome, lastRun>>
vars == <<sourceVars, pc, job, seen, runVars, sinkVars, storeVars>>

Labels == {"idle", "header", "metadata", "decide", "begin", "open", "stream",
           "publish", "empty", "save", "fill", "replace", "abort"}

\* The local variables of _ingest_table: the run, the metadata read first,
\* the decision's lower watermark, the newest watermark so far, and the open
\* CSV stream: the versions its file descriptor may deliver and the number of
\* rows it has consumed.
Job == [run : 0 .. MaxRuns, mode : Modes \union {"none"}, meta : 0 .. MaxVersions,
        lower : 0 .. MaxDate, high : 0 .. MaxDate,
        view : SUBSET Versions, pos : Nat]

NoJob == [run |-> 0, mode |-> "none", meta |-> 0, lower |-> 0, high |-> 0,
          view |-> {}, pos |-> 0]

Outcomes == {"unused", "running", "succeeded", "skipped", "failed", "killed"}

Keys == {r.key : r \in Row}

TypeOK ==
  /\ feed \in [Versions -> Feeds]
  /\ version \in Versions
  /\ pc \in [Pipelines -> Labels]
  /\ job \in [Pipelines -> Job]
  /\ seen \in [Pipelines -> SUBSET Keys]
  /\ outcome \in [Runs -> Outcomes]
  /\ lastRun \in 0 .. MaxRuns
  /\ SinkTypeOK
  /\ StoreTypeOK

Init ==
  /\ feed \in [Versions -> Feeds]
  /\ version = 1
  /\ pc = [p \in Pipelines |-> "idle"]
  /\ job = [p \in Pipelines |-> NoJob]
  /\ seen = [p \in Pipelines |-> {}]
  /\ outcome = [r \in Runs |-> "unused"]
  /\ lastRun = 0
  /\ SinkInit
  /\ StoreInit

(***************************************************************************)
(* Operators on rows.  A set of <<position, row>> pairs stands for a part  *)
(* of the file in file order.                                              *)
(***************************************************************************)
Size(v) == Len(feed[v].rows)

\* The rows of version v after position from, up to position to.
Rows(v, from, to) ==
  {<<i, feed[v].rows[i]>> : i \in {j \in 1 .. Size(v) : from < j /\ j <= to}}

\* Mutant: rows as old as the watermark are taken again.
IsNewInclusive(x, lower) == ~Watermarked \/ lower = 0 \/ x[2].date >= lower

\* IncrementalLoader.filter_new_rows: strictly newer than the lower watermark.
IsNew(x, lower) == ~Watermarked \/ lower = 0 \/ x[2].date > lower

NewRows(rows, lower) == {x \in rows : IsNew(x, lower)}

KeysOf(rows) == {x[2].key : x \in rows}

\* SQLiteDuplicateKeyStore.check_and_add: the index retains the keys it is
\* given, those it had among them.
CheckAndAdd(keys, new) == keys \union KeysOf(new)

\* DuplicateHandler.handle: the first row of each key not seen before.
FirstOfKey(rows, keys) ==
  {x \in rows : /\ x[2].key \notin keys
                /\ \A y \in rows : y[2].key = x[2].key => x[1] <= y[1]}

\* validate_and_cast fails on any malformed row of the chunk, the quality
\* rules only see the new rows.
Valid(rows, lower) ==
  /\ \A x \in rows : x[2].grade # "malformed"
  /\ \A x \in NewRows(rows, lower) : x[2].grade # "implausible"

\* DuplicateStrategy.ERROR rejects a chunk that holds a duplicate.
DuplicatesAllowed(new, keys) == Strategy = "drop" \/ FirstOfKey(new, keys) = new

\* maximum_watermark and _newer_watermark: high is the newest of old and of
\* the dates of the new rows; a table without watermark column keeps None.
IsNewest(high, old, new) ==
  LET dates == {old} \union (IF Watermarked THEN {x[2].date : x \in new} ELSE {})
  IN  high \in dates /\ \A d \in dates : d <= high

(***************************************************************************)
(* The steps of a pipeline.                                                *)
(***************************************************************************)
At(p, label) == pc[p] = label
GoTo(p, label) == pc' = [pc EXCEPT ![p] = label]
Run(p) == job[p].run

\* The run of p ends: its result, or the exception, is reported.
End(p, result) ==
  /\ GoTo(p, "idle")
  /\ job' = [job EXCEPT ![p] = NoJob]
  /\ outcome' = [outcome EXCEPT ![Run(p)] = result]
  /\ UNCHANGED <<sourceVars, lastRun>>

\* run: a fresh run identifier, under the load mode of the process.
Start(p) ==
  /\ At(p, "idle")
  /\ lastRun < MaxRuns
  /\ lastRun' = lastRun + 1
  /\ outcome' = [outcome EXCEPT ![lastRun + 1] = "running"]
  /\ \E m \in Modes :
       job' = [job EXCEPT ![p] = [NoJob EXCEPT !.run = lastRun + 1, !.mode = m]]
  /\ GoTo(p, "header")
  /\ UNCHANGED <<sourceVars, seen, sinkVars, storeVars>>

ReadHeader(p) ==
  /\ At(p, "header")
  /\ feed[version].header
  /\ GoTo(p, "metadata")
  /\ UNCHANGED <<sourceVars, job, seen, runVars, sinkVars, storeVars>>

RejectHeader(p) ==
  /\ At(p, "header")
  /\ ~feed[version].header
  /\ End(p, "failed")
  /\ UNCHANGED <<seen, sinkVars, storeVars>>

ReadMetadata(p) ==
  /\ At(p, "metadata")
  /\ job' = [job EXCEPT ![p].meta = version]
  /\ GoTo(p, "decide")
  /\ UNCHANGED <<sourceVars, seen, runVars, sinkVars, storeVars>>

\* decide: the checkpoint is loaded before the mode is looked at, so that an
\* unreadable one fails a full reload as well.
LoadCorrupt(p) ==
  /\ At(p, "decide")
  /\ Unreadable
  /\ End(p, "failed")
  /\ UNCHANGED <<seen, sinkVars, storeVars>>

\* Mutant: any checkpoint makes the source look unchanged.
UnchangedAnyway(p) == Readable /\ job[p].mode = "incremental"

Unchanged(p) ==
  Readable /\ job[p].mode = "incremental" /\ Stored.id = job[p].meta

SkipUnchanged(p) ==
  /\ At(p, "decide")
  /\ Unchanged(p)
  /\ End(p, "skipped")
  /\ UNCHANGED <<seen, sinkVars, storeVars>>

\* no_checkpoint, full_reload and changed_snapshot have no lower watermark.
LowerWatermark(p) ==
  IF Readable /\ job[p].mode = "incremental" /\ Watermarked THEN Stored.wm ELSE 0

\* Mutant: the maximum starts from None, not from the lower watermark.
ProceedFromNone(p) ==
  /\ At(p, "decide")
  /\ NoCheckpoint \/ (Readable /\ ~Unchanged(p))
  /\ job' = [job EXCEPT ![p].lower = LowerWatermark(p)]
  /\ GoTo(p, "begin")
  /\ UNCHANGED <<sourceVars, seen, runVars, sinkVars, storeVars>>

Proceed(p) ==
  /\ At(p, "decide")
  /\ NoCheckpoint \/ (Readable /\ ~Unchanged(p))
  /\ job' = [job EXCEPT ![p].lower = LowerWatermark(p), ![p].high = LowerWatermark(p)]
  /\ GoTo(p, "begin")
  /\ UNCHANGED <<sourceVars, seen, runVars, sinkVars, storeVars>>

\* Mutant: the duplicate index is not reset.
BeginSessionKeepsKeys(p) ==
  /\ At(p, "begin")
  /\ SinkBegin(Run(p))
  /\ GoTo(p, "open")
  /\ UNCHANGED <<sourceVars, job, seen, runVars, storeVars>>

\* DuplicateHandler.reset, then RawDataSink.begin.
BeginSession(p) ==
  /\ At(p, "begin")
  /\ seen' = [seen EXCEPT ![p] = {}]
  /\ SinkBegin(Run(p))
  /\ GoTo(p, "open")
  /\ UNCHANGED <<sourceVars, job, runVars, storeVars>>

OpenSource(p) ==
  /\ At(p, "open")
  /\ feed[version].header
  /\ job' = [job EXCEPT ![p].view = {version}]
  /\ GoTo(p, "stream")
  /\ UNCHANGED <<sourceVars, seen, runVars, sinkVars, storeVars>>

\* The file was rewritten since read_header: the first chunk, which even a
\* file without rows yields, has the wrong columns.
RejectOpen(p) ==
  /\ At(p, "open")
  /\ ~feed[version].header
  /\ GoTo(p, "abort")
  /\ UNCHANGED <<sourceVars, job, seen, runVars, sinkVars, storeVars>>

\* Mutant: duplicates are only looked for within a chunk.
IngestChunkForgetsKeys(p) ==
  /\ At(p, "stream")
  /\ \E v \in job[p].view :
       LET next == job[p].pos + ChunkSize
           new == NewRows(Rows(v, job[p].pos, next), job[p].lower)
       IN  /\ job[p].pos < Size(v)
           /\ Valid(Rows(v, job[p].pos, next), job[p].lower)
           /\ DuplicatesAllowed(new, {})
           /\ \E h \in 0 .. MaxDate :
                /\ IsNewest(h, job[p].high, new)
                /\ job' = [job EXCEPT ![p].pos = next, ![p].high = h]
           /\ SinkWrite(Run(p), FirstOfKey(new, {}))
  /\ UNCHANGED <<sourceVars, pc, seen, runVars, storeVars>>

\* One iteration of the chunk loop that reaches its end.  Without new rows
\* nothing is added to the index or to the sink.
IngestChunk(p) ==
  /\ At(p, "stream")
  /\ \E v \in job[p].view :
       LET next == job[p].pos + ChunkSize
           chunk == Rows(v, job[p].pos, next)
           new == NewRows(chunk, job[p].lower)
       IN  /\ job[p].pos < Size(v)
           /\ Valid(chunk, job[p].lower)
           /\ DuplicatesAllowed(new, seen[p])
           /\ \E h \in 0 .. MaxDate :
                /\ IsNewest(h, job[p].high, new)
                /\ job' = [job EXCEPT ![p].pos = next, ![p].high = h]
           /\ seen' = [seen EXCEPT ![p] = CheckAndAdd(@, new)]
           /\ SinkWrite(Run(p), FirstOfKey(new, seen[p]))
  /\ UNCHANGED <<sourceVars, pc, runVars, storeVars>>

\* Mutant: a rejected chunk ends the run without aborting the session.
RejectChunkLeaks(p) ==
  /\ At(p, "stream")
  /\ \E v \in job[p].view :
       ~Valid(Rows(v, job[p].pos, job[p].pos + ChunkSize), job[p].lower)
  /\ End(p, "failed")
  /\ UNCHANGED <<seen, sinkVars, storeVars>>

\* An iteration that raises.  The duplicate index keeps the keys it was given
\* when the strategy is what rejects the chunk.
RejectChunk(p) ==
  /\ At(p, "stream")
  /\ \E v \in job[p].view :
       LET chunk == Rows(v, job[p].pos, job[p].pos + ChunkSize)
           new == NewRows(chunk, job[p].lower)
       IN  \/ /\ ~Valid(chunk, job[p].lower)
              /\ UNCHANGED seen
           \/ /\ Valid(chunk, job[p].lower)
              /\ ~DuplicatesAllowed(new, seen[p])
              /\ seen' = [seen EXCEPT ![p] = CheckAndAdd(@, new)]
  /\ GoTo(p, "abort")
  /\ UNCHANGED <<sourceVars, job, runVars, sinkVars, storeVars>>

EndOfStream(p) ==
  At(p, "stream") /\ \E v \in job[p].view : job[p].pos >= Size(v)

\* Mutant: the source is not inspected again.
VerifySourceBlind(p) ==
  /\ EndOfStream(p)
  /\ GoTo(p, IF parts[Run(p)] # {} THEN "publish" ELSE "empty")
  /\ UNCHANGED <<sourceVars, job, seen, runVars, sinkVars, storeVars>>

\* The second metadata call finds the file as the first one found it.
VerifySource(p) ==
  /\ EndOfStream(p)
  /\ version = job[p].meta
  /\ GoTo(p, IF parts[Run(p)] # {} THEN "publish" ELSE "empty")
  /\ UNCHANGED <<sourceVars, job, seen, runVars, sinkVars, storeVars>>

\* Mutant: a changed source is read again under the old identity.
SourceChangedReopens(p) ==
  /\ EndOfStream(p)
  /\ version # job[p].meta
  /\ GoTo(p, "open")
  /\ UNCHANGED <<sourceVars, job, seen, runVars, sinkVars, storeVars>>

SourceChanged(p) ==
  /\ EndOfStream(p)
  /\ version # job[p].meta
  /\ GoTo(p, "abort")
  /\ UNCHANGED <<sourceVars, job, seen, runVars, sinkVars, storeVars>>

PublishRaw(p) ==
  /\ At(p, "publish")
  /\ SinkCommit(Run(p))
  /\ GoTo(p, "save")
  /\ UNCHANGED <<sourceVars, job, seen, runVars, storeVars>>

\* Nothing was written: the session is aborted and the checkpoint committed.
AbortEmpty(p) ==
  /\ At(p, "empty")
  /\ SinkAbort(Run(p))
  /\ GoTo(p, "save")
  /\ UNCHANGED <<sourceVars, job, seen, runVars, storeVars>>

SaveOpen(p) ==
  /\ At(p, "save")
  /\ StoreOpen(p, Run(p))
  /\ GoTo(p, "fill")
  /\ UNCHANGED <<sourceVars, job, seen, runVars, sinkVars>>

\* Mutant: identity and watermark are swapped.
SaveFillSwapped(p) ==
  /\ At(p, "fill")
  /\ StoreFill(p, [id |-> job[p].high, wm |-> job[p].meta])
  /\ GoTo(p, "replace")
  /\ UNCHANGED <<sourceVars, job, seen, runVars, sinkVars>>

\* Mutant: the identity recorded is read from the file once more.
SaveFillInspectsAgain(p) ==
  /\ At(p, "fill")
  /\ StoreFill(p, [id |-> version, wm |-> job[p].high])
  /\ GoTo(p, "replace")
  /\ UNCHANGED <<sourceVars, job, seen, runVars, sinkVars>>

SaveFill(p) ==
  /\ At(p, "fill")
  /\ StoreFill(p, [id |-> job[p].meta, wm |-> job[p].high])
  /\ GoTo(p, "replace")
  /\ UNCHANGED <<sourceVars, job, seen, runVars, sinkVars>>

SaveReplace(p) ==
  /\ At(p, "replace")
  /\ StoreReplace
  /\ End(p, "succeeded")
  /\ UNCHANGED <<seen, sinkVars>>

\* Another pipeline renamed the temporary file first: FileNotFoundError.
SaveLost(p) ==
  /\ At(p, "replace")
  /\ tmp = NoFile
  /\ End(p, "failed")
  /\ UNCHANGED <<seen, sinkVars, storeVars>>

\* The finally clause.
AbortRaw(p) ==
  /\ At(p, "abort")
  /\ SinkAbort(Run(p))
  /\ End(p, "failed")
  /\ UNCHANGED <<seen, storeVars>>

Step(p) ==
  \/ ReadHeader(p) \/ RejectHeader(p) \/ ReadMetadata(p)
  \/ LoadCorrupt(p) \/ SkipUnchanged(p) \/ Proceed(p)
  \/ BeginSession(p) \/ OpenSource(p) \/ RejectOpen(p)
  \/ IngestChunk(p) \/ RejectChunk(p) \/ VerifySource(p) \/ SourceChanged(p)
  \/ PublishRaw(p) \/ AbortEmpty(p)
  \/ SaveOpen(p) \/ SaveFill(p) \/ SaveReplace(p) \/ SaveLost(p)
  \/ AbortRaw(p)

(***************************************************************************)
(* What goes wrong around a pipeline.                                      *)
(***************************************************************************)
\* read_header, metadata or reading the checkpoint fails before anything was
\* begun.
InspectFails(p) ==
  /\ "io" \in Faults
  /\ pc[p] \in {"header", "metadata", "decide"}
  /\ End(p, "failed")
  /\ UNCHANGED <<seen, sinkVars, storeVars>>

\* mkdir fails, or is repeated after it took effect and then fails because
\* the directory exists.  There is no session, so nothing is aborted.
BeginFails(p) ==
  /\ At(p, "begin")
  /\ \/ "io" \in Faults /\ UNCHANGED sinkVars
     \/ "lostack" \in Faults /\ SinkBegin(Run(p))
  /\ seen' = [seen EXCEPT ![p] = {}]
  /\ End(p, "failed")
  /\ UNCHANGED storeVars

\* Opening, reading or inspecting the source again fails.
StreamFails(p) ==
  /\ "io" \in Faults
  /\ pc[p] \in {"open", "stream"}
  /\ GoTo(p, "abort")
  /\ UNCHANGED <<sourceVars, job, seen, runVars, sinkVars, storeVars>>

\* Writing the part fails: the keys of the chunk are in the index by then.
WriteFails(p) ==
  /\ "io" \in Faults
  /\ At(p, "stream")
  /\ \E v \in job[p].view :
       LET chunk == Rows(v, job[p].pos, job[p].pos + ChunkSize)
           new == NewRows(chunk, job[p].lower)
       IN  /\ Valid(chunk, job[p].lower)
           /\ DuplicatesAllowed(new, seen[p])
           /\ seen' = [seen EXCEPT ![p] = CheckAndAdd(@, new)]
  /\ GoTo(p, "abort")
  /\ UNCHANGED <<sourceVars, job, runVars, sinkVars, storeVars>>

\* The rename fails, or is repeated after it took effect and then fails
\* because the staging directory is gone.
PublishFails(p) ==
  /\ At(p, "publish")
  /\ \/ "io" \in Faults /\ UNCHANGED sinkVars
     \/ "lostack" \in Faults /\ SinkCommit(Run(p))
  /\ GoTo(p, "abort")
  /\ UNCHANGED <<sourceVars, job, seen, runVars, storeVars>>

\* rmtree of the empty session raises: the transaction is still open and the
\* finally clause aborts a second time.
AbortEmptyFails(p) ==
  /\ "rmtree" \in Faults
  /\ At(p, "empty")
  /\ GoTo(p, "abort")
  /\ UNCHANGED <<sourceVars, job, seen, runVars, sinkVars, storeVars>>

\* save is not retried; the run is published and stays published.
SaveFails(p) ==
  /\ "io" \in Faults
  /\ pc[p] \in {"save", "fill", "replace"}
  /\ StoreClose(p)
  /\ End(p, "failed")
  /\ UNCHANGED <<seen, sinkVars>>

\* The replace takes effect and reports an OSError: the run fails although the
\* checkpoint is its own.
SaveUnacknowledged(p) ==
  /\ "lostack" \in Faults
  /\ At(p, "replace")
  /\ StoreReplace
  /\ End(p, "failed")
  /\ UNCHANGED <<seen, sinkVars>>

AbortFails(p) ==
  /\ "rmtree" \in Faults
  /\ At(p, "abort")
  /\ dir[Run(p)] = "staging"
  /\ End(p, "failed")
  /\ UNCHANGED <<seen, sinkVars, storeVars>>

\* The process ends; its duplicate index was a temporary file.
Kill(p) ==
  /\ "kill" \in Faults
  /\ ~At(p, "idle")
  /\ seen' = [seen EXCEPT ![p] = {}]
  /\ StoreClose(p)
  /\ End(p, "killed")
  /\ UNCHANGED sinkVars

Fault(p) ==
  /\ Run(p) \in Disturbed
  /\ \/ InspectFails(p) \/ BeginFails(p) \/ StreamFails(p) \/ WriteFails(p)
     \/ PublishFails(p) \/ AbortEmptyFails(p) \/ SaveFails(p)
     \/ SaveUnacknowledged(p) \/ AbortFails(p) \/ Kill(p)

(***************************************************************************)
(* The producer of the source file writes its next version, to a new file  *)
(* renamed over the old one or into the file itself.  In the second case a *)
(* stream open on that file may deliver the old rows from its buffer or    *)
(* the new ones.                                                           *)
(***************************************************************************)
RewriteSource ==
  /\ version < MaxVersions
  /\ version' = version + 1
  /\ \/ UNCHANGED job
     \/ job' = [p \in Pipelines |->
                  IF version \in job[p].view
                  THEN [job[p] EXCEPT !.view = @ \union {version + 1}]
                  ELSE job[p]]
  /\ UNCHANGED <<feed, pc, seen, runVars, sinkVars, storeVars>>

\* Nothing is left to do within the bounds.
Finished ==
  /\ lastRun = MaxRuns /\ version = MaxVersions
  /\ \A p \in Pipelines : At(p, "idle")
  /\ UNCHANGED vars

Next ==
  \/ \E p \in Pipelines : Start(p) \/ Step(p) \/ Fault(p)
  \/ RewriteSource
  \/ Finished

Spec == Init /\ [][Next]_vars

\* A run that was started keeps running until it ends: _ingest_table waits
\* for nothing but its own I/O, whose retries are bounded.
FairSpec == Spec /\ \A p \in Pipelines : WF_vars(Step(p))

(***************************************************************************)
(* Properties.                                                             *)
(***************************************************************************)
AllRows(v) == Rows(v, 0, Size(v))

\* A published run is the whole increment of one version of the source: every
\* row of that version newer than the run's lower watermark, the first of each
\* key, none from another version, and nothing at all from a version with an
\* invalid row.  (chunk loop, second metadata call and directory rename)
PublishedWhole ==
  \A r \in Published :
    \E v \in Versions, low \in 0 .. MaxDate :
      /\ Valid(AllRows(v), low)
      /\ parts[r] = FirstOfKey(NewRows(AllRows(v), low), {})

\* What a reader of the raw layer finds of each run, and the increments it may
\* expect: of the versions written so far, after any watermark.
Visible == [r \in Runs |-> IF r \in Published THEN parts[r] ELSE {}]

Offered ==
  {FirstOfKey(NewRows(AllRows(w[1]), w[2]), {}) :
     w \in {u \in (1 .. version) \X (0 .. MaxDate) : Valid(AllRows(u[1]), u[2])}}

Raw == INSTANCE RawLayer WITH visible <- Visible, offered <- Offered

\* Ingestion implements the raw layer of RawLayer: a run appears in one step
\* with a whole increment of a version that exists by then, and no step of any
\* pipeline changes what is there.  (staging directory, rename and abort)
ImplementsRawLayer == Raw!Spec

\* The keys that come too late: a version up to v has a row of theirs that is
\* not newer than something an earlier version held, which did not have the key.
LateKeys(v) ==
  {k \in Keys :
     /\ Watermarked
     /\ \E u \in 1 .. v, w \in Versions :
          /\ w < u /\ k \notin KeysOf(AllRows(w))
          /\ \E x \in AllRows(u), y \in AllRows(w) :
               x[2].key = k /\ x[2].date <= y[2].date}

PublishedKeys == UNION {KeysOf(parts[r]) : r \in Published}

\* No row is lost but for coming too late: every other key of the version the
\* checkpoint records is in a published run, so that skipping the version or
\* starting after the watermark leaves nothing else out, whatever crashed in
\* between and whoever else wrote the checkpoint.
NoLostRows ==
  Readable => KeysOf(AllRows(Stored.id)) \ LateKeys(Stored.id) \subseteq PublishedKeys

\* A published run is never removed, moved or written to again, by a late
\* abort, by a retry or by another run.
RawImmutable ==
  [][\A r \in Published : dir'[r] = "published" /\ parts'[r] = parts[r]]_vars

\* A staging directory exists only while its run is running: each way out of
\* _ingest_table either publishes or removes it.
StagingReclaimed ==
  \A r \in Runs : dir[r] = "staging" => outcome[r] = "running"

\* The checkpoint file is always a whole checkpoint, even after a crash in
\* the middle of a save ("Atomic local JSON checkpoint store").
CheckpointReadable == ~Unreadable

\* Incremental runs publish increments: whatever is published after a run that
\* succeeded is newer than everything that run published.
IncrementsAreNewer ==
  \A r, s \in Published :
    r < s /\ outcome[r] = "succeeded"
      => \A x \in parts[r], y \in parts[s] : x[2].date < y[2].date

\* The recorded source identity and watermark never go back.
CheckpointAdvances ==
  [][Readable /\ Readable'
       => /\ Stored'.id >= Stored.id
          /\ Stored'.wm >= Stored.wm]_vars

\* Every run ends, whatever fails on its way.
RunEnds == \A p \in Pipelines : ~At(p, "idle") ~> At(p, "idle")

\* A valid last version of the source.
Clean ==
  LET rows == AllRows(MaxVersions)
  IN  /\ feed[MaxVersions].header
      /\ \A x \in rows : x[2].grade = "good"
      /\ DuplicatesAllowed(rows, {})

\* An undisturbed run, started after the last rewrite of a valid source, brings
\* the checkpoint to that version, whatever runs that failed, repeated what had
\* taken effect or were killed before it left behind.
BecomesRecorded ==
  \A p \in Pipelines, r \in Runs \ Disturbed :
    At(p, "header") /\ Run(p) = r /\ version = MaxVersions /\ Clean
      ~> Readable /\ Stored.id = MaxVersions

=============================================================================
