--------------------------- MODULE IncrementProofs ---------------------------
(***************************************************************************)
(* A published run is the whole increment of one version of the source,    *)
(* and is never touched again.                                             *)
(***************************************************************************)
EXTENDS TableIngestionProofs

(***************************************************************************)
(* Reading a file chunk by chunk gives the same rows, new rows, first rows *)
(* of each key and newest date as reading it at once.                      *)
(***************************************************************************)
LEMMA SizeType ==
  ASSUME TypeOK, NEW v \in Versions
  PROVE  /\ feed[v].rows \in Seq(Row)
         /\ Size(v) \in Nat
<1>1. feed[v] \in Feeds
  BY DEF TypeOK
<1> QED
  BY <1>1, ConstantsAssumption DEF Size

LEMMA RowsSplit ==
  ASSUME TypeOK, NEW v \in Versions, NEW a \in Nat, NEW b \in Nat
  PROVE  /\ Rows(v, 0, a + b) = Rows(v, 0, a) \union Rows(v, a, a + b)
         /\ \A x \in Rows(v, 0, a), y \in Rows(v, a, a + b) : x[1] < y[1]
         /\ Rows(v, 0, 0) = {}
         /\ a >= Size(v) => Rows(v, 0, a) = AllRows(v)
  BY SizeType DEF Rows, AllRows

LEMMA ValidUnion ==
  ASSUME NEW R, NEW S, NEW low
  PROVE  /\ NewRows(R \union S, low) = NewRows(R, low) \union NewRows(S, low)
         /\ Valid(R, low) /\ Valid(S, low) => Valid(R \union S, low)
         /\ KeysOf(R \union S) = KeysOf(R) \union KeysOf(S)
  BY DEF NewRows, Valid, KeysOf

\* Dropping, chunk after chunk, the rows whose key was seen before is keeping
\* the first row of each key.
LEMMA FirstOfKeyUnion ==
  ASSUME NEW R \in SUBSET (Nat \X Row), NEW S \in SUBSET (Nat \X Row),
         \A x \in R, y \in S : x[1] < y[1]
  PROVE  FirstOfKey(R \union S, {}) = FirstOfKey(R, {}) \union FirstOfKey(S, KeysOf(R))
<1>1. \A x \in R \union S : x[1] \in Nat
  OBVIOUS
<1>2. \A x \in R : x \in FirstOfKey(R \union S, {}) <=> x \in FirstOfKey(R, {})
  BY <1>1 DEF FirstOfKey
<1>3. \A x \in S : x \in FirstOfKey(R \union S, {}) => x \in FirstOfKey(S, KeysOf(R))
  BY <1>1 DEF FirstOfKey, KeysOf
<1>4. \A x \in S : x \in FirstOfKey(S, KeysOf(R)) => x \in FirstOfKey(R \union S, {})
  BY <1>1 DEF FirstOfKey, KeysOf
<1>5. /\ FirstOfKey(R \union S, {}) \subseteq R \union S
      /\ FirstOfKey(R, {}) \subseteq R
      /\ FirstOfKey(S, KeysOf(R)) \subseteq S
  BY DEF FirstOfKey
<1>6. \A x \in S : x \notin R
  BY <1>1
<1> QED
  BY <1>2, <1>3, <1>4, <1>5, <1>6

LEMMA IsNewestUnion ==
  ASSUME NEW R \in SUBSET (Nat \X Row), NEW S \in SUBSET (Nat \X Row),
         NEW low \in Nat, NEW h \in Nat, NEW k \in Nat,
         IsNewest(h, low, R), IsNewest(k, h, S)
  PROVE  IsNewest(k, low, R \union S)
<1>1. \A x \in R \union S : x[2].date \in Nat
  BY ConstantsAssumption, BoundsAssumption
<1>2. h <= k /\ low <= h
  BY DEF IsNewest
<1>3. CASE Watermarked
  BY <1>1, <1>2, <1>3 DEF IsNewest
<1>4. CASE ~Watermarked
  BY <1>2, <1>4 DEF IsNewest
<1> QED
  BY <1>3, <1>4

(***************************************************************************)
(* What a step of one pipeline leaves alone.                               *)
(***************************************************************************)
Acts(q) == Start(q) \/ Step(q) \/ Fault(q)

LEMMA FrameOthers ==
  ASSUME TypeOK, NEW q \in Pipelines, Acts(q)
  PROVE  /\ feed' = feed /\ version' = version
         /\ \A p \in Pipelines \ {q} :
              pc'[p] = pc[p] /\ job'[p] = job[p] /\ seen'[p] = seen[p]
         /\ \A r \in Runs \ {Run(q)} : dir'[r] = dir[r] /\ parts'[r] = parts[r]
<1> USE DEF TypeOK, SinkTypeOK, sourceVars, sinkVars, GoTo, End
<1>1. CASE Start(q)
  BY <1>1 DEF Start
<1>2. CASE Step(q)
  <2>1. CASE ReadHeader(q) \/ RejectHeader(q) \/ ReadMetadata(q) \/ LoadCorrupt(q)
             \/ SkipUnchanged(q) \/ Proceed(q) \/ BeginSession(q)
    BY <2>1 DEF ReadHeader, RejectHeader, ReadMetadata, LoadCorrupt, SkipUnchanged,
       Proceed, BeginSession, SinkBegin
  <2>2. CASE OpenSource(q) \/ RejectOpen(q) \/ IngestChunk(q) \/ RejectChunk(q)
             \/ VerifySource(q) \/ SourceChanged(q)
    BY <2>2 DEF OpenSource, RejectOpen, IngestChunk, RejectChunk, VerifySource,
       SourceChanged, SinkWrite
  <2>3. CASE PublishRaw(q) \/ AbortEmpty(q) \/ SaveOpen(q) \/ SaveFill(q)
             \/ SaveReplace(q) \/ SaveLost(q) \/ AbortRaw(q)
    BY <2>3 DEF PublishRaw, AbortEmpty, SaveOpen, SaveFill, SaveReplace, SaveLost,
       AbortRaw, SinkCommit, SinkAbort
  <2> QED
    BY <1>2, <2>1, <2>2, <2>3 DEF Step
<1>3. CASE Fault(q)
  BY <1>3 DEF Fault, InspectFails, BeginFails, StreamFails, PublishFails,
     WriteFails, AbortEmptyFails, SaveFails, SaveUnacknowledged, AbortFails, Kill,
     SinkBegin, SinkCommit
<1> QED
  BY <1>1, <1>2, <1>3 DEF Acts

\* The directory of the acting pipeline's run, before and after.
LEMMA FrameSink ==
  ASSUME TypeOK, RunsOwned, NEW q \in Pipelines, SessionPhase(q), Acts(q)
  PROVE  /\ \A r \in Published : dir'[r] = "published" /\ parts'[r] = parts[r]
         /\ \A r \in Published' \ Published :
              At(q, "publish") /\ r = Run(q) /\ parts'[r] = parts[r]
         /\ \A r \in Runs : dir'[r] = "absent" => parts'[r] = {}
<1> USE DEF TypeOK, SinkTypeOK, Published, At
<1>1. ~At(q, "idle") => Run(q) \in Runs
  BY BoundsAssumption DEF RunsOwned, Runs
<1>2. CASE dir' = dir /\ parts' = parts
  BY <1>2 DEF RunsOwned
<1>3. CASE (BeginSession(q) \/ BeginFails(q)) /\ SinkBegin(Run(q))
  BY <1>1, <1>3 DEF RunsOwned, BeginSession, BeginFails, SinkBegin
<1>4. CASE IngestChunk(q)
  <2>1. dir' = dir /\ dir[Run(q)] = "staging"
    BY <1>4 DEF IngestChunk, SinkWrite, SessionPhase
  <2> QED
    BY <2>1, FrameOthers DEF RunsOwned
<1>5. CASE (PublishRaw(q) \/ PublishFails(q)) /\ SinkCommit(Run(q))
  BY <1>1, <1>5 DEF RunsOwned, PublishRaw, PublishFails, SinkCommit
<1>6. CASE SinkAbort(Run(q))
  BY <1>6 DEF RunsOwned, SinkAbort, sinkVars
<1> QED
  BY <1>2, <1>3, <1>4, <1>5, <1>6
  DEF Acts, Start, Step, Fault, ReadHeader, RejectHeader, ReadMetadata, LoadCorrupt,
      SkipUnchanged, Proceed, BeginSession, OpenSource, RejectOpen, RejectChunk,
      VerifySource, SourceChanged, PublishRaw, AbortEmpty, SaveOpen, SaveFill,
      SaveReplace, SaveLost, AbortRaw, InspectFails, BeginFails, StreamFails,
      PublishFails, WriteFails, AbortEmptyFails, SaveFails, SaveUnacknowledged,
      AbortFails, Kill, sinkVars

(***************************************************************************)
(* Who owns which run.                                                     *)
(***************************************************************************)
\* Past Start a pipeline keeps its run until it is idle again.
LEMMA RunKept ==
  ASSUME TypeOK, NEW q \in Pipelines, Step(q) \/ Fault(q)
  PROVE  /\ ~At(q, "idle") /\ lastRun' = lastRun
         /\ pc'[q] = "idle" \/ (job'[q].run = job[q].run /\ job'[q].mode = job[q].mode)
<1> USE DEF TypeOK, At, GoTo, End, runVars
<1>1. job[q] \in Job
  BY TypeLocal
<1>2. CASE Fault(q)
  BY <1>2 DEF Fault, InspectFails, BeginFails, StreamFails, PublishFails,
     WriteFails, AbortEmptyFails, SaveFails, SaveUnacknowledged, AbortFails, Kill
<1>3. CASE ReadHeader(q) \/ RejectHeader(q) \/ ReadMetadata(q) \/ LoadCorrupt(q)
           \/ SkipUnchanged(q) \/ Proceed(q) \/ BeginSession(q)
  BY <1>1, <1>3 DEF ReadHeader, RejectHeader, ReadMetadata, LoadCorrupt,
     SkipUnchanged, Proceed, BeginSession, Job
<1>4. CASE OpenSource(q) \/ RejectOpen(q) \/ IngestChunk(q) \/ RejectChunk(q)
           \/ VerifySource(q) \/ SourceChanged(q)
  BY <1>1, <1>4 DEF OpenSource, RejectOpen, IngestChunk, RejectChunk, VerifySource,
     SourceChanged, EndOfStream, Job
<1>5. CASE PublishRaw(q) \/ AbortEmpty(q) \/ SaveOpen(q) \/ SaveFill(q)
           \/ SaveReplace(q) \/ SaveLost(q) \/ AbortRaw(q)
  BY <1>1, <1>5 DEF PublishRaw, AbortEmpty, SaveOpen, SaveFill, SaveReplace,
     SaveLost, AbortRaw
<1> QED
  BY <1>2, <1>3, <1>4, <1>5 DEF Step

LEMMA RunsOwnedStep ==
  ASSUME TypeOK, RunsOwned, NEW q \in Pipelines, SessionPhase(q), Acts(q)
  PROVE  RunsOwned'
<1> USE BoundsAssumption DEF Runs
<1>1. lastRun \in Nat /\ lastRun' \in Nat
  BY TypeStep, TypeFault DEF Acts, TypeOK
<1>2. \A r \in Runs : dir'[r] = "absent" => parts'[r] = {}
  BY FrameSink
<1>3. CASE Start(q)
  <2>1. /\ lastRun' = lastRun + 1 /\ dir' = dir
        /\ pc'[q] = "header" /\ job'[q].run = lastRun + 1 /\ pc[q] = "idle"
    BY <1>3 DEF Start, GoTo, At, NoJob, TypeOK, sinkVars
  <2> QED
    BY <1>1, <1>2, <2>1, FrameOthers DEF RunsOwned, At, Run
<1>4. CASE Step(q) \/ Fault(q)
  <2>1. /\ lastRun' = lastRun
        /\ pc[q] # "idle"
        /\ pc'[q] = "idle" \/ job'[q].run = job[q].run
    BY <1>4, RunKept DEF At
  <2>2. Run(q) \in 1 .. lastRun
    BY <2>1 DEF RunsOwned, At
  <2>3. \A r \in Runs : r > lastRun => dir'[r] = dir[r]
    BY <1>1, <2>2, FrameOthers
  <2> QED
    BY <1>1, <1>2, <2>1, <2>2, <2>3, FrameOthers DEF RunsOwned, At, Run
<1> QED
  BY <1>3, <1>4 DEF Acts

(***************************************************************************)
(* The local invariant of the pipelines that do not act.                   *)
(***************************************************************************)
LEMMA LocalOthers ==
  ASSUME IInv, NEW q \in Pipelines, Acts(q), NEW p \in Pipelines \ {q}
  PROVE  LocalInv(p)'
<1>1. /\ feed' = feed /\ version' = version
      /\ pc'[p] = pc[p] /\ job'[p] = job[p] /\ seen'[p] = seen[p]
  BY FrameOthers DEF IInv
<1>2. CASE At(p, "idle")
  BY <1>1, <1>2 DEF LocalInv, SessionPhase, MetadataPast, StreamFaithful,
     VerifiedWhole, At, Before, Verified, Inspected, Saving
<1>3. CASE ~At(p, "idle")
  <2>1. Run(p) \in Runs
    BY <1>3, BoundsAssumption DEF IInv, TypeOK, RunsOwned, Runs
  <2>2. At(q, "idle") \/ Run(p) # Run(q)
    BY <1>3 DEF IInv, RunsOwned
  <2>3. dir'[Run(p)] = dir[Run(p)] /\ parts'[Run(p)] = parts[Run(p)]
    <3>1. CASE Run(p) # Run(q)
      BY <2>1, <3>1, FrameOthers DEF IInv
    <3>2. CASE At(q, "idle")
      <4>1. Start(q)
        BY <3>2, RunKept DEF IInv, Acts
      <4> QED
        BY <4>1 DEF Start, sinkVars
    <3> QED
      BY <2>2, <3>1, <3>2
  <2>4. LocalInv(p)
    BY DEF IInv
  <2>5. Run(p)' = Run(p)
    BY <1>1 DEF Run
  <2>6. \A v, n : HoldsIncrement(p, v, n) => HoldsIncrement(p, v, n)'
    BY <1>1, <2>3, <2>5 DEF HoldsIncrement, Rows, Size
  <2>7. \A v : Size(v)' = Size(v)
    BY <1>1 DEF Size
  <2>8. SessionPhase(p)' /\ MetadataPast(p)'
    BY <1>1, <2>3, <2>4, <2>5 DEF LocalInv, SessionPhase, MetadataPast, At
  <2>9. StreamFaithful(p)'
    BY <1>1, <2>4, <2>6 DEF LocalInv, StreamFaithful, At
  <2>10. VerifiedWhole(p)'
    BY <1>1, <2>4, <2>6, <2>7 DEF LocalInv, VerifiedWhole, At
  <2> QED
    BY <2>8, <2>9, <2>10 DEF LocalInv
<1> QED
  BY <1>2, <1>3

(***************************************************************************)
(* The local invariant of the pipeline that acts.                          *)
(***************************************************************************)
\* Nothing is claimed of a pipeline that is idle, about to abort or about to
\* rename the checkpoint.
LEMMA LocalIdle ==
  ASSUME NEW p \in Pipelines, pc'[p] \in {"idle", "abort", "replace"}
  PROVE  LocalInv(p)'
  BY DEF LocalInv, SessionPhase, MetadataPast, StreamFaithful, VerifiedWhole, At,
     Before, Inspected, Verified, Saving

LEMMA LocalFault ==
  ASSUME TypeOK, NEW q \in Pipelines, Fault(q)
  PROVE  LocalInv(q)'
<1>1. pc'[q] \in {"idle", "abort"}
  BY DEF Fault, InspectFails, BeginFails, StreamFails, PublishFails,
     WriteFails, AbortEmptyFails, SaveFails, SaveUnacknowledged, AbortFails, Kill,
     End, GoTo, TypeOK
<1> QED
  BY <1>1, LocalIdle

\* Up to the open stream: nothing is staged and nothing is claimed of rows.
LEMMA LocalOpening ==
  ASSUME IInv, NEW q \in Pipelines,
         Start(q) \/ ReadHeader(q) \/ ReadMetadata(q) \/ Proceed(q) \/ BeginSession(q)
  PROVE  LocalInv(q)'
<1> USE DEF IInv, TypeOK, GoTo, At, Run, sourceVars, sinkVars
<1>1. job[q] \in Job /\ LocalInv(q)
  BY TypeLocal
<1>2. version \in 1 .. version
  BY BoundsAssumption DEF Versions
<1>3. pc'[q] \in {"header", "metadata", "decide", "begin", "open"}
  BY DEF Start, ReadHeader, ReadMetadata, Proceed, BeginSession
<1>4. SessionPhase(q)'
  <2>1. CASE Start(q)
    <3>1. lastRun + 1 \in Runs /\ lastRun + 1 > lastRun
      <4>1. lastRun < MaxRuns
        BY <2>1 DEF Start
      <4>2. lastRun \in Nat /\ MaxRuns \in Nat
        BY BoundsAssumption
      <4> QED
        BY <4>1, <4>2 DEF Runs
    <3>2. /\ job'[q].run = lastRun + 1 /\ job'[q].pos = 0
          /\ pc'[q] = "header" /\ dir' = dir
      BY <2>1 DEF Start, NoJob
    <3>3. dir[lastRun + 1] = "absent"
      BY <3>1 DEF RunsOwned
    <3> QED
      BY <3>2, <3>3 DEF SessionPhase, Before, Verified
  <2>2. CASE ReadHeader(q)
    BY <1>1, <2>2 DEF ReadHeader, LocalInv, SessionPhase, Before, Verified
  <2>3. CASE ReadMetadata(q)
    <3>1. /\ pc[q] = "metadata" /\ pc'[q] = "decide" /\ dir' = dir
          /\ job'[q].run = job[q].run /\ job'[q].pos = job[q].pos
      BY <1>1, <2>3 DEF ReadMetadata, Job
    <3> QED
      BY <1>1, <3>1 DEF LocalInv, SessionPhase, Before, Verified
  <2>4. CASE Proceed(q)
    <3>1. /\ pc[q] = "decide" /\ pc'[q] = "begin" /\ dir' = dir
          /\ job'[q].run = job[q].run /\ job'[q].pos = job[q].pos
          /\ job'[q].high = job'[q].lower
      BY <1>1, <2>4 DEF Proceed, Job
    <3> QED
      BY <1>1, <3>1 DEF LocalInv, SessionPhase, Before, Verified
  <2>5. CASE BeginSession(q)
    <3>1. /\ pc[q] = "begin" /\ pc'[q] = "open" /\ job' = job
          /\ dir[Run(q)] = "absent" /\ dir' = [dir EXCEPT ![Run(q)] = "staging"]
          /\ parts' = parts /\ seen'[q] = {}
      BY <2>5 DEF BeginSession, SinkBegin
    <3>2. Run(q) \in Runs
      BY <3>1, BoundsAssumption DEF RunsOwned, Runs
    <3>3. parts[Run(q)] = {}
      BY <3>1, <3>2 DEF RunsOwned
    <3> QED
      BY <1>1, <3>1, <3>2, <3>3 DEF LocalInv, SessionPhase, Before, Verified, SinkTypeOK
  <2> QED
    BY <2>1, <2>2, <2>3, <2>4, <2>5
<1>5. MetadataPast(q)'
  <2>1. CASE ReadMetadata(q)
    BY <1>1, <1>2, <2>1 DEF ReadMetadata, MetadataPast, Job
  <2>2. CASE Proceed(q)
    BY <1>1, <2>2 DEF Proceed, MetadataPast, Job, LocalInv, Inspected
  <2>3. CASE BeginSession(q)
    BY <1>1, <2>3 DEF BeginSession, MetadataPast, LocalInv, Inspected
  <2>4. CASE Start(q) \/ ReadHeader(q)
    BY <2>4 DEF Start, ReadHeader, MetadataPast, Inspected, Verified, Saving
  <2> QED
    BY <2>1, <2>2, <2>3, <2>4
<1>6. StreamFaithful(q)' /\ VerifiedWhole(q)'
  BY <1>3 DEF StreamFaithful, VerifiedWhole, Verified
<1> QED
  BY <1>4, <1>5, <1>6 DEF LocalInv

\* The stream opens on the version the file is in, with nothing read.
LEMMA LocalOpen ==
  ASSUME IInv, NEW q \in Pipelines, OpenSource(q)
  PROVE  LocalInv(q)'
<1> USE DEF IInv
<1>1. job[q] \in Job /\ LocalInv(q) /\ pc \in [Pipelines -> Labels]
      /\ job \in [Pipelines -> Job]
  BY TypeLocal DEF TypeOK
<1>2. /\ pc[q] = "open" /\ pc'[q] = "stream"
      /\ feed' = feed /\ version' = version /\ dir' = dir
      /\ parts' = parts /\ seen' = seen
      /\ job'[q] = [job[q] EXCEPT !.view = {version}]
  BY <1>1 DEF OpenSource, At, GoTo, sourceVars, sinkVars
<1>3. /\ job'[q].view = {version} /\ job'[q].run = job[q].run
      /\ job'[q].meta = job[q].meta /\ job'[q].lower = job[q].lower
      /\ job'[q].high = job[q].high /\ job'[q].pos = job[q].pos
  BY <1>1, <1>2 DEF Job
<1>4. /\ dir[Run(q)] = "staging" /\ parts[Run(q)] = {} /\ seen[q] = {}
      /\ job[q].pos = 0 /\ job[q].high = job[q].lower /\ job[q].meta \in 1 .. version
  BY <1>1, <1>2 DEF LocalInv, SessionPhase, MetadataPast, Before, Inspected, At
<1>5. SessionPhase(q)' /\ MetadataPast(q)' /\ VerifiedWhole(q)'
  BY <1>2, <1>3, <1>4 DEF SessionPhase, MetadataPast, VerifiedWhole, Before,
     Verified, At, Run
<1>6. ASSUME version = job[q].meta
      PROVE  HoldsIncrement(q, job[q].meta, 0)'
  <2>1. Rows(version, 0, 0) = {}
    BY RowsSplit DEF TypeOK
  <2>2. Rows(job[q].meta, 0, 0)' = {}
    BY <1>2, <1>3, <1>6, <2>1 DEF Rows, Size
  <2>3. job[q].lower <= job[q].lower
    BY TypeLocal, BoundsAssumption
  <2>4. /\ Valid({}, job[q].lower) /\ NewRows({}, job[q].lower) = {}
        /\ FirstOfKey({}, {}) = {} /\ KeysOf({}) = {}
        /\ IsNewest(job[q].lower, job[q].lower, {})
    BY <2>3 DEF Valid, NewRows, FirstOfKey, KeysOf, IsNewest
  <2>5. /\ parts'[Run(q)'] = {} /\ seen'[q] = {}
        /\ job'[q].lower = job[q].lower /\ job'[q].high = job[q].lower
    BY <1>2, <1>3, <1>4 DEF Run
  <2> QED
    BY <2>2, <2>4, <2>5 DEF HoldsIncrement
<1>7. StreamFaithful(q)'
  BY <1>2, <1>3, <1>4, <1>6 DEF StreamFaithful, At, HoldsIncrement
<1> QED
  BY <1>5, <1>7 DEF LocalInv

\* A chunk of the version that was inspected extends the increment.
LEMMA HoldsChunk ==
  ASSUME IInv, NEW q \in Pipelines, IngestChunk(q), version = job[q].meta
  PROVE  /\ job'[q].view = {job[q].meta}
         /\ HoldsIncrement(q, job[q].meta, job[q].pos)'
<1> DEFINE low == job[q].lower
           pos == job[q].pos
           v == job[q].meta
           R == Rows(v, 0, pos)
           S == Rows(v, pos, pos + ChunkSize)
           old == NewRows(R, low)
           new == NewRows(S, low)
<1>1. /\ TypeOK /\ job[q] \in Job /\ LocalInv(q)
      /\ job \in [Pipelines -> Job] /\ seen \in [Pipelines -> SUBSET Keys]
      /\ parts \in [Runs -> SUBSET (Nat \X Row)]
  BY TypeLocal DEF IInv, TypeOK, SinkTypeOK
<1>2. job[q].view = {v} /\ HoldsIncrement(q, v, pos)
  BY <1>1 DEF LocalInv, StreamFaithful, IngestChunk
<1>3. /\ v \in Versions /\ pos \in Nat /\ low \in Nat /\ job[q].high \in Nat
      /\ ChunkSize \in Nat /\ pos + ChunkSize \in Nat
  <2>1. /\ pos \in Nat /\ low \in 0 .. MaxDate /\ job[q].high \in 0 .. MaxDate
        /\ version \in Versions
    BY <1>1, TypeLocal DEF TypeOK
  <2> QED
    BY <2>1, ConstantsAssumption, BoundsAssumption
<1>4. PICK h \in 0 .. MaxDate :
        /\ Valid(S, low)
        /\ IsNewest(h, job[q].high, new)
        /\ job' = [job EXCEPT ![q].pos = pos + ChunkSize, ![q].high = h]
        /\ seen' = [seen EXCEPT ![q] = @ \union KeysOf(new)]
        /\ parts' = [parts EXCEPT ![Run(q)] = @ \union FirstOfKey(new, seen[q])]
  BY <1>2 DEF IngestChunk, CheckAndAdd, SinkWrite
<1>5. Run(q) \in Runs
  BY BoundsAssumption DEF IngestChunk, At, IInv, RunsOwned, TypeOK, Runs
<1>6. /\ job'[q].pos = pos + ChunkSize /\ job'[q].high = h
      /\ job'[q].lower = low /\ job'[q].meta = v /\ job'[q].view = {v}
      /\ job'[q].run = job[q].run
      /\ seen'[q] = seen[q] \union KeysOf(new)
      /\ parts'[Run(q)] = parts[Run(q)] \union FirstOfKey(new, seen[q])
  BY <1>1, <1>2, <1>4, <1>5 DEF Job
<1>7. Rows(v, 0, pos + ChunkSize) = R \union S
  <2> HIDE DEF v, pos
  <2> QED
    BY <1>1, <1>3, RowsSplit
<1>8. R \subseteq Nat \X Row /\ S \subseteq Nat \X Row
  BY <1>1, <1>3, RowsType
<1>9. \A x \in old, y \in new : x[1] < y[1]
  BY <1>1, <1>3, RowsSplit DEF NewRows
<1>10. old \subseteq Nat \X Row /\ new \subseteq Nat \X Row
  BY <1>8 DEF NewRows
<1>11. /\ NewRows(R \union S, low) = old \union new
       /\ KeysOf(old \union new) = KeysOf(old) \union KeysOf(new)
       /\ Valid(R \union S, low)
  <2>1. Valid(R, low) /\ Valid(S, low)
    BY <1>2, <1>4 DEF HoldsIncrement
  <2> HIDE DEF R, S, low
  <2> QED
    BY <2>1, ValidUnion
<1>12. FirstOfKey(old \union new, {}) = FirstOfKey(old, {}) \union FirstOfKey(new, KeysOf(old))
  BY <1>9, <1>10, FirstOfKeyUnion
<1>13. IsNewest(h, low, old \union new)
  <2>1. h \in Nat /\ IsNewest(job[q].high, low, old)
    BY <1>2, BoundsAssumption DEF HoldsIncrement
  <2> QED
    BY <1>3, <1>4, <1>10, <2>1, IsNewestUnion
<1>14. feed' = feed
  BY DEF IngestChunk, sourceVars
<1>15. \A w, n : Rows(w, 0, n)' = Rows(w, 0, n)
  BY <1>14 DEF Rows, Size
<1>16. /\ parts[Run(q)] = FirstOfKey(old, {})
       /\ seen[q] = KeysOf(old)
  BY <1>2 DEF HoldsIncrement
<1>17. /\ parts'[Run(q)] = FirstOfKey(old \union new, {})
       /\ seen'[q] = KeysOf(old \union new)
  BY <1>6, <1>11, <1>12, <1>16
<1>18. Rows(job[q].meta, 0, job[q].pos)' = R \union S
  BY <1>6, <1>7, <1>14 DEF Rows, Size
<1>19. Run(q)' = Run(q)
  BY <1>6 DEF Run
<1>20. HoldsIncrement(q, job[q].meta, job[q].pos)'
  BY <1>6, <1>11, <1>13, <1>17, <1>18, <1>19 DEF HoldsIncrement
<1> QED
  BY <1>6, <1>20

LEMMA LocalChunk ==
  ASSUME IInv, NEW q \in Pipelines, IngestChunk(q)
  PROVE  LocalInv(q)'
<1>1. /\ job[q] \in Job /\ LocalInv(q)
      /\ job \in [Pipelines -> Job] /\ dir \in [Runs -> DirStates]
  BY TypeLocal DEF IInv, TypeOK, SinkTypeOK
<1>2. pc[q] = "stream" /\ pc' = pc /\ version' = version /\ dir' = dir
  BY DEF IngestChunk, At, sourceVars, SinkWrite
<1>3. job'[q].run = job[q].run /\ job'[q].meta = job[q].meta
  BY <1>1 DEF IngestChunk, Job
<1>4. SessionPhase(q)' /\ MetadataPast(q)' /\ VerifiedWhole(q)'
  BY <1>1, <1>2, <1>3 DEF LocalInv, SessionPhase, MetadataPast, VerifiedWhole,
     Before, Inspected, Verified, At, Run
<1>5. StreamFaithful(q)'
  BY <1>2, <1>3, HoldsChunk DEF StreamFaithful
<1> QED
  BY <1>4, <1>5 DEF LocalInv

\* At the end of the stream of an unchanged file everything was read.
LEMMA LocalVerify ==
  ASSUME IInv, NEW q \in Pipelines, VerifySource(q)
  PROVE  LocalInv(q)'
<1>1. /\ TypeOK /\ LocalInv(q) /\ job[q].pos \in Nat
      /\ pc \in [Pipelines -> Labels]
  BY TypeLocal DEF IInv, TypeOK
<1>2. /\ pc[q] = "stream" /\ version = job[q].meta
      /\ job' = job /\ version' = version /\ feed' = feed
      /\ dir' = dir /\ parts' = parts /\ seen' = seen
      /\ pc'[q] = IF parts[Run(q)] # {} THEN "publish" ELSE "empty"
  BY <1>1 DEF VerifySource, EndOfStream, At, GoTo, sourceVars, sinkVars
<1>3. job[q].view = {job[q].meta} /\ HoldsIncrement(q, job[q].meta, job[q].pos)
  BY <1>1, <1>2 DEF LocalInv, StreamFaithful, At
<1>4. job[q].pos >= Size(job[q].meta) /\ job[q].meta \in Versions
  BY <1>1, <1>2, <1>3 DEF VerifySource, EndOfStream, TypeOK
<1>5. Rows(job[q].meta, 0, job[q].pos) = AllRows(job[q].meta)
  BY <1>1, <1>4, RowsSplit, ConstantsAssumption
<1>6. HoldsIncrement(q, job[q].meta, Size(job[q].meta))
  BY <1>3, <1>5 DEF HoldsIncrement, AllRows
<1>7. HoldsIncrement(q, job[q].meta, Size(job[q].meta))'
  BY <1>2, <1>6 DEF HoldsIncrement, Rows, Size, Run
<1>8. SessionPhase(q)' /\ MetadataPast(q)' /\ StreamFaithful(q)'
  BY <1>1, <1>2 DEF LocalInv, SessionPhase, MetadataPast, StreamFaithful, Before,
     Inspected, Verified, At, Run
<1> QED
  BY <1>7, <1>8 DEF LocalInv, VerifiedWhole

LEMMA LocalSave ==
  ASSUME IInv, NEW q \in Pipelines, PublishRaw(q) \/ AbortEmpty(q) \/ SaveOpen(q)
  PROVE  LocalInv(q)'
<1>1. /\ pc'[q] \in Saving /\ job' = job /\ version' = version
      /\ pc[q] \in Verified \union {"save"}
  BY DEF IInv, TypeOK, PublishRaw, AbortEmpty, SaveOpen, GoTo, At, sourceVars,
     Verified, Saving
<1>2. MetadataPast(q)'
  BY <1>1 DEF IInv, LocalInv, MetadataPast, Saving
<1> QED
  BY <1>1, <1>2 DEF LocalInv, SessionPhase, StreamFaithful, VerifiedWhole, At,
     Before, Verified, Saving

LEMMA LocalActing ==
  ASSUME IInv, NEW q \in Pipelines, Acts(q)
  PROVE  LocalInv(q)'
<1>1. CASE RejectHeader(q) \/ LoadCorrupt(q) \/ SkipUnchanged(q) \/ RejectOpen(q)
           \/ RejectChunk(q) \/ SourceChanged(q) \/ SaveFill(q) \/ SaveReplace(q)
           \/ SaveLost(q) \/ AbortRaw(q)
  <2>1. pc'[q] \in {"idle", "abort", "replace"}
    BY <1>1 DEF IInv, TypeOK, RejectHeader, LoadCorrupt, SkipUnchanged, RejectOpen,
       RejectChunk, SourceChanged, SaveFill, SaveReplace, SaveLost, AbortRaw, End, GoTo
  <2> QED
    BY <2>1, LocalIdle
<1>2. TypeOK
  BY DEF IInv
<1> QED
  BY <1>1, <1>2, LocalFault, LocalOpening, LocalOpen, LocalChunk, LocalVerify, LocalSave
  DEF Acts, Step

(***************************************************************************)
(* The invariant.                                                          *)
(***************************************************************************)
LEMMA PublishedStep ==
  ASSUME IInv, NEW q \in Pipelines, Acts(q)
  PROVE  PublishedWhole'
<1>1. TypeOK /\ RunsOwned /\ LocalInv(q) /\ PublishedWhole
  BY DEF IInv
<1>2. feed' = feed
  BY <1>1, FrameOthers
<1>3. \A v : AllRows(v)' = AllRows(v)
  BY <1>2 DEF AllRows, Rows, Size
<1> SUFFICES ASSUME NEW r \in Published'
             PROVE  \E v \in Versions, low \in 0 .. MaxDate :
                      /\ Valid(AllRows(v), low)
                      /\ parts'[r] = FirstOfKey(NewRows(AllRows(v), low), {})
  BY <1>3 DEF PublishedWhole
<1>4. CASE r \in Published
  BY <1>1, <1>4, FrameSink DEF PublishedWhole, LocalInv
<1>5. CASE r \notin Published
  <2>1. At(q, "publish") /\ r = Run(q) /\ parts'[r] = parts[r]
    BY <1>1, <1>5, FrameSink DEF LocalInv
  <2>2. HoldsIncrement(q, job[q].meta, Size(job[q].meta)) /\ job[q].meta \in 1 .. version
    BY <1>1, <2>1 DEF LocalInv, VerifiedWhole, MetadataPast, Verified, At
  <2>3. job[q].meta \in Versions /\ job[q].lower \in 0 .. MaxDate
    BY <1>1, <2>2, TypeLocal, BoundsAssumption DEF TypeOK, Versions
  <2> QED
    BY <2>1, <2>2, <2>3 DEF HoldsIncrement, AllRows
<1> QED
  BY <1>4, <1>5

LEMMA PublishedKept ==
  ASSUME PublishedWhole, feed' = feed, dir' = dir, parts' = parts
  PROVE  PublishedWhole'
<1>1. \A v : AllRows(v)' = AllRows(v)
  BY DEF AllRows, Rows, Size
<1>2. Published' = Published
  BY DEF Published
<1> QED
  BY <1>1, <1>2 DEF PublishedWhole

\* A rewrite of the source only takes the file away from an identity that was
\* read earlier.
LEMMA FrameRewrite ==
  ASSUME TypeOK, RewriteSource
  PROVE  /\ version' = version + 1 /\ version \in Nat
         /\ feed' = feed /\ pc' = pc /\ seen' = seen /\ lastRun' = lastRun
         /\ dir' = dir /\ parts' = parts
         /\ disk' = disk /\ ckpt' = ckpt
         /\ \A p \in Pipelines :
              /\ job'[p].run = job[p].run /\ job'[p].meta = job[p].meta
              /\ job'[p].lower = job[p].lower /\ job'[p].high = job[p].high
              /\ job'[p].pos = job[p].pos
<1>1. version \in Nat
  BY BoundsAssumption DEF TypeOK, Versions
<1>2. ASSUME NEW p \in Pipelines
      PROVE  /\ job'[p].run = job[p].run /\ job'[p].meta = job[p].meta
             /\ job'[p].lower = job[p].lower /\ job'[p].high = job[p].high
             /\ job'[p].pos = job[p].pos
  <2>1. job[p] \in Job
    BY TypeLocal
  <2>2. job'[p] \in {job[p], [job[p] EXCEPT !.view = @ \union {version + 1}]}
    BY DEF RewriteSource
  <2> QED
    BY <2>1, <2>2 DEF Job
<1> QED
  BY <1>1, <1>2 DEF RewriteSource, runVars, sinkVars, storeVars

LEMMA RewriteStep ==
  IInv /\ RewriteSource
    => RunsOwned' /\ PublishedWhole' /\ \A p \in Pipelines : LocalInv(p)'
<1> SUFFICES ASSUME IInv, RewriteSource
             PROVE  RunsOwned' /\ PublishedWhole' /\ \A p \in Pipelines : LocalInv(p)'
  OBVIOUS
<1>1. TypeOK /\ RunsOwned /\ PublishedWhole
  BY DEF IInv
<1>2. RunsOwned'
  BY <1>1, FrameRewrite DEF RunsOwned, At, Run
<1>3. PublishedWhole'
  BY <1>1, FrameRewrite, PublishedKept
<1>4. ASSUME NEW p \in Pipelines
      PROVE  LocalInv(p)'
  <2>1. LocalInv(p)
    BY DEF IInv
  <2>2. /\ version' = version + 1 /\ version \in Nat
        /\ feed' = feed /\ pc' = pc /\ seen' = seen
        /\ dir' = dir /\ parts' = parts
        /\ job'[p].run = job[p].run /\ job'[p].meta = job[p].meta
        /\ job'[p].lower = job[p].lower /\ job'[p].high = job[p].high
        /\ job'[p].pos = job[p].pos
    BY <1>1, FrameRewrite
  <2>3. SessionPhase(p)' /\ MetadataPast(p)'
    BY <2>1, <2>2 DEF LocalInv, SessionPhase, MetadataPast, At, Run
  <2>4. StreamFaithful(p)'
    BY <2>1, <2>2 DEF LocalInv, MetadataPast, StreamFaithful, Inspected, At
  <2>5. \A v, n : HoldsIncrement(p, v, n) => HoldsIncrement(p, v, n)'
    BY <2>2 DEF HoldsIncrement, Rows, Size, Run
  <2>6. VerifiedWhole(p)'
    BY <2>1, <2>2, <2>5 DEF LocalInv, VerifiedWhole, Size
  <2> QED
    BY <2>3, <2>4, <2>6 DEF LocalInv
<1> QED
  BY <1>2, <1>3, <1>4

LEMMA StutterStep ==
  ASSUME IInv, UNCHANGED vars
  PROVE  RunsOwned' /\ PublishedWhole' /\ \A p \in Pipelines : LocalInv(p)'
<1>1. /\ feed' = feed /\ version' = version /\ pc' = pc /\ job' = job
      /\ seen' = seen /\ lastRun' = lastRun /\ dir' = dir /\ parts' = parts
  BY DEF vars, sourceVars, runVars, sinkVars
<1>2. RunsOwned' /\ PublishedWhole'
  BY <1>1, PublishedKept DEF IInv, RunsOwned, At, Run
<1>3. ASSUME NEW p \in Pipelines
      PROVE  LocalInv(p)'
  <2>1. \A v, n : HoldsIncrement(p, v, n) => HoldsIncrement(p, v, n)'
    BY <1>1 DEF HoldsIncrement, Rows, Size, Run
  <2> QED
    BY <1>1, <2>1 DEF IInv, LocalInv, SessionPhase, MetadataPast, StreamFaithful,
       VerifiedWhole, Size, At, Run
<1> QED
  BY <1>2, <1>3

LEMMA IInvInit == Init => IInv
<1> SUFFICES ASSUME Init PROVE IInv
  OBVIOUS
<1>1. TypeOK
  BY TypeInit
<1>2. RunsOwned /\ PublishedWhole
  BY DEF Init, SinkInit, RunsOwned, PublishedWhole, Published, At
<1>3. \A p \in Pipelines : LocalInv(p)
  BY DEF Init, LocalInv, SessionPhase, MetadataPast, StreamFaithful, VerifiedWhole,
     Before, Inspected, Verified, Saving, At
<1> QED
  BY <1>1, <1>2, <1>3 DEF IInv

LEMMA IInvNext == IInv /\ [Next]_vars => IInv'
<1> SUFFICES ASSUME IInv, [Next]_vars PROVE IInv'
  OBVIOUS
<1>1. TypeOK'
  BY TypeNext DEF IInv
<1>2. ASSUME NEW q \in Pipelines, Acts(q)
      PROVE  RunsOwned' /\ PublishedWhole' /\ \A p \in Pipelines : LocalInv(p)'
  <2>1. RunsOwned'
    BY <1>2, RunsOwnedStep DEF IInv, LocalInv
  <2> QED
    BY <1>2, <2>1, PublishedStep, LocalActing, LocalOthers
<1> QED
  BY <1>1, <1>2, RewriteStep, StutterStep DEF IInv, Next, Finished, Acts

\* The inductive invariant of the ingestion: who owns which run, where its
\* directory is at each step, and what it holds.
THEOREM IInvCorrect == Spec => []IInv
  BY IInvInit, IInvNext, PTL DEF Spec

\* Every published run is the whole increment of one version of the source,
\* whatever was rewritten, killed or repeated while it was ingested.
THEOREM PublishedWholeCorrect == Spec => []PublishedWhole
<1>1. IInv => PublishedWhole
  BY DEF IInv
<1> QED
  BY <1>1, IInvCorrect, PTL

\* No step moves, removes or writes to a published run.
THEOREM RawImmutableCorrect == Spec => RawImmutable
<1> DEFINE Kept == \A r \in Published : dir'[r] = "published" /\ parts'[r] = parts[r]
<1>1. ASSUME IInv, [Next]_vars
      PROVE  Kept
  <2>1. ASSUME NEW q \in Pipelines, Acts(q)
        PROVE  Kept
    BY <1>1, <2>1, FrameSink DEF IInv, LocalInv
  <2>2. CASE RewriteSource \/ UNCHANGED vars
    BY <2>2 DEF RewriteSource, vars, sinkVars, Published
  <2> QED
    BY <1>1, <2>1, <2>2 DEF Next, Finished, Acts
<1>2. IInv /\ [Next]_vars => [Kept]_vars
  BY <1>1
<1> QED
  BY <1>2, IInvCorrect, PTL DEF Spec, RawImmutable

(***************************************************************************)
(* The raw layer of RawLayer is implemented.                               *)
(***************************************************************************)
LEMMA RawInit == Init => Raw!Init
BY DEF Init, SinkInit, Published, Visible, Raw!Init

\* What the source has offered it goes on offering.
LEMMA OfferedGrows ==
  ASSUME TypeOK, [Next]_vars
  PROVE  /\ Offered \subseteq Offered'
         /\ version' = version => Offered' = Offered
<1>1. feed' = feed /\ (version' = version \/ version' = version + 1)
  <2>1. ASSUME NEW q \in Pipelines, Acts(q)
        PROVE  feed' = feed /\ version' = version
    BY <2>1, FrameOthers
  <2> QED
    BY <2>1, FrameRewrite DEF Next, Finished, Acts, vars, sourceVars
<1>2. \A v, low : /\ Valid(AllRows(v), low)' = Valid(AllRows(v), low)
                  /\ FirstOfKey(NewRows(AllRows(v), low), {})'
                       = FirstOfKey(NewRows(AllRows(v), low), {})
  BY <1>1 DEF AllRows, Rows, Size, Valid, NewRows, IsNew, FirstOfKey
<1>3. version \in Nat
  BY BoundsAssumption DEF TypeOK, Versions
<1>4. 1 .. version \subseteq 1 .. version'
  BY <1>1, <1>3
<1> QED
  BY <1>1, <1>2, <1>4 DEF Offered

\* A step makes at most one run visible, with what was staged in it.
LEMMA VisibleStep ==
  ASSUME IInv, NEW q \in Pipelines, Acts(q)
  PROVE  \/ Visible' = Visible
         \/ /\ At(q, "publish") /\ Run(q) \in Runs /\ Visible[Run(q)] = {}
            /\ Visible' = [Visible EXCEPT ![Run(q)] = parts[Run(q)]]
<1>1. /\ \A r \in Published : dir'[r] = "published" /\ parts'[r] = parts[r]
      /\ \A r \in Published' \ Published :
           At(q, "publish") /\ r = Run(q) /\ parts'[r] = parts[r]
  BY FrameSink DEF IInv, LocalInv
<1>2. CASE Published' = Published
  BY <1>1, <1>2 DEF Visible
<1>3. CASE Published' # Published
  <2>1. Published \subseteq Published'
    BY <1>1 DEF Published
  <2>2. PICK r \in Published' : r \notin Published
    BY <1>3, <2>1
  <2>3. At(q, "publish") /\ r = Run(q) /\ r \in Runs
    BY <1>1, <2>2 DEF Published
  <2>4. Published' = Published \union {r}
    BY <1>1, <2>1, <2>2, <2>3
  <2> QED
    BY <1>1, <2>2, <2>3, <2>4 DEF Visible
<1> QED
  BY <1>2, <1>3

LEMMA RawNext ==
  ASSUME IInv, [Next]_vars
  PROVE  [Raw!Next]_<<Visible, Offered>>
<1>1. Offered \subseteq Offered' /\ (version' = version => Offered' = Offered)
  BY OfferedGrows DEF IInv
<1>2. ASSUME Visible' = Visible
      PROVE  Raw!Next
  BY <1>1, <1>2 DEF Raw!Next, Raw!Offer
<1>3. ASSUME NEW q \in Pipelines, Acts(q)
      PROVE  Raw!Next
  <2>1. CASE Visible' = Visible
    BY <1>2, <2>1
  <2>2. CASE /\ At(q, "publish") /\ Run(q) \in Runs /\ Visible[Run(q)] = {}
             /\ Visible' = [Visible EXCEPT ![Run(q)] = parts[Run(q)]]
    <3>1. /\ HoldsIncrement(q, job[q].meta, Size(job[q].meta))
          /\ job[q].meta \in 1 .. version
      BY <2>2 DEF IInv, LocalInv, VerifiedWhole, MetadataPast, Verified, At
    <3>2. job[q].lower \in 0 .. MaxDate
      BY TypeLocal DEF IInv
    <3>3. parts[Run(q)] \in Offered
      <4> DEFINE w == <<job[q].meta, job[q].lower>>
      <4>1. w \in (1 .. version) \X (0 .. MaxDate)
        BY <3>1, <3>2
      <4>2. Valid(AllRows(w[1]), w[2])
              /\ parts[Run(q)] = FirstOfKey(NewRows(AllRows(w[1]), w[2]), {})
        BY <3>1 DEF HoldsIncrement, AllRows
      <4> HIDE DEF w
      <4> QED
        BY <4>1, <4>2 DEF Offered
    <3>4. version' = version
      BY <1>3, FrameOthers DEF IInv
    <3> QED
      BY <1>1, <2>2, <3>3, <3>4 DEF Raw!Next, Raw!Appear
  <2> QED
    BY <1>3, <2>1, <2>2, VisibleStep
<1>4. CASE RewriteSource \/ UNCHANGED vars
  BY <1>2, <1>4 DEF RewriteSource, vars, sinkVars, Visible, Published
<1> QED
  BY <1>3, <1>4 DEF Next, Finished, Acts

\* Ingestion implements the raw layer its readers rely on: any number of
\* pipelines, whatever fails, is repeated, is killed or is rewritten.
THEOREM RawLayerImplemented == Spec => ImplementsRawLayer
<1>1. IInv /\ [Next]_vars => [Raw!Next]_<<Visible, Offered>>
  BY RawNext
<1> QED
  BY <1>1, RawInit, IInvCorrect, PTL DEF Spec, ImplementsRawLayer, Raw!Spec

=============================================================================
