------------------------------ MODULE RunProofs ------------------------------
(***************************************************************************)
(* What runs leave behind, and what a single pipeline can rely on: with    *)
(* nobody else at the shared temporary file its checkpoint stays whole and *)
(* only advances, and its increments do not overlap.                       *)
(***************************************************************************)
EXTENDS IncrementProofs

(***************************************************************************)
(* Staging directories.                                                    *)
(***************************************************************************)
Tidy(p) ==
  /\ ~At(p, "idle") => outcome[Run(p)] = "running"
  /\ pc[p] \in {"save", "fill", "replace"} => dir[Run(p)] # "staging"

TidyInv == StagingReclaimed /\ \A p \in Pipelines : Tidy(p)

\* Only the acting run's outcome changes, or that of the run that starts.
LEMMA FrameOutcome ==
  ASSUME TypeOK, NEW q \in Pipelines, Acts(q)
  PROVE  /\ Start(q) => /\ outcome' = [outcome EXCEPT ![lastRun + 1] = "running"]
                        /\ dir' = dir
         /\ Step(q) \/ Fault(q) => \A r \in Runs \ {Run(q)} : outcome'[r] = outcome[r]
<1> USE DEF TypeOK, End, runVars
<1>1. CASE Start(q)
  BY <1>1, RunKept DEF Start, sinkVars, At
<1>2. CASE Fault(q)
  BY <1>2, RunKept DEF Fault, InspectFails, BeginFails, StreamFails, PublishFails,
     WriteFails, AbortEmptyFails, SaveFails, SaveUnacknowledged, AbortFails, Kill, Start, At
<1>3. CASE Step(q)
  BY <1>3, RunKept DEF Step, ReadHeader, RejectHeader, ReadMetadata, LoadCorrupt,
     SkipUnchanged, Proceed, BeginSession, OpenSource, RejectOpen, IngestChunk,
     RejectChunk, VerifySource, SourceChanged, PublishRaw, AbortEmpty, SaveOpen,
     SaveFill, SaveReplace, SaveLost, AbortRaw, Start, At
<1> QED
  BY <1>1, <1>2, <1>3 DEF Acts

\* The acting pipeline, when only plain I/O errors are possible: a run that
\* ends has no staging directory any more.
LEMMA TidyActing ==
  ASSUME Faults \subseteq {"io"}, IInv, TidyInv, NEW q \in Pipelines, Step(q) \/ Fault(q)
  PROVE  /\ Tidy(q)'
         /\ dir'[Run(q)] = "staging" => outcome'[Run(q)] = "running"
<1>0. /\ TypeOK /\ SinkTypeOK /\ SessionPhase(q) /\ Tidy(q)
      /\ Run(q) \in Runs
  <2>1. ~At(q, "idle")
    BY RunKept DEF IInv
  <2> QED
    BY <2>1, BoundsAssumption DEF IInv, LocalInv, TidyInv, TypeOK, RunsOwned, Runs
<1> USE DEF TypeOK, SinkTypeOK, SessionPhase, Before, Tidy, At, GoTo, Run
<1>1. CASE RejectHeader(q) \/ LoadCorrupt(q) \/ SkipUnchanged(q) \/ InspectFails(q)
           \/ SaveReplace(q) \/ SaveLost(q) \/ SaveFails(q)
  BY <1>0, <1>1 DEF RejectHeader, LoadCorrupt, SkipUnchanged, InspectFails, SaveReplace,
     SaveLost, SaveFails, End, sinkVars
<1>2. CASE AbortRaw(q)
  BY <1>0, <1>2 DEF AbortRaw, End, SinkAbort, sinkVars
<1>3. CASE BeginFails(q)
  BY <1>0, <1>3 DEF BeginFails, End, sinkVars
<1>4. CASE ReadHeader(q) \/ ReadMetadata(q) \/ Proceed(q) \/ BeginSession(q)
           \/ OpenSource(q) \/ RejectOpen(q)
  <2>1. job[q] \in Job
    BY <1>0, TypeLocal
  <2> QED
    BY <1>0, <1>4, <2>1 DEF ReadHeader, ReadMetadata, Proceed, BeginSession, OpenSource,
       RejectOpen, runVars, sinkVars, Job
<1>5. CASE IngestChunk(q) \/ RejectChunk(q) \/ VerifySource(q) \/ SourceChanged(q)
           \/ StreamFails(q) \/ WriteFails(q) \/ AbortEmptyFails(q)
  BY <1>0, <1>5, RunKept DEF IngestChunk, RejectChunk, VerifySource, SourceChanged,
     StreamFails, WriteFails, AbortEmptyFails, EndOfStream, runVars, sinkVars
<1>6. CASE PublishRaw(q) \/ PublishFails(q) \/ AbortEmpty(q)
  BY <1>0, <1>6 DEF PublishRaw, PublishFails, AbortEmpty, SinkCommit, SinkAbort, runVars,
     sinkVars
<1>7. CASE SaveOpen(q) \/ SaveFill(q)
  BY <1>0, <1>7 DEF SaveOpen, SaveFill, runVars, sinkVars
<1>8. ~SaveUnacknowledged(q) /\ ~AbortFails(q) /\ ~Kill(q)
  BY DEF SaveUnacknowledged, AbortFails, Kill
<1> QED
  BY <1>1, <1>2, <1>3, <1>4, <1>5, <1>6, <1>7, <1>8 DEF Step, Fault

LEMMA TidyNext ==
  ASSUME Faults \subseteq {"io"}, IInv, TidyInv, [Next]_vars
  PROVE  TidyInv'
<1>0. TypeOK /\ RunsOwned /\ StagingReclaimed
  BY DEF IInv, TidyInv
<1>1. CASE RewriteSource
  <2>1. /\ pc' = pc /\ dir' = dir /\ outcome' = outcome
        /\ \A p \in Pipelines : job'[p].run = job[p].run
    BY <1>0, <1>1, FrameRewrite DEF RewriteSource, runVars
  <2> QED
    BY <2>1 DEF TidyInv, Tidy, StagingReclaimed, At, Run
<1>2. CASE UNCHANGED vars
  BY <1>2 DEF vars, runVars, sinkVars, TidyInv, Tidy, StagingReclaimed, At, Run
<1>3. ASSUME NEW q \in Pipelines, Start(q)
      PROVE  TidyInv'
  <2>0. /\ outcome' = [outcome EXCEPT ![lastRun + 1] = "running"] /\ dir' = dir
    BY <1>0, <1>3, FrameOutcome DEF Acts
  <2>1. /\ outcome' = [outcome EXCEPT ![lastRun + 1] = "running"] /\ dir' = dir
        /\ pc'[q] = "header" /\ job'[q].run = lastRun + 1 /\ lastRun + 1 \in Runs
    <3>1. pc'[q] = "header" /\ lastRun < MaxRuns
      BY <1>0, <1>3 DEF Start, GoTo, TypeOK
    <3>2. job'[q].run = lastRun + 1
      BY <1>0, <1>3 DEF Start, NoJob, TypeOK
    <3>3. lastRun + 1 \in Runs
      BY <1>0, <3>1, BoundsAssumption DEF TypeOK, Runs
    <3> QED
      BY <2>0, <3>1, <3>2, <3>3
  <2>2. \A p \in Pipelines \ {q} : pc'[p] = pc[p] /\ job'[p] = job[p]
    BY <1>0, <1>3, FrameOthers DEF Acts
  <2>3. \A p \in Pipelines : ~At(p, "idle") => Run(p) # lastRun + 1
    BY <1>0 DEF RunsOwned, TypeOK
  <2>4. StagingReclaimed'
    BY <1>0, <2>1 DEF StagingReclaimed, TypeOK
  <2> QED
    BY <1>0, <2>1, <2>2, <2>3, <2>4 DEF TidyInv, Tidy, At, Run, TypeOK
<1>4. ASSUME NEW q \in Pipelines, Step(q) \/ Fault(q)
      PROVE  TidyInv'
  <2>1. /\ \A r \in Runs \ {Run(q)} : outcome'[r] = outcome[r] /\ dir'[r] = dir[r]
        /\ \A p \in Pipelines \ {q} : pc'[p] = pc[p] /\ job'[p] = job[p]
    BY <1>0, <1>4, FrameOthers, FrameOutcome DEF Acts
  <2>2. Tidy(q)' /\ (dir'[Run(q)] = "staging" => outcome'[Run(q)] = "running")
    BY <1>4, TidyActing
  <2>3. \A p \in Pipelines \ {q} : ~At(p, "idle") => Run(p) \in Runs \ {Run(q)}
    BY <1>0, <1>4, RunKept, BoundsAssumption DEF RunsOwned, TypeOK, Runs
  <2>4. StagingReclaimed'
    BY <1>0, <2>1, <2>2 DEF StagingReclaimed
  <2>5. ASSUME NEW p \in Pipelines \ {q} PROVE Tidy(p)'
    BY <2>1, <2>3 DEF TidyInv, Tidy, At, Run
  <2> QED
    BY <2>2, <2>4, <2>5 DEF TidyInv
<1> QED
  BY <1>1, <1>2, <1>3, <1>4 DEF Next, Finished

\* While nothing worse than a failing operation happens, a staging directory
\* exists only for a run that is still running.  (finally clause)
THEOREM StagingReclaimedCorrect ==
  ASSUME Faults \subseteq {"io"} PROVE Spec => []StagingReclaimed
<1>1. Init => TidyInv
  BY DEF Init, SinkInit, TidyInv, Tidy, StagingReclaimed, At
<1>2. IInv /\ TidyInv /\ [Next]_vars => TidyInv'
  BY TidyNext
<1>3. TidyInv => StagingReclaimed
  BY DEF TidyInv
<1> QED
  BY <1>1, <1>2, <1>3, IInvCorrect, PTL DEF Spec

(***************************************************************************)
(* The checkpoint of a single pipeline.                                    *)
(***************************************************************************)
\* The checkpoint is a whole file, under its name alone, of an earlier run.
CheckpointWhole ==
  /\ ckpt # NoFile => disk[ckpt] # Torn /\ ckpt # tmp
  /\ ckpt <= lastRun /\ tmp <= lastRun

\* What the pipeline has made of the temporary file.
Writing(p) ==
  /\ ~At(p, "idle") => ckpt # Run(p)
  /\ At(p, "fill") => tmp # NoFile /\ fd[p] = tmp /\ disk[tmp] = Torn
  /\ At(p, "replace") =>
       /\ tmp # NoFile /\ job[p].meta \in 1 .. version
       /\ disk[tmp] = [id |-> job[p].meta, wm |-> job[p].high]

StoreInv == CheckpointWhole /\ \A p \in Pipelines : Writing(p)

\* The rename of a save takes effect, whether or not it says so.
Replaces(q) == SaveReplace(q) \/ SaveUnacknowledged(q)

\* Only the three steps of a save touch the files.
LEMMA FrameStore ==
  ASSUME TypeOK, NEW q \in Pipelines, Acts(q),
         ~(SaveOpen(q) \/ SaveFill(q) \/ Replaces(q))
  PROVE  disk' = disk /\ tmp' = tmp /\ ckpt' = ckpt /\ pc'[q] \notin {"fill", "replace"}
<1> USE DEF TypeOK, storeVars, End, GoTo, At
<1>1. CASE Start(q)
  BY <1>1 DEF Start
<1>2. CASE Fault(q)
  <2>1. ~SaveUnacknowledged(q)
    BY DEF Replaces
  <2> QED
    BY <1>2, <2>1 DEF Fault, InspectFails, BeginFails, StreamFails, WriteFails,
       PublishFails, AbortEmptyFails, SaveFails, AbortFails, Kill, StoreClose
<1>3. CASE Step(q)
  BY <1>3 DEF Step, ReadHeader, RejectHeader, ReadMetadata, LoadCorrupt,
     SkipUnchanged, Proceed, BeginSession, OpenSource, RejectOpen, IngestChunk,
     RejectChunk, VerifySource, SourceChanged, PublishRaw, AbortEmpty, Replaces,
     SaveLost, AbortRaw
<1> QED
  BY <1>1, <1>2, <1>3 DEF Acts

LEMMA StoreNext ==
  ASSUME IInv, StoreInv, NEW q, Pipelines = {q}, [Next]_vars
  PROVE  StoreInv'
<1>0. /\ TypeOK /\ StoreTypeOK /\ RunsOwned /\ LocalInv(q) /\ CheckpointWhole /\ Writing(q)
      /\ lastRun \in Nat /\ version \in Nat /\ job[q] \in Job /\ q \in Pipelines
  BY TypeLocal, BoundsAssumption DEF IInv, StoreInv, TypeOK, Versions
<1>1. CASE RewriteSource
  <2>1. /\ version' = version + 1 /\ pc' = pc /\ lastRun' = lastRun
        /\ disk' = disk /\ ckpt' = ckpt /\ tmp' = tmp /\ fd' = fd
        /\ job'[q].run = job[q].run /\ job'[q].meta = job[q].meta
        /\ job'[q].high = job[q].high
    BY <1>0, <1>1, FrameRewrite DEF RewriteSource, storeVars
  <2>2. CheckpointWhole' /\ Writing(q)'
    BY <1>0, <2>1 DEF CheckpointWhole, Writing, At, Run, Torn
  <2> QED
    BY <2>2 DEF StoreInv
<1>2. CASE UNCHANGED vars
  BY <1>2 DEF vars, sourceVars, runVars, storeVars, StoreInv, CheckpointWhole, Writing,
     At, Run, Torn
<1>3. CASE Acts(q) /\ ~(SaveOpen(q) \/ SaveFill(q) \/ Replaces(q))
  <2>1. disk' = disk /\ tmp' = tmp /\ ckpt' = ckpt /\ pc'[q] \notin {"fill", "replace"}
    BY <1>0, <1>3, FrameStore
  <2>2. CASE Start(q)
    <3>1. lastRun' = lastRun + 1 /\ job'[q].run = lastRun + 1
      BY <1>0, <2>2 DEF Start, NoJob, TypeOK
    <3>2. ckpt \in Nat /\ tmp \in Nat
      BY <1>0, BoundsAssumption DEF StoreTypeOK, Files, Runs, NoFile
    <3>3. CheckpointWhole' /\ Writing(q)'
      BY <1>0, <2>1, <3>1, <3>2 DEF CheckpointWhole, Writing, At, Run, Torn, NoFile
    <3> QED
      BY <3>3 DEF StoreInv
  <2>3. CASE Step(q) \/ Fault(q)
    <3>1. /\ ~At(q, "idle") /\ lastRun' = lastRun
          /\ pc'[q] = "idle" \/ job'[q].run = job[q].run
      BY <1>0, <2>3, RunKept
    <3>2. CheckpointWhole' /\ Writing(q)'
      BY <1>0, <2>1, <3>1 DEF CheckpointWhole, Writing, At, Run, Torn
    <3> QED
      BY <3>2 DEF StoreInv
  <2> QED
    BY <1>3, <2>2, <2>3 DEF Acts
<1>4. CASE SaveOpen(q)
  <2> DEFINE file == IF tmp = NoFile THEN Run(q) ELSE tmp
  <2>1. /\ At(q, "save") /\ pc'[q] = "fill" /\ job' = job /\ lastRun' = lastRun
        /\ tmp' = file /\ disk' = [disk EXCEPT ![file] = Torn]
        /\ fd' = [fd EXCEPT ![q] = file] /\ ckpt' = ckpt
    BY <1>0, <1>4 DEF SaveOpen, StoreOpen, GoTo, runVars, TypeOK
  <2>2. Run(q) \in 1 .. lastRun /\ Run(q) \in Runs
    BY <1>0, <2>1, BoundsAssumption DEF RunsOwned, At, TypeOK, Runs
  <2>3. /\ file \in Files /\ file # NoFile /\ file <= lastRun
        /\ ckpt # NoFile => file # ckpt
    BY <1>0, <2>1, <2>2, BoundsAssumption
       DEF StoreTypeOK, Files, NoFile, CheckpointWhole, Writing, At, Runs
  <2> HIDE DEF file
  <2>4. CheckpointWhole'
    BY <1>0, <2>1, <2>3 DEF CheckpointWhole, StoreTypeOK, Torn
  <2>5. Writing(q)'
    BY <1>0, <2>1, <2>3 DEF Writing, StoreTypeOK, At, Run, Torn
  <2> QED
    BY <2>4, <2>5 DEF StoreInv
<1>5. CASE SaveFill(q)
  <2>1. /\ At(q, "fill") /\ pc'[q] = "replace" /\ job' = job /\ lastRun' = lastRun
        /\ version' = version /\ tmp' = tmp /\ ckpt' = ckpt
        /\ tmp # NoFile /\ fd[q] = tmp /\ disk[tmp] = Torn
        /\ disk' = [disk EXCEPT ![tmp] = [id |-> job[q].meta, wm |-> job[q].high]]
    BY <1>0, <1>5 DEF SaveFill, StoreFill, GoTo, runVars, sourceVars, TypeOK, Writing, At
  <2>2. tmp \in Files /\ job[q].meta \in 1 .. version
    BY <1>0, <2>1 DEF StoreTypeOK, LocalInv, MetadataPast, Saving, At
  <2>3. CheckpointWhole' /\ Writing(q)'
    BY <1>0, <2>1, <2>2 DEF CheckpointWhole, Writing, StoreTypeOK, At, Run, Torn
  <2> QED
    BY <2>3 DEF StoreInv
<1>6. CASE Replaces(q)
  <2>1. /\ At(q, "replace") /\ pc'[q] = "idle" /\ lastRun' = lastRun
        /\ tmp # NoFile /\ ckpt' = tmp /\ tmp' = NoFile /\ disk' = disk
    BY <1>0, <1>6
       DEF Replaces, SaveReplace, SaveUnacknowledged, StoreReplace, End, GoTo, TypeOK
  <2>2. disk[tmp] # Torn
    BY <1>0, <2>1 DEF Writing, Torn
  <2>3. CheckpointWhole' /\ Writing(q)'
    BY <1>0, <2>1, <2>2 DEF CheckpointWhole, Writing, At, Torn, NoFile
  <2> QED
    BY <2>3 DEF StoreInv
<1> QED
  BY <1>1, <1>2, <1>3, <1>4, <1>5, <1>6 DEF Next, Finished, Acts

LEMMA StoreInit0 == Init => StoreInv
BY DEF Init, StoreInit, StoreInv, CheckpointWhole, Writing, NoFile, At

\* The checkpoint of a single pipeline is a whole file at all times, whatever
\* kills or failures interrupt its saves.  ("Atomic local JSON checkpoint
\* store"; with two pipelines run torn refutes it.)
THEOREM CheckpointReadableAlone ==
  ASSUME NEW q, Pipelines = {q} PROVE Spec => []CheckpointReadable
<1>1. IInv /\ StoreInv /\ [Next]_vars => StoreInv'
  BY StoreNext
<1>2. StoreInv => CheckpointReadable
  BY DEF StoreInv, CheckpointWhole, CheckpointReadable, Unreadable
<1> QED
  BY <1>1, <1>2, StoreInit0, IInvCorrect, PTL DEF Spec

(***************************************************************************)
(* The increments of a single pipeline that only runs incrementally.       *)
(***************************************************************************)
Deciding == {"decide", "begin", "open", "stream", "publish", "empty", "save", "fill",
             "replace"}
Proceeding == Deciding \ {"decide"}
Reading == {"begin", "open", "stream", "publish", "empty"}
Recording == {"save", "fill", "replace"}

\* The checkpoint is never ahead of the run that is going to replace it.
Behind(p) ==
  /\ ~At(p, "idle") => /\ Run(p) = lastRun
                       /\ outcome[Run(p)] = "running"
                       /\ job[p].mode = "incremental"
  /\ Readable => /\ Stored.id <= version
                 /\ pc[p] \in Deciding => Stored.id <= job[p].meta
                 /\ pc[p] \in Proceeding => Stored.wm <= job[p].high
                 /\ ~Watermarked => Stored.wm = 0
  /\ pc[p] \in Proceeding /\ ~Watermarked => job[p].high = 0

\* What the acting pipeline does to the variables Behind speaks of.
LEMMA BehindSteps ==
  ASSUME TypeOK, NEW q \in Pipelines, Step(q) \/ Fault(q), StoreTypeOK
  PROVE  /\ pc'[q] \in Labels
         /\ pc'[q] # "idle" => outcome' = outcome
         /\ pc'[q] \in Deciding =>
              \/ ReadMetadata(q)
              \/ job'[q].meta = job[q].meta /\ pc[q] \in Deciding
         /\ pc'[q] \in Proceeding =>
              \/ Proceed(q)
              \/ IngestChunk(q)
              \/ job'[q].high = job[q].high /\ pc[q] \in Proceeding
<1> USE DEF TypeOK, At, GoTo, End, runVars, Deciding, Proceeding, Labels
<1>1. job[q] \in Job
  BY TypeLocal
<1>2. CASE Fault(q)
  BY <1>2 DEF Fault, InspectFails, BeginFails, StreamFails, PublishFails,
     WriteFails, AbortEmptyFails, SaveFails, SaveUnacknowledged, AbortFails, Kill
<1>3. CASE ReadHeader(q) \/ RejectHeader(q) \/ ReadMetadata(q) \/ LoadCorrupt(q)
           \/ SkipUnchanged(q) \/ Proceed(q) \/ BeginSession(q)
  BY <1>1, <1>3 DEF ReadHeader, RejectHeader, ReadMetadata, LoadCorrupt,
     SkipUnchanged, Proceed, BeginSession, Job
<1>4. CASE OpenSource(q) \/ RejectOpen(q) \/ IngestChunk(q) \/ RejectChunk(q)
           \/ VerifySource(q) \/ SourceChanged(q)
  BY <1>1, <1>4 DEF OpenSource, RejectOpen, IngestChunk, RejectChunk, VerifySource,
     SourceChanged, EndOfStream, Job
<1>5. CASE PublishRaw(q) \/ AbortEmpty(q) \/ SaveOpen(q) \/ SaveFill(q)
           \/ SaveReplace(q) \/ SaveLost(q) \/ AbortRaw(q)
  BY <1>1, <1>5 DEF PublishRaw, AbortEmpty, SaveOpen, SaveFill, SaveReplace,
     SaveLost, AbortRaw
<1> QED
  BY <1>2, <1>3, <1>4, <1>5 DEF Step

\* The newest watermark never goes back, and stays None without a column.
LEMMA HighGrows ==
  ASSUME TypeOK, NEW q \in Pipelines, IngestChunk(q)
  PROVE  /\ job'[q].high >= job[q].high
         /\ ~Watermarked => job'[q].high = job[q].high
         /\ At(q, "stream")
<1>1. job[q] \in Job
  BY TypeLocal
<1>2. PICK h \in 0 .. MaxDate : /\ job'[q].high = h
                                /\ \E new : IsNewest(h, job[q].high, new)
  BY <1>1 DEF IngestChunk, TypeOK, Job
<1> QED
  BY <1>1, <1>2 DEF IsNewest, IngestChunk, Job

\* Until it is replaced the checkpoint is what it was.
LEMMA StoreSteps ==
  ASSUME IInv, StoreInv, NEW q \in Pipelines, Step(q) \/ Fault(q)
  PROVE  \/ Readable' = Readable /\ (Readable => Stored' = Stored)
         \/ /\ Replaces(q) /\ At(q, "replace") /\ pc'[q] = "idle"
            /\ Stored' = [id |-> job[q].meta, wm |-> job[q].high]
            /\ dir' = dir /\ parts' = parts
<1>0. /\ TypeOK /\ StoreTypeOK /\ CheckpointWhole /\ Writing(q)
      /\ LocalInv(q) /\ ~At(q, "idle") /\ Run(q) \in 1 .. lastRun /\ lastRun \in Nat
  BY RunKept, BoundsAssumption DEF IInv, StoreInv, TypeOK, RunsOwned
<1>1. CASE ~(SaveOpen(q) \/ SaveFill(q) \/ Replaces(q))
  <2>1. disk' = disk /\ ckpt' = ckpt
    BY <1>0, <1>1, FrameStore DEF Acts
  <2> QED
    BY <2>1 DEF Readable, Stored, Torn, NoFile
<1>2. CASE SaveOpen(q)
  <2>1. ckpt' = ckpt /\ \E file \in {Run(q), tmp} : disk' = [disk EXCEPT ![file] = Torn]
    BY <1>2 DEF SaveOpen, StoreOpen
  <2>2. ckpt # NoFile => ckpt # Run(q) /\ ckpt # tmp /\ ckpt \in Files
    BY <1>0 DEF CheckpointWhole, Writing, StoreTypeOK, NoFile
  <2>3. ckpt # NoFile => disk'[ckpt] = disk[ckpt]
    BY <1>0, <2>1, <2>2 DEF StoreTypeOK
  <2> QED
    BY <2>1, <2>3 DEF Readable, Stored, Torn, NoFile
<1>3. CASE SaveFill(q)
  <2>1. ckpt' = ckpt /\ \E b : disk' = [disk EXCEPT ![fd[q]] = b]
    BY <1>3 DEF SaveFill, StoreFill
  <2>2. fd[q] = tmp /\ (ckpt # NoFile => ckpt # tmp /\ ckpt \in Files)
    BY <1>0, <1>3 DEF CheckpointWhole, Writing, StoreTypeOK, NoFile, SaveFill
  <2>3. ckpt # NoFile => disk'[ckpt] = disk[ckpt]
    BY <1>0, <2>1, <2>2 DEF StoreTypeOK
  <2> QED
    BY <2>1, <2>3 DEF Readable, Stored, Torn, NoFile
<1>4. CASE Replaces(q)
  BY <1>0, <1>4 DEF Replaces, SaveReplace, SaveUnacknowledged, StoreReplace, End, GoTo,
     TypeOK, Writing, Stored, At, sinkVars
<1> QED
  BY <1>1, <1>2, <1>3, <1>4

\* Proceed takes the stored watermark, and the metadata read is of the file.
LEMMA DecidedAt ==
  ASSUME TypeOK, NEW q \in Pipelines
  PROVE  /\ ReadMetadata(q) => pc'[q] = "decide" /\ job'[q].meta = version
         /\ Proceed(q) => /\ At(q, "decide") /\ pc'[q] = "begin"
                          /\ job'[q].meta = job[q].meta
                          /\ job'[q].high = LowerWatermark(q)
                          /\ job'[q].lower = LowerWatermark(q)
<1>1. job[q] \in Job
  BY TypeLocal
<1> QED
  BY <1>1 DEF ReadMetadata, Proceed, TypeOK, GoTo, At, Job

LEMMA BehindNext ==
  ASSUME IInv, StoreInv, NEW q, Pipelines = {q}, Modes = {"incremental"},
         Behind(q), [Next]_vars
  PROVE  /\ Behind(q)'
         /\ Readable /\ Readable' => Stored'.id >= Stored.id /\ Stored'.wm >= Stored.wm
<1>0. /\ TypeOK /\ StoreTypeOK /\ q \in Pipelines /\ RunsOwned
      /\ lastRun \in Nat /\ version \in Nat /\ job[q] \in Job
      /\ job[q].meta \in Nat /\ job[q].high \in Nat
      /\ Readable => Stored.id \in Nat /\ Stored.wm \in Nat
  <2>1. job[q] \in Job
    BY TypeLocal DEF IInv
  <2>2. Readable => Stored \in Content
    BY DEF IInv, TypeOK, StoreTypeOK, Readable, Stored, NoFile
  <2> QED
    BY <2>1, <2>2, BoundsAssumption DEF IInv, TypeOK, Versions, Job, Content
<1>1. CASE RewriteSource
  <2>1. /\ version' = version + 1 /\ pc' = pc /\ lastRun' = lastRun /\ outcome' = outcome
        /\ disk' = disk /\ ckpt' = ckpt
        /\ job'[q].run = job[q].run /\ job'[q].meta = job[q].meta
        /\ job'[q].high = job[q].high
    BY <1>0, <1>1, FrameRewrite DEF RewriteSource, runVars
  <2>2. job'[q].mode = job[q].mode
    BY <1>0, <1>1 DEF RewriteSource, Job
  <2> QED
    BY <1>0, <2>1, <2>2 DEF Behind, At, Run, Readable, Stored, Torn, NoFile
<1>2. CASE UNCHANGED vars
  BY <1>0, <1>2 DEF vars, sourceVars, runVars, storeVars, Behind, At, Run, Readable,
     Stored, Torn, NoFile
<1>3. CASE Start(q)
  <2>1. /\ pc'[q] = "header" /\ lastRun' = lastRun + 1 /\ version' = version
        /\ disk' = disk /\ ckpt' = ckpt
    BY <1>0, <1>3 DEF Start, GoTo, TypeOK, sourceVars, storeVars
  <2>2. job'[q].run = lastRun + 1 /\ job'[q].mode = "incremental"
    BY <1>0, <1>3 DEF Start, NoJob, TypeOK
  <2>3. outcome'[lastRun + 1] = "running"
    <3>1. lastRun < MaxRuns /\ outcome' = [outcome EXCEPT ![lastRun + 1] = "running"]
      BY <1>3 DEF Start
    <3>2. lastRun + 1 \in Runs
      BY <1>0, <3>1, BoundsAssumption DEF Runs
    <3> QED
      BY <1>0, <3>1, <3>2 DEF TypeOK
  <2> QED
    BY <1>0, <2>1, <2>2, <2>3
       DEF Behind, At, Run, Readable, Stored, Torn, NoFile, Deciding, Proceeding
<1>4. CASE Step(q) \/ Fault(q)
  <2>1. /\ version' = version /\ lastRun' = lastRun /\ ~At(q, "idle")
        /\ pc'[q] # "idle" => /\ job'[q].run = job[q].run /\ job'[q].mode = job[q].mode
                              /\ outcome' = outcome
    BY <1>0, <1>4, RunKept, FrameOthers, BehindSteps DEF Acts
  <2>2. ~At(q, "idle")' =>
          Run(q)' = lastRun' /\ outcome'[Run(q)'] = "running" /\ job'[q].mode = "incremental"
    BY <2>1 DEF Behind, At, Run
  <2>3. CASE Readable' = Readable /\ (Readable => Stored' = Stored)
    <3>1. Readable /\ pc'[q] \in Deciding => Stored.id <= job'[q].meta
      BY <1>0, <1>4, BehindSteps, DecidedAt DEF Behind
    <3>2. pc'[q] \in Proceeding => /\ Readable => Stored.wm <= job'[q].high
                                   /\ ~Watermarked => job'[q].high = 0
      <4>1. CASE Proceed(q)
        BY <1>0, <2>1, <4>1, DecidedAt DEF Behind, LowerWatermark
      <4>2. CASE IngestChunk(q)
        <5>0. TypeOK'
          BY <1>0, TypeNext
        <5>1. job'[q] \in Job
          BY <1>0, <5>0 DEF TypeOK
        <5>2. job'[q].high \in Nat
          BY <5>1, BoundsAssumption DEF Job
        <5> QED
          BY <1>0, <4>2, <5>2, HighGrows DEF Behind, Proceeding, Deciding, At
      <4>3. CASE ~Proceed(q) /\ ~IngestChunk(q)
        BY <1>0, <1>4, <4>3, BehindSteps DEF Behind
      <4> QED
        BY <4>1, <4>2, <4>3
    <3>3. Behind(q)'
      BY <1>0, <2>1, <2>2, <2>3, <3>1, <3>2 DEF Behind
    <3> QED
      BY <1>0, <2>3, <3>3
  <2>4. CASE Replaces(q) /\ At(q, "replace") /\ pc'[q] = "idle"
             /\ Stored' = [id |-> job[q].meta, wm |-> job[q].high]
    <3>1. /\ job[q].meta <= version
          /\ ~Watermarked => job[q].high = 0
          /\ Readable => Stored.id <= job[q].meta /\ Stored.wm <= job[q].high
      BY <1>0, <2>4 DEF Behind, Proceeding, Deciding, At, StoreInv, Writing
    <3> QED
      BY <1>0, <2>1, <2>4, <3>1 DEF Behind, At, Deciding, Proceeding
  <2> QED
    BY <1>0, <1>4, <2>3, <2>4, StoreSteps
<1> QED
  BY <1>1, <1>2, <1>3, <1>4 DEF Next, Finished

LEMMA BehindInit == ASSUME NEW q \in Pipelines PROVE Init => Behind(q)
BY DEF Init, StoreInit, Behind, At, Readable, NoFile, Deciding, Proceeding

\* With incremental runs only, what a single pipeline records never goes back:
\* neither the identity nor the watermark, whatever interrupts its runs.
THEOREM CheckpointAdvancesAlone ==
  ASSUME NEW q, Pipelines = {q}, Modes = {"incremental"}
  PROVE  Spec => CheckpointAdvances
<1> DEFINE Inv == IInv /\ StoreInv /\ Behind(q)
           Advance == Readable /\ Readable'
                        => Stored'.id >= Stored.id /\ Stored'.wm >= Stored.wm
<1>1. Init => Inv
  BY StoreInit0, IInvInit, BehindInit
<1>2. Inv /\ [Next]_vars => Inv'
  BY IInvNext, StoreNext, BehindNext
<1>3. Inv /\ [Next]_vars => [Advance]_vars
  BY BehindNext
<1> QED
  BY <1>1, <1>2, <1>3, PTL DEF Spec, CheckpointAdvances

\* What succeeded is behind the recorded watermark, what is read is after it.
Newer(p) ==
  /\ \A r \in Published :
       outcome[r] = "succeeded"
         => Readable /\ \A x \in parts[r] : x[2].date <= Stored.wm
  /\ pc[p] \in Reading /\ Readable => job[p].lower = Stored.wm
  /\ pc[p] \in Recording => \A x \in parts[Run(p)] : x[2].date <= job[p].high
  /\ IncrementsAreNewer

\* What the acting pipeline does to the variables Newer speaks of.
LEMMA NewerSteps ==
  ASSUME TypeOK, NEW q \in Pipelines, Step(q) \/ Fault(q)
  PROVE  /\ pc'[q] \in Reading =>
              Proceed(q) \/ (job'[q].lower = job[q].lower /\ pc[q] \in Reading)
         /\ pc'[q] \in Recording =>
              /\ job' = job
              /\ PublishRaw(q) \/ AbortEmpty(q) \/ (pc[q] \in Recording /\ parts' = parts)
         /\ Run(q) \in Runs /\ outcome'[Run(q)] = "succeeded"
              => SaveReplace(q) \/ outcome[Run(q)] = "succeeded"
<1> USE DEF TypeOK, At, GoTo, End, runVars, sinkVars, Reading, Recording
<1>1. job[q] \in Job
  BY TypeLocal
<1>2. CASE Fault(q)
  BY <1>2 DEF Fault, InspectFails, BeginFails, StreamFails, PublishFails,
     WriteFails, AbortEmptyFails, SaveFails, SaveUnacknowledged, AbortFails, Kill
<1>3. CASE ReadHeader(q) \/ RejectHeader(q) \/ ReadMetadata(q) \/ LoadCorrupt(q)
           \/ SkipUnchanged(q) \/ Proceed(q) \/ BeginSession(q)
  BY <1>1, <1>3 DEF ReadHeader, RejectHeader, ReadMetadata, LoadCorrupt,
     SkipUnchanged, Proceed, BeginSession, Job
<1>4. CASE OpenSource(q) \/ RejectOpen(q) \/ IngestChunk(q) \/ RejectChunk(q)
           \/ VerifySource(q) \/ SourceChanged(q)
  BY <1>1, <1>4 DEF OpenSource, RejectOpen, IngestChunk, RejectChunk, VerifySource,
     SourceChanged, EndOfStream, Job
<1>5. CASE PublishRaw(q) \/ AbortEmpty(q) \/ SaveOpen(q) \/ SaveFill(q)
           \/ SaveReplace(q) \/ SaveLost(q) \/ AbortRaw(q)
  BY <1>1, <1>5 DEF PublishRaw, AbortEmpty, SaveOpen, SaveFill, SaveReplace,
     SaveLost, AbortRaw
<1> QED
  BY <1>2, <1>3, <1>4, <1>5 DEF Step

\* What a verified session holds lies between the two watermarks of its run.
LEMMA VerifiedBetween ==
  ASSUME IInv, Watermarked, NEW q \in Pipelines, pc[q] \in Verified,
         NEW x \in parts[Run(q)]
  PROVE  /\ x[2].date <= job[q].high
         /\ job[q].lower = 0 \/ x[2].date > job[q].lower
<1>1. HoldsIncrement(q, job[q].meta, Size(job[q].meta))
  BY DEF IInv, LocalInv, VerifiedWhole
<1> DEFINE new == NewRows(Rows(job[q].meta, 0, Size(job[q].meta)), job[q].lower)
<1>2. x \in new /\ IsNewest(job[q].high, job[q].lower, new)
  BY <1>1 DEF HoldsIncrement, FirstOfKey
<1> QED
  BY <1>2 DEF IsNewest, NewRows, IsNew

LEMMA NewerNext ==
  ASSUME IInv, IInv', StoreInv, NEW q, Pipelines = {q}, Modes = {"incremental"},
         Watermarked, Behind(q), Newer(q), [Next]_vars
  PROVE  Newer(q)'
<1>0. /\ TypeOK /\ q \in Pipelines /\ RunsOwned /\ LocalInv(q) /\ TypeOK' /\ RunsOwned'
      /\ lastRun \in Nat /\ job[q] \in Job
      /\ Readable => Stored.wm \in Nat
      /\ \A r \in Runs : \A x \in parts[r] : x[2].date \in Nat \ {0}
      /\ \A r \in Published : r <= lastRun
  <2>1. job[q] \in Job
    BY TypeLocal DEF IInv
  <2>2. Readable => Stored \in Content
    BY DEF IInv, TypeOK, StoreTypeOK, Readable, Stored, NoFile
  <2>3. \A r \in Runs : \A x \in parts[r] : x[2].date \in Nat \ {0}
    BY ConstantsAssumption, BoundsAssumption DEF IInv, TypeOK, SinkTypeOK
  <2>4. \A r \in Published : r <= lastRun
    BY BoundsAssumption DEF IInv, RunsOwned, Published, Runs, TypeOK
  <2> QED
    BY <2>1, <2>2, <2>3, <2>4, BoundsAssumption DEF IInv, TypeOK, Content
<1>1. CASE RewriteSource
  <2>1. /\ pc' = pc /\ outcome' = outcome /\ disk' = disk /\ ckpt' = ckpt
        /\ dir' = dir /\ parts' = parts
        /\ job'[q].run = job[q].run /\ job'[q].lower = job[q].lower
        /\ job'[q].high = job[q].high
    BY <1>0, <1>1, FrameRewrite DEF RewriteSource, runVars
  <2> QED
    BY <2>1 DEF Newer, IncrementsAreNewer, Run, Readable, Stored, Torn, NoFile, Published
<1>2. CASE UNCHANGED vars
  BY <1>2 DEF vars, runVars, sinkVars, storeVars, Newer, IncrementsAreNewer, Run,
     Readable, Stored, Torn, NoFile, Published
<1>3. CASE Start(q)
  <2>1. /\ pc'[q] = "header" /\ disk' = disk /\ ckpt' = ckpt
        /\ dir' = dir /\ parts' = parts
        /\ outcome' = [outcome EXCEPT ![lastRun + 1] = "running"]
    BY <1>0, <1>3 DEF Start, GoTo, TypeOK, sinkVars, storeVars
  <2>2. \A r \in Published : outcome'[r] = outcome[r]
    BY <1>0, <2>1 DEF Published, TypeOK
  <2> QED
    BY <2>1, <2>2 DEF Newer, IncrementsAreNewer, Readable, Stored, Torn, NoFile,
       Published, Reading, Recording
<1>4. CASE Step(q) \/ Fault(q)
  <2>1. /\ ~At(q, "idle") /\ Run(q) = lastRun /\ Run(q) \in Runs
        /\ outcome[Run(q)] = "running"
        /\ pc'[q] # "idle" => Run(q)' = Run(q)
        /\ \A r \in Runs \ {Run(q)} : outcome'[r] = outcome[r]
    <3>1. ~At(q, "idle")
      BY <1>0, <1>4, RunKept
    <3>2. Run(q) \in Runs
      BY <1>0, <3>1, BoundsAssumption DEF RunsOwned, Runs, TypeOK
    <3> QED
      BY <1>0, <1>4, <3>1, <3>2, RunKept, FrameOutcome DEF Behind, Acts, Run
  <2>2. /\ \A r \in Published : r \in Published' /\ parts'[r] = parts[r]
        /\ \A r \in Published' \ Published :
             At(q, "publish") /\ r = Run(q) /\ parts'[r] = parts[r]
    BY <1>0, <1>4, FrameSink DEF Acts, LocalInv, Published
  <2>3. \A r \in Published' :
          outcome'[r] = "succeeded"
            => Readable' /\ \A x \in parts'[r] : x[2].date <= Stored'.wm
    <3> SUFFICES ASSUME NEW r \in Published', outcome'[r] = "succeeded"
                 PROVE  Readable' /\ \A x \in parts'[r] : x[2].date <= Stored'.wm
      OBVIOUS
    <3>1. CASE Replaces(q)
      <4>1. /\ At(q, "replace") /\ dir' = dir /\ parts' = parts /\ Readable'
            /\ Stored'.wm = job[q].high
        BY <1>0, <3>1
           DEF Replaces, SaveReplace, SaveUnacknowledged, StoreReplace, sinkVars,
               StoreInv, CheckpointWhole, Writing, Readable, Stored, Torn, NoFile
      <4>2. CASE r = Run(q)
        BY <4>1, <4>2 DEF Newer, Recording, At
      <4>3. CASE r # Run(q)
        <5>1. /\ r \in Published /\ r \in Runs /\ outcome[r] = "succeeded"
          BY <2>1, <3>1, <4>1, <4>3 DEF Published
        <5>2. Readable /\ Stored.wm <= job[q].high
          BY <4>1, <5>1 DEF Newer, Behind, Proceeding, Deciding, At
        <5>3. job[q].high \in Nat
          BY <1>0, BoundsAssumption DEF Job
        <5> QED
          BY <1>0, <4>1, <5>1, <5>2, <5>3 DEF Newer
      <4> QED
        BY <4>2, <4>3
    <3>2. CASE ~Replaces(q)
      <4>1. r # Run(q)
        BY <1>0, <1>4, <2>1, <3>2, NewerSteps DEF Replaces
      <4>2. r \in Published /\ r \in Runs /\ outcome[r] = "succeeded"
        BY <2>1, <2>2, <4>1 DEF Published
      <4>3. Readable' = Readable /\ (Readable => Stored' = Stored)
        BY <1>4, <3>2, StoreSteps
      <4> QED
        BY <2>2, <4>2, <4>3 DEF Newer
    <3> QED
      BY <3>1, <3>2
  <2>4. pc'[q] \in Reading /\ Readable' => job'[q].lower = Stored'.wm
    <3> SUFFICES ASSUME pc'[q] \in Reading, Readable' PROVE job'[q].lower = Stored'.wm
      OBVIOUS
    <3>1. Readable /\ Stored' = Stored
      BY <1>4, StoreSteps DEF Reading
    <3>2. CASE Proceed(q)
      BY <1>0, <2>1, <3>1, <3>2, DecidedAt DEF Behind, LowerWatermark
    <3>3. CASE ~Proceed(q)
      BY <1>0, <1>4, <3>1, <3>3, NewerSteps DEF Newer
    <3> QED
      BY <3>2, <3>3
  <2>5. pc'[q] \in Recording => \A x \in parts'[Run(q)'] : x[2].date <= job'[q].high
    <3> SUFFICES ASSUME pc'[q] \in Recording, NEW x \in parts'[Run(q)]
                 PROVE  x[2].date <= job[q].high
      BY <1>0, <1>4, <2>1, NewerSteps DEF Recording
    <3>1. CASE PublishRaw(q)
      <4>1. x \in parts[Run(q)] /\ pc[q] \in Verified
        BY <3>1 DEF PublishRaw, SinkCommit, Verified, At
      <4> QED
        BY <4>1, VerifiedBetween, <1>0
    <3>2. CASE AbortEmpty(q)
      <4>1. dir[Run(q)] = "staging"
        BY <1>0, <3>2 DEF LocalInv, SessionPhase, AbortEmpty, Verified, At
      <4>2. parts'[Run(q)] = {}
        BY <1>0, <2>1, <3>2, <4>1 DEF AbortEmpty, SinkAbort, TypeOK, SinkTypeOK
      <4> QED
        BY <4>2
    <3>3. CASE pc[q] \in Recording /\ parts' = parts
      BY <3>3 DEF Newer
    <3> QED
      BY <1>0, <1>4, <3>1, <3>2, <3>3, NewerSteps
  <2>6. IncrementsAreNewer'
    <3> SUFFICES ASSUME NEW r \in Published', NEW s \in Published', r < s,
                        outcome'[r] = "succeeded",
                        NEW x \in parts'[r], NEW y \in parts'[s]
                 PROVE  x[2].date < y[2].date
      BY DEF IncrementsAreNewer
    <3>1. s <= lastRun /\ r \in Nat /\ s \in Nat
      BY <1>0, <2>1, <2>2, BoundsAssumption DEF Published, Runs
    <3>2. r # Run(q) /\ r \in Runs
      BY <1>0, <2>1, <3>1 DEF Published
    <3>3. r \in Published /\ outcome[r] = "succeeded" /\ x \in parts[r]
      BY <2>1, <2>2, <3>2
    <3>4. CASE s \in Published
      BY <2>2, <3>3, <3>4 DEF Newer, IncrementsAreNewer
    <3>5. CASE s \notin Published
      <4>1. At(q, "publish") /\ s = Run(q) /\ y \in parts[s]
        BY <2>2, <3>5
      <4>2. Readable /\ x[2].date <= Stored.wm /\ job[q].lower = Stored.wm
        BY <3>3, <4>1 DEF Newer, Reading, At
      <4>3. job[q].lower = 0 \/ y[2].date > job[q].lower
        BY <1>0, <4>1, VerifiedBetween DEF Verified, At
      <4>4. x[2].date \in Nat \ {0} /\ y[2].date \in Nat
        BY <1>0, <2>1, <3>2, <3>3, <4>1
      <4> QED
        BY <1>0, <4>2, <4>3, <4>4
    <3> QED
      BY <3>4, <3>5
  <2> QED
    BY <2>3, <2>4, <2>5, <2>6 DEF Newer
<1> QED
  BY <1>1, <1>2, <1>3, <1>4 DEF Next, Finished

LEMMA NewerInit == ASSUME NEW q \in Pipelines PROVE Init => Newer(q)
BY DEF Init, SinkInit, Newer, IncrementsAreNewer, Published, Reading, Recording

\* What a single pipeline publishes, incrementally and by a watermark column,
\* after a run that succeeded is newer than everything that run published.
THEOREM IncrementsAreNewerAlone ==
  ASSUME NEW q, Pipelines = {q}, Modes = {"incremental"}, Watermarked
  PROVE  Spec => []IncrementsAreNewer
<1> DEFINE Inv == IInv /\ StoreInv /\ Behind(q) /\ Newer(q)
<1>1. Init => Inv
  BY StoreInit0, IInvInit, BehindInit, NewerInit
<1>2. Inv /\ [Next]_vars => Inv'
  <2>1. IInv /\ [Next]_vars => IInv'
    BY IInvNext
  <2>2. ASSUME Inv, [Next]_vars PROVE Inv'
    BY <2>1, <2>2, StoreNext, BehindNext, NewerNext
  <2> QED
    BY <2>2
<1>3. Inv => IncrementsAreNewer
  BY DEF Newer
<1> QED
  BY <1>1, <1>2, <1>3, PTL DEF Spec

(***************************************************************************)
(* The safety half of BecomesRecorded: a run on the last, valid version    *)
(* has no way out but to record it.                                        *)
(***************************************************************************)
\* The run of p began on the last version, or has found the source to be it.
OnLast(p) ==
  /\ pc[p] \notin {"idle", "abort"} /\ version = MaxVersions
  /\ pc[p] \in {"header", "metadata"} \/ job[p].meta = MaxVersions

Recorded == Readable /\ Stored.id = MaxVersions

\* A chunk of a clean version is taken, whatever was read of it before.
LEMMA CleanChunk ==
  ASSUME TypeOK, Clean, NEW low, NEW n \in Nat, NEW m \in Nat
  PROVE  LET chunk == Rows(MaxVersions, n, m)
         IN  /\ Valid(chunk, low)
             /\ DuplicatesAllowed(NewRows(chunk, low),
                                  KeysOf(NewRows(Rows(MaxVersions, 0, n), low)))
<1> DEFINE all == AllRows(MaxVersions)
           chunk == Rows(MaxVersions, n, m)
           read == Rows(MaxVersions, 0, n)
<1>1. Size(MaxVersions) \in Nat
  BY SizeType, BoundsAssumption DEF Versions
<1>2. /\ \A x \in chunk : x \in all /\ x[1] \in Nat /\ n < x[1]
      /\ \A x \in read : x \in all /\ x[1] \in Nat /\ x[1] <= n
  BY <1>1 DEF Rows, AllRows
<1>3. \A x \in all : x[2].grade = "good"
  BY DEF Clean
<1>4. Strategy = "drop" \/ FirstOfKey(all, {}) = all
  BY DEF Clean, DuplicatesAllowed
<1> HIDE DEF all, chunk, read
<1>5. Valid(chunk, low)
  BY <1>2, <1>3 DEF Valid, NewRows
<1>6. ASSUME Strategy # "drop"
      PROVE  FirstOfKey(NewRows(chunk, low), KeysOf(NewRows(read, low)))
               = NewRows(chunk, low)
  <2>1. \A x, y \in all : y[2].key = x[2].key => x[1] <= y[1]
    BY <1>4, <1>6 DEF FirstOfKey
  <2>2. ASSUME NEW x \in NewRows(chunk, low)
        PROVE  /\ x[2].key \notin KeysOf(NewRows(read, low))
               /\ \A y \in NewRows(chunk, low) : y[2].key = x[2].key => x[1] <= y[1]
    <3>1. x \in all /\ x[1] \in Nat /\ n < x[1]
      BY <1>2 DEF NewRows
    <3>2. \A y \in NewRows(read, low) : y[2].key # x[2].key
      BY <1>2, <2>1, <3>1 DEF NewRows
    <3> QED
      BY <1>2, <2>1, <3>1, <3>2 DEF NewRows, KeysOf
  <2> QED
    BY <2>2 DEF FirstOfKey
<1>7. DuplicatesAllowed(NewRows(chunk, low), KeysOf(NewRows(read, low)))
  BY <1>6 DEF DuplicatesAllowed
<1> QED
  BY <1>5, <1>7 DEF chunk, read

LEMMA NoRejection ==
  ASSUME IInv, NEW q \in Pipelines, OnLast(q), Clean
  PROVE  ~RejectHeader(q) /\ ~RejectOpen(q) /\ ~RejectChunk(q) /\ ~SourceChanged(q)
<1>1. feed[version].header
  BY DEF Clean, OnLast
<1>2. ASSUME RejectChunk(q) PROVE FALSE
  <2>1. /\ At(q, "stream") /\ job[q].meta = MaxVersions /\ version = job[q].meta
        /\ job[q].pos \in Nat /\ job[q].pos + ChunkSize \in Nat /\ TypeOK
    BY <1>2, TypeLocal, ConstantsAssumption DEF RejectChunk, OnLast, At, IInv
  <2>2. /\ job[q].view = {MaxVersions}
        /\ seen[q] = KeysOf(NewRows(Rows(MaxVersions, 0, job[q].pos), job[q].lower))
    BY <2>1 DEF IInv, LocalInv, StreamFaithful, HoldsIncrement
  <2> QED
    BY <1>2, <2>1, <2>2, CleanChunk DEF RejectChunk
<1>3. ASSUME SourceChanged(q) PROVE FALSE
  BY <1>3 DEF SourceChanged, EndOfStream, OnLast, At
<1> QED
  BY <1>1, <1>2, <1>3 DEF RejectHeader, RejectOpen

LEMMA LastActing ==
  ASSUME IInv, StoreInv, NEW q \in Pipelines, OnLast(q), Clean, Step(q)
  PROVE  OnLast(q)' \/ Recorded'
<1>0. /\ TypeOK /\ StoreTypeOK /\ CheckpointWhole /\ Writing(q) /\ job[q] \in Job
      /\ version' = version /\ MaxVersions \in Nat \ {0}
  BY FrameOthers, TypeLocal, BoundsAssumption DEF IInv, StoreInv, TypeOK, Acts
<1> USE <1>0 DEF OnLast, At, GoTo
<1>1. CASE ReadHeader(q) \/ ReadMetadata(q) \/ Proceed(q) \/ BeginSession(q)
             \/ OpenSource(q) \/ IngestChunk(q)
  BY <1>1 DEF ReadHeader, ReadMetadata, Proceed, BeginSession, OpenSource, IngestChunk,
     TypeOK, Job
<1>2. CASE VerifySource(q) \/ PublishRaw(q) \/ AbortEmpty(q) \/ SaveOpen(q) \/ SaveFill(q)
  BY <1>2 DEF VerifySource, EndOfStream, PublishRaw, AbortEmpty, SaveOpen, SaveFill, TypeOK
<1>3. CASE LoadCorrupt(q)
  BY <1>3 DEF LoadCorrupt, Unreadable, CheckpointWhole
<1>4. CASE SkipUnchanged(q)
  BY <1>4 DEF SkipUnchanged, Unchanged, Recorded, Readable, Stored, storeVars
<1>5. CASE SaveReplace(q)
  BY <1>5 DEF SaveReplace, StoreReplace, Recorded, Readable, Stored, Writing, Torn
<1>6. CASE SaveLost(q) \/ AbortRaw(q)
  BY <1>6 DEF SaveLost, AbortRaw, Writing
<1> QED
  BY <1>1, <1>2, <1>3, <1>4, <1>5, <1>6, NoRejection DEF Step

\* Of a single pipeline, in any load mode, with any strategy and whatever its
\* earlier runs left behind: an undisturbed run on a valid last version neither
\* fails nor ends before the checkpoint is at that version.  What TLC adds in
\* BecomesRecorded is that the run does end.  (_ingest_table)
THEOREM LastVersionRecordedAlone ==
  ASSUME NEW q, Pipelines = {q}
  PROVE  Spec => [][OnLast(q) /\ Clean /\ Run(q) \notin Disturbed
                      => OnLast(q)' \/ Recorded']_vars
<1> DEFINE Inv == IInv /\ StoreInv
           Stays == OnLast(q) /\ Clean /\ Run(q) \notin Disturbed
                      => OnLast(q)' \/ Recorded'
<1>1. Init => Inv
  BY StoreInit0, IInvInit
<1>2. Inv /\ [Next]_vars => Inv'
  BY IInvNext, StoreNext
<1>3. Inv /\ [Next]_vars => [Stays]_vars
  <2> SUFFICES ASSUME Inv, Next, OnLast(q), Clean, Run(q) \notin Disturbed
               PROVE  OnLast(q)' \/ Recorded'
    OBVIOUS
  <2>1. ~RewriteSource
    BY BoundsAssumption DEF RewriteSource, OnLast
  <2>2. CASE Step(q)
    BY <2>2, LastActing
  <2>3. ~Start(q) /\ ~Fault(q)
    BY DEF Start, Fault, OnLast, At
  <2>4. ~Finished
    BY DEF Finished, OnLast, At
  <2> QED
    BY <2>1, <2>2, <2>3, <2>4 DEF Next
<1> QED
  BY <1>1, <1>2, <1>3, PTL DEF Spec

(***************************************************************************)
(* The half of RunEnds that needs no fairness: runs do not go on for ever. *)
(***************************************************************************)
Stage == [header |-> 1, metadata |-> 2, decide |-> 3, begin |-> 4, open |-> 5,
          stream |-> 6, publish |-> 7, empty |-> 7, save |-> 8, fill |-> 9,
          replace |-> 10, abort |-> 11, idle |-> 12]

\* A later stage, or a later row of a version that has it.
Further(p) ==
  \/ Stage[pc'[p]] > Stage[pc[p]]
  \/ /\ pc'[p] = pc[p] /\ job'[p].pos > job[p].pos
     /\ \E v \in Versions : job[p].pos < Size(v)

\* Every step of a run, failing or not, takes it to a later stage, or past rows
\* of the source within the chunk loop, of which every version has finitely
\* many.  No failure and no rewrite sends a run back.  (_ingest_table)
THEOREM RunsAdvance ==
  Spec => [][\A p \in Pipelines : Step(p) \/ Fault(p) => Further(p)]_vars
<1>1. ASSUME TypeOK, NEW p \in Pipelines, Step(p) \/ Fault(p)
      PROVE  Further(p)
  <2>0. job[p] \in Job /\ ChunkSize \in Nat \ {0} /\ job[p].pos \in Nat
    BY <1>1, TypeLocal, ConstantsAssumption
  <2> USE <1>1, <2>0 DEF TypeOK, At, GoTo, End, Stage, Further
  <2>1. CASE Fault(p)
    BY <2>1 DEF Fault, InspectFails, BeginFails, StreamFails, PublishFails,
       WriteFails, AbortEmptyFails, SaveFails, SaveUnacknowledged, AbortFails, Kill, Labels
  <2>2. CASE IngestChunk(p)
    <3>1. PICK v \in job[p].view, h \in 0 .. MaxDate :
            /\ job[p].pos < Size(v)
            /\ job' = [job EXCEPT ![p].pos = job[p].pos + ChunkSize, ![p].high = h]
      BY <2>2 DEF IngestChunk
    <3>2. job'[p].pos = job[p].pos + ChunkSize /\ v \in Versions
      BY <3>1 DEF Job
    <3> QED
      BY <2>2, <3>1, <3>2 DEF IngestChunk
  <2>3. CASE ReadHeader(p) \/ RejectHeader(p) \/ ReadMetadata(p) \/ LoadCorrupt(p)
             \/ SkipUnchanged(p) \/ Proceed(p) \/ BeginSession(p)
    BY <2>3 DEF ReadHeader, RejectHeader, ReadMetadata, LoadCorrupt, SkipUnchanged,
       Proceed, BeginSession
  <2>4. CASE OpenSource(p) \/ RejectOpen(p) \/ RejectChunk(p) \/ VerifySource(p)
             \/ SourceChanged(p)
    BY <2>4 DEF OpenSource, RejectOpen, RejectChunk, VerifySource, SourceChanged,
       EndOfStream
  <2>5. CASE PublishRaw(p) \/ AbortEmpty(p) \/ SaveOpen(p) \/ SaveFill(p)
             \/ SaveReplace(p) \/ SaveLost(p) \/ AbortRaw(p)
    BY <2>5 DEF PublishRaw, AbortEmpty, SaveOpen, SaveFill, SaveReplace, SaveLost,
       AbortRaw
  <2> QED
    BY <2>1, <2>2, <2>3, <2>4, <2>5 DEF Step
<1>2. TypeOK /\ [Next]_vars
        => [\A p \in Pipelines : Step(p) \/ Fault(p) => Further(p)]_vars
  BY <1>1
<1> QED
  BY <1>2, TypeCorrect, PTL DEF Spec

=============================================================================
