------------------------- MODULE TableIngestionProofs -------------------------
(***************************************************************************)
(* Proofs about TableIngestion, for any number of pipelines, runs and      *)
(* versions, any chunk size and any file contents.                         *)
(***************************************************************************)
EXTENDS TableIngestionInv, TLAPS

(***************************************************************************)
(* Type correctness.                                                       *)
(***************************************************************************)
\* The rows the reader delivers are rows of the source, with a position.
LEMMA RowsType ==
  ASSUME TypeOK, NEW v \in Versions, NEW a \in Nat, NEW b \in Nat
  PROVE  Rows(v, a, b) \subseteq Nat \X Row
<1>1. feed[v] \in Feeds
  BY DEF TypeOK
<1>2. feed[v].rows \in Seq(Row)
  BY <1>1, ConstantsAssumption
<1> QED
  BY <1>2 DEF Rows, Size

LEMMA TypeInit == Init => TypeOK
  BY BoundsAssumption DEF Init, TypeOK, SinkInit, SinkTypeOK, StoreInit,
     StoreTypeOK, Labels, Job, NoJob, Outcomes, Runs, Versions, Files, NoFile,
     Content, Torn, DirStates

LEMMA NoJobType == NoJob \in Job
  BY BoundsAssumption DEF NoJob, Job

\* The end of a run keeps the types, whatever its result.
LEMMA TypeEnd ==
  ASSUME TypeOK, NEW p \in Pipelines, NEW result \in Outcomes, End(p, result)
  PROVE  /\ pc' \in [Pipelines -> Labels]
         /\ job' \in [Pipelines -> Job]
         /\ outcome' \in [Runs -> Outcomes]
         /\ feed' = feed /\ version' = version /\ lastRun' = lastRun
<1>1. "idle" \in Labels
  BY DEF Labels
<1> QED
  BY <1>1, NoJobType DEF TypeOK, End, GoTo, sourceVars

\* Assigning local variables of one pipeline keeps the type of job.
LEMMA TypeJob ==
  ASSUME NEW j \in Job
  PROVE  /\ \A v \in 0 .. MaxVersions : [j EXCEPT !.meta = v] \in Job
         /\ \A d \in 0 .. MaxDate : [j EXCEPT !.lower = d, !.high = d] \in Job
         /\ \A w \in SUBSET Versions : [j EXCEPT !.view = w] \in Job
         /\ \A n \in Nat, d \in 0 .. MaxDate : [j EXCEPT !.pos = n, !.high = d] \in Job
         /\ \A r \in 0 .. MaxRuns, m \in Modes : [j EXCEPT !.run = r, !.mode = m] \in Job
  BY DEF Job

LEMMA TypeLocal ==
  ASSUME TypeOK, NEW p \in Pipelines
  PROVE  /\ job[p] \in Job
         /\ job[p].run \in 0 .. MaxRuns
         /\ job[p].meta \in 0 .. MaxVersions
         /\ job[p].lower \in 0 .. MaxDate
         /\ job[p].high \in 0 .. MaxDate
         /\ job[p].view \subseteq Versions
         /\ job[p].pos \in Nat
<1>1. job[p] \in Job
  BY DEF TypeOK
<1> QED
  BY <1>1 DEF Job

LEMMA TypeStep ==
  ASSUME TypeOK, NEW p \in Pipelines, Start(p) \/ Step(p)
  PROVE  TypeOK'
<1> USE DEF TypeOK, SinkTypeOK, StoreTypeOK, sourceVars, runVars, sinkVars,
        storeVars, GoTo, Labels
<1>0. version \in 0 .. MaxVersions
  BY BoundsAssumption DEF Versions
<1>1. CASE Start(p)
  <2>1. lastRun + 1 \in 0 .. MaxRuns /\ "running" \in Outcomes
    <3>1. lastRun < MaxRuns
      BY <1>1 DEF Start
    <3>2. lastRun \in Nat /\ MaxRuns \in Nat
      BY BoundsAssumption
    <3> QED
      BY <3>1, <3>2 DEF Outcomes
  <2>2. job' \in [Pipelines -> Job]
    <3>1. PICK m \in Modes :
            job' = [job EXCEPT ![p] = [NoJob EXCEPT !.run = lastRun + 1, !.mode = m]]
      BY <1>1 DEF Start
    <3>2. [NoJob EXCEPT !.run = lastRun + 1, !.mode = m] \in Job
      BY <2>1, NoJobType, TypeJob
    <3> QED
      BY <3>1, <3>2
  <2> QED
    BY <1>1, <2>1, <2>2 DEF Start
<1>2. CASE ReadHeader(p) \/ RejectOpen(p) \/ VerifySource(p) \/ SourceChanged(p)
  BY <1>2 DEF ReadHeader, RejectOpen, VerifySource, SourceChanged
<1>3. CASE RejectHeader(p) \/ LoadCorrupt(p) \/ SkipUnchanged(p) \/ SaveLost(p)
  <2>1. {"failed", "skipped"} \subseteq Outcomes
    BY DEF Outcomes
  <2> QED
    BY <1>3, <2>1, TypeEnd DEF RejectHeader, LoadCorrupt, SkipUnchanged, SaveLost
<1>4. CASE ReadMetadata(p)
  <2>1. job' \in [Pipelines -> Job]
    <3>1. [job[p] EXCEPT !.meta = version] \in Job
      BY <1>0, TypeLocal, TypeJob
    <3> QED
      BY <1>4, <3>1 DEF ReadMetadata
  <2> QED
    BY <1>4, <2>1 DEF ReadMetadata
<1>5. CASE Proceed(p)
  <2>1. LowerWatermark(p) \in 0 .. MaxDate
    BY BoundsAssumption
    DEF LowerWatermark, Readable, Stored, Content, NoFile, Files, Runs
  <2>2. job' \in [Pipelines -> Job]
    <3> DEFINE low == LowerWatermark(p)
    <3>1. [job[p] EXCEPT !.lower = low, !.high = low] \in Job
      BY <2>1, TypeLocal, TypeJob
    <3>2. job' = [job EXCEPT ![p] = [job[p] EXCEPT !.lower = low, !.high = low]]
      BY <1>5 DEF Proceed
    <3> QED
      BY <3>1, <3>2
  <2> QED
    BY <1>5, <2>2 DEF Proceed
<1>6. CASE BeginSession(p)
  BY <1>6 DEF BeginSession, SinkBegin, DirStates
<1>7. CASE OpenSource(p)
  <2>1. job' \in [Pipelines -> Job]
    <3>1. [job[p] EXCEPT !.view = {version}] \in Job
      BY TypeLocal, TypeJob
    <3> QED
      BY <1>7, <3>1 DEF OpenSource
  <2> QED
    BY <1>7, <2>1 DEF OpenSource
<1>8. CASE IngestChunk(p)
  <2> DEFINE next == job[p].pos + ChunkSize
             chunk(v) == Rows(v, job[p].pos, next)
             new(v) == NewRows(chunk(v), job[p].lower)
  <2>1. PICK v \in job[p].view :
          /\ \E h \in 0 .. MaxDate :
               job' = [job EXCEPT ![p].pos = next, ![p].high = h]
          /\ seen' = [seen EXCEPT ![p] = @ \union KeysOf(new(v))]
          /\ parts' = [parts EXCEPT ![Run(p)] = @ \union FirstOfKey(new(v), seen[p])]
          /\ dir' = dir
    BY <1>8 DEF IngestChunk, CheckAndAdd, SinkWrite
  <2>2. v \in Versions /\ job[p].pos \in Nat /\ next \in Nat
    BY TypeLocal, ConstantsAssumption
  <2>3. chunk(v) \subseteq Nat \X Row
    BY <2>2, RowsType
  <2>4. KeysOf(new(v)) \subseteq Keys /\ FirstOfKey(new(v), seen[p]) \subseteq Nat \X Row
    BY <2>3 DEF KeysOf, NewRows, Keys, FirstOfKey
  <2>5. job' \in [Pipelines -> Job]
    <3>1. PICK h \in 0 .. MaxDate : job' = [job EXCEPT ![p].pos = next, ![p].high = h]
      BY <2>1
    <3>2. [job[p] EXCEPT !.pos = next, !.high = h] \in Job
      BY <2>2, TypeLocal, TypeJob
    <3>3. job' = [job EXCEPT ![p] = [job[p] EXCEPT !.pos = next, !.high = h]]
      BY <3>1
    <3> QED
      BY <3>2, <3>3
  <2> QED
    BY <1>8, <2>1, <2>4, <2>5 DEF IngestChunk
<1>9. CASE RejectChunk(p)
  <2>1. PICK v \in job[p].view :
          LET new == NewRows(Rows(v, job[p].pos, job[p].pos + ChunkSize), job[p].lower)
          IN  seen' = seen \/ seen' = [seen EXCEPT ![p] = @ \union KeysOf(new)]
    BY <1>9 DEF RejectChunk, CheckAndAdd
  <2>2. v \in Versions /\ job[p].pos \in Nat /\ job[p].pos + ChunkSize \in Nat
    BY TypeLocal, ConstantsAssumption
  <2>3. Rows(v, job[p].pos, job[p].pos + ChunkSize) \subseteq Nat \X Row
    BY <2>2, RowsType
  <2>4. seen' \in [Pipelines -> SUBSET Keys]
    BY <2>1, <2>3 DEF KeysOf, NewRows, Keys
  <2> QED
    BY <1>9, <2>4 DEF RejectChunk
<1>10. CASE PublishRaw(p) \/ AbortEmpty(p)
  BY <1>10 DEF PublishRaw, AbortEmpty, SinkCommit, SinkAbort, DirStates
<1>11. CASE SaveOpen(p)
  <2>1. Run(p) \in {NoFile} \union Files
    BY TypeLocal, BoundsAssumption DEF Run, NoFile, Files, Runs
  <2>2. Torn \in Content
    BY BoundsAssumption DEF Torn, Content
  <2> QED
    BY <1>11, <2>1, <2>2 DEF SaveOpen, StoreOpen
<1>12. CASE SaveFill(p)
  <2>1. Torn \in Content
    BY BoundsAssumption DEF Torn, Content
  <2>2. [id |-> job[p].meta, wm |-> job[p].high] \in Content
    BY TypeLocal DEF Content
  <2>3. PICK bytes \in Content : disk' = [disk EXCEPT ![fd[p]] = bytes]
    BY <1>12, <2>1, <2>2 DEF SaveFill, StoreFill
  <2>4. fd' = [fd EXCEPT ![p] = NoFile] /\ tmp' = tmp /\ ckpt' = ckpt
    BY <1>12 DEF SaveFill, StoreFill
  <2> QED
    BY <1>12, <2>3, <2>4 DEF SaveFill
<1>13. CASE SaveReplace(p)
  <2>1. "succeeded" \in Outcomes
    BY DEF Outcomes
  <2> QED
    BY <1>13, <2>1, TypeEnd DEF SaveReplace, StoreReplace
<1>14. CASE AbortRaw(p)
  <2>1. "failed" \in Outcomes
    BY DEF Outcomes
  <2> QED
    BY <1>14, <2>1, TypeEnd DEF AbortRaw, SinkAbort, DirStates
<1> QED
  BY <1>1, <1>2, <1>3, <1>4, <1>5, <1>6, <1>7, <1>8, <1>9, <1>10, <1>11, <1>12,
     <1>13, <1>14 DEF Step

LEMMA TypeFault ==
  ASSUME TypeOK, NEW p \in Pipelines, Fault(p)
  PROVE  TypeOK'
<1> USE DEF TypeOK, SinkTypeOK, StoreTypeOK, sourceVars, runVars, sinkVars,
        storeVars, GoTo, Labels
<1>0. {"failed", "killed"} \subseteq Outcomes
  BY DEF Outcomes
<1>1. CASE InspectFails(p) \/ AbortFails(p)
  BY <1>0, <1>1, TypeEnd DEF InspectFails, AbortFails
<1>2. CASE BeginFails(p)
  BY <1>0, <1>2, TypeEnd DEF BeginFails, SinkBegin, DirStates
<1>3. CASE StreamFails(p) \/ AbortEmptyFails(p)
  BY <1>3 DEF StreamFails, AbortEmptyFails
<1>6. CASE WriteFails(p)
  <2>1. PICK v \in job[p].view :
          LET new == NewRows(Rows(v, job[p].pos, job[p].pos + ChunkSize), job[p].lower)
          IN  seen' = [seen EXCEPT ![p] = @ \union KeysOf(new)]
    BY <1>6 DEF WriteFails, CheckAndAdd
  <2>2. v \in Versions /\ job[p].pos \in Nat /\ job[p].pos + ChunkSize \in Nat
    BY TypeLocal, ConstantsAssumption
  <2>3. Rows(v, job[p].pos, job[p].pos + ChunkSize) \subseteq Nat \X Row
    BY <2>2, RowsType
  <2>4. seen' \in [Pipelines -> SUBSET Keys]
    BY <2>1, <2>3 DEF KeysOf, NewRows, Keys
  <2> QED
    BY <1>6, <2>4 DEF WriteFails
<1>7. CASE SaveUnacknowledged(p)
  BY <1>0, <1>7, TypeEnd DEF SaveUnacknowledged, StoreReplace
<1>4. CASE PublishFails(p)
  BY <1>4 DEF PublishFails, SinkCommit, DirStates
<1>5. CASE SaveFails(p) \/ Kill(p)
  BY <1>0, <1>5, TypeEnd DEF SaveFails, Kill, StoreClose
<1> QED
  BY <1>1, <1>2, <1>3, <1>4, <1>5, <1>6, <1>7 DEF Fault

LEMMA TypeNext == TypeOK /\ [Next]_vars => TypeOK'
<1> SUFFICES ASSUME TypeOK, [Next]_vars PROVE TypeOK'
  OBVIOUS
<1>1. CASE RewriteSource
  <2>1. version' \in Versions
    BY <1>1, BoundsAssumption DEF RewriteSource, TypeOK, Versions
  <2>2. job' \in [Pipelines -> Job]
    <3>1. CASE job' = job
      BY <3>1 DEF TypeOK
    <3>2. CASE job' = [p \in Pipelines |->
                         IF version \in job[p].view
                         THEN [job[p] EXCEPT !.view = @ \union {version + 1}]
                         ELSE job[p]]
      <4>1. version + 1 \in Versions
        BY <1>1, <2>1 DEF RewriteSource
      <4>2. \A p \in Pipelines :
              /\ job[p] \in Job
              /\ [job[p] EXCEPT !.view = @ \union {version + 1}] \in Job
        BY <4>1, TypeLocal, TypeJob
      <4> QED
        BY <3>2, <4>2
    <3> QED
      BY <1>1, <3>1, <3>2 DEF RewriteSource
  <2> QED
    BY <1>1, <2>1, <2>2
    DEF RewriteSource, TypeOK, SinkTypeOK, StoreTypeOK, runVars, sinkVars, storeVars
<1>2. CASE UNCHANGED vars
  BY <1>2 DEF vars, TypeOK, SinkTypeOK, StoreTypeOK, sourceVars, runVars,
     sinkVars, storeVars
<1> QED
  BY <1>1, <1>2, TypeStep, TypeFault DEF Next, Finished

\* Every variable keeps its type in every reachable state.
THEOREM TypeCorrect == Spec => []TypeOK
  BY TypeInit, TypeNext, PTL DEF Spec

=============================================================================
