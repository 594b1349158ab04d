----------------------------- MODULE CoverProofs -----------------------------
(***************************************************************************)
(* No row is lost but for coming too late: what the checkpoint records is  *)
(* in the raw layer.                                                       *)
(***************************************************************************)
EXTENDS IncrementProofs, WellFoundedInduction

(***************************************************************************)
(* Dropping duplicates drops no key.                                       *)
(***************************************************************************)
LEMMA Smallest ==
  ASSUME NEW T \in SUBSET Nat, T # {}
  PROVE  \E m \in T : \A n \in T : m <= n
<1> DEFINE R == {ss \in Nat \X Nat : ss[1] < ss[2]}
<1>1. IsWellFoundedOn(R, Nat)
  BY NatLessThanWellFounded DEF OpToRel
<1>2. \E x \in T : \A y \in T : ~(<<y, x>> \in R)
  <2> HIDE DEF R
  <2> QED
    BY <1>1, WFMin
<1>3. \A x, y \in Nat : y < x => <<y, x>> \in R
  OBVIOUS
<1>4. PICK x \in T : \A y \in T : ~(<<y, x>> \in R)
  BY <1>2
<1>5. \A y \in T : ~(y < x)
  BY <1>3, <1>4
<1> QED
  BY <1>5

LEMMA KeysFirst ==
  ASSUME NEW S \in SUBSET (Nat \X Row)
  PROVE  KeysOf(FirstOfKey(S, {})) = KeysOf(S)
<1>1. KeysOf(FirstOfKey(S, {})) \subseteq KeysOf(S)
  BY DEF KeysOf, FirstOfKey
<1>2. ASSUME NEW x \in S
      PROVE  x[2].key \in KeysOf(FirstOfKey(S, {}))
  <2> DEFINE Same == {y \in S : y[2].key = x[2].key}
             T == {y[1] : y \in Same}
  <2>1. T \in SUBSET Nat /\ T # {}
    OBVIOUS
  <2>2. PICK m \in T : \A n \in T : m <= n
    <3> HIDE DEF T
    <3> QED
      BY <2>1, Smallest
  <2>3. PICK y \in Same : y[1] = m
    OBVIOUS
  <2>4. \A z \in S : z[2].key = y[2].key => y[1] <= z[1]
    BY <2>2, <2>3
  <2>5. y \in FirstOfKey(S, {})
    BY <2>3, <2>4 DEF FirstOfKey
  <2> QED
    BY <2>3, <2>5 DEF KeysOf
<1> QED
  BY <1>1, <1>2 DEF KeysOf

(***************************************************************************)
(* What is covered stays covered.                                          *)
(***************************************************************************)
\* No step takes a row away from a published run or rewrites history.
Grows ==
  /\ feed' = feed
  /\ \A r \in Published : r \in Published' /\ parts'[r] = parts[r]

LEMMA CoverGrows ==
  ASSUME Grows
  PROVE  /\ PublishedKeys \subseteq PublishedKeys'
         /\ \A v : AllRows(v)' = AllRows(v)
         /\ \A v : LateKeys(v)' = LateKeys(v)
         /\ \A v : Covered(v) => Covered(v)'
         /\ \A w, v : Backed(w, v) => Backed(w, v)'
<1>1. PublishedKeys \subseteq PublishedKeys'
  BY DEF Grows, PublishedKeys
<1>2. \A v : AllRows(v)' = AllRows(v)
  BY DEF Grows, AllRows, Rows, Size
<1>3. \A v : LateKeys(v)' = LateKeys(v)
  BY <1>2 DEF LateKeys
<1>4. \A v : Covered(v) => Covered(v)'
  BY <1>1, <1>2, <1>3 DEF Covered
<1>5. \A w, v : Backed(w, v) => Backed(w, v)'
  BY <1>2, <1>4 DEF Backed
<1> QED
  BY <1>1, <1>2, <1>3, <1>4, <1>5

\* What came too late for a version did so for every later one.
LEMMA LateMonotone ==
  ASSUME NEW u \in Nat, NEW v \in Nat, u <= v
  PROVE  LateKeys(u) \subseteq LateKeys(v)
  BY DEF LateKeys

LEMMA BackedMonotone ==
  ASSUME NEW w, NEW u \in Nat, NEW v \in Nat, u <= v, Backed(w, u)
  PROVE  Backed(w, v)
  BY DEF Backed

LEMMA GrowsStep ==
  ASSUME IInv, [Next]_vars
  PROVE  Grows
<1>1. ASSUME NEW q \in Pipelines, Acts(q)
      PROVE  Grows
  BY <1>1, FrameOthers, FrameSink DEF IInv, LocalInv, Grows, Published
<1>2. CASE RewriteSource \/ UNCHANGED vars
  BY <1>2 DEF RewriteSource, vars, sourceVars, sinkVars, Grows, Published
<1> QED
  BY <1>1, <1>2 DEF Next, Finished, Acts

(***************************************************************************)
(* A run that reaches its checkpoint has covered the version it read.      *)
(***************************************************************************)
LEMMA RunCovers ==
  ASSUME IInv, NEW q \in Pipelines,
         pc[q] \in Verified, Backed(job[q].lower, job[q].meta), Grows,
         job' = job, KeysOf(parts[Run(q)]) \subseteq PublishedKeys'
  PROVE  Covered(job[q].meta)' /\ Backed(job[q].high, job[q].meta)'
<1> DEFINE v == job[q].meta
           low == job[q].lower
           new == NewRows(AllRows(v), low)
<1>1. /\ TypeOK /\ v \in 1 .. version
      /\ HoldsIncrement(q, v, Size(v))
      /\ low \in 0 .. MaxDate
  BY TypeLocal DEF IInv, LocalInv, MetadataPast, VerifiedWhole
<1>2. v \in Versions /\ v \in Nat
  BY <1>1, BoundsAssumption DEF TypeOK, Versions
<1>3. AllRows(v) \subseteq Nat \X Row
  BY <1>1, <1>2, SizeType, RowsType DEF AllRows
<1>4. /\ parts[Run(q)] = FirstOfKey(new, {})
      /\ IsNewest(job[q].high, low, new)
  BY <1>1 DEF HoldsIncrement, AllRows
<1>5. new \subseteq AllRows(v) /\ new \in SUBSET (Nat \X Row)
  BY <1>3 DEF NewRows
<1>6. KeysOf(new) \subseteq PublishedKeys'
  BY <1>4, <1>5, KeysFirst
<1>7. PublishedKeys \subseteq PublishedKeys'
  BY CoverGrows
<1>8. ASSUME NEW x \in AllRows(v), x \notin new
      PROVE  x[2].key \in PublishedKeys \union LateKeys(v)
  <2>1. Watermarked /\ low # 0 /\ ~(x[2].date > low)
    BY <1>8 DEF NewRows, IsNew
  <2>2. PICK u \in 1 .. v : Covered(u) /\ \E y \in AllRows(u) : y[2].date = low
    BY <2>1 DEF Backed
  <2>3. CASE u = v
    BY <2>2, <2>3 DEF Covered, KeysOf
  <2>4. CASE u # v
    <3>1. u \in Versions /\ u < v
      BY <1>2, <2>4, BoundsAssumption DEF Versions
    <3>2. x[2].date <= low
      <4>1. x[2].date \in Nat /\ low \in Nat
        BY <1>1, <1>3, ConstantsAssumption, BoundsAssumption
      <4> QED
        BY <2>1, <4>1
    <3>3. CASE x[2].key \in KeysOf(AllRows(u))
      <4>1. LateKeys(u) \subseteq LateKeys(v)
        BY <1>2, <3>1, LateMonotone, BoundsAssumption DEF Versions
      <4> QED
        BY <2>2, <3>3, <4>1 DEF Covered
    <3>4. CASE x[2].key \notin KeysOf(AllRows(u))
      <4>1. x[2].key \in Keys /\ v \in 1 .. v
        BY <1>2, <1>3, <3>1, BoundsAssumption DEF Keys, Versions
      <4> QED
        BY <2>1, <2>2, <3>1, <3>2, <3>4, <4>1 DEF LateKeys
    <3> QED
      BY <3>3, <3>4
  <2> QED
    BY <2>3, <2>4
<1>9. KeysOf(AllRows(v)) \ LateKeys(v) \subseteq PublishedKeys'
  BY <1>6, <1>7, <1>8 DEF KeysOf
<1>10. Covered(job[q].meta)'
  <2>1. \A w : AllRows(w)' = AllRows(w) /\ LateKeys(w)' = LateKeys(w)
    BY CoverGrows
  <2>2. job'[q].meta = v
    OBVIOUS
  <2> QED
    BY <1>9, <2>1, <2>2 DEF Covered
<1>11. Backed(job[q].high, job[q].meta)'
  <2>1. \A w : AllRows(w)' = AllRows(w)
    BY CoverGrows
  <2>2. job'[q].meta = v /\ job'[q].high = job[q].high
    OBVIOUS
  <2>3. CASE job[q].high = low
    <3>1. low = 0 \/ \E u \in 1 .. v : Covered(u) /\ \E x \in AllRows(u) : x[2].date = low
      BY DEF Backed
    <3>2. \A u : Covered(u) => Covered(u)'
      BY CoverGrows
    <3> QED
      BY <2>1, <2>2, <2>3, <3>1, <3>2 DEF Backed
  <2>4. CASE job[q].high # low
    <3>1. \E x \in new : x[2].date = job[q].high
      BY <1>4, <2>4 DEF IsNewest
    <3>2. \E x \in AllRows(v) : x[2].date = job[q].high
      BY <1>5, <3>1
    <3>3. v \in 1 .. v
      BY <1>1, <1>2
    <3> QED
      BY <1>10, <2>1, <2>2, <3>2, <3>3 DEF Backed
  <2> QED
    BY <2>3, <2>4
<1> QED
  BY <1>10, <1>11

(***************************************************************************)
(* The invariant.                                                          *)
(***************************************************************************)
\* Where the acting pipeline's step neither decides nor publishes, its share
\* of the invariant is what it was.
LEMMA CoverIdle ==
  ASSUME NEW p \in Pipelines,
         pc'[p] \in {"idle", "header", "metadata", "decide", "abort", "replace"}
  PROVE  CoverLocal(p)'
  BY DEF CoverLocal, Verified, Saving

LEMMA CoverKept ==
  ASSUME Grows, version' = version, NEW p \in Pipelines, CoverLocal(p),
         job'[p].lower = job[p].lower, job'[p].high = job[p].high,
         job'[p].meta = job[p].meta,
         \/ pc'[p] = pc[p]
         \/ pc[p] \in {"begin", "open"} /\ pc'[p] \in {"open", "stream"}
         \/ pc[p] = "save" /\ pc'[p] = "fill"
  PROVE  CoverLocal(p)'
<1>1. Backed(job[p].lower, version) => Backed(job[p].lower, version)'
  <2>1. /\ \A u : Covered(u) => Covered(u)'
        /\ \A u : AllRows(u)' = AllRows(u)
    BY CoverGrows
  <2> QED
    BY <2>1 DEF Backed
<1>2. Backed(job[p].lower, job[p].meta) => Backed(job[p].lower, job[p].meta)'
  <2>1. /\ \A u : Covered(u) => Covered(u)'
        /\ \A u : AllRows(u)' = AllRows(u)
    BY CoverGrows
  <2> QED
    BY <2>1 DEF Backed
<1>3. Backed(job[p].high, job[p].meta) => Backed(job[p].high, job[p].meta)'
  <2>1. /\ \A u : Covered(u) => Covered(u)'
        /\ \A u : AllRows(u)' = AllRows(u)
    BY CoverGrows
  <2> QED
    BY <2>1 DEF Backed
<1>4. Covered(job[p].meta) => Covered(job[p].meta)'
  <2>1. \A u : Covered(u) => Covered(u)'
    BY CoverGrows
  <2> QED
    BY <2>1 DEF Covered
<1>5. CASE pc'[p] = pc[p]
  BY <1>1, <1>2, <1>3, <1>4, <1>5 DEF CoverLocal
<1>6. CASE pc[p] \in {"begin", "open"} /\ pc'[p] \in {"open", "stream"}
  BY <1>1, <1>6 DEF CoverLocal, Verified, Saving
<1>7. CASE pc[p] = "save" /\ pc'[p] = "fill"
  BY <1>3, <1>4, <1>7 DEF CoverLocal, Verified, Saving
<1> QED
  BY <1>5, <1>6, <1>7

\* decide: the watermark it takes from the checkpoint is backed.
LEMMA CoverProceed ==
  ASSUME IInv, TextsCovered, Grows, NEW q \in Pipelines, Proceed(q)
  PROVE  CoverLocal(q)'
<1>1. /\ job[q] \in Job /\ TypeOK /\ job \in [Pipelines -> Job]
      /\ pc \in [Pipelines -> Labels] /\ version \in Versions
  BY TypeLocal DEF IInv, TypeOK
<1>2. /\ pc'[q] = "begin" /\ version' = version
      /\ job'[q].lower = LowerWatermark(q)
  BY <1>1 DEF Proceed, GoTo, sourceVars, Job
<1>3. Backed(LowerWatermark(q), version)
  <2>1. CASE LowerWatermark(q) = 0
    BY <2>1 DEF Backed
  <2>2. CASE LowerWatermark(q) # 0
    <3>1. Readable /\ LowerWatermark(q) = disk[ckpt].wm
      BY <2>2 DEF LowerWatermark, Stored
    <3>2. ckpt \in Files /\ disk[ckpt] # Torn
      BY <1>1, <3>1 DEF Readable, TypeOK, StoreTypeOK
    <3>3. disk[ckpt].id \in 1 .. version /\ Backed(disk[ckpt].wm, disk[ckpt].id)
      BY <3>2 DEF TextsCovered
    <3>4. version \in Nat /\ disk[ckpt].id \in Nat /\ disk[ckpt].id <= version
      BY <1>1, <3>3, BoundsAssumption DEF Versions
    <3> QED
      BY <3>1, <3>3, <3>4, BackedMonotone
  <2> QED
    BY <2>1, <2>2
<1>4. Backed(job[q].lower, version)'
  <2>1. /\ \A u : Covered(u) => Covered(u)'
        /\ \A u : AllRows(u)' = AllRows(u)
    BY CoverGrows
  <2> QED
    BY <1>2, <1>3, <2>1 DEF Backed
<1> QED
  BY <1>2, <1>4 DEF CoverLocal, Verified, Saving

LEMMA CoverVerify ==
  ASSUME IInv, Grows, NEW q \in Pipelines, CoverLocal(q), VerifySource(q)
  PROVE  CoverLocal(q)'
<1>1. /\ pc[q] = "stream" /\ version = job[q].meta /\ job' = job
      /\ pc'[q] \in Verified
  BY DEF IInv, TypeOK, VerifySource, EndOfStream, At, GoTo, Verified
<1>2. Backed(job[q].lower, job[q].meta)
  BY <1>1 DEF CoverLocal
<1>3. Backed(job[q].lower, job[q].meta)'
  <2>1. /\ \A u : Covered(u) => Covered(u)'
        /\ \A u : AllRows(u)' = AllRows(u)
    BY CoverGrows
  <2> QED
    BY <1>1, <1>2, <2>1 DEF Backed
<1> QED
  BY <1>1, <1>3 DEF CoverLocal, Verified, Saving

\* Publication, or the abort of an empty session, covers the version read.
LEMMA CoverPublish ==
  ASSUME IInv, Grows, NEW q \in Pipelines, CoverLocal(q),
         PublishRaw(q) \/ AbortEmpty(q)
  PROVE  CoverLocal(q)'
<1>1. /\ pc[q] \in Verified /\ pc'[q] = "save" /\ job' = job
      /\ dir \in [Runs -> DirStates]
  BY DEF IInv, TypeOK, SinkTypeOK, PublishRaw, AbortEmpty, At, GoTo, Verified
<1>2. Run(q) \in Runs
  BY <1>1, BoundsAssumption DEF Verified, IInv, RunsOwned, TypeOK, At, Runs
<1>3. KeysOf(parts[Run(q)]) \subseteq PublishedKeys'
  <2>1. CASE PublishRaw(q)
    <3>1. Run(q) \in Published' /\ parts' = parts
      BY <1>1, <1>2, <2>1 DEF PublishRaw, SinkCommit, Published
    <3> QED
      BY <3>1 DEF PublishedKeys
  <2>2. CASE AbortEmpty(q)
    BY <2>2 DEF AbortEmpty, IInv, LocalInv, SessionPhase, KeysOf
  <2> QED
    BY <2>1, <2>2
<1>4. Backed(job[q].lower, job[q].meta)
  BY <1>1 DEF CoverLocal
<1> QED
  BY <1>1, <1>3, <1>4, RunCovers DEF CoverLocal, Verified, Saving

LEMMA CoverActing ==
  ASSUME IInv, CoverInv, Grows, NEW q \in Pipelines, Acts(q)
  PROVE  CoverLocal(q)'
<1>1. TypeOK /\ CoverLocal(q) /\ TextsCovered /\ job[q] \in Job
      /\ job \in [Pipelines -> Job] /\ pc \in [Pipelines -> Labels]
  BY TypeLocal DEF IInv, CoverInv, TypeOK
<1>2. version' = version
  BY <1>1, FrameOthers
<1>3. CASE Start(q) \/ ReadHeader(q) \/ RejectHeader(q) \/ ReadMetadata(q)
           \/ LoadCorrupt(q) \/ SkipUnchanged(q) \/ RejectOpen(q) \/ RejectChunk(q)
           \/ SourceChanged(q) \/ SaveFill(q) \/ SaveReplace(q) \/ SaveLost(q)
           \/ AbortRaw(q) \/ Fault(q)
  <2>1. pc'[q] \in {"idle", "header", "metadata", "decide", "abort", "replace"}
    BY <1>1, <1>3 DEF Start, ReadHeader, RejectHeader, ReadMetadata, LoadCorrupt,
       SkipUnchanged, RejectOpen, RejectChunk, SourceChanged, SaveFill, SaveReplace,
       SaveLost, AbortRaw, Fault, InspectFails, BeginFails, StreamFails, PublishFails,
       WriteFails, AbortEmptyFails, SaveFails, SaveUnacknowledged, AbortFails, Kill, End, GoTo
  <2> QED
    BY <2>1, CoverIdle
<1>4. CASE BeginSession(q) \/ OpenSource(q) \/ IngestChunk(q) \/ SaveOpen(q)
  <2>1. CASE IngestChunk(q)
    <3>1. pc[q] = "stream" /\ pc' = pc
          /\ job'[q].lower = job[q].lower /\ job'[q].meta = job[q].meta
      BY <1>1, <2>1 DEF IngestChunk, At, Job
    <3>2. Backed(job[q].lower, version)
      BY <1>1, <3>1 DEF CoverLocal
    <3>3. Backed(job[q].lower, version)'
      <4>1. /\ \A u : Covered(u) => Covered(u)'
            /\ \A u : AllRows(u)' = AllRows(u)
        BY CoverGrows
      <4> QED
        BY <1>2, <3>1, <3>2, <4>1 DEF Backed
    <3> QED
      BY <3>1, <3>3 DEF CoverLocal, Verified, Saving
  <2>2. CASE BeginSession(q) \/ OpenSource(q) \/ SaveOpen(q)
    <3>1. /\ job'[q].lower = job[q].lower /\ job'[q].high = job[q].high
          /\ job'[q].meta = job[q].meta
          /\ \/ pc[q] \in {"begin", "open"} /\ pc'[q] \in {"open", "stream"}
             \/ pc[q] = "save" /\ pc'[q] = "fill"
      BY <1>1, <2>2 DEF BeginSession, OpenSource, SaveOpen, At, GoTo, Job
    <3> QED
      BY <1>1, <1>2, <3>1, CoverKept
  <2> QED
    BY <1>4, <2>1, <2>2
<1> QED
  BY <1>1, <1>3, <1>4, CoverProceed, CoverVerify, CoverPublish DEF Acts, Step

\* What a save writes is covered, and every other text stays.
LEMMA TextsStep ==
  ASSUME IInv, CoverInv, Grows, NEW q \in Pipelines, Acts(q)
  PROVE  TextsCovered'
<1>1. TypeOK /\ CoverLocal(q) /\ TextsCovered /\ disk \in [Files -> Content]
  BY DEF IInv, CoverInv, TypeOK, StoreTypeOK
<1>2. version' = version
  BY <1>1, FrameOthers
<1>3. \A u : Covered(u) => Covered(u)'
  BY CoverGrows
<1>4. \A w, u : Backed(w, u) => Backed(w, u)'
  BY CoverGrows
<1>5. \A f \in Files :
        \/ disk'[f] = disk[f] \/ disk'[f] = Torn
        \/ /\ disk'[f] = [id |-> job[q].meta, wm |-> job[q].high]
           /\ pc[q] = "fill"
  <2>1. CASE SaveOpen(q)
    BY <1>1, <2>1 DEF SaveOpen, StoreOpen
  <2>2. CASE SaveFill(q)
    BY <1>1, <2>2 DEF SaveFill, StoreFill, At
  <2>3. CASE disk' = disk
    BY <2>3
  <2> QED
    BY <2>1, <2>2, <2>3
    DEF Acts, Start, Step, Fault, ReadHeader, RejectHeader, ReadMetadata, LoadCorrupt,
        SkipUnchanged, Proceed, BeginSession, OpenSource, RejectOpen, IngestChunk,
        RejectChunk, VerifySource, SourceChanged, PublishRaw, AbortEmpty, SaveReplace,
        SaveLost, AbortRaw, InspectFails, BeginFails, StreamFails, PublishFails,
        WriteFails, AbortEmptyFails, SaveFails, SaveUnacknowledged, AbortFails, Kill,
        StoreReplace, StoreClose, storeVars
<1>6. ASSUME NEW f \in Files, disk'[f] # Torn
      PROVE  /\ disk'[f].id \in 1 .. version
             /\ Covered(disk'[f].id) /\ Backed(disk'[f].wm, disk'[f].id)
  <2>1. CASE disk'[f] = disk[f]
    BY <1>1, <1>6, <2>1 DEF TextsCovered
  <2>2. CASE /\ disk'[f] = [id |-> job[q].meta, wm |-> job[q].high]
             /\ pc[q] = "fill"
    <3>1. job[q].meta \in 1 .. version
      BY <2>2 DEF IInv, LocalInv, MetadataPast, Saving
    <3>2. Covered(job[q].meta) /\ Backed(job[q].high, job[q].meta)
      BY <1>1, <2>2 DEF CoverLocal, Saving
    <3> QED
      BY <2>2, <3>1, <3>2
  <2> QED
    BY <1>5, <1>6, <2>1, <2>2
<1>7. ASSUME NEW f \in Files, disk'[f] # Torn
      PROVE  /\ disk'[f].id \in 1 .. version'
             /\ Covered(disk[f].id)' /\ Backed(disk[f].wm, disk[f].id)'
  <2>1. PICK v, w : v = disk'[f].id /\ w = disk'[f].wm
    OBVIOUS
  <2>2. Covered(v) /\ Backed(w, v)
    BY <1>6, <1>7, <2>1
  <2>3. Covered(v)' /\ Backed(w, v)'
    BY <1>3, <1>4, <2>2
  <2>4. Covered(disk[f].id)' /\ Backed(disk[f].wm, disk[f].id)'
    BY <2>1, <2>3 DEF Covered, Backed
  <2> QED
    BY <1>2, <1>6, <1>7, <2>4
<1> QED
  BY <1>7 DEF TextsCovered, Torn

LEMMA CoverRewrite ==
  ASSUME IInv, CoverInv, Grows, RewriteSource
  PROVE  CoverInv'
<1>1. /\ version' = version + 1 /\ version \in Nat /\ pc' = pc /\ disk' = disk
      /\ \A p \in Pipelines :
           /\ job'[p].meta = job[p].meta
           /\ job'[p].lower = job[p].lower /\ job'[p].high = job[p].high
  BY FrameRewrite DEF IInv
<1>2. /\ \A u : Covered(u) => Covered(u)'
      /\ \A u : AllRows(u)' = AllRows(u)
      /\ \A w, u : Backed(w, u) => Backed(w, u)'
  BY CoverGrows
<1>3. TextsCovered'
  <2>1. ASSUME NEW f \in Files, disk[f] # Torn
        PROVE  /\ disk[f].id \in 1 .. (version + 1)
               /\ Covered(disk[f].id)' /\ Backed(disk[f].wm, disk[f].id)'
    <3>1. /\ disk[f].id \in 1 .. version
          /\ Covered(disk[f].id) /\ Backed(disk[f].wm, disk[f].id)
      BY <2>1 DEF CoverInv, TextsCovered
    <3>2. Covered(disk[f].id)' /\ Backed(disk[f].wm, disk[f].id)'
      BY <1>1, <1>2, <3>1 DEF Covered, Backed
    <3> QED
      BY <1>1, <3>1, <3>2
  <2> QED
    BY <1>1, <2>1 DEF TextsCovered, Torn
<1>4. ASSUME NEW p \in Pipelines
      PROVE  CoverLocal(p)'
  <2>1. CoverLocal(p)
    BY DEF CoverInv
  <2>2. Backed(job[p].lower, version) => Backed(job[p].lower, version + 1)
    BY <1>1, BackedMonotone
  <2>3. Backed(job[p].lower, version + 1) => Backed(job[p].lower, version)'
    BY <1>1, <1>2 DEF Backed
  <2>4. Backed(job[p].lower, job[p].meta) => Backed(job[p].lower, job[p].meta)'
    BY <1>1, <1>2 DEF Backed
  <2>5. Backed(job[p].high, job[p].meta) => Backed(job[p].high, job[p].meta)'
    BY <1>1, <1>2 DEF Backed
  <2>6. Covered(job[p].meta) => Covered(job[p].meta)'
    BY <1>1, <1>2 DEF Covered
  <2> QED
    BY <1>1, <2>1, <2>2, <2>3, <2>4, <2>5, <2>6 DEF CoverLocal
<1> QED
  BY <1>3, <1>4 DEF CoverInv

LEMMA CoverStutter ==
  ASSUME CoverInv, Grows, UNCHANGED vars
  PROVE  CoverInv'
<1>1. /\ version' = version /\ pc' = pc /\ job' = job /\ disk' = disk
  BY DEF vars, sourceVars, storeVars
<1>2. /\ \A u : Covered(u) => Covered(u)'
      /\ \A u : AllRows(u)' = AllRows(u)
  BY CoverGrows
<1>3. TextsCovered'
  BY <1>1, <1>2 DEF CoverInv, TextsCovered, Torn, Backed, Covered
<1>4. ASSUME NEW p \in Pipelines
      PROVE  CoverLocal(p)'
  BY <1>1, CoverKept DEF CoverInv
<1> QED
  BY <1>3, <1>4 DEF CoverInv

LEMMA CoverInvInit == Init => CoverInv
  BY DEF Init, StoreInit, CoverInv, TextsCovered, CoverLocal, Verified, Saving

LEMMA CoverInvNext == IInv /\ CoverInv /\ [Next]_vars => CoverInv'
<1> SUFFICES ASSUME IInv, CoverInv, [Next]_vars
             PROVE  CoverInv'
  OBVIOUS
<1>1. Grows
  BY GrowsStep
<1>2. ASSUME NEW q \in Pipelines, Acts(q)
      PROVE  CoverInv'
  <2>1. TextsCovered'
    BY <1>1, <1>2, TextsStep
  <2>2. ASSUME NEW p \in Pipelines
        PROVE  CoverLocal(p)'
    <3>1. CASE p = q
      BY <1>1, <1>2, <3>1, CoverActing
    <3>2. CASE p # q
      <4>1. /\ version' = version /\ pc'[p] = pc[p] /\ job'[p] = job[p]
        BY <1>2, <3>2, FrameOthers DEF IInv
      <4> QED
        BY <1>1, <4>1, CoverKept DEF CoverInv
    <3> QED
      BY <3>1, <3>2
  <2> QED
    BY <2>1, <2>2 DEF CoverInv
<1> QED
  BY <1>1, <1>2, CoverRewrite, CoverStutter DEF Next, Finished, Acts

\* Every whole text of a checkpoint, under whatever name, is of a version whose
\* keys are published or came too late.
THEOREM CoverInvCorrect == Spec => []CoverInv
  BY IInvCorrect, CoverInvInit, CoverInvNext, PTL DEF Spec

\* The version a readable checkpoint records is in published runs, key by key
\* but for those that came too late, for any number of pipelines that share the
\* roots, any mode, and whatever was killed, repeated, rewritten or saved out of
\* order.
THEOREM NoLostRowsCorrect == Spec => []NoLostRows
<1>1. IInv /\ CoverInv => NoLostRows
  <2> SUFFICES ASSUME IInv, CoverInv, Readable
               PROVE  KeysOf(AllRows(Stored.id)) \ LateKeys(Stored.id)
                        \subseteq PublishedKeys
    BY DEF NoLostRows
  <2>1. ckpt \in Files /\ disk[ckpt] # Torn
    BY DEF IInv, TypeOK, StoreTypeOK, Readable
  <2> QED
    BY <2>1 DEF CoverInv, TextsCovered, Covered, Stored
<1> QED
  BY <1>1, CoverInvCorrect, IInvCorrect, PTL

=============================================================================
