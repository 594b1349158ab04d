-------------------------- MODULE TableIngestionInv --------------------------
(***************************************************************************)
(* The inductive invariant behind PublishedWhole and NoLostRows, in named  *)
(* parts.  The parts with a parameter speak of one pipeline.               *)
(***************************************************************************)
EXTENDS TableIngestion

Before == {"header", "metadata", "decide", "begin"}    \* nothing begun yet
Inspected == {"decide", "begin", "open", "stream"}     \* metadata was read
Verified == {"publish", "empty"}                       \* and found unchanged
Saving == {"save", "fill"}                             \* publication is done

\* Runs are handed out once, and a run without a directory has no parts.
RunsOwned ==
  /\ \A p \in Pipelines : ~At(p, "idle") => Run(p) \in 1 .. lastRun
  /\ \A p, q \in Pipelines :
       p # q /\ ~At(p, "idle") /\ ~At(q, "idle") => Run(p) # Run(q)
  /\ \A r \in Runs : r > lastRun => dir[r] = "absent"
  /\ \A r \in Runs : dir[r] = "absent" => parts[r] = {}

\* Where the directory of the pipeline's own run is, step by step.
SessionPhase(p) ==
  /\ pc[p] \in Before => dir[Run(p)] = "absent"
  /\ pc[p] \in {"open", "stream"} \union Verified => dir[Run(p)] = "staging"
  /\ pc[p] \in Before \union {"open"} => job[p].pos = 0
  /\ At(p, "open") => /\ parts[Run(p)] = {} /\ seen[p] = {}
                      /\ job[p].high = job[p].lower
  /\ At(p, "begin") => job[p].high = job[p].lower
  /\ At(p, "empty") => parts[Run(p)] = {}
  /\ At(p, "publish") => parts[Run(p)] # {}

\* The identity read first is never ahead of the file.
MetadataPast(p) ==
  pc[p] \in Inspected \union Verified \union Saving => job[p].meta \in 1 .. version

\* What a run holds after reading the rows of version v up to position n.
HoldsIncrement(p, v, n) ==
  LET new == NewRows(Rows(v, 0, n), job[p].lower)
  IN  /\ Valid(Rows(v, 0, n), job[p].lower)
      /\ parts[Run(p)] = FirstOfKey(new, {})
      /\ seen[p] = KeysOf(new)
      /\ IsNewest(job[p].high, job[p].lower, new)

\* While the file is what it was when its identity was read, the stream
\* delivers that version and what is staged is its increment so far.
StreamFaithful(p) ==
  At(p, "stream") /\ version = job[p].meta
    => job[p].view = {job[p].meta} /\ HoldsIncrement(p, job[p].meta, job[p].pos)

\* Once the identity was verified, what is staged is the whole increment,
\* and later rewrites no longer matter.
VerifiedWhole(p) ==
  pc[p] \in Verified => HoldsIncrement(p, job[p].meta, Size(job[p].meta))

LocalInv(p) ==
  SessionPhase(p) /\ MetadataPast(p) /\ StreamFaithful(p) /\ VerifiedWhole(p)

IInv ==
  /\ TypeOK
  /\ RunsOwned
  /\ \A p \in Pipelines : LocalInv(p)
  /\ PublishedWhole

(***************************************************************************)
(* The part about lost rows.                                               *)
(***************************************************************************)
\* Every key of version v is in a published run or came too late.
Covered(v) == KeysOf(AllRows(v)) \ LateKeys(v) \subseteq PublishedKeys

\* A watermark is None or the date of a row of a covered version up to v.
Backed(w, v) ==
  w = 0 \/ \E u \in 1 .. v : Covered(u) /\ \E x \in AllRows(u) : x[2].date = w

\* Every whole text the store holds, under whatever name, is of a version
\* that is covered.
TextsCovered ==
  \A f \in Files :
    disk[f] # Torn => /\ disk[f].id \in 1 .. version
                      /\ Covered(disk[f].id)
                      /\ Backed(disk[f].wm, disk[f].id)

\* The watermark a run starts from hides covered and late rows only, and what a run is
\* about to record is covered.
CoverLocal(p) ==
  /\ pc[p] \in {"begin", "open", "stream"} => Backed(job[p].lower, version)
  /\ pc[p] \in Verified => Backed(job[p].lower, job[p].meta)
  /\ pc[p] \in Saving => Covered(job[p].meta) /\ Backed(job[p].high, job[p].meta)

CoverInv == TextsCovered /\ \A p \in Pipelines : CoverLocal(p)

=============================================================================
