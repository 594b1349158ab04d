-------------------------- MODULE CuratedLoadProofs --------------------------
(***************************************************************************)
(* Proofs about CuratedLoad, for any number of loads, datasets, attempts   *)
(* and transient errors, on local and on remote roots.                     *)
(***************************************************************************)
EXTENDS CuratedLoadInv, TLAPS

LEMMA NothingType == Nothing \in [Datasets -> States]
  BY DEF Nothing, States

LEMMA TypeInit == Init => TypeOK
<1> SUFFICES ASSUME Init PROVE TypeOK
  OBVIOUS
<1>1. /\ 1 \in 1 .. DatasetCount + 1 /\ 1 \in 1 .. MaxAttempts
      /\ 0 \in 0 .. MaxFaults
  BY LoadAssumption
<1>2. /\ pc \in [Loads -> Labels] /\ result \in [Loads -> Results]
      /\ place \in [Loads -> Places] /\ root \in BOOLEAN
      /\ data \in [Loads -> [Datasets -> States]]
  BY NothingType DEF Init, Labels, Results, Places
<1> QED
  BY <1>1, <1>2 DEF Init, TypeOK

\* What the control helpers do to the state, once and for all steps.
LEMMA EndType ==
  ASSUME TypeOK, NEW l \in Loads, NEW answer \in Results, End(l, answer)
  PROVE  pc' \in [Loads -> Labels] /\ result' \in [Loads -> Results]
  BY DEF TypeOK, End, GoTo, Labels

LEMMA RaiseType ==
  ASSUME TypeOK, NEW l \in Loads, Raise(l)
  PROVE  pc' \in [Loads -> Labels] /\ result' \in [Loads -> Results]
  BY DEF TypeOK, Raise, End, GoTo, Labels, Results

LEMMA AttemptType ==
  ASSUME TypeOK, NEW l \in Loads, FailedAttempt(l)
  PROVE  /\ pc' \in [Loads -> Labels] /\ result' \in [Loads -> Results]
         /\ attempt' \in [Loads -> 1 .. MaxAttempts]
         /\ errors' \in [Loads -> 0 .. MaxFaults]
         /\ position' = position /\ warned' = warned
<1>1. attempt[l] \in 1 .. MaxAttempts /\ errors[l] \in 0 .. MaxFaults
  BY DEF TypeOK
<1>2. errors' \in [Loads -> 0 .. MaxFaults]
  BY <1>1, LoadAssumption DEF FailedAttempt, TypeOK
<1>3. CASE attempt[l] < MaxAttempts
  <2>1. attempt[l] + 1 \in 1 .. MaxAttempts
    BY <1>1, <1>3, LoadAssumption
  <2>2. /\ attempt' = [attempt EXCEPT ![l] = @ + 1]
        /\ pc' = pc /\ result' = result
        /\ position' = position /\ warned' = warned
    BY <1>3 DEF FailedAttempt
  <2> QED
    BY <1>2, <2>1, <2>2 DEF TypeOK
<1>4. CASE ~(attempt[l] < MaxAttempts)
  BY <1>2, <1>4, RaiseType DEF FailedAttempt, TypeOK
<1> QED
  BY <1>3, <1>4

LEMMA HoldsType ==
  ASSUME TypeOK, NEW l \in Loads, position[l] \in Datasets,
         NEW state \in States, Holds(l, state)
  PROVE  /\ place' \in [Loads -> Places]
         /\ data' \in [Loads -> [Datasets -> States]]
         /\ root' \in BOOLEAN
  BY LoadAssumption DEF TypeOK, Holds, Places

(***************************************************************************)
(* A step of one load leaves the local state of the others alone.          *)
(***************************************************************************)
Untouched(k) ==
  /\ pc'[k] = pc[k] /\ position'[k] = position[k] /\ result'[k] = result[k]
  /\ place'[k] = place[k] /\ data'[k] = data[k]

LEMMA InvUntouched ==
  ASSUME NEW k \in Loads, LoadInv(k), Untouched(k)
  PROVE  LoadInv(k)'
  BY DEF LoadInv, Untouched, Hidden, FinalIsWhole, Progress, WrittenSoFar, Told

LEMMA OthersUntouched ==
  ASSUME TypeOK, NEW l \in Loads, Step(l) \/ Fault(l), NEW k \in Loads, k # l
  PROVE  Untouched(k)
<1> USE DEF TypeOK, Untouched, End, Raise, GoTo, Fresh, FailedAttempt, Holds,
        fileVars
<1>1. CASE AcceptBundle(l) \/ RejectBundle(l) \/ Kill(l)
  BY <1>1 DEF AcceptBundle, RejectBundle, Kill
<1>2. CASE WriteDataset(l)
  BY <1>2 DEF WriteDataset
<1>3. CASE WriteFails(l)
  BY <1>3 DEF WriteFails
<1>4. CASE RejectDataset(l) \/ RefuseExisting(l)
  BY <1>4 DEF RejectDataset, RefuseExisting
<1>5. CASE Publish(l) \/ PublishMissing(l)
  BY <1>5 DEF Publish, PublishMissing
<1>6. CASE PublishFails(l)
  BY <1>6 DEF PublishFails
<1>7. CASE RootIsThere(l) \/ ScanRoot(l) \/ ScanMissing(l) \/ RemoveRoot(l)
  BY <1>7 DEF RootIsThere, ScanRoot, ScanMissing, RemoveRoot
<1>8. CASE Abort(l) \/ AbortFails(l)
  BY <1>8 DEF Abort, AbortFails
<1> QED
  BY <1>1, <1>2, <1>3, <1>4, <1>5, <1>6, <1>7, <1>8 DEF Step, Fault

(***************************************************************************)
(* Types are kept.                                                         *)
(***************************************************************************)
\* A dataset is only written while there is one left to write.
LEMMA Writing ==
  ASSUME IInv, NEW l \in Loads, At(l, "write")
  PROVE  position[l] \in Datasets
  BY DEF IInv, LoadInv, Progress, At

LEMMA TypeStep ==
  ASSUME IInv, NEW l \in Loads, Step(l) \/ Fault(l)
  PROVE  TypeOK'
<1>0. TypeOK
  BY DEF IInv
<1>1. CASE AcceptBundle(l)
  BY <1>0, <1>1 DEF AcceptBundle, TypeOK, eventVars, GoTo, Labels, fileVars
<1>2. CASE RejectBundle(l) \/ Kill(l)
  BY <1>0, <1>2, EndType DEF RejectBundle, Kill, TypeOK, eventVars, fileVars, Results
<1>3. CASE WriteDataset(l)
  <2>1. position[l] \in Datasets
    BY <1>3, Writing DEF WriteDataset
  <2>2. position' \in [Loads -> 1 .. DatasetCount + 1]
    BY <1>0, <1>3, <2>1, LoadAssumption DEF WriteDataset, TypeOK, eventVars, Datasets
  <2>3. attempt' \in [Loads -> 1 .. MaxAttempts] /\ errors' = errors
        /\ warned' = warned
    BY <1>0, <1>3, LoadAssumption DEF WriteDataset, Fresh, TypeOK, eventVars
  <2>4. pc' \in [Loads -> Labels] /\ result' \in [Loads -> Results]
    BY <1>0, <1>3 DEF WriteDataset, End, GoTo, TypeOK, Labels, Results
  <2>5. "whole" \in States
    BY DEF States
  <2>6. /\ place' \in [Loads -> Places] /\ root' \in BOOLEAN
        /\ data' \in [Loads -> [Datasets -> States]]
    BY <1>0, <1>3, <2>1, <2>5, HoldsType DEF WriteDataset
  <2> QED
    BY <1>0, <2>2, <2>3, <2>4, <2>6 DEF TypeOK, eventVars
<1>4. CASE WriteFails(l)
  <2>1. position[l] \in Datasets
    BY <1>4, Writing DEF WriteFails
  <2>2. {"partial", "whole"} \subseteq States
    BY DEF States
  <2>3. /\ place' \in [Loads -> Places] /\ root' \in BOOLEAN
        /\ data' \in [Loads -> [Datasets -> States]]
    <3>1. CASE UNCHANGED fileVars
      BY <1>0, <3>1 DEF fileVars, TypeOK
    <3>2. CASE \E state \in {"partial", "whole"} : Holds(l, state)
      BY <1>0, <2>1, <2>2, <3>2, HoldsType
    <3> QED
      BY <1>4, <3>1, <3>2 DEF WriteFails
  <2> QED
    BY <1>0, <1>4, <2>3, AttemptType DEF WriteFails, TypeOK, eventVars
<1>5. CASE RejectDataset(l)
  <2>1. position[l] \in Datasets
    BY <1>5, Writing DEF RejectDataset
  <2>2. "partial" \in States
    BY DEF States
  <2>3. /\ place' \in [Loads -> Places] /\ root' \in BOOLEAN
        /\ data' \in [Loads -> [Datasets -> States]]
    BY <1>0, <1>5, <2>1, <2>2, HoldsType DEF RejectDataset, fileVars, TypeOK
  <2> QED
    BY <1>0, <1>5, <2>3, RaiseType DEF RejectDataset, TypeOK, eventVars
<1>6. CASE RefuseExisting(l) \/ ScanMissing(l)
  BY <1>0, <1>6, RaiseType DEF RefuseExisting, ScanMissing, TypeOK, eventVars, fileVars
<1>7. CASE Publish(l)
  BY <1>0, <1>7, LoadAssumption DEF Publish, Fresh, GoTo, TypeOK, eventVars, Labels, Places
<1>8. CASE PublishFails(l)
  <2>1. place' \in [Loads -> Places]
    BY <1>0, <1>8 DEF PublishFails, TypeOK, Places
  <2> QED
    BY <1>0, <1>8, <2>1, AttemptType DEF PublishFails, TypeOK, eventVars
<1>9. CASE PublishMissing(l)
  <2>1. attempt[l] \in 1 .. MaxAttempts
    BY <1>0 DEF TypeOK
  <2>2. CASE attempt[l] < MaxAttempts
    <3>1. attempt[l] + 1 \in 1 .. MaxAttempts
      BY <2>1, <2>2, LoadAssumption
    <3>2. /\ attempt' = [attempt EXCEPT ![l] = @ + 1]
          /\ UNCHANGED <<pc, result, position, fileVars, eventVars>>
      BY <1>9, <2>2 DEF PublishMissing
    <3> QED
      BY <1>0, <3>1, <3>2 DEF TypeOK, fileVars, eventVars
  <2>3. CASE ~(attempt[l] < MaxAttempts)
    BY <1>0, <1>9, <2>3, RaiseType DEF PublishMissing, TypeOK, eventVars, fileVars
  <2> QED
    BY <2>2, <2>3
<1>10. CASE RootIsThere(l) \/ ScanRoot(l)
  BY <1>0, <1>10 DEF RootIsThere, ScanRoot, End, GoTo, TypeOK, eventVars, fileVars, Labels,
     Results
<1>11. CASE RemoveRoot(l)
  BY <1>0, <1>11, EndType DEF RemoveRoot, TypeOK, eventVars, Results
<1>12. CASE Abort(l)
  <2>1. "failed" \in Results /\ "none" \in Places
    BY DEF Results, Places
  <2>2. pc' \in [Loads -> Labels] /\ result' \in [Loads -> Results]
    BY <1>0, <1>12, <2>1, EndType DEF Abort
  <2>3. place' \in [Loads -> Places] /\ data' \in [Loads -> [Datasets -> States]]
    BY <1>0, <1>12, <2>1, NothingType DEF Abort, TypeOK
  <2> QED
    BY <1>0, <1>12, <2>2, <2>3 DEF Abort, TypeOK, eventVars
<1>13. CASE AbortFails(l)
  BY <1>0, <1>13, EndType DEF AbortFails, TypeOK, eventVars, fileVars, Results
<1> QED
  BY <1>1, <1>2, <1>3, <1>4, <1>5, <1>6, <1>7, <1>8, <1>9, <1>10, <1>11, <1>12,
     <1>13 DEF Step, Fault

(***************************************************************************)
(* The invariant is inductive.                                             *)
(***************************************************************************)
\* A step that ends the load, or raises, and touches no file keeps what is
\* known of the load.
LEMMA InvLeave ==
  ASSUME IInv, NEW l \in Loads, ~At(l, "end"), UNCHANGED <<position, fileVars>>,
         \/ End(l, "failed") \/ End(l, "killed") \/ Raise(l)
  PROVE  LoadInv(l)'
<1>1. /\ result'[l] # "ok" /\ pc'[l] \in {"abort", "end"}
      /\ pc'[l] = "abort" => IsLocal
  BY DEF IInv, LoadInv, Told, At, TypeOK, End, Raise, GoTo
<1> QED
  BY <1>1 DEF IInv, LoadInv, Hidden, FinalIsWhole, Progress, Told, fileVars

\* The steps that fill a dataset directory.
LEMMA InvHolds ==
  ASSUME IInv, NEW l \in Loads, At(l, "write"),
         NEW state \in States, Holds(l, state)
  PROVE  /\ WrittenSoFar(l)
         /\ position[l] \in Datasets
         /\ \A d \in Datasets : d < position[l] => data'[l][d] = "whole"
         /\ data'[l][position[l]] = state
         /\ IsLocal => place'[l] = "staging"
         /\ ~IsLocal => place'[l] = "final"
<1>1. position[l] \in Datasets /\ WrittenSoFar(l)
  BY DEF IInv, LoadInv, Progress, At
<1>2. data' = [data EXCEPT ![l][position[l]] = state]
  BY DEF Holds
<1>3. data[l] \in [Datasets -> States] /\ data \in [Loads -> [Datasets -> States]]
  BY DEF IInv, TypeOK
<1>4. /\ data'[l][position[l]] = state
      /\ \A d \in Datasets : d # position[l] => data'[l][d] = data[l][d]
  BY <1>1, <1>2, <1>3
<1>5. \A d \in Datasets : d < position[l] => d # position[l]
  BY <1>1 DEF Datasets
<1>6. /\ IsLocal => place'[l] = "staging"
      /\ ~IsLocal => place'[l] = "final"
  BY DEF Holds, IInv, TypeOK
<1> QED
  BY <1>1, <1>4, <1>5, <1>6 DEF WrittenSoFar

LEMMA InvWriteDataset ==
  ASSUME IInv, NEW l \in Loads, WriteDataset(l)
  PROVE  LoadInv(l)'
<1>0. TypeOK /\ LoadInv(l) /\ At(l, "write") /\ "whole" \in States
  BY DEF IInv, WriteDataset, States
<1>1. /\ position[l] \in Datasets
      /\ \A d \in Datasets : d < position[l] => data'[l][d] = "whole"
      /\ data'[l][position[l]] = "whole"
      /\ IsLocal => place'[l] = "staging"
      /\ ~IsLocal => place'[l] = "final"
  BY <1>0, InvHolds DEF WriteDataset
<1>2. position'[l] = position[l] + 1
  BY <1>0 DEF WriteDataset, TypeOK
<1>3. \A d \in Datasets : d < position'[l] => data'[l][d] = "whole"
  BY <1>1, <1>2 DEF Datasets
<1>4. result[l] # "ok"
  BY <1>0 DEF LoadInv, Told, At
<1>5. CASE position[l] < DatasetCount
  <2>1. pc'[l] = "write" /\ result'[l] # "ok"
    BY <1>0, <1>4, <1>5 DEF WriteDataset, At
  <2>2. position'[l] \in Datasets
    BY <1>1, <1>2, <1>5, LoadAssumption DEF Datasets
  <2> QED
    BY <1>1, <1>3, <2>1, <2>2
       DEF LoadInv, Hidden, FinalIsWhole, Progress, WrittenSoFar, Told
<1>6. CASE ~(position[l] < DatasetCount)
  <2>1. \A d \in Datasets : data'[l][d] = "whole"
    BY <1>1, <1>2, <1>3, <1>6, LoadAssumption DEF Datasets
  <2>2. /\ IsLocal => pc'[l] = "publish" /\ result'[l] # "ok"
        /\ ~IsLocal => pc'[l] = "end"
    BY <1>0, <1>4, <1>6 DEF WriteDataset, End, GoTo, TypeOK
  <2> QED
    BY <1>1, <2>1, <2>2
       DEF LoadInv, Hidden, FinalIsWhole, Progress, WrittenSoFar, Told
<1> QED
  BY <1>5, <1>6

\* A failed attempt stays at the operation or leaves it like any error.
LEMMA AttemptLeaves ==
  ASSUME IInv, NEW l \in Loads, ~At(l, "end"), FailedAttempt(l)
  PROVE  /\ position'[l] = position[l] /\ result'[l] # "ok"
         /\ pc'[l] \in {pc[l], "abort", "end"}
         /\ pc'[l] = "abort" => IsLocal
  BY DEF FailedAttempt, IInv, LoadInv, Progress, Told, At, TypeOK, End, Raise, GoTo

LEMMA InvWriteFails ==
  ASSUME IInv, NEW l \in Loads, WriteFails(l)
  PROVE  LoadInv(l)'
<1>0. LoadInv(l) /\ At(l, "write") /\ {"partial", "whole"} \subseteq States
  BY DEF IInv, WriteFails, States
<1>1. /\ position'[l] = position[l] /\ result'[l] # "ok"
      /\ pc'[l] \in {"write", "abort", "end"}
      /\ pc'[l] = "abort" => IsLocal
  BY <1>0, AttemptLeaves DEF WriteFails, At
<1>2. CASE UNCHANGED fileVars
  <2>1. place' = place /\ data' = data
    BY <1>2 DEF fileVars
  <2>2. /\ place[l] = "none" => data[l] = Nothing
        /\ ~(IsLocal /\ place[l] = "final")
        /\ position[l] \in Datasets /\ WrittenSoFar(l)
        /\ place[l] = "none" => position[l] = 1
    BY <1>0 DEF LoadInv, Hidden, Progress, At
  <2>3. WrittenSoFar(l)'
    BY <1>1, <2>1, <2>2 DEF WrittenSoFar
  <2> QED
    BY <1>1, <2>1, <2>2, <2>3 DEF LoadInv, Hidden, FinalIsWhole, Progress, Told
<1>3. CASE \E state \in {"partial", "whole"} : Holds(l, state)
  <2>1. /\ position[l] \in Datasets
        /\ \A d \in Datasets : d < position[l] => data'[l][d] = "whole"
        /\ IsLocal => place'[l] = "staging"
        /\ ~IsLocal => place'[l] = "final"
    BY <1>0, <1>3, InvHolds
  <2>2. place'[l] # "none" /\ ~(IsLocal /\ place'[l] = "final")
    BY <2>1
  <2>3. WrittenSoFar(l)'
    BY <1>1, <2>1 DEF WrittenSoFar
  <2> QED
    BY <1>1, <2>1, <2>2, <2>3 DEF LoadInv, Hidden, FinalIsWhole, Progress, Told
<1> QED
  BY <1>2, <1>3 DEF WriteFails

LEMMA InvRejectDataset ==
  ASSUME IInv, NEW l \in Loads, RejectDataset(l)
  PROVE  LoadInv(l)'
<1>0. At(l, "write") /\ "partial" \in States /\ position' = position
  BY DEF RejectDataset, States
<1>1. CASE UNCHANGED fileVars
  BY <1>0, <1>1, InvLeave DEF RejectDataset, At
<1>2. CASE Holds(l, "partial")
  <2>1. IsLocal => place'[l] = "staging"
    BY <1>0, <1>2, InvHolds
  <2>2. ~IsLocal => place'[l] = "final"
    BY <1>0, <1>2, InvHolds
  <2>3. /\ result'[l] # "ok" /\ pc'[l] \in {"abort", "end"}
        /\ pc'[l] = "abort" => IsLocal
    BY <1>0 DEF RejectDataset, IInv, LoadInv, Told, At, TypeOK, End, Raise, GoTo
  <2> QED
    BY <2>1, <2>2, <2>3
       DEF LoadInv, Hidden, FinalIsWhole, Progress, WrittenSoFar, Told
<1> QED
  BY <1>1, <1>2 DEF RejectDataset

LEMMA InvPublishing ==
  ASSUME IInv, NEW l \in Loads,
         Publish(l) \/ PublishFails(l) \/ PublishMissing(l)
  PROVE  LoadInv(l)'
<1>0. LoadInv(l) /\ At(l, "publish") /\ TypeOK
  BY DEF IInv, Publish, PublishFails, PublishMissing
<1>1. /\ IsLocal /\ place[l] \in {"staging", "final"} /\ result[l] # "ok"
      /\ \A d \in Datasets : data[l][d] = "whole"
  BY <1>0 DEF LoadInv, Progress, Told, At
<1>2. CASE Publish(l)
  <2>1. /\ pc'[l] = "isdir" /\ place'[l] = "final"
        /\ data' = data /\ result' = result
    BY <1>0, <1>2 DEF Publish, GoTo, TypeOK
  <2> QED
    BY <1>1, <2>1 DEF LoadInv, Hidden, FinalIsWhole, Progress, Told
<1>3. CASE PublishFails(l)
  <2>1. place'[l] \in {"staging", "final"} /\ data' = data
    BY <1>0, <1>1, <1>3 DEF PublishFails, TypeOK
  <2>2. /\ result'[l] # "ok" /\ pc'[l] \in {"publish", "abort", "end"}
        /\ pc'[l] = "abort" => IsLocal
    BY <1>0, <1>3, AttemptLeaves DEF PublishFails, At
  <2> QED
    BY <1>1, <2>1, <2>2 DEF LoadInv, Hidden, FinalIsWhole, Progress, Told
<1>4. CASE PublishMissing(l)
  <2>1. UNCHANGED <<place, data>>
    BY <1>4 DEF PublishMissing, fileVars
  <2>2. result'[l] # "ok" /\ pc'[l] \in {"publish", "abort", "end"}
    BY <1>0, <1>1, <1>4 DEF PublishMissing, Raise, End, GoTo, At, TypeOK
  <2> QED
    BY <1>1, <2>1, <2>2 DEF LoadInv, Hidden, FinalIsWhole, Progress, Told
<1> QED
  BY <1>2, <1>3, <1>4

LEMMA InvCleaning ==
  ASSUME IInv, NEW l \in Loads,
         RootIsThere(l) \/ ScanRoot(l) \/ RemoveRoot(l)
  PROVE  LoadInv(l)'
<1>0. LoadInv(l) /\ TypeOK /\ pc[l] \in {"isdir", "scan", "rmdir"}
  BY DEF IInv, RootIsThere, ScanRoot, RemoveRoot, At
<1>1. /\ IsLocal /\ place[l] = "final" /\ result[l] # "ok"
      /\ \A d \in Datasets : data[l][d] = "whole"
  BY <1>0 DEF LoadInv, Progress, Told
<1>2. UNCHANGED <<place, data>>
  BY DEF RootIsThere, ScanRoot, RemoveRoot, fileVars
<1>3. \/ pc'[l] = "end"
      \/ pc'[l] \in {"scan", "rmdir"} /\ result'[l] # "ok"
  BY <1>0, <1>1 DEF RootIsThere, ScanRoot, RemoveRoot, End, GoTo, TypeOK
<1> QED
  BY <1>1, <1>2, <1>3 DEF LoadInv, Hidden, FinalIsWhole, Progress, Told

LEMMA InvAbort ==
  ASSUME IInv, NEW l \in Loads, Abort(l)
  PROVE  LoadInv(l)'
<1>0. LoadInv(l) /\ TypeOK
  BY DEF IInv
<1>1. pc'[l] = "end" /\ result'[l] = "failed"
  BY <1>0 DEF Abort, End, GoTo, TypeOK
<1>2. CASE place[l] = "staging"
  <2>1. place'[l] = "none" /\ data'[l] = Nothing
    BY <1>0, <1>2 DEF Abort, TypeOK
  <2> QED
    BY <1>1, <2>1 DEF LoadInv, Hidden, FinalIsWhole, Progress, Told
<1>3. CASE place[l] # "staging"
  BY <1>0, <1>1, <1>3 DEF Abort, LoadInv, Hidden, FinalIsWhole, Progress, Told
<1> QED
  BY <1>2, <1>3

LEMMA InvOwnStep ==
  ASSUME IInv, NEW l \in Loads, Step(l) \/ Fault(l)
  PROVE  LoadInv(l)'
<1>1. CASE AcceptBundle(l)
  <2>1. 1 \in Datasets
    BY LoadAssumption DEF Datasets
  <2>2. /\ pc'[l] = "write" /\ UNCHANGED <<position, result, place, data>>
        /\ place[l] = "none" /\ position[l] = 1 /\ result[l] # "ok"
        /\ data[l] = Nothing /\ WrittenSoFar(l)
    BY <1>1 DEF AcceptBundle, IInv, LoadInv, Hidden, Progress, Told, At, GoTo,
       TypeOK, fileVars
  <2>3. WrittenSoFar(l)'
    BY <2>2 DEF WrittenSoFar
  <2> QED
    BY <2>1, <2>2, <2>3 DEF LoadInv, Hidden, FinalIsWhole, Progress, Told
<1>2. CASE RejectBundle(l) \/ Kill(l) \/ RefuseExisting(l) \/ ScanMissing(l)
           \/ AbortFails(l)
  BY <1>2, InvLeave DEF RejectBundle, Kill, RefuseExisting, ScanMissing,
     AbortFails, At
<1> QED
  BY <1>1, <1>2, InvWriteDataset, InvWriteFails, InvRejectDataset, InvPublishing,
     InvCleaning, InvAbort DEF Step, Fault

LEMMA InvInit == Init => IInv
<1> SUFFICES ASSUME Init PROVE IInv
  OBVIOUS
<1>1. TypeOK
  BY TypeInit
<1>2. ASSUME NEW l \in Loads PROVE LoadInv(l)
  <2>1. /\ pc[l] = "validate" /\ position[l] = 1 /\ result[l] = "none"
        /\ place[l] = "none" /\ data[l] = Nothing
    BY DEF Init
  <2>2. WrittenSoFar(l)
    BY <2>1 DEF WrittenSoFar, Datasets
  <2> QED
    BY <2>1, <2>2 DEF LoadInv, Hidden, FinalIsWhole, Progress, Told
<1> QED
  BY <1>1, <1>2 DEF IInv

LEMMA InvNext == IInv /\ [Next]_vars => IInv'
<1> SUFFICES ASSUME IInv, [Next]_vars PROVE IInv'
  OBVIOUS
<1>1. CASE UNCHANGED vars
  BY <1>1 DEF vars, fileVars, eventVars, IInv, TypeOK, LoadInv, Hidden, FinalIsWhole,
     Progress, WrittenSoFar, Told
<1>2. ASSUME NEW l \in Loads, Step(l) \/ Fault(l)
      PROVE  IInv'
  <2>1. TypeOK /\ \A k \in Loads : LoadInv(k)
    BY DEF IInv
  <2>2. ASSUME NEW k \in Loads PROVE LoadInv(k)'
    <3>1. CASE k = l
      BY <1>2, <3>1, InvOwnStep
    <3>2. CASE k # l
      BY <1>2, <2>1, <3>2, OthersUntouched, InvUntouched
    <3> QED
      BY <3>1, <3>2
  <2> QED
    BY <1>2, <2>2, TypeStep DEF IInv
<1> QED
  BY <1>1, <1>2 DEF Next, Finished

\* Where a load stands tells which datasets are written and where they are,
\* whatever fails and whatever the other loads do.  (load, _publish_local_run)
THEOREM LoadInvariant == Spec => []IInv
<1> QED
  BY InvInit, InvNext, PTL DEF Spec

\* The caller of a load that reports success finds every dataset whole at the
\* location it was told, on a local and on a remote root.
THEOREM SuccessIsCompleteCorrect == Spec => []SuccessIsComplete
<1>1. IInv => SuccessIsComplete
  BY DEF IInv, LoadInv, Told, SuccessIsComplete
<1> QED
  BY <1>1, LoadInvariant, PTL

(***************************************************************************)
(* On a local root the loader implements CuratedLayer.                     *)
(***************************************************************************)
\* What a reader finds of a run changes only with the run's own directory,
\* and only by the rename.
LEMMA VisibleStep ==
  ASSUME IInv, IsLocal, NEW l \in Loads, Step(l) \/ Fault(l)
  PROVE  \/ place[l] # "final" /\ place'[l] # "final"
         \/ place[l] = "final" /\ place'[l] = "final" /\ data'[l] = data[l]
         \/ /\ At(l, "publish") /\ place[l] = "staging"
            /\ place'[l] = "final" /\ data'[l] = data[l]
<1>0. LoadInv(l) /\ TypeOK
  BY DEF IInv
<1>1. CASE At(l, "write")
  <2>1. place[l] # "final"
    BY <1>0, <1>1 DEF LoadInv, Hidden, At
  <2>2. place'[l] # "final"
    BY <1>0, <1>1, <2>1 DEF At, Step, Fault, AcceptBundle, WriteDataset,
       RefuseExisting, Publish, PublishMissing, RootIsThere, ScanRoot, ScanMissing,
       RemoveRoot, Abort, RejectBundle, WriteFails, RejectDataset, PublishFails,
       AbortFails, Kill, Holds, fileVars, TypeOK
  <2> QED
    BY <2>1, <2>2
<1>2. CASE At(l, "publish")
  <2>1. place[l] \in {"staging", "final"}
    BY <1>0, <1>2 DEF LoadInv, Progress, At
  <2>2. data' = data /\ place'[l] \in {place[l], "final"}
    BY <1>0, <1>2 DEF At, Step, Fault, AcceptBundle, WriteDataset, RefuseExisting,
       Publish, PublishMissing, RootIsThere, ScanRoot, ScanMissing, RemoveRoot,
       Abort, RejectBundle, WriteFails, RejectDataset, PublishFails, AbortFails,
       Kill, fileVars, TypeOK
  <2> QED
    BY <1>2, <2>1, <2>2
<1>3. CASE At(l, "abort")
  BY <1>0, <1>3 DEF At, Step, Fault, AcceptBundle, WriteDataset, RefuseExisting,
     Publish, PublishMissing, RootIsThere, ScanRoot, ScanMissing, RemoveRoot,
     Abort, RejectBundle, WriteFails, RejectDataset, PublishFails, AbortFails,
     Kill, fileVars, TypeOK
<1>4. CASE pc[l] \notin {"write", "publish", "abort"}
  BY <1>0, <1>4 DEF At, Step, Fault, AcceptBundle, WriteDataset, RefuseExisting,
     Publish, PublishMissing, RootIsThere, ScanRoot, ScanMissing, RemoveRoot,
     Abort, RejectBundle, WriteFails, RejectDataset, PublishFails, AbortFails,
     Kill, fileVars, TypeOK
<1> QED
  BY <1>1, <1>2, <1>3, <1>4 DEF At

LEMMA LayerInit == Init => Layer!Init
  BY DEF Init, Layer!Init, Visible, Nothing, Layer!Nothing

LEMMA LayerNext ==
  ASSUME IInv, IsLocal, [Next]_vars
  PROVE  [Layer!Next]_Visible
<1>1. CASE UNCHANGED vars
  BY <1>1 DEF vars, fileVars, Visible
<1>2. ASSUME NEW l \in Loads, Step(l) \/ Fault(l)
      PROVE  [Layer!Next]_Visible
  <2>0. TypeOK /\ LoadInv(l)
    BY DEF IInv
  <2>1. \A k \in Loads : k # l => Visible'[k] = Visible[k]
    BY <1>2, <2>0, OthersUntouched DEF Untouched, Visible
  <2>2. CASE Visible'[l] = Visible[l]
    BY <2>1, <2>2 DEF Visible
  <2>3. CASE /\ At(l, "publish") /\ place[l] = "staging"
             /\ place'[l] = "final" /\ data'[l] = data[l]
    <3>1. \A d \in Datasets : data[l][d] = "whole"
      BY <2>0, <2>3 DEF LoadInv, Progress, At
    <3>2. data[l] = Layer!Everything
      BY <2>0, <3>1 DEF TypeOK, Layer!Everything
    <3>3. Visible[l] = Layer!Nothing /\ Visible'[l] = Layer!Everything
      BY <2>3, <3>2 DEF Visible, Nothing, Layer!Nothing
    <3>4. Visible' = [Visible EXCEPT ![l] = Layer!Everything]
      BY <2>1, <3>3 DEF Visible
    <3> QED
      BY <3>3, <3>4 DEF Layer!Next, Layer!PublishAll
  <2> QED
    BY <1>2, <2>2, <2>3, VisibleStep DEF Visible
<1> QED
  BY <1>1, <1>2 DEF Next, Finished

\* On a local root a curated run appears in one step, with every dataset, and
\* is never changed or removed: every step of the loader is a publication of
\* CuratedLayer or invisible to a reader.
THEOREM AtomicallyPublishedCorrect ==
  ASSUME IsLocal PROVE Spec => AtomicallyPublished
<1>1. IInv /\ [Next]_vars => [Layer!Next]_Visible
  BY LayerNext
<1> QED
  BY <1>1, LayerInit, LoadInvariant, PTL DEF Spec, AtomicallyPublished, Layer!Spec

\* No step but the abort of a load removes its staging directory; in
\* particular the cleaning of the shared root by another load does not.
THEOREM StagingUndisturbedCorrect == Spec => StagingUndisturbed
<1>1. ASSUME IInv, [Next]_vars, NEW l \in Loads,
             place[l] = "staging", place'[l] = "none"
      PROVE  At(l, "abort")
  <2>1. CASE UNCHANGED vars
    BY <1>1, <2>1 DEF vars, fileVars
  <2>2. ASSUME NEW k \in Loads, Step(k) \/ Fault(k)
        PROVE  At(l, "abort")
    <3>1. CASE k # l
      BY <1>1, <2>2, <3>1, OthersUntouched DEF Untouched, IInv
    <3>2. CASE k = l
      BY <1>1, <2>2, <3>2 DEF At, Step, Fault, AcceptBundle, WriteDataset,
         RefuseExisting, Publish, PublishMissing, RootIsThere, ScanRoot,
         ScanMissing, RemoveRoot, Abort, RejectBundle, WriteFails, RejectDataset,
         PublishFails, AbortFails, Kill, Holds, fileVars, IInv, TypeOK
    <3> QED
      BY <3>1, <3>2
  <2> QED
    BY <1>1, <2>1, <2>2 DEF Next, Finished
<1>2. IInv /\ [Next]_vars
        => [\A l \in Loads : place[l] = "staging" /\ place'[l] = "none"
                               => At(l, "abort")]_vars
  BY <1>1
<1> QED
  BY <1>2, LoadInvariant, PTL DEF Spec, StagingUndisturbed

(***************************************************************************)
(* What failures leave behind.                                             *)
(***************************************************************************)
\* A staging directory without a running load was killed, or is in the log.
StagingInv(l) ==
  /\ pc[l] # "end" => result[l] = "none"
  /\ ~IsLocal => place[l] # "staging"
  /\ place[l] = "staging" => result[l] \in {"none", "killed"} \/ l \in warned

\* The datasets still to be written are not there, and the one being written
\* only once an attempt has failed.
AheadInv(l) ==
  /\ pc[l] = "validate" => attempt[l] = 1
  /\ pc[l] = "write" =>
       /\ \A d \in Datasets : d > position[l] => data[l][d] = "absent"
       /\ attempt[l] = 1 => data[l][position[l]] = "absent"

LEMMA LeftoverOthers ==
  ASSUME TypeOK, NEW l \in Loads, Step(l) \/ Fault(l), NEW k \in Loads, k # l
  PROVE  attempt'[k] = attempt[k] /\ (k \in warned => k \in warned')
<1> USE DEF TypeOK, FailedAttempt, Fresh, eventVars
<1>1. CASE WriteDataset(l) \/ WriteFails(l) \/ Publish(l) \/ PublishFails(l)
             \/ PublishMissing(l)
  BY <1>1 DEF WriteDataset, WriteFails, Publish, PublishFails, PublishMissing
<1>2. CASE AcceptBundle(l) \/ RejectBundle(l) \/ Kill(l) \/ RejectDataset(l)
             \/ RefuseExisting(l) \/ RootIsThere(l) \/ ScanRoot(l)
             \/ ScanMissing(l) \/ RemoveRoot(l) \/ Abort(l) \/ AbortFails(l)
  BY <1>2 DEF AcceptBundle, RejectBundle, Kill, RejectDataset, RefuseExisting,
     RootIsThere, ScanRoot, ScanMissing, RemoveRoot, Abort, AbortFails
<1> QED
  BY <1>1, <1>2 DEF Step, Fault

LEMMA StagingOwn ==
  ASSUME IInv, NEW l \in Loads, StagingInv(l), Step(l) \/ Fault(l)
  PROVE  StagingInv(l)'
<1> USE DEF IInv, LoadInv, Progress, Hidden, TypeOK, StagingInv, At, GoTo, End, Raise,
        Fresh, FailedAttempt, fileVars, eventVars
<1>1. CASE AcceptBundle(l) \/ RejectBundle(l) \/ Kill(l)
  BY <1>1 DEF AcceptBundle, RejectBundle, Kill
<1>2. CASE WriteDataset(l)
  BY <1>2 DEF WriteDataset, Holds
<1>3. CASE WriteFails(l)
  BY <1>3 DEF WriteFails, Holds
<1>4. CASE RejectDataset(l) \/ RefuseExisting(l)
  BY <1>4 DEF RejectDataset, RefuseExisting, Holds
<1>5. CASE Publish(l) \/ PublishMissing(l)
  BY <1>5 DEF Publish, PublishMissing
<1>6. CASE PublishFails(l)
  BY <1>6 DEF PublishFails
<1>7. CASE RootIsThere(l) \/ ScanRoot(l) \/ ScanMissing(l) \/ RemoveRoot(l)
  BY <1>7 DEF RootIsThere, ScanRoot, ScanMissing, RemoveRoot
<1>8. CASE Abort(l) \/ AbortFails(l)
  BY <1>8 DEF Abort, AbortFails
<1> QED
  BY <1>1, <1>2, <1>3, <1>4, <1>5, <1>6, <1>7, <1>8 DEF Step, Fault

LEMMA AheadOwn ==
  ASSUME IInv, NEW l \in Loads, AheadInv(l), Step(l) \/ Fault(l)
  PROVE  AheadInv(l)'
<1>0. TypeOK /\ LoadInv(l) /\ Progress(l)
  BY DEF IInv, LoadInv
<1>1. CASE AcceptBundle(l)
  <2>1. data[l] = Nothing /\ attempt[l] = 1 /\ position[l] = 1
    BY <1>0, <1>1 DEF AcceptBundle, At, LoadInv, Progress, Hidden, AheadInv
  <2>2. 1 \in Datasets
    BY LoadAssumption DEF Datasets
  <2>3. data' = data /\ position' = position /\ pc'[l] = "write"
    BY <1>0, <1>1 DEF AcceptBundle, GoTo, TypeOK, fileVars
  <2> QED
    BY <2>1, <2>2, <2>3 DEF AheadInv, Nothing
<1>2. CASE WriteDataset(l)
  <2>1. /\ position[l] \in Datasets /\ position' = [position EXCEPT ![l] = @ + 1]
        /\ data' = [data EXCEPT ![l][position[l]] = "whole"]
        /\ \A d \in Datasets : d > position[l] => data[l][d] = "absent"
        /\ pc'[l] = "write" => position[l] < DatasetCount
        /\ pc'[l] # "validate"
    BY <1>0, <1>2, Writing DEF WriteDataset, Holds, At, GoTo, End, TypeOK, AheadInv
  <2>2. position[l] \in Nat /\ position'[l] = position[l] + 1
    BY <1>0, <2>1 DEF TypeOK, Datasets
  <2>3. \A d \in Datasets : d > position[l] => data'[l][d] = "absent"
    BY <1>0, <2>1, <2>2 DEF TypeOK, Datasets
  <2>4. \A d \in Datasets : d > position'[l] => d > position[l]
    BY <2>2 DEF Datasets
  <2>5. pc'[l] = "write" => position'[l] \in Datasets /\ position'[l] > position[l]
    BY <2>1, <2>2, LoadAssumption DEF Datasets
  <2> QED
    BY <2>1, <2>3, <2>4, <2>5 DEF AheadInv
<1>3. CASE WriteFails(l)
  <2>1. /\ position[l] \in Datasets /\ position' = position /\ pc[l] = "write"
        /\ \A d \in Datasets : d # position[l] => data'[l][d] = data[l][d]
        /\ attempt[l] \in Nat /\ pc'[l] # "validate"
        /\ pc'[l] = "write" => attempt'[l] = attempt[l] + 1
    BY <1>0, <1>3, Writing DEF WriteFails, FailedAttempt, Holds, At, GoTo, End, Raise,
       TypeOK, fileVars
  <2>2. pc'[l] = "write" => attempt'[l] # 1
    BY <1>0, <2>1 DEF TypeOK
  <2>3. \A d \in Datasets : d > position[l] => d # position[l]
    BY <2>1 DEF Datasets
  <2> QED
    BY <2>1, <2>2, <2>3 DEF AheadInv
<1>4. CASE ~(AcceptBundle(l) \/ WriteDataset(l) \/ WriteFails(l))
  <2>1. pc'[l] \notin {"validate", "write"}
    BY <1>0, <1>4 DEF Step, Fault, RejectBundle, RejectDataset, RefuseExisting,
       Publish, PublishFails, PublishMissing, FailedAttempt, RootIsThere, ScanRoot,
       ScanMissing, RemoveRoot, Abort, AbortFails, Kill, At, GoTo, End, Raise, TypeOK
  <2> QED
    BY <2>1 DEF AheadInv
<1> QED
  BY <1>1, <1>2, <1>3, <1>4

LEMMA LeftoverNext ==
  ASSUME IInv, \A l \in Loads : StagingInv(l) /\ AheadInv(l), [Next]_vars
  PROVE  \A l \in Loads : StagingInv(l)' /\ AheadInv(l)'
<1>1. CASE UNCHANGED vars
  BY <1>1 DEF vars, fileVars, eventVars, StagingInv, AheadInv
<1>2. ASSUME NEW l \in Loads, Step(l) \/ Fault(l), NEW k \in Loads
      PROVE  StagingInv(k)' /\ AheadInv(k)'
  <2>1. CASE k = l
    BY <1>2, <2>1, StagingOwn, AheadOwn
  <2>2. CASE k # l
    BY <1>2, <2>2, OthersUntouched, LeftoverOthers
       DEF IInv, Untouched, StagingInv, AheadInv
  <2> QED
    BY <2>1, <2>2
<1> QED
  BY <1>1, <1>2 DEF Next, Finished

LEMMA LeftoverInit == Init => \A l \in Loads : StagingInv(l) /\ AheadInv(l)
BY DEF Init, StagingInv, AheadInv

LEMMA LeftoverInvariant == Spec => [](\A l \in Loads : StagingInv(l) /\ AheadInv(l))
<1>1. IInv /\ (\A l \in Loads : StagingInv(l) /\ AheadInv(l)) /\ [Next]_vars
        => (\A l \in Loads : StagingInv(l) /\ AheadInv(l))'
  BY LeftoverNext
<1> QED
  BY <1>1, LeftoverInit, LoadInvariant, PTL DEF Spec

\* Whatever fails, a staging directory without a running load was left by a
\* kill, or its load has said in the log that it could not remove it.
THEOREM StagingReclaimedCorrect == Spec => []StagingReclaimed
<1>1. (\A l \in Loads : StagingInv(l) /\ AheadInv(l)) => StagingReclaimed
  BY DEF StagingInv, StagingReclaimed
<1> QED
  BY <1>1, LeftoverInvariant, PTL

\* errorifexists refuses a load only what an earlier attempt of the same load
\* at the same dataset has left.
THEOREM RefusedByOwnAttemptCorrect == Spec => []RefusedByOwnAttempt
<1>1. IInv /\ (\A l \in Loads : StagingInv(l) /\ AheadInv(l)) => RefusedByOwnAttempt
  BY DEF IInv, TypeOK, AheadInv, RefusedByOwnAttempt, Writable, At
<1> QED
  BY <1>1, LeftoverInvariant, LoadInvariant, PTL

(***************************************************************************)
(* What retries absorb.                                                    *)
(***************************************************************************)
\* There is one loader process.
Alone == \A k, l \in Loads : k = l

\* Nobody removes the staging root between is_dir and iterdir.
RootInv(l) ==
  IsLocal /\ pc[l] \in {"publish", "isdir", "scan"} => root

LEMMA RootOwn ==
  ASSUME IInv, NEW l \in Loads, RootInv(l), Step(l) \/ Fault(l)
  PROVE  RootInv(l)'
<1> USE DEF IInv, TypeOK, RootInv, At, GoTo, End, Raise, FailedAttempt, fileVars
<1>1. CASE AcceptBundle(l) \/ RejectBundle(l) \/ Kill(l)
  BY <1>1 DEF AcceptBundle, RejectBundle, Kill
<1>2. CASE WriteDataset(l)
  BY <1>2 DEF WriteDataset, Holds
<1>3. CASE WriteFails(l)
  BY <1>3 DEF WriteFails
<1>4. CASE RejectDataset(l) \/ RefuseExisting(l)
  BY <1>4 DEF RejectDataset, RefuseExisting
<1>5. CASE Publish(l) \/ PublishMissing(l)
  BY <1>5 DEF Publish, PublishMissing
<1>6. CASE PublishFails(l)
  BY <1>6 DEF PublishFails
<1>7. CASE RootIsThere(l) \/ ScanRoot(l) \/ ScanMissing(l) \/ RemoveRoot(l)
  BY <1>7 DEF RootIsThere, ScanRoot, ScanMissing, RemoveRoot
<1>8. CASE Abort(l) \/ AbortFails(l)
  BY <1>8 DEF Abort, AbortFails
<1> QED
  BY <1>1, <1>2, <1>3, <1>4, <1>5, <1>6, <1>7, <1>8 DEF Step, Fault

\* An overwriting load has met every attempt but the current one, none of its
\* errors made it give up, and its run is renamed once.
AbsorbInv(l) ==
  /\ attempt[l] <= errors[l] + 1
  /\ pc[l] # "abort" /\ result[l] # "failed"
  /\ IsLocal /\ pc[l] = "publish" => place[l] = "staging"

Bearable == Faults \cap {"reject", "lostack"} = {} /\ MaxFaults < MaxAttempts

LEMMA AttemptAbsorbed ==
  ASSUME IInv, Bearable, NEW l \in Loads, AbsorbInv(l), FailedAttempt(l)
  PROVE  /\ attempt'[l] <= errors'[l] + 1
         /\ pc'[l] = pc[l] /\ result'[l] = result[l]
<1>1. /\ attempt[l] \in Nat /\ errors[l] \in Nat /\ errors[l] < MaxFaults
      /\ attempt[l] <= errors[l] + 1 /\ MaxFaults < MaxAttempts
      /\ MaxFaults \in Nat /\ MaxAttempts \in Nat
  BY LoadAssumption DEF IInv, TypeOK, Bearable, AbsorbInv, FailedAttempt
<1>2. attempt[l] < MaxAttempts
  BY <1>1
<1>3. /\ attempt' = [attempt EXCEPT ![l] = @ + 1] /\ UNCHANGED <<pc, result>>
      /\ errors' = [errors EXCEPT ![l] = @ + 1]
  BY <1>2 DEF FailedAttempt
<1>4. attempt'[l] = attempt[l] + 1 /\ errors'[l] = errors[l] + 1
  BY <1>3 DEF IInv, TypeOK
<1> QED
  BY <1>1, <1>3, <1>4

LEMMA AbsorbOwn ==
  ASSUME IInv, Bearable, NEW l \in Loads \ ErrorIfExists, IsLocal => RootInv(l),
         AbsorbInv(l), Step(l) \/ Fault(l)
  PROVE  AbsorbInv(l)'
<1>0. /\ TypeOK /\ LoadInv(l) /\ 1 <= errors[l] + 1
      /\ pc[l] \in {"publish", "scan"} => IsLocal
  BY DEF IInv, TypeOK, LoadInv, Progress
<1> USE <1>0 DEF TypeOK, AbsorbInv, At, GoTo, End, fileVars, eventVars
<1>1. CASE AcceptBundle(l) \/ RejectBundle(l) \/ Kill(l)
  BY <1>1 DEF AcceptBundle, RejectBundle, Kill, Bearable
<1>2. CASE WriteDataset(l)
  BY <1>2 DEF WriteDataset, Holds, Fresh
<1>3. CASE WriteFails(l)
  BY <1>3, AttemptAbsorbed DEF WriteFails
<1>4. CASE RejectDataset(l) \/ RefuseExisting(l)
  BY <1>4 DEF RejectDataset, RefuseExisting, Writable, Bearable
<1>5. CASE Publish(l) \/ PublishMissing(l)
  BY <1>5 DEF Publish, PublishMissing, Fresh
<1>6. CASE PublishFails(l)
  BY <1>6, AttemptAbsorbed DEF PublishFails, Bearable
<1>7. CASE RootIsThere(l) \/ ScanRoot(l) \/ ScanMissing(l) \/ RemoveRoot(l)
  BY <1>7 DEF RootIsThere, ScanRoot, ScanMissing, RemoveRoot, RootInv
<1>8. CASE Abort(l) \/ AbortFails(l)
  BY <1>8 DEF Abort, AbortFails
<1> QED
  BY <1>1, <1>2, <1>3, <1>4, <1>5, <1>6, <1>7, <1>8 DEF Step, Fault

LEMMA ErrorsOthers ==
  ASSUME TypeOK, NEW l \in Loads, Step(l) \/ Fault(l), NEW k \in Loads, k # l
  PROVE  errors'[k] = errors[k]
<1> USE DEF TypeOK, FailedAttempt, eventVars
<1>1. CASE WriteDataset(l) \/ WriteFails(l) \/ Publish(l) \/ PublishFails(l)
             \/ PublishMissing(l)
  BY <1>1 DEF WriteDataset, WriteFails, Publish, PublishFails, PublishMissing
<1>2. CASE AcceptBundle(l) \/ RejectBundle(l) \/ Kill(l) \/ RejectDataset(l)
             \/ RefuseExisting(l) \/ RootIsThere(l) \/ ScanRoot(l)
             \/ ScanMissing(l) \/ RemoveRoot(l) \/ Abort(l) \/ AbortFails(l)
  BY <1>2 DEF AcceptBundle, RejectBundle, Kill, RejectDataset, RefuseExisting,
     RootIsThere, ScanRoot, ScanMissing, RemoveRoot, Abort, AbortFails
<1> QED
  BY <1>1, <1>2 DEF Step, Fault

Rooted == IsLocal => \A l \in Loads : RootInv(l)

LEMMA RootedNext ==
  ASSUME IInv, Alone, Rooted, [Next]_vars
  PROVE  Rooted'
<1>1. CASE UNCHANGED vars
  BY <1>1 DEF vars, fileVars, Rooted, RootInv
<1>2. ASSUME NEW l \in Loads, Step(l) \/ Fault(l)
      PROVE  Rooted'
  BY <1>2, RootOwn DEF Alone, Rooted
<1> QED
  BY <1>1, <1>2 DEF Next, Finished

LEMMA RootedInvariant == ASSUME Alone PROVE Spec => []Rooted
<1>1. Init => Rooted
  BY DEF Init, Rooted, RootInv
<1>2. IInv /\ Rooted /\ [Next]_vars => Rooted'
  BY RootedNext
<1> QED
  BY <1>1, <1>2, LoadInvariant, PTL DEF Spec

\* No overwriting load fails.
OverwritingSucceeds == \A l \in Loads \ ErrorIfExists : result[l] # "failed"

Absorbed == \A l \in Loads \ ErrorIfExists : AbsorbInv(l)

LEMMA AbsorbedNext ==
  ASSUME IInv, Bearable, Absorbed, [Next]_vars, IsLocal => Rooted
  PROVE  Absorbed'
<1>1. CASE UNCHANGED vars
  BY <1>1 DEF vars, fileVars, eventVars, Absorbed, AbsorbInv
<1>2. ASSUME NEW l \in Loads, Step(l) \/ Fault(l), NEW k \in Loads \ ErrorIfExists
      PROVE  AbsorbInv(k)'
  <2>1. CASE k = l
    BY <1>2, <2>1, AbsorbOwn DEF Absorbed, Rooted
  <2>2. CASE k # l
    BY <1>2, <2>2, OthersUntouched, LeftoverOthers, ErrorsOthers
       DEF IInv, Untouched, Absorbed, AbsorbInv
  <2> QED
    BY <2>1, <2>2
<1> QED
  BY <1>1, <1>2 DEF Next, Finished, Absorbed

\* The safety half of RetryAbsorbsFaults, for every number of datasets,
\* attempts and loads: with fewer transient errors than attempts, no overwriting
\* load fails on a remote root, however many loaders share it, nor on a local
\* root that a loader has to itself.  (_run_with_retry, mode overwrite)
THEOREM RetriesAbsorbFaults ==
  ASSUME Bearable, ~IsLocal \/ Alone
  PROVE  Spec => []OverwritingSucceeds
<1>1. Init => Absorbed
  <2> SUFFICES ASSUME Init, NEW l \in Loads \ ErrorIfExists PROVE AbsorbInv(l)
    BY DEF Absorbed
  <2>1. /\ attempt[l] = 1 /\ errors[l] = 0
        /\ pc[l] = "validate" /\ result[l] = "none"
    BY DEF Init
  <2> QED
    BY <2>1 DEF AbsorbInv
<1>2. Absorbed => OverwritingSucceeds
  BY DEF Absorbed, AbsorbInv, OverwritingSucceeds
<1>3. CASE IsLocal
  <2>1. Alone
    BY <1>3
  <2>2. IInv /\ Absorbed /\ Rooted /\ [Next]_vars => Absorbed'
    BY AbsorbedNext
  <2>3. Spec => []Rooted
    BY <2>1, RootedInvariant
  <2> QED
    BY <1>1, <1>2, <2>2, <2>3, LoadInvariant, PTL DEF Spec
<1>4. CASE ~IsLocal
  <2>1. IInv /\ Absorbed /\ [Next]_vars => Absorbed'
    BY <1>4, AbsorbedNext
  <2> QED
    BY <1>1, <1>2, <2>1, LoadInvariant, PTL DEF Spec
<1> QED
  BY <1>3, <1>4

(***************************************************************************)
(* When an error means that nothing was published.                         *)
(***************************************************************************)
\* Past the rename only a clean end or a kill leaves the load.
UnpublishedInv(l) ==
  place[l] = "final" =>
    \/ pc[l] \in {"isdir", "scan", "rmdir"}
    \/ pc[l] = "end" /\ result[l] \in {"ok", "killed"}

LEMMA UnpublishedOwn ==
  ASSUME IInv, IsLocal, "lostack" \notin Faults, NEW l \in Loads, RootInv(l),
         UnpublishedInv(l), Step(l) \/ Fault(l)
  PROVE  UnpublishedInv(l)'
<1>0. TypeOK /\ LoadInv(l)
  BY DEF IInv
<1> USE <1>0 DEF TypeOK, UnpublishedInv, At, GoTo, End, Raise, fileVars
<1>1. CASE AcceptBundle(l) \/ RejectBundle(l) \/ Kill(l)
  BY <1>1 DEF AcceptBundle, RejectBundle, Kill
<1>2. CASE WriteDataset(l)
  BY <1>2 DEF WriteDataset, Holds
<1>3. CASE WriteFails(l)
  BY <1>3 DEF WriteFails, Holds, FailedAttempt
<1>4. CASE RejectDataset(l) \/ RefuseExisting(l)
  BY <1>4 DEF RejectDataset, RefuseExisting, Holds
<1>5. CASE Publish(l) \/ PublishMissing(l)
  BY <1>5 DEF Publish, PublishMissing, LoadInv, Progress
<1>6. CASE PublishFails(l)
  BY <1>6 DEF PublishFails, FailedAttempt
<1>7. CASE RootIsThere(l) \/ ScanRoot(l) \/ ScanMissing(l) \/ RemoveRoot(l)
  BY <1>7 DEF RootIsThere, ScanRoot, ScanMissing, RemoveRoot, RootInv
<1>8. CASE Abort(l) \/ AbortFails(l)
  BY <1>8 DEF Abort, AbortFails
<1> QED
  BY <1>1, <1>2, <1>3, <1>4, <1>5, <1>6, <1>7, <1>8 DEF Step, Fault

\* The two ways to report a failure for a run that is there are the only ones:
\* a loader that has the local root to itself, and whose renames are reported
\* as they went, never does.
THEOREM ErrorMeansUnpublishedAlone ==
  ASSUME IsLocal, Alone, "lostack" \notin Faults
  PROVE  Spec => []ErrorMeansUnpublished
<1> DEFINE Inv == \A l \in Loads : UnpublishedInv(l)
<1>1. Init => Inv
  BY DEF Init, UnpublishedInv
<1>2. IInv /\ Rooted /\ Inv /\ [Next]_vars => Inv'
  <2> SUFFICES ASSUME IInv, Rooted, Inv, [Next]_vars, NEW k \in Loads
               PROVE  UnpublishedInv(k)'
    OBVIOUS
  <2>1. CASE UNCHANGED vars
    BY <2>1 DEF vars, fileVars, UnpublishedInv
  <2>2. ASSUME NEW l \in Loads, Step(l) \/ Fault(l)
        PROVE  UnpublishedInv(k)'
    <3>1. k = l
      BY DEF Alone
    <3> QED
      BY <2>2, <3>1, UnpublishedOwn DEF Rooted
  <2> QED
    BY <2>1, <2>2 DEF Next, Finished
<1>3. Inv /\ (\A l \in Loads : StagingInv(l) /\ AheadInv(l)) => ErrorMeansUnpublished
  BY DEF UnpublishedInv, StagingInv, ErrorMeansUnpublished
<1>4. Spec => []Rooted
  BY RootedInvariant
<1> QED
  BY <1>1, <1>2, <1>3, <1>4, LoadInvariant, LeftoverInvariant, PTL DEF Spec

(***************************************************************************)
(* A load does not go on for ever.                                         *)
(***************************************************************************)
Stage == [validate |-> 1, write |-> 2, publish |-> 3, isdir |-> 4, scan |-> 5,
          rmdir |-> 6, abort |-> 7, end |-> 8]

\* A later stage, or a later dataset of the same stage, or a later attempt at
\* the same dataset.
Further(l) ==
  \/ Stage[pc'[l]] > Stage[pc[l]]
  \/ pc'[l] = pc[l] /\ position'[l] > position[l]
  \/ pc'[l] = pc[l] /\ position'[l] = position[l] /\ attempt'[l] > attempt[l]

LEMMA StepIsFurther ==
  ASSUME IInv, NEW l \in Loads, Step(l) \/ Fault(l)
  PROVE  Further(l)
<1>0. /\ TypeOK /\ LoadInv(l) /\ position[l] \in Nat /\ attempt[l] \in Nat
      /\ pc[l] \in Labels
  BY LoadAssumption DEF IInv, TypeOK
<1> USE <1>0 DEF TypeOK, Further, At, GoTo, End, Raise, Labels, Stage
<1>1. CASE AcceptBundle(l) \/ RejectBundle(l) \/ Kill(l)
  BY <1>1 DEF AcceptBundle, RejectBundle, Kill
<1>2. CASE WriteDataset(l)
  BY <1>2 DEF WriteDataset
<1>3. CASE WriteFails(l) \/ PublishFails(l)
  BY <1>3 DEF WriteFails, PublishFails, FailedAttempt
<1>4. CASE RejectDataset(l) \/ RefuseExisting(l)
  BY <1>4 DEF RejectDataset, RefuseExisting
<1>5. CASE Publish(l) \/ PublishMissing(l)
  BY <1>5 DEF Publish, PublishMissing
<1>7. CASE RootIsThere(l) \/ ScanRoot(l) \/ ScanMissing(l) \/ RemoveRoot(l)
  BY <1>7 DEF RootIsThere, ScanRoot, ScanMissing, RemoveRoot
<1>8. CASE Abort(l) \/ AbortFails(l)
  BY <1>8 DEF Abort, AbortFails
<1> QED
  BY <1>1, <1>2, <1>3, <1>4, <1>5, <1>7, <1>8 DEF Step, Fault

\* Every step of a load, failed ones included, takes it further along a finite
\* order: eight stages, at most DatasetCount + 1 positions and MaxAttempts
\* attempts (TypeOK).  No retry, no race and no failure makes a load run for
\* ever.  (the loops of load and of _run_with_retry)
THEOREM LoadsAdvance ==
  Spec => [][\A l \in Loads : Step(l) \/ Fault(l) => Further(l)]_vars
<1>1. IInv /\ [Next]_vars => [\A l \in Loads : Step(l) \/ Fault(l) => Further(l)]_vars
  BY StepIsFurther
<1> QED
  BY <1>1, LoadInvariant, PTL DEF Spec

=============================================================================
