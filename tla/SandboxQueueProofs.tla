------------------------- MODULE SandboxQueueProofs -------------------------
(***************************************************************************)
(* Machine-checked theorems about SandboxQueue, for every set of jobs,     *)
(* workspaces, tenants, runs, workers and slots and every concurrency,     *)
(* whether or not the worker lock may be lost.                             *)
(***************************************************************************)
EXTENDS SandboxQueue, FiniteSetTheorems, TLAPS

Early == {"idle", "admit", "count", "insert"}

\* Where the caller is fixes whether its row exists, is marked and answered.
CallerInv ==
    \A j \in Jobs :
        /\ caller[j] \in Early =>
               status[j] = "absent" /\ reply[j] = "none" /\ ~cancelReq[j]
        /\ caller[j] = "wait" => status[j] # "absent" /\ reply[j] = "none"

Busy == {"claimed", "ready", "start", "running", "remove", "report"}

\* A slot holds a job exactly while it is busy, knows its end at the end, and
\* exists only in a worker that serves or stops.
SlotInv ==
    \A s \in Slots :
        /\ pc[s] \in Busy <=> holds[s] # None
        /\ pc[s] \in {"remove", "report"} => outcome[s] \in Terminal
        /\ phase[WorkerOf[s]] \notin {"serving", "stopping"} => pc[s] = "off"

Base == TypeOK /\ CallerInv /\ CancelWins /\ SlotInv

-----------------------------------------------------------------------------
(* Frames: what the groups of actions leave alone.                         *)

\* Slot threads touch rows only by claiming and reporting.
LEMMA SlotFrame ==
    ASSUME NEW s \in Slots, SlotStep(s)
    PROVE  /\ UNCHANGED <<cancelReq, stale, apiVars, fileVars>>
           /\ \/ UNCHANGED status
              \/ Report(s)
              \/ \E j \in Jobs : Claim(s, j)
<1> USE DEF rowVars, apiVars, fileVars, workerVars, EndRun
<1>1. CASE LoopTest(s) \/ ClaimNothing(s) \/ TakeWorkspace(s)
      BY <1>1 DEF LoopTest, ClaimNothing, TakeWorkspace
<1>2. CASE BeforeStart(s) BY <1>2 DEF BeforeStart
<1>3. CASE StartContainer(s) \/ StartFails(s)
      BY <1>3 DEF StartContainer, StartFails
<1>4. CASE WatchEnds(s) \/ RemoveContainer(s) \/ RemoveFails(s) \/ DatabaseFails(s)
      BY <1>4 DEF WatchEnds, RemoveContainer, RemoveFails, DatabaseFails
<1>5. CASE Report(s) BY <1>5 DEF Report
<1>6. CASE \E j \in Jobs : Claim(s, j) BY <1>6 DEF Claim
<1>7. QED BY <1>1, <1>2, <1>3, <1>4, <1>5, <1>6 DEF SlotStep

\* Worker processes touch rows only in bulk.
LEMMA WorkerFrame ==
    ASSUME NEW k \in Workers, WorkerStep(k)
    PROVE  /\ UNCHANGED <<cancelReq, stale, apiVars, fileVars>>
           /\ \/ UNCHANGED status
              \/ FailActive(k)
              \/ FailStaleQueued(k)
              \/ \E j \in Jobs : DeleteRow(k, j)
<1> USE DEF rowVars, apiVars, fileVars
<1>1. CASE AcquireLock(k) \/ LockRefused(k) \/ RemoveAll(k)
      BY <1>1 DEF AcquireLock, LockRefused, RemoveAll
<1>2. CASE Stop(k) \/ Die(k) \/ DropLock(k)
      BY <1>2 DEF Stop, Die, DropLock
<1>3. CASE FailActive(k) \/ FailStaleQueued(k)
      BY <1>3 DEF FailActive, FailStaleQueued
<1>4. CASE \E j \in Jobs : DeleteRow(k, j) BY <1>4 DEF DeleteRow
<1>5. QED BY <1>1, <1>2, <1>3, <1>4 DEF WorkerStep, Startup

\* A file operation touches no row, worker or slot.
LEMMA GuardFrame ==
    ASSUME NEW w \in Workspaces, GuardStep(w)
    PROVE  UNCHANGED <<rowVars, apiVars, workerVars, slotVars>>
BY DEF GuardStep, GuardLock, GuardCheck, GuardEnd

-----------------------------------------------------------------------------
(* Type correctness, with the place of each caller.                        *)

\* The initial state is one of them.
LEMMA BaseInit == Init => Base
BY QueueAssumption
DEF Init, Base, TypeOK, CallerInv, CancelWins, SlotInv, Busy, QueueAssumption, Early, Terminal,
    ActiveStatuses

\* The types, on a step of a caller or of time,
LEMMA TypeCaller ==
    ASSUME Base, NEW j \in Jobs, CallerStep(j) \/ Expire(j)
    PROVE  TypeOK'
<1> USE QueueAssumption DEF QueueAssumption, Base, TypeOK, rowVars, apiVars,
        fileVars, workerVars, slotVars, Return, EndCreate, Terminal,
        ActiveStatuses, Active
<1>1. CASE Submit(j) BY <1>1 DEF Submit
<1>2. CASE AdmitLock(j) BY <1>2 DEF AdmitLock
<1>3. CASE CountActive(j) BY <1>3 DEF CountActive
<1>4. CASE Insert(j) BY <1>4 DEF Insert
<1>5. CASE SeeResult(j) BY <1>5 DEF SeeResult
<1>6. CASE FailQueued(j) BY <1>6 DEF FailQueued
<1>7. CASE GiveUp(j)
  <2>1. status[j] # "absent" BY <1>7 DEF GiveUp, CallerInv
  <2>2. QED BY <1>7, <2>1 DEF GiveUp, FinishRow, Ended
<1>8. CASE CallerLost(j) BY <1>8 DEF CallerLost
<1>9. CASE Expire(j) BY <1>9 DEF Expire
<1>10. QED BY <1>1, <1>2, <1>3, <1>4, <1>5, <1>6, <1>7, <1>8, <1>9
           DEF CallerStep, Create, Await

\* of a worker's main thread,
LEMMA TypeWorker ==
    ASSUME TypeOK, NEW k \in Workers, WorkerStep(k)
    PROVE  TypeOK'
<1> USE QueueAssumption DEF QueueAssumption, TypeOK, rowVars, apiVars, fileVars,
        workerVars, slotVars, Terminal, ActiveStatuses, Active
<1>1. CASE AcquireLock(k) BY <1>1 DEF AcquireLock
<1>2. CASE LockRefused(k) BY <1>2 DEF LockRefused
<1>3. CASE RemoveAll(k) BY <1>3 DEF RemoveAll
<1>4. CASE FailActive(k) BY <1>4 DEF FailActive, Ended
<1>5. CASE Stop(k) BY <1>5 DEF Stop
<1>6. CASE Die(k) BY <1>6 DEF Die
<1>7. CASE DropLock(k) BY <1>7 DEF DropLock
<1>8. CASE FailStaleQueued(k) BY <1>8 DEF FailStaleQueued
<1>9. CASE \E j \in Jobs : DeleteRow(k, j) BY <1>9 DEF DeleteRow
<1>10. QED BY <1>1, <1>2, <1>3, <1>4, <1>5, <1>6, <1>7, <1>8, <1>9
           DEF WorkerStep, Startup

\* of a slot,
LEMMA TypeSlot ==
    ASSUME TypeOK, SlotInv, NEW s \in Slots, SlotStep(s)
    PROVE  TypeOK'
<1> USE QueueAssumption DEF QueueAssumption, TypeOK, rowVars, apiVars, fileVars,
        workerVars, slotVars, Terminal, ActiveStatuses, Active, GoTo, Fatal,
        Unlock, EndRun
<1>1. CASE LoopTest(s) BY <1>1 DEF LoopTest
<1>2. CASE ClaimNothing(s) BY <1>2 DEF ClaimNothing
<1>3. CASE \E j \in Jobs : Claim(s, j) BY <1>3 DEF Claim
<1>4. CASE TakeWorkspace(s) BY <1>4 DEF TakeWorkspace
<1>5. CASE BeforeStart(s) BY <1>5 DEF BeforeStart
<1>6. CASE StartContainer(s) BY <1>6 DEF StartContainer
<1>7. CASE StartFails(s) BY <1>7 DEF StartFails
<1>8. CASE WatchEnds(s) BY <1>8 DEF WatchEnds
<1>9. CASE RemoveContainer(s)
  <2>1. outcome[s] \in Terminal BY <1>9 DEF RemoveContainer, SlotInv
  <2>2. PICK o \in Terminal : EndRun(s, o) BY <1>9, <2>1 DEF RemoveContainer
  <2>3. container' = [container EXCEPT ![holds[s]] = "removed"]
        BY <1>9 DEF RemoveContainer
  <2>4. QED BY <2>2, <2>3
<1>10. CASE RemoveFails(s) BY <1>10 DEF RemoveFails
<1>11. CASE Report(s)
  <2>1. outcome[s] \in Terminal BY <1>11 DEF Report, SlotInv
  <2>2. QED BY <1>11, <2>1 DEF Report, FinishRow, Ended
<1>12. CASE DatabaseFails(s) BY <1>12 DEF DatabaseFails
<1>13. QED BY <1>1, <1>2, <1>3, <1>4, <1>5, <1>6, <1>7, <1>8, <1>9, <1>10,
              <1>11, <1>12 DEF SlotStep

\* and on every step.
LEMMA TypeStep == Base /\ [Next]_vars => TypeOK'
<1> SUFFICES ASSUME Base, [Next]_vars PROVE TypeOK'
    OBVIOUS
<1> USE DEF Base
<1>1. ASSUME NEW j \in Jobs, CallerStep(j) \/ Expire(j) PROVE TypeOK'
      BY <1>1, TypeCaller
<1>2. ASSUME NEW r \in Runs, CancelRun(r) PROVE TypeOK'
      BY <1>2 DEF TypeOK, CancelRun, apiVars, fileVars, workerVars, slotVars,
                  ActiveJobs, Active, ActiveStatuses, Terminal
<1>3. ASSUME NEW w \in Workspaces, GuardStep(w) PROVE TypeOK'
  <2> USE DEF TypeOK, rowVars, apiVars, workerVars, slotVars, ActiveStatuses, Terminal
  <2>1. CASE GuardLock(w) BY <2>1 DEF GuardLock
  <2>2. CASE GuardCheck(w)
    <3>1. /\ wsLock' = wsLock \/ wsLock' = [wsLock EXCEPT ![w] = None]
          /\ editing' = editing \/ editing' = [editing EXCEPT ![w] = TRUE]
          BY ONLY <2>2 DEF GuardCheck
    <3>2. wsLock' \in [Workspaces -> Jobs \cup {None, Files}] BY <3>1, SMT
    <3>3. editing' \in [Workspaces -> BOOLEAN] BY <3>1, Zenon
    <3>4. QED BY <2>2, <3>2, <3>3 DEF GuardCheck
  <2>3. CASE GuardEnd(w) BY <2>3 DEF GuardEnd
  <2>4. QED BY <1>3, <2>1, <2>2, <2>3 DEF GuardStep
<1>4. ASSUME NEW k \in Workers, WorkerStep(k) PROVE TypeOK'
      BY <1>4, TypeWorker
<1>5. ASSUME NEW s \in Slots, SlotStep(s) PROVE TypeOK'
      BY <1>5, TypeSlot
<1>6. CASE UNCHANGED vars
      BY <1>6 DEF TypeOK, vars, rowVars, apiVars, fileVars, workerVars, slotVars
<1>7. QED BY <1>1, <1>2, <1>3, <1>4, <1>5, <1>6, QueueAssumption
          DEF Next, QueueAssumption

-----------------------------------------------------------------------------
(* The one lemma about rows that everything else rests on: how a step may   *)
(* change the status of a job.                                              *)

Kept(j) == status'[j] = status[j]
Inserted(j) ==
    /\ caller[j] = "insert" /\ status[j] = "absent" /\ status'[j] = "queued"
    /\ ~cancelReq'[j]
    /\ Insert(j)
Claimed(j) ==
    status[j] = "queued" /\ status'[j] = "running" /\ cancelReq'[j] = cancelReq[j]
EndedNow(j) ==
    /\ Active(j)
    /\ status'[j] \in Terminal
    /\ cancelReq'[j] => status'[j] = "cancelled"
Deleted(j) ==
    status[j] \in Terminal /\ status'[j] = "absent" /\ caller[j] = "done"

RowStep(j) == Kept(j) \/ Inserted(j) \/ Claimed(j) \/ EndedNow(j) \/ Deleted(j)

\* Every step does one of these to a row, or nothing.
LEMMA RowSteps ==
    ASSUME Base, [Next]_vars
    PROVE  \A j \in Jobs : RowStep(j)
<1> SUFFICES ASSUME NEW j \in Jobs PROVE RowStep(j)
    OBVIOUS
<1> USE DEF RowStep, Kept, Inserted, Claimed, EndedNow, Deleted, Base, TypeOK,
            Active, ActiveStatuses, Terminal, Ended
<1>1. ASSUME NEW i \in Jobs, CallerStep(i) \/ Expire(i) PROVE RowStep(j)
  <2>1. CASE Submit(i) \/ AdmitLock(i) \/ CountActive(i) \/ SeeResult(i)
             \/ CallerLost(i) \/ Expire(i)
        BY <2>1 DEF Submit, AdmitLock, CountActive, SeeResult, CallerLost, Expire,
                    rowVars
  <2>2. CASE Insert(i)
    <3>1. status[i] = "absent" /\ ~cancelReq[i]
          BY <2>2 DEF Insert, CallerInv, Early
    <3>2. QED BY <2>2, <3>1 DEF Insert
  <2>3. CASE FailQueued(i)
    <3>1. ~cancelReq[i] BY <2>3 DEF FailQueued, CancelWins
    <3>2. QED BY <2>3, <3>1 DEF FailQueued
  <2>4. CASE GiveUp(i) BY <2>4 DEF GiveUp, FinishRow
  <2>5. QED BY <1>1, <2>1, <2>2, <2>3, <2>4 DEF CallerStep, Create, Await
<1>2. ASSUME NEW r \in Runs, CancelRun(r) PROVE RowStep(j)
      BY <1>2 DEF CancelRun, ActiveJobs
<1>3. ASSUME NEW w \in Workspaces, GuardStep(w) PROVE RowStep(j)
      BY <1>3, GuardFrame DEF rowVars
<1>4. ASSUME NEW k \in Workers, WorkerStep(k) PROVE RowStep(j)
  <2>1. CASE FailActive(k) BY <2>1 DEF FailActive
  <2>2. CASE FailStaleQueued(k)
    <3>1. status[j] = "queued" => ~cancelReq[j] BY DEF CancelWins
    <3>2. QED BY <2>2, <3>1 DEF FailStaleQueued
  <2>3. CASE \E i \in Jobs : DeleteRow(k, i) BY <2>3 DEF DeleteRow
  <2>4. CASE UNCHANGED status BY <2>4
  <2>5. QED BY <1>4, <2>1, <2>2, <2>3, <2>4, WorkerFrame
<1>5. ASSUME NEW s \in Slots, SlotStep(s) PROVE RowStep(j)
  <2>1. CASE Report(s)
    <3>1. outcome[s] \in Terminal BY <2>1 DEF Report, SlotInv
    <3>2. QED BY <2>1, <3>1 DEF Report, FinishRow
  <2>2. CASE \E i \in Jobs : Claim(s, i) BY <2>2 DEF Claim, Claimable
  <2>3. CASE UNCHANGED status BY <2>3
  <2>4. QED BY <1>5, <2>1, <2>2, <2>3, SlotFrame
<1>6. CASE UNCHANGED vars BY <1>6 DEF vars, rowVars
<1>7. QED BY <1>1, <1>2, <1>3, <1>4, <1>5, <1>6, QueueAssumption
          DEF Next, QueueAssumption

-----------------------------------------------------------------------------
(* The base invariant is inductive.                                        *)

\* A caller with an answer is at its end.
LEMMA CallerInvStep == Base /\ [Next]_vars => CallerInv'
<1> SUFFICES ASSUME Base, [Next]_vars PROVE CallerInv'
    OBVIOUS
<1> USE DEF Base, TypeOK, CallerInv, Early
<1>1. ASSUME NEW i \in Jobs, CallerStep(i) \/ Expire(i) PROVE CallerInv'
  <2> USE DEF Return, apiVars, rowVars
  <2>1. CASE Submit(i) BY <2>1 DEF Submit
  <2>2. CASE AdmitLock(i) BY <2>2 DEF AdmitLock
  <2>3. CASE CountActive(i) BY <2>3 DEF CountActive
  <2>4. CASE Insert(i) BY <2>4 DEF Insert
  <2>5. CASE SeeResult(i) BY <2>5 DEF SeeResult
  <2>6. CASE FailQueued(i) BY <2>6 DEF FailQueued
  <2>7. CASE GiveUp(i) BY <2>7 DEF GiveUp, FinishRow, Ended, Active, ActiveStatuses
  <2>8. CASE CallerLost(i) BY <2>8 DEF CallerLost
  <2>9. CASE Expire(i) BY <2>9 DEF Expire
  <2>10. QED BY <1>1, <2>1, <2>2, <2>3, <2>4, <2>5, <2>6, <2>7, <2>8, <2>9
             DEF CallerStep, Create, Await
<1>2. ASSUME NEW r \in Runs, CancelRun(r) PROVE CallerInv'
      BY <1>2 DEF CancelRun, apiVars, ActiveJobs, Active, ActiveStatuses
<1>3. ASSUME UNCHANGED <<apiVars, cancelReq>>,
             \A j \in Jobs : caller[j] \in Early \cup {"wait"} => RowStep(j) /\ ~Inserted(j)
      PROVE  CallerInv'
      BY <1>3 DEF apiVars, RowStep, Kept, Claimed, EndedNow, Deleted, Active,
                  ActiveStatuses, Terminal
<1>4. ASSUME UNCHANGED <<apiVars, cancelReq>> PROVE CallerInv'
  <2>1. \A j \in Jobs : RowStep(j) BY RowSteps
  <2>2. \A j \in Jobs : ~Inserted(j)
        BY <1>4 DEF Inserted, Insert, Return, apiVars
  <2>3. QED BY <1>3, <1>4, <2>1, <2>2
<1>5. QED
  <2>1. ASSUME NEW w \in Workspaces, GuardStep(w) PROVE CallerInv'
        BY <1>4, <2>1, GuardFrame DEF rowVars
  <2>2. ASSUME NEW k \in Workers, WorkerStep(k) PROVE CallerInv'
        BY <1>4, <2>2, WorkerFrame
  <2>3. ASSUME NEW s \in Slots, SlotStep(s) PROVE CallerInv'
        BY <1>4, <2>3, SlotFrame
  <2>4. CASE UNCHANGED vars BY <1>4, <2>4 DEF vars, rowVars
  <2>5. QED BY <1>1, <1>2, <2>1, <2>2, <2>3, <2>4, QueueAssumption
            DEF Next, QueueAssumption

\* A mark is set only by cancel_run, and only on active rows.
LEMMA CancelWinsStep == Base /\ [Next]_vars => CancelWins'
<1> SUFFICES ASSUME Base, [Next]_vars, NEW j \in Jobs, cancelReq'[j]
             PROVE  status'[j] \in {"running", "cancelled", "absent"}
    BY DEF CancelWins
<1>1. RowStep(j) BY RowSteps
<1>2. CASE Kept(j)
  <2>1. CASE cancelReq[j] BY <1>2, <2>1 DEF Kept, Base, CancelWins
  <2>2. CASE ~cancelReq[j]
    <3>1. \A i \in Jobs : CallerStep(i) \/ Expire(i) => UNCHANGED cancelReq
          BY DEF CallerStep, Expire, Create, Await, Submit, AdmitLock, CountActive,
                 Insert, SeeResult, FailQueued, GiveUp, CallerLost, rowVars
    <3>2. PICK r \in Runs : CancelRun(r)
      <4>1. ASSUME NEW w \in Workspaces, GuardStep(w) PROVE UNCHANGED cancelReq
            BY <4>1, GuardFrame DEF rowVars
      <4>2. ASSUME NEW k \in Workers, WorkerStep(k) PROVE UNCHANGED cancelReq
            BY <4>2, WorkerFrame
      <4>3. ASSUME NEW s \in Slots, SlotStep(s) PROVE UNCHANGED cancelReq
            BY <4>3, SlotFrame
      <4>4. UNCHANGED vars => UNCHANGED cancelReq BY DEF vars, rowVars
      <4>5. QED BY <2>2, <3>1, <4>1, <4>2, <4>3, <4>4, QueueAssumption
                DEF Next, QueueAssumption
    <3>3. j \in ActiveJobs /\ (status[j] = "queued" => status'[j] = "cancelled")
          BY <2>2, <3>2 DEF CancelRun, Base, TypeOK
    <3>4. QED BY <1>2, <3>3 DEF Kept, ActiveJobs, Active, ActiveStatuses
  <2>3. QED BY <2>1, <2>2
<1>3. QED BY <1>1, <1>2 DEF RowStep, Inserted, Claimed, EndedNow, Deleted

\* What a slot holds fits where it is.
LEMMA SlotInvStep == Base /\ [Next]_vars => SlotInv'
<1> SUFFICES ASSUME Base, [Next]_vars PROVE SlotInv'
    OBVIOUS
<1> USE QueueAssumption DEF QueueAssumption, Base, TypeOK, SlotInv, Busy, Terminal
<1>1. ASSUME UNCHANGED <<pc, holds, outcome, phase>> PROVE SlotInv'
      BY <1>1
<1>2. ASSUME NEW i \in Jobs, CallerStep(i) \/ Expire(i) PROVE SlotInv'
      BY <1>1, <1>2 DEF CallerStep, Expire, Create, Await, Submit, AdmitLock,
         CountActive, Insert, SeeResult, FailQueued, GiveUp, CallerLost, slotVars, workerVars
<1>3. ASSUME NEW r \in Runs, CancelRun(r) PROVE SlotInv'
      BY <1>1, <1>3 DEF CancelRun, slotVars, workerVars
<1>4. ASSUME NEW w \in Workspaces, GuardStep(w) PROVE SlotInv'
      BY <1>1, <1>4, GuardFrame DEF slotVars, workerVars
<1>5. ASSUME NEW k \in Workers, WorkerStep(k) PROVE SlotInv'
  <2>1. CASE FailActive(k) BY <2>1 DEF FailActive
  <2>2. CASE Die(k) BY <2>2 DEF Die
  <2>3. CASE ~FailActive(k) /\ ~Die(k)
    <3>1. CASE AcquireLock(k) BY <3>1 DEF AcquireLock, slotVars
    <3>2. CASE LockRefused(k) BY <3>2 DEF LockRefused, slotVars
    <3>3. CASE RemoveAll(k) BY <3>3 DEF RemoveAll
    <3>4. CASE Stop(k) BY <3>4 DEF Stop, slotVars
    <3>5. CASE DropLock(k) \/ FailStaleQueued(k) \/ \E j \in Jobs : DeleteRow(k, j)
          BY <1>1, <3>5 DEF DropLock, FailStaleQueued, DeleteRow, slotVars, workerVars
    <3>6. QED BY <1>5, <2>3, <3>1, <3>2, <3>3, <3>4, <3>5 DEF WorkerStep, Startup
  <2>4. QED BY <2>1, <2>2, <2>3
<1>6. ASSUME NEW s \in Slots, SlotStep(s) PROVE SlotInv'
  <2> USE DEF GoTo, Fatal, EndRun, workerVars
  <2>1. CASE LoopTest(s) BY <2>1 DEF LoopTest
  <2>2. CASE ClaimNothing(s) BY <2>2 DEF ClaimNothing
  <2>3. CASE \E j \in Jobs : Claim(s, j) BY <2>3 DEF Claim
  <2>4. CASE TakeWorkspace(s) BY <2>4 DEF TakeWorkspace
  <2>5. CASE BeforeStart(s) BY <2>5 DEF BeforeStart
  <2>6. CASE StartContainer(s) BY <2>6 DEF StartContainer
  <2>7. CASE StartFails(s) BY <2>7 DEF StartFails
  <2>8. CASE WatchEnds(s) BY <2>8 DEF WatchEnds
  <2>9. CASE RemoveContainer(s) BY <2>9 DEF RemoveContainer
  <2>10. CASE RemoveFails(s) BY <2>10 DEF RemoveFails
  <2>11. CASE Report(s) BY <2>11 DEF Report
  <2>12. CASE DatabaseFails(s) BY <2>12 DEF DatabaseFails
  <2>13. QED BY <1>6, <2>1, <2>2, <2>3, <2>4, <2>5, <2>6, <2>7, <2>8, <2>9,
                <2>10, <2>11, <2>12 DEF SlotStep
<1>7. CASE UNCHANGED vars BY <1>1, <1>7 DEF vars, slotVars, workerVars
<1>8. QED BY <1>2, <1>3, <1>4, <1>5, <1>6, <1>7 DEF Next

\* Every variable keeps its type: TypeOK of SandboxQueue, and with it where
\* each caller and slot may be.
THEOREM BaseHolds == Spec => []Base
<1>1. Base /\ [Next]_vars => Base'
      BY TypeStep, CallerInvStep, CancelWinsStep, SlotInvStep DEF Base
<1>2. QED BY BaseInit, <1>1, PTL DEF Spec

\* The rows, the callers, the slots, their locks and containers keep their types.
THEOREM TypeCorrect == Spec => []TypeOK
<1>1. Base => TypeOK BY DEF Base
<1>2. QED BY BaseHolds, <1>1, PTL

\* A cancellation, once requested, is never overwritten by a late result.
THEOREM CancellationWins == Spec => []CancelWins
<1>1. Base => CancelWins BY DEF Base
<1>2. QED BY BaseHolds, <1>1, PTL

-----------------------------------------------------------------------------
(* Admission: the two locks of create and the lock of workspace_guard.      *)

\* A create past its locks holds both; a body of workspace_guard holds its own;
\* a create past the count still has room.
LockInv ==
    /\ \A j \in Jobs : caller[j] \in {"count", "insert"} =>
           admission = j /\ wsLock[WorkspaceOf[j]] = j
    /\ \A w \in Workspaces : editing[w] => wsLock[w] = Files
RoomInv == \A j \in Jobs : caller[j] = "insert" => Cardinality(ActiveJobs) < Concurrency

Admission == LockInv /\ RoomInv /\ Capacity /\ OneActivePerTenant /\ GuardExcludesJobs

\* Only callers and file operations touch the locks.
LEMMA LockFrame ==
    ASSUME [Next]_vars
    PROVE  \/ \E j \in Jobs : CallerStep(j)
           \/ \E w \in Workspaces : GuardStep(w)
           \/ UNCHANGED <<apiVars, fileVars>>
<1>1. ASSUME NEW j \in Jobs, Expire(j) PROVE UNCHANGED <<apiVars, fileVars>>
      BY <1>1 DEF Expire
<1>2. ASSUME NEW r \in Runs, CancelRun(r) PROVE UNCHANGED <<apiVars, fileVars>>
      BY <1>2 DEF CancelRun
<1>3. ASSUME NEW k \in Workers, WorkerStep(k) PROVE UNCHANGED <<apiVars, fileVars>>
      BY <1>3, WorkerFrame
<1>4. ASSUME NEW s \in Slots, SlotStep(s) PROVE UNCHANGED <<apiVars, fileVars>>
      BY <1>4, SlotFrame
<1>5. CASE UNCHANGED vars BY <1>5 DEF vars
<1>6. QED BY <1>1, <1>2, <1>3, <1>4, <1>5, QueueAssumption DEF Next, QueueAssumption

\* The active rows shrink, or grow by the row an Insert found no conflict for.
LEMMA ActiveStep ==
    ASSUME Base, [Next]_vars
    PROVE  \/ ActiveJobs' \subseteq ActiveJobs
           \/ \E j \in Jobs : /\ Inserted(j) /\ ~Conflicts(j)
                              /\ ActiveJobs' = ActiveJobs \cup {j}
<1>1. \A j \in Jobs : RowStep(j) BY RowSteps
<1>2. CASE \E j \in Jobs : Inserted(j)
  <2>1. PICK j \in Jobs : Inserted(j) BY <1>2
  <2>2. ~Conflicts(j) /\ status' = [status EXCEPT ![j] = "queued"]
        BY <2>1 DEF Inserted, Insert
  <2>3. ActiveJobs' = ActiveJobs \cup {j}
        BY <2>1, <2>2 DEF ActiveJobs, Active, ActiveStatuses, Base, TypeOK
  <2>4. QED BY <2>1, <2>2, <2>3
<1>3. CASE \A j \in Jobs : ~Inserted(j)
      BY <1>1, <1>3 DEF RowStep, Kept, Claimed, EndedNow, Deleted, ActiveJobs,
         Active, ActiveStatuses, Terminal
<1>4. QED BY <1>2, <1>3

\* Who holds which lock of `create' stays known.
LEMMA LockInvStep == Base /\ LockInv /\ [Next]_vars => LockInv'
<1> SUFFICES ASSUME Base, LockInv, [Next]_vars PROVE LockInv'
    OBVIOUS
<1> USE QueueAssumption DEF QueueAssumption, Base, TypeOK, LockInv, apiVars, fileVars
<1>1. ASSUME NEW j \in Jobs, CallerStep(j) PROVE LockInv'
  <2> USE DEF Return, EndCreate
  <2>1. CASE Submit(j) BY <2>1 DEF Submit
  <2>2. CASE AdmitLock(j) BY <2>2 DEF AdmitLock
  <2>3. CASE CountActive(j) BY <2>3 DEF CountActive
  <2>4. CASE Insert(j) BY <2>4 DEF Insert
  <2>5. CASE Await(j) BY <2>5 DEF Await, SeeResult, FailQueued, GiveUp
  <2>6. CASE CallerLost(j) BY <2>6 DEF CallerLost
  <2>7. QED BY <1>1, <2>1, <2>2, <2>3, <2>4, <2>5, <2>6 DEF CallerStep, Create
<1>2. ASSUME NEW w \in Workspaces, GuardStep(w) PROVE LockInv'
  <2>1. CASE GuardLock(w) BY <2>1 DEF GuardLock
  <2>2. CASE GuardCheck(w) BY <2>2 DEF GuardCheck
  <2>3. CASE GuardEnd(w) BY <2>3 DEF GuardEnd
  <2>4. QED BY <1>2, <2>1, <2>2, <2>3 DEF GuardStep
<1>3. CASE UNCHANGED <<apiVars, fileVars>> BY <1>3
<1>4. QED BY <1>1, <1>2, <1>3, LockFrame

\* Active jobs can be counted.
LEMMA ActiveFinite == IsFiniteSet(ActiveJobs)
BY QueueAssumption, FS_Subset DEF QueueAssumption, ActiveJobs

\* From the count to the insertion there is room.
LEMMA RoomInvStep == Base /\ Admission /\ [Next]_vars => RoomInv'
<1> SUFFICES ASSUME Base, Admission, [Next]_vars,
                    NEW j \in Jobs, caller'[j] = "insert"
             PROVE  Cardinality(ActiveJobs') < Concurrency
    BY DEF RoomInv
<1> USE DEF Base, TypeOK
<1>1. \/ caller[j] = "insert" /\ \A i \in Jobs : ~Inserted(i)
      \/ CountActive(j)
  <2>1. ASSUME NEW i \in Jobs, CallerStep(i) PROVE <1>1!1 \/ <1>1!2
    <3>1. CASE Insert(i)
      <4>1. i # j BY <3>1 DEF Insert, Return
      <4>2. caller[j] = "insert" BY <3>1, <4>1 DEF Insert, Return
      <4>3. QED BY <3>1, <4>1, <4>2 DEF Admission, LockInv, Insert
    <3>2. CASE ~Insert(i)
      <4>1. \A h \in Jobs : ~Inserted(h)
            BY <2>1, <3>2 DEF Inserted, CallerStep, Create, Await, Submit, AdmitLock,
               CountActive, SeeResult, FailQueued, GiveUp, CallerLost, rowVars,
               FinishRow, Ended, Active, ActiveStatuses
      <4>2. CASE CountActive(i) BY <4>1, <4>2 DEF CountActive, Return
      <4>3. CASE ~CountActive(i)
            BY <2>1, <3>2, <4>1, <4>3 DEF CallerStep, Create, Await, Submit,
               AdmitLock, SeeResult, FailQueued, GiveUp, CallerLost, Return
      <4>4. QED BY <4>2, <4>3
    <3>3. QED BY <3>1, <3>2
  <2>2. CASE UNCHANGED caller
        BY <2>2 DEF Inserted, Insert, Return
  <2>3. QED BY <2>1, <2>2, LockFrame, GuardFrame DEF apiVars
<1>2. CASE CountActive(j)
      BY <1>2, ActiveFinite, FS_CardinalityType, QueueAssumption
      DEF CountActive, Return, rowVars, ActiveJobs, Active, QueueAssumption
<1>3. CASE caller[j] = "insert" /\ \A i \in Jobs : ~Inserted(i)
  <2>1. ActiveJobs' \subseteq ActiveJobs BY <1>3, ActiveStep
  <2>2. Cardinality(ActiveJobs') <= Cardinality(ActiveJobs)
        BY <2>1, ActiveFinite, FS_Subset
  <2>3. IsFiniteSet(ActiveJobs') BY <2>1, ActiveFinite, FS_Subset
  <2>4. QED BY <1>3, <2>2, <2>3, ActiveFinite, FS_CardinalityType, QueueAssumption
            DEF Admission, RoomInv, QueueAssumption
<1>4. QED BY <1>1, <1>2, <1>3

\* So there are never more active jobs than the capacity,
LEMMA CapacityStep == Base /\ Admission /\ [Next]_vars => Capacity'
<1> SUFFICES ASSUME Base, Admission, [Next]_vars
             PROVE  Cardinality(ActiveJobs') <= Concurrency
    BY DEF Capacity
<1>1. CASE ActiveJobs' \subseteq ActiveJobs
  <2>1. IsFiniteSet(ActiveJobs') /\ Cardinality(ActiveJobs') <= Cardinality(ActiveJobs)
        BY <1>1, ActiveFinite, FS_Subset
  <2>2. QED BY <2>1, ActiveFinite, FS_CardinalityType, QueueAssumption
            DEF Admission, Capacity, QueueAssumption
<1>2. ASSUME NEW j \in Jobs, Inserted(j), ActiveJobs' = ActiveJobs \cup {j}
      PROVE  Cardinality(ActiveJobs') <= Concurrency
  <2>1. Cardinality(ActiveJobs) < Concurrency
        BY <1>2 DEF Inserted, Admission, RoomInv
  <2>2. Cardinality(ActiveJobs') <= Cardinality(ActiveJobs) + 1
        BY <1>2, ActiveFinite, FS_AddElement, FS_CardinalityType
  <2>3. QED BY <1>2, <2>1, <2>2, ActiveFinite, FS_CardinalityType, FS_AddElement,
               QueueAssumption DEF QueueAssumption
<1>3. QED BY <1>1, <1>2, ActiveStep

\* never two of a tenant,
LEMMA TenantStep ==
    Base /\ OneActivePerTenant /\ [Next]_vars => OneActivePerTenant'
<1> SUFFICES ASSUME Base, OneActivePerTenant, [Next]_vars PROVE OneActivePerTenant'
    OBVIOUS
<1>1. CASE ActiveJobs' \subseteq ActiveJobs
      BY <1>1 DEF OneActivePerTenant, SameTenant
<1>2. ASSUME NEW j \in Jobs, ~Conflicts(j), ActiveJobs' = ActiveJobs \cup {j}
      PROVE  OneActivePerTenant'
      BY <1>2 DEF OneActivePerTenant, SameTenant, Conflicts
<1>3. QED BY <1>1, <1>2, ActiveStep

\* and none under a file operation.
LEMMA GuardExcludesStep ==
    Base /\ LockInv /\ GuardExcludesJobs /\ [Next]_vars => GuardExcludesJobs'
<1> SUFFICES ASSUME Base, LockInv, GuardExcludesJobs, [Next]_vars,
                    NEW w \in Workspaces, NEW j \in ActiveJobs', editing'[w]
             PROVE  WorkspaceOf[j] # w
    BY DEF GuardExcludesJobs
<1> USE DEF Base, TypeOK
<1>1. CASE editing[w]
  <2>1. CASE j \in ActiveJobs BY <1>1, <2>1 DEF GuardExcludesJobs
  <2>2. CASE j \notin ActiveJobs
    <3>1. j \in Jobs /\ Inserted(j) BY <2>2, ActiveStep DEF ActiveJobs
    <3>2. wsLock[WorkspaceOf[j]] = j BY <3>1 DEF Inserted, LockInv
    <3>3. wsLock[w] = Files BY <1>1 DEF LockInv
    <3>4. QED BY <3>1, <3>2, <3>3, QueueAssumption DEF QueueAssumption
  <2>3. QED BY <2>1, <2>2
<1>2. CASE ~editing[w]
  <2>1. PICK v \in Workspaces : GuardStep(v)
        BY <1>2, LockFrame DEF CallerStep, Create, Await, Submit, AdmitLock, CountActive,
           Insert, SeeResult, FailQueued, GiveUp, CallerLost, fileVars
  <2>2. v = w /\ GuardCheck(v)
        BY <1>2, <2>1 DEF GuardStep, GuardLock, GuardCheck, GuardEnd
  <2>3. ActiveJobs' = ActiveJobs BY <2>1, GuardFrame DEF rowVars, ActiveJobs, Active
  <2>4. QED BY <1>2, <2>2, <2>3 DEF GuardCheck
<1>3. QED BY <1>1, <1>2

\* The capacity of the worker, the tenant's single job and the quiet workspace
\* under a file operation hold in every reachable state.
THEOREM AdmissionHolds == Spec => []Admission
<1>1. Init => Admission
  <2>1. Init => ActiveJobs = {}
        BY DEF Init, ActiveJobs, Active, ActiveStatuses
  <2>2. Init => LockInv BY DEF Init, LockInv
  <2>3. Init => RoomInv BY DEF Init, RoomInv
  <2>4. Init => Capacity
        BY <2>1, FS_EmptySet, QueueAssumption DEF Capacity, QueueAssumption
  <2>5. Init => OneActivePerTenant BY <2>1 DEF OneActivePerTenant
  <2>6. Init => GuardExcludesJobs BY <2>1 DEF GuardExcludesJobs
  <2>7. QED BY <2>2, <2>3, <2>4, <2>5, <2>6 DEF Admission
<1>2. Base /\ Admission /\ [Next]_vars => Admission'
      BY LockInvStep, RoomInvStep, CapacityStep, TenantStep, GuardExcludesStep
      DEF Admission
<1>3. QED BY BaseHolds, <1>1, <1>2, PTL DEF Spec

\* Concurrent admissions never exceed SANDBOX_CONCURRENCY.
THEOREM NeverOverCapacity == Spec => []Capacity
<1>1. Admission => Capacity BY DEF Admission
<1>2. QED BY AdmissionHolds, <1>1, PTL

\* A tenant, and a workspace, has at most one queued or running job.
THEOREM OneJobPerTenant == Spec => []OneActivePerTenant
<1>1. Admission => OneActivePerTenant BY DEF Admission
<1>2. QED BY AdmissionHolds, <1>1, PTL

\* No job of a workspace is queued or running while the API uses its files.
THEOREM FilesExcludeJobs == Spec => []GuardExcludesJobs
<1>1. Admission => GuardExcludesJobs BY DEF Admission
<1>2. QED BY AdmissionHolds, <1>1, PTL

-----------------------------------------------------------------------------
(* Answers and slots.                                                      *)

\* Only the step that ends a call answers it, and with what the row says.
LEMMA ReplyStep ==
    ASSUME Base, [Next]_vars, NEW j \in Jobs, reply'[j] # reply[j]
    PROVE  /\ reply[j] = "none"
           /\ caller'[j] = "done"
           /\ \/ reply'[j] \in {"unavailable", "busy"} /\ status[j] = "absent"
                 /\ UNCHANGED status
              \/ reply'[j] = "error" /\ UNCHANGED status
              \/ reply'[j] = status'[j] /\ status'[j] \in Terminal
<1> USE DEF Base, TypeOK, apiVars
<1>1. PICK i \in Jobs : CallerStep(i)
      BY LockFrame, GuardFrame
<1>2. i = j /\ (i = j => caller[i] # "done")
      BY <1>1 DEF CallerStep, Create, Await, Submit, AdmitLock, CountActive, Insert,
         SeeResult, FailQueued, GiveUp, CallerLost, Return
<1> USE DEF CallerInv, Early, Return, rowVars
<1>3. CASE Submit(j) BY <1>3 DEF Submit
<1>4. CASE AdmitLock(j) BY <1>4 DEF AdmitLock
<1>5. CASE CountActive(j) BY <1>5 DEF CountActive
<1>6. CASE Insert(j) BY <1>6 DEF Insert
<1>7. CASE SeeResult(j) BY <1>7 DEF SeeResult
<1>8. CASE FailQueued(j) BY <1>8 DEF FailQueued, Terminal
<1>9. CASE GiveUp(j)
      BY <1>9 DEF GiveUp, FinishRow, Ended, Active, ActiveStatuses, Terminal
<1>10. CASE CallerLost(j) BY <1>10 DEF CallerLost
<1>11. QED BY <1>1, <1>2, <1>3, <1>4, <1>5, <1>6, <1>7, <1>8, <1>9, <1>10
           DEF CallerStep, Create, Await

\* A call that was answered is over, and the other way round.
AnsweredInv == \A j \in Jobs : reply[j] # "none" <=> caller[j] = "done"
Answers == AnsweredInv /\ ReplyMatchesRow

\* An answer stays that of its row.
LEMMA AnswersStep == Base /\ Answers /\ [Next]_vars => Answers'
<1> SUFFICES ASSUME Base, Answers, [Next]_vars, NEW j \in Jobs
             PROVE  /\ reply'[j] # "none" <=> caller'[j] = "done"
                    /\ reply'[j] \in Terminal => status'[j] \in {reply'[j], "absent"}
    BY DEF Answers, AnsweredInv, ReplyMatchesRow
<1> USE DEF Base, TypeOK, Answers, AnsweredInv, ReplyMatchesRow
<1>1. CASE reply'[j] # reply[j] BY <1>1, ReplyStep DEF Terminal
<1>2. CASE reply'[j] = reply[j]
  <2>1. caller[j] = "done" <=> caller'[j] = "done"
    <3>1. ASSUME NEW i \in Jobs, CallerStep(i)
          PROVE  caller[j] = "done" <=> caller'[j] = "done"
      <4> USE DEF Return
      <4>1. CASE Submit(i) BY <1>2, <4>1 DEF Submit
      <4>2. CASE AdmitLock(i) BY <1>2, <4>2 DEF AdmitLock
      <4>3. CASE CountActive(i) BY <1>2, <4>3 DEF CountActive
      <4>4. CASE Insert(i) BY <1>2, <4>4 DEF Insert
      <4>5. CASE SeeResult(i) BY <1>2, <4>5 DEF SeeResult, Terminal
      <4>6. CASE FailQueued(i) BY <1>2, <4>6 DEF FailQueued
      <4>7. CASE GiveUp(i)
        <5>1. status'[i] \in Terminal
              BY <4>7 DEF GiveUp, FinishRow, Ended, Active, ActiveStatuses, Terminal,
                          CallerInv
        <5>2. QED BY <1>2, <4>7, <5>1 DEF GiveUp, Terminal
      <4>8. CASE CallerLost(i) BY <1>2, <4>8 DEF CallerLost
      <4>9. QED BY <3>1, <4>1, <4>2, <4>3, <4>4, <4>5, <4>6, <4>7, <4>8
                DEF CallerStep, Create, Await
    <3>2. QED BY <3>1, LockFrame, GuardFrame DEF apiVars
  <2>2. RowStep(j) BY RowSteps
  <2>3. QED BY <1>2, <2>1, <2>2 DEF RowStep, Kept, Inserted, Claimed, EndedNow,
               Deleted, Active, ActiveStatuses, Terminal
<1>3. QED BY <1>1, <1>2

\* What execute returned is what the row says for ever after.
THEOREM AnswersAreFinal == Spec => []ReplyMatchesRow
<1>1. Init => Answers
      BY DEF Init, Answers, AnsweredInv, ReplyMatchesRow, Terminal
<1>2. Base /\ Answers /\ [Next]_vars => Answers' BY AnswersStep
<1>3. Answers => ReplyMatchesRow BY DEF Answers
<1>4. QED BY BaseHolds, <1>1, <1>2, <1>3, PTL DEF Spec

\* A claimed row left the queue for good: it can be neither claimed nor
\* inserted again while a slot holds it.
HeldInv ==
    \A s \in Slots : holds[s] # None =>
        status[holds[s]] # "queued" /\ caller[holds[s]] \notin Early
Claims == HeldInv /\ ClaimedOnce

\* What a slot holds changes by a claim, or it lets go.
LEMMA HoldsStep ==
    ASSUME Base, [Next]_vars
    PROVE  \/ \A s \in Slots : holds'[s] \in {holds[s], None}
           \/ \E s \in Slots, j \in Jobs : Claim(s, j)
<1> USE QueueAssumption DEF QueueAssumption, Base, TypeOK
<1>1. ASSUME NEW i \in Jobs, CallerStep(i) \/ Expire(i) PROVE UNCHANGED holds
      BY <1>1 DEF CallerStep, Expire, Create, Await, Submit, AdmitLock,
         CountActive, Insert, SeeResult, FailQueued, GiveUp, CallerLost, slotVars
<1>2. ASSUME NEW r \in Runs, CancelRun(r) PROVE UNCHANGED holds
      BY <1>2 DEF CancelRun, slotVars
<1>3. ASSUME NEW w \in Workspaces, GuardStep(w) PROVE UNCHANGED holds
      BY <1>3, GuardFrame DEF slotVars
<1>4. ASSUME NEW k \in Workers, WorkerStep(k)
      PROVE  \A s \in Slots : holds'[s] \in {holds[s], None}
      BY <1>4 DEF WorkerStep, Startup, AcquireLock, LockRefused, RemoveAll,
         FailActive, Stop, Die, DropLock, FailStaleQueued, DeleteRow, slotVars
<1>5. ASSUME NEW s \in Slots, SlotStep(s), \A j \in Jobs : ~Claim(s, j)
      PROVE  \A t \in Slots : holds'[t] \in {holds[t], None}
      BY <1>5 DEF SlotStep, LoopTest, ClaimNothing, TakeWorkspace, BeforeStart,
         StartContainer, StartFails, WatchEnds, RemoveContainer, RemoveFails,
         Report, DatabaseFails, EndRun, Fatal
<1>6. UNCHANGED vars => UNCHANGED holds BY DEF vars, slotVars
<1>7. QED BY <1>1, <1>2, <1>3, <1>4, <1>5, <1>6 DEF Next

\* A slot holds what it has claimed, and nothing is claimed twice.
LEMMA ClaimsStep == Base /\ Claims /\ [Next]_vars => Claims'
<1> SUFFICES ASSUME Base, Claims, [Next]_vars PROVE Claims'
    OBVIOUS
<1> USE QueueAssumption
        DEF QueueAssumption, Base, TypeOK, Claims, HeldInv, ClaimedOnce
<1>1. \A j \in Jobs : caller[j] \notin Early =>
          /\ caller'[j] \notin Early
          /\ status[j] # "queued" => status'[j] # "queued"
  <2> SUFFICES ASSUME NEW j \in Jobs, caller[j] \notin Early
               PROVE  /\ caller'[j] \notin Early
                      /\ status[j] # "queued" => status'[j] # "queued"
      OBVIOUS
  <2>1. caller'[j] \notin Early
    <3>1. ASSUME NEW i \in Jobs, CallerStep(i) PROVE caller'[j] \notin Early
          BY <3>1 DEF CallerStep, Create, Await, Submit, AdmitLock, CountActive,
             Insert, SeeResult, FailQueued, GiveUp, CallerLost, Return, Early
    <3>2. QED BY <3>1, LockFrame, GuardFrame DEF apiVars
  <2>2. RowStep(j) BY RowSteps
  <2>3. QED BY <2>1, <2>2 DEF RowStep, Kept, Inserted, Claimed, EndedNow, Deleted,
               Terminal, Early
<1>2. ASSUME \A s \in Slots : holds'[s] \in {holds[s], None} PROVE Claims'
      BY <1>1, <1>2
<1>3. ASSUME NEW s \in Slots, NEW j \in Jobs, Claim(s, j) PROVE Claims'
  <2>1. status[j] = "queued" /\ holds' = [holds EXCEPT ![s] = j]
        BY <1>3 DEF Claim, Claimable
  <2>2. caller[j] \notin Early BY <2>1 DEF CallerInv
  <2>3. status'[j] = "running" BY <1>3 DEF Claim
  <2>4. \A t \in Slots : holds[t] # j BY <2>1
  <2>5. QED BY <1>1, <2>1, <2>2, <2>3, <2>4
<1>4. QED BY <1>2, <1>3, HoldsStep

\* A job is claimed once and stays out of the queue while a slot holds it.
THEOREM ClaimsHold == Spec => []Claims
<1>1. Init => Claims BY DEF Init, Claims, HeldInv, ClaimedOnce
<1>2. Base /\ Claims /\ [Next]_vars => Claims' BY ClaimsStep
<1>3. QED BY BaseHolds, <1>1, <1>2, PTL DEF Spec

\* No job is ever given to two slots, of one worker process or of several.
THEOREM NoJobRunsTwice == Spec => []ClaimedOnce
<1>1. Claims => ClaimedOnce BY DEF Claims
<1>2. QED BY ClaimsHold, <1>1, PTL

-----------------------------------------------------------------------------
(* One container per workspace, by the execution flock.                     *)

Locked == {"ready", "start", "running", "remove"}

\* A job has no container before its claim; a slot keeps the flock from before
\* the start of its container until after the removal, and while it holds a job
\* whose container lives it is in between.
Unclaimed(j) == status[j] = "queued" \/ caller[j] \in Early
NoneYet == \A j \in Jobs : Unclaimed(j) => container[j] = "none"
Flocked == \A s \in Slots : pc[s] \in Locked => execLock[Workspace(s)] = s
Watched ==
    \A s \in Slots : holds[s] # None /\ container[holds[s]] = "live" =>
        pc[s] \in {"running", "remove"}
Containers == NoneYet /\ Flocked /\ Watched

\* A job that is unclaimed was so before.
LEMMA UnclaimedBefore ==
    ASSUME Base, [Next]_vars, NEW j \in Jobs, Unclaimed(j)'
    PROVE  Unclaimed(j)
<1> USE QueueAssumption DEF QueueAssumption, Base, TypeOK
<1>1. caller'[j] \in Early => caller[j] \in Early
  <2>1. ASSUME NEW i \in Jobs, CallerStep(i)
        PROVE  caller'[j] \in Early => caller[j] \in Early
        BY <2>1 DEF CallerStep, Create, Await, Submit, AdmitLock, CountActive,
           Insert, SeeResult, FailQueued, GiveUp, CallerLost, Return, Early
  <2>2. QED BY <2>1, LockFrame, GuardFrame DEF apiVars
<1>2. status'[j] = "queued" => status[j] = "queued" \/ caller[j] \in Early
  <2>1. RowStep(j) BY RowSteps
  <2>2. QED BY <2>1 DEF RowStep, Kept, Inserted, Claimed, EndedNow, Deleted, Terminal, Early
<1>3. QED BY <1>1, <1>2 DEF Unclaimed

\* A job has no container before its claim.
LEMMA NoneYetStep == Base /\ Claims /\ Containers /\ [Next]_vars => NoneYet'
<1> SUFFICES ASSUME Base, Claims, Containers, [Next]_vars, NEW j \in Jobs, Unclaimed(j)'
             PROVE  container'[j] = "none"
    BY DEF NoneYet, Unclaimed
<1> USE QueueAssumption DEF QueueAssumption, Base, TypeOK
<1>1. Unclaimed(j) /\ container[j] = "none"
      BY UnclaimedBefore DEF Containers, NoneYet
<1>2. \A s \in Slots : holds[s] # j
      BY <1>1 DEF Claims, HeldInv, Unclaimed
<1>3. ASSUME NEW i \in Jobs, CallerStep(i) \/ Expire(i) PROVE UNCHANGED container
      BY <1>3 DEF CallerStep, Expire, Create, Await, Submit, AdmitLock, CountActive,
         Insert, SeeResult, FailQueued, GiveUp, CallerLost, slotVars
<1>4. ASSUME NEW r \in Runs, CancelRun(r) PROVE UNCHANGED container
      BY <1>4 DEF CancelRun, slotVars
<1>5. ASSUME NEW w \in Workspaces, GuardStep(w) PROVE UNCHANGED container
      BY <1>5, GuardFrame DEF slotVars
<1>6. ASSUME NEW k \in Workers, WorkerStep(k) PROVE container'[j] = "none"
      BY <1>1, <1>6 DEF WorkerStep, Startup, AcquireLock, LockRefused, RemoveAll,
         FailActive, Stop, Die, DropLock, FailStaleQueued, DeleteRow, slotVars
<1>7. ASSUME NEW s \in Slots, SlotStep(s) PROVE container'[j] = "none"
      BY <1>1, <1>2, <1>7 DEF SlotStep, LoopTest, ClaimNothing, Claim, TakeWorkspace,
         BeforeStart, StartContainer, StartFails, WatchEnds, RemoveContainer,
         RemoveFails, Report, DatabaseFails
<1>8. UNCHANGED vars => UNCHANGED container BY DEF vars, slotVars
<1>9. QED BY <1>1, <1>3, <1>4, <1>5, <1>6, <1>7, <1>8 DEF Next

\* A slot that starts, removes or lets go of a container has the flock of its
\* own workspace only, which no other slot in Locked has.
LEMMA FlockStep == Base /\ Claims /\ Containers /\ [Next]_vars => Flocked' /\ Watched'
<1> SUFFICES ASSUME Base, Claims, Containers, [Next]_vars
             PROVE  Flocked' /\ Watched'
    OBVIOUS
<1> USE QueueAssumption
        DEF QueueAssumption, Base, TypeOK, SlotInv, Busy, Containers, Flocked, Watched,
            Locked, Workspace
<1>1. ASSUME UNCHANGED slotVars PROVE Flocked' /\ Watched'
      BY <1>1 DEF slotVars
<1>2. ASSUME NEW i \in Jobs, CallerStep(i) \/ Expire(i) PROVE UNCHANGED slotVars
      BY <1>2 DEF CallerStep, Expire, Create, Await, Submit, AdmitLock, CountActive,
         Insert, SeeResult, FailQueued, GiveUp, CallerLost
<1>3. ASSUME NEW r \in Runs, CancelRun(r) PROVE UNCHANGED slotVars
      BY <1>3 DEF CancelRun
<1>4. ASSUME NEW w \in Workspaces, GuardStep(w) PROVE UNCHANGED slotVars
      BY <1>4, GuardFrame
<1>5. ASSUME NEW k \in Workers, WorkerStep(k) PROVE Flocked' /\ Watched'
  <2>1. CASE RemoveAll(k) BY <2>1 DEF RemoveAll
  <2>2. CASE FailActive(k) BY <2>2 DEF FailActive
  <2>3. CASE Die(k) BY <2>3 DEF Die
  <2>4. CASE UNCHANGED slotVars BY <1>1, <2>4
  <2>5. QED BY <1>5, <2>1, <2>2, <2>3, <2>4
        DEF WorkerStep, Startup, AcquireLock, LockRefused, Stop, DropLock,
            FailStaleQueued, DeleteRow
<1>6. ASSUME NEW s \in Slots, SlotStep(s) PROVE Flocked' /\ Watched'
  <2> USE DEF GoTo
  <2>1. CASE LoopTest(s) \/ ClaimNothing(s) \/ WatchEnds(s) \/ Report(s) \/ DatabaseFails(s)
        BY <2>1 DEF LoopTest, ClaimNothing, WatchEnds, Report, DatabaseFails, Fatal
  <2>2. ASSUME NEW j \in Jobs, Claim(s, j) PROVE Flocked' /\ Watched'
    <3>1. container[j] = "none" BY <2>2 DEF Claim, Claimable, NoneYet, Unclaimed
    <3>2. QED BY <2>2, <3>1 DEF Claim
  <2>3. CASE TakeWorkspace(s) BY <2>3 DEF TakeWorkspace
  <2>4. CASE BeforeStart(s) BY <2>4 DEF BeforeStart, EndRun, Unlock
  <2>5. CASE StartContainer(s) BY <2>5 DEF StartContainer, Claims, ClaimedOnce
  <2>6. CASE StartFails(s) BY <2>6 DEF StartFails, EndRun, Fatal, Unlock
  <2>7. CASE RemoveContainer(s) BY <2>7 DEF RemoveContainer, EndRun, Unlock
  <2>8. CASE RemoveFails(s) BY <2>8 DEF RemoveFails, Fatal, Unlock
  <2>9. QED BY <1>6, <2>1, <2>2, <2>3, <2>4, <2>5, <2>6, <2>7, <2>8 DEF SlotStep
<1>7. CASE UNCHANGED vars BY <1>1, <1>7 DEF vars
<1>8. QED BY <1>1, <1>2, <1>3, <1>4, <1>5, <1>6, <1>7 DEF Next

\* A container exists only between the claim of its job and its removal, and
\* lives only under the flock of its slot.
THEOREM ContainersHold == Spec => []Containers
<1>1. Init => Containers
      BY DEF Init, Containers, NoneYet, Flocked, Watched, Locked
<1>2. Base /\ Claims /\ Containers /\ [Next]_vars => Containers'
      BY NoneYetStep, FlockStep DEF Containers
<1>3. QED BY BaseHolds, ClaimsHold, <1>1, <1>2, PTL DEF Spec

\* Two slots, of one worker or of two that serve at once, never have containers
\* in one workspace, although the row of the earlier job may have been ended by
\* its caller: executor.run starts and removes inside the workspace's flock.
THEOREM SlotsShareNoWorkspace == Spec => []ContainersExclusive
<1>1. Containers => ContainersExclusive
      BY QueueAssumption
      DEF QueueAssumption, Containers, Watched, Flocked, Locked, Workspace, ContainersExclusive
<1>2. QED BY ContainersHold, <1>1, PTL

-----------------------------------------------------------------------------
(* Takeover, as long as Postgres keeps the lock of a living worker.         *)

\* A living worker process has the lock, so there is one; what it sweeps stays
\* swept, since its own slots do not run yet and nobody else's exist.
Sole == \A k \in Workers : Alive(k) => workerLock = k
Swept == \A k \in Workers : phase[k] = "swept" => \A j \in Jobs : container[j] # "live"

\* Before the deadline, the row of a job that a slot holds is running.
HeldRuns == \A s \in Slots : holds[s] # None /\ ~stale[holds[s]] => status[holds[s]] = "running"
Takeover == Sole /\ Swept /\ HeldRuns /\ RowOutlivesContainer

\* One worker has the lock.
LEMMA SoleStep == Base /\ ~LockMayDrop /\ Sole /\ [Next]_vars => Sole'
<1> SUFFICES ASSUME Base, ~LockMayDrop, Sole, [Next]_vars PROVE Sole'
    OBVIOUS
<1> USE QueueAssumption DEF QueueAssumption, Base, TypeOK, SlotInv, Sole, Alive
<1>1. ASSUME UNCHANGED workerVars PROVE Sole'
      BY <1>1 DEF workerVars
<1>2. ASSUME NEW i \in Jobs, CallerStep(i) \/ Expire(i) PROVE UNCHANGED workerVars
      BY <1>2 DEF CallerStep, Expire, Create, Await, Submit, AdmitLock, CountActive,
         Insert, SeeResult, FailQueued, GiveUp, CallerLost
<1>3. ASSUME NEW r \in Runs, CancelRun(r) PROVE UNCHANGED workerVars
      BY <1>3 DEF CancelRun
<1>4. ASSUME NEW w \in Workspaces, GuardStep(w) PROVE UNCHANGED workerVars
      BY <1>4, GuardFrame
<1>5. ASSUME NEW k \in Workers, WorkerStep(k) PROVE Sole'
  <2>1. CASE AcquireLock(k) BY <2>1 DEF AcquireLock
  <2>2. CASE Die(k) BY <2>2 DEF Die
  <2>3. CASE ~AcquireLock(k) /\ ~Die(k)
        BY <1>5, <2>3 DEF WorkerStep, Startup, LockRefused, RemoveAll, FailActive, Stop,
           DropLock, FailStaleQueued, DeleteRow, workerVars
  <2>4. QED BY <2>1, <2>2, <2>3
<1>6. ASSUME NEW s \in Slots, SlotStep(s) PROVE Sole'
  <2>1. pc[s] # "off"
        BY <1>6 DEF SlotStep, LoopTest, ClaimNothing, Claim, TakeWorkspace, BeforeStart,
           StartContainer, StartFails, WatchEnds, RemoveContainer, RemoveFails, Report,
           DatabaseFails
  <2>2. Alive(WorkerOf[s]) BY <2>1
  <2>3. workerLock' = workerLock /\ phase' \in {phase, [phase EXCEPT ![WorkerOf[s]] = "stopping"]}
        BY <1>6 DEF SlotStep, LoopTest, ClaimNothing, Claim, TakeWorkspace, BeforeStart,
           StartContainer, StartFails, WatchEnds, RemoveContainer, RemoveFails, Report,
           DatabaseFails, EndRun, Fatal, workerVars
  <2>4. QED BY <2>2, <2>3
<1>7. CASE UNCHANGED vars BY <1>1, <1>7 DEF vars
<1>8. QED BY <1>1, <1>2, <1>3, <1>4, <1>5, <1>6, <1>7 DEF Next

\* Containers come to life only in the slots of a process that serves or stops.
LEMMA StartsAlone ==
    ASSUME Base, [Next]_vars, NEW j \in Jobs, container'[j] = "live", container[j] # "live"
    PROVE  \E s \in Slots : StartContainer(s) /\ pc[s] = "start" /\ holds[s] = j
<1> USE QueueAssumption DEF QueueAssumption, Base, TypeOK
<1>1. ASSUME NEW i \in Jobs, CallerStep(i) \/ Expire(i) PROVE UNCHANGED container
      BY <1>1 DEF CallerStep, Expire, Create, Await, Submit, AdmitLock, CountActive,
         Insert, SeeResult, FailQueued, GiveUp, CallerLost, slotVars
<1>2. ASSUME NEW r \in Runs, CancelRun(r) PROVE UNCHANGED container
      BY <1>2 DEF CancelRun, slotVars
<1>3. ASSUME NEW w \in Workspaces, GuardStep(w) PROVE UNCHANGED container
      BY <1>3, GuardFrame DEF slotVars
<1>4. ASSUME NEW k \in Workers, WorkerStep(k) PROVE FALSE
      BY <1>4 DEF WorkerStep, Startup, AcquireLock, LockRefused, RemoveAll,
         FailActive, Stop, Die, DropLock, FailStaleQueued, DeleteRow, slotVars
<1>5. ASSUME NEW s \in Slots, SlotStep(s), ~StartContainer(s) PROVE FALSE
      BY <1>5 DEF SlotStep, LoopTest, ClaimNothing, Claim, TakeWorkspace, BeforeStart,
         StartFails, WatchEnds, RemoveContainer, RemoveFails, Report, DatabaseFails
<1>6. ASSUME NEW s \in Slots, StartContainer(s) PROVE pc[s] = "start" /\ holds[s] = j
      BY <1>6 DEF StartContainer
<1>7. UNCHANGED vars => UNCHANGED container BY DEF vars, slotVars
<1>8. QED BY <1>1, <1>2, <1>3, <1>4, <1>5, <1>6, <1>7 DEF Next

\* What a worker has swept stays swept.
LEMMA SweptStep == Base /\ Sole /\ Swept /\ [Next]_vars => Swept'
<1> SUFFICES ASSUME Base, Sole, Swept, [Next]_vars,
                    NEW k \in Workers, phase'[k] = "swept", NEW j \in Jobs
             PROVE  container'[j] # "live"
    BY DEF Swept
<1> USE QueueAssumption DEF QueueAssumption, Base, TypeOK
<1>1. phase[k] = "swept" \/ RemoveAll(k)
  <2>1. ASSUME NEW i \in Jobs, CallerStep(i) \/ Expire(i) PROVE UNCHANGED phase
        BY <2>1 DEF CallerStep, Expire, Create, Await, Submit, AdmitLock, CountActive,
           Insert, SeeResult, FailQueued, GiveUp, CallerLost, workerVars
  <2>2. ASSUME NEW r \in Runs, CancelRun(r) PROVE UNCHANGED phase
        BY <2>2 DEF CancelRun, workerVars
  <2>3. ASSUME NEW w \in Workspaces, GuardStep(w) PROVE UNCHANGED phase
        BY <2>3, GuardFrame DEF workerVars
  <2>4. ASSUME NEW l \in Workers, WorkerStep(l) PROVE phase[k] = "swept" \/ RemoveAll(k)
        BY <2>4 DEF WorkerStep, Startup, AcquireLock, LockRefused, RemoveAll,
           FailActive, Stop, Die, DropLock, FailStaleQueued, DeleteRow, workerVars
  <2>5. ASSUME NEW s \in Slots, SlotStep(s) PROVE phase[k] = "swept"
        BY <2>5 DEF SlotStep, LoopTest, ClaimNothing, Claim, TakeWorkspace, BeforeStart,
           StartContainer, StartFails, WatchEnds, RemoveContainer, RemoveFails, Report,
           DatabaseFails, EndRun, Fatal, workerVars
  <2>6. UNCHANGED vars => UNCHANGED phase BY DEF vars, workerVars
  <2>7. QED BY <2>1, <2>2, <2>3, <2>4, <2>5, <2>6 DEF Next
<1>2. CASE RemoveAll(k) BY <1>2 DEF RemoveAll
<1>3. CASE phase[k] = "swept"
  <2>1. container[j] # "live" BY <1>3 DEF Swept
  <2>2. \A s \in Slots : pc[s] # "start"
        BY <1>3 DEF Sole, Alive, SlotInv
  <2>3. QED BY <2>1, <2>2, StartsAlone
<1>4. QED BY <1>1, <1>2, <1>3

\* Nothing takes a deadline back.
LEMMA StaleStays ==
    ASSUME Base, [Next]_vars, NEW j \in Jobs, stale[j]
    PROVE  stale'[j]
<1> USE QueueAssumption DEF QueueAssumption, Base, TypeOK
<1>1. ASSUME NEW i \in Jobs, CallerStep(i) \/ Expire(i) PROVE stale'[j]
      BY <1>1 DEF CallerStep, Expire, Create, Await, Submit, AdmitLock, CountActive,
         Insert, SeeResult, FailQueued, GiveUp, CallerLost, rowVars
<1>2. ASSUME NEW r \in Runs, CancelRun(r) PROVE stale'[j]
      BY <1>2 DEF CancelRun
<1>3. QED BY <1>1, <1>2, GuardFrame, WorkerFrame, SlotFrame DEF Next, vars, rowVars

\* Before its deadline a running row ends by the report of its slot or by the
\* sweep of a new worker: a cancellation only marks it.
LEMMA EndsEarly ==
    ASSUME Base, [Next]_vars, NEW j \in Jobs,
           status[j] = "running", status'[j] # "running", ~stale[j]
    PROVE  \/ \E s \in Slots : Report(s) /\ holds[s] = j
           \/ \E k \in Workers : FailActive(k)
<1> USE QueueAssumption DEF QueueAssumption, Base, TypeOK
<1>1. ASSUME NEW i \in Jobs, CallerStep(i) \/ Expire(i) PROVE FALSE
      BY <1>1 DEF CallerStep, Expire, Create, Await, Submit, AdmitLock, CountActive,
         Insert, SeeResult, FailQueued, GiveUp, FinishRow, CallerLost, rowVars, CallerInv, Early
<1>2. ASSUME NEW r \in Runs, CancelRun(r) PROVE FALSE
      BY <1>2 DEF CancelRun
<1>3. ASSUME NEW w \in Workspaces, GuardStep(w) PROVE FALSE
      BY <1>3, GuardFrame DEF rowVars
<1>4. ASSUME NEW k \in Workers, WorkerStep(k) PROVE FailActive(k)
      BY <1>4, WorkerFrame DEF FailStaleQueued, DeleteRow, Terminal
<1>5. ASSUME NEW s \in Slots, SlotStep(s) PROVE Report(s) /\ holds[s] = j
      BY <1>5, SlotFrame DEF Claim, Claimable, Report, FinishRow
<1>6. UNCHANGED vars => UNCHANGED status BY DEF vars, rowVars
<1>7. QED BY <1>1, <1>2, <1>3, <1>4, <1>5, <1>6 DEF Next

\* A worker that sweeps is alone: no slot is busy.
LEMMA SweepsAlone ==
    ASSUME Base, Sole, NEW k \in Workers, phase[k] = "swept", NEW s \in Slots
    PROVE  pc[s] = "off" /\ holds[s] = None
BY QueueAssumption DEF QueueAssumption, Base, TypeOK, SlotInv, Busy, Sole, Alive

\* A row that is held runs until its deadline.
LEMMA HeldRunsStep == Base /\ Claims /\ Takeover /\ [Next]_vars => HeldRuns'
<1> SUFFICES ASSUME Base, Claims, Takeover, [Next]_vars,
                    NEW s \in Slots, holds'[s] # None, ~stale'[holds'[s]]
             PROVE  status'[holds'[s]] = "running"
    BY DEF HeldRuns
<1> USE QueueAssumption DEF QueueAssumption, Base, TypeOK
<1>1. CASE holds'[s] = holds[s]
  <2>1. PICK j \in Jobs : holds[s] = j BY <1>1
  <2>2. ~stale[j] BY <1>1, <2>1, StaleStays
  <2>3. status[j] = "running" BY <2>1, <2>2 DEF Takeover, HeldRuns
  <2>4. ASSUME NEW t \in Slots, Report(t), holds[t] = j PROVE FALSE
    <3>1. t = s BY <2>1, <2>4 DEF Claims, ClaimedOnce
    <3>2. QED BY <1>1, <2>4, <3>1 DEF Report
  <2>5. ASSUME NEW k \in Workers, FailActive(k) PROVE FALSE
    <3>1. phase[k] = "swept" BY <2>5 DEF FailActive
    <3>2. QED BY <2>1, <3>1, SweepsAlone DEF Takeover
  <2>6. QED BY <1>1, <2>1, <2>2, <2>3, <2>4, <2>5, EndsEarly
<1>2. CASE holds'[s] # holds[s]
  <2>1. PICK t \in Slots, j \in Jobs : Claim(t, j) BY <1>2, HoldsStep
  <2>2. holds'[s] = j /\ status'[j] = "running" BY <1>2, <2>1 DEF Claim
  <2>3. QED BY <2>2
<1>3. QED BY <1>1, <1>2

\* So a row ends after its container.
LEMMA OutlivesStep ==
    Base /\ Containers /\ Takeover /\ [Next]_vars => RowOutlivesContainer'
<1> SUFFICES ASSUME Base, Containers, Takeover, [Next]_vars, NEW j \in Jobs,
                    container'[j] = "live", ~stale'[j]
             PROVE  status'[j] = "running"
    BY DEF RowOutlivesContainer, Active, ActiveStatuses
<1> USE QueueAssumption DEF QueueAssumption, Base, TypeOK
<1>1. ~stale[j] BY StaleStays
<1>2. CASE container[j] # "live"
  <2>1. PICK s \in Slots : StartContainer(s) /\ holds[s] = j BY <1>2, StartsAlone
  <2>2. status[j] = "running" BY <1>1, <2>1 DEF Takeover, HeldRuns
  <2>3. QED BY <2>1, <2>2 DEF StartContainer, rowVars
<1>3. CASE container[j] = "live"
  <2>1. status[j] = "running"
        BY <1>1, <1>3 DEF Takeover, RowOutlivesContainer, Active, ActiveStatuses,
           Containers, NoneYet, Unclaimed
  <2>2. ASSUME NEW s \in Slots, Report(s), holds[s] = j PROVE FALSE
        BY <1>3, <2>2 DEF Report, Containers, Watched
  <2>3. ASSUME NEW k \in Workers, FailActive(k) PROVE FALSE
        BY <1>3, <2>3 DEF FailActive, Takeover, Swept
  <2>4. QED BY <1>1, <2>1, <2>2, <2>3, EndsEarly
<1>4. QED BY <1>2, <1>3

\* The start-up of a worker: one process at a time, which removes the containers
\* and then fails the rows before its slots run.
THEOREM TakeoverHolds ==
    ASSUME LockMayDrop = FALSE
    PROVE  Spec => []Takeover
<1>1. Init => Takeover
      BY DEF Init, Takeover, Sole, Alive, Swept, HeldRuns, RowOutlivesContainer
<1>2. Base /\ Claims /\ Containers /\ Takeover /\ [Next]_vars => Takeover'
      BY SoleStep, SweptStep, HeldRunsStep, OutlivesStep DEF Takeover
<1>3. QED BY BaseHolds, ClaimsHold, ContainersHold, <1>1, <1>2, PTL DEF Spec

\* While Postgres keeps the worker's lock, a row ends before its deadline only
\* after its container: neither a cancellation nor the start-up of the next
\* worker, which removes containers before it fails rows, gives up a live one.
THEOREM RowsOutliveContainers ==
    ASSUME LockMayDrop = FALSE
    PROVE  Spec => []RowOutlivesContainer
<1>1. Takeover => RowOutlivesContainer BY DEF Takeover
<1>2. QED BY TakeoverHolds, <1>1, PTL

\* A row starts to run by a claim only.
LEMMA RunsByClaim ==
    ASSUME Base, [Next]_vars, NEW j \in Jobs, status'[j] = "running", status[j] # "running"
    PROVE  \E s \in Slots : Claim(s, j)
<1> USE QueueAssumption DEF QueueAssumption, Base, TypeOK, Terminal
<1>1. ASSUME NEW i \in Jobs, CallerStep(i) \/ Expire(i) PROVE FALSE
  <2>1. ASSUME NEW l \in Jobs, FinishRow(l, "failed") PROVE FALSE
        BY <2>1 DEF FinishRow, Ended, Active, ActiveStatuses
  <2>2. QED BY <1>1, <2>1 DEF CallerStep, Expire, Create, Await, Submit, AdmitLock,
        CountActive, Insert, SeeResult, FailQueued, GiveUp, CallerLost, rowVars
<1>2. ASSUME NEW r \in Runs, CancelRun(r) PROVE FALSE
      BY <1>2 DEF CancelRun
<1>3. ASSUME NEW w \in Workspaces, GuardStep(w) PROVE FALSE
      BY <1>3, GuardFrame DEF rowVars
<1>4. ASSUME NEW k \in Workers, WorkerStep(k) PROVE FALSE
      BY <1>4, WorkerFrame DEF FailActive, FailStaleQueued, DeleteRow, Ended
<1>5. ASSUME NEW s \in Slots, SlotStep(s) PROVE Claim(s, j)
  <2>1. CASE Report(s)
        BY <2>1 DEF Report, FinishRow, Ended, SlotInv, Active, ActiveStatuses
  <2>2. ASSUME NEW i \in Jobs, Claim(s, i) PROVE Claim(s, j)
    <3>1. status' = [status EXCEPT ![i] = "running"] BY <2>2 DEF Claim
    <3>2. j = i BY <3>1
    <3>3. QED BY <2>2, <3>2, Zenon
  <2>3. QED BY <1>5, <2>1, <2>2, SlotFrame
<1>6. UNCHANGED vars => UNCHANGED status BY DEF vars, rowVars
<1>7. QED BY <1>1, <1>2, <1>3, <1>4, <1>5, <1>6 DEF Next

\* Every way on for a slot that holds a job, in a process that goes on serving.
LEMMA SlotGoesOn ==
    ASSUME Base, Sole, [Next]_vars, NEW s \in Slots, holds[s] # None,
           phase[WorkerOf[s]] = "serving", phase'[WorkerOf[s]] = "serving"
    PROVE  \/ Report(s)
           \/ holds'[s] = holds[s] /\ RemoveContainer(s)
           \/ /\ holds'[s] = holds[s]
              /\ pc[s] \in {"running", "remove"} => pc'[s] \in {"running", "remove"}
<1> USE QueueAssumption DEF QueueAssumption, Base, TypeOK, SlotInv, Busy
<1>1. ASSUME NEW i \in Jobs, CallerStep(i) \/ Expire(i) PROVE UNCHANGED slotVars
      BY <1>1 DEF CallerStep, Expire, Create, Await, Submit, AdmitLock, CountActive,
         Insert, SeeResult, FailQueued, GiveUp, CallerLost
<1>2. ASSUME NEW r \in Runs, CancelRun(r) PROVE UNCHANGED slotVars
      BY <1>2 DEF CancelRun
<1>3. ASSUME NEW w \in Workspaces, GuardStep(w) PROVE UNCHANGED slotVars
      BY <1>3, GuardFrame
<1>4. ASSUME NEW k \in Workers, WorkerStep(k) PROVE UNCHANGED <<holds[s], pc[s]>>
  <2>1. ~FailActive(k)
    <3>1. FailActive(k) => phase[k] = "swept" BY DEF FailActive
    <3>2. QED BY <3>1, SweepsAlone
  <2>2. CASE Die(k)
    <3>1. WorkerOf[s] # k BY <2>2 DEF Die
    <3>2. QED BY <2>2, <3>1 DEF Die
  <2>3. CASE ~Die(k)
        BY <1>4, <2>1, <2>3 DEF WorkerStep, Startup, AcquireLock, LockRefused, RemoveAll,
           Stop, DropLock, FailStaleQueued, DeleteRow, slotVars
  <2>4. QED BY <2>2, <2>3
<1>5. ASSUME NEW t \in Slots \ {s}, SlotStep(t) PROVE UNCHANGED <<holds[s], pc[s]>>
      BY <1>5 DEF SlotStep, LoopTest, ClaimNothing, Claim, TakeWorkspace, BeforeStart,
         StartContainer, StartFails, WatchEnds, RemoveContainer, RemoveFails, Report,
         DatabaseFails, EndRun, Fatal, GoTo
<1>6. CASE SlotStep(s)
  <2>1. ~Fatal(s) BY DEF Fatal
  <2>2. QED BY <1>6, <2>1 DEF SlotStep, LoopTest, ClaimNothing, Claim, TakeWorkspace,
        BeforeStart, StartContainer, StartFails, WatchEnds, RemoveContainer, RemoveFails,
        DatabaseFails, EndRun, GoTo
<1>7. UNCHANGED vars => UNCHANGED slotVars BY DEF vars
<1>8. UNCHANGED slotVars => UNCHANGED <<holds[s], pc[s]>> BY DEF slotVars
<1>9. QED BY <1>1, <1>2, <1>3, <1>4, <1>5, <1>6, <1>7, <1>8 DEF Next

\* What runs belongs to a slot of the worker that serves.
LEMMA OwnsStep == Base /\ Takeover /\ ServingOwns /\ [Next]_vars => ServingOwns'
<1> SUFFICES ASSUME Base, Takeover, ServingOwns, [Next]_vars,
                    NEW k \in Workers, NEW j \in Jobs,
                    phase'[k] = "serving", workerLock' = k
             PROVE  /\ status'[j] = "running" =>
                           \E s \in Slots : WorkerOf[s] = k /\ holds'[s] = j
                    /\ container'[j] = "live" =>
                           \E s \in Slots : /\ WorkerOf[s] = k /\ holds'[s] = j
                                            /\ pc'[s] \in {"running", "remove"}
    BY DEF ServingOwns
<1> USE QueueAssumption DEF QueueAssumption, Base, TypeOK
<1>1. phase[k] = "serving" \/ FailActive(k)
  <2>1. ASSUME NEW i \in Jobs, CallerStep(i) \/ Expire(i) PROVE UNCHANGED phase
        BY <2>1 DEF CallerStep, Expire, Create, Await, Submit, AdmitLock, CountActive,
           Insert, SeeResult, FailQueued, GiveUp, CallerLost, workerVars
  <2>2. ASSUME NEW r \in Runs, CancelRun(r) PROVE UNCHANGED phase
        BY <2>2 DEF CancelRun, workerVars
  <2>3. ASSUME NEW w \in Workspaces, GuardStep(w) PROVE UNCHANGED phase
        BY <2>3, GuardFrame DEF workerVars
  <2>4. ASSUME NEW l \in Workers, WorkerStep(l) PROVE phase[k] = "serving" \/ FailActive(k)
        BY <2>4 DEF WorkerStep, Startup, AcquireLock, LockRefused, RemoveAll,
           FailActive, Stop, Die, DropLock, FailStaleQueued, DeleteRow, workerVars
  <2>5. ASSUME NEW s \in Slots, SlotStep(s) PROVE phase[k] = "serving"
        BY <2>5 DEF SlotStep, LoopTest, ClaimNothing, Claim, TakeWorkspace, BeforeStart,
           StartContainer, StartFails, WatchEnds, RemoveContainer, RemoveFails, Report,
           DatabaseFails, EndRun, Fatal, workerVars
  <2>6. UNCHANGED vars => UNCHANGED phase BY DEF vars, workerVars
  <2>7. QED BY <2>1, <2>2, <2>3, <2>4, <2>5, <2>6 DEF Next
<1>2. CASE FailActive(k)
  <2>1. status'[j] # "running"
        BY <1>2 DEF FailActive, Active, ActiveStatuses, Ended
  <2>2. container'[j] # "live" BY <1>2 DEF FailActive, Takeover, Swept
  <2>3. QED BY <2>1, <2>2
<1>3. CASE phase[k] = "serving"
  <2>1. workerLock = k BY <1>3 DEF Takeover, Sole, Alive
  <2>2. \A s \in Slots : pc[s] # "off" => WorkerOf[s] = k
        BY <2>1 DEF SlotInv, Takeover, Sole, Alive
  <2>3. ASSUME status'[j] = "running"
        PROVE  \E s \in Slots : WorkerOf[s] = k /\ holds'[s] = j
    <3>1. CASE status[j] # "running"
      <4>1. PICK s \in Slots : Claim(s, j) BY <2>3, <3>1, RunsByClaim
      <4>2. QED BY <2>2, <4>1 DEF Claim
    <3>2. CASE status[j] = "running"
      <4>1. PICK s \in Slots : WorkerOf[s] = k /\ holds[s] = j
            BY <1>3, <2>1, <3>2 DEF ServingOwns
      <4>2. ~Report(s)
            BY <2>3, <3>2, <4>1
            DEF Report, FinishRow, Active, ActiveStatuses, Ended, SlotInv, Terminal
      <4>3. QED BY <1>3, <4>1, <4>2, SlotGoesOn DEF Takeover
    <3>3. QED BY <3>1, <3>2
  <2>4. ASSUME container'[j] = "live"
        PROVE  \E s \in Slots : /\ WorkerOf[s] = k /\ holds'[s] = j
                                /\ pc'[s] \in {"running", "remove"}
    <3>1. CASE container[j] # "live"
      <4>1. PICK s \in Slots : StartContainer(s) /\ pc[s] = "start" /\ holds[s] = j
            BY <2>4, <3>1, StartsAlone
      <4>2. QED BY <2>2, <4>1 DEF StartContainer, GoTo
    <3>2. CASE container[j] = "live"
      <4>1. PICK s \in Slots : /\ WorkerOf[s] = k /\ holds[s] = j
                               /\ pc[s] \in {"running", "remove"}
            BY <1>3, <2>1, <3>2 DEF ServingOwns
      <4>2. ~Report(s) BY <4>1 DEF Report
      <4>3. ~RemoveContainer(s) BY <2>4, <4>1 DEF RemoveContainer
      <4>4. QED BY <1>3, <4>1, <4>2, <4>3, SlotGoesOn DEF Takeover
    <3>3. QED BY <3>1, <3>2
  <2>5. QED BY <2>3, <2>4
<1>4. QED BY <1>1, <1>2, <1>3

\* Nothing of an earlier process or of a failed slot survives into a worker that
\* serves: every running row and every live container is one of its slots'.
THEOREM ServingOwnsAll ==
    ASSUME LockMayDrop = FALSE
    PROVE  Spec => []ServingOwns
<1>1. Init => ServingOwns BY DEF Init, ServingOwns
<1>2. Base /\ Takeover /\ ServingOwns /\ [Next]_vars => ServingOwns' BY OwnsStep
<1>3. QED BY BaseHolds, TakeoverHolds, <1>1, <1>2, PTL DEF Spec

-----------------------------------------------------------------------------
(* The queue implements the ledger.                                        *)

\* The ledger's open jobs are the active rows.
LEMMA OpenIsActive == Ledger!Open = ActiveJobs
BY DEF Ledger!Open, ActiveJobs, Active, ActiveStatuses

\* The initial states map to the ledger's.
LEMMA LedgerInitStep == Init => Ledger!LedgerInit
BY DEF Init, Ledger!LedgerInit

\* A step that inserts is the ledger's Admit.
LEMMA InsertAdmits ==
    ASSUME Base, Admission, NEW j \in Jobs, Inserted(j), ~Conflicts(j)
    PROVE  Ledger!Admit(j)
<1>1. /\ status' = [status EXCEPT ![j] = "queued"]
      /\ UNCHANGED reply
      BY DEF Inserted, Insert
<1>2. status[j] = "absent" /\ reply[j] = "none"
      BY DEF Inserted, Base, CallerInv, Early
<1>3. Cardinality(Ledger!Open) < Concurrency
      BY OpenIsActive DEF Inserted, Admission, RoomInv
<1>4. \A i \in Ledger!Open : TenantOf[WorkspaceOf[i]] # TenantOf[WorkspaceOf[j]]
      BY OpenIsActive DEF Conflicts, SameTenant, ActiveJobs
<1>5. \A i \in Ledger!Open : i \in Jobs BY OpenIsActive DEF ActiveJobs
<1>6. Ledger!Cardinality(Ledger!Open) = Cardinality(Ledger!Open)
      BY DEF Cardinality, Ledger!Cardinality
<1>7. QED BY <1>1, <1>2, <1>3, <1>4, <1>5, <1>6 DEF Ledger!Admit

\* Without an answer: rows of callers, workers and slots that change alone.
LEMMA QuietRowsRefine ==
    ASSUME Base, Admission, Answers, [Next]_vars, UNCHANGED reply
    PROVE  [Ledger!LedgerNext]_(Ledger!ledgerVars)
<1> USE DEF Base, TypeOK, Ledger!LedgerNext, Ledger!ledgerVars
<1>1. \A j \in Jobs : RowStep(j) BY RowSteps
<1>2. CASE \E j \in Jobs : Inserted(j)
  <2>1. PICK j \in Jobs : Inserted(j) BY <1>2
  <2>2. ~Conflicts(j) BY <2>1 DEF Inserted, Insert
  <2>3. QED BY <2>1, <2>2, InsertAdmits
<1>3. CASE \E j \in Jobs : Claimed(j)
  <2>1. PICK j \in Jobs : Claimed(j) BY <1>3
  <2>2. status' = [status EXCEPT ![j] = "running"]
    <3>1. PICK s \in Slots, i \in Jobs : Claim(s, i)
      <4>1. ASSUME NEW i \in Jobs, CallerStep(i) \/ Expire(i) PROVE status'[j] # "running"
            BY <2>1, <4>1 DEF Claimed, CallerStep, Expire, Create, Await, Submit,
               AdmitLock, CountActive, Insert, SeeResult, FailQueued, GiveUp,
               CallerLost, rowVars, FinishRow, Ended
      <4>2. ASSUME NEW r \in Runs, CancelRun(r) PROVE status'[j] # "running"
            BY <2>1, <4>2 DEF Claimed, CancelRun
      <4>3. ASSUME NEW w \in Workspaces, GuardStep(w) PROVE status'[j] # "running"
            BY <2>1, <4>3, GuardFrame DEF Claimed, rowVars
      <4>4. ASSUME NEW k \in Workers, WorkerStep(k) PROVE status'[j] # "running"
            BY <2>1, <4>4, WorkerFrame
            DEF Claimed, FailActive, FailStaleQueued, DeleteRow, Ended
      <4>5. ASSUME NEW s \in Slots, Report(s) PROVE status'[j] # "running"
            BY <2>1, <4>5 DEF Claimed, Report, FinishRow, Ended, SlotInv, Terminal
      <4>6. UNCHANGED vars => status'[j] # "running"
            BY <2>1 DEF Claimed, vars, rowVars
      <4>7. status'[j] = "running" BY <2>1 DEF Claimed
      <4>8. QED BY <2>1, <4>1, <4>2, <4>3, <4>4, <4>5, <4>6, <4>7, SlotFrame,
                   QueueAssumption DEF Next, QueueAssumption, Claimed
    <3>2. status' = [status EXCEPT ![i] = "running"] BY <3>1 DEF Claim
    <3>3. i = j BY <2>1, <3>2 DEF Claimed
    <3>4. QED BY <3>2, <3>3
  <2>3. Ledger!Start(j) BY <2>1, <2>2 DEF Claimed, Ledger!Start
  <2>4. QED BY <2>3
<1>4. CASE \E j \in Jobs : Deleted(j)
  <2>1. PICK j \in Jobs : Deleted(j) BY <1>4
  <2>2. PICK k \in Workers, i \in Jobs : DeleteRow(k, i)
    <3>1. ASSUME NEW i \in Jobs, CallerStep(i) \/ Expire(i) PROVE status'[j] # "absent"
          BY <2>1, <3>1 DEF Deleted, CallerStep, Expire, Create, Await, Submit,
             AdmitLock, CountActive, Insert, SeeResult, FailQueued, GiveUp,
             CallerLost, rowVars, FinishRow, Ended, Terminal
    <3>2. ASSUME NEW r \in Runs, CancelRun(r) PROVE status'[j] # "absent"
          BY <2>1, <3>2 DEF Deleted, CancelRun, Terminal
    <3>3. ASSUME NEW w \in Workspaces, GuardStep(w) PROVE status'[j] # "absent"
          BY <2>1, <3>3, GuardFrame DEF Deleted, rowVars, Terminal
    <3>4. ASSUME NEW s \in Slots, SlotStep(s) PROVE status'[j] # "absent"
          BY <2>1, <3>4, SlotFrame DEF Deleted, Report, FinishRow, Ended, SlotInv,
             Terminal, Claim
    <3>5. UNCHANGED vars => status'[j] # "absent"
          BY <2>1 DEF Deleted, vars, rowVars, Terminal
    <3>6. status'[j] = "absent" BY <2>1 DEF Deleted
    <3>7. PICK k \in Workers : WorkerStep(k)
          BY <3>1, <3>2, <3>3, <3>4, <3>5, <3>6, QueueAssumption DEF Next, QueueAssumption
    <3>8. ~FailActive(k) /\ ~FailStaleQueued(k) /\ status' # status
          BY <2>1, <3>6 DEF Deleted, FailActive, FailStaleQueued, Active,
             ActiveStatuses, Terminal, Ended
    <3>9. QED BY <3>7, <3>8, WorkerFrame
  <2>3. status[i] \in Terminal /\ caller[i] = "done"
        /\ status' = [status EXCEPT ![i] = "absent"]
        BY <2>2 DEF DeleteRow
  <2>4. reply[i] # "none" => Ledger!Forget(i)
        BY <2>3 DEF Ledger!Forget, Ledger!Ends, Terminal
  <2>5. reply[i] # "none" BY <2>3 DEF Answers, AnsweredInv
  <2>6. QED BY <2>4, <2>5
<1>5. CASE \A j \in Jobs : ~Inserted(j) /\ ~Claimed(j) /\ ~Deleted(j)
  <2>1. \A j \in Jobs : \/ status'[j] = status[j]
                        \/ j \in ActiveJobs /\ status'[j] \in Terminal
        BY <1>1, <1>5 DEF RowStep, Kept, EndedNow, ActiveJobs
  <2>2. TypeOK' BY TypeStep
  <2>3. Ledger!EndSome
        BY <2>1, <2>2, OpenIsActive
        DEF Ledger!EndSome, Ledger!Ends, Terminal, ActiveStatuses
  <2>4. QED BY <2>3 DEF Ledger!End
<1>6. QED BY <1>2, <1>3, <1>4, <1>5

\* With an answer: a refusal, or an end that the ledger records first.
LEMMA AnswersRefine ==
    ASSUME Base, Admission, Answers, [Next]_vars, reply' # reply
    PROVE  Ledger!LedgerNext
<1> USE DEF Base, TypeOK
<1>1. PICK i \in Jobs : CallerStep(i) BY LockFrame, GuardFrame DEF apiVars
<1>2. PICK r : reply' = [reply EXCEPT ![i] = r]
      BY <1>1 DEF CallerStep, Create, Await, Submit, AdmitLock, CountActive, Insert,
         SeeResult, FailQueued, GiveUp, CallerLost, Return
<1>3. reply'[i] # reply[i] /\ reply' = [reply EXCEPT ![i] = reply'[i]]
      BY <1>2
<1>4. CASE reply'[i] \in {"unavailable", "busy", "error"} /\ UNCHANGED status
  <2>1. reply'[i] # "error" => status[i] = "absent"
        BY <1>3, <1>4, ReplyStep DEF Terminal
  <2>2. reply[i] = "none" BY <1>3, ReplyStep
  <2>3. Ledger!Refuse(i)
        BY <1>3, <1>4, <2>1, <2>2 DEF Ledger!Refuse, Ledger!Refusals
  <2>4. QED BY <2>3 DEF Ledger!LedgerNext
<1>5. CASE reply'[i] = status'[i] /\ status'[i] \in Terminal
  <2>1. \A j \in Jobs : \/ status'[j] = status[j]
                        \/ j \in ActiveJobs /\ status'[j] \in Terminal
    <3>1. ~Insert(i)
          BY <1>5 DEF Insert, Return, Terminal
    <3>2. QED BY <1>1, <3>1 DEF CallerStep, Create, Await, Submit, AdmitLock,
                 CountActive, SeeResult, FailQueued, GiveUp, CallerLost, rowVars,
                 FinishRow, Ended, ActiveJobs, Active, ActiveStatuses, Terminal
  <2>2. TypeOK' BY TypeStep
  <2>3. Ledger!EndSome
        BY <2>1, <2>2, OpenIsActive
        DEF Ledger!EndSome, Ledger!Ends, Terminal, ActiveStatuses
  <2>4. reply[i] = "none" BY <1>3, ReplyStep
  <2>5. Ledger!End
        BY <1>3, <1>5, <2>3, <2>4 DEF Ledger!End, Ledger!Ends, Terminal
  <2>6. QED BY <2>5 DEF Ledger!LedgerNext
<1>6. QED BY <1>3, <1>4, <1>5, ReplyStep

\* Through restarts, lost callers, late results and a lost worker lock, the
\* queue is an implementation of the ledger.
THEOREM QueueImplementsLedger == Spec => ImplementsLedger
<1>1. Init => Ledger!LedgerInit BY LedgerInitStep
<1>2. Base /\ Admission /\ Answers /\ [Next]_vars
          => [Ledger!LedgerNext]_(Ledger!ledgerVars)
      BY QuietRowsRefine, AnswersRefine
<1>3. Init => Answers
      BY DEF Init, Answers, AnsweredInv, ReplyMatchesRow, Terminal
<1>4. Spec => []Answers
      BY BaseHolds, <1>3, AnswersStep, PTL DEF Spec
<1>5. QED BY <1>1, <1>2, <1>4, BaseHolds, AdmissionHolds, PTL
          DEF Spec, ImplementsLedger, Ledger!LedgerSpec

=============================================================================
