---------------------------- MODULE SandboxQueue ----------------------------
(***************************************************************************)
(* The Postgres job queue between the API threads that call                *)
(* SandboxJobs.execute (src/juena_core/sandbox/jobs.py) and the worker     *)
(* process whose slots claim the jobs (worker.py) and run each in one      *)
(* container (executor.py).                                                *)
(*                                                                         *)
(* One statement or transaction is one step, except `create', whose three  *)
(* statements are three steps so that its two advisory locks matter.  Time *)
(* is the flag `stale': fifteen seconds have passed since created_at.      *)
(***************************************************************************)
EXTENDS Naturals, FiniteSets

CONSTANTS
    Jobs,           \* calls of execute, one fresh row id each
    Workspaces, Tenants, Runs,
    Workers,        \* worker processes; one identity per process ever started
    Slots,          \* slot threads of all those processes
    WorkspaceOf,    \* [Jobs -> Workspaces]
    TenantOf,       \* [Workspaces -> Tenants]
    RunOf,          \* [Jobs -> Runs \cup {None}], None: detached research
    WorkerOf,       \* [Slots -> Workers]
    Concurrency,    \* SANDBOX_CONCURRENCY, the same on both sides
    FileWorkspaces, \* workspaces whose files the API uses meanwhile
    ExitStatuses,   \* how a command may end by itself
    LockMayDrop,    \* may Postgres lose the worker's lock connection
    None

Terminal == {"completed", "failed", "timed_out", "cancelled"}
ActiveStatuses == {"queued", "running"}

Files == "files"

ASSUME QueueAssumption ==
    /\ WorkspaceOf \in [Jobs -> Workspaces]
    /\ TenantOf \in [Workspaces -> Tenants]
    /\ RunOf \in [Jobs -> Runs \cup {None}]
    /\ WorkerOf \in [Slots -> Workers]
    /\ Concurrency \in Nat \ {0}
    /\ FileWorkspaces \subseteq Workspaces
    /\ ExitStatuses \subseteq {"completed", "failed", "timed_out"}
    /\ LockMayDrop \in BOOLEAN
    /\ None \notin Jobs /\ None \notin Runs
    /\ None \notin Workers /\ None \notin Slots
    /\ Files \notin Jobs /\ Files # None
    /\ IsFiniteSet(Jobs)

VARIABLES
    status,     \* sandbox_jobs.status; "absent" before INSERT and after DELETE
    cancelReq,  \* sandbox_jobs.cancel_requested
    stale,      \* now > created_at + CLAIM_DEADLINE_SECONDS
    caller,     \* where the API thread of the job is in execute
    reply,      \* what execute returned
    admission,  \* holder of the admission transaction lock
    wsLock,     \* holder of a workspace's transaction lock: a create or "files"
    editing,    \* workspace_guard yielded True and its body has not ended
    workerLock, \* holder of the worker session lock
    phase,      \* where a worker process is in main and run
    pc,         \* where a slot thread is in _slot and executor.run
    holds,      \* the job a slot has claimed
    outcome,    \* ExecutionOutcome.status of that job
    execLock,   \* holder of a workspace's exclusive execution flock
    container   \* the managed container of a job

rowVars == <<status, cancelReq, stale>>
apiVars == <<caller, reply, admission>>
fileVars == <<wsLock, editing>>
workerVars == <<workerLock, phase>>
slotVars == <<pc, holds, outcome, execLock, container>>
vars == <<rowVars, apiVars, fileVars, workerVars, slotVars>>

Active(j) == status[j] \in ActiveStatuses
ActiveJobs == {j \in Jobs : Active(j)}
SameTenant(i, j) == TenantOf[WorkspaceOf[i]] = TenantOf[WorkspaceOf[j]]
Foreground(j) == RunOf[j] # None
Alive(k) == phase[k] \in {"locked", "swept", "serving", "stopping"}

\* status = CASE WHEN cancel_requested THEN 'cancelled' ELSE s END
Ended(j, s) == IF cancelReq[j] THEN "cancelled" ELSE s

TypeOK ==
    /\ status \in [Jobs -> ActiveStatuses \cup Terminal \cup {"absent"}]
    /\ cancelReq \in [Jobs -> BOOLEAN]
    /\ stale \in [Jobs -> BOOLEAN]
    /\ caller \in [Jobs -> {"idle", "admit", "count", "insert", "wait", "done"}]
    /\ reply \in [Jobs -> Terminal \cup {"none", "unavailable", "busy", "error"}]
    /\ admission \in Jobs \cup {None}
    /\ wsLock \in [Workspaces -> Jobs \cup {None, Files}]
    /\ editing \in [Workspaces -> BOOLEAN]
    /\ workerLock \in Workers \cup {None}
    /\ phase \in [Workers ->
           {"new", "locked", "swept", "serving", "stopping", "dead"}]
    /\ pc \in [Slots -> {"off", "idle", "armed", "claimed", "ready", "start",
                         "running", "remove", "report"}]
    /\ holds \in [Slots -> Jobs \cup {None}]
    /\ outcome \in [Slots -> Terminal \cup {"none"}]
    /\ execLock \in [Workspaces -> Slots \cup {None}]
    /\ container \in [Jobs -> {"none", "live", "removed"}]

Init ==
    /\ status = [j \in Jobs |-> "absent"]
    /\ cancelReq = [j \in Jobs |-> FALSE]
    /\ stale = [j \in Jobs |-> FALSE]
    /\ caller = [j \in Jobs |-> "idle"]
    /\ reply = [j \in Jobs |-> "none"]
    /\ admission = None
    /\ wsLock = [w \in Workspaces |-> None]
    /\ editing = [w \in Workspaces |-> FALSE]
    /\ workerLock = None
    /\ phase = [k \in Workers |-> "new"]
    /\ pc = [s \in Slots |-> "off"]
    /\ holds = [s \in Slots |-> None]
    /\ outcome = [s \in Slots |-> "none"]
    /\ execLock = [w \in Workspaces |-> None]
    /\ container = [j \in Jobs |-> "none"]

-----------------------------------------------------------------------------
(* The API thread: execute and create.                                     *)

Return(j, r) ==
    /\ caller' = [caller EXCEPT ![j] = "done"]
    /\ reply' = [reply EXCEPT ![j] = r]

\* worker_is_alive only reads pg_locks: it sees the lock, not who serves.
Submit(j) ==
    /\ caller[j] = "idle"
    /\ IF workerLock # None
          THEN /\ caller' = [caller EXCEPT ![j] = "admit"]
               /\ UNCHANGED reply
          ELSE Return(j, "unavailable")
    /\ UNCHANGED <<rowVars, admission, fileVars, workerVars, slotVars>>

\* Mutant: create without the workspace lock.
AdmitBesideFiles(j) ==
    /\ caller[j] = "admit"
    /\ admission = None
    /\ admission' = j
    /\ caller' = [caller EXCEPT ![j] = "count"]
    /\ UNCHANGED <<reply, wsLock, rowVars, editing, workerVars, slotVars>>

\* The admission lock is waited for, the workspace lock is tried.
AdmitLock(j) ==
    /\ caller[j] = "admit"
    /\ admission = None
    /\ IF wsLock[WorkspaceOf[j]] = None
          THEN /\ admission' = j
               /\ wsLock' = [wsLock EXCEPT ![WorkspaceOf[j]] = j]
               /\ caller' = [caller EXCEPT ![j] = "count"]
               /\ UNCHANGED reply
          ELSE /\ Return(j, "busy")
               /\ UNCHANGED <<admission, wsLock>>
    /\ UNCHANGED <<rowVars, editing, workerVars, slotVars>>

\* The end of create's transaction releases both of its locks.
EndCreate(j) ==
    /\ admission' = None
    /\ wsLock' = [wsLock EXCEPT ![WorkspaceOf[j]] = None]

\* Mutant: the capacity test off by one.
CountOneTooMany(j) ==
    /\ caller[j] = "count"
    /\ Cardinality(ActiveJobs) <= Concurrency
    /\ caller' = [caller EXCEPT ![j] = "insert"]
    /\ UNCHANGED <<reply, admission, wsLock, rowVars, editing, workerVars, slotVars>>

CountActive(j) ==
    /\ caller[j] = "count"
    /\ IF Cardinality(ActiveJobs) >= Concurrency
          THEN Return(j, "busy") /\ EndCreate(j)
          ELSE /\ caller' = [caller EXCEPT ![j] = "insert"]
               /\ UNCHANGED <<reply, admission, wsLock>>
    /\ UNCHANGED <<rowVars, editing, workerVars, slotVars>>

\* The partial unique indexes: one active row per tenant and per workspace.
Conflicts(j) ==
    \E i \in ActiveJobs : \/ SameTenant(i, j)
                          \/ WorkspaceOf[i] = WorkspaceOf[j]

Insert(j) ==
    /\ caller[j] = "insert"
    /\ IF Conflicts(j)
          THEN /\ Return(j, "busy")
               /\ UNCHANGED status
          ELSE /\ status' = [status EXCEPT ![j] = "queued"]
               /\ caller' = [caller EXCEPT ![j] = "wait"]
               /\ UNCHANGED reply
    /\ EndCreate(j)
    /\ UNCHANGED <<cancelReq, stale, editing, workerVars, slotVars>>

\* One poll of the row finds it ended.
SeeResult(j) ==
    /\ caller[j] = "wait"
    /\ status[j] \in Terminal
    /\ Return(j, status[j])
    /\ UNCHANGED <<rowVars, admission, fileVars, workerVars, slotVars>>

\* The claim deadline passed: fail_queued, whose UPDATE re-reads the status.
FailQueued(j) ==
    /\ caller[j] = "wait"
    /\ stale[j]
    /\ status[j] = "queued"
    /\ status' = [status EXCEPT ![j] = "failed"]
    /\ Return(j, "failed")
    /\ UNCHANGED <<cancelReq, stale, admission, fileVars, workerVars, slotVars>>

\* finish: only an active row changes, and a requested cancellation wins.
FinishRow(j, s) ==
    status' = IF Active(j) THEN [status EXCEPT ![j] = Ended(j, s)] ELSE status

\* Mutant: execute returns the record it last read.
GiveUpWithOldRecord(j) ==
    /\ caller[j] = "wait"
    /\ stale[j]
    /\ FinishRow(j, "failed")
    /\ Return(j, status[j])
    /\ UNCHANGED <<cancelReq, stale, admission, fileVars, workerVars, slotVars>>

\* Mutant: the result loop has no deadline of its own.
GiveUpWhenQueued(j) ==
    /\ caller[j] = "wait"
    /\ stale[j]
    /\ status[j] = "queued"
    /\ FinishRow(j, "failed")
    /\ Return(j, status'[j])
    /\ UNCHANGED <<cancelReq, stale, admission, fileVars, workerVars, slotVars>>

\* The result deadline passed: the loop ends and finish decides, whatever the
\* slot of the job is doing.
GiveUp(j) ==
    /\ caller[j] = "wait"
    /\ stale[j]
    /\ FinishRow(j, "failed")
    /\ Return(j, status'[j])
    /\ UNCHANGED <<cancelReq, stale, admission, fileVars, workerVars, slotVars>>

\* A database error or the end of the API process ends the call where it is;
\* an open transaction rolls back.
CallerLost(j) ==
    /\ caller[j] \in {"admit", "count", "insert", "wait"}
    /\ Return(j, "error")
    /\ IF caller[j] \in {"count", "insert"}
          THEN EndCreate(j)
          ELSE UNCHANGED <<admission, wsLock>>
    /\ UNCHANGED <<rowVars, editing, workerVars, slotVars>>

Expire(j) ==
    /\ Active(j)
    /\ ~stale[j]
    /\ stale' = [stale EXCEPT ![j] = TRUE]
    /\ UNCHANGED <<status, cancelReq, apiVars, fileVars, workerVars, slotVars>>

\* Mutant: cancel_run ends running rows as well.
CancelRunning(r) ==
    LET hit == {j \in ActiveJobs : RunOf[j] = r}
    IN  /\ hit # {}
        /\ cancelReq' = [j \in Jobs |-> cancelReq[j] \/ j \in hit]
        /\ status' = [j \in Jobs |-> IF j \in hit THEN "cancelled" ELSE status[j]]
        /\ UNCHANGED <<stale, apiVars, fileVars, workerVars, slotVars>>

\* cancel_run: queued rows end, running rows are only marked.
CancelRun(r) ==
    LET hit == {j \in ActiveJobs : RunOf[j] = r}
    IN  /\ hit # {}
        /\ cancelReq' = [j \in Jobs |-> cancelReq[j] \/ j \in hit]
        /\ status' = [j \in Jobs |->
               IF j \in hit /\ status[j] = "queued" THEN "cancelled" ELSE status[j]]
        /\ UNCHANGED <<stale, apiVars, fileVars, workerVars, slotVars>>

-----------------------------------------------------------------------------
(* File operations of the API: workspace_guard.                            *)

GuardLock(w) ==
    /\ wsLock[w] = None
    /\ wsLock' = [wsLock EXCEPT ![w] = Files]
    /\ UNCHANGED <<rowVars, apiVars, editing, workerVars, slotVars>>

\* The second statement looks for an active job; the body runs only without.
GuardCheck(w) ==
    /\ wsLock[w] = Files
    /\ ~editing[w]
    /\ IF \E j \in ActiveJobs : WorkspaceOf[j] = w
          THEN wsLock' = [wsLock EXCEPT ![w] = None] /\ UNCHANGED editing
          ELSE editing' = [editing EXCEPT ![w] = TRUE] /\ UNCHANGED wsLock
    /\ UNCHANGED <<rowVars, apiVars, workerVars, slotVars>>

GuardEnd(w) ==
    /\ editing[w]
    /\ editing' = [editing EXCEPT ![w] = FALSE]
    /\ wsLock' = [wsLock EXCEPT ![w] = None]
    /\ UNCHANGED <<rowVars, apiVars, workerVars, slotVars>>

-----------------------------------------------------------------------------
(* The worker process: main, run and the cleanup thread.                   *)

AcquireLock(k) ==
    /\ phase[k] = "new"
    /\ workerLock = None
    /\ workerLock' = k
    /\ phase' = [phase EXCEPT ![k] = "locked"]
    /\ UNCHANGED <<rowVars, apiVars, fileVars, slotVars>>

\* Another worker holds the lock: main returns 1.
LockRefused(k) ==
    /\ phase[k] = "new"
    /\ workerLock # None
    /\ phase' = [phase EXCEPT ![k] = "dead"]
    /\ UNCHANGED <<rowVars, apiVars, fileVars, workerLock, slotVars>>

RemoveAll(k) ==
    /\ phase[k] = "locked"
    /\ container' = [j \in Jobs |->
           IF container[j] = "live" THEN "removed" ELSE container[j]]
    /\ phase' = [phase EXCEPT ![k] = "swept"]
    /\ UNCHANGED <<rowVars, apiVars, fileVars, workerLock, pc, holds, outcome, execLock>>

\* fail_active, then the slot threads start.
FailActive(k) ==
    /\ phase[k] = "swept"
    /\ status' = [j \in Jobs |-> IF Active(j) THEN Ended(j, "failed") ELSE status[j]]
    /\ phase' = [phase EXCEPT ![k] = "serving"]
    /\ pc' = [s \in Slots |-> IF WorkerOf[s] = k THEN "idle" ELSE pc[s]]
    /\ UNCHANGED <<cancelReq, stale, apiVars, fileVars, workerLock,
                   holds, outcome, execLock, container>>

Stop(k) ==
    /\ phase[k] = "serving"
    /\ phase' = [phase EXCEPT ![k] = "stopping"]
    /\ UNCHANGED <<rowVars, apiVars, fileVars, workerLock, slotVars>>

\* The process ends: killed, a startup error, or after joining its threads for
\* thirty seconds each.  The slots are daemon threads: they end where they are,
\* the kernel drops their flocks, and their containers keep running.
Die(k) ==
    /\ Alive(k)
    /\ phase' = [phase EXCEPT ![k] = "dead"]
    /\ workerLock' = IF workerLock = k THEN None ELSE workerLock
    /\ pc' = [s \in Slots |-> IF WorkerOf[s] = k THEN "off" ELSE pc[s]]
    /\ holds' = [s \in Slots |-> IF WorkerOf[s] = k THEN None ELSE holds[s]]
    /\ outcome' = [s \in Slots |-> IF WorkerOf[s] = k THEN "none" ELSE outcome[s]]
    /\ execLock' = [w \in Workspaces |->
           IF execLock[w] \in {s \in Slots : WorkerOf[s] = k} THEN None ELSE execLock[w]]
    /\ UNCHANGED <<rowVars, apiVars, fileVars, container>>

\* Postgres ends the dedicated session; the process does not notice.
DropLock(k) ==
    /\ LockMayDrop
    /\ workerLock = k
    /\ workerLock' = None
    /\ UNCHANGED <<rowVars, apiVars, fileVars, phase, slotVars>>

FailStaleQueued(k) ==
    /\ phase[k] = "serving"
    /\ \E j \in Jobs : status[j] = "queued" /\ stale[j]
    /\ status' = [j \in Jobs |->
           IF status[j] = "queued" /\ stale[j] THEN "failed" ELSE status[j]]
    /\ UNCHANGED <<cancelReq, stale, apiVars, fileVars, workerVars, slotVars>>

\* cleanup deletes ended rows a day later, when no thread refers to them.
DeleteRow(k, j) ==
    /\ phase[k] = "serving"
    /\ status[j] \in Terminal
    /\ caller[j] = "done"
    /\ \A s \in Slots : holds[s] # j
    /\ status' = [status EXCEPT ![j] = "absent"]
    /\ UNCHANGED <<cancelReq, stale, apiVars, fileVars, workerVars, slotVars>>

-----------------------------------------------------------------------------
(* A slot thread: _slot, _execute and executor.run.                        *)

Workspace(s) == WorkspaceOf[holds[s]]

GoTo(s, l) == pc' = [pc EXCEPT ![s] = l]

Unlock(s) == execLock' = [execLock EXCEPT ![Workspace(s)] = None]

\* An exception leaves _slot: the thread ends and sets the stop event.
Fatal(s) ==
    /\ GoTo(s, "off")
    /\ holds' = [holds EXCEPT ![s] = None]
    /\ outcome' = [outcome EXCEPT ![s] = "none"]
    /\ phase' = [phase EXCEPT ![WorkerOf[s]] = "stopping"]

\* `while not stop.is_set()', read before each claim.
LoopTest(s) ==
    /\ pc[s] = "idle"
    /\ GoTo(s, IF phase[WorkerOf[s]] = "serving" THEN "armed" ELSE "off")
    /\ UNCHANGED <<rowVars, apiVars, fileVars, workerVars, holds, outcome,
                   execLock, container>>

Claimable(j) == status[j] = "queued" /\ ~cancelReq[j] /\ ~stale[j]

\* SKIP LOCKED passes over a row another statement holds, so the oldest is not
\* always the one taken: any claimable row may be.
Claim(s, j) ==
    /\ pc[s] = "armed"
    /\ Claimable(j)
    /\ status' = [status EXCEPT ![j] = "running"]
    /\ holds' = [holds EXCEPT ![s] = j]
    /\ GoTo(s, "claimed")
    /\ UNCHANGED <<cancelReq, stale, apiVars, fileVars, workerVars, outcome,
                   execLock, container>>

ClaimNothing(s) ==
    /\ pc[s] = "armed"
    /\ \A j \in Jobs : ~Claimable(j)
    /\ GoTo(s, "idle")
    /\ UNCHANGED <<rowVars, apiVars, fileVars, workerVars, holds, outcome,
                   execLock, container>>

\* Mutant: the execution flock is taken shared.
TakeWorkspaceShared(s) ==
    /\ pc[s] = "claimed"
    /\ execLock' = [execLock EXCEPT ![Workspace(s)] = s]
    /\ GoTo(s, "ready")
    /\ UNCHANGED <<rowVars, apiVars, fileVars, workerVars, holds, outcome, container>>

\* The blocking guard of executor.run.
TakeWorkspace(s) ==
    /\ pc[s] = "claimed"
    /\ execLock[Workspace(s)] = None
    /\ execLock' = [execLock EXCEPT ![Workspace(s)] = s]
    /\ GoTo(s, "ready")
    /\ UNCHANGED <<rowVars, apiVars, fileVars, workerVars, holds, outcome, container>>

\* The run is over with outcome o and the flock is released.
EndRun(s, o) ==
    /\ outcome' = [outcome EXCEPT ![s] = o]
    /\ GoTo(s, "report")
    /\ Unlock(s)
    /\ UNCHANGED <<rowVars, apiVars, fileVars, workerVars, holds>>

\* The check before the container exists; preparing the workspace may raise.
BeforeStart(s) ==
    /\ pc[s] = "ready"
    /\ \/ EndRun(s, "failed")
       \/ /\ Foreground(holds[s]) /\ cancelReq[holds[s]]
          /\ EndRun(s, "cancelled")
       \/ /\ ~(Foreground(holds[s]) /\ cancelReq[holds[s]])
          /\ GoTo(s, "start")
          /\ UNCHANGED <<rowVars, apiVars, fileVars, workerVars, holds,
                         outcome, execLock>>
    /\ UNCHANGED container

StartContainer(s) ==
    /\ pc[s] = "start"
    /\ container' = [container EXCEPT ![holds[s]] = "live"]
    /\ GoTo(s, "running")
    /\ UNCHANGED <<rowVars, apiVars, fileVars, workerVars, holds, outcome, execLock>>

\* create or start raises; the created container never ran, and removing it
\* may raise as well.
StartFails(s) ==
    /\ pc[s] = "start"
    /\ \/ EndRun(s, "failed")
       \/ /\ Fatal(s) /\ Unlock(s)
          /\ UNCHANGED <<rowVars, apiVars, fileVars, workerLock>>
    /\ UNCHANGED container

\* The polling loop ends: the command ended, the host deadline passed, the run
\* was cancelled, or a call raised.
WatchEnds(s) ==
    /\ pc[s] = "running"
    /\ \E o \in ExitStatuses \cup {"failed", "cancelled"} :
          /\ o = "cancelled" => Foreground(holds[s]) /\ cancelReq[holds[s]]
          /\ outcome' = [outcome EXCEPT ![s] = o]
    /\ GoTo(s, "remove")
    /\ UNCHANGED <<rowVars, apiVars, fileVars, workerVars, holds, execLock, container>>

\* The quota check or the artifact scan after the removal may still raise.
RemoveContainer(s) ==
    /\ pc[s] = "remove"
    /\ container' = [container EXCEPT ![holds[s]] = "removed"]
    /\ \E o \in {outcome[s], "failed"} : EndRun(s, o)

\* Mutant: the failed removal keeps the flock.
RemoveFailureLocked(s) ==
    /\ pc[s] = "remove"
    /\ Fatal(s)
    /\ UNCHANGED <<rowVars, apiVars, fileVars, workerLock, execLock, container>>

\* ContainerCleanupError: the row stays as it is and the worker stops.
RemoveFails(s) ==
    /\ pc[s] = "remove"
    /\ Fatal(s)
    /\ Unlock(s)
    /\ UNCHANGED <<rowVars, apiVars, fileVars, workerLock, container>>

Report(s) ==
    /\ pc[s] = "report"
    /\ FinishRow(holds[s], outcome[s])
    /\ GoTo(s, "idle")
    /\ holds' = [holds EXCEPT ![s] = None]
    /\ outcome' = [outcome EXCEPT ![s] = "none"]
    /\ UNCHANGED <<cancelReq, stale, apiVars, fileVars, workerVars, execLock, container>>

\* claim or finish raises a database error.
DatabaseFails(s) ==
    /\ pc[s] \in {"armed", "report"}
    /\ Fatal(s)
    /\ UNCHANGED <<rowVars, apiVars, fileVars, workerLock, execLock, container>>

-----------------------------------------------------------------------------
Create(j) == AdmitLock(j) \/ CountActive(j) \/ Insert(j)
Await(j) == SeeResult(j) \/ FailQueued(j) \/ GiveUp(j)
CallerStep(j) == Submit(j) \/ Create(j) \/ Await(j) \/ CallerLost(j)

GuardStep(w) == GuardLock(w) \/ GuardCheck(w) \/ GuardEnd(w)

Startup(k) == AcquireLock(k) \/ LockRefused(k) \/ RemoveAll(k) \/ FailActive(k)
WorkerStep(k) ==
    \/ Startup(k) \/ Stop(k) \/ Die(k) \/ DropLock(k) \/ FailStaleQueued(k)
    \/ \E j \in Jobs : DeleteRow(k, j)

SlotStep(s) ==
    \/ LoopTest(s) \/ ClaimNothing(s) \/ (\E j \in Jobs : Claim(s, j))
    \/ TakeWorkspace(s) \/ BeforeStart(s) \/ StartContainer(s) \/ StartFails(s)
    \/ WatchEnds(s) \/ RemoveContainer(s) \/ RemoveFails(s)
    \/ Report(s) \/ DatabaseFails(s)

Next ==
    \/ \E j \in Jobs : CallerStep(j) \/ Expire(j)
    \/ \E r \in Runs : CancelRun(r)
    \/ \E w \in FileWorkspaces : GuardStep(w)
    \/ \E k \in Workers : WorkerStep(k)
    \/ \E s \in Slots : SlotStep(s)

Spec == Init /\ [][Next]_vars

(* Every thread that can step does, and time passes.  Nothing restarts or   *)
(* stops a worker by itself, and no fairness is put on failures.            *)
Fairness ==
    /\ \A j \in Jobs : /\ WF_vars(Create(j))
                      /\ WF_vars(Await(j))
                      /\ WF_vars(Expire(j))
    /\ \A w \in FileWorkspaces : WF_vars(GuardCheck(w) \/ GuardEnd(w))
    /\ \A s \in Slots : WF_vars(SlotStep(s))

LiveSpec == Spec /\ Fairness

-----------------------------------------------------------------------------
(* What the queue promises.                                                *)

\* `create' counts under the admission lock, so concurrent admissions never
\* exceed SANDBOX_CONCURRENCY (test_queue_admission...: the second is busy).
Capacity == Cardinality(ActiveJobs) <= Concurrency

\* The partial unique indexes leave one active row per tenant and workspace.
OneActivePerTenant ==
    \A i, j \in ActiveJobs :
        SameTenant(i, j) \/ WorkspaceOf[i] = WorkspaceOf[j] => i = j

\* While the body of workspace_guard runs no job of the workspace is admitted:
\* the guard's lock and create's lock of the workspace exclude each other
\* across the two statements of the guard and the three of create.
GuardExcludesJobs ==
    \A w \in Workspaces, j \in ActiveJobs : editing[w] => WorkspaceOf[j] # w

\* A row is run by one slot: claiming, ending and sweeping never give a job to
\* a second slot (test_slot_claims_until_stopped_and_never_reruns).
ClaimedOnce ==
    \A s, t \in Slots : holds[s] = holds[t] /\ holds[s] # None => s = t

\* Under a worker that holds its lock and serves, a running row and a live
\* container belong to one of its slots: nothing an earlier process left and
\* nothing a failed slot left survives into a serving process.
ServingOwns ==
    \A k \in Workers, j \in Jobs :
        phase[k] = "serving" /\ workerLock = k =>
            /\ status[j] = "running" =>
                   \E s \in Slots : WorkerOf[s] = k /\ holds[s] = j
            /\ container[j] = "live" =>
                   \E s \in Slots : /\ WorkerOf[s] = k /\ holds[s] = j
                                    /\ pc[s] \in {"running", "remove"}

\* Two containers live in one workspace only if one of them is an orphan of a
\* failed removal or a dead worker: slots exclude each other by the flock even
\* when the row of the earlier job has been ended by its caller.
ContainersExclusive ==
    \A i, j \in Jobs :
        /\ container[i] = "live" /\ container[j] = "live"
        /\ WorkspaceOf[i] = WorkspaceOf[j]
        /\ \E s, t \in Slots : holds[s] = i /\ holds[t] = j
        => i = j

\* A row whose cancellation was requested runs or is cancelled: no late result
\* of a slot, sweep or deadline overwrites the cancellation.
CancelWins ==
    \A j \in Jobs : cancelReq[j] => status[j] \in {"running", "cancelled", "absent"}

\* What execute returned is what the row says for ever after.
ReplyMatchesRow ==
    \A j \in Jobs : reply[j] \in Terminal => status[j] \in {reply[j], "absent"}

\* Before its deadlines a row does not end while its container lives: neither a
\* cancellation nor the sweep of a new worker gives up a live container.
RowOutlivesContainer ==
    \A j \in Jobs : container[j] = "live" /\ ~Active(j) => stale[j]

Ledger == INSTANCE JobLedger WITH
    OwnerOf <- [j \in Jobs |-> TenantOf[WorkspaceOf[j]]],
    row <- status, answer <- reply

\* The queue, its worker and its restarts implement the ledger: no job beside
\* another of its tenant, no second run, no second end, and an answer that is
\* the recorded end.
ImplementsLedger == Ledger!LedgerSpec

\* "Running slots retain ownership until cleanup" (cancel_run), and
\* test_cleanup_failure_keeps_the_job_active_until_container_cleanup: an ended
\* row has no container any more.
ActiveUntilContainerCleanup ==
    \A j \in Jobs : container[j] = "live" => Active(j)

\* Every call of execute returns, whatever happens to workers.
CallersReturn ==
    \A j \in Jobs : caller[j] # "idle" ~> caller[j] = "done"

\* A slot that claimed a job lets go of it: its wait for the workspace's flock
\* and the run itself end.
SlotsLetGo ==
    \A s \in Slots : holds[s] # None ~> holds[s] = None
=============================================================================
