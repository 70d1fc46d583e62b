----------------------------- MODULE RunControl -----------------------------
(***************************************************************************)
(* One foreground run: the HTTP response that owns it                      *)
(* (server/streaming/own_task.py), the pump task in which the agent        *)
(* streams and is finalized (server/run_control.py), the Stop and Steer    *)
(* requests, the graph's model calls (agents/steering.py) and its          *)
(* synchronous sandbox threads (sandbox/backend.py).                       *)
(*                                                                         *)
(* The event loop runs one coroutine at a time, so a step of the pump      *)
(* reaches from one suspending await to the next.  stop() does not cancel  *)
(* the pump: it queues the cancellation, and one step of the pump that is  *)
(* queued already runs before it.                                          *)
(***************************************************************************)
EXTENDS Naturals

CONSTANTS
    Tools,            \* sandbox commands the graph may start, one thread each
    Instructions,     \* instruction ids the user may send
    GraphMayFail,     \* may the graph raise while its threads still run
    DatabaseMayFail   \* may a thread lose the database while its job is active

ASSUME RunAssumption ==
    /\ GraphMayFail \in BOOLEAN
    /\ DatabaseMayFail \in BOOLEAN

Terminal == {"completed", "paused", "cancelled", "failed"}
States == {"preparing", "running", "stopping", "finalizing"} \cup Terminal

\* Where the pump can be suspended, and how it ends.
Finalizing == {"sandbox", "counted", "reconcile", "discard", "inspect"}
Ended == {"done", "aborted"}

VARIABLES
    state, cancelled, cleanupFailed,   \* the RunControl fields
    failure,      \* RunControl.failure is set
    prepared,     \* RunControl.agent and config are set
    jobsKnown,    \* RunControl.sandbox_jobs is set
    completed,    \* the argument of finalize
    confirmed,    \* finalize's sandbox_confirmed
    active,       \* finalize's last count of active jobs is not zero
    saved,        \* _reconcile has written the delivery
    pump,         \* where the pump task is suspended
    cancelDue,    \* task.cancel: not queued, behind one pump step, or next
    response,     \* the response: streaming, waiting for the pump, overdue
    lease,        \* the conversation is reserved
    tool,         \* a sandbox thread
    job,          \* its row in sandbox_jobs
    mail,         \* an instruction's status in the mailbox
    inHistory,    \* the root graph's model history contains the instruction
    aside         \* unapplied_steering contains it

flags == <<state, cancelled, cleanupFailed, failure, prepared>>
final == <<completed, confirmed, active, saved>>
ends == <<response, lease>>
threads == <<jobsKnown, tool, job>>
steering == <<mail, inHistory, aside>>
vars == <<flags, final, pump, cancelDue, ends, threads, steering>>

Accepted == {i \in Instructions : mail[i] # "none"}
Applied == {i \in Instructions : mail[i] = "applied"}
Operations == {t \in Tools : tool[t] = "open"}
ActiveJobs == {t \in Tools : job[t] \in {"queued", "running"}}

TypeOK ==
    /\ state \in States
    /\ cancelled \in BOOLEAN /\ cleanupFailed \in BOOLEAN /\ failure \in BOOLEAN
    /\ prepared \in BOOLEAN /\ jobsKnown \in BOOLEAN /\ lease \in BOOLEAN
    /\ completed \in BOOLEAN /\ confirmed \in BOOLEAN /\ active \in BOOLEAN
    /\ saved \in BOOLEAN
    /\ pump \in {"new", "source", "unwind"} \cup Finalizing \cup Ended
    /\ cancelDue \in {"no", "behind", "next"}
    /\ response \in {"open", "closing", "overdue", "closed"}
    /\ tool \in [Tools -> {"idle", "thread", "named", "open", "gone", "lost"}]
    /\ job \in [Tools -> {"none", "queued", "running", "ended"}]
    /\ mail \in [Instructions -> {"none", "received", "applied"}]
    /\ inHistory \in [Instructions -> BOOLEAN]
    /\ aside \in [Instructions -> BOOLEAN]

Init ==
    /\ state = "preparing"
    /\ cancelled = FALSE /\ cleanupFailed = FALSE /\ failure = FALSE
    /\ prepared = FALSE /\ jobsKnown = FALSE
    /\ completed = FALSE /\ confirmed = FALSE /\ active = FALSE /\ saved = FALSE
    /\ pump = "new"
    /\ cancelDue = "no"
    /\ response = "open"
    /\ lease = TRUE
    /\ tool = [t \in Tools |-> "idle"]
    /\ job = [t \in Tools |-> "none"]
    /\ mail = [i \in Instructions |-> "none"]
    /\ inHistory = [i \in Instructions |-> FALSE]
    /\ aside = [i \in Instructions |-> FALSE]

-----------------------------------------------------------------------------
(* finalize.                                                               *)

\* Mutant: the outcome of a failed run is not one of the final states.
OutcomeError(paused) ==
    IF failure' THEN "error"
    ELSE IF cancelled' THEN "cancelled"
    ELSE IF paused THEN "paused" ELSE "completed"

\* Mutant: cancelled is looked at before failure.
OutcomeCancelledFirst(paused) ==
    IF cancelled' THEN "cancelled"
    ELSE IF failure' THEN "failed"
    ELSE IF paused THEN "paused" ELSE "completed"

\* The tail of finalize without an exception.
Outcome(paused) ==
    IF failure' THEN "failed"
    ELSE IF cancelled' THEN "cancelled"
    ELSE IF paused THEN "paused" ELSE "completed"

FinishAs(s) == state' = s /\ pump' = "done"

\* _reconcile suspends, unless the run never got an agent.
EnterReconcile ==
    IF prepared'
       THEN pump' = "reconcile" /\ state' = "finalizing"
       ELSE FinishAs(Outcome(FALSE))

\* finalize(c) from the pump, up to its first suspending await.  Without
\* sandbox_jobs _cancel_sandbox returns at once.
StartFinalize(c) ==
    /\ completed' = c
    /\ cancelled' = (cancelled \/ ~c)
    /\ confirmed' = (~cancelled' \/ ~jobsKnown)
    /\ IF confirmed' THEN EnterReconcile
                     ELSE pump' = "sandbox" /\ state' = "finalizing"
    /\ UNCHANGED <<cleanupFailed, active, saved>>

\* A step the pump takes by itself: not past a cancellation that is due, and
\* not against the repeated cancellation of an overdue response.
PumpStep ==
    /\ cancelDue # "next"
    /\ response # "overdue"
    /\ cancelDue' = IF cancelDue = "behind" THEN "next" ELSE "no"

\* One round of _cancel_sandbox: the count it returns is a snapshot ...
CancelJobs ==
    /\ pump = "sandbox"
    /\ PumpStep
    /\ job' = [t \in Tools |-> IF job[t] = "queued" THEN "ended" ELSE job[t]]
    /\ active' = (\E t \in Tools : job[t] = "running")
    /\ pump' = "counted"
    /\ UNCHANGED <<flags, completed, confirmed, saved, ends, jobsKnown, tool, steering>>

\* Mutant: the round looks at the rows alone.
ConfirmByRows ==
    /\ pump = "counted"
    /\ PumpStep
    /\ UNCHANGED <<cancelled, cleanupFailed, failure, prepared,
                   completed, active, saved, ends, threads, steering>>
    /\ IF ~active
          THEN confirmed' = TRUE /\ EnterReconcile
          ELSE pump' = "sandbox" /\ UNCHANGED <<confirmed, state>>

\* ... and the operations are read after it.
Confirm ==
    /\ pump = "counted"
    /\ PumpStep
    /\ UNCHANGED <<cancelled, cleanupFailed, failure, prepared,
                   completed, active, saved, ends, threads, steering>>
    /\ IF ~active /\ Operations = {}
          THEN confirmed' = TRUE /\ EnterReconcile
          ELSE pump' = "sandbox" /\ UNCHANGED <<confirmed, state>>

\* After the checkpoint is written, finalize looks for interrupts or ends.
AfterReconcile ==
    IF completed THEN pump' = "inspect" /\ UNCHANGED state
                 ELSE FinishAs(Outcome(FALSE))

\* What _reconcile writes first; a cancelled run still has its pending tasks.
SaveDelivery ==
    /\ pump = "reconcile"
    /\ PumpStep
    /\ saved' = TRUE
    /\ UNCHANGED <<cancelled, cleanupFailed, failure, prepared,
                   completed, confirmed, active, ends, threads, mail>>
    /\ IF cancelled THEN pump' = "discard" /\ UNCHANGED state
                    ELSE AfterReconcile

\* Mutant: unapplied instructions stay where before_model put them.
ReconcileInPlace ==
    /\ SaveDelivery
    /\ inHistory' = [i \in Instructions |-> inHistory[i] \/ i \in Applied]
    /\ aside' = [i \in Instructions |-> aside[i] \/ i \in Accepted \ Applied]

\* _reconcile: receipts of applied instructions go into the history, the
\* others leave it.
Reconcile ==
    /\ SaveDelivery
    /\ inHistory' = [i \in Instructions |-> i \in Applied]
    /\ aside' = [i \in Instructions |-> aside[i] \/ i \in Accepted \ Applied]

\* The second update: the pending tasks of a cancelled run are discarded.
Discard ==
    /\ pump = "discard"
    /\ PumpStep
    /\ UNCHANGED <<cancelled, cleanupFailed, failure, prepared,
                   final, ends, threads, steering>>
    /\ AfterReconcile

Inspect ==
    /\ pump = "inspect"
    /\ PumpStep
    /\ UNCHANGED <<cancelled, cleanupFailed, failure, prepared,
                   final, ends, threads, steering>>
    /\ \E paused \in BOOLEAN : FinishAs(Outcome(paused))

\* An exception or a deadline inside finalize: the lease is kept only if the
\* sandbox was not confirmed.
FinalizeFails ==
    /\ pump \in Finalizing
    /\ PumpStep
    /\ cleanupFailed' = ~confirmed
    /\ FinishAs("failed")
    /\ UNCHANGED <<cancelled, failure, prepared, final, ends, threads, steering>>

-----------------------------------------------------------------------------
(* The pump around the source, and what the source's items say.            *)

StartPump ==
    /\ pump = "new"
    /\ PumpStep
    /\ IF cancelled
          THEN UNCHANGED <<failure, prepared>> /\ StartFinalize(FALSE)
          ELSE pump' = "source" /\ UNCHANGED <<flags, final>>
    /\ UNCHANGED <<ends, threads, steering>>

\* agent and config are set, then check, then the state is running.
Prepare ==
    /\ pump = "source" /\ ~prepared /\ ~failure
    /\ PumpStep
    /\ prepared' = TRUE
    /\ UNCHANGED <<failure, ends, threads, steering>>
    /\ IF cancelled
          THEN StartFinalize(FALSE)
          ELSE state' = "running" /\ UNCHANGED <<cancelled, cleanupFailed, final, pump>>

\* An item is dropped once the run is cancelled; an error event marks the run.
Item ==
    /\ pump = "source"
    /\ PumpStep
    /\ UNCHANGED <<prepared, ends, threads, steering>>
    /\ IF cancelled
          THEN UNCHANGED failure /\ StartFinalize(FALSE)
          ELSE /\ \/ UNCHANGED failure
                  \/ (GraphMayFail \/ ~prepared) /\ failure' = TRUE
               /\ UNCHANGED <<state, cancelled, cleanupFailed, final, pump>>

\* The graph has ended by itself, with all its threads, or it failed and the
\* generator reported that as its last item: either way completed.
SourceEnds ==
    /\ pump = "source"
    /\ failure \/ (prepared /\ \A t \in Tools : tool[t] \in {"idle", "gone", "lost"})
    /\ PumpStep
    /\ UNCHANGED <<failure, prepared, ends, threads, steering>>
    /\ StartFinalize(TRUE)

SourceRaises ==
    /\ pump = "source"
    /\ PumpStep
    /\ failure' = TRUE
    /\ UNCHANGED <<prepared, ends, threads, steering>>
    /\ StartFinalize(FALSE)

\* The graph has unwound after the cancellation.
Unwound ==
    /\ pump = "unwind"
    /\ PumpStep
    /\ UNCHANGED <<failure, prepared, ends, threads, steering>>
    /\ StartFinalize(FALSE)

-----------------------------------------------------------------------------
(* Cancellation.                                                           *)

\* stop: call_soon_threadsafe(task.cancel).  The pump's first step is always
\* queued before it, a later one may be.
StopRun ==
    IF state \in {"preparing", "running"}
       THEN /\ state' = "stopping"
            /\ cancelled' = TRUE
            /\ \/ cancelDue' = "behind"
               \/ pump # "new" /\ cancelDue' = "next"
       ELSE UNCHANGED <<state, cancelled, cancelDue>>

\* The Stop request of the user.
Stop ==
    /\ StopRun
    /\ UNCHANGED <<cleanupFailed, failure, prepared, final, pump,
                   ends, threads, steering>>

\* The queued task.cancel: CancelledError at the await the pump is suspended
\* in.  The one that leaves finalize is caught by nothing.
DeliverCancel ==
    /\ cancelDue = "next"
    /\ cancelDue' = "no"
    /\ pump' = CASE pump = "source" -> "unwind"
                 [] pump \in Finalizing -> "aborted"
                 [] OTHER -> pump
    /\ UNCHANGED <<flags, final, ends, threads, steering>>

\* Mutant: the second cancellation spares a pump that is still unwinding.
CancelAgainFinalizing ==
    /\ response = "overdue"
    /\ pump \in Finalizing /\ pump' = "aborted" /\ UNCHANGED <<flags, final>>
    /\ UNCHANGED <<cancelDue, ends, threads, steering>>

\* Past the deadline the wait is cancelled again and again, and gather passes
\* that on to the pump until it ends.
CancelAgain ==
    /\ response = "overdue"
    /\ \/ pump \in {"source", "unwind"} /\ UNCHANGED <<failure, prepared>>
          /\ StartFinalize(FALSE)
       \/ pump \in Finalizing /\ pump' = "aborted" /\ UNCHANGED <<flags, final>>
    /\ UNCHANGED <<cancelDue, ends, threads, steering>>

-----------------------------------------------------------------------------
(* The response.                                                           *)

\* The body ends: at _DONE, at an _ERROR, or because the client has left.
LeaveStream ==
    /\ response = "open"
    /\ response' = "closing"
    /\ IF pump \in Ended THEN UNCHANGED <<state, cancelled, cancelDue>> ELSE StopRun
    /\ UNCHANGED <<cleanupFailed, failure, prepared, final, pump,
                   lease, threads, steering>>

\* cleanup_seconds have passed; the queued cancellation is long delivered.
Overdue ==
    /\ response = "closing"
    /\ pump \notin Ended
    /\ pump # "new" /\ cancelDue = "no"
    /\ response' = "overdue"
    /\ UNCHANGED <<flags, final, pump, cancelDue, lease, threads, steering>>

\* on_close, after the pump has ended.
Release ==
    /\ response \in {"closing", "overdue"}
    /\ pump \in Ended
    /\ response' = "closed"
    /\ lease' = cleanupFailed
    /\ UNCHANGED <<flags, final, pump, cancelDue, threads, steering>>

-----------------------------------------------------------------------------
(* The graph, its instructions and its threads.                            *)

\* A node of the graph runs, and its middleware's check passes.
GraphRuns == pump = "source" /\ prepared /\ ~failure /\ ~cancelled

\* steer: a known id changes nothing, a new one needs a running response.
Steer(i) ==
    /\ state = "running"
    /\ mail[i] = "none"
    /\ mail' = [mail EXCEPT ![i] = "received"]
    /\ UNCHANGED <<flags, final, pump, cancelDue, ends, threads, inHistory, aside>>

\* before_model of the root graph.
BeforeModel ==
    /\ GraphRuns
    /\ inHistory' = [i \in Instructions |-> inHistory[i] \/ i \in Accepted]
    /\ UNCHANGED <<flags, final, pump, cancelDue, ends, threads, mail, aside>>

\* The model call of a graph is about to be made with these instructions: the
\* root's are the ones in its history, a specialist has a history of its own.
ModelCall(sent) ==
    /\ GraphRuns
    /\ mail' = [i \in Instructions |-> IF i \in sent THEN "applied" ELSE mail[i]]
    /\ UNCHANGED <<flags, final, pump, cancelDue, ends, threads, inHistory, aside>>

RootModelCall == ModelCall({i \in Instructions : inHistory[i]})
SpecialistModelCall == \E sent \in SUBSET Accepted : ModelCall(sent)

ToolStarts(t) ==
    /\ GraphRuns
    /\ tool[t] = "idle"
    /\ tool' = [tool EXCEPT ![t] = "thread"]
    /\ UNCHANGED <<flags, final, pump, cancelDue, ends, jobsKnown, job, steering>>

NameJobs(t) ==
    /\ tool[t] = "thread"
    /\ tool' = [tool EXCEPT ![t] = "named"]
    /\ jobsKnown' = TRUE
    /\ UNCHANGED <<flags, final, pump, cancelDue, ends, job, steering>>

\* operation: check and count under one lock.
EnterOperation(t) ==
    /\ tool[t] = "named"
    /\ tool' = [tool EXCEPT ![t] = IF cancelled THEN "gone" ELSE "open"]
    /\ UNCHANGED <<flags, final, pump, cancelDue, ends, jobsKnown, job, steering>>

\* The thread goes on whatever has become of the graph that started it.
CreateJob(t) ==
    /\ tool[t] = "open"
    /\ job[t] = "none"
    /\ job' = [job EXCEPT ![t] = "queued"]
    /\ UNCHANGED <<flags, final, pump, cancelDue, ends, jobsKnown, tool, steering>>

\* The worker's side, seen from here.
JobMoves(t) ==
    /\ \/ job[t] = "queued" /\ job' = [job EXCEPT ![t] = "running"]
       \/ job[t] \in {"queued", "running"} /\ job' = [job EXCEPT ![t] = "ended"]
    /\ UNCHANGED <<flags, final, pump, cancelDue, ends, jobsKnown, tool, steering>>

\* Refused, answered, or a database error while the row is still active.
LeaveOperation(t) ==
    /\ tool[t] = "open"
    /\ \/ job[t] \in {"none", "ended"} /\ tool' = [tool EXCEPT ![t] = "gone"]
       \/ /\ DatabaseMayFail /\ job[t] \in {"queued", "running"}
          /\ tool' = [tool EXCEPT ![t] = "lost"]
    /\ UNCHANGED <<flags, final, pump, cancelDue, ends, jobsKnown, job, steering>>

-----------------------------------------------------------------------------
Finalize ==
    CancelJobs \/ Confirm \/ Reconcile \/ Discard \/ Inspect \/ FinalizeFails
Pump == StartPump \/ Prepare \/ Item \/ SourceEnds \/ SourceRaises \/ Unwound
Respond == LeaveStream \/ Overdue \/ Release
Model == BeforeModel \/ RootModelCall \/ SpecialistModelCall
Thread(t) ==
    \/ ToolStarts(t) \/ NameJobs(t) \/ EnterOperation(t) \/ CreateJob(t)
    \/ JobMoves(t) \/ LeaveOperation(t)

Next ==
    \/ Pump \/ Finalize
    \/ Stop \/ DeliverCancel \/ CancelAgain
    \/ Respond
    \/ \E i \in Instructions : Steer(i)
    \/ Model
    \/ \E t \in Tools : Thread(t)

Spec == Init /\ [][Next]_vars

(* The event loop runs what is ready and its timers fire.  Nothing is        *)
(* assumed of the graph, of the sandbox, or of the client.                   *)
Fairness ==
    /\ WF_vars(StartPump) /\ WF_vars(cancelDue = "behind" /\ Pump)
    /\ WF_vars(DeliverCancel) /\ WF_vars(CancelAgain)
    /\ WF_vars(Overdue) /\ WF_vars(Release)

LiveSpec == Spec /\ Fairness

-----------------------------------------------------------------------------
(* What a run promises.                                                    *)

\* "Only unconfirmed execution cleanup retains the lease": once the lease of a
\* cancelled run is released after finalize, no thread of the run is in an
\* operation and no job of it is active, but for those of a thread that had
\* lost the database.
ReleasedQuiet ==
    ~lease /\ cancelled /\ pump = "done" =>
        /\ Operations = {}
        /\ \A t \in ActiveJobs : tool[t] = "lost"

\* When the delivery is saved, an accepted instruction is either applied and in
\* the model's history, or not applied, set aside, and out of that history,
\* even if before_model had put it there (run_control.py's comment on Stop).
SteeringSettled ==
    saved => \A i \in Accepted : /\ inHistory[i] <=> i \in Applied
                                 /\ aside[i] <=> i \notin Applied

\* The state only advances: a stop request is not undone by preparation, an end
\* is not undone by anything.
Rank(s) == CASE s = "preparing" -> 0 [] s = "running" -> 1 [] s = "stopping" -> 2
             [] s = "finalizing" -> 3 [] OTHER -> 4
StateAdvances ==
    [][state' # state => Rank(state') > Rank(state)]_vars

\* A run that is reported as completed or paused was neither stopped nor did it
\* fail, and a cancelled one was: the outcome does not depend on how a stop and
\* the end of the graph are interleaved.
TruthfulOutcome ==
    /\ state \in {"completed", "paused"} => ~cancelled /\ completed /\ ~failure
    /\ state = "cancelled" => cancelled /\ ~failure

\* A response that is no longer read ends, however slowly the graph unwinds
\* (test_a_slow_cleanup_cannot_hold_the_response_past_its_deadline).
ResponseEnds == response # "open" ~> response = "closed"

\* "A streamed agent run that is always stopped cleanly, however its response
\* ends": the pump does not end without having finished the run.
AlwaysStoppedCleanly == pump \in Ended => state \in Terminal

\* The run as the rest of the server sees it: an aborted pump is a finalization
\* that was abandoned.
Ledger == INSTANCE RunLedger WITH
    stage <- IF pump = "aborted" THEN "abandoned"
             ELSE IF state = "preparing" THEN "running" ELSE state,
    stopped <- cancelled /\ pump \notin Ended,
    leased <- lease

\* Pump, response, threads and deadlines together implement the ledger of runs:
\* a stop is never forgotten, an outcome never revised, and the lease goes back
\* only after an outcome or an abandoned finalization.
ImplementsRuns == Ledger!LedgerSpec

\* "Finalization waits for these operations."
FinalizationWaits == pump = "done" /\ ~cleanupFailed => Operations = {}

\* "Confirm termination": a confirmed cancelled run has no active job.
TerminationConfirmed == cancelled /\ confirmed => ActiveJobs = {}
=============================================================================
