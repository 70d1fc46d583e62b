# juena-core: verification project

juena-core is a chat server for LangGraph agents.  An API process streams agent
runs to clients; agents may run shell commands, which a separate worker process
executes in containers; both share a PostgreSQL database and a workspace
directory.  This directory holds TLA+ modules of the parts whose correctness
depends on the order of events, TLC configurations that check them on small
instances, and proofs for every value of the constants.

Paths below are relative to `src/src/juena_core/` unless they begin with `src/`.

## Inventory

| part | state it keeps | operations | what is hard, and what makes it correct |
| --- | --- | --- | --- |
| Sandbox job queue (`sandbox/jobs.py`, `models.py`) | table `sandbox_jobs`, three kinds of advisory locks | `create`, `execute`, `workspace_guard`, `claim`, `finish`, `cancel_run`, `fail_active`, `fail_stale_queued`, `fail_queued`, `cleanup` | API threads, slots and sweeps race on one row; a job is admitted within the capacity, runs once, ends once, a cancellation wins, and the answer is the recorded end |
| Sandbox worker (`sandbox/worker.py`) | worker lock, stop event, slot threads | `main`, `run`, `_slot`, `_execute`, `_cleanup` | death, restart, a lost lock, a failed slot; nothing of an earlier process survives into a serving one |
| Executor (`sandbox/executor.py`) | containers, the workspace's flocks | `run`, `_remove`, `remove_all` | cancellation and failure between start and removal; one container per workspace |
| Foreground run (`server/run_control.py`, `streaming/own_task.py`, `agents/steering.py`) | `RunControl`, the pump task, the response, the conversation's lease | `steer`, `stop`, `operation`, `finalize`, `run_in_own_task` | a stop, the end of the graph, a leaving client and deadlines in any order; the conversation is released only when its sandbox is quiet, instructions are delivered exactly as reported, the response ends |
| Conversation lifecycle (`server/api/endpoints.py`, `chat/repository.py`) | `ThreadActivity`, chat rows, leases | reserve, authorize, run, delete | deletion against runs and file operations, partial deletion |
| Conversation filesystem (`filesystem/`) | files, `.usage`, `.paused`, tombstones, three flocks per workspace | guard, put, upload, stage, delete, expire, save with revision | two processes on one directory, deaths between two renames, stale snapshots; the usage covers the files, the quota holds, no write replaces what its writer has not seen, the inputs of a turn stay |
| Artifact store (`artifacts.py`) | records on disk, the pending window of a turn, its events | register, peek, drain, claim, begin turn | limits per turn, replacement by path, tools that publish late; the answer carries the latest results of its turn, and the live page the same |
| A specialist's run (`agents/loop_guard.py`, `specialist_outcome.py`, `specialist_runtime.py`) | message history, tool budget, structured response | refuse repeats, stop, remind, force the report, fail closed | counting over histories with parallel calls; it always can report, and ends with a report or a reason |
| Delegation (`agents/delegation.py`, `findings.py`, `backends.py`) | the `files' channel of supervisor and specialist | attach the user's message, seed, delta, create, edit | delegations that run together; inherited copies take nothing back |
| Stream path (`server/streaming/processor.py`, `server/interrupts.py`, `clients/base.py`, `ui/run_stream.py`, `ui/streaming.py`) | seen ids, the response, a reader thread's buffer, cards and transcript of the page | process events, read, drain, book the end, answer, stop | a thread against reruns of a page, lost connections, replayed messages; every message once, an unconfirmed end is told, the response unmounts |
| API process (`server/service.py`, `agent/registry.py`, `database/`, `sandbox/runtime.py`) | lifespans, cache of agents with a lock per id, the job queue | boot, `get_agent`, `get_sandbox_jobs`, shutdown | concurrent first requests, cancelled and failing builds, order of closing |
| Rendering, other client calls, configuration, providers, MCP, tracing | none of their own | HTTP, layout, wiring | outside a model's interest |

How they interact: an endpoint reserves the conversation and takes its file
lease, then a response owns one run; the run's graph starts tool threads; a
tool thread calls `SandboxJobs.execute`, which inserts a row and polls it; a
slot of the worker claims the row, locks the workspace, runs the container and
reports into the row; the run's finalization cancels the rows of its run id and
waits until they have ended; then the lease goes back.  Meanwhile the supervisor
delegates to specialists, whose tools write files and register artifacts; the
processor turns the graph's events into frames, a reader thread of the browser
session buffers them, and the page draws the buffer and books the end.

## Modules

| module | models | kind |
| --- | --- | --- |
| `JobLedger` | what a caller of the sandbox may rely on | abstract specification |
| `SandboxQueue` | `jobs.py`, `worker.py`, `executor.py` | detailed specification, implements `JobLedger` |
| `MCSandboxQueue` | instances for TLC | model |
| `SandboxQueueProofs` | theorems about `SandboxQueue` | proofs |
| `RunLedger` | what the rest of the server may rely on of the runs of a conversation | abstract specification |
| `RunControl` | `run_control.py`, `own_task.py`, `steering.py`, the ends of the generators in `endpoints.py` | detailed specification, implements `RunLedger` |
| `RunControlProofs` | theorems about `RunControl` | proofs |
| `ThreadLifecycle` | one conversation across `endpoints.py`, `chat/`, `filesystem/`, with the sandbox and tool threads as far as they touch it | composition of components |
| `MCThreadLifecycle` | its instance for TLC | model |
| `ThreadLifecycleProofs` | theorems about `ThreadLifecycle` | proofs |
| `WorkspaceStore`, `MCWorkspaceStore` | `filesystem/` and everyone who writes: tools, editors, runs (`chat/inputs.py`), the sandbox command, the sweep | composition of components, and its instance |
| `WorkspaceStoreProofs` | theorems about `WorkspaceStore` | proofs |
| `SpecialistRun`, `MCSpecialistRun` | `loop_guard.py`, `specialist_outcome.py`, the nesting of `specialist_runtime.py` | detailed specification, and its instance |
| `SpecialistRunProofs` | theorems about `SpecialistRun` and about `FindingsHandoff`, which it extends as well | proofs |
| `TurnArtifacts`, `MCTurnArtifacts` | `artifacts.py` with the tools, specialists, stream and answer that use it | composition of components, and its instance |
| `TurnArtifactsProofs` | theorems about `TurnArtifacts` | proofs |
| `StreamPath` | `processor.py`, `interrupts.py`, `clients/base.py`, `run_stream.py`, `ui/streaming.py`, with the run reduced to its frames | composition of components, implements `RunLedger` |
| `FindingsHandoff` | `delegation.py`, `findings.py`, `backends.py` | detailed specification |
| `AgentService` | `service.py`, `registry.py`, `database/`, the queue of `sandbox/runtime.py` | composition of components |
| `AgentServiceProofs` | theorems about `AgentService` and about `StreamPath`, which it extends as well | proofs |
| `DataTheorems` | what these proofs need to know of numbers, finite sets, sums and sequences | lemmas |

`PROJECT.json` (`map`) gives the lines each definition stands for.  Definitions
that begin with the comment *Mutant* are faulty variants of a later definition;
nothing refers to them, and substituting one must break the property named
beside it in `PROJECT.json` (`mutants`).

### SandboxQueue

One row of `sandbox_jobs` is `status[j]`, `cancelReq[j]` and the flag
`stale[j]`: the claim deadline has passed.  `stale` is the only clock; the
result deadline of `execute`, which is later, is allowed from the same moment,
so the model has every order of deadlines the program has and more.  A call of
`execute` is `caller[j]` with its answer in `reply[j]`: `Submit` reads the worker
lock, `AdmitLock`, `CountActive` and `Insert` are the three parts of `create`
under `admission` and `wsLock`, then it polls: `SeeResult`, `FailQueued`, `GiveUp`
(the code after the loop).  A row can end between the poll and the decision,
because `FailQueued` and `GiveUp` evaluate the UPDATE's own condition.

File operations of the API are `GuardLock`, `GuardCheck`, `GuardEnd`.  The guard
whose lock is refused and the one that finds a job both yield False and run no
body; the first changes nothing and has no step.

A worker process is `phase[k]`.  `Die` covers kill, an error during startup and
the normal end, because slot threads are daemons that `main` joins for thirty
seconds only.  `DropLock` is the loss of the dedicated connection, which the
process does not notice.  A slot is `pc[s]`, `holds[s]`, `outcome[s]`; its flock is
`execLock`, its container `container[j]`.  `Fatal` is an exception that leaves `_slot`.

### RunControl

The pump task is one variable, `pump`, the await in which it is suspended:
`source` (the agent streams), `unwind` (the graph's cleanup after a cancellation),
`sandbox` and `counted` (`_cancel_sandbox`), `reconcile` and `discard` (the two updates of
the checkpoint that `_reconcile` makes for a cancelled run; the second can fail or be
cancelled after the first), `inspect`, then `done` or, if a CancelledError has left
finalize, `aborted`.  Everything between two suspending
awaits is one action, because the event loop runs one coroutine at a time; the
tool threads are not bound by that and step at any time.  `cancelDue` is the
cancellation that `stop` has queued: in asyncio it is a callback behind whatever
is ready already, so at most one step of the pump comes first (`behind`).  Once
the response is `overdue`, the wait is cancelled on every turn of the loop and
`gather` passes that on, so the pump makes no step of its own any more.

A tool thread is `tool[t]`: started by the graph, `named` once `sandbox_jobs` is set,
`open` inside `operation`, `gone` or, after a database error with an active row,
`lost`.  Its row is `job[t]`, and the worker moves it on freely (`JobMoves`), which is
the part of `SandboxQueue` that `cancel_run` can see.  An instruction is `mail[i]`, its
presence in the root graph's history `inHistory[i]`, and in `unapplied_steering`
`aside[i]`.  A specialist's own history is not kept: its model call may contain any
accepted instruction.

`RunLedger` is what is left of a run when pump, response, threads and deadlines are
taken away: `Begin`, `Halt`, `Finalize`, `End`, `Abandon`, `Release` over a stage, whether
the run under way was stopped, and the lease.  Under the mapping of `RunControl!Ledger`
`preparing` counts as running, and a pump that a CancelledError took out of finalize as
an abandoned run, whatever its state still says.

Left out: the queue of items, the texts, `RunRegistry`'s eviction of finished runs,
the repair of unanswered tool calls in `_reconcile`, and the branch of
`run_in_own_task` for a pump that has not ended after the wait, which `gather` rules
out (`src/tests/test_own_task.py`, a slow cleanup: nothing is left running).

### ThreadLifecycle

Where a request is, is `pc[q]`; the place tells what it holds.  A run, a resume
and a `POST /chats` share the places of `_reserve_authorized_thread` and
`create_chat`: `reserved`, `leased` (the shared operation flock), `checked` (no
tombstone), `found` or `missing` (the row was read; the commit is another step, so a
row can go in between), then `working` and `streaming`, which last until the
response is closed.  A save is `locked`, `owned`, `quiet`; a deletion `reserved`,
`guarded`, `quiet`, `recheck`, `marked`, `unowned` (inside rmtree, after `.owner`
went), `unfiled`, `forgotten`, `bare`, `deleted`.  Every place can fail
(`SetupFails`, `VisitFails`, `TreeFails`, `DeleteFails`), and a process can die at
any of them (`Crash`).

The operation flock of `WorkspaceStore` is held exactly at certain places, so it is
no variable: `SharedHolders` and `ExclusiveHolders` are read off `pc`.  The reservations
of `ThreadActivity` are variables, because whether they agree with the places is a
question (`ReservationsExact`).  `filesystem` and `controls` say how the application is
built, with or without a conversation filesystem and run controls; they are chosen
at the start and never change.  Without a filesystem the workspace is that of
`stage_runtime_inputs` and `delete_runtime_workspace` under `workspace_guard`.

A tool thread that outlives its run leaves the request in `abandoned`: it can still
submit a command, write a file or register an artifact.  The worker is `listed` (a
row is active) and `command` (what a slot does with it); `SandboxQueue` has the
detail.  `files` is `ownerless` when `.owner` is gone and the directory is not.  A run
whose cleanup failed keeps its lease, which is a run that stays `streaming`;
`RunControl` decides which.  `prior[d]` is the marker a failed rmtree restores.

Left out: a second command of the conversation behind the first, the files lock
(shared readers, one writer) inside an operation, the pause marker (both are
`WorkspaceStore`'s), and a DELETE whose task is cancelled while its thread goes on.

### WorkspaceStore

A writer (a tool call, a browser editor, a run) is `pc[w]`; inside `put` it is
`admitted`, `written` and `replaced`, so that a death can fall between the sum, the
temporary file, the rename and the record of the usage.  Locks are read off the
places (`FilesFree`, `ExclusiveFree`, `OperationFree`), because the kernel gives them
back when their holder dies.  `file[p]` is a content, `temp[w]` the temporary a dead
writer leaves, `usage` and `paused` the two marker files.  A run begins a turn
(`StartTurn`), uploads the batch and undoes it when a later file fails
(`Undoing`), stages its inputs by two renames (`Staging`), streams, and reads the
interrupt before it writes the marker.  The sweep is `cleanup_expired`: a
snapshot of the active workspaces, the two locks, the checks, the removal.

The sandbox command is two things that can part: its row, active while `listed`,
which is all that `assert_idle`, staging and the sweep's snapshot see, and its slot,
`command`: claimed, under the locks, between its two measurements running, which
changes any file in one step.  `EndRow` is the caller's own end of the row, possible
wherever the slot is.  `asker` is the turn that asked for the command and relies on
its inputs; a thread that outlived its run asks for none, and a caller that ends the
row before the slot has its locks, or after a death lost them, gives that up.
`tainted` and `adrift` are history variables: a worker died between the start of a
container and the end of its command, and the row of such a container was then
ended by its caller.

Left out: the age of a directory (the sweep may come at any time, which allows
more), migration and aliases of old paths, listings and downloads, the path
without a conversation filesystem, publication of artifacts (`TurnArtifacts`),
tombstones (`ThreadLifecycle`), a second command that is admitted once the row of
the first was ended (the flock keeps it behind the first: `ContainersExclusive`), and
the API's own hourly call of `cleanup_expired` (`filesystem/service.py:43-51`), which
takes the same locks as the worker's and dies with another process.

### SpecialistRun

`msgs` is the history of the run, a call is its signature, and `place` the node of
the agent's loop that comes next.  `BeforeModel` is the chain of before_model hooks
(a correction by the user first, then the repetition guard), `ModelAnswers` and
`ModelReports` the model with the tools `ReportOnly` leaves it and the after_model
hooks in reverse order, `RunTools` the limit, the guard and the tools, `AfterAgent` the
exit.  The limit lets the first calls of a message through (`Allowed`), a refused or
limited call gets a result like any other.

`LimitsAssumption` has `MaxParallel + MaxMalformed <= Reserve`: the code does not bound
the calls of one message or the retries of a report, and with more of either
`ReportFits` fails.  `_previous_signature` looks past human messages, as the model
does, so a correction between a call's answer and its first refusal is counted
through; one between two refusals starts the count anew (`StopIsTruthful`).  Left out: a report together with other calls, `ask_user`, summarization.

### TurnArtifacts

An artifact is its position in `stored`; `window` is `_PendingTurn` with its counters,
`events` what the stream has not drained.  A tool writes under the files lock and
registers later (`held`), a command runs, then its outputs are read and registered
one by one (`reading`); both may outlive the run (`hold[t].turn`).  A command's result can
be lost on its way back: the call ends before the command, by its own deadline, a
failed look at the row or the death of the API, and the command goes on unseen
(`CallGivesUp`, `StrayRuns`, `Restart`), or the result of a command that has run does
not arrive (`ResultLost`: an exception of the worker after it, a cancelled row, the
sweep of a new worker, an exception in the call).  `lost` has the versions of both
kinds, `astray` the calls of the first.  `delegate[s]` is
what a specialist's middleware noted when it began, `reported[s]` what its report
lists.  `told` records which versions somebody was told are not delivered.  `Abort`
is a run that ends without its answer, `Restart` the loss of the window with the
process.

Left out: files, their index and the reading API; a missing window is an empty
one; a disk failure counts as a file of size 0, which is refused.  A specialist
works once a turn.  Seen while modelling, and not promised anywhere: specialists
that work in parallel list each other's artifacts as their own, `peek_undelivered`
repeats its notices, and nothing but a test calls `drain_undelivered`.

### StreamPath

The run is `RunControl`'s, reduced to what it sends and leaves in the checkpoint: `run` is
its state and `leased` the reservation of the conversation, which refuses the next
request (`Refuse`) until `Release`.  `Finalize`, `FinalizeFails` and `Stop` are one step
each; `Abandon` is the pump that a cancellation takes out of finalize, before or after
the checkpoint is settled, and that sends neither outcome nor end.  That this reduction
promises what `RunControl` does is `ImplementsRuns`, which both modules have: each
implements `RunLedger`.  `wire` is the response in flight, `reader` and
`buffer` the controller of the browser session, `page` where the fragment is: the
drain (`Draw`), the look at the reader (`Wait`, `Finish`, `PressStop`) and the answer of a
Stop request are steps of their own, since the reader thread runs beside them.
`Cut` loses the frames in flight and is noticed, `Truncate` ends the body early as if
it were whole, `Silence` is a connection that is lost and never closed or reset, on
which the reader waits for ever, because reads have no timeout
(`clients/base.py:159-172`).  `NewSession` is a reload, which reads the history.  `confirmed` is a history
variable: a final state of this run came in a frame or as the answer to Stop.

The page is an application's; the model has the one `ui/` is written for, which
shows the composer or a card only while no response is mounted.  (A click while
the reader is active would make `controller.start` raise after the card and the
decision were stored.)  `Truncate` is not combined with Stop, whose answer is
then the only news of the run.  Left out: parallel questions, statuses and
artifacts, Stop requests and look-ups that fail (they change nothing), duplicate
terminal frames.  A partial answer and the message it was part of can both be in
a transcript, since only a message has an id.  The fragment takes `controller.run` at
`ui/streaming.py:1032` and asks whether the reader is active at 1079; `Notes` reads
the state at the second place, so the code may note the state before the last
snapshot.  No property reads which of the two is noted.

### FindingsHandoff

`files` is the supervisor's channel, a version per path; a call of `task` is `status[c]`,
what it was given `sent[c]`, the specialist's channel `own[c]`, the user's message in its
brief `brief[c]`.  The calls of one answer start together (`Delegate`) and are merged in
one step (`Merge`): of the calls that return a path (`Outbound`, which is `findings_delta`)
the last in order gives the file.
`Create`, `Edit` and `Park` are what the backends allow a specialist, `ParkHistory`
what they allow the supervisor; `Retry` begins a raised delegation again from what
was sent.  `wrote[c]` is a history variable.  Left out: the staged inputs, which only
go in, the report's text, results of background research.

### AgentService

`phase` is how far the lifespans have come: `opening` and `setup` are the pool and the
savers, `seeding` the row of a fixed principal, `entering` the lifespans of the
application, then `serving`, `unwinding`, `stopping` (`shutdown_agents`, one instance a
step) and `closing`.  A request for an agent is `pc[r]`; the `asyncio.Lock` of an agent
is `holder[a]` and `line[a]`, because a request can be cancelled at the lock and in the
factory.  `open[a]` counts the instances nobody has closed, which the code does not
keep.  Tool threads open the job queue under the thread lock `opener`, and may do so
after the lifespan has closed it: that pool is closed by nobody, and no property
judges it.  `row` is all that survives `Exit`.  Left out: the
wiring of applications, error texts, requests other than those for an agent.

## Runs

| run | instance | question |
| --- | --- | --- |
| `queue_restart` | two tenants, one slot place, two worker processes in turn, a file user | file operations exclude jobs, takeover, a row outlives its container, refinement of `JobLedger` |
| `queue_slots` | two jobs of one workspace, two slots of one worker, rows ended early by their callers | no two slots have containers in one workspace, callers return, slots let go |
| `run_stop` | two threads, one instruction, all failures | release, delivery, end of the response, refinement of `RunLedger` |
| `thread_lifecycle` | two processes, a run, a resume, a creation, a visit of a file, two deletions, one crash; both deployments | exclusion of deletion, order of deletion, no revival |
| `workspace_store` | a document, a tool, an editor, two runs with an upload, a command, its caller, the sweep, one death | usage, quota, lost updates, the scratch of a paused run, the inputs of a turn |
| `specialist_run` | two lookups, a command, a note; limit 6 with reserve 3, parallel calls, a malformed report, a correction | a stop is for repetition, the report fits, a report or a reason |
| `turn_artifacts` | two specialists, two writers, a command, two plots and a table, two turns, one break | accounts of the window, turns kept apart, the latest or a notice (lost results excepted), page and answer agree, rewrites reported |
| `stream_path` | one message, two questions, two responses, one fault | every message once, an unconfirmed end told, refinement of `RunLedger` |
| `stream_ends` | no message, two questions, two responses, two faults, with fairness | the response unmounts, unless its body has no end or its connection went silent |
| `stream_tail` | as `stream_path`, no fault | violated: what the reader buffered is drawn |
| `findings_handoff` | two topics, a conflict, three calls, two turns, a correction | the brief of its turn, what a merge may change |
| `agent_service` | two agents, two requests, two tool threads, two principals, two boots | no agent lost, every request answered, one job queue |

The mutant of each property is a fault the code could plausibly have: a dropped
guard, a check before the lock only, a counter that is given back twice, a lock that
an exception keeps.  The type invariants that runs check are there for faults of that
kind as well (a second job queue, a third state of a marker, a note of no response).
Ten properties that `SandboxQueueProofs`, `RunControlProofs` and `ThreadLifecycleProofs`
prove are checked by no run any more, nor are the type invariants of `SpecialistRun` and
`TurnArtifacts`; they are named under Proofs.

### Bounds

Two jobs are enough for every hazard of the queue, which is always about two
parties at a row, a lock or a workspace: two of one workspace compete for the
flock and the unique index, two of different tenants for the capacity.  `JobLedger`
lets a running row whose cancellation was requested end in any way; that it is not
overwritten is the theorem `CancellationWins` and no run's property.  Two
worker identities give one takeover; a third would repeat it.  In `queue_slots` the
rivals for a workspace are two slots of one process, since the flock does not know
processes; that it holds for two that serve at once, after a lost worker lock, is the
theorem `SlotsShareNoWorkspace`, which has no hypothesis about workers.  `ExitStatuses` keeps one status by which a command ends by itself,
since the others take the same path.  One call per job bounds the queue; there
is no counter.  In `RunControl` two threads show the count of operations with one
leaving while another enters; one instruction shows delivery, since instructions
do not depend on each other.  The model has no counter either: the rounds of
`_cancel_sandbox` go on until confirmed, failed or aborted.

`ThreadLifecycle` needs two processes, since `ThreadActivity` excludes inside one and
the flock between them: `MCThreadLifecycle` sends the run, the resume and one deletion
to the first and everything else to the second, so that each pair meets both ways
(deletion and run in one process and in two, two deletions in two).  Two invocations
show a count above one.  `MaxCrashes` is 1: what a crash leaves is met by every
request that comes after it.  At most one command of the conversation is queued,
which is `OneActivePerTenant` of `SandboxQueue`.

`WorkspaceStore`: everyone meets at one document, since a writer works on one path at a
time and what it shares with the writers of others is `.usage` and the locks.  An
upload may create that document, meet it or fail, and then it undoes what it has
published; the limit of 2 is reached by a large file, or by a small one with the
scratch.  That an upload tries several names and a batch has several files is left to
the proofs, which hold for any.  `Exclusive` is TRUE as in the deployments with run controls; with
FALSE, `SweepSpares` and `TurnInputs` fail, because two runs of one conversation share
its marker and its inputs.  `MaxDeaths` is 1, as `MaxCrashes` above.

`SpecialistRun`: the limits are the code's in small, with the proportions that matter
(`LimitsAssumption`); `MaxParallel` 2 gives repeats in one message and over two, and a
message that the limit cuts; `MaxMalformed` and `MaxSteers` bound the model's and the
user's freedom.  The histories are finite under these, so the model needs no other
bound.

`TurnArtifacts`: limits of one image, one record and two bytes are reached by the
second or third file; two writes of all paths and the two turns give one replacement and one late
registration; `MaxNotices` 1 makes a second notice be counted instead of listed.

`StreamPath`: one message can arrive by token, update, replay of a resumed node and
history.  Two questions give a stale card beside a new one.  `MaxAhead` 1 suffices for
the reader and the page to meet at any frame; `MaxFaults` counts cuts, short bodies,
silent losses and reloads.  Whether a response unmounts does not depend on what its frames say, so
`stream_ends` has `MaxAhead` 1 and no message, which keeps the graph of states small
enough for liveness.

`FindingsHandoff`: three calls have two that write one path and one that only inherited
it; `MaxVersions` leaves four writes.  `AgentService`: two requests for one agent meet at
its lock, two for two agents pass; the second boot meets the row of the first.

Deadlock checking is off where the system may stop: callers, workers, responses,
requests and processes end.  It is on in `specialist_run`, where a finished run
stutters.

### Fairness

`SandboxQueue!Fairness`: a caller inside `create` or its poll loop steps (its thread
runs, its statements return), time passes (`Expire`), a file operation ends, and a
slot thread that can step does; a container's command ends at the latest by its
host deadline.  `Stop`, `Die`, `DropLock` and the start of a new process carry none,
so callers return even when no worker ever comes back.

`RunControl!Fairness`: the event loop runs queued callbacks and ready tasks
(`StartPump`, a step that is queued already, `DeliverCancel`, `CancelAgain`, `Release`)
and its timers fire (`Overdue`).  None is assumed of the graph's unwinding, of the
sandbox, of the database or of the client.

`StreamPath!StreamFairness`: the server answers a request and a Stop, the graph completes a
node and ends, the run unwinds and finalizes, the reader thread reads on and the
browser reruns the fragment.  Of the connection it is assumed that what it delivers
is read, and that one which was closed or reset is noticed.  A connection that is lost
without either is not: the client bounds connecting and writing, and never a read, so
the reader and with it the page wait for ever.  That is `Silence`, after which no step
of the reader is enabled.  Nothing is assumed of the user, who need not press Stop or
answer, or of `Release`: a conversation that stays reserved refuses the next request,
and its response unmounts too.  A finalization may be abandoned instead (`Abandon`
carries no fairness, but disables `Finalize`); then the body has no end.
`ResponseUnmounts` excepts these two cases and no other (`Endless`).

`AgentService!Fairness`: the event loop goes on with a request that finds or gets the
lock (`FindCached`, `StartBuild`), and a factory returns or raises (`Built \/ BuildFails`).
None is assumed of the lifespan or of cancellation.

`ThreadLifecycle`, `WorkspaceStore`, `SpecialistRun`, `TurnArtifacts` and `FindingsHandoff` have
no fairness and state no liveness.  That nothing reserved is left behind in
`ThreadLifecycle` is `ReservationsExact`, an invariant; a specialist's run that ends with a
report or a reason is `ReportOrReason`, about every run that has ended.

## Findings

One disagreement is a run:

- **The end of a response that is never drawn** (`stream_tail`).  A tick of the
  fragment drains the buffer (`ui/streaming.py:995`), draws, and only then asks
  `if not controller.active` (1079).  If the reader pushes the last frames and sets
  `done` in between, the fragment books the end and lets the controller go; nothing
  drains again.  The answer is missing until the conversation is loaded anew; the
  card of a question too, unless the page has not yet looked this conversation up
  and does so now (`LookUp`).  `ui/run_stream.py:3-4`: "It only fills a locked buffer;
  the page drains and renders that buffer".

The others are properties that no run lists.  TLC refutes each when it is named as
an INVARIANT (for `WorkspaceErased` and `CreatedStands` a PROPERTY) of the given
configuration:

- **A running row ends before its container** (`ActiveUntilContainerCleanup`, in
  `SandboxQueueRestart.cfg`).  `execute` ends with `finish(status="failed")` at its own
  deadline (`sandbox/jobs.py:267`).  A slot still waiting for the flock, starting,
  watching or removing keeps its container while the row is terminal: capacity,
  tenant and workspace are free again.  `jobs.py:353` says running slots retain
  ownership until cleanup.  `RowOutlivesContainer` shows that the deadline is the
  only way, and `ContainersExclusive` that the flock still keeps slots apart.
  What the ended row no longer protects is in `WorkspaceStore`: `assert_idle` passes, so
  a next turn stages its inputs, and an editor saves, while the slot still waits for
  the flock; the old command then runs on the inputs of another turn.  Under the
  flock it is safe (`TurnInputs`), and no save is lost (`NoLostUpdate`), except beside a
  container whose worker died and whose row was ended too (`adrift`).
- **A queued cancellation overtakes the pump** (`AlwaysStoppedCleanly`, in
  `RunControlStop.cfg`).  If the pump's next
  step is ready when `stop` is called, `check` ends the source and finalize begins; then
  the queued `task.cancel` (`server/run_control.py:132`) hits finalize's first await.
  `except Exception` does not catch the CancelledError: no final state, no final
  snapshot, `cleanup_failed` unset, and the lease goes back unconfirmed once the client
  leaves.  Until then the body waits for a `_DONE` that never comes
  (`server/streaming/own_task.py:97`), and the page shows a running response until it is
  reloaded: `ResponseUnmounts` excepts this, and a connection lost in silence.  The deadline of the
  response does the same to a pump that is finalizing, after the client has left.
  `own_task.py:1` promises a run "that is always stopped cleanly, however its response
  ends".
- **A failed graph is not waited for** (`FinalizationWaits`, in `RunControlStop.cfg`).
  An error ends the source normally, so finalize sees `completed=True`, does not
  cancel the run's jobs and does not read `operations`; `run_control.py:141-142`:
  "Finalization waits for these operations."
- **A lost thread escapes both reads** (`TerminationConfirmed`, in
  `RunControlStop.cfg`).  `_cancel_sandbox` counts rows, then reads operations; a
  thread that inserts after the count and loses the database before the read
  leaves an active job.  `ReleasedQuiet` holds with exactly these jobs excepted.
- **A busy workspace survives its conversation** (`WorkspaceErased`, in
  `ThreadLifecycle.cfg`).  Without a conversation filesystem `delete_runtime_workspace`
  removes the directory only if no job is active and says nothing otherwise
  (`sandbox/runtime.py:298`); the deletion goes on and reports success, and no later
  request can reach the directory.  `src/tests/test_server_contracts.py:751`: "A
  surviving workspace must not be reported as a successful deletion."
- **A crash inside rmtree leaves a chat that cannot be deleted** (`NotStuck`, in
  `ThreadLifecycle.cfg`).  `store.delete` reads `.owner` first (`filesystem/storage.py:458`).
  If the process died after rmtree had unlinked it, each repetition raises, runs
  answer 410, and `ensure`, which would write `.owner`, refuses a tombstone.  An
  OSError in the same place does restore the marker, but what it leaves may have
  no `.owner` either: then the next run restores it, because there is no tombstone.
- **A card that cannot be answered comes back** (`RestoredIsPending`, in
  `StreamPath.cfg`).  The page restores the card of a reply on any error
  (`ui/streaming.py:1080-1088`), as where a resume cannot be started, whose comment says
  "The interrupt is pending again" (574-575); when the node had completed before the graph failed, or the run was
  cancelled, the interrupt is consumed or discarded, and each click ends in the
  same error.
- **Two delegations create one finding** (`CreatedStands`, in `FindingsHandoff.cfg`).
  `write_file` refuses a path its own channel has (`agents/backends.py:241`), but
  delegations of one answer do not see each other's files; the later call's file
  replaces the earlier one in the merge.  `backends.py:238` says "silently replacing
  an existing report loses evidence".
- **Registration follows the lock** (`LatestOrTold`, in `TurnArtifacts.cfg` with
  `InOrder = FALSE`).  A tool publishes after it has left the files lock
  (`filesystem/backend.py:103`); two parallel writes of one path can be registered in
  the reverse order, and the answer then carries the older content.  The run has
  `InOrder = TRUE`, without which `LatestOrTold` is false.
- **A command's result is lost** (`lost` in `LatestOrTold`; without that exception TLC
  refutes it in `TurnArtifacts.cfg`).  A command that has rewritten a delivered file can
  end with no artifact names: an exception after it is a failed row without names
  (`sandbox/worker.py:50-55`), so is the caller's deadline (`sandbox/jobs.py:267`) and the
  sweep of a new worker (368), a cancelled row drops them (335), and a failed look at
  the row is `worker_error` (`sandbox/backend.py:261-278`).  No `note_undelivered` follows, so
  the answer carries the older version and nobody is told.  With registration in
  order, that and a thread of an earlier run, which registers late or not yet, are
  the ways in which a newer version is neither delivered nor told.
- **The first refusal can also be the last** (`NudgeIsSeen`, in `SpecialistRun.cfg`).
  Parallel calls of one message that repeat the previous signature are refused
  together and counted together, so a run is stopped before the model has seen a
  refusal.
- **A dead worker leaves an old usage** (`tainted`).  `filesystem/storage.py:259` says a
  crash forces a fresh scan; a worker that dies between the start of a container and
  the end of `executor.run` leaves the `.usage` written before the command.
  `UsageCovers` and `QuotaKept` hold with exactly this excepted.

What the program does not promise, and the properties therefore leave out: a tool
thread that outlived its run may register an artifact after its conversation was
deleted (`RegisterArtifact`), and nothing removes it.

## Proofs

`SandboxQueueProofs` proves, from `QueueAssumption` alone (the constants have their
types and `Jobs` is finite), the safety properties in the table; the last two also
assume `LockMayDrop = FALSE`, without which they do not hold.

| theorem | property | argument |
| --- | --- | --- |
| `TypeCorrect`, `CancellationWins` | `TypeOK`, `CancelWins` | invariant `Base`: types, where a caller with an answer can be, what a slot in each `pc` holds, `CancelWins` itself |
| `NeverOverCapacity`, `OneJobPerTenant`, `FilesExcludeJobs` | `Capacity`, `OneActivePerTenant`, `GuardExcludesJobs` | invariant `Admission`: who holds the admission and workspace locks at which point of `create`, and that there is room from the count to the insertion.  Without the lock part the count is stale at the insertion |
| `AnswersAreFinal` | `ReplyMatchesRow` | a terminal row changes only to `absent`, and an answer is given from a terminal row |
| `NoJobRunsTwice` | `ClaimedOnce` | what a slot holds was claimed, and a row is queued only while nobody holds it |
| `SlotsShareNoWorkspace` | `ContainersExclusive` | invariant `Containers`: nobody has a container before its claim, who has one alive is in `running` or `remove`, and who is there has the flock.  Rows play no part, so a row that was ended early does no harm |
| `QueueImplementsLedger` | `ImplementsLedger` | each step is a ledger step or a stutter under the mapping in `SandboxQueue!Ledger` |
| `RowsOutliveContainers` | `RowOutlivesContainer` | invariant `Takeover`: a living worker has the lock, so there is one (`Sole`); what it swept stays swept, because no slot runs yet (`Swept`); a held row runs until its deadline (`HeldRuns`) |
| `ServingOwnsAll` | `ServingOwns` | from `Takeover`: rows start to run by a claim and containers by a slot that holds their row, and a slot lets go only with its report or with its process |

`RunControlProofs` proves the safety properties of `run_stop`, its refinement and two more for any threads and
instructions, whatever the two failure constants are; it needs no assumption
about them.

| theorem | property | argument |
| --- | --- | --- |
| `RunTypeCorrect` | `TypeOK` | invariant `Base`: `TypeOK`, `Stage` (which states and flags fit which place of the pump) and `Closing` (what finalize has established where it is suspended, and that a released lease means a pump that has ended) |
| `LeaseReleasedQuiet` | `ReleasedQuiet` | `Owned` (an active job has a thread in its operation or a lost one) makes an empty set of operations a statement about rows; `Quiet` then survives every later step, because a cancelled run lets no thread into an operation.  The count that finalize read is not used: it is stale, and the operations alone carry the argument |
| `InstructionsSettled` | `SteeringSettled` | `Delivery`: the delivery is written once, at a place of the pump after which neither the graph nor Steer can step |
| `OutcomeTruthful`, `StateOnlyAdvances` | `TruthfulOutcome`, `StateAdvances` | `StateStep`: the five ways in which a step changes the state, read off `Base` |
| `RunImplementsLedger` | `ImplementsRuns` | each step is a ledger step or a stutter.  Beside `Base` and `TruthfulOutcome` it needs `LeftStopped`: whoever leaves a response stops a run whose graph is still at work, so what the deadline cancels is a stopped run.  Where a run that was not stopped fails by itself, `Finalize` of the ledger takes the stop with it |

`ThreadLifecycleProofs` proves every property of `thread_lifecycle` and two more for any processes,
requests, assignment of requests to processes and crashes, in both deployments,
from `LifecycleAssumption` (types; finitely many invocations, so that they can be
counted) and `KindsDisjoint`.  The invariant is `Safe`:

| theorem | property | argument |
| --- | --- | --- |
| `TypeCorrect` | `TypeOK` | `Base`: types, and `Kinds`, where a request of each kind can be |
| `ReservationsAreExact` | `ReservationsExact` | `Exact`: the count is the cardinality of the invocations at reserved places; one deletion a process, and none beside an invocation, without which the release of one deletion would clear the flag of another |
| `DeletionIsAlone`, `SaveIsAlone` | `DeletionAlone`, `SaveAlone` | `Locked`: an exclusive holder of the flock is alone, kept by the guards of both ways to take it; `Exact` gives the part inside a process, `Kinds` that a visit exists only with a filesystem |
| `RowIsLast`, `DeletedStaysDeleted` | `RowGoesLast`, `NoRevival` | `Course`: how far a deletion has come is how much is left (`Erased`), before there is a row nobody is as far as to write (`Fresh`), who works has a row and who passed the check no tombstone (`Authorized`).  Only `Locked` keeps these true while a deletion or its failure moves the tombstone and the row |

`AgentServiceProofs` proves the safety properties of `agent_service` for any agents,
requests, tool threads and boots, from `ServiceAssumption` (`None` is nobody).

| theorem | property | argument |
| --- | --- | --- |
| `NoAgentLeaks` | `NothingLeaks` | `Locks`: who builds an agent holds its lock and it is not cached, so two requests never build one; `Order`: agents are cached only from `serving` to `stopping`, where the database is ready, and are used only before `stopping`.  Without `Order` the database could be closed under an agent, without `Locks` a second instance would replace the first |
| `ServiceTyped` | `TypeOK` | its strong part is that a process has one job queue (`OneQueue`): there is one open pool if the field is set and none otherwise, and the thread between its look at the field and the assignment holds `opener`, so no other is there.  One after the other there may be two: a tool thread that outlives the lifespan opens the queue again |

Its second part is about `StreamPath`, for any messages, questions and bounds, from
`StreamAssumption`.  The module extends both, which share no name.

| theorem | property | argument |
| --- | --- | --- |
| `StreamTyped` | `StreamTypeOK` | needs `Numbers`: a run belongs to a response that was started and a waiting request to one whose run has not begun, so the note of a run names a response |
| `MessagesOnce` | `ShownOnce` | `Lists`: no entry twice in the history or the transcript, and the notes in them are of runs that have ended and of responses that were unmounted.  What a run or a response adds at its end carries the next number, so it cannot be there; a session that loads the history takes over notes of no later number (`Numbers`).  That drawing a buffer of any length keeps this is `DrainKeeps`, by induction over the frames drawn |
| `EndsAreTold` | `EndIsTold` | `Known`: a terminal state on the page was read from the run, and a reader that has left has read one or set the error |
| `ResponsesKeepLedger` | `ImplementsRuns` | each step is a ledger step or a stutter, with `Reserved`: a run that is under way has the lease, and only such a run is stopped.  So a request that is served begins a run where none is, and `Release` comes after an outcome |

`WorkspaceStoreProofs` proves every property of `workspace_store` for any tools, editors,
runs, paths, contents, sizes, limits and deaths, from `StoreAssumption` (types; the paths and
the writers are finite, so that sizes can be added) and `WritersDisjoint`.  `TurnInputs` and
`SweepSpares` have the hypothesis `Exclusive = TRUE`, the deployments with run controls: there
the conversation's reservation keeps two runs apart, and without it both are false.

| theorem | property | argument |
| --- | --- | --- |
| `WorkspaceTyped` | `TypeOK` | `Base`: types, `Placed` (every writer is at a place of its kind and knows what it writes), `LocksExclude` (the three locks exclude, a dead worker holds none and only it leaves a container behind) |
| `NoUpdateLost` | `NoLostUpdate` | `StillFound`: from its look to its rename the file is what the writer found, since the files lock keeps writers out and the execution lock commands; only a container without its worker writes beside, and a save meets that one only when its row was ended (`adrift`) |
| `UsageIsCovered`, `QuotaIsKept` | `UsageCovers`, `QuotaKept` | `Temporaries` (whose temporary is where) and `Accounts` (inside `put` nothing is recorded, and `new_size` is within the limit and covers what is coming).  `DirectorySize` is a sum over files and temporaries, whose steps are the sum lemmas of `DataTheorems` |
| `InputsOfTheTurn`, `ScratchIsSpared` | `TurnInputs`, `SweepSpares` | `OneDialogue`: one run at a time, what it has done at which place, that a question has its marker on disk and its inputs staged, and that the inputs of a turn that waits for a command stay while its row is active or its slot has the locks (`Bound`).  The marker is written after the question is read, so the place between the two is the one that matters |

`TurnArtifactsProofs` proves its types and every property of `turn_artifacts` for any specialists, tools,
paths, sizes, limits and turns, from `ArtifactAssumption` (types; finitely many paths).
`LatestOrTold` has the hypothesis `InOrder = TRUE`, without which it is false (see Findings).

| theorem | property | argument |
| --- | --- | --- |
| `ArtifactsTyped` | `TypeOK` | `Typed`, `Hands` (a tool that must register knows its file, and one of the turn that runs has its specialist waiting), `Begun` |
| `WindowIsExact` | `WindowExact` | `Ledger`: ids grow along every list, one result of a path, which the path points to; `Counts`: the counters are cardinalities and a sum over the window.  A replacement gives back exactly what it took out because the path points to it |
| `AnswersOfTheirTurn` | `TurnsApart` | `Ledger` has that what is pending is of this turn, `Answers` keeps it when it is attached |
| `RewritesAreReported` | `ReportsRewrites` | `Baselines`: what was pending when a specialist began is no newer than the files it found |
| `BrowserShowsAnswer` | `LiveMatchesAnswer` | `Shown`: what was or will be streamed is what is pending and what a later result replaced, and so it stays between the answer and the drain |
| `LatestIsDelivered` | `LatestOrTold` | `Tidings`: whoever holds a version holds the latest, or the latest is `Coming` (held, or about to be read), or somebody was told, or its command's result was lost |

`SpecialistRunProofs` proves its types and every property of `specialist_run` for any calls, notes and
limits, from `LimitsAssumption` and `CallsAssumption`.

| theorem | property | argument |
| --- | --- | --- |
| `RunTyped` | `TypeOK` | part of `Sound`, with `Called`: the tools run on calls of the last message |
| `StopsAreTruthful` | `StopIsTruthful` | `Refusals`, about the whole history: a refused call was answered before, the refusals of a series are of one call, and every stop counts as many refusals as it says, in a series that only messages of the model part (`Unbroken`); `OriginAt` finds the answer the series refers to, with no later answer but those to the refused message's own calls.  The history only grows at its end, so each part is kept by what is appended |
| `ReportAlwaysFits` | `ReportFits` | `Budget`: outside the reserve at most the limit less the reserve is spent, so the last message's calls and the malformed reports fit into it |
| `EndsAreExplained` | `ReportOrReason` | `Reason`: the ways out of the loop |

Its second part is about `FindingsHandoff`, for any topics, calls, turns, instructions and
versions, from `HandoffAssumption`.

| theorem | property | argument |
| --- | --- | --- |
| `BriefsAreCurrent` | `BriefIsCurrent` | `Asked`: the last message of the user is that of the turn, whatever instructions follow it |
| `MergesWhatWasWritten` | `MergesOwnWrites` | `Handed`: versions grow, what a delegation wrote is newer than what it was given and the rest is what it was given.  So only writers return a path, and the last of them is one of them |

`DataTheorems` states induction for a set of numbers (`NumberInduction`) or of finite
subsets (`SubsetInduction`) that is closed under the step, because the provers can
instantiate a set and not an operator.  From it follow what `SumFunctionOnSet` gives
when an element enters, leaves or changes, and how increasing sequences stay so.

Of these, `Capacity`, `OneActivePerTenant`, `CancelWins`, `ReplyMatchesRow`, `ClaimedOnce`,
`ServingOwns`, `TruthfulOutcome`, `StateAdvances`, `ReservationsExact`, `SaveAlone` and the
`TypeOK` of `SpecialistRun` and `TurnArtifacts` are proved and repeated by no run: the proof says more than a small instance.

Every safety invariant, action property and refinement that a passing run checks is proved.
Only model-checked are the liveness properties `CallersReturn`, `SlotsLetGo`,
`ResponseEnds`, `ResponseUnmounts` and `GetsAnswered`, since fairness and ENABLED are
outside the prover, and the refuted ones of the findings.

Five modules were put into a form that can be reasoned about.  `TurnArtifacts`
and `AgentService` remove one element with `RemoveFirst`, since a list has an id once;
`SpecialistRun` speaks of the positions of results, not of filtered sequences;
`FindingsHandoff` and `StreamPath` have the last writer and the page after each frame
in place of folds.  Two pairs of modules that share a proof module share no name.

## Not modelled

- Rendering, layout, math, activity records and statuses of the page; HTTP calls of
  the clients other than a message, a reply, Stop and the pending interrupt.  They
  keep no state that another part relies on.
- Provider, MCP, tracing, logging and configuration: calls to external services and
  wiring without a protocol of their own.
- Approval cards, the command policy and the parsing of questions and message parts:
  pure functions of one text, better tested.
- Migration and aliases of old workspace paths, listings, downloads, the artifact
  reading API with its index: they read, or run once before anything else.
- Parallel questions of one interrupt, interrupts inside a specialist, summarization,
  background collection of applications.
- The repair of unanswered tool calls of a cancelled run (`server/run_control.py:293`).
  In `StreamPath` the two updates of its checkpoint are one step (`Settle`); a failure
  between them leaves a closed history whose graph has tasks to run, which is
  `RunControl`'s place `discard` and shows nowhere on the page.

Modelled, but judged by no property: rows that an API call inserts between the
worker's lock and its sweep (`sandbox/worker.py:107`) are failed with the others, and
the caller is told so.

## Plan

1. Done: all modules above; the proofs of every safety property the runs check, and of
   the refinements of `JobLedger` and `RunLedger`.
2. `SandboxQueue` and `RunControl` meet in `JobMoves`, which lets the worker do more than
   `JobLedger` does; stating it with the ledger's actions would connect the two.
