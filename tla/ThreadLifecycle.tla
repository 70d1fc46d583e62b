-------------------------- MODULE ThreadLifecycle --------------------------
(***************************************************************************)
(* One conversation, from its first request to its deletion: the requests  *)
(* that run the agent (server/api/endpoints.py), create the chat           *)
(* (server/chat/endpoints.py), save or browse a file (filesystem/api.py)   *)
(* and delete the thread, in several API processes, with the sandbox       *)
(* worker and with tool threads that outlive their run.                    *)
(*                                                                         *)
(* What keeps them apart is ThreadActivity inside a process and, if the    *)
(* application has a conversation filesystem, the operation flock of the   *)
(* workspace between processes.  The flock is held exactly while its       *)
(* holder is at certain places, so it is derived from pc.                  *)
(*                                                                         *)
(* Without a conversation filesystem the application is the one of         *)
(* README.md's sandbox chapter: stage_runtime_inputs before a run and      *)
(* delete_runtime_workspace at deletion, under the queue's advisory lock.  *)
(***************************************************************************)
EXTENDS Naturals, FiniteSets

CONSTANTS
    Procs,        \* API processes
    Runs,         \* POST /stream
    Resumes,      \* POST /resume
    Creates,      \* POST /chats
    Visits,       \* PUT or GET /threads/{id}/filesystem: a save or a read
    Deletes,      \* DELETE /threads/{id}
    At,           \* the process each request is sent to
    Filesystems,  \* the values of "a conversation filesystem is configured"
    Controls,     \* the values of run_controls
    MaxCrashes    \* bound on process crashes

Invocations == Runs \cup Resumes
Requests == Invocations \cup Creates \cup Visits \cup Deletes

ASSUME LifecycleAssumption ==
    /\ At \in [Requests -> Procs]
    /\ Filesystems \subseteq BOOLEAN /\ Controls \subseteq BOOLEAN
    /\ MaxCrashes \in Nat
    /\ IsFiniteSet(Invocations)

\* A request is of one kind.
ASSUME KindsDisjoint ==
    /\ Runs \cap Resumes = {}
    /\ Creates \cap Invocations = {}
    /\ Visits \cap (Invocations \cup Creates) = {}
    /\ Deletes \cap (Invocations \cup Creates \cup Visits) = {}

VARIABLES
    filesystem, controls,   \* how the application is built; never changes
    pc,           \* where a request is
    active,       \* ThreadActivity._active of a process
    deleting,     \* ThreadActivity._deleting of a process
    row,          \* the row of table chats
    tombstone,    \* .locks/<workspace>.deleted
    prior,        \* store.delete's `previous' in a deletion; FALSE outside
    files,        \* the workspace tree; "ownerless": without .owner
    checkpoint,   \* checkpoints of the thread exist
    artifacts,    \* artifacts of the thread exist
    listed,       \* a row of sandbox_jobs is active
    command,      \* that job in the worker
    crashes

deployment == <<filesystem, controls>>
process == <<active, deleting>>
data == <<row, tombstone, prior, files, checkpoint, artifacts>>
sandbox == <<listed, command>>
exceptFiles == <<deployment, process, row, tombstone, prior, checkpoint, artifacts,
                 sandbox, crashes>>
vars == <<deployment, pc, process, data, sandbox, crashes>>

\* Where an invocation has reserved the conversation, and where a request
\* that runs or creates it holds the operation lock.
Setup == {"reserved", "leased", "checked", "found", "missing"}
Using == {"working", "streaming"}
Reserved == Setup \cup Using
Leased == Reserved \ {"reserved"}
\* Where a save holds it.
Saving == {"locked", "owned", "quiet"}
\* Where a deletion holds its reservation, and where it is inside store.delete.
InTree == {"marked", "unowned"}
Erasing == {"recheck"} \cup InTree \cup {"unfiled", "forgotten", "bare"}
Guarded == {"guarded", "quiet"} \cup Erasing
Removing == {"reserved"} \cup Guarded
Over == {"done", "deleted"}

Places == {"idle", "asked", "abandoned"} \cup Reserved \cup Saving \cup Removing \cup Over

Holders(p) == {q \in Invocations : At[q] = p /\ pc[q] \in Reserved}

TypeOK ==
    /\ filesystem \in BOOLEAN /\ controls \in BOOLEAN
    /\ pc \in [Requests -> Places]
    /\ active \in [Procs -> Nat]
    /\ deleting \in [Procs -> BOOLEAN]
    /\ row \in BOOLEAN /\ tombstone \in BOOLEAN
    /\ prior \in [Deletes -> BOOLEAN]
    /\ files \in {"none", "whole", "ownerless"}
    /\ checkpoint \in BOOLEAN /\ artifacts \in BOOLEAN
    /\ listed \in BOOLEAN
    /\ command \in {"none", "queued", "claimed", "running"}
    /\ crashes \in 0..MaxCrashes

Init ==
    /\ filesystem \in Filesystems
    /\ controls \in Controls
    /\ pc = [q \in Requests |-> "idle"]
    /\ active = [p \in Procs |-> 0]
    /\ deleting = [p \in Procs |-> FALSE]
    /\ row = FALSE
    /\ tombstone = FALSE
    /\ prior = [d \in Deletes |-> FALSE]
    /\ files = "none"
    /\ checkpoint = FALSE /\ artifacts = FALSE
    /\ listed = FALSE
    /\ command = "none"
    /\ crashes = 0

-----------------------------------------------------------------------------
(* The operation lock of the workspace, taken by flock.                    *)

SharedHolders == {q \in Invocations \cup Creates : pc[q] \in Leased}
ExclusiveHolders ==
    {v \in Visits : pc[v] \in Saving} \cup {d \in Deletes : pc[d] \in Guarded}

\* Without a conversation filesystem only the worker takes it.
MayShare == filesystem => ExclusiveHolders = {}

\* Mutant: a deletion looks only at the requests of the API.
MayExcludeRequests ==
    filesystem => SharedHolders \cup ExclusiveHolders = {}

MayExclude ==
    filesystem => /\ SharedHolders \cup ExclusiveHolders = {}
                  /\ command # "running"

Step(q, from, to) == pc[q] = from /\ pc' = [pc EXCEPT ![q] = to]

\* A step that only takes the request on.
Move(q, from, to) ==
    /\ Step(q, from, to)
    /\ UNCHANGED <<deployment, process, data, sandbox, crashes>>

\* A deletion without a conversation filesystem is under workspace_guard.
TreeFree == filesystem \/ \A d \in Deletes : pc[d] \notin InTree

\* ThreadActivity.
ReserveRun(p) ==
    /\ ~deleting[p]
    /\ controls => active[p] = 0
    /\ active' = [active EXCEPT ![p] = @ + 1]

\* Mutant: the handler and the response both release, and nothing clamps.
ReleaseRunTwice(p) == active' = [active EXCEPT ![p] = @ - 2]

ReleaseRun(p) ==
    active' = [active EXCEPT ![p] = IF @ <= 1 THEN 0 ELSE @ - 1]

ReserveDelete(p) ==
    /\ ~deleting[p]
    /\ active[p] = 0
    /\ deleting' = [deleting EXCEPT ![p] = TRUE]

ReleaseDelete(p) == deleting' = [deleting EXCEPT ![p] = FALSE]

-----------------------------------------------------------------------------
(* Requests that run the agent or create the chat.                         *)

\* A request that leaves gives back its reservation with its lock.
Leave(q, to) ==
    /\ pc' = [pc EXCEPT ![q] = to]
    /\ IF q \in Invocations THEN ReleaseRun(At[q]) ELSE UNCHANGED active

\* A refused invocation changes nothing; create_chat reserves nothing.
Begin(q) ==
    /\ Step(q, "idle", "reserved")
    /\ IF q \in Invocations THEN ReserveRun(At[q]) ELSE UNCHANGED active
    /\ UNCHANGED <<deployment, deleting, data, sandbox, crashes>>

TakeLease(q) ==
    /\ MayShare
    /\ Move(q, "reserved", "leased")

\* Mutant: the tombstone of the conversation is not looked at.
CheckTombstoneNever(q) ==
    /\ q \notin Resumes
    /\ Move(q, "leased", "checked")

\* A retired conversation: 410, by SetupFails.
CheckTombstone(q) ==
    /\ q \notin Resumes
    /\ filesystem => ~tombstone
    /\ Move(q, "leased", "checked")

ReadRow(q) == Move(q, "checked", IF row THEN "found" ELSE "missing")

\* The UPDATE finds no row, or the INSERT finds one: SetupFails.
CommitRow(q) ==
    /\ pc[q] = (IF row THEN "found" ELSE "missing")
    /\ row' = TRUE
    /\ IF q \in Creates
       THEN Leave(q, "done")
       ELSE pc' = [pc EXCEPT ![q] = "working"] /\ UNCHANGED active
    /\ UNCHANGED <<deployment, deleting, tombstone, prior, files, checkpoint,
                   artifacts, sandbox, crashes>>

\* get_owned_chat of a resume, which does not look at the tombstone.
Authorize(q) ==
    /\ q \in Resumes
    /\ row
    /\ Move(q, "leased", "working")

\* 409, 410, 404 and every other exception before there is a response.
SetupFails(q) ==
    /\ pc[q] \in Setup
    /\ Leave(q, "done")
    /\ UNCHANGED <<deployment, deleting, data, sandbox, crashes>>

\* stage_runtime_inputs and store.ensure before the graph streams.  A resume
\* without a conversation filesystem does not touch the workspace.
EnterStream(q) ==
    /\ Step(q, "working", "streaming")
    /\ IF filesystem \/ q \in Runs
       THEN /\ ~tombstone
            /\ ~filesystem => ~listed /\ TreeFree
            /\ files' = "whole"
       ELSE UNCHANGED files
    /\ UNCHANGED exceptFiles

Checkpoint(q) ==
    /\ pc[q] = "streaming"
    /\ checkpoint' = TRUE
    /\ UNCHANGED <<deployment, pc, process, row, tombstone, prior, files,
                   artifacts, sandbox, crashes>>

\* The generator ends, for whatever reason, and the response is closed.  A
\* tool thread may outlive it.  A run whose cleanup failed keeps its lease and
\* stays in "streaming".
RunEnds(q) ==
    /\ pc[q] \in Using
    /\ \E to \in {"done", "abandoned"} :
          /\ to = "abandoned" => pc[q] = "streaming"
          /\ Leave(q, to)
    /\ UNCHANGED <<deployment, deleting, data, sandbox, crashes>>

-----------------------------------------------------------------------------
(* The tool threads of a run, also after it, and the worker.               *)

HasThread(q) == pc[q] \in {"streaming", "abandoned"}

\* SandboxJobs.create.  Bound: one command at a time in the queue.
Submit(q) ==
    /\ HasThread(q)
    /\ ~listed /\ command = "none"
    /\ TreeFree
    /\ listed' = TRUE
    /\ command' = "queued"
    /\ UNCHANGED <<deployment, pc, process, data, crashes>>

\* ConversationBackend.write or upload_files: ensure, then the file.
ToolWrites(q) ==
    /\ HasThread(q)
    /\ ~tombstone
    /\ ~filesystem => ~listed /\ TreeFree
    /\ files' = "whole"
    /\ UNCHANGED <<deployment, pc, process, row, tombstone, prior, checkpoint,
                   artifacts, sandbox, crashes>>

\* The content was read from the workspace earlier.
RegisterArtifact(q) ==
    /\ HasThread(q)
    /\ artifacts' = TRUE
    /\ UNCHANGED <<deployment, pc, process, row, tombstone, prior, files,
                   checkpoint, sandbox, crashes>>

ThreadEnds(q) == Move(q, "abandoned", "done")

Claim ==
    /\ command = "queued" /\ listed
    /\ command' = "claimed"
    /\ UNCHANGED <<deployment, pc, process, data, listed, crashes>>

\* The shared operation lock, then ensure, which fails on a tombstone.
CommandStarts ==
    /\ command = "claimed"
    /\ MayShare
    /\ IF tombstone
       THEN command' = "none" /\ listed' = FALSE /\ UNCHANGED files
       ELSE command' = "running" /\ files' = "whole" /\ UNCHANGED listed
    /\ UNCHANGED <<deployment, pc, process, row, tombstone, prior, checkpoint,
                   artifacts, crashes>>

CommandEnds ==
    /\ command = "running"
    /\ command' = "none"
    /\ listed' = FALSE
    /\ UNCHANGED <<deployment, pc, process, data, crashes>>

\* A deadline, a cancellation or a sweep ends the row; a slot that has it
\* goes on (SandboxQueue).
RowEnds ==
    /\ listed
    /\ listed' = FALSE
    /\ command' = IF command = "queued" THEN "none" ELSE command
    /\ UNCHANGED <<deployment, pc, process, data, crashes>>

\* A slot whose row has ended before it took the lock.
ClaimedEnds ==
    /\ command = "claimed"
    /\ command' = "none"
    /\ listed' = FALSE
    /\ UNCHANGED <<deployment, pc, process, data, crashes>>

-----------------------------------------------------------------------------
(* Saving and browsing files; only with a conversation filesystem.         *)

Ask(q) ==
    /\ q \in Deletes \/ filesystem
    /\ row
    /\ Move(q, "idle", "asked")

SaveLocks(v) ==
    /\ MayExclude
    /\ Move(v, "asked", "locked")

SaveRechecks(v) ==
    /\ row
    /\ Move(v, "locked", "owned")

SaveAssertsIdle(v) ==
    /\ ~listed
    /\ Move(v, "owned", "quiet")

\* migrate creates what is missing; save reads the owner before it writes.
SaveWrites(v) ==
    /\ ~tombstone
    /\ Step(v, "quiet", "done")
    /\ files' \in IF files = "ownerless" THEN {"ownerless", "whole"} ELSE {"whole"}
    /\ UNCHANGED exceptFiles

VisitFails(v) ==
    /\ pc[v] \in {"asked"} \cup Saving
    /\ pc' = [pc EXCEPT ![v] = "done"]
    /\ UNCHANGED <<deployment, process, data, sandbox, crashes>>

\* A read holds no operation lock: it acts on an authorization of any age.
ReadMigrates(v) ==
    /\ ~tombstone
    /\ Step(v, "asked", "done")
    /\ files' \in IF files = "ownerless" THEN {"ownerless", "whole"} ELSE {"whole"}
    /\ UNCHANGED exceptFiles

-----------------------------------------------------------------------------
(* Deletion.                                                               *)

Reserve(d) ==
    /\ Step(d, "asked", "reserved")
    /\ ReserveDelete(At[d])
    /\ UNCHANGED <<deployment, active, data, sandbox, crashes>>

NotReserved(d) == Move(d, "asked", "done")

Guard(d) ==
    /\ filesystem
    /\ MayExclude
    /\ Move(d, "reserved", "guarded")

AssertIdle(d) ==
    /\ ~listed
    /\ Move(d, "guarded", "quiet")

\* The row is read again under the lock.
Recheck(d) ==
    /\ row
    /\ Move(d, IF filesystem THEN "quiet" ELSE "reserved", "recheck")

\* store.delete up to the removal, inside the files lock or workspace_guard.
\* Without .owner it raises before it writes the marker.
Mark(d) ==
    /\ files # "ownerless"
    /\ ~filesystem => ~listed
    /\ \A e \in Deletes : pc[e] \notin InTree
    /\ Step(d, "recheck", "marked")
    /\ prior' = [prior EXCEPT ![d] = tombstone]
    /\ tombstone' = TRUE
    /\ UNCHANGED <<deployment, process, row, files, checkpoint, artifacts,
                   sandbox, crashes>>

\* delete_runtime_workspace, when workspace_guard yields False.
SkipWorkspace(d) ==
    /\ ~filesystem
    /\ listed \/ ~TreeFree
    /\ Move(d, "recheck", "unfiled")

\* rmtree removes the entries of the root in any order; .owner is one.
UnlinkOwner(d) ==
    /\ files = "whole"
    /\ Step(d, "marked", "unowned")
    /\ files' = "ownerless"
    /\ UNCHANGED exceptFiles

RemoveTree(d) ==
    /\ \/ Step(d, "marked", "unfiled") /\ files = "none"
       \/ Step(d, "unowned", "unfiled")
    /\ files' = "none"
    /\ prior' = [prior EXCEPT ![d] = FALSE]
    /\ UNCHANGED <<deployment, process, row, tombstone, checkpoint, artifacts,
                   sandbox, crashes>>

RemoveCheckpoint(d) ==
    /\ Step(d, "unfiled", "forgotten")
    /\ checkpoint' = FALSE
    /\ UNCHANGED <<deployment, process, row, tombstone, prior, files,
                   artifacts, sandbox, crashes>>

RemoveArtifacts(d) ==
    /\ Step(d, "forgotten", "bare")
    /\ artifacts' = FALSE
    /\ UNCHANGED <<deployment, process, row, tombstone, prior, files,
                   checkpoint, sandbox, crashes>>

\* Mutant: the row goes before the checkpoints.
RemoveRowEarly(d) ==
    /\ pc[d] \in {"unfiled", "bare"}
    /\ pc' = [pc EXCEPT ![d] = "deleted"]
    /\ row' = FALSE
    /\ ReleaseDelete(At[d])
    /\ UNCHANGED <<deployment, active, tombstone, prior, files, checkpoint,
                   artifacts, sandbox, crashes>>

RemoveRow(d) ==
    /\ Step(d, "bare", "deleted")
    /\ row' = FALSE
    /\ ReleaseDelete(At[d])
    /\ UNCHANGED <<deployment, active, tombstone, prior, files, checkpoint,
                   artifacts, sandbox, crashes>>

\* An OSError of rmtree puts the marker back as it was.
TreeFails(d) ==
    /\ pc[d] \in InTree
    /\ pc' = [pc EXCEPT ![d] = "done"]
    /\ tombstone' = prior[d]
    /\ prior' = [prior EXCEPT ![d] = FALSE]
    /\ ReleaseDelete(At[d])
    /\ UNCHANGED <<deployment, active, row, files, checkpoint, artifacts,
                   sandbox, crashes>>

\* A lock that is busy, an active job, a row that is gone, another exception.
DeleteFails(d) ==
    /\ pc[d] \in Removing \ InTree
    /\ pc' = [pc EXCEPT ![d] = "done"]
    /\ ReleaseDelete(At[d])
    /\ UNCHANGED <<deployment, active, data, sandbox, crashes>>

-----------------------------------------------------------------------------
\* The process dies with its requests, reservations and threads; the
\* kernel drops its locks and Postgres its transactions.
Crash(p) ==
    /\ crashes < MaxCrashes
    /\ crashes' = crashes + 1
    /\ pc' = [q \in Requests |-> IF At[q] = p /\ pc[q] \notin {"idle", "deleted"}
                                 THEN "done" ELSE pc[q]]
    /\ active' = [active EXCEPT ![p] = 0]
    /\ deleting' = [deleting EXCEPT ![p] = FALSE]
    /\ prior' = [d \in Deletes |-> IF At[d] = p THEN FALSE ELSE prior[d]]
    /\ UNCHANGED <<deployment, row, tombstone, files, checkpoint, artifacts, sandbox>>

SetupStep(q) ==
    \/ Begin(q) \/ TakeLease(q) \/ CheckTombstone(q) \/ ReadRow(q) \/ CommitRow(q)
    \/ Authorize(q) \/ SetupFails(q)

RunStep(q) ==
    \/ EnterStream(q) \/ Checkpoint(q) \/ RunEnds(q) \/ Submit(q) \/ ToolWrites(q)
    \/ RegisterArtifact(q) \/ ThreadEnds(q)

WorkerStep == Claim \/ CommandStarts \/ CommandEnds \/ RowEnds \/ ClaimedEnds

VisitStep(v) ==
    \/ Ask(v) \/ SaveLocks(v) \/ SaveRechecks(v) \/ SaveAssertsIdle(v)
    \/ SaveWrites(v) \/ ReadMigrates(v) \/ VisitFails(v)

DeleteStep(d) ==
    \/ Ask(d) \/ Reserve(d) \/ NotReserved(d) \/ Guard(d) \/ AssertIdle(d)
    \/ Recheck(d) \/ Mark(d) \/ SkipWorkspace(d) \/ UnlinkOwner(d) \/ RemoveTree(d)
    \/ RemoveCheckpoint(d) \/ RemoveArtifacts(d) \/ RemoveRow(d)
    \/ TreeFails(d) \/ DeleteFails(d)

Next ==
    \/ \E q \in Invocations \cup Creates : SetupStep(q)
    \/ \E q \in Invocations : RunStep(q)
    \/ WorkerStep
    \/ \E v \in Visits : VisitStep(v)
    \/ \E d \in Deletes : DeleteStep(d)
    \/ \E p \in Procs : Crash(p)

Spec == Init /\ [][Next]_vars

-----------------------------------------------------------------------------
(* Properties.                                                             *)

\* The reservations of a process are those of its requests, whatever way
\* they ended: no count is lost or left behind (ThreadActivity, and the
\* releases of endpoints.py on every path).
ReservationsExact ==
    \A p \in Procs :
        /\ active[p] = Cardinality(Holders(p))
        /\ deleting[p] <=> \E d \in Deletes : At[d] = p /\ pc[d] \in Removing
        /\ controls => active[p] <= 1

\* A deletion that may remove something has the conversation to itself: no
\* run of its process and, with a conversation filesystem, no run, creation,
\* save, other deletion or sandbox command of any process.
DeletionAlone ==
    \A d \in Deletes :
        /\ pc[d] \in Removing =>
              \A q \in Invocations : At[q] = At[d] => pc[q] \notin Reserved
        /\ filesystem /\ pc[d] \in Guarded =>
              /\ SharedHolders = {}
              /\ ExclusiveHolders = {d}
              /\ command # "running"

\* A file is saved only while no run and no sandbox command of any process
\* uses the workspace, though neither takes notice of a save.
SaveAlone ==
    \A v \in Visits : pc[v] \in Saving =>
        /\ SharedHolders = {}
        /\ ExclusiveHolders = {v}
        /\ command # "running"

\* With a conversation filesystem a row that is missing leaves no files and
\* no checkpoints behind that nobody could delete any more.
RowGoesLast ==
    filesystem /\ ~row => files = "none" /\ ~checkpoint

\* With a conversation filesystem nothing brings a deleted conversation back:
\* no request authorized earlier, in whatever process, no stale tab, no
\* tool thread that outlived its run and no queued command.
NoRevival ==
    [][filesystem /\ tombstone /\ ~row =>
          tombstone' /\ ~row' /\ ~checkpoint' /\ files' = "none"]_vars

\* Violated.  A deletion that reports success has removed the workspace:
\* src/tests/test_server_contracts.py:751, "A surviving workspace must not be
\* reported as a successful deletion."
WorkspaceErased ==
    [][\A d \in Deletes : RemoveRow(d) => files = "none"]_vars

\* Violated.  A deletion that ended early can be repeated: the chat is not
\* left retired with files that store.delete refuses
\* (src/tests/test_conversation_filesystem.py:541,
\* test_failed_delete_does_not_leave_live_chat_tombstoned).
NotStuck ==
    (\A d \in Deletes : pc[d] \notin InTree) => ~(row /\ tombstone /\ files = "ownerless")
=============================================================================
