----------------------------- MODULE AgentService -----------------------------
(***************************************************************************)
(* The life of one API process: the database and its savers, the           *)
(* application's own lifespans, the agents that requests build on first    *)
(* use (server/agent/registry.py) and the job queue that tool threads open *)
(* on first use (sandbox/runtime.py), from the boot of the process to the  *)
(* last pool it closes (server/service.py).                                *)
(*                                                                         *)
(* Requests interleave at their awaits, tool threads at any step.  The     *)
(* HTTP server lets the lifespan end when no request is left.              *)
(***************************************************************************)
EXTENDS Naturals, Sequences, SequencesExt

CONSTANTS
    Agents,     \* ids with a registered factory
    Requests,   \* bound: requests at a time
    Tools,      \* bound: tool threads at a time
    Principals, \* ids a deployment may configure as its fixed principal
    None,
    MaxBoots    \* bound: starts of the process

ASSUME ServiceAssumption ==
    /\ None \notin Agents \cup Requests \cup Tools \cup Principals
    /\ MaxBoots \in Nat

VARIABLES
    phase,       \* how far the lifespan of the application is
    principal,   \* the fixed principal, None with a real identity provider
    row,         \* the user in the table, which survives the process
    database,    \* the engine, the pool and the savers over it
    extra,       \* an application lifespan is entered
    using,       \* the agent its background work uses
    registered,  \* _agent_registry
    open,        \* the instances of an agent nobody has closed
    closing,     \* shutdown_agents's list
    holder,      \* who holds the lock of an agent, or None
    line,        \* who waits for it, in order
    pc, want,    \* a request in get_agent
    queue,       \* _jobs
    pools,       \* the queues nobody has closed
    opener,      \* _jobs_lock
    tool,        \* a thread in get_sandbox_jobs
    boots

outside == <<principal, row, boots>>
agents == <<registered, open, closing, holder, line>>
requests == <<pc, want>>
jobs == <<queue, pools, opener, tool>>
vars == <<phase, outside, database, extra, using, agents, requests, jobs>>

TypeOK ==
    /\ phase \in {"down", "opening", "setup", "seeding", "entering", "serving",
                  "unwinding", "stopping", "closing", "ended"}
    /\ principal \in Principals \cup {None} /\ row \in Principals \cup {None}
    /\ database \in {"closed", "open", "ready"}
    /\ extra \in BOOLEAN
    /\ using \in Agents \cup {None}
    /\ registered \subseteq Agents
    /\ open \in [Agents -> Nat]
    /\ closing \subseteq Agents
    /\ holder \in [Agents -> Requests \cup {None}]
    /\ line \in [Agents -> Seq(Requests)]
    /\ pc \in [Requests -> {"new", "waiting", "building", "answered", "refused", "gone"}]
    /\ want \in [Requests -> Agents \cup {None}]
    /\ queue \in BOOLEAN
    /\ pools \in 0 .. 1
    /\ opener \in Tools \cup {None}
    /\ tool \in [Tools -> {"off", "wants", "opening", "has"}]
    /\ boots \in 0 .. MaxBoots

Fresh ==
    /\ database' = "closed" /\ extra' = FALSE /\ using' = None
    /\ registered' = {} /\ open' = [a \in Agents |-> 0] /\ closing' = {}
    /\ holder' = [a \in Agents |-> None] /\ line' = [a \in Agents |-> <<>>]
    /\ pc' = [r \in Requests |-> "new"] /\ want' = [r \in Requests |-> None]
    /\ queue' = FALSE /\ pools' = 0 /\ opener' = None
    /\ tool' = [t \in Tools |-> "off"]

Init ==
    /\ phase = "down" /\ principal = None /\ row = None /\ boots = 0
    /\ database = "closed" /\ extra = FALSE /\ using = None
    /\ registered = {} /\ open = [a \in Agents |-> 0] /\ closing = {}
    /\ holder = [a \in Agents |-> None] /\ line = [a \in Agents |-> <<>>]
    /\ pc = [r \in Requests |-> "new"] /\ want = [r \in Requests |-> None]
    /\ queue = FALSE /\ pools = 0 /\ opener = None
    /\ tool = [t \in Tools |-> "off"]

-----------------------------------------------------------------------------
(* The lifespan.                                                           *)

\* A fixed principal is refused where others can reach the API.
MayServe(p, published) == p = None \/ ~published

Boot(p, published) ==
    /\ phase = "down"
    /\ boots < MaxBoots
    /\ MayServe(p, published)
    /\ boots' = boots + 1
    /\ principal' = p
    /\ phase' = "opening"
    /\ UNCHANGED <<row, database, extra, using, agents, requests, jobs>>

Moves(from, to) ==
    /\ phase = from
    /\ phase' = to
    /\ UNCHANGED <<requests, jobs>>

\* The engine connects and the pool opens, or the process gives up.
OpenDatabase ==
    /\ Moves("opening", "setup")
    /\ database' = "open"
    /\ UNCHANGED <<outside, extra, using, agents>>

DatabaseFails ==
    /\ Moves("opening", "closing")
    /\ UNCHANGED <<outside, database, extra, using, agents>>

\* The checkpointer and the store migrate their tables over the pool.
SetUp ==
    /\ Moves("setup", "seeding")
    /\ database' = "ready"
    /\ UNCHANGED <<outside, extra, using, agents>>

SetUpFails ==
    /\ Moves("setup", "closing")
    /\ UNCHANGED <<outside, database, extra, using, agents>>

\* A fixed principal gets its row; one whose id is not the stored one is an
\* error.
SeedRow ==
    /\ Moves("seeding", "entering")
    /\ principal # None => row \in {None, principal}
    /\ row' = IF principal # None THEN principal ELSE row
    /\ UNCHANGED <<principal, boots, database, extra, using, agents>>

\* The stored id is another, or the database fails.
SeedFails ==
    /\ Moves("seeding", "closing")
    /\ principal # None
    /\ UNCHANGED <<outside, database, extra, using, agents>>

Enter ==
    /\ Moves("entering", "serving")
    /\ extra' = TRUE
    /\ UNCHANGED <<outside, database, using, agents>>

\* A lifespan of the application raises: what was entered unwinds.
EnterFails ==
    /\ Moves("entering", "stopping")
    /\ closing' = registered
    /\ UNCHANGED <<outside, database, extra, using, registered, open, holder, line>>

Pending(r) == pc[r] \in {"waiting", "building"}

Leave ==
    /\ Moves("serving", "unwinding")
    /\ \A r \in Requests : ~Pending(r)
    /\ UNCHANGED <<outside, database, extra, using, agents>>

\* The application's lifespan waits for its background work, and that of the
\* sandbox closes the queue it finds; the agents are listed for closing.
Unwind ==
    /\ phase = "unwinding"
    /\ using = None
    /\ phase' = "stopping"
    /\ extra' = FALSE
    /\ queue' = FALSE
    /\ pools' = IF queue THEN 0 ELSE pools
    /\ closing' = registered
    /\ UNCHANGED <<outside, database, using, registered, open, holder, line, requests, opener, tool>>

\* An instance is closed, or its close raises and the next one follows.
CloseAgent(a) ==
    /\ phase = "stopping"
    /\ a \in closing
    /\ closing' = closing \ {a}
    /\ open' = [open EXCEPT ![a] = @ - 1]
    /\ UNCHANGED <<phase, outside, database, extra, using, registered, holder, line, requests, jobs>>

ClearRegistry ==
    /\ Moves("stopping", "closing")
    /\ closing = {}
    /\ registered' = {}
    /\ holder' = [a \in Agents |-> None] /\ line' = [a \in Agents |-> <<>>]
    /\ UNCHANGED <<outside, database, extra, using, open, closing>>

CloseDatabase ==
    /\ Moves("closing", "ended")
    /\ database' = "closed"
    /\ UNCHANGED <<outside, extra, using, agents>>

\* The process ends, by itself after its lifespan or killed.
Exit ==
    /\ phase # "down"
    /\ phase' = "down"
    /\ Fresh
    /\ UNCHANGED outside

-----------------------------------------------------------------------------
(* get_agent.                                                              *)

Asks ==
    /\ phase = "serving"
    /\ UNCHANGED <<phase, outside, database, extra, using, closing, jobs>>

\* A cached agent is returned; otherwise the request takes its place at the
\* lock of the agent.
Ask(r, a) ==
    /\ Asks
    /\ pc[r] = "new"
    /\ want' = [want EXCEPT ![r] = a]
    /\ IF a \in registered
          THEN /\ pc' = [pc EXCEPT ![r] = "answered"]
               /\ UNCHANGED line
          ELSE /\ pc' = [pc EXCEPT ![r] = "waiting"]
               /\ line' = [line EXCEPT ![a] = Append(@, r)]
    /\ UNCHANGED <<registered, open, holder>>

\* The lock is free and the request is the first that waits for it.
MyTurn(r) ==
    /\ pc[r] = "waiting"
    /\ holder[want[r]] = None
    /\ Head(line[want[r]]) = r

\* A request stops waiting: with the lock, or because it is cancelled.
LeaveLine(r) == line' = [line EXCEPT ![want[r]] = RemoveFirst(@, r)]

\* One that waited finds what the first has cached, and passes the lock on.
FindCached(r) ==
    /\ Asks
    /\ MyTurn(r)
    /\ want[r] \in registered
    /\ pc' = [pc EXCEPT ![r] = "answered"]
    /\ LeaveLine(r)
    /\ UNCHANGED <<registered, open, holder, want>>

TakeLock(r) ==
    /\ holder' = [holder EXCEPT ![want[r]] = r]
    /\ LeaveLine(r)

\* Mutant: the cache is not looked at again under the lock.
StartBuildAgain(r) ==
    /\ Asks
    /\ MyTurn(r)
    /\ TakeLock(r)
    /\ pc' = [pc EXCEPT ![r] = "building"]
    /\ UNCHANGED <<registered, open, want>>

StartBuild(r) ==
    /\ Asks
    /\ MyTurn(r)
    /\ want[r] \notin registered
    /\ TakeLock(r)
    /\ pc' = [pc EXCEPT ![r] = "building"]
    /\ UNCHANGED <<registered, open, want>>

\* The factory is left, and with it the block of the lock.
Leaves(r, how) ==
    /\ pc[r] = "building"
    /\ pc' = [pc EXCEPT ![r] = how]
    /\ holder' = [holder EXCEPT ![want[r]] = None]
    /\ UNCHANGED <<line, want>>

\* The factory returns an instance and its graph.
Built(r) ==
    /\ Asks
    /\ Leaves(r, "answered")
    /\ database = "ready"
    /\ registered' = registered \cup {want[r]}
    /\ open' = [open EXCEPT ![want[r]] = @ + 1]

\* Mutant: the lock is not released when the factory raises.
BuildFailsHolding(r) ==
    /\ Asks
    /\ pc[r] = "building"
    /\ pc' = [pc EXCEPT ![r] = "refused"]
    /\ UNCHANGED <<registered, open, holder, line, want>>

\* The factory raises: the next request tries again.
BuildFails(r) ==
    /\ Asks
    /\ Leaves(r, "refused")
    /\ UNCHANGED <<registered, open>>

\* The client has gone, or the server stops: the task is cancelled at its
\* await, in the factory or at the lock.
CancelBuild(r) ==
    /\ Asks
    /\ Leaves(r, "gone")
    /\ UNCHANGED <<registered, open>>

CancelWait(r) ==
    /\ Asks
    /\ pc[r] = "waiting"
    /\ pc' = [pc EXCEPT ![r] = "gone"]
    /\ LeaveLine(r)
    /\ UNCHANGED <<registered, open, holder, want>>

Again(r) ==
    /\ Asks
    /\ pc[r] \in {"answered", "refused", "gone"}
    /\ pc' = [pc EXCEPT ![r] = "new"]
    /\ want' = [want EXCEPT ![r] = None]
    /\ UNCHANGED <<registered, open, holder, line>>

\* Background work of the application takes an agent that has been created.
UseAgent(a) ==
    /\ phase = "serving" /\ extra
    /\ using = None
    /\ a \in registered
    /\ using' = a
    /\ UNCHANGED <<phase, outside, database, extra, agents, requests, jobs>>

UseEnds ==
    /\ using # None
    /\ using' = None
    /\ UNCHANGED <<phase, outside, database, extra, agents, requests, jobs>>

-----------------------------------------------------------------------------
(* get_sandbox_jobs, in a tool thread.  A thread may outlive its run, and  *)
(* so the lifespan.                                                        *)

Threads == UNCHANGED <<phase, outside, database, extra, using, agents, requests>>

CheckQueue(t) ==
    /\ Threads
    /\ phase \in {"serving", "unwinding", "stopping", "closing", "ended"}
    /\ tool[t] = "off"
    /\ tool' = [tool EXCEPT ![t] = IF queue THEN "has" ELSE "wants"]
    /\ UNCHANGED <<queue, pools, opener>>

\* Mutant: only the look before the lock.
LockQueueOnce(t) ==
    /\ Threads
    /\ tool[t] = "wants" /\ opener = None
    /\ tool' = [tool EXCEPT ![t] = "opening"] /\ opener' = t
    /\ UNCHANGED <<queue, pools>>

\* Under the lock: another thread may have opened it meanwhile.
LockQueue(t) ==
    /\ Threads
    /\ tool[t] = "wants" /\ opener = None
    /\ IF queue
          THEN tool' = [tool EXCEPT ![t] = "has"] /\ UNCHANGED opener
          ELSE tool' = [tool EXCEPT ![t] = "opening"] /\ opener' = t
    /\ UNCHANGED <<queue, pools>>

OpenQueue(t) ==
    /\ Threads
    /\ tool[t] = "opening"
    /\ queue' = TRUE /\ pools' = pools + 1
    /\ opener' = None
    /\ tool' = [tool EXCEPT ![t] = "has"]

OpenQueueFails(t) ==
    /\ Threads
    /\ tool[t] = "opening"
    /\ opener' = None
    /\ tool' = [tool EXCEPT ![t] = "off"]
    /\ UNCHANGED <<queue, pools>>

ToolEnds(t) ==
    /\ Threads
    /\ tool[t] = "has"
    /\ tool' = [tool EXCEPT ![t] = "off"]
    /\ UNCHANGED <<queue, pools, opener>>

-----------------------------------------------------------------------------
Lifespan ==
    \/ \E p \in Principals \cup {None}, published \in BOOLEAN : Boot(p, published)
    \/ OpenDatabase \/ DatabaseFails \/ SetUp \/ SetUpFails \/ SeedRow \/ SeedFails
    \/ Enter \/ EnterFails \/ Leave \/ Unwind
    \/ \E a \in Agents : CloseAgent(a)
    \/ ClearRegistry \/ CloseDatabase \/ Exit

Request(r) ==
    \/ \E a \in Agents : Ask(r, a)
    \/ FindCached(r) \/ StartBuild(r) \/ Built(r) \/ BuildFails(r)
    \/ CancelBuild(r) \/ CancelWait(r) \/ Again(r)

Background == UseEnds \/ \E a \in Agents : UseAgent(a)

Thread(t) ==
    \/ CheckQueue(t) \/ LockQueue(t) \/ OpenQueue(t) \/ OpenQueueFails(t) \/ ToolEnds(t)

Next ==
    \/ Lifespan \/ Background
    \/ \E r \in Requests : Request(r)
    \/ \E t \in Tools : Thread(t)

Spec == Init /\ [][Next]_vars

\* The event loop goes on with a request that has the lock, and a factory
\* returns or raises.
Fairness == \A r \in Requests :
    /\ WF_vars(FindCached(r)) /\ WF_vars(StartBuild(r))
    /\ WF_vars(Built(r) \/ BuildFails(r))

LiveSpec == Spec /\ Fairness

-----------------------------------------------------------------------------
(* Properties.                                                             *)

\* Every agent instance that has been built is the cached one, which shutdown
\* closes: concurrent first requests build one, a failed or cancelled build
\* leaves none, and an agent is closed after the work that uses it and before
\* the database it uses.  (The job queue is not among it: a tool thread that
\* outlives the lifespan opens it again.)
NothingLeaks ==
    /\ \A a \in Agents :
         open[a] = IF a \in registered /\ (phase = "stopping" => a \in closing) THEN 1 ELSE 0
    /\ using # None => open[using] = 1
    /\ (\E a \in Agents : open[a] > 0) => database = "ready"
    /\ phase \in {"down", "ended"} => database = "closed" /\ ~extra

\* Every request for an agent is answered, refused or cancelled: no failed or
\* cancelled build leaves the lock of the agent behind.
GetsAnswered ==
    \A r \in Requests : Pending(r) ~> ~Pending(r)
=============================================================================
