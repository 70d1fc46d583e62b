------------------------- MODULE AgentServiceProofs -------------------------
(***************************************************************************)
(* Machine-checked theorems about AgentService: for any agents, requests,  *)
(* tool threads and boots, no agent instance is lost or outlives what it   *)
(* needs, and no second job queue is opened.  The second part is about     *)
(* StreamPath: for any messages, questions and bounds, a page shows a      *)
(* message once, no response ends untold, and runs keep their ledger.      *)
(***************************************************************************)
EXTENDS AgentService, StreamPath, DataTheorems

Phases == {"down", "opening", "setup", "seeding", "entering", "serving",
           "unwinding", "stopping", "closing", "ended"}
Places == {"new", "waiting", "building", "answered", "refused", "gone"}

\* The types of what the argument is about; who waits in which order is not.
Types ==
    /\ phase \in Phases
    /\ extra \in BOOLEAN
    /\ using \in Agents \cup {None}
    /\ registered \subseteq Agents
    /\ open \in [Agents -> Nat]
    /\ closing \subseteq registered
    /\ holder \in [Agents -> Requests \cup {None}]
    /\ pc \in [Requests -> Places]
    /\ want \in [Requests -> Agents \cup {None}]

\* A request that builds an agent holds its lock and there is no agent yet, so
\* nobody else builds it.
Locks ==
    \A r \in Requests :
        /\ pc[r] \in {"waiting", "building"} => phase = "serving" /\ want[r] \in Agents
        /\ pc[r] = "building" => holder[want[r]] = r /\ want[r] \notin registered

\* What each phase has opened: agents exist between the first request and the
\* end of shutdown_agents, and their users only before it.
Order ==
    /\ phase \notin {"serving", "unwinding", "stopping"} => registered = {}
    /\ phase \in {"seeding", "entering", "serving", "unwinding", "stopping"}
          => database = "ready"
    /\ phase \in {"down", "ended"} => database = "closed"
    /\ extra => phase \in {"serving", "unwinding"}
    /\ using # None => extra /\ using \in registered

Safe == Types /\ Locks /\ Order /\ NothingLeaks

-----------------------------------------------------------------------------
\* A process that is not running has nothing.
Unstarted ==
    /\ phase = "down" /\ database = "closed" /\ extra = FALSE /\ using = None
    /\ registered = {} /\ closing = {}
    /\ open = [a \in Agents |-> 0]
    /\ holder = [a \in Agents |-> None]
    /\ pc = [r \in Requests |-> "new"]
    /\ want = [r \in Requests |-> None]

\* Such a process is safe
LEMMA UnstartedIsSafe == Unstarted => Safe
<1> SUFFICES ASSUME Unstarted
             PROVE  Safe
  OBVIOUS
<1>1. /\ phase = "down" /\ database = "closed" /\ extra = FALSE /\ using = None
      /\ registered = {} /\ closing = {}
  BY DEF Unstarted
<1>2. /\ open \in [Agents -> Nat]
      /\ holder \in [Agents -> Requests \cup {None}]
      /\ want \in [Requests -> Agents \cup {None}]
      /\ pc \in [Requests -> Places]
  BY DEF Unstarted, Places
<1>3. /\ \A a \in Agents : open[a] = 0
      /\ \A r \in Requests : pc[r] = "new"
  BY DEF Unstarted
<1>4. Types
  BY <1>1, <1>2 DEF Types, Phases
<1>5. Locks
  BY <1>3 DEF Locks
<1>6. Order
  BY <1>1 DEF Order
<1>7. NothingLeaks
  BY <1>1, <1>3 DEF NothingLeaks
<1> QED
  BY <1>4, <1>5, <1>6, <1>7 DEF Safe

\* and so is the initial state.
LEMMA SafeInit == Init => Safe
BY UnstartedIsSafe DEF Init, Unstarted

\* The lifespan, as long as it neither lists nor closes agents.
LEMMA OpeningStep ==
    ASSUME Safe,
           \/ \E p \in Principals \cup {None}, published \in BOOLEAN : Boot(p, published)
           \/ OpenDatabase \/ DatabaseFails \/ SetUp \/ SetUpFails \/ SeedRow \/ SeedFails
           \/ Enter \/ Leave \/ CloseDatabase
    PROVE  Safe'
<1> USE DEF Safe, Types, Phases, Locks, Order, NothingLeaks, outside, agents, requests, jobs,
            Moves, Pending
<1>1. CASE \E p \in Principals \cup {None}, published \in BOOLEAN : Boot(p, published)
  BY <1>1 DEF Boot
<1>2. CASE OpenDatabase
  BY <1>2 DEF OpenDatabase
<1>3. CASE DatabaseFails
  BY <1>3 DEF DatabaseFails
<1>4. CASE SetUp
  BY <1>4 DEF SetUp
<1>5. CASE SetUpFails
  BY <1>5 DEF SetUpFails
<1>6. CASE SeedRow
  BY <1>6 DEF SeedRow
<1>7. CASE SeedFails
  BY <1>7 DEF SeedFails
<1>8. CASE Enter
  BY <1>8 DEF Enter
<1>9. CASE Leave
  BY <1>9 DEF Leave
<1>10. CASE CloseDatabase
  BY <1>10 DEF CloseDatabase
<1> QED
  BY <1>1, <1>2, <1>3, <1>4, <1>5, <1>6, <1>7, <1>8, <1>9, <1>10

\* shutdown_agents: what is listed is closed once, and then forgotten.
LEMMA ShutdownStep ==
    ASSUME Safe,
           \/ EnterFails \/ Unwind \/ ClearRegistry \/ Exit
           \/ \E a \in Agents : CloseAgent(a)
    PROVE  Safe'
<1> USE DEF Safe, Types, Phases, Places, Locks, Order, NothingLeaks, outside, requests, jobs,
            Moves
<1>1. CASE EnterFails
  BY <1>1 DEF EnterFails
<1>2. CASE Unwind
  BY <1>2 DEF Unwind
<1>3. CASE ClearRegistry
  BY <1>3 DEF ClearRegistry
<1>4. CASE Exit
  <2>1. Unstarted'
    BY <1>4 DEF Exit, Fresh, Unstarted
  <2>2. Unstarted' => Safe'
    BY UnstartedIsSafe, PTL
  <2> QED
    BY <2>1, <2>2
<1>5. ASSUME NEW a \in Agents, CloseAgent(a)
      PROVE  Safe'
  <2>1. open[a] = 1 /\ a \in registered
    BY <1>5 DEF CloseAgent
  <2>2. open' = [open EXCEPT ![a] = 0]
    BY <1>5, <2>1 DEF CloseAgent
  <2> QED
    BY <1>5, <2>1, <2>2 DEF CloseAgent
<1> QED
  BY <1>1, <1>2, <1>3, <1>4, <1>5

\* get_agent: an instance is added by the holder of the lock of an agent that
\* is not cached.
LEMMA RequestStep ==
    ASSUME Safe, NEW r \in Requests, Request(r)
    PROVE  Safe'
<1> USE DEF Safe, Types, Phases, Places, Locks, Order, NothingLeaks, outside, jobs, Asks
<1>1. ASSUME NEW a \in Agents, Ask(r, a)
      PROVE  Safe'
  BY <1>1 DEF Ask
<1>2. CASE FindCached(r)
  BY <1>2 DEF FindCached, MyTurn, LeaveLine
<1>3. CASE StartBuild(r)
  BY <1>3, ServiceAssumption DEF StartBuild, MyTurn, TakeLock, LeaveLine
<1>4. CASE Built(r)
  <2>1. open[want[r]] = 0 /\ want[r] \in Agents
    BY <1>4 DEF Built, Leaves
  <2>2. open' = [open EXCEPT ![want[r]] = 1]
    BY <1>4, <2>1 DEF Built
  <2>3. \A q \in Requests \ {r} : pc'[q] = "building" => want[q] # want[r]
    BY <1>4 DEF Built, Leaves
  <2> QED
    BY <1>4, <2>1, <2>2, <2>3 DEF Built, Leaves
<1>5. CASE BuildFails(r)
  BY <1>5 DEF BuildFails, Leaves
<1>6. CASE CancelBuild(r)
  BY <1>6 DEF CancelBuild, Leaves
<1>7. CASE CancelWait(r)
  BY <1>7 DEF CancelWait, LeaveLine
<1>8. CASE Again(r)
  BY <1>8 DEF Again
<1> QED
  BY <1>1, <1>2, <1>3, <1>4, <1>5, <1>6, <1>7, <1>8 DEF Request

\* Every step keeps the invariant.
LEMMA SafeStep == Safe /\ [Next]_vars => Safe'
<1> SUFFICES ASSUME Safe, [Next]_vars
             PROVE  Safe'
  OBVIOUS
<1>1. CASE Lifespan
  BY <1>1, OpeningStep, ShutdownStep DEF Lifespan
<1>2. CASE \E r \in Requests : Request(r)
  BY <1>2, RequestStep
<1>3. CASE Background
  BY <1>3, ServiceAssumption
  DEF Background, UseAgent, UseEnds, Safe, Types, Locks, Order, NothingLeaks,
      outside, agents, requests
<1>4. ASSUME NEW t \in Tools, Thread(t)
      PROVE  Safe'
  BY <1>4
  DEF Thread, CheckQueue, LockQueue, OpenQueue, OpenQueueFails, ToolEnds, Threads,
      Safe, Types, Locks, Order, NothingLeaks, outside, agents, requests
<1>5. CASE UNCHANGED vars
  BY <1>5
  DEF vars, Safe, Types, Locks, Order, NothingLeaks, outside, agents, requests, jobs
<1> QED
  BY <1>1, <1>2, <1>3, <1>4, <1>5 DEF Next

\* Every instance that was built is the cached one or is being closed; it is
\* closed after its last user and before the database, on every path through
\* registry.py and the lifespans of service.py.
THEOREM NoAgentLeaks == Spec => []NothingLeaks
<1>1. Safe => NothingLeaks
  BY DEF Safe
<1> QED
  BY <1>1, SafeInit, SafeStep, PTL DEF Spec
-----------------------------------------------------------------------------
(* The rest of the state.                                                  *)

\* The one queue that is open is the cached one, and the thread that opens it
\* is alone under the lock.
OneQueue ==
    /\ queue \in BOOLEAN
    /\ pools = IF queue THEN 1 ELSE 0
    /\ opener \in Tools \cup {None}
    /\ tool \in [Tools -> {"off", "wants", "opening", "has"}]
    /\ \A t \in Tools : tool[t] = "opening" => opener = t /\ ~queue

\* What no other part of the argument is about.
Others ==
    /\ principal \in Principals \cup {None} /\ row \in Principals \cup {None}
    /\ database \in {"closed", "open", "ready"}
    /\ line \in [Agents -> Seq(Requests)]
    /\ boots \in 0 .. MaxBoots

\* A new process has no queue.
LEMMA QueueInit == Init => OneQueue /\ Others
<1> SUFFICES ASSUME Init PROVE OneQueue /\ Others OBVIOUS
<1>1. OneQueue BY DEF Init, OneQueue
<1>2. line \in [Agents -> Seq(Requests)] BY EmptySeq DEF Init
<1>3. boots \in 0 .. MaxBoots BY ServiceAssumption DEF Init
<1> QED BY <1>1, <1>2, <1>3 DEF Init, Others

\* get_sandbox_jobs looks again under its lock; the sandbox's lifespan closes
\* the queue it finds, and the end of the process every other.
LEMMA QueueStep ==
    ASSUME OneQueue, [Next]_vars
    PROVE  OneQueue'
<1> USE DEF OneQueue
<1>1. CASE Lifespan
  <2>1. CASE Unwind BY <2>1 DEF Unwind
  <2>2. CASE Exit BY <2>2 DEF Exit, Fresh
  <2>3. CASE \E p \in Principals \cup {None}, published \in BOOLEAN : Boot(p, published)
        BY <2>3 DEF Boot, jobs
  <2>4. CASE \E a \in Agents : CloseAgent(a) BY <2>4 DEF CloseAgent, jobs
  <2>5. CASE \/ OpenDatabase \/ DatabaseFails \/ SetUp \/ SetUpFails \/ SeedRow \/ SeedFails
             \/ Enter \/ EnterFails \/ Leave \/ ClearRegistry \/ CloseDatabase
    <3>1. UNCHANGED jobs
          BY <2>5 DEF OpenDatabase, DatabaseFails, SetUp, SetUpFails, SeedRow, SeedFails,
                      Enter, EnterFails, Leave, ClearRegistry, CloseDatabase, Moves
    <3> QED BY <3>1 DEF jobs
  <2> QED BY <1>1, <2>1, <2>2, <2>3, <2>4, <2>5 DEF Lifespan
<1>2. ASSUME NEW r \in Requests, Request(r) PROVE OneQueue'
  <2>1. UNCHANGED jobs
        BY <1>2 DEF Request, Ask, FindCached, StartBuild, Built, BuildFails, CancelBuild,
                    CancelWait, Again, Asks
  <2> QED BY <2>1 DEF jobs
<1>3. CASE Background BY <1>3 DEF Background, UseAgent, UseEnds, jobs
<1>4. ASSUME NEW t \in Tools, Thread(t) PROVE OneQueue'
  <2> USE ServiceAssumption
  <2>1. CASE CheckQueue(t) BY <2>1 DEF CheckQueue
  <2>2. CASE LockQueue(t) BY <2>2 DEF LockQueue
  <2>3. CASE OpenQueue(t) BY <2>3 DEF OpenQueue
  <2>4. CASE OpenQueueFails(t) BY <2>4 DEF OpenQueueFails
  <2>5. CASE ToolEnds(t) BY <2>5 DEF ToolEnds
  <2> QED BY <1>4, <2>1, <2>2, <2>3, <2>4, <2>5 DEF Thread
<1>5. CASE UNCHANGED vars BY <1>5 DEF vars, jobs
<1> QED BY <1>1, <1>2, <1>3, <1>4, <1>5 DEF Next

\* A request enters the line of an agent at its end and leaves it anywhere.
LEMMA OthersStep ==
    ASSUME Safe, Others, [Next]_vars
    PROVE  Others'
<1> USE DEF Others
<1>1. CASE Lifespan
  <2>1. ASSUME NEW p \in Principals \cup {None}, NEW published \in BOOLEAN, Boot(p, published)
        PROVE  Others'
        BY <2>1, ServiceAssumption DEF Boot, agents
  <2>2. CASE Exit BY <2>2 DEF Exit, Fresh, outside
  <2>3. CASE ClearRegistry BY <2>3 DEF ClearRegistry, outside, Moves
  <2>4. CASE SeedRow BY <2>4 DEF SeedRow, agents, Moves
  <2>5. CASE OpenDatabase \/ SetUp \/ CloseDatabase
        BY <2>5 DEF OpenDatabase, SetUp, CloseDatabase, outside, agents
  <2>6. CASE \/ DatabaseFails \/ SetUpFails \/ SeedFails \/ Enter \/ EnterFails \/ Leave \/ Unwind
             \/ \E a \in Agents : CloseAgent(a)
    <3>1. UNCHANGED <<principal, row, boots, database, line>>
          BY <2>6 DEF DatabaseFails, SetUpFails, SeedFails, Enter, EnterFails, Leave, Unwind,
                      CloseAgent, outside, agents
    <3> QED BY <3>1
  <2> QED BY <1>1, <2>1, <2>2, <2>3, <2>4, <2>5, <2>6 DEF Lifespan
<1>2. ASSUME NEW r \in Requests, Request(r) PROVE Others'
  <2>1. UNCHANGED <<principal, row, boots, database>>
        BY <1>2 DEF Request, Ask, FindCached, StartBuild, Built, BuildFails, CancelBuild,
                    CancelWait, Again, Asks, outside
  <2>2. line' \in [Agents -> Seq(Requests)]
    <3>1. ASSUME NEW a \in Agents, Ask(r, a) PROVE line' \in [Agents -> Seq(Requests)]
      <4>1. Append(line[a], r) \in Seq(Requests) BY AppendProperties
      <4> QED BY <3>1, <4>1 DEF Ask
    <3>2. CASE LeaveLine(r)
      <4>1. \A a \in Agents : RemoveFirst(line[a], r) \in Seq(Requests) BY RemoveTyped
      <4> QED BY <3>2, <4>1 DEF LeaveLine
    <3>3. CASE UNCHANGED line BY <3>3
    <3> QED
        BY <1>2, <3>1, <3>2, <3>3
        DEF Request, FindCached, StartBuild, Built, BuildFails, CancelBuild, CancelWait, Again,
            TakeLock, Leaves
  <2> QED BY <2>1, <2>2
<1>3. CASE Background BY <1>3 DEF Background, UseAgent, UseEnds, outside, agents
<1>4. ASSUME NEW t \in Tools, Thread(t) PROVE Others'
      BY <1>4 DEF Thread, CheckQueue, LockQueue, OpenQueue, OpenQueueFails, ToolEnds, Threads,
                  outside, agents
<1>5. CASE UNCHANGED vars BY <1>5 DEF vars, outside, agents
<1> QED BY <1>1, <1>2, <1>3, <1>4, <1>5 DEF Next

\* Every variable has its type; above all there is at most one open queue, for
\* any number of threads that ask for the first one at once (sandbox/runtime.py,
\* get_sandbox_jobs).
THEOREM ServiceTyped == Spec => []TypeOK
<1>1. Safe /\ OneQueue /\ Others => TypeOK
  BY DEF Safe, Types, Phases, Places, OneQueue, Others, TypeOK
<1>2. OneQueue /\ Others /\ Safe /\ [Next]_vars => OneQueue' /\ Others' /\ Safe'
  BY QueueStep, OthersStep, SafeStep
<1> QED BY <1>1, <1>2, QueueInit, SafeInit, PTL DEF Spec

-----------------------------------------------------------------------------
(* What such a process answers with: one response on its way from the      *)
(* graph to the page (StreamPath).                                         *)

\* What the page can show.
Views == [text : Messages \cup {Nothing}, complete : BOOLEAN,
          transcript : Seq(Entries), card : Questions \cup {Nothing}]

\* What draining means, as an equation.
Drains(g) ==
    g = [n \in 0 .. Len(buffer) |->
            IF n = 0 THEN View ELSE Drawn(g[n - 1], buffer[n])]

\* The page after each frame of the buffer.
LEMMA DrainsExist ==
    ASSUME NEW len \in Nat, len = Len(buffer)
    PROVE  \E g : Drains(g)
<1> DEFINE Upto(g, k) == g = [n \in 0 .. k |->
                IF n = 0 THEN View ELSE Drawn(g[n - 1], buffer[n])]
           A == {k \in Nat : \E g : Upto(g, k)}
<1>1. 0 \in A
  <2>1. Upto([n \in 0 .. 0 |-> View], 0) OBVIOUS
  <2>2. QED BY <2>1
<1>2. ASSUME NEW k \in A PROVE k + 1 \in A
  <2>1. PICK g : Upto(g, k) BY <1>2
  <2> DEFINE h == [n \in 0 .. (k + 1) |->
                IF n = 0 THEN View ELSE Drawn(g[n - 1], buffer[n])]
  <2>2. \A n \in 0 .. k : h[n] = g[n] BY <2>1
  <2>3. Upto(h, k + 1)
    <3>1. \A n \in 0 .. (k + 1) : n # 0 => n - 1 \in 0 .. k OBVIOUS
    <3>2. QED BY <2>2, <3>1
  <2>4. k + 1 \in Nat OBVIOUS
  <2> HIDE DEF h
  <2>5. QED BY <2>3, <2>4
<1>3. A = Nat
  <2> HIDE DEF A
  <2>1. A \in SUBSET Nat BY DEF A
  <2>2. QED BY <1>1, <1>2, <2>1, NumberInduction
<1>4. PICK g : Upto(g, len) BY <1>3
<1>5. QED BY <1>4 DEF Drains

\* What holds of the page before, and is kept by every frame, holds after it.
LEMMA DrainKeeps ==
    ASSUME buffer \in Seq(Frames), NEW V, View \in V,
           \A v \in V, f \in Frames : Drawn(v, f) \in V
    PROVE  Drained \in V
<1>1. Len(buffer) \in Nat /\ \A n \in 1 .. Len(buffer) : buffer[n] \in Frames
      BY LenProperties, ElementOfSeq
<1> DEFINE g == CHOOSE g : Drains(g)
<1>2. Drains(g) BY <1>1, DrainsExist
<1>3. Drained = g[Len(buffer)] BY DEF Drained, Drains
<1> HIDE DEF g
<1> DEFINE A == {k \in Nat : k <= Len(buffer) => g[k] \in V}
<1>4. 0 \in A BY <1>1, <1>2 DEF Drains
<1>5. ASSUME NEW k \in A PROVE k + 1 \in A
  <2>1. SUFFICES ASSUME k + 1 <= Len(buffer) PROVE g[k + 1] \in V OBVIOUS
  <2>2. g[k] \in V /\ k + 1 \in 1 .. Len(buffer) BY <1>1, <2>1
  <2>3. g[k + 1] = Drawn(g[k], buffer[k + 1]) BY <1>1, <1>2, <2>2 DEF Drains
  <2>4. QED BY <1>1, <2>2, <2>3
<1>6. A = Nat
  <2> HIDE DEF A
  <2>1. A \in SUBSET Nat BY DEF A
  <2>2. QED BY <1>4, <1>5, <2>1, NumberInduction
<1>7. QED BY <1>1, <1>3, <1>6
-----------------------------------------------------------------------------
(* Transcripts and histories.                                              *)

\* What a list holds, and that it holds it once.
Items(t) == {t[i] : i \in DOMAIN t}
Distinct(t) == \A a, b \in DOMAIN t : t[a] = t[b] => a = b

\* Entries once each, of which the notes are about responses up to a number.
UpTo(t, n) == /\ t \in Seq(Entries) /\ Distinct(t)
              /\ \A i \in DOMAIN t : t[i].what # "message" => t[i].of <= n

\* Two lists that share nothing.
LEMMA JoinDistinct ==
    ASSUME NEW S, NEW t \in Seq(S), NEW u \in Seq(S), Distinct(t), Distinct(u),
           Items(t) \cap Items(u) = {}
    PROVE  t \o u \in Seq(S) /\ Distinct(t \o u) /\ Items(t \o u) = Items(t) \cup Items(u)
<1>1. /\ DOMAIN t = 1 .. Len(t) /\ DOMAIN u = 1 .. Len(u)
      /\ Len(t) \in Nat /\ Len(u) \in Nat
      BY LenProperties
<1>2. /\ t \o u \in Seq(S) /\ Len(t \o u) = Len(t) + Len(u)
      /\ \A i \in 1 .. Len(t) + Len(u) :
            (t \o u)[i] = IF i <= Len(t) THEN t[i] ELSE u[i - Len(t)]
      BY ConcatProperties
<1> DEFINE w == t \o u
<1>3. DOMAIN w = 1 .. (Len(t) + Len(u)) BY <1>2, LenProperties
<1> HIDE DEF w
<1>4. ASSUME NEW a \in DOMAIN w, NEW b \in DOMAIN w, w[a] = w[b] PROVE a = b
  <2>1. CASE a <= Len(t) /\ b <= Len(t)
    <3>1. a \in DOMAIN t /\ b \in DOMAIN t /\ w[a] = t[a] /\ w[b] = t[b]
          BY <1>1, <1>2, <1>3, <2>1 DEF w
    <3>2. QED BY <1>4, <3>1 DEF Distinct
  <2>2. CASE a > Len(t) /\ b > Len(t)
    <3>1. /\ a - Len(t) \in DOMAIN u /\ b - Len(t) \in DOMAIN u
          /\ w[a] = u[a - Len(t)] /\ w[b] = u[b - Len(t)]
          BY <1>1, <1>2, <1>3, <2>2 DEF w
    <3>2. a - Len(t) = b - Len(t) BY <1>4, <3>1 DEF Distinct
    <3>3. a \in Int /\ b \in Int BY <1>1, <1>3
    <3>4. QED BY <1>1, <3>2, <3>3
  <2>3. ASSUME NEW c \in DOMAIN w, NEW d \in DOMAIN w, c <= Len(t), d > Len(t)
        PROVE  w[c] # w[d]
    <3>1. /\ c \in DOMAIN t /\ w[c] = t[c]
          /\ d - Len(t) \in DOMAIN u /\ w[d] = u[d - Len(t)]
          BY <1>1, <1>2, <1>3, <2>3 DEF w
    <3>2. w[c] \in Items(t) /\ w[d] \in Items(u) BY <3>1 DEF Items
    <3>3. QED BY <3>2
  <2>4. QED BY <1>1, <1>3, <1>4, <2>1, <2>2, <2>3 DEF w
<1>5. Items(w) = Items(t) \cup Items(u)
  <2>1. ASSUME NEW i \in DOMAIN w PROVE w[i] \in Items(t) \cup Items(u)
    <3>1. CASE i <= Len(t) BY <1>1, <1>2, <1>3, <3>1 DEF w, Items
    <3>2. CASE i > Len(t)
      <4>1. i - Len(t) \in DOMAIN u /\ w[i] = u[i - Len(t)] BY <1>1, <1>2, <1>3, <3>2 DEF w
      <4>2. QED BY <4>1 DEF Items
    <3>3. QED BY <1>1, <1>3, <3>1, <3>2 DEF w
  <2>2. ASSUME NEW i \in DOMAIN t PROVE t[i] \in Items(w)
        BY <1>1, <1>2, <1>3 DEF w, Items
  <2>3. ASSUME NEW i \in DOMAIN u PROVE u[i] \in Items(w)
    <3>1. Len(t) + i \in DOMAIN w /\ w[Len(t) + i] = u[i] BY <1>1, <1>2, <1>3 DEF w
    <3>2. QED BY <3>1 DEF Items
  <2>4. QED BY <2>1, <2>2, <2>3 DEF Items
<1>6. QED BY <1>2, <1>4, <1>5 DEF w, Distinct

\* A list of one, or of none.
LEMMA FewDistinct ==
    /\ \A S : <<>> \in Seq(S) /\ Distinct(<<>>) /\ Items(<<>>) = {}
    /\ \A S : \A e \in S : <<e>> \in Seq(S) /\ Distinct(<<e>>) /\ Items(<<e>>) = {e}
BY DEF Distinct, Items

\* A list grows by what it has not.
LEMMA AppendDistinct ==
    ASSUME NEW S, NEW t \in Seq(S), Distinct(t), NEW e \in S, e \notin Items(t)
    PROVE  Append(t, e) \in Seq(S) /\ Distinct(Append(t, e))
           /\ Items(Append(t, e)) = Items(t) \cup {e}
<1> DEFINE u == <<e>>
<1>1. u \in Seq(S) /\ Distinct(u) /\ Items(u) = {e} BY FewDistinct
<1>2. Append(t, e) = t \o u BY AppendIsConcat
<1> HIDE DEF u
<1>3. Items(t) \cap Items(u) = {} BY <1>1
<1>4. QED BY <1>1, <1>2, <1>3, JoinDistinct

\* The limit of the notes is about the items.
LEMMA UpToItems ==
    ASSUME NEW t \in Seq(Entries), NEW n
    PROVE  UpTo(t, n) <=> Distinct(t) /\ \A e \in Items(t) : e.what # "message" => e.of <= n
BY DEF UpTo, Items
-----------------------------------------------------------------------------
(* Its types.                                                              *)

\* No run is under way.
Over == run \notin {"running", "stopping", "finalizing"}

\* A run that is under way has the lease, and only such a run is stopped.
Reserved ==
    /\ ~Over => leased
    /\ Over => ~cancelled

\* The numbers of the responses.
Numbers ==
    /\ serving <= responses
    /\ link = "request" => serving < responses
    /\ ~Over => serving >= 1
    /\ page # "idle" => responses >= 1

\* What a frame can be.
LEMMA FramesAre ==
    /\ \A x \in States : Frame("run", x) \in Frames
    /\ \A m \in Messages : /\ Frame("token", m) \in Frames
                           /\ Frame("message", m) \in Frames
    /\ \A q \in Questions : Frame("question", q) \in Frames
    /\ Failure \in Frames
BY DEF Frame, Frames, Failure

\* What a list of the conversation holds.
LEMMA EntriesAre ==
    /\ \A m \in Messages : Entry("message", m) \in Entries
    /\ \A n \in 1 .. MaxResponses, k \in {"failed", "stopped", "partial"} :
          Entry(k, n) \in Entries
BY DEF Entry, Entries

\* The notes of one response or of one run.
LEMMA ClosingTyped ==
    ASSUME serving \in 1 .. MaxResponses
    PROVE  /\ Closing \in Seq(Entries)
           /\ Distinct(Closing)
           /\ \A e \in Items(Closing) : e.what # "message" /\ e.of = serving
<1> DEFINE p == Entry("partial", serving)
           s == Entry("stopped", serving)
<1>1. p \in Entries /\ s \in Entries BY EntriesAre
<1>2. /\ p # s /\ p.what # "message" /\ s.what # "message"
      /\ p.of = serving /\ s.of = serving
      BY DEF Entry
<1> DEFINE t == IF begun \subseteq sent THEN <<>> ELSE <<p>>
           u == <<s>>
<1>3. Closing = t \o u BY DEF Closing, Partial
<1> HIDE DEF p, s
<1>4. /\ t \in Seq(Entries) /\ Distinct(t) /\ Items(t) \subseteq {p}
      /\ u \in Seq(Entries) /\ Distinct(u) /\ Items(u) = {s}
      BY <1>1, FewDistinct
<1> HIDE DEF t, u
<1>5. Items(t) \cap Items(u) = {} BY <1>2, <1>4
<1>6. t \o u \in Seq(Entries) /\ Distinct(t \o u) /\ Items(t \o u) \subseteq {p, s}
      BY <1>4, <1>5, JoinDistinct
<1>7. QED BY <1>2, <1>3, <1>6

\* The same of what a response adds to the transcript.
LEMMA NotesTyped ==
    ASSUME responses \in 1 .. MaxResponses
    PROVE  /\ Notes \in Seq(Entries)
           /\ Distinct(Notes)
           /\ \A e \in Items(Notes) : e.what # "message" /\ e.of = responses
           /\ error \/ state = "failed" => Entry("failed", responses) \in Items(Notes)
<1> DEFINE f == Entry("failed", responses)
           p == Entry("partial", responses)
           s == Entry("stopped", responses)
<1>1. p \in Entries /\ s \in Entries /\ f \in Entries BY EntriesAre
<1>2. /\ p # s /\ p # f /\ f # s
      /\ p.what # "message" /\ s.what # "message" /\ f.what # "message"
      /\ p.of = responses /\ s.of = responses /\ f.of = responses
      BY DEF Entry
<1> DEFINE t == IF error \/ state = "failed" THEN <<f>> ELSE <<>>
           u == IF text # Nothing /\ ~complete THEN <<p>> ELSE <<>>
           v == IF state = "cancelled" THEN <<s>> ELSE <<>>
<1>3. Notes = (t \o u) \o v BY DEF Notes
<1> HIDE DEF f, p, s
<1>4. /\ t \in Seq(Entries) /\ Distinct(t) /\ Items(t) \subseteq {f}
      /\ u \in Seq(Entries) /\ Distinct(u) /\ Items(u) \subseteq {p}
      /\ v \in Seq(Entries) /\ Distinct(v) /\ Items(v) \subseteq {s}
      /\ error \/ state = "failed" => f \in Items(t)
      BY <1>1, FewDistinct
<1> HIDE DEF t, u, v
<1> DEFINE w == t \o u
<1>5. w \in Seq(Entries) /\ Distinct(w) /\ Items(w) = Items(t) \cup Items(u)
      BY <1>2, <1>4, JoinDistinct
<1> HIDE DEF w
<1>6. Items(w) \cap Items(v) = {} BY <1>2, <1>4, <1>5
<1>7. /\ w \o v \in Seq(Entries) /\ Distinct(w \o v)
      /\ Items(w \o v) = Items(w) \cup Items(v)
      BY <1>4, <1>5, <1>6, JoinDistinct
<1>8. Notes = w \o v BY <1>3 DEF w
<1>9. QED BY <1>2, <1>4, <1>5, <1>7, <1>8 DEF f

\* What is sent arrives on the wire, or nowhere.
LEMMA SendTyped ==
    ASSUME StreamTypeOK, NEW frames \in Seq(Frames), Send(frames)
    PROVE  wire' \in Seq(Frames)
<1>1. wire \in Seq(Frames) BY DEF StreamTypeOK
<1>2. wire \o frames \in Seq(Frames) BY <1>1, ConcatProperties
<1>3. QED BY <1>1, <1>2 DEF Send

\* The types of one party's variables at a time.
ServerTyped ==
    /\ run \in States \cup {"abandoned"} /\ leased \in BOOLEAN /\ serving \in 0 .. MaxResponses
    /\ answering \in Questions \cup {Nothing}
    /\ failure \in BOOLEAN /\ cancelled \in BOOLEAN
    /\ sent \subseteq Messages /\ begun \subseteq Messages /\ asked \subseteq Questions
    /\ raised \in 0 .. MaxQuestions /\ asking \in Questions \cup {Nothing}
    /\ history \in Seq(Entries)
ResponseTyped ==
    /\ link \in {"down", "request", "refused", "up", "cut", "short", "silent", "ended"}
    /\ wire \in Seq(Frames)
ReaderTyped ==
    /\ reader \in {"off", "reading", "closing", "leaving"} /\ buffer \in Seq(Frames)
    /\ state \in States /\ error \in BOOLEAN
    /\ resuming \in Questions \cup {Nothing} /\ confirmed \in BOOLEAN
PageTyped ==
    /\ page \in {"idle", "mounted", "drawn", "posting", "replied"} /\ reply \in States
    /\ View \in Views
    /\ decided \subseteq Questions /\ looked \in BOOLEAN
BoundsTyped == responses \in 0 .. MaxResponses /\ faults \in 0 .. MaxFaults

\* Together they are the type invariant.
LEMMA TypesAre ==
    StreamTypeOK <=> ServerTyped /\ ResponseTyped /\ ReaderTyped /\ PageTyped /\ BoundsTyped
<1>1. View \in Views <=>
         /\ text \in Messages \cup {Nothing} /\ complete \in BOOLEAN
         /\ transcript \in Seq(Entries) /\ card \in Questions \cup {Nothing}
      BY DEF View, Views
<1>2. QED BY <1>1 DEF StreamTypeOK, ServerTyped, ResponseTyped, ReaderTyped, PageTyped, BoundsTyped

\* The same of the next state.
LEMMA TypesNext ==
    StreamTypeOK' <=> ServerTyped' /\ ResponseTyped' /\ ReaderTyped' /\ PageTyped' /\ BoundsTyped'
BY TypesAre, PTL

\* Who does not step keeps his types.
LEMMA TypesKept ==
    /\ ServerTyped /\ UNCHANGED server => ServerTyped'
    /\ ResponseTyped /\ UNCHANGED response => ResponseTyped'
    /\ ReaderTyped /\ UNCHANGED controller => ReaderTyped'
    /\ PageTyped /\ UNCHANGED <<live, session, fragment>> => PageTyped'
    /\ BoundsTyped /\ UNCHANGED bounds => BoundsTyped'
BY DEF ServerTyped, ResponseTyped, ReaderTyped, PageTyped, BoundsTyped, server,
   response, controller, live, session, fragment,
   bounds, View

\* How a run ends, whether it is finalized, fails to be, or is abandoned.
LEMMA RunEnds ==
    ASSUME Finalize \/ FinalizeFails \/ Abandon
    PROVE  /\ run = "finalizing" /\ run' \in Terminal \cup {"abandoned"}
           /\ UNCHANGED <<leased, serving, raised>>
           /\ UNCHANGED <<controller, live, session, fragment, bounds>>
           /\ answering' = Nothing /\ failure' = FALSE /\ cancelled' = FALSE
           /\ sent' = {} /\ asked' = {} /\ begun' = {}
           /\ asking' \in {asking, Nothing} /\ history' \in {history, history \o Closing}
           /\ link' \in {link, "ended"}
           /\ UNCHANGED wire \/ \E s \in Terminal : Send(<<Frame("run", s)>>)
<1> USE DEF RunOver, Settle, SendOutcome
<1>1. CASE Finalize
  <2>1. run' \in Terminal BY <1>1 DEF Finalize, Outcome, Terminal
  <2>2. QED BY <1>1, <2>1 DEF Finalize
<1>2. CASE FinalizeFails
  <2>1. run' \in Terminal BY <1>2 DEF FinalizeFails, Terminal
  <2>2. QED BY <1>2, <2>1 DEF FinalizeFails
<1>3. CASE Abandon BY <1>3 DEF Abandon, response
<1>4. QED BY <1>1, <1>2, <1>3

\* A step of the server.
LEMMA ServerTypes ==
    ASSUME StreamTypeOK, Numbers, ServerStep
    PROVE  StreamTypeOK'
<1> USE DEF controller, live, session, fragment, bounds,
            server, response
<1>a. ServerTyped /\ ResponseTyped /\ ReaderTyped /\ PageTyped /\ BoundsTyped BY TypesAre
<1>b. UNCHANGED <<controller, live, session, fragment, bounds>>
      BY DEF ServerStep, Serve, Refuse, NodeCompletes, Running,
         Relist, Interrupt, EventFails, GraphFails, GraphEnds,
         GraphStops, Finalize, FinalizeFails, Abandon, RunOver, Release, Token, Update
<1>c. ReaderTyped' /\ PageTyped' /\ BoundsTyped' BY <1>a, <1>b, TypesKept
<1>d. ASSUME ServerTyped', ResponseTyped' PROVE StreamTypeOK' BY <1>c, <1>d, TypesNext
<1>e. \A F \in Frames : <<F>> \in Seq(Frames) OBVIOUS
<1>f. <<>> \in Seq(Frames) OBVIOUS
<1>1. CASE Serve
  <2>1. ServerTyped'
        BY <1>1, <1>a, <1>b DEF Serve, ServerTyped, ReaderTyped, BoundsTyped, States
  <2>2. /\ <<Frame("run", "running")>> \in Seq(Frames)
        /\ <<Failure>> \in Seq(Frames)
        BY <1>e, FramesAre DEF States
  <2>3. ResponseTyped'
    <3>1. PICK v \in {<<Failure>>, <<>>} : wire' = <<Frame("run", "running")>> \o v
          BY <1>1 DEF Serve
    <3>2. wire' \in Seq(Frames) BY <1>f, <2>2, <3>1, ConcatProperties
    <3>3. QED BY <1>1, <3>2 DEF Serve, ResponseTyped
  <2>4. QED BY <1>d, <2>1, <2>3
<1>2. CASE Refuse
      BY <1>2, <1>a, <1>d DEF Refuse, ServerTyped, ResponseTyped
<1>3. CASE NodeCompletes
      BY <1>3, <1>a, <1>d DEF NodeCompletes, Running, ServerTyped, ResponseTyped
<1>4. CASE Relist
  <2>1. asking \in Questions BY <1>4, <1>a DEF Relist, ServerTyped
  <2>2. QuestionFrames(asking) \in Seq(Frames)
        BY <1>e, <1>f, <2>1, FramesAre DEF QuestionFrames
  <2>3. wire' \in Seq(Frames) BY <1>4, <2>2, SendTyped DEF Relist
  <2>4. ServerTyped' BY <1>4, <1>a, <2>1 DEF Relist, Running, ServerTyped
  <2>5. ResponseTyped' BY <1>4, <1>a, <2>3 DEF Relist, Running, ResponseTyped
  <2>6. QED BY <1>d, <2>4, <2>5
<1>5. CASE Interrupt
  <2>1. raised' \in Questions /\ raised' \in 0 .. MaxQuestions
        BY <1>5, <1>a, StreamAssumption DEF Interrupt, ServerTyped, Questions
  <2>2. PICK q \in Questions : q = raised' BY <2>1
  <2>3. QuestionFrames(q) \in Seq(Frames)
        BY <1>e, <1>f, <2>2, FramesAre DEF QuestionFrames
  <2>4. Send(QuestionFrames(q)) BY <1>5, <2>2 DEF Interrupt
  <2>5. wire' \in Seq(Frames) BY <2>3, <2>4, SendTyped
  <2>6. ServerTyped' BY <1>5, <1>a, <2>1 DEF Interrupt, Running, ServerTyped
  <2>7. ResponseTyped' BY <1>5, <1>a, <2>5 DEF Interrupt, Running, ResponseTyped
  <2>8. QED BY <1>d, <2>6, <2>7
<1>6. CASE EventFails
  <2>1. wire' \in Seq(Frames) BY <1>6, <1>e, FramesAre, SendTyped DEF EventFails
  <2>2. ServerTyped' BY <1>6, <1>a DEF EventFails, Running, ServerTyped, States
  <2>3. ResponseTyped' BY <1>6, <1>a, <2>1 DEF EventFails, Running, ResponseTyped
  <2>4. QED BY <1>d, <2>2, <2>3
<1>7. CASE GraphFails
  <2>1. wire' \in Seq(Frames) BY <1>7, <1>e, FramesAre, SendTyped DEF GraphFails
  <2>2. ServerTyped' BY <1>7, <1>a DEF GraphFails, Running, ServerTyped, States
  <2>3. ResponseTyped' BY <1>7, <1>a, <2>1 DEF GraphFails, Running, ResponseTyped
  <2>4. QED BY <1>d, <2>2, <2>3
<1>8. CASE GraphEnds
      BY <1>8, <1>a, <1>d DEF GraphEnds, ServerTyped, ResponseTyped, States
<1>9. CASE GraphStops
      BY <1>9, <1>a, <1>d DEF GraphStops, ServerTyped, ResponseTyped, States
<1>10. CASE Finalize \/ FinalizeFails \/ Abandon
  <2>1. serving \in 1 .. MaxResponses
    <3>1. run = "finalizing" BY <1>10, RunEnds
    <3>2. QED BY <1>a, <3>1, StreamAssumption DEF Numbers, Over, ServerTyped
  <2>2. Closing \in Seq(Entries) BY <2>1, ClosingTyped
  <2>3. history \o Closing \in Seq(Entries)
        BY <1>a, <2>2, ConcatProperties DEF ServerTyped
  <2>4. ServerTyped'
        BY <1>10, <1>a, <2>3, RunEnds DEF ServerTyped, States
  <2>5. wire' \in Seq(Frames)
    <3>1. CASE UNCHANGED wire BY <1>a, <3>1 DEF ResponseTyped
    <3>2. ASSUME NEW s \in Terminal, Send(<<Frame("run", s)>>) PROVE wire' \in Seq(Frames)
          BY <1>e, <3>2, FramesAre, SendTyped DEF States
    <3>3. QED BY <1>10, <3>1, <3>2, RunEnds
  <2>6. ResponseTyped' BY <1>10, <1>a, <2>5, RunEnds DEF ResponseTyped
  <2>7. QED BY <1>d, <2>4, <2>6
<1>14. CASE Release
      BY <1>14, <1>a, <1>d DEF Release, ServerTyped, ResponseTyped
<1>11. ASSUME NEW m \in Messages, Token(m) PROVE StreamTypeOK'
  <2>1. wire' \in Seq(Frames) BY <1>11, <1>e, FramesAre, SendTyped DEF Token
  <2>2. ServerTyped' BY <1>11, <1>a DEF Token, Running, ServerTyped
  <2>3. ResponseTyped' BY <1>11, <1>a, <2>1 DEF Token, Running, ResponseTyped
  <2>4. QED BY <1>d, <2>2, <2>3
<1>12. ASSUME NEW m \in Messages, Update(m) PROVE StreamTypeOK'
  <2>1. MessageFrames(m) \in Seq(Frames)
        BY <1>e, <1>f, FramesAre DEF MessageFrames
  <2>2. wire' \in Seq(Frames) BY <1>12, <2>1, SendTyped DEF Update
  <2>3. Entry("message", m) \in Entries BY EntriesAre
  <2>4. history \in Seq(Entries)
        /\ Append(history, Entry("message", m)) \in Seq(Entries)
        BY <1>a, <2>3, AppendProperties DEF ServerTyped
  <2>5. history' \in Seq(Entries) BY <1>12, <2>4 DEF Update
  <2>6. ServerTyped' BY <1>12, <1>a, <2>5 DEF Update, Running, ServerTyped
  <2>7. ResponseTyped' BY <1>12, <1>a, <2>2 DEF Update, Running, ResponseTyped
  <2>8. QED BY <1>d, <2>6, <2>7
<1>13. QED BY <1>1, <1>2, <1>3, <1>4, <1>5, <1>6, <1>7, <1>8, <1>9, <1>10, <1>11, <1>12,
           <1>14 DEF ServerStep

\* A step of the reader.
LEMMA ReaderTypes ==
    ASSUME StreamTypeOK, ReaderStep
    PROVE  StreamTypeOK'
<1> USE DEF controller, live, session, fragment, bounds,
            server, response
<1>a. ServerTyped /\ ResponseTyped /\ ReaderTyped /\ PageTyped /\ BoundsTyped BY TypesAre
<1>b. UNCHANGED <<server, live, session, fragment, bounds>>
      BY DEF ReaderStep, Receive, ReadFails, ReadEnds,
         CloseResponse, ReaderDone
<1>c. ServerTyped' /\ PageTyped' /\ BoundsTyped' BY <1>a, <1>b, TypesKept
<1>d. ASSUME ReaderTyped', ResponseTyped' PROVE StreamTypeOK' BY <1>c, <1>d, TypesNext
<1>e. buffer \in Seq(Frames) /\ wire \in Seq(Frames)
      BY <1>a DEF ReaderTyped, ResponseTyped
<1>f. \A f \in Frames : Append(buffer, f) \in Seq(Frames) BY <1>e, AppendProperties
<1>g. <<>> \in Seq(Frames) /\ Failure \in Frames BY FramesAre
<1>1. CASE Receive
  <2>1. wire # <<>> BY <1>1 DEF Receive
  <2>2. PICK f \in Frames : f = Head(wire) BY <1>e, <2>1, HeadTailProperties
  <2>3. Tail(wire) \in Seq(Frames) BY <1>e, <2>1, HeadTailProperties
  <2>4. f.kind = "run" => f.what \in States
        BY DEF Frames, Failure, Frame
  <2>5. /\ buffer' = Append(buffer, f) /\ error' = Raised(f)
        /\ reader' = IF Raised(f) THEN "closing" ELSE "reading"
        /\ state' = IF f.kind = "run" THEN f.what ELSE state
        /\ confirmed' = (confirmed \/ (f.kind = "run" /\ f.what \in Terminal))
        /\ resuming' = resuming
        BY <1>1, <2>2 DEF Receive, Push
  <2>6. ReaderTyped' BY <1>a, <1>f, <2>4, <2>5 DEF ReaderTyped, Raised
  <2>7. ResponseTyped' BY <1>1, <1>a, <2>3 DEF Receive, ResponseTyped
  <2>8. QED BY <1>d, <2>6, <2>7
<1>2. CASE ReadFails
  <2>1. ReaderTyped' BY <1>2, <1>a, <1>f, <1>g DEF ReadFails, Push, ReaderTyped
  <2>2. QED BY <1>2, <1>a, <1>d, <2>1 DEF ReadFails, ResponseTyped
<1>3. CASE ReadEnds
      BY <1>3, <1>a, <1>d DEF ReadEnds, ReaderTyped, ResponseTyped
<1>4. CASE CloseResponse
  <2>1. buffer' \in Seq(Frames)
        BY <1>4, <1>e, <1>f, <1>g DEF CloseResponse, Push
  <2>2. ReaderTyped'
        BY <1>4, <1>a, <2>1 DEF CloseResponse, ReaderTyped, Unconfirmed
  <2>3. ResponseTyped' BY <1>4, <1>g DEF CloseResponse, ResponseTyped
  <2>4. QED BY <1>d, <2>2, <2>3
<1>5. CASE ReaderDone
      BY <1>5, <1>a, <1>d DEF ReaderDone, ReaderTyped, ResponseTyped
<1>6. QED BY <1>1, <1>2, <1>3, <1>4, <1>5 DEF ReaderStep

\* A frame keeps the types of the page, and draws a message once.
LEMMA DrawnTyped ==
    ASSUME NEW v \in Views, NEW f \in Frames
    PROVE  Drawn(v, f) \in Views
<1>1. CASE f.kind = "token"
  <2>1. f.what \in Messages
        BY <1>1 DEF Frames, Failure, Frame
  <2>2. QED BY <1>1, <2>1 DEF Drawn, Views
<1>2. CASE f.kind = "message"
  <2>1. f.what \in Messages
        BY <1>2 DEF Frames, Failure, Frame
  <2> DEFINE e == Entry("message", f.what)
             h == Held(v.transcript, e)
  <2>2. e \in Entries BY <2>1, EntriesAre
  <2> HIDE DEF e
  <2>3. v.transcript \in Seq(Entries) BY DEF Views
  <2>4. Append(v.transcript, e) \in Seq(Entries) BY <2>2, <2>3, AppendProperties
  <2>5. h \in Seq(Entries) BY <2>3, <2>4 DEF Held
  <2>6. Drawn(v, f) = [v EXCEPT !.text = f.what, !.complete = TRUE, !.transcript = h]
        BY <1>2 DEF Drawn, e
  <2> HIDE DEF h
  <2>7. QED BY <2>1, <2>5, <2>6 DEF Views
<1>3. CASE f.kind = "question"
  <2>1. f.what \in Questions
        BY <1>3 DEF Frames, Failure, Frame
  <2>2. QED BY <1>3, <2>1 DEF Drawn, Views
<1>4. QED BY <1>1, <1>2, <1>3 DEF Drawn

\* A step of the page.
LEMMA PageTypes ==
    ASSUME StreamTypeOK, Numbers, PageStep
    PROVE  StreamTypeOK'
<1> USE DEF controller, live, session, fragment, bounds,
            server, response
<1>a. ServerTyped /\ ResponseTyped /\ ReaderTyped /\ PageTyped /\ BoundsTyped BY TypesAre
<1>b. <<>> \in Seq(Frames) OBVIOUS
<1>1. CASE Draw
  <2>1. buffer \in Seq(Frames) /\ View \in Views
        BY <1>a DEF ReaderTyped, PageTyped
  <2>2. Drained \in Views BY <2>1, DrawnTyped, DrainKeeps
  <2>3. View' \in Views BY <1>1, <2>2 DEF Draw, View, Views
  <2>4. PageTyped' BY <1>1, <1>a, <2>3 DEF Draw, PageTyped
  <2>5. ReaderTyped' BY <1>1, <1>a, <1>b DEF Draw, ReaderTyped
  <2>6. QED BY <1>1, <1>a, <2>4, <2>5, TypesKept, TypesNext DEF Draw
<1>2. CASE Wait
  <2>1. PageTyped' BY <1>2, <1>a DEF Wait, PageTyped, View
  <2>2. QED BY <1>2, <1>a, <2>1, TypesKept, TypesNext DEF Wait
<1>3. CASE PressStop
  <2>1. PageTyped' BY <1>3, <1>a DEF PressStop, PageTyped, View
  <2>2. QED BY <1>3, <1>a, <2>1, TypesKept, TypesNext DEF PressStop
<1>4. CASE Stop
  <2>1. <<Frame("run", "stopping")>> \in Seq(Frames)
        BY FramesAre DEF States
  <2>2. wire' \in Seq(Frames)
    <3>1. CASE run = "running" BY <1>4, <2>1, <3>1, SendTyped DEF Stop
    <3>2. CASE run # "running" BY <1>4, <1>a, <3>2 DEF Stop, ResponseTyped
    <3>3. QED BY <3>1, <3>2
  <2>3. ServerTyped' BY <1>4, <1>a DEF Stop, ServerTyped, States
  <2>4. ResponseTyped' BY <1>4, <1>a, <2>2 DEF Stop, ResponseTyped
  <2>5. PageTyped'
        BY <1>4, <1>a, <2>3 DEF Stop, PageTyped, ServerTyped, View, States
  <2>6. QED BY <1>4, <1>a, <2>3, <2>4, <2>5, TypesKept, TypesNext DEF Stop
<1>5. CASE StopAnswered
  <2>1. PageTyped' BY <1>5, <1>a DEF StopAnswered, PageTyped, View, States
  <2>2. ReaderTyped' BY <1>5, <1>a DEF StopAnswered, ReaderTyped, PageTyped
  <2>3. QED BY <1>5, <1>a, <2>1, <2>2, TypesKept, TypesNext DEF StopAnswered
<1>6. CASE Finish
  <2>1. responses \in 1 .. MaxResponses
        BY <1>6, <1>a, StreamAssumption DEF Finish, Numbers, BoundsTyped
  <2>2. transcript \o Notes \in Seq(Entries)
        BY <1>a, <2>1, NotesTyped, ConcatProperties DEF PageTyped, Views, View
  <2>3. PageTyped'
        BY <1>6, <1>a, <2>2 DEF Finish, PageTyped, ReaderTyped, Views, View
  <2>4. ReaderTyped' BY <1>6, <1>a DEF Finish, ReaderTyped
  <2>5. QED BY <1>6, <1>a, <2>3, <2>4, TypesKept, TypesNext DEF Finish
<1>7. QED BY <1>1, <1>2, <1>3, <1>4, <1>5, <1>6 DEF PageStep

\* A step of the user, or a fault.
LEMMA UserTypes ==
    ASSUME StreamTypeOK,
           UserStep \/ Disconnect \/ NewSession
    PROVE  StreamTypeOK'
<1>1. ServerTyped /\ ResponseTyped /\ ReaderTyped /\ PageTyped /\ BoundsTyped BY TypesAre
<1>2. /\ <<>> \in Seq(Frames)
      /\ MaxResponses \in Nat /\ MaxFaults \in Nat
      BY StreamAssumption
<1>3. ASSUME NEW q \in Questions \cup {Nothing}, Start(q),
             transcript' = transcript, card' \in Questions \cup {Nothing},
             decided' \subseteq Questions, looked' \in BOOLEAN
      PROVE  StreamTypeOK'
  <2>1. ServerTyped' BY <1>1, <1>3, TypesKept DEF Start
  <2>2. ResponseTyped' BY <1>2, <1>3 DEF Start, OpenRequest, ResponseTyped
  <2>3. ReaderTyped' BY <1>1, <1>2, <1>3 DEF Start, ReaderTyped, States
  <2>4. PageTyped'
        BY <1>1, <1>3 DEF Start, PageTyped, View, Views
  <2>5. BoundsTyped' BY <1>1, <1>2, <1>3 DEF Start, BoundsTyped
  <2>6. QED BY <2>1, <2>2, <2>3, <2>4, <2>5, TypesNext
<1>4. card \in Questions \cup {Nothing} /\ decided \subseteq Questions
      /\ looked \in BOOLEAN
      BY <1>1 DEF PageTyped, Views, View
<1>5. CASE SendMessage
      BY <1>3, <1>4, <1>5 DEF SendMessage, session
<1>6. CASE Reply
      BY <1>3, <1>4, <1>6 DEF Reply, Decide, TakeCard
<1>7. CASE LookUp
  <2>1. PageTyped'
        BY <1>1, <1>7 DEF LookUp, PendingInterrupt, PageTyped, ServerTyped, View,
           Views, live, fragment
  <2>2. QED BY <1>1, <1>7, <2>1, TypesKept, TypesNext DEF LookUp
<1>8. CASE Disconnect
  <2>1. ResponseTyped'
        BY <1>1, <1>2, <1>8 DEF Disconnect, Cut, Truncate, Silence, ResponseTyped
  <2>2. BoundsTyped' BY <1>1, <1>2, <1>8 DEF Disconnect, BoundsTyped
  <2>3. QED BY <1>1, <1>8, <2>1, <2>2, TypesKept, TypesNext DEF Disconnect
<1>9. CASE NewSession
  <2>1. ResponseTyped' /\ ReaderTyped'
        BY <1>1, <1>2, <1>9 DEF NewSession, ResponseTyped, ReaderTyped, States
  <2>2. PageTyped'
        BY <1>1, <1>9 DEF NewSession, Loaded, PageTyped, ServerTyped,
           View, Views, States
  <2>3. BoundsTyped' BY <1>1, <1>2, <1>9 DEF NewSession, BoundsTyped
  <2>4. QED BY <1>1, <1>9, <2>1, <2>2, <2>3, TypesKept, TypesNext DEF NewSession
<1>10. QED BY <1>5, <1>6, <1>7, <1>8, <1>9 DEF UserStep
-----------------------------------------------------------------------------
(* Its numbers, its lists and its end.                                     *)

\* The history has the notes of the runs that have ended, and the transcript
\* those of the responses that were unmounted; neither has anything twice.
Lists ==
    /\ UpTo(history, IF Over THEN serving ELSE serving - 1)
    /\ UpTo(transcript, IF page = "idle" THEN responses ELSE responses - 1)

\* A final state on the page is that of the run, and a reader that has left
\* has seen one or reports an error.
Known ==
    page # "idle" =>
        /\ state \in Terminal => confirmed
        /\ reader \in {"leaving", "off"} => error \/ confirmed

\* The invariant of the streamed response.
Told == StreamTypeOK /\ Reserved /\ Numbers /\ Lists /\ Known

\* Every step is one of these.
LEMMA StepsOfStream ==
    ASSUME StreamNext
    PROVE  \/ ServerStep \/ ReaderStep \/ PageStep
           \/ UserStep \/ Disconnect \/ NewSession
BY DEF StreamNext

\* The server does not touch the page, and nobody else the conversation.
LEMMA WhoMoves ==
    /\ ServerStep => UNCHANGED <<page, responses, transcript, state, reader, error, confirmed>>
    /\ ReaderStep =>
          UNCHANGED <<page, responses, transcript, run, serving, history>>
    /\ PageStep => UNCHANGED <<responses, serving, history, reader, error, link>>
    /\ UserStep \/ Disconnect \/ NewSession =>
          UNCHANGED <<run, serving, history>>
<1> USE DEF controller, live, session, fragment, bounds,
            server, response
<1>1. ServerStep => UNCHANGED <<page, responses, transcript, state, reader, error, confirmed>>
      BY DEF ServerStep, Serve, Refuse, NodeCompletes, Running,
         Relist, Interrupt, EventFails, GraphFails, GraphEnds,
         GraphStops, Finalize, FinalizeFails, Abandon, RunOver, Release, Token, Update
<1>2. ReaderStep => UNCHANGED <<page, responses, transcript, run, serving, history>>
      BY DEF ReaderStep, Receive, ReadFails, ReadEnds,
         CloseResponse, ReaderDone
<1>3. PageStep => UNCHANGED <<responses, serving, history, reader, error, link>>
      BY DEF PageStep, Draw, Wait, PressStop, Stop,
         StopAnswered, Finish
<1>4. UserStep \/ Disconnect \/ NewSession => UNCHANGED <<run, serving, history>>
      BY DEF UserStep, SendMessage, Reply, LookUp, Start,
         Disconnect, NewSession
<1>5. QED BY <1>1, <1>2, <1>3, <1>4

\* What a step of the run does to the lease.
LEMMA LeaseMoves ==
    ASSUME ServerStep, ~Serve
    PROVE  \/ /\ ~Over /\ ~Over' /\ UNCHANGED <<leased, serving>>
              /\ cancelled => cancelled'
           \/ ~Over /\ Over' /\ UNCHANGED <<leased, serving>> /\ cancelled' = FALSE
           \/ Over /\ UNCHANGED <<run, cancelled, serving>> /\ (leased' => leased)
<1> USE DEF Over, response, server
<1>1. CASE Refuse BY <1>1 DEF Refuse
<1>2. CASE NodeCompletes BY <1>2 DEF NodeCompletes, Running
<1>3. CASE Relist BY <1>3 DEF Relist, Running
<1>4. CASE Interrupt BY <1>4 DEF Interrupt, Running
<1>5. CASE EventFails BY <1>5 DEF EventFails, Running
<1>6. CASE GraphFails BY <1>6 DEF GraphFails, Running
<1>7. CASE GraphEnds BY <1>7 DEF GraphEnds
<1>8. CASE GraphStops BY <1>8 DEF GraphStops
<1>9. CASE Finalize \/ FinalizeFails \/ Abandon BY <1>9, RunEnds DEF Terminal
<1>10. CASE Release BY <1>10 DEF Release, Terminal
<1>11. CASE \E m \in Messages : Token(m) \/ Update(m)
       BY <1>11 DEF Token, Update, Running
<1>12. QED BY <1>1, <1>2, <1>3, <1>4, <1>5, <1>6, <1>7, <1>8, <1>9, <1>10, <1>11
           DEF ServerStep

\* A run begins with the lease, and is over when it is given back.
LEMMA ReservedKept ==
    ASSUME StreamTypeOK, Reserved, StreamNext
    PROVE  Reserved'
<1>1. leased \in BOOLEAN /\ cancelled \in BOOLEAN BY DEF StreamTypeOK
<1>2. CASE Serve BY <1>1, <1>2 DEF Serve, Reserved, Over
<1>3. CASE ServerStep /\ ~Serve
  <2>1. CASE ~Over BY <1>1, <1>3, <2>1, LeaseMoves DEF Reserved
  <2>2. CASE Over
    <3>1. UNCHANGED <<run, cancelled>> BY <1>3, <2>2, LeaseMoves
    <3>2. QED BY <2>2, <3>1 DEF Reserved, Over
  <2>3. QED BY <2>1, <2>2
<1>4. CASE PageStep
  <2>1. UNCHANGED leased /\ (Over' <=> Over) /\ (Over => UNCHANGED cancelled)
        BY <1>4 DEF PageStep, Draw, Wait, PressStop, Stop, StopAnswered, Finish, Over, server
  <2>2. QED BY <1>1, <2>1 DEF Reserved
<1>5. CASE ReaderStep \/ UserStep \/ Disconnect \/ NewSession
  <2>1. UNCHANGED server
        BY <1>5 DEF ReaderStep, Receive, ReadFails, ReadEnds, CloseResponse, ReaderDone,
           UserStep, SendMessage, Reply, LookUp, Start, Disconnect, NewSession
  <2>2. QED BY <2>1 DEF server, Reserved, Over
<1>6. QED BY <1>2, <1>3, <1>4, <1>5, StepsOfStream

\* A run begins with a request that waits, and is not taken back.
LEMMA NumbersKept ==
    ASSUME StreamTypeOK, Numbers, StreamNext
    PROVE  Numbers'
<1>1. serving \in Nat /\ responses \in Nat
      BY DEF StreamTypeOK
<1>2. CASE ServerStep
  <2>1. CASE Serve
        BY <1>1, <1>2, <2>1, WhoMoves DEF Serve, Numbers
  <2>2. CASE ~Serve
    <3>1. /\ serving' = serving
          /\ link' = "request" => link = "request"
          /\ ~Over' => ~Over
      <4> USE DEF Over, response, server
      <4>1. CASE Refuse BY <4>1 DEF Refuse
      <4>2. CASE NodeCompletes BY <4>2 DEF NodeCompletes, Running
      <4>3. CASE Relist BY <4>3 DEF Relist, Running
      <4>4. CASE Interrupt BY <4>4 DEF Interrupt, Running
      <4>5. CASE EventFails BY <4>5 DEF EventFails, Running
      <4>6. CASE GraphFails BY <4>6 DEF GraphFails, Running
      <4>7. CASE GraphEnds BY <4>7 DEF GraphEnds
      <4>8. CASE GraphStops BY <4>8 DEF GraphStops
      <4>9. CASE Finalize \/ FinalizeFails \/ Abandon BY <4>9, RunEnds DEF Terminal
      <4>10. CASE \E m \in Messages : Token(m) \/ Update(m)
             BY <4>10 DEF Token, Update, Running
      <4>12. CASE Release BY <4>12 DEF Release
      <4>11. QED BY <1>2, <2>2, <4>1, <4>2, <4>3, <4>4, <4>5, <4>6, <4>7, <4>8, <4>9, <4>10,
                    <4>12 DEF ServerStep
    <3>2. QED BY <1>2, <3>1, WhoMoves DEF Numbers
  <2>3. QED BY <2>1, <2>2
<1>3. CASE ReaderStep
  <2>1. link' = "request" => link = "request"
        BY <1>3 DEF ReaderStep, Receive, ReadFails, ReadEnds,
           CloseResponse, ReaderDone, response
  <2>2. QED BY <1>3, <2>1, WhoMoves DEF Numbers, Over
<1>4. CASE PageStep
  <2>1. ~Over' => ~Over
        BY <1>4 DEF PageStep, Draw, Wait, PressStop, Stop,
           StopAnswered, Finish, Over, server
  <2>2. page' # "idle" => page # "idle"
        BY <1>4 DEF PageStep, Draw, Wait, PressStop, Stop,
           StopAnswered, Finish
  <2>3. QED BY <1>4, <2>1, <2>2, WhoMoves DEF Numbers
<1>5. CASE UserStep
  <2>1. CASE LookUp
        BY <1>5, <2>1, WhoMoves DEF LookUp, Numbers, Over, response,
           fragment, bounds
  <2>2. ASSUME NEW q, Start(q) PROVE Numbers'
        BY <1>1, <1>5, <2>2, WhoMoves DEF Start, Numbers, Over
  <2>3. QED BY <1>5, <2>1, <2>2 DEF UserStep, SendMessage, Reply
<1>6. CASE Disconnect
      BY <1>6, WhoMoves DEF Disconnect, Cut, Truncate, Silence, Numbers,
         Over, fragment
<1>7. CASE NewSession
      BY <1>7, WhoMoves DEF NewSession, Numbers, Over
<1>8. QED BY <1>2, <1>3, <1>4, <1>5, <1>6, <1>7, StepsOfStream

\* A list may be read with a later number.
LEMMA Later ==
    ASSUME NEW t, NEW n \in Int, NEW k \in Int, n <= k, UpTo(t, n)
    PROVE  UpTo(t, k)
<1>1. ASSUME NEW i \in DOMAIN t, t[i].what # "message" PROVE t[i].of <= k
  <2>1. t[i] \in Entries BY ElementOfSeq, LenProperties DEF UpTo
  <2>2. t[i].of \in Nat BY <1>1, <2>1 DEF Entries
  <2>3. t[i].of <= n BY <1>1 DEF UpTo
  <2>4. QED BY <2>2, <2>3
<1>2. QED BY <1>1 DEF UpTo

\* A list grows by a message it has not.
LEMMA OneMore ==
    ASSUME NEW t, NEW n, UpTo(t, n), NEW m \in Messages,
           Entry("message", m) \notin Items(t)
    PROVE  UpTo(Append(t, Entry("message", m)), n)
<1> DEFINE e == Entry("message", m)
<1>1. e \in Entries /\ e.what = "message" BY EntriesAre DEF Entry
<1> HIDE DEF e
<1>2. t \in Seq(Entries) /\ Distinct(t) BY DEF UpTo
<1>3. /\ Append(t, e) \in Seq(Entries) /\ Distinct(Append(t, e))
      /\ Items(Append(t, e)) = Items(t) \cup {e}
      BY <1>1, <1>2, AppendDistinct DEF e
<1>4. \A x \in Items(t) : x.what # "message" => x.of <= n BY <1>2, UpToItems
<1>5. \A x \in Items(Append(t, e)) : x.what # "message" => x.of <= n BY <1>1, <1>3, <1>4
<1>6. QED BY <1>3, <1>5, UpToItems DEF e

\* The notes of the next number come behind it.
LEMMA NotesAdded ==
    ASSUME NEW t, NEW n \in Nat, UpTo(t, n - 1), NEW u \in Seq(Entries), Distinct(u),
           \A e \in Items(u) : e.what # "message" /\ e.of = n
    PROVE  UpTo(t \o u, n) /\ Items(t \o u) = Items(t) \cup Items(u)
<1>1. t \in Seq(Entries) /\ Distinct(t) BY DEF UpTo
<1>2. \A x \in Items(t) : x.what # "message" => x.of <= n - 1 BY <1>1, UpToItems
<1>3. UpTo(t, n) BY Later
<1>4. \A x \in Items(t) : x.what # "message" => x.of <= n BY <1>1, <1>3, UpToItems
<1>5. Items(t) \cap Items(u) = {} BY <1>2
<1>6. /\ t \o u \in Seq(Entries) /\ Distinct(t \o u)
      /\ Items(t \o u) = Items(t) \cup Items(u)
      BY <1>1, <1>5, JoinDistinct
<1>7. \A x \in Items(t \o u) : x.what # "message" => x.of <= n BY <1>4, <1>6
<1>8. QED BY <1>6, <1>7, UpToItems

\* The conversation of the checkpoint.
LEMMA HistoryKept ==
    ASSUME StreamTypeOK, Reserved, Numbers, Lists, StreamNext
    PROVE  UpTo(history, IF Over THEN serving ELSE serving - 1)'
<1> DEFINE n == IF Over THEN serving ELSE serving - 1
<1>1. UpTo(history, n) /\ serving \in Nat /\ responses \in Nat BY DEF Lists, StreamTypeOK
<1>2. ASSUME UNCHANGED <<serving, history>>, Over' <=> Over
      PROVE  UpTo(history, n)'
      BY <1>1, <1>2 DEF UpTo, Distinct
<1>3. CASE Serve
  <2>1. /\ Over /\ ~Over' /\ history' = history
        /\ serving' = responses /\ serving < responses
        BY <1>3 DEF Serve, Over, Numbers, Reserved
  <2>2. UpTo(history, responses - 1) BY <1>1, <2>1, Later
  <2>3. QED BY <2>1, <2>2 DEF UpTo, Distinct
<1>4. CASE Finalize \/ FinalizeFails \/ Abandon
  <2>1. /\ ~Over /\ Over' /\ serving' = serving
        /\ history' = history \o Closing \/ history' = history
        BY <1>4, RunEnds DEF Over, Terminal
  <2>2. serving \in 1 .. MaxResponses BY <1>1, <2>1 DEF Numbers, StreamTypeOK
  <2>3. UpTo(history, serving) BY <1>1, <2>1, Later
  <2>4. UpTo(history \o Closing, serving)
        BY <1>1, <2>1, <2>2, ClosingTyped, NotesAdded
  <2>5. PICK h : h = history' /\ UpTo(h, serving) BY <2>1, <2>3, <2>4
  <2>6. QED BY <2>1, <2>5 DEF UpTo, Distinct
<1>5. ASSUME NEW m \in Messages, Update(m) PROVE UpTo(history, n)'
  <2>1. serving' = serving /\ (Over' <=> Over)
        BY <1>5 DEF Update, Over
  <2>2. \/ history' = history
        \/ /\ history' = Append(history, Entry("message", m))
           /\ Entry("message", m) \notin Items(history)
        BY <1>5 DEF Update, Items, ToSet
  <2>3. PICK h : h = history' /\ UpTo(h, n) BY <1>1, <2>2, OneMore
  <2>4. QED BY <2>1, <2>3 DEF UpTo, Distinct
<1>6. ASSUME ServerStep, ~Serve, ~Finalize, ~FinalizeFails, ~Abandon,
             \A m \in Messages : ~Update(m)
      PROVE  UpTo(history, n)'
  <2>1. UNCHANGED <<serving, history>> /\ (Over' <=> Over)
        BY <1>6 DEF ServerStep, Refuse, NodeCompletes, Running,
           Relist, Interrupt, EventFails, GraphFails, GraphEnds,
           GraphStops, Release, Token, Over, server
  <2>2. QED BY <1>2, <2>1
<1>7. CASE PageStep
  <2>1. Over' <=> Over
        BY <1>7 DEF PageStep, Draw, Wait, PressStop, Stop,
           StopAnswered, Finish, Over, server
  <2>2. QED BY <1>2, <1>7, <2>1, WhoMoves
<1>8. CASE ReaderStep BY <1>2, <1>8, WhoMoves DEF Over
<1>9. CASE UserStep \/ Disconnect \/ NewSession
      BY <1>2, <1>9, WhoMoves DEF Over
<1>10. QED BY <1>3, <1>4, <1>5, <1>6, <1>7, <1>8, <1>9, StepsOfStream

\* The conversation of the page.
LEMMA TranscriptKept ==
    ASSUME StreamTypeOK, Numbers, Lists, StreamNext
    PROVE  UpTo(transcript, IF page = "idle" THEN responses ELSE responses - 1)'
<1> DEFINE n == IF page = "idle" THEN responses ELSE responses - 1
<1>1. UpTo(transcript, n) /\ serving \in Nat /\ responses \in Nat BY DEF Lists, StreamTypeOK
<1>2. ASSUME UNCHANGED <<responses, transcript>>, page' = "idle" <=> page = "idle"
      PROVE  UpTo(transcript, n)'
      BY <1>1, <1>2 DEF UpTo, Distinct
<1>3. CASE Draw
  <2> DEFINE V == {v \in Views : UpTo(v.transcript, responses - 1)}
  <2>1. /\ buffer \in Seq(Frames) /\ View \in Views
        BY TypesAre DEF ReaderTyped, PageTyped
  <2>2. page = "mounted" /\ page' = "drawn" /\ responses' = responses
        /\ transcript' = Drained.transcript
        BY <1>3 DEF Draw, bounds
  <2>3. View \in V BY <1>1, <2>1, <2>2 DEF View
  <2>4. ASSUME NEW v \in V, NEW f \in Frames PROVE Drawn(v, f) \in V
    <3>1. Drawn(v, f) \in Views BY DrawnTyped
    <3>2. CASE f.kind = "message"
      <4>1. f.what \in Messages
            BY <3>2 DEF Frames, Failure, Frame
      <4>2. Drawn(v, f).transcript = Held(v.transcript, Entry("message", f.what))
            BY <3>2 DEF Drawn, Views
      <4>3. \/ Drawn(v, f).transcript = v.transcript
            \/ /\ Drawn(v, f).transcript
                     = Append(v.transcript, Entry("message", f.what))
               /\ Entry("message", f.what) \notin Items(v.transcript)
            BY <4>2 DEF Held, Items, ToSet
      <4>4. QED BY <3>1, <4>1, <4>3, OneMore
    <3>3. CASE f.kind # "message"
      <4>1. Drawn(v, f).transcript = v.transcript
            BY <3>3 DEF Drawn, Views
      <4>2. QED BY <3>1, <4>1
    <3>4. QED BY <3>2, <3>3
  <2>5. Drained \in V
    <3> HIDE DEF V
    <3>1. QED BY <2>1, <2>3, <2>4, DrainKeeps
  <2>6. PICK t : t = transcript' /\ UpTo(t, responses - 1) BY <2>2, <2>5
  <2>7. QED BY <2>2, <2>6 DEF UpTo, Distinct
<1>4. CASE Finish
  <2>1. /\ page = "drawn" /\ page' = "idle" /\ responses' = responses
        /\ transcript' = transcript \o Notes
        BY <1>4 DEF Finish, bounds
  <2>2. responses \in 1 .. MaxResponses BY <1>1, <2>1 DEF Numbers, StreamTypeOK
  <2>3. PICK t : t = transcript' /\ UpTo(t, responses)
        BY <1>1, <2>1, <2>2, NotesTyped, NotesAdded
  <2>4. QED BY <2>1, <2>3 DEF UpTo, Distinct
<1>5. ASSUME NEW q, Start(q), transcript' = transcript PROVE UpTo(transcript, n)'
  <2>1. page = "idle" /\ page' = "mounted" /\ responses' = responses + 1
        BY <1>5 DEF Start
  <2>2. UpTo(transcript, (responses + 1) - 1) BY <1>1, <2>1
  <2>3. QED BY <1>5, <2>1, <2>2 DEF UpTo, Distinct
<1>6. CASE UserStep
  <2>1. CASE LookUp
        BY <1>2, <2>1 DEF LookUp, fragment, bounds
  <2>2. QED BY <1>5, <1>6, <2>1
        DEF UserStep, SendMessage, Reply, session
<1>7. CASE NewSession
  <2>1. /\ page' = "idle" /\ responses' = responses /\ transcript' = history
        BY <1>7 DEF NewSession, Loaded
  <2>2. UpTo(history, responses) BY <1>1, Later DEF Lists, Numbers
  <2>3. QED BY <2>1, <2>2 DEF UpTo, Distinct
<1>8. ASSUME PageStep, ~Draw, ~Finish PROVE UpTo(transcript, n)'
  <2>1. /\ UNCHANGED <<responses, transcript>>
        /\ page' = "idle" <=> page = "idle"
        BY <1>8 DEF PageStep, Wait, PressStop, Stop,
           StopAnswered, session, bounds
  <2>2. QED BY <1>2, <2>1
<1>9. CASE Disconnect
      BY <1>2, <1>9 DEF Disconnect, session, fragment
<1>10. CASE ServerStep \/ ReaderStep BY <1>2, <1>10, WhoMoves
<1>11. QED BY <1>3, <1>4, <1>6, <1>7, <1>8, <1>9, <1>10, StepsOfStream

\* What is known of the run at the end of a response.
LEMMA KnownKept ==
    ASSUME StreamTypeOK, Known, StreamNext
    PROVE  Known'
<1> USE DEF controller, live, session, fragment, bounds,
            server, response
<1>1. CASE ServerStep BY <1>1, WhoMoves DEF Known
<1>2. CASE ReaderStep
  <2>1. CASE Receive
        BY <2>1 DEF Receive, Known, Raised
  <2>2. CASE ReadFails BY <2>2 DEF ReadFails, Known
  <2>3. CASE ReadEnds BY <2>3 DEF ReadEnds, Known
  <2>4. CASE CloseResponse
        BY <2>4 DEF CloseResponse, Known, Unconfirmed, StreamTypeOK
  <2>5. CASE ReaderDone BY <2>5 DEF ReaderDone, Known
  <2>6. QED BY <1>2, <2>1, <2>2, <2>3, <2>4, <2>5 DEF ReaderStep
<1>3. CASE PageStep
      BY <1>3 DEF PageStep, Draw, Wait, PressStop, Stop,
         StopAnswered, Finish, Known
<1>4. CASE UserStep
  <2>1. CASE LookUp BY <2>1 DEF LookUp, Known
  <2>2. ASSUME NEW q, Start(q) PROVE Known'
        BY <2>2 DEF Start, Known, Terminal
  <2>3. QED BY <1>4, <2>1, <2>2 DEF UserStep, SendMessage, Reply
<1>5. CASE Disconnect BY <1>5 DEF Disconnect, Known
<1>6. CASE NewSession BY <1>6 DEF NewSession, Known
<1>7. QED BY <1>1, <1>2, <1>3, <1>4, <1>5, <1>6, StepsOfStream

\* It holds in every state: the four theorems below follow from it.
THEOREM StreamIsTold == StreamSpec => []Told
<1>1. StreamInit => Told
  <2> SUFFICES ASSUME StreamInit PROVE Told OBVIOUS
  <2>1. <<>> \in Seq(Frames) /\ <<>> \in Seq(Entries) OBVIOUS
  <2>2. /\ 0 \in 0 .. MaxResponses /\ 0 \in 0 .. MaxQuestions /\ 0 \in 0 .. MaxFaults
        /\ "none" \in States
        BY StreamAssumption DEF States
  <2>3. ServerTyped /\ BoundsTyped BY <2>1, <2>2 DEF StreamInit, ServerTyped, BoundsTyped
  <2>4. ResponseTyped /\ ReaderTyped
        BY <2>1, <2>2 DEF StreamInit, ResponseTyped, ReaderTyped
  <2>5. PageTyped BY <2>1, <2>2 DEF StreamInit, PageTyped, View, Views
  <2>6. StreamTypeOK BY <2>3, <2>4, <2>5, TypesAre
  <2>7. Reserved /\ Numbers /\ Known
        BY DEF StreamInit, Reserved, Numbers, Known, Over
  <2>8. UpTo(<<>>, 0) BY DEF UpTo, Distinct
  <2>9. Lists
        BY <2>8 DEF Lists, StreamInit, Over
  <2>10. QED BY <2>6, <2>7, <2>9 DEF Told
<1>2. Told /\ [StreamNext]_streamVars => Told'
  <2> SUFFICES ASSUME Told, [StreamNext]_streamVars PROVE Told' OBVIOUS
  <2>1. CASE StreamNext
    <3>1. StreamTypeOK'
          BY <2>1, ServerTypes, ReaderTypes, PageTypes, UserTypes, StepsOfStream DEF Told
    <3>2. Reserved' /\ Numbers' /\ Known' BY <2>1, ReservedKept, NumbersKept, KnownKept DEF Told
    <3>3. Lists' BY <2>1, HistoryKept, TranscriptKept DEF Told, Lists
    <3>4. QED BY <3>1, <3>2, <3>3 DEF Told
  <2>2. CASE UNCHANGED streamVars
    <3>1. UNCHANGED <<server, response, controller, live,
                      session, fragment, bounds>>
          BY <2>2 DEF streamVars
    <3>2. StreamTypeOK' BY <3>1, TypesAre, TypesKept, TypesNext DEF Told
    <3>3. (Reserved /\ Numbers /\ Lists /\ Known)'
          BY <3>1 DEF Told, Reserved, Numbers, Lists, Known, UpTo, Distinct, Over, server,
             response, controller, session, fragment, bounds
    <3>4. QED BY <3>2, <3>3 DEF Told
  <2>3. QED BY <2>1, <2>2
<1>3. QED BY <1>1, <1>2, PTL DEF StreamSpec

\* Every step of the response is a step of the ledger or one it does not see.
LEMMA StreamLedgerStep ==
    ASSUME Told, [StreamNext]_streamVars
    PROVE  [Ledger!LedgerNext]_(Ledger!ledgerVars)
<1> USE DEF Ledger!LedgerNext, Ledger!ledgerVars
<1>1. StreamTypeOK /\ Reserved BY DEF Told
<1>2. CASE Serve
  <2>1. ~leased /\ leased' = TRUE /\ cancelled' = FALSE /\ run' \in {"running", "finalizing"}
        BY <1>1, <1>2 DEF Serve, Reserved
  <2>2. Ledger!Begin BY <2>1 DEF Ledger!Begin
  <2>3. QED BY <2>2
<1>3. CASE GraphEnds \/ GraphFails \/ GraphStops
  <2>1. /\ run \in {"running", "stopping"} /\ run' = "finalizing"
        /\ UNCHANGED leased /\ cancelled' \in BOOLEAN /\ (cancelled => cancelled')
        BY <1>1, <1>3 DEF GraphEnds, GraphFails, Running, GraphStops, StreamTypeOK
  <2>2. Ledger!Finalize BY <2>1 DEF Ledger!Finalize
  <2>3. QED BY <2>2
<1>4. CASE Finalize
  <2>1. /\ run = "finalizing" /\ run' = Outcome /\ UNCHANGED leased /\ cancelled' = FALSE
        BY <1>4 DEF Finalize, RunOver
  <2>2. Ledger!End BY <2>1 DEF Ledger!End, Ledger!Outcomes, Outcome
  <2>3. QED BY <2>2
<1>5. CASE FinalizeFails
  <2>1. Ledger!End BY <1>5 DEF FinalizeFails, RunOver, Ledger!End, Ledger!Outcomes
  <2>2. QED BY <2>1
<1>6. CASE Abandon
  <2>1. Ledger!Abandon BY <1>6 DEF Abandon, RunOver, Ledger!Abandon
  <2>2. QED BY <2>1
<1>7. CASE Release
  <2>1. Ledger!Release
        BY <1>7 DEF Release, Terminal, Ledger!Release, Ledger!Outcomes
  <2>2. QED BY <2>1
<1>8. CASE Stop
  <2>1. CASE run = "running"
    <3>1. Ledger!Halt BY <1>8, <2>1 DEF Stop, Ledger!Halt
    <3>2. QED BY <3>1
  <2>2. CASE run # "running" BY <1>8, <2>2 DEF Stop
  <2>3. QED BY <2>1, <2>2
<1>9. CASE Refuse \/ NodeCompletes \/ Relist \/ Interrupt \/ EventFails
           \/ \E m \in Messages : Token(m) \/ Update(m)
      BY <1>9 DEF Refuse, server, NodeCompletes, Relist, Interrupt, EventFails, Token, Update,
         Running
<1>10. CASE PageStep /\ ~Stop
       BY <1>10 DEF PageStep, Draw, Wait, PressStop, StopAnswered, Finish, server
<1>11. CASE ReaderStep
       BY <1>11 DEF ReaderStep, Receive, ReadFails, ReadEnds, CloseResponse, ReaderDone, server
<1>12. CASE UserStep \/ Disconnect \/ NewSession
       BY <1>12 DEF UserStep, SendMessage, Reply, LookUp, Start, Disconnect, NewSession, server
<1>13. CASE UNCHANGED streamVars BY <1>13 DEF streamVars, server
<1>14. QED BY <1>2, <1>3, <1>4, <1>5, <1>6, <1>7, <1>8, <1>9, <1>10, <1>11, <1>12, <1>13,
              StepsOfStream DEF ServerStep

\* Whatever the connection, the page and Stop do, the run of a response keeps the
\* conversation until it has an outcome or its finalization was abandoned, and
\* its outcome tells whether it was stopped: what RunControl promises
\* (RunControl.finalize, on_close of AgentStreamResponse).
THEOREM ResponsesKeepLedger == StreamSpec => ImplementsRuns
<1>1. StreamInit => Ledger!LedgerInit BY DEF StreamInit, Ledger!LedgerInit
<1>2. Told /\ [StreamNext]_streamVars => [Ledger!LedgerNext]_(Ledger!ledgerVars)
      BY StreamLedgerStep
<1>3. QED BY <1>1, <1>2, StreamIsTold, PTL DEF StreamSpec, ImplementsRuns, Ledger!LedgerSpec

\* What the server, the reader thread and the page hold has its type, and every
\* note of the history and of the transcript the number of a response (_reconcile
\* of run_control.py, _render_response_fragment of ui/streaming.py).
THEOREM StreamTyped == StreamSpec => []StreamTypeOK
<1>1. Told => StreamTypeOK BY DEF Told
<1>2. QED BY <1>1, StreamIsTold, PTL

\* The transcript holds every message once, whatever was repeated by a resumed
\* node, and however the response ended (_replace_message_by_id of ui/streaming.py).
THEOREM MessagesOnce == StreamSpec => []ShownOnce
<1>1. Told => ShownOnce
      BY DEF Told, Lists, UpTo, Distinct, ShownOnce, IsInjective
<1>2. QED BY <1>1, StreamIsTold, PTL

\* A response whose run's final state is not known is booked as failed
\* (the finally block of ui/run_stream.py, _render_response_fragment).
THEOREM EndsAreTold == StreamSpec => EndIsTold
<1>1. Told /\ [StreamNext]_streamVars =>
          [Finish => \/ confirmed
                     \/ Entry("failed", responses) \in ToSet(transcript')]_streamVars
  <2> SUFFICES ASSUME Told, Finish, ~confirmed
               PROVE  Entry("failed", responses) \in ToSet(transcript')
      OBVIOUS
  <2>1. page = "drawn" /\ reader = "off" /\ transcript' = transcript \o Notes
        BY DEF Finish
  <2>2. error BY <2>1 DEF Told, Known
  <2>3. responses \in 1 .. MaxResponses BY <2>1 DEF Told, Numbers, StreamTypeOK
  <2>4. UpTo(transcript, responses - 1) BY <2>1 DEF Told, Lists
  <2>5. PICK u : u = transcript' /\ Entry("failed", responses) \in Items(u)
    <3>1. Entry("failed", responses) \in Items(Notes) BY <2>2, <2>3, NotesTyped
    <3>2. /\ Notes \in Seq(Entries) /\ Distinct(Notes)
          /\ \A e \in Items(Notes) : e.what # "message" /\ e.of = responses
          /\ responses \in Nat
          BY <2>3, NotesTyped
    <3>3. Items(transcript \o Notes) = Items(transcript) \cup Items(Notes)
          BY <2>4, <3>2, NotesAdded
    <3>4. QED BY <2>1, <3>1, <3>3
  <2>6. QED BY <2>5 DEF Items, ToSet
<1>2. QED BY <1>1, StreamIsTold, PTL DEF StreamSpec, EndIsTold
=============================================================================
