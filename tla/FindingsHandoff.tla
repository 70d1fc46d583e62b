--------------------------- MODULE FindingsHandoff ---------------------------
(***************************************************************************)
(* What crosses between a supervisor and the specialists it delegates to:  *)
(* the brief and the files of the supervisor's state go in through an      *)
(* allowlist, and only the findings a run has written come back            *)
(* (agents/delegation.py, agents/findings.py).  The backends decide who    *)
(* may write what on the way (agents/backends.py).                         *)
(*                                                                         *)
(* A file is a version number, zero where there is no file: every write    *)
(* gives a new version, as every write has a new modification time.  The   *)
(* staged inputs are left out: they go in, no backend writes them and they *)
(* do not come back.                                                       *)
(***************************************************************************)
EXTENDS Naturals, Sequences, FiniteSetsExt

CONSTANTS
    Topics,         \* the paths /findings/<topic>.md
    Conflict,       \* a path of /findings/_conflicts/
    Summary,        \* the path of /conversation_history/ for this thread
    MaxCalls,       \* bound: task calls of one model answer
    MaxTurns,       \* bound: messages of the user
    MaxSteering,    \* bound: instructions during a turn
    MaxVersions     \* bound: writes

ASSUME HandoffAssumption ==
    /\ Conflict \notin Topics \cup {Summary} /\ Summary \notin Topics
    /\ MaxCalls \in Nat \ {0} /\ MaxTurns \in Nat
    /\ MaxSteering \in Nat /\ MaxVersions \in Nat \ {0}

\* The calls of one answer of the supervisor's model, in their order; each
\* runs one specialist.
Calls == 1 .. MaxCalls

Findings == Topics \cup {Conflict}
Paths == Findings \cup {Summary}
NoFiles == [p \in Paths |-> 0]

VARIABLES
    phase,      \* the supervisor: between turns, at its model, at its tools
    messages,   \* the human messages of its state
    files,      \* its `files' channel
    turn,       \* the number of the user's message
    delegated,  \* how many calls its model has made in this answer
    status,     \* the delegation of each call
    sent,       \* SpecialistDelegate.ainvoke's `sent': the files it was given
    own,        \* the `files' channel of the specialist
    brief,      \* the user's message the brief carries
    wrote,      \* history variable: the paths its run has written
    versions

supervisor == <<phase, messages, files, turn, delegated>>
handoffVars == <<supervisor, status, sent, own, brief, wrote, versions>>

Versions == 0 .. MaxVersions
Files == [Paths -> Versions]
Said(kind) == [kind |-> kind, turn |-> turn]
HumanMessages == [kind : {"user", "steering"}, turn : 0 .. MaxTurns]

HandoffTypeOK ==
    /\ phase \in {"idle", "model", "tools"}
    /\ messages \in Seq(HumanMessages)
    /\ files \in Files
    /\ turn \in 0 .. MaxTurns
    /\ delegated \in 0 .. MaxCalls
    /\ status \in [Calls -> {"idle", "running", "returned"}]
    /\ sent \in [Calls -> Files] /\ own \in [Calls -> Files]
    /\ brief \in [Calls -> HumanMessages]
    /\ wrote \in [Calls -> SUBSET Paths]
    /\ versions \in Versions

\* A conversation in which a background result could not be merged earlier.
HandoffInit ==
    /\ phase = "idle" /\ messages = <<>> /\ turn = 0 /\ delegated = 0
    /\ files = [NoFiles EXCEPT ![Conflict] = 1]
    /\ status = [c \in Calls |-> "idle"]
    /\ sent = [c \in Calls |-> NoFiles] /\ own = [c \in Calls |-> NoFiles]
    /\ brief = [c \in Calls |-> Said("user")]
    /\ wrote = [c \in Calls |-> {}]
    /\ versions = 1

-----------------------------------------------------------------------------
(* What crosses.                                                           *)

\* crossing_files.
Crossing(f) == [p \in Paths |-> IF p \in Findings THEN f[p] ELSE 0]

\* Mutant: a plain filter of the prefix, which returns what was inherited too.
DeltaInherited(before, after) == {p \in Findings : after[p] # 0}

\* findings_delta: the paths a run has created or changed.
Delta(before, after) == {p \in Findings : after[p] # 0 /\ after[p] # before[p]}

IsUser(m) == m.kind = "user"

\* Mutant: the latest human message, whatever it is.
AttachedLatest(said) == said[Len(said)]

\* with_user_message: the latest message that is not an instruction.
Attached(said) == said[Max({i \in DOMAIN said : IsUser(said[i])})]

\* The brief as the `task' tool receives it: only what it carries of the user.
Brief == Attached(messages)

\* The calls that return a file of the path.
Outbound(p) == {c \in 1 .. delegated : p \in Delta(sent[c], own[c])}

-----------------------------------------------------------------------------
(* The supervisor.                                                         *)

UserMessage ==
    /\ phase = "idle" /\ turn < MaxTurns
    /\ turn' = turn + 1
    /\ messages' = Append(messages, [kind |-> "user", turn |-> turn'])
    /\ phase' = "model"
    /\ UNCHANGED <<files, delegated, status, sent, own, brief, wrote, versions>>

\* SteeringMiddleware puts accepted instructions before the next model call.
Steer ==
    /\ phase = "model"
    /\ Len(messages) < turn + MaxSteering
    /\ messages' = Append(messages, Said("steering"))
    /\ UNCHANGED <<phase, files, turn, delegated, status, sent, own, brief, wrote, versions>>

\* What the backend of the supervisor lets it write of these files: its reads
\* of the findings are not matched by writes.
SupervisorPaths == {Summary}

NewVersion ==
    /\ versions < MaxVersions
    /\ versions' = versions + 1

\* The turns that summarization evicts are parked in the state.
ParkHistory ==
    /\ phase = "model"
    /\ NewVersion
    /\ \E p \in SupervisorPaths : files' = [files EXCEPT ![p] = versions']
    /\ UNCHANGED <<phase, messages, turn, delegated, status, sent, own, brief, wrote>>

\* The model delegates n times in one answer: the calls run together, each
\* from the files the supervisor has now.
Delegate(n) ==
    /\ phase = "model"
    /\ phase' = "tools"
    /\ delegated' = n
    /\ status' = [c \in Calls |-> IF c <= n THEN "running" ELSE "idle"]
    /\ sent' = [c \in Calls |-> IF c <= n THEN Crossing(files) ELSE NoFiles]
    /\ own' = sent'
    /\ brief' = [c \in Calls |-> IF c <= n THEN Brief ELSE brief[c]]
    /\ wrote' = [c \in Calls |-> {}]
    /\ UNCHANGED <<messages, files, turn, versions>>

\* The state takes the results of all calls in one step, a later call's file
\* over an earlier one's.
Merge ==
    /\ phase = "tools"
    /\ \A c \in Calls : status[c] # "running"
    /\ files' = [p \in Paths |-> IF Outbound(p) = {} THEN files[p]
                               ELSE own[Max(Outbound(p))][p]]
    /\ phase' = "model"
    /\ status' = [c \in Calls |-> "idle"]
    /\ sent' = [c \in Calls |-> NoFiles] /\ own' = sent'
    /\ wrote' = [c \in Calls |-> {}]
    /\ UNCHANGED <<messages, turn, delegated, brief, versions>>

\* The turn ends with its answer, or with Stop or a failure: calls that have
\* not been merged by then leave nothing in the state.
EndTurn ==
    /\ phase \in {"model", "tools"}
    /\ phase' = "idle"
    /\ status' = [c \in Calls |-> "idle"]
    /\ sent' = [c \in Calls |-> NoFiles] /\ own' = sent'
    /\ wrote' = [c \in Calls |-> {}]
    /\ UNCHANGED <<messages, files, turn, delegated, brief, versions>>

-----------------------------------------------------------------------------
(* A specialist.                                                           *)

Runs(c) ==
    /\ phase = "tools" /\ status[c] = "running"
    /\ UNCHANGED supervisor

\* FindingsStateBackend refuses the namespace of the server.
Reserved(p) == p = Conflict

\* The route keeps the path of a finding as its key in the channel.
Exists(c, p) == own[c][p] # 0

Writes(c, p) ==
    /\ NewVersion
    /\ own' = [own EXCEPT ![c][p] = versions']
    /\ wrote' = [wrote EXCEPT ![c] = @ \cup {p}]

\* write_file only creates.
Create(c, p) ==
    /\ Runs(c)
    /\ ~Reserved(p)
    /\ ~Exists(c, p)
    /\ Writes(c, p)
    /\ UNCHANGED <<status, sent, brief>>

\* edit_file is the only way to change what is established.
Edit(c, p) ==
    /\ Runs(c)
    /\ ~Reserved(p)
    /\ Exists(c, p)
    /\ Writes(c, p)
    /\ UNCHANGED <<status, sent, brief>>

\* A specialist's own summarization, whose path is that of the supervisor's:
\* both are named by the thread.
Park(c) ==
    /\ Runs(c)
    /\ Writes(c, Summary)
    /\ UNCHANGED <<status, sent, brief>>

\* The run ends.  The server may keep the report of a run that filed nothing
\* as a note of its own, under a name the specialist's files do not have.
Return(c) ==
    /\ Runs(c)
    /\ status' = [status EXCEPT ![c] = "returned"]
    /\ UNCHANGED <<sent, own, brief, wrote, versions>>

NotePath(c, p) == p \in Topics /\ ~Exists(c, p)

ReturnSaved(c, p) ==
    /\ Runs(c)
    /\ wrote[c] \cap Findings = {}
    /\ NotePath(c, p)
    /\ Writes(c, p)
    /\ status' = [status EXCEPT ![c] = "returned"]
    /\ UNCHANGED <<sent, brief>>

\* The run raises: the call is tried again from what was sent.
Retry(c) ==
    /\ Runs(c)
    /\ own[c] # sent[c]
    /\ own' = [own EXCEPT ![c] = sent[c]]
    /\ wrote' = [wrote EXCEPT ![c] = {}]
    /\ UNCHANGED <<status, sent, brief, versions>>

-----------------------------------------------------------------------------
Supervise ==
    \/ UserMessage \/ Steer \/ ParkHistory \/ Merge \/ EndTurn
    \/ \E n \in Calls : Delegate(n)

Specialist(c) ==
    \/ \E p \in Findings : Create(c, p) \/ Edit(c, p) \/ ReturnSaved(c, p)
    \/ Park(c) \/ Return(c) \/ Retry(c)

HandoffNext == Supervise \/ \E c \in Calls : Specialist(c)

HandoffSpec == HandoffInit /\ [][HandoffNext]_handoffVars

-----------------------------------------------------------------------------
(* Properties.                                                             *)

Writers(p) == {c \in Calls : p \in wrote[c]}

\* The promise of findings_delta, for delegations that run together: their return
\* gives every finding one of them wrote a version that was written, takes no
\* edit back with the copy another one merely inherited, and leaves the other
\* findings and the supervisor's parked history as they were.
MergesOwnWrites ==
    [][Merge => \A p \in Paths :
         IF p = Summary \/ Writers(p) = {}
           THEN files'[p] = files[p]
           ELSE files'[p] \in {own[c][p] : c \in Writers(p)}]_handoffVars

\* Every brief carries the user's message of its turn, also after the user has
\* steered the run: the specification is not displaced by a correction.
BriefIsCurrent ==
    \A c \in Calls : status[c] # "idle" => brief[c] = [kind |-> "user", turn |-> turn]

\* agents/backends.py: "silently replacing an existing report loses evidence",
\* so creating and editing are two operations.  A finding that one delegation
\* created is not replaced by that of another.
CreatedStands ==
    [][Merge => \A p \in Topics : files[p] = 0 => Writers(p) = {} \/ \E c \in Calls : Writers(p) = {c}]_handoffVars
=============================================================================
