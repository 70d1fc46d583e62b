---------------------------- MODULE TurnArtifacts ----------------------------
(***************************************************************************)
(* The files one conversation produces for its user (artifacts.py): the    *)
(* pending window and event queue of a turn, and everyone who works on     *)
(* them: write and edit under /workspace/outputs (filesystem/backend.py),  *)
(* sandbox commands whose outputs are collected (sandbox/backend.py,       *)
(* sandbox/middleware.py), the reports of specialists                      *)
(* (agents/specialist_outcome.py), the stream that drains the events, and  *)
(* the answer that claims the window (server/api/endpoints.py).            *)
(*                                                                         *)
(* A file is its version.  A tool writes under the files lock and          *)
(* registers after it has let the lock go; when a run is cancelled, a      *)
(* thread that is in between goes on.  The result of a command can be      *)
(* lost, and the command can outlive its call.  A missing window is an     *)
(* empty one.                                                              *)
(***************************************************************************)
EXTENDS Integers, Sequences, FiniteSets, FiniteSetsExt, SequencesExt, Functions

CONSTANTS
    Specialists, \* specialists of a turn
    Writers,     \* calls of write or edit that may be under way
    Commands,    \* calls of execute that may be under way
    OwnerOf,     \* the specialist that makes a call
    Paths,       \* files of /workspace/outputs
    Images,      \* those that are images
    SizesOf,     \* bytes a path may have; 0 is what the store refuses or
                 \* fails to keep
    MaxImages,   \* MAX_IMAGE_ARTIFACTS_PER_TURN
    MaxBytes,    \* MAX_ARTIFACT_BYTES_PER_TURN
    MaxRecords,  \* MAX_RECORD_ARTIFACTS_PER_TURN
    MaxNotices,  \* MAX_UNDELIVERED_NOTICES_PER_TURN
    MaxWrites,   \* bound on the writes of all paths
    MaxTurns,    \* bound on the messages of the user
    MaxBreaks,   \* bound on cancelled runs and restarts
    InOrder,     \* versions of a path are registered in the order of the writes
    None

Tools == Writers \cup Commands

ASSUME ArtifactAssumption ==
    /\ IsFiniteSet(Paths)
    /\ OwnerOf \in [Tools -> Specialists]
    /\ Images \subseteq Paths /\ None \notin Paths
    /\ SizesOf \in [Paths -> SUBSET Nat]
    /\ {MaxImages, MaxBytes, MaxRecords, MaxNotices, MaxWrites, MaxTurns,
        MaxBreaks} \subseteq Nat
    /\ Writers \cap Commands = {} /\ InOrder \in BOOLEAN

VARIABLES
    stored,    \* the artifacts on disk; an id is a position
    window,    \* _PendingTurn
    events,    \* _pending_events
    live,      \* ids streamed to the browser in this turn
    attached,  \* ids attached to the answer of each turn
    file,      \* version and bytes of each path
    place,     \* where a tool is
    hold,      \* the content it is about to register
    delegate,  \* what a specialist knows of the window; it works once a turn
    reported,  \* ids a specialist listed last
    told,      \* versions somebody was told are not delivered
    lost,      \* versions of commands whose result did not arrive
    astray,    \* calls of execute that ended before their command
    phase, turn,
    restarted, \* the window of this turn was lost
    breaks

store == <<stored, window, events>>
mishaps == <<lost, astray>>
tools == <<file, place, hold, told, mishaps>>
delegation == <<delegate, reported>>
conversation == <<phase, turn, restarted, breaks>>
vars == <<store, live, attached, tools, delegation, conversation>>

Ids == DOMAIN stored
IsRecord(id) == stored[id].path = None

EmptyWindow == [ids |-> <<>>, results |-> <<>>, images |-> 0, bytes |-> 0,
                records |-> 0, byPath |-> [p \in Paths |-> 0],
                undelivered |-> 0, omitted |-> 0]

NoHold == [path |-> None, version |-> 0, size |-> 0, turn |-> 0]
Off == [working |-> "no", baseline |-> {}, since |-> [p \in Paths |-> 0]]

Content == [path : Paths \cup {None}, version : Nat, size : Nat, turn : Nat]

TypeOK ==
    /\ \A id \in Ids : stored[id] \in
          [path : Paths \cup {None}, version : Nat, size : Nat, turn : Nat,
           by : Specialists, at : Nat]
    /\ Range(window.ids) \subseteq Ids
    /\ window.byPath \in [Paths -> Ids \cup {0}]
    /\ {window.images, window.bytes, window.records, window.undelivered,
        window.omitted} \subseteq Nat
    /\ Range(events) \cup Range(live) \subseteq Ids
    /\ \A t \in 1..MaxTurns : attached[t] \subseteq Ids
    /\ file \in [Paths -> [version : 0..MaxWrites, size : Nat]]
    /\ place \in [Tools -> {"idle", "held", "running", "reading", "ended"}]
    /\ \A t \in Tools : hold[t] \in Content
    /\ \A s \in Specialists :
          /\ delegate[s].working \in {"no", "yes", "ended"}
          /\ delegate[s].baseline \cup reported[s] \subseteq Ids
    /\ \A w \in told \cup lost : w[1] \in Paths
    /\ astray \subseteq Commands
    /\ phase \in {"idle", "running", "paused", "answered", "finished"}
    /\ turn \in 0..MaxTurns
    /\ restarted \in BOOLEAN
    /\ breaks \in 0..MaxBreaks

Init ==
    /\ stored = <<>> /\ window = EmptyWindow /\ events = <<>>
    /\ live = <<>> /\ attached = [t \in 1..MaxTurns |-> {}]
    /\ file = [p \in Paths |-> [version |-> 0, size |-> 0]]
    /\ place = [t \in Tools |-> "idle"]
    /\ hold = [t \in Tools |-> NoHold]
    /\ delegate = [s \in Specialists |-> Off]
    /\ reported = [s \in Specialists |-> {}]
    /\ told = {} /\ lost = {} /\ astray = {}
    /\ phase = "idle" /\ turn = 0 /\ restarted = FALSE /\ breaks = 0

-----------------------------------------------------------------------------
(* The window.                                                             *)

\* The pending result of a path, or 0.
Replacing(c) == window.byPath[c.path]

Image(c) == IF c.path \in Images THEN 1 ELSE 0
SizeOf(id) == IF id = 0 THEN 0 ELSE stored[id].size
ImageOf(id) == IF id = 0 THEN 0 ELSE Image(stored[id])

\* The room of the version it replaces counts as free.
Admits(c) ==
    LET old == Replacing(c)
    IN /\ window.images - ImageOf(old) + Image(c) <= MaxImages
       /\ window.bytes - SizeOf(old) + c.size <= MaxBytes

\* Mutant: the form that forgets to give the room back.
WithdrawIds(w, old) ==
    [w EXCEPT !.ids = RemoveFirst(@, old),
              !.results = RemoveFirst(@, old)]

Withdraw(w, old) ==
    [w EXCEPT !.ids = RemoveFirst(@, old),
              !.results = RemoveFirst(@, old),
              !.bytes = @ - SizeOf(old),
              !.images = @ - ImageOf(old)]

Add(w, id, c) ==
    [w EXCEPT !.ids = Append(@, id),
              !.results = Append(@, id),
              !.bytes = @ + c.size,
              !.images = @ + Image(c),
              !.byPath[c.path] = id]

AddRecord(w, id) ==
    [w EXCEPT !.ids = Append(@, id), !.records = @ + 1]

Stored(c, by) == [path |-> c.path, version |-> c.version, size |-> c.size,
                  turn |-> c.turn, by |-> by, at |-> turn]

Registers(c) == c.size > 0 /\ Admits(c)

\* Mutant: the form that keeps the id of the earlier version.
ReuseId(c, by) ==
    /\ Registers(c)
    /\ LET old == Replacing(c)
           id == IF old = 0 THEN Len(stored) + 1 ELSE old
       IN /\ stored' = IF old = 0 THEN Append(stored, Stored(c, by))
                       ELSE [stored EXCEPT ![id] = Stored(c, by)]
          /\ window' = Add(Withdraw(window, old), id, c)
          /\ events' = Append(RemoveFirst(events, old), id)

\* register_artifact of a result, in one section of the store's lock.
RegisterResult(c, by) ==
    /\ Registers(c)
    /\ LET id == Len(stored) + 1
           old == Replacing(c)
       IN /\ stored' = Append(stored, Stored(c, by))
          /\ window' = Add(Withdraw(window, old), id, c)
          /\ events' = Append(RemoveFirst(events, old), id)

\* register_artifact of a record; a refusal is swallowed.
RegisterRecord(c, by) ==
    IF window.records < MaxRecords
    THEN LET id == Len(stored) + 1
         IN /\ stored' = Append(stored, Stored(c, by))
            /\ window' = AddRecord(window, id)
            /\ events' = Append(events, id)
    ELSE UNCHANGED store

NoteUndelivered ==
    /\ window' = IF window.undelivered < MaxNotices
                 THEN [window EXCEPT !.undelivered = @ + 1]
                 ELSE [window EXCEPT !.omitted = @ + 1]
    /\ UNCHANGED <<stored, events>>

Pending == Range(window.results)

-----------------------------------------------------------------------------
(* Writes and commands.                                                    *)

Move(t, from, to) == place[t] = from /\ place' = [place EXCEPT ![t] = to]

Working(s) == delegate[s].working = "yes"
MayCall(t) == phase = "running" /\ Working(OwnerOf[t])

Held(p) == [path |-> p, version |-> file'[p].version, size |-> file'[p].size,
            turn |-> turn]

PutFile(p, size) ==
    /\ SumFunction([q \in Paths |-> file[q].version]) < MaxWrites
    /\ file' = [file EXCEPT ![p] = [version |-> @.version + 1, size |-> size]]

\* Under the files lock; the content is what will be registered.
Write(t, p, size) ==
    /\ MayCall(t)
    /\ Move(t, "idle", "held")
    /\ PutFile(p, size)
    /\ hold' = [hold EXCEPT ![t] = Held(p)]
    /\ UNCHANGED <<store, live, attached, told, mishaps, delegation, conversation>>

\* Nobody holds an earlier version of the path.
MyTurn(t) ==
    InOrder => \A u \in Tools : place[u] = "held" /\ hold[u].path = hold[t].path
                                   => hold[u].version >= hold[t].version

\* Mutant: the form that loses the error.
PublishQuietly(t) ==
    /\ Move(t, "held", "idle")
    /\ t \in Writers
    /\ MyTurn(t)
    /\ hold' = [hold EXCEPT ![t] = NoHold]
    /\ \/ RegisterResult(hold[t], OwnerOf[t])
       \/ UNCHANGED store
    /\ UNCHANGED <<told, live, attached, file, mishaps, delegation, conversation>>

\* _publish: register, or leave a notice for the report.
Publish(t) ==
    /\ Move(t, "held", "idle")
    /\ t \in Writers
    /\ MyTurn(t)
    /\ hold' = [hold EXCEPT ![t] = NoHold]
    /\ \/ /\ RegisterResult(hold[t], OwnerOf[t])
          /\ told' = told
       \/ /\ ~Registers(hold[t])
          /\ NoteUndelivered
          /\ told' = told \cup {<<hold[t].path, hold[t].version>>}
    /\ UNCHANGED <<live, attached, file, mishaps, delegation, conversation>>

\* SandboxExecutionMiddleware keeps the command as a record, then it runs.
StartCommand(t) ==
    /\ MayCall(t)
    /\ t \in Commands
    /\ Move(t, "idle", "running")
    /\ RegisterRecord([NoHold EXCEPT !.turn = turn], OwnerOf[t])
    /\ hold' = [hold EXCEPT ![t].turn = turn]
    /\ UNCHANGED <<live, attached, file, told, mishaps, delegation, conversation>>

\* The command changes a file, or none; its job is done.
CommandRuns(t) ==
    /\ place[t] = "running"
    /\ \/ /\ \E p \in Paths : \E size \in SizesOf[p] :
                /\ PutFile(p, size)
                /\ hold' = [hold EXCEPT ![t] = [Held(p) EXCEPT !.turn = hold[t].turn]]
          /\ Move(t, "running", "reading")
       \/ Move(t, "running", "ended") /\ UNCHANGED <<file, hold>>
    /\ UNCHANGED <<store, live, attached, told, mishaps, delegation, conversation>>

\* The call ends before its command, which a container goes on with: its own
\* deadline passed (SandboxJobs.execute), or a look at the row failed.
CallGivesUp(t) ==
    /\ t \in Commands
    /\ Move(t, "running", "ended")
    /\ astray' = astray \cup {t}
    /\ UNCHANGED <<store, live, attached, file, hold, told, lost, delegation, conversation>>

\* Nobody waits for what such a command does to a file.
StrayRuns(t) ==
    /\ t \in astray
    /\ \E p \in Paths : \E size \in SizesOf[p] :
          /\ PutFile(p, size)
          /\ lost' = lost \cup {<<p, file'[p].version>>}
    /\ UNCHANGED <<store, live, attached, place, hold, told, astray, delegation, conversation>>

\* The worker or its slot fails after the command, the row was cancelled, or
\* the call fails before it says what it dropped: it ends with no file and
\* no word (SandboxWorker._execute, finish, fail_active, worker_error).
ResultLost(t) ==
    /\ t \in Commands
    /\ Move(t, "reading", "ended") \/ Move(t, "held", "ended")
    /\ hold' = [hold EXCEPT ![t].path = None]
    /\ lost' = lost \cup {<<hold[t].path, hold[t].version>>}
    /\ UNCHANGED <<store, live, attached, file, told, astray, delegation, conversation>>

\* _collect reads the output as it is now, under a guard it lets go, or
\* finds the workspace busy: then the drop is in the evidence.
Collect(t) ==
    /\ place[t] = "reading"
    /\ LET p == hold[t].path
       IN \/ /\ Move(t, "reading", "held")
             /\ hold' = [hold EXCEPT ![t] = [path |-> p, version |-> file[p].version,
                             size |-> file[p].size, turn |-> @.turn]]
             /\ told' = told
          \/ /\ Move(t, "reading", "ended")
             /\ hold' = [hold EXCEPT ![t].path = None]
             /\ told' = told \cup {<<p, file[p].version>>}
    /\ UNCHANGED <<store, live, attached, file, mishaps, delegation, conversation>>

\* The output is attached, or dropped with its reason in the evidence.
Attach(t) ==
    /\ t \in Commands
    /\ Move(t, "held", "ended")
    /\ MyTurn(t)
    /\ hold' = [hold EXCEPT ![t].path = None]
    /\ \/ /\ RegisterResult(hold[t], OwnerOf[t])
          /\ told' = told
       \/ /\ ~Registers(hold[t])
          /\ UNCHANGED store
          /\ told' = told \cup {<<hold[t].path, hold[t].version>>}
    /\ UNCHANGED <<live, attached, file, mishaps, delegation, conversation>>

\* What the command printed is kept as a record, if it printed anything.
EndCommand(t) ==
    /\ Move(t, "ended", "idle")
    /\ \/ RegisterRecord([NoHold EXCEPT !.turn = hold[t].turn], OwnerOf[t])
       \/ UNCHANGED store
    /\ hold' = [hold EXCEPT ![t] = NoHold]
    /\ UNCHANGED <<live, attached, file, told, mishaps, delegation, conversation>>

-----------------------------------------------------------------------------
(* Specialists.                                                            *)

StartSpecialist(s) ==
    /\ phase = "running"
    /\ delegate[s].working = "no"
    /\ delegate' = [delegate EXCEPT ![s] =
           [working |-> "yes", baseline |-> Pending,
            since |-> [p \in Paths |-> file[p].version]]]
    /\ UNCHANGED <<store, live, attached, tools, reported, conversation>>

QuietTools(set) == \A t \in set : place[t] = "idle" \/ hold[t].turn # turn

\* _own_artifacts: what is pending and was not before.
EndSpecialist(s) ==
    /\ phase = "running"
    /\ Working(s)
    /\ QuietTools({t \in Tools : OwnerOf[t] = s})
    /\ reported' = [reported EXCEPT ![s] = Pending \ delegate[s].baseline]
    /\ delegate' = [delegate EXCEPT ![s] = [Off EXCEPT !.working = "ended"]]
    /\ UNCHANGED <<store, live, attached, tools, conversation>>

-----------------------------------------------------------------------------
(* The turn.                                                               *)

\* Mutant: the form that relies on the claim of the turn before.
BeginTurnTrusting ==
    /\ phase \in {"idle", "finished"}
    /\ turn < MaxTurns
    /\ turn' = turn + 1
    /\ phase' = "running" /\ restarted' = FALSE
    /\ live' = <<>>
    /\ delegate' = [s \in Specialists |-> Off]
    /\ reported' = [s \in Specialists |-> {}]
    /\ UNCHANGED <<store, attached, tools, breaks>>

\* POST /stream: begin_turn discards what an abandoned turn left behind.
BeginTurn ==
    /\ phase \in {"idle", "finished"}
    /\ turn < MaxTurns
    /\ turn' = turn + 1
    /\ phase' = "running" /\ restarted' = FALSE
    /\ window' = EmptyWindow /\ events' = <<>>
    /\ live' = <<>>
    /\ delegate' = [s \in Specialists |-> Off]
    /\ reported' = [s \in Specialists |-> {}]
    /\ UNCHANGED <<stored, attached, tools, breaks>>

\* After every stream event.
Drain ==
    /\ phase = "running"
    /\ events # <<>>
    /\ live' = live \o events
    /\ events' = <<>>
    /\ UNCHANGED <<stored, window, attached, tools, delegation, conversation>>

\* An approval or a question ends the response; the turn goes on with
\* POST /resume, which keeps the window.
Pause ==
    /\ phase = "running"
    /\ QuietTools(Tools)
    /\ \E s \in Specialists : Working(s)
    /\ phase' = "paused"
    /\ live' = live \o events
    /\ events' = <<>>
    /\ UNCHANGED <<stored, window, attached, tools, delegation, turn, restarted, breaks>>

Resume ==
    /\ phase = "paused"
    /\ phase' = "running"
    /\ UNCHANGED <<store, live, attached, tools, delegation, turn, restarted, breaks>>

\* ArtifactMessageMiddleware claims the window for the final message.
Claim ==
    /\ phase = "running"
    /\ \A s \in Specialists : ~Working(s)
    /\ phase' = "answered"
    /\ attached' = [attached EXCEPT ![turn] = Range(window.ids)]
    /\ window' = EmptyWindow
    /\ UNCHANGED <<stored, events, live, tools, delegation, turn, restarted, breaks>>

\* Mutant: the response ends without the last drain.
FinishAtOnce ==
    /\ phase = "answered"
    /\ phase' = "finished"
    /\ UNCHANGED <<store, live, attached, tools, delegation, turn, restarted, breaks>>

\* What is left of the events follows the last payload.
Finish ==
    /\ phase = "answered"
    /\ phase' = "finished"
    /\ live' = live \o events
    /\ events' = <<>>
    /\ UNCHANGED <<stored, window, attached, tools, delegation, turn, restarted, breaks>>

\* The run is cancelled or fails: nobody claims, and threads go on.
Abort ==
    /\ phase = "running"
    /\ breaks < MaxBreaks
    /\ breaks' = breaks + 1
    /\ phase' = "idle"
    /\ delegate' = [s \in Specialists |-> Off]
    /\ UNCHANGED <<store, live, attached, tools, reported, turn, restarted>>

\* The process restarts: what it held in memory is gone; containers run on.
Restart ==
    /\ breaks < MaxBreaks
    /\ breaks' = breaks + 1
    /\ window' = EmptyWindow /\ events' = <<>>
    /\ place' = [t \in Tools |-> "idle"]
    /\ hold' = [t \in Tools |-> NoHold]
    /\ astray' = astray \cup {t \in Commands : place[t] = "running"}
    /\ phase' = IF phase = "paused" THEN "paused" ELSE "idle"
    /\ delegate' = IF phase = "paused" THEN delegate
                   ELSE [s \in Specialists |-> Off]
    /\ restarted' = TRUE
    /\ UNCHANGED <<stored, live, attached, file, told, lost, reported, turn>>

ToolStep(t) ==
    \/ \E p \in Paths : \E size \in SizesOf[p] : t \in Writers /\ Write(t, p, size)
    \/ Publish(t)
    \/ StartCommand(t) \/ CommandRuns(t) \/ Collect(t) \/ Attach(t) \/ EndCommand(t)
    \/ CallGivesUp(t) \/ StrayRuns(t) \/ ResultLost(t)

Next ==
    \/ \E t \in Tools : ToolStep(t)
    \/ \E s \in Specialists : StartSpecialist(s) \/ EndSpecialist(s)
    \/ BeginTurn \/ Drain \/ Pause \/ Resume \/ Claim \/ Finish
    \/ Abort \/ Restart

Spec == Init /\ [][Next]_vars

-----------------------------------------------------------------------------
\* What a set of artifacts takes of the room of a turn.
BytesOf(set) == SumFunction([id \in set |-> stored[id].size])
ImagesOf(set) == Cardinality({id \in set : stored[id].path \in Images})

(* The accounts of a turn are the artifacts it would attach: after any     *)
(* number of rewrites and refusals the counters are those of the pending   *)
(* results, within the limits, and a path has one result, the one it       *)
(* points to (_PendingTurn.admit, add, withdraw).                          *)
WindowExact ==
    LET records == {id \in Range(window.ids) : IsRecord(id)}
    IN /\ Range(window.ids) = Pending \cup records
       /\ Len(window.ids) = Len(window.results) + Cardinality(records)
       /\ window.images = ImagesOf(Pending) /\ window.images <= MaxImages
       /\ window.bytes = BytesOf(Pending) /\ window.bytes <= MaxBytes
       /\ window.records = Cardinality(records) /\ window.records <= MaxRecords
       /\ \A p \in Paths : {id \in Pending : stored[id].path = p}
                              = {window.byPath[p]} \ {0}

(* An answer carries artifacts registered during its own turn: what a      *)
(* cancelled or crashed turn left behind does not attach itself to the     *)
(* next one (begin_turn).                                                  *)
TurnsApart ==
    \A t \in 1..MaxTurns : \A id \in attached[t] : stored[id].at = t

(* The user receives the latest version of a rewritten file, or somebody   *)
(* was told that the latest is not delivered (register_artifact).  Three   *)
(* things can keep it from both: the result of the command that wrote it   *)
(* was lost; a thread of an earlier run wrote it and has still to register *)
(* it; or such a thread did so when the answer was out.                    *)
LatestOrTold ==
    phase \in {"answered", "finished"} =>
        \A id \in {i \in attached[turn] : ~IsRecord(i)} :
            LET p == stored[id].path
                latest == file[p].version
            IN \/ stored[id].version = latest
               \/ <<p, latest>> \in told \cup lost
               \/ \E t \in Tools : /\ hold[t].path = p /\ hold[t].version = latest
                                  /\ hold[t].turn # turn
               \/ \E i \in Ids : /\ stored[i].path = p /\ stored[i].version = latest
                                /\ stored[i].at = turn /\ stored[i].turn # turn

\* The page draws the newest live artifact of each path, and every record.
Drawn ==
    {live[i] : i \in {i \in DOMAIN live :
        IsRecord(live[i]) \/
        \A j \in DOMAIN live : stored[live[j]].path = stored[live[i]].path => j <= i}}

(* What the browser drew when a turn has ended is what its answer carries  *)
(* when it is read back, unless the window was lost in a restart, or the   *)
(* page drew what a thread of an earlier run registered and the answer     *)
(* does not carry (drain_events and claim_for_message, ui/streaming.py     *)
(* _newest_per_workspace_file).                                            *)
LiveMatchesAnswer ==
    phase = "finished" /\ ~restarted
        /\ (\A id \in Range(live) \ attached[turn] : stored[id].turn = turn)
    => Drawn = attached[turn]

(* The report of a specialist lists whatever its own tools registered      *)
(* while it worked and the user is still going to receive, rewrites of     *)
(* files an earlier specialist delivered included (_own_artifacts).        *)
ReportsRewrites ==
    [][\A s \in Specialists :
         delegate[s].working = "yes" /\ delegate'[s].working = "ended"
         => \A id \in Pending :
               stored[id].by = s /\ stored[id].turn = turn
                  /\ stored[id].version > delegate[s].since[stored[id].path]
               => id \in reported'[s]]_vars
=============================================================================
