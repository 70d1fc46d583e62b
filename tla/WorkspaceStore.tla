--------------------------- MODULE WorkspaceStore ---------------------------
(***************************************************************************)
(* The files of one conversation (filesystem/storage.py, service.py,       *)
(* backend.py, api.py) and everyone who touches them: the agent's write    *)
(* and edit tools, the browser that previews and saves, a run that         *)
(* publishes uploads and stages the inputs of its turn, the sandbox        *)
(* command that changes any file, and the sweep that expires the scratch.  *)
(*                                                                         *)
(* One API process and one worker process; both may die between any two    *)
(* steps.  The locks are flocks of their holders and vanish with them, so  *)
(* they are derived from the places.  A file is its content; the .usage    *)
(* cache, the .paused marker and the age of the directory are files too.   *)
(*                                                                         *)
(* One command at a time: the flock keeps a second one, which admission    *)
(* lets in once the row of the first was ended, behind it (SandboxQueue).  *)
(* The sweep is the worker's; the one the API runs itself is left out.     *)
(***************************************************************************)
EXTENDS Integers, Sequences, FiniteSets, Functions

CONSTANTS
    Tools,       \* calls of the agent's write and edit
    Savers,      \* browser editors
    Runs,        \* agent runs: POST /stream or /resume
    Paths,       \* files of /workspace
    UploadNames, \* the names one upload may get, in the order they are tried
    Contents,    \* contents of a file
    Batch,       \* the contents of the files uploaded with a turn
    SizeOf,      \* bytes of a content
    Scratch,     \* bytes of .scratch, if it is there
    Limit,       \* limit_bytes
    Exclusive,   \* run_controls: one run of a conversation at a time
    MaxDeaths,   \* bound on deaths of a process
    None

Writers == Tools \cup Savers \cup Runs

ASSUME StoreAssumption ==
    /\ SizeOf \in [Contents -> Nat]
    /\ Batch \in Seq(Contents)
    /\ UploadNames \in Seq(Paths)
    /\ Scratch \in Nat /\ Limit \in Nat /\ MaxDeaths \in Nat
    /\ IsFiniteSet(Paths) /\ IsFiniteSet(Writers)
    /\ Exclusive \in BOOLEAN
    /\ None \notin Contents \cup Paths \cup Runs

ASSUME WritersDisjoint ==
    /\ Tools \cap Savers = {}
    /\ Runs \cap (Tools \cup Savers) = {}

VARIABLES
    file,      \* the content of a path, or None
    scratch,   \* .scratch is there
    temp,      \* the temporary file of a writer: its content, or None
    usage,     \* .usage, or None
    paused,    \* .paused
    pending,   \* the checkpoint has an unanswered interrupt
    inputs,    \* the run whose inputs are staged, or None
    turn,      \* the run that began the turn the conversation is in
    pc,        \* where a writer is
    draft,     \* what it writes: path, text, and the content it started from
    sum,       \* new_size in put
    created,   \* what the upload of a run has published
    look,      \* what a run read of the interrupt
    command,   \* the sandbox command, queued or in its slot
    listed,    \* the row of the command is active
    asker,     \* the turn that asked for it and relies on its inputs, or None
    sweep,     \* cleanup_expired
    tainted,   \* a worker died before .usage was right about its container
    adrift,    \* and the row of such a container was ended by its caller
    deaths

disk == <<file, scratch, temp, usage>>
dialogue == <<paused, pending, inputs, turn>>
work == <<pc, draft, sum, created, look>>
job == <<command, listed, asker>>
marks == <<tainted, adrift>>
vars == <<disk, dialogue, work, job, sweep, marks, deaths>>

\* Inside put, under the files lock.
Putting == {"admitted", "written", "replaced"}
\* Where a run stages the inputs, and where it undoes a failed upload.
Staging == {"staging", "swapping"}
Undoing == {"failing", "undone"}
Locked == {"locked"} \cup Putting \cup Staging \cup Undoing
\* Where a run holds its lease: everywhere but before and after.
Live == {"leased", "prepared", "staged", "streaming", "ending", "looked"} \cup Locked
Editing == {"entered", "cleared"} \cup Locked

Places == {"idle", "drafted", "done"} \cup Live \cup Editing

\* The command: queued, claimed by a slot, then under its locks.
Commanding == {"measuring", "starting", "running", "recounting", "leaving"}
Commands == {"none", "queued", "claimed", "reporting", "stray", "halted"} \cup Commanding
Sweeps == {"idle", "scanning", "locked", "removing", "dead"}

Drafts == [path : Paths \cup {None}, text : Contents \cup {None},
           base : Contents \cup {None}]
NoDraft == [path |-> None, text |-> None, base |-> None]

TypeOK ==
    /\ file \in [Paths -> Contents \cup {None}]
    /\ scratch \in BOOLEAN
    /\ temp \in [Writers -> Contents \cup {None}]
    /\ usage \in Int \cup {None}
    /\ paused \in BOOLEAN /\ pending \in BOOLEAN
    /\ inputs \in Runs \cup {None} /\ turn \in Runs \cup {None}
    /\ pc \in [Writers -> Places]
    /\ draft \in [Writers -> Drafts]
    /\ sum \in [Writers -> Int]
    /\ created \in [Runs -> Seq(Paths)]
    /\ look \in [Runs -> BOOLEAN]
    /\ command \in Commands
    /\ listed \in BOOLEAN
    /\ asker \in Runs \cup {None}
    /\ sweep \in Sweeps
    /\ tainted \in BOOLEAN /\ adrift \in BOOLEAN
    /\ deaths \in 0..MaxDeaths

Init ==
    /\ file = [p \in Paths |-> None]
    /\ scratch = FALSE
    /\ temp = [w \in Writers |-> None]
    /\ usage = None
    /\ paused = FALSE /\ pending = FALSE
    /\ inputs = None /\ turn = None
    /\ pc = [w \in Writers |-> "idle"]
    /\ draft = [w \in Writers |-> NoDraft]
    /\ sum = [w \in Writers |-> 0]
    /\ created = [r \in Runs |-> <<>>]
    /\ look = [r \in Runs |-> FALSE]
    /\ command = "none" /\ listed = FALSE /\ asker = None
    /\ sweep = "idle"
    /\ tainted = FALSE /\ adrift = FALSE
    /\ deaths = 0

-----------------------------------------------------------------------------
(* Sizes and locks.                                                        *)

Bytes(c) == IF c = None THEN 0 ELSE SizeOf[c]

\* _directory_size: every regular file, a stray temporary included.
DirectorySize ==
    SumFunction([p \in Paths |-> Bytes(file[p])])
      + SumFunction([w \in Writers |-> Bytes(temp[w])])
      + (IF scratch THEN Scratch ELSE 0)

\* The files lock and the execution lock, which a command takes exclusively.
FileHolders == {w \in Writers : pc[w] \in Locked}
FilesFree ==
    /\ FileHolders = {}
    /\ command \notin Commanding
    /\ sweep \notin {"locked", "removing"}

\* The operation lock: runs and commands share it.
LiveRuns == {r \in Runs : pc[r] \in Live}
ActiveSavers == {s \in Savers : pc[s] \in Editing}
ExclusiveFree == ActiveSavers = {} /\ sweep \notin {"locked", "removing"}
OperationFree == ExclusiveFree /\ LiveRuns = {} /\ command \notin Commanding

Go(w, from, to) == pc[w] = from /\ pc' = [pc EXCEPT ![w] = to]

\* The locals of put are gone when it returns.
Return(w) ==
    /\ draft' = [draft EXCEPT ![w] = NoDraft]
    /\ sum' = [sum EXCEPT ![w] = 0]

-----------------------------------------------------------------------------
(* put: the caller holds the files lock.                                   *)

\* What put takes the workspace to measure: .usage if it is there.
Known == IF usage # None THEN usage ELSE DirectorySize
SizeAfter(p, c) == Known - Bytes(file[p]) + Bytes(c)

\* Mutant: the size before the write is checked.
AdmitEarly(w, from, d) ==
    /\ Known <= Limit
    /\ Go(w, from, "admitted")
    /\ draft' = [draft EXCEPT ![w] = d]
    /\ sum' = [sum EXCEPT ![w] = SizeAfter(d.path, d.text)]
    /\ usage' = None
    /\ UNCHANGED <<file, scratch, temp, dialogue, look, job, sweep, marks, deaths>>

\* The quota is checked and .usage unlinked: from here to RecordUsage a crash
\* leaves none.  The callers say what becomes of created.
Admit(w, from, d) ==
    /\ SizeAfter(d.path, d.text) <= Limit
    /\ Go(w, from, "admitted")
    /\ draft' = [draft EXCEPT ![w] = d]
    /\ sum' = [sum EXCEPT ![w] = SizeAfter(d.path, d.text)]
    /\ usage' = None
    /\ UNCHANGED <<file, scratch, temp, dialogue, look, job, sweep, marks, deaths>>

Draft(p, c) == [path |-> p, text |-> c, base |-> file[p]]

WriteTemporary(w) ==
    /\ Go(w, "admitted", "written")
    /\ temp' = [temp EXCEPT ![w] = draft[w].text]
    /\ UNCHANGED <<file, scratch, usage, dialogue, draft, sum, created, look,
                   job, sweep, marks, deaths>>

Replace(w) ==
    /\ Go(w, "written", "replaced")
    /\ file' = [file EXCEPT ![draft[w].path] = draft[w].text]
    /\ temp' = [temp EXCEPT ![w] = None]
    /\ UNCHANGED <<scratch, usage, dialogue, draft, sum, created, look,
                   job, sweep, marks, deaths>>

\* A run goes on with its batch; a tool and a save give the lock back.
RecordUsage(w) ==
    /\ Go(w, "replaced", IF w \in Runs THEN "locked" ELSE "done")
    /\ usage' = sum[w]
    /\ Return(w)
    /\ UNCHANGED <<file, scratch, temp, dialogue, created, look, job, sweep, marks, deaths>>

\* A write fails, or put refuses: the lock goes, and a run undoes its batch.
PutFails(w) ==
    /\ pc[w] \in (IF w \in Runs THEN Putting \cup {"locked"} ELSE Putting)
    /\ pc' = [pc EXCEPT ![w] = IF w \in Runs THEN "failing" ELSE "done"]
    /\ temp' = [temp EXCEPT ![w] = None]
    /\ Return(w)
    /\ UNCHANGED <<file, scratch, usage, dialogue, created, look, job, sweep, marks, deaths>>

PutStep(w) == WriteTemporary(w) \/ Replace(w) \/ RecordUsage(w) \/ PutFails(w)

-----------------------------------------------------------------------------
(* The agent's tools and the browser.                                      *)

Streaming == \E r \in Runs : pc[r] = "streaming"

\* A tool locks the files and goes into put; it may outlive the run that called
\* it and holds no lease of its own.  write creates, edit reads what it changes.
ToolPuts(t, p, c) ==
    /\ Streaming
    /\ FilesFree
    /\ Admit(t, "idle", Draft(p, c))
    /\ UNCHANGED created

ToolWrites(t) == \E p \in Paths, c \in Contents : file[p] = None /\ ToolPuts(t, p, c)
ToolEdits(t) == \E p \in Paths, c \in Contents :
    file[p] \notin {None, c} /\ ToolPuts(t, p, c)

\* The browser shows a file and the user changes the text.
Preview(s) ==
    /\ FilesFree
    /\ Go(s, "idle", "drafted")
    /\ \E p \in Paths, c \in Contents :
          /\ file[p] \notin {None, c}
          /\ draft' = [draft EXCEPT ![s] = Draft(p, c)]
    /\ UNCHANGED <<disk, dialogue, sum, created, look, job, sweep, marks, deaths>>

\* PUT /file takes the operation lock; refused, the browser keeps the draft.
EnterSave(s) ==
    /\ OperationFree
    /\ Go(s, "drafted", "entered")
    /\ UNCHANGED <<disk, dialogue, draft, sum, created, look, job, sweep, marks, deaths>>

\* No active job and no pending question: the marker can go.
ClearMarker(s) ==
    /\ ~listed /\ ~pending
    /\ Go(s, "entered", "cleared")
    /\ paused' = FALSE
    /\ UNCHANGED <<file, scratch, temp, usage, pending, inputs, turn, draft, sum, created,
                   look, job, sweep, marks, deaths>>

\* Mutant: the revision is not looked at.
SaveAnyway(s) ==
    /\ FilesFree
    /\ pc[s] = "cleared"
    /\ Admit(s, "cleared", draft[s])
    /\ UNCHANGED created

\* The revision is the hash of the content the editor was given.
Save(s) ==
    /\ FilesFree
    /\ pc[s] = "cleared" /\ file[draft[s].path] = draft[s].base
    /\ Admit(s, "cleared", draft[s])
    /\ UNCHANGED created

\* A 409 keeps the draft for another attempt; a conflict or a failure ends it.
SaveRefused(s) ==
    /\ Go(s, "entered", "drafted")
    /\ UNCHANGED <<disk, dialogue, draft, sum, created, look, job, sweep, marks, deaths>>

SaveFails(s) ==
    /\ Go(s, "cleared", "done")
    /\ Return(s)
    /\ UNCHANGED <<disk, dialogue, created, look, job, sweep, marks, deaths>>

ToolStep(t) == ToolWrites(t) \/ ToolEdits(t) \/ PutStep(t)
SaverStep(s) ==
    \/ Preview(s) \/ EnterSave(s) \/ ClearMarker(s) \/ Save(s)
    \/ SaveRefused(s) \/ SaveFails(s) \/ PutStep(s)

-----------------------------------------------------------------------------
(* A run, from its lease to its release.                                   *)

Lease(r) ==
    /\ ExclusiveFree
    /\ Exclusive => LiveRuns = {}
    /\ Go(r, "idle", "leased")
    /\ UNCHANGED <<disk, dialogue, draft, sum, created, look, job, sweep, marks, deaths>>

\* A new message needs an answered conversation; its files are migrated and
\* its uploads published under one lock, here with the directories ensured.
StartTurn(r) ==
    /\ ~pending
    /\ FilesFree
    /\ Go(r, "leased", "locked")
    /\ UNCHANGED <<file, scratch, temp, usage, dialogue, draft, sum, created, look,
                   job, sweep, marks, deaths>>

\* A resume needs the interrupt it answers; nothing is staged.
StartResume(r) ==
    /\ pending
    /\ Go(r, "leased", "staged")
    /\ look' = [look EXCEPT ![r] = TRUE]
    /\ UNCHANGED <<disk, dialogue, draft, sum, created, job, sweep, marks, deaths>>

\* The first name that is free.
FreeNames == {i \in DOMAIN UploadNames : file[UploadNames[i]] = None}
FirstFree == UploadNames[CHOOSE i \in FreeNames : \A j \in FreeNames : i <= j]

Upload(r) ==
    /\ Len(created[r]) < Len(Batch)
    /\ FreeNames # {}
    /\ Admit(r, "locked", Draft(FirstFree, Batch[Len(created[r]) + 1]))
    /\ created' = [created EXCEPT ![r] = Append(@, FirstFree)]

\* No attachments, or all of them published.
Uploaded(r) ==
    /\ Len(created[r]) \in {0, Len(Batch)}
    /\ Go(r, "locked", "prepared")
    /\ created' = [created EXCEPT ![r] = <<>>]
    /\ UNCHANGED <<disk, dialogue, draft, sum, look, job, sweep, marks, deaths>>

\* The batch is rolled back, then .usage is forgotten.
UndoUploads(r) ==
    /\ Go(r, "failing", "undone")
    /\ file' = [p \in Paths |-> IF p \in Range(created[r]) THEN None ELSE file[p]]
    /\ UNCHANGED <<scratch, temp, usage, dialogue, draft, sum, created, look,
                   job, sweep, marks, deaths>>

ForgetUsage(r) ==
    /\ Go(r, "undone", "done")
    /\ usage' = None
    /\ created' = [created EXCEPT ![r] = <<>>]
    /\ UNCHANGED <<file, scratch, temp, dialogue, draft, sum, look, job, sweep, marks, deaths>>

\* Mutant: a job may still be active.
StageInputsAnyway(r) ==
    /\ FilesFree
    /\ Go(r, "prepared", "staging")
    /\ UNCHANGED <<disk, dialogue, draft, sum, created, look, job, sweep, marks, deaths>>

\* stage_runtime_inputs: no job may be active.
StageInputs(r) ==
    /\ ~listed
    /\ FilesFree
    /\ Go(r, "prepared", "staging")
    /\ UNCHANGED <<file, scratch, temp, usage, dialogue, draft, sum, created, look,
                   job, sweep, marks, deaths>>

\* The old directory is renamed away, then the new one into its place.
RemoveOld(r) ==
    /\ Go(r, "staging", "swapping")
    /\ inputs' = None
    /\ UNCHANGED <<file, scratch, temp, usage, paused, pending, turn, draft, sum, created,
                   look, job, sweep, marks, deaths>>

InstallNew(r) ==
    /\ Go(r, "swapping", "staged")
    /\ inputs' = r
    /\ UNCHANGED <<file, scratch, temp, usage, paused, pending, turn, draft, sum, created,
                   look, job, sweep, marks, deaths>>

\* The graph is entered with the marker set, so that a crash keeps it.
EnterStream(r) ==
    /\ FilesFree
    /\ Go(r, "staged", "streaming")
    /\ paused' = TRUE
    /\ turn' = IF look[r] THEN turn ELSE r
    /\ look' = [look EXCEPT ![r] = FALSE]
    /\ UNCHANGED <<disk, pending, inputs, draft, sum, created, job, sweep, marks, deaths>>

\* The graph takes the answer; later it may ask again, or end.
TakeAnswer(r) ==
    /\ pc[r] = "streaming" /\ pending
    /\ pending' = FALSE
    /\ UNCHANGED <<disk, paused, inputs, turn, work, job, sweep, marks, deaths>>

GraphEnds(r) ==
    /\ Go(r, "streaming", "ending")
    /\ pending' \in {pending, TRUE}
    /\ UNCHANGED <<disk, paused, inputs, turn, draft, sum, created, look, job, sweep,
                   marks, deaths>>

\* What the run leaves behind is read, and then marked: two steps.
ReadPending(r) ==
    /\ Go(r, "ending", "looked")
    /\ look' = [look EXCEPT ![r] = pending]
    /\ UNCHANGED <<disk, dialogue, draft, sum, created, job, sweep, marks, deaths>>

\* Mutant: the marker is given the interrupt, not whether there is one.
MarkInterrupt(r) ==
    /\ Go(r, "looked", "done")
    /\ paused' = IF look[r] THEN turn ELSE None
    /\ look' = [look EXCEPT ![r] = FALSE]
    /\ UNCHANGED <<disk, pending, inputs, turn, draft, sum, created, job, sweep,
                   marks, deaths>>

MarkPaused(r) ==
    /\ Go(r, "looked", "done")
    /\ paused' = look[r]
    /\ look' = [look EXCEPT ![r] = FALSE]
    /\ UNCHANGED <<disk, pending, inputs, turn, draft, sum, created, job, sweep,
                   marks, deaths>>

\* A lock is refused, a job is active, a read or a rename fails.
RunFails(r) ==
    /\ pc[r] \in {"leased", "prepared", "staged", "ending"} \cup Staging
    /\ pc' = [pc EXCEPT ![r] = "done"]
    /\ look' = [look EXCEPT ![r] = FALSE]
    /\ UNCHANGED <<disk, dialogue, draft, sum, created, job, sweep, marks, deaths>>

RunStep(r) ==
    \/ Lease(r) \/ StartTurn(r) \/ StartResume(r)
    \/ Upload(r) \/ Uploaded(r) \/ UndoUploads(r) \/ ForgetUsage(r) \/ PutStep(r)
    \/ StageInputs(r) \/ RemoveOld(r) \/ InstallNew(r)
    \/ EnterStream(r) \/ TakeAnswer(r) \/ GraphEnds(r) \/ ReadPending(r) \/ MarkPaused(r)
    \/ RunFails(r)

-----------------------------------------------------------------------------
(* The sandbox command: its row in the queue, and its slot in the worker.   *)

exceptRow == <<disk, dialogue, work, sweep, marks, deaths>>
exceptSlot == <<file, scratch, temp, dialogue, work, listed, asker, sweep, deaths>>

\* The graph asks, or a thread that outlived its run: no turn waits for that.
Submit ==
    /\ command = "none"
    /\ command' = "queued"
    /\ listed' = TRUE
    /\ \/ Streaming /\ asker' = turn
       \/ turn # None /\ (\E r \in Runs : pc[r] = "done") /\ asker' = None
    /\ UNCHANGED exceptRow

\* A slot takes the row; the locks of the workspace come later.
Claim ==
    /\ command = "queued" /\ sweep # "dead"
    /\ command' = "claimed"
    /\ UNCHANGED <<exceptRow, listed, asker>>

\* The caller ends the row: at its own deadline, wherever the slot is, or before
\* the claim.  A slot goes on, under the locks it has; before them, and when
\* they are lost, nobody relies on its container any more.  (The caller is also
\* let do so after the death of its API, which only ends more rows.)
EndRow ==
    /\ listed
    /\ listed' = FALSE
    /\ command' = IF command = "queued" THEN "none" ELSE command
    /\ asker' = IF command \in Commanding THEN asker ELSE None
    /\ adrift' = (adrift \/ command = "stray")
    /\ UNCHANGED <<disk, dialogue, work, sweep, tainted, deaths>>

\* Both locks; what .usage says is not trusted.
CommandLocks ==
    /\ command = "claimed"
    /\ ExclusiveFree /\ FilesFree
    /\ command' = "measuring"
    /\ usage' = None
    /\ UNCHANGED <<exceptSlot, marks>>

\* enforce_limit records what it counts, also when that is too much.
Recount(from, within) ==
    /\ command = from
    /\ usage' = DirectorySize
    /\ tainted' = FALSE /\ adrift' = FALSE
    /\ command' = IF DirectorySize <= Limit THEN within ELSE "leaving"
    /\ UNCHANGED exceptSlot

MeasureBefore == Recount("measuring", "starting")
MeasureAfter == Recount("recounting", "leaving")

StartContainer ==
    /\ command = "starting"
    /\ command' = "running"
    /\ UNCHANGED <<exceptSlot, usage, marks>>

\* A command creates, replaces and deletes files, also the temporary file of a
\* writer that died.
ContainerWrites ==
    /\ command \in {"running", "stray"}
    /\ \/ /\ \E p \in Paths, c \in Contents \cup {None} : file' = [file EXCEPT ![p] = c]
          /\ UNCHANGED <<scratch, temp>>
       \/ scratch' = TRUE /\ UNCHANGED <<file, temp>>
       \/ /\ \E w \in Writers : pc[w] = "done" /\ temp' = [temp EXCEPT ![w] = None]
          /\ UNCHANGED <<file, scratch>>
    /\ UNCHANGED <<usage, dialogue, work, job, sweep, marks, deaths>>

\* Cancelled before the start, or the container could not be started.
NotStarted ==
    /\ command \in {"measuring", "starting"}
    /\ command' = "leaving"
    /\ UNCHANGED <<exceptSlot, usage, marks>>

\* The container is removed; if reading its output failed, nothing is counted.
RemoveContainer ==
    /\ command = "running"
    /\ command' \in {"recounting", "leaving"}
    /\ UNCHANGED <<exceptSlot, usage, marks>>

\* Mutant: what enforce_limit recorded is left.
LeaveUsage ==
    /\ command = "leaving"
    /\ command' = "reporting"
    /\ UNCHANGED <<exceptSlot, usage, marks>>

\* The locks go with .usage; the row ends later.
LeaveCommand ==
    /\ command = "leaving"
    /\ command' = "reporting"
    /\ usage' = None
    /\ UNCHANGED <<exceptSlot, marks>>

\* finish: the row ends, unless the caller has ended it.
Report ==
    /\ command = "reporting"
    /\ command' = "none"
    /\ listed' = FALSE /\ asker' = None
    /\ UNCHANGED exceptRow

\* A container that cannot be removed stops the worker; the row stays as it is.
RemoveFails ==
    /\ command = "running"
    /\ command' = "stray"
    /\ usage' = None
    /\ tainted' = TRUE
    /\ adrift' = (adrift \/ ~listed)
    /\ sweep' = "dead"
    /\ UNCHANGED <<file, scratch, temp, dialogue, work, listed, asker, deaths>>

\* A new worker removes every container and fails the rows it finds.
Restart ==
    /\ sweep = "dead"
    /\ sweep' = "idle"
    /\ command' = "none"
    /\ listed' = FALSE /\ asker' = None
    /\ UNCHANGED <<disk, dialogue, work, marks, deaths>>

CommandStep ==
    \/ Submit \/ Claim \/ EndRow \/ CommandLocks \/ MeasureBefore \/ StartContainer
    \/ ContainerWrites \/ NotStarted \/ RemoveContainer \/ MeasureAfter \/ LeaveCommand
    \/ Report \/ RemoveFails \/ Restart

-----------------------------------------------------------------------------
(* cleanup_expired, in the worker's cleanup thread.                        *)

exceptSweep == <<file, temp, dialogue, work, job, marks, deaths>>

\* The active workspaces are read before the directories are looked at.
BeginSweep ==
    /\ sweep = "idle" /\ ~listed
    /\ sweep' = "scanning"
    /\ UNCHANGED <<exceptSweep, scratch, usage>>

SweepLocks ==
    /\ sweep = "scanning"
    /\ OperationFree /\ FilesFree
    /\ sweep' = "locked"
    /\ UNCHANGED <<exceptSweep, scratch, usage>>

\* Mutant: only the locks protect the scratch.
SweepChecksLocks ==
    /\ sweep = "locked" /\ scratch
    /\ sweep' = "removing"
    /\ usage' = None
    /\ UNCHANGED <<exceptSweep, scratch>>

\* The marker and the age are looked at again under the locks.
SweepChecks ==
    /\ sweep = "locked" /\ ~paused /\ scratch
    /\ sweep' = "removing"
    /\ usage' = None
    /\ UNCHANGED <<exceptSweep, scratch>>

RemoveScratch ==
    /\ sweep = "removing"
    /\ sweep' = "idle"
    /\ scratch' = FALSE
    /\ UNCHANGED <<exceptSweep, usage>>

\* Too young, busy, paused, nothing to remove, or a failure.
SweepSkips ==
    /\ sweep \in {"scanning", "locked", "removing"}
    /\ sweep' = "idle"
    /\ UNCHANGED <<exceptSweep, scratch, usage>>

SweepStep == BeginSweep \/ SweepLocks \/ SweepChecks \/ RemoveScratch \/ SweepSkips

-----------------------------------------------------------------------------
(* The deaths of the two processes.                                        *)

\* Every request of the process ends where it is; an editor's draft is in the
\* browser and survives.
Survives(w) == pc[w] \in {"idle", "drafted", "done"}

ApiDies ==
    /\ deaths < MaxDeaths
    /\ deaths' = deaths + 1
    /\ pc' = [w \in Writers |-> IF Survives(w) THEN pc[w] ELSE "done"]
    /\ draft' = [w \in Writers |-> IF Survives(w) THEN draft[w] ELSE NoDraft]
    /\ sum' = [w \in Writers |-> 0]
    /\ created' = [r \in Runs |-> <<>>]
    /\ look' = [r \in Runs |-> FALSE]
    /\ UNCHANGED <<disk, dialogue, job, sweep, marks>>

\* The container goes on without its worker.
WorkerDies ==
    /\ deaths < MaxDeaths /\ sweep # "dead"
    /\ deaths' = deaths + 1
    /\ sweep' = "dead"
    /\ command' = CASE command \in {"none", "queued"} -> command
                    [] command = "running" -> "stray"
                    [] OTHER -> "halted"
    /\ tainted' = (tainted \/ command \in {"running", "recounting", "leaving"})
    /\ adrift' = (adrift \/ (command = "running" /\ ~listed))
    /\ UNCHANGED <<disk, dialogue, work, listed, asker>>

Next ==
    \/ \E t \in Tools : ToolStep(t)
    \/ \E s \in Savers : SaverStep(s)
    \/ \E r \in Runs : RunStep(r)
    \/ CommandStep \/ SweepStep
    \/ ApiDies \/ WorkerDies

Spec == Init /\ [][Next]_vars

-----------------------------------------------------------------------------
(* Properties.                                                             *)

\* .usage is a cache of a scan, trusted by the next put.  It is absent or covers
\* what is there, the temporaries of dead writers included, whoever died where
\* -- except inside a command, which holds every lock, and after a worker that
\* died between the start of a container and the end of its command.
UsageCovers ==
    tainted \/ command \in Commanding \/ usage = None
      \/ usage >= DirectorySize

\* A replaced file leaves the workspace within its quota, although the size
\* was computed before the temporary was written, and earlier than the rename.
QuotaKept ==
    [][\A w \in Writers : pc[w] = "written" /\ pc'[w] = "replaced"
          => tainted \/ DirectorySize' <= Limit]_vars

\* A write replaces what it was based on: the file an edit read, nothing where
\* a name was free, the version the editor showed.  Only a container that lost
\* its worker writes beside a tool or an upload; it writes beside a save only
\* when the caller of its command had ended the row that would refuse the save.
NoLostUpdate ==
    [][\A w \in Writers : pc[w] = "written" /\ pc'[w] = "replaced"
          => \/ file[draft[w].path] = draft[w].base
             \/ tainted /\ w \notin Savers
             \/ adrift]_vars

\* The scratch is removed only when nobody works in the conversation: no run,
\* no command, and no question that a later resume continues from.
SweepSpares ==
    sweep = "removing" =>
        /\ LiveRuns = {} /\ ActiveSavers = {}
        /\ command \notin Commanding \cup {"stray"}
        /\ ~pending

\* A container sees the inputs of the turn that asked for it, whole, also after a
\* resume, after a process died between the two renames of a later staging, and
\* after its worker died while the row is active.  A caller that ends the row
\* before the slot has its locks, or after they were lost, gives that up.
TurnInputs ==
    asker # None /\ (command = "running" \/ (command = "stray" /\ listed))
        => inputs = asker
=============================================================================
