------------------------ MODULE WorkspaceStoreProofs ------------------------
(***************************************************************************)
(* What WorkspaceStore keeps for any tools, editors, runs, files, sizes    *)
(* and deaths.  The invariant has four parts: the places and the drafts of *)
(* the writers, the locks, the accounts of .usage, and, for one run at a   *)
(* time, the dialogue between a run, its question and the marker.          *)
(***************************************************************************)
EXTENDS WorkspaceStore, DataTheorems

Drafting == {"drafted", "entered", "cleared"} \cup Putting
Sweeping == {"locked", "removing"}

\* Every writer is at a place of its kind and knows what it writes.
Placed ==
    /\ \A t \in Tools : pc[t] \in {"idle", "done"} \cup Putting
    /\ \A s \in Savers : pc[s] \in {"idle", "done"} \cup Drafting
    /\ \A r \in Runs : pc[r] \in {"idle", "done"} \cup Live
    /\ \A w \in Writers : pc[w] \in Drafting =>
          draft[w].path \in Paths /\ draft[w].text \in Contents

\* The files lock, the execution lock and the operation lock exclude; a worker
\* that is gone holds none, and only such a worker leaves a container behind.
LocksExclude ==
    /\ \A v, w \in FileHolders : v = w
    /\ FileHolders # {} => command \notin Commanding /\ sweep \notin Sweeping
    /\ \A s, u \in ActiveSavers : s = u
    /\ ActiveSavers # {} => command \notin Commanding /\ sweep \notin Sweeping
    /\ ActiveSavers # {} => LiveRuns = {}
    /\ sweep \in Sweeping => LiveRuns = {} /\ command \notin Commanding
    /\ sweep = "dead" => command \notin Commanding \cup {"claimed", "reporting"}
    /\ command \in {"stray", "halted"} => sweep = "dead"
    /\ command = "stray" => tainted /\ (listed \/ adrift)
    /\ command \in {"queued", "claimed"} => listed \/ asker = None

Base == TypeOK /\ Placed /\ LocksExclude

\* A file is what its writer found, until it is replaced; a container that
\* lost its worker may write beside a tool and a run, and beside a save once
\* its row was ended.
Found(w) == file[draft[w].path] = draft[w].base
StillFound ==
    /\ \A s \in Savers : pc[s] \in {"cleared"} \cup Putting => command # "stray" \/ adrift
    /\ \A w \in Writers : pc[w] \in {"admitted", "written"} =>
          Found(w) \/ (tainted /\ w \notin Savers) \/ adrift

\* A temporary belongs to a writer that is about to rename it, or to a dead one.
Temporaries ==
    \A w \in Writers : /\ temp[w] # None => pc[w] \in {"written", "done"}
                       /\ pc[w] = "written" => temp[w] = draft[w].text

\* What the directory will count when the writer has replaced the file.
Coming(w) ==
    DirectorySize
      + (IF pc[w] = "admitted" THEN Bytes(draft[w].text) ELSE 0)
      - (IF pc[w] \in {"admitted", "written"} THEN Bytes(file[draft[w].path]) ELSE 0)

\* Inside put nothing is recorded; new_size is within the limit and covers
\* what is coming.  Between two commands, and in one that has not started its
\* container, what is recorded covers what is there.
Accounts ==
    /\ \A w \in Writers : pc[w] \in Putting =>
          usage = None /\ sum[w] <= Limit /\ (tainted \/ sum[w] >= Coming(w))
    /\ command = "measuring" => usage = None
    /\ \/ tainted \/ usage = None \/ usage >= DirectorySize
       \/ command \in {"running", "recounting", "leaving"}

Accounted == Base /\ Temporaries /\ Accounts

\* One run at a time: a question is always marked, and the inputs are those of
\* the turn whenever a question or a running graph depends on them, and those of
\* the asker while its command is in the queue or under its locks.
Coherent == turn # None /\ inputs = turn
Bound == asker # None /\ (listed \/ command \in Commanding)
Fresh == {"locked", "prepared"} \cup Putting \cup Staging \cup Undoing
RunDialogue(r) ==
    /\ look[r] => pc[r] \in {"staged", "looked"}
    /\ pc[r] \in {"streaming", "ending", "looked"} => paused
    /\ pc[r] = "streaming" => Coherent
    /\ pc[r] \in {"ending", "looked"} => (pending => Coherent)
    /\ pc[r] = "looked" => look[r] = pending
    /\ pc[r] \in Fresh => ~pending
    /\ pc[r] \in Staging => ~Bound
    /\ pc[r] = "staged" /\ look[r] => pending
    /\ pc[r] = "staged" /\ ~look[r] => ~pending /\ inputs = r
Question ==
    /\ pending => paused /\ Coherent
    /\ Bound => inputs = asker
    /\ sweep = "removing" => ~pending
OneDialogue ==
    /\ \A q, r \in LiveRuns : q = r
    /\ Question
    /\ \A r \in Runs : RunDialogue(r)

USE DEF job, marks

-----------------------------------------------------------------------------
(* Sizes.                                                                  *)

\* A content, or no content, has a size.
LEMMA BytesNat == \A c \in Contents \cup {None} : Bytes(c) \in Nat
BY StoreAssumption DEF StoreAssumption, Bytes

\* The directory is a sum of sizes.
LEMMA SizeInt == TypeOK => DirectorySize \in Int
<1> SUFFICES ASSUME TypeOK PROVE DirectorySize \in Int OBVIOUS
<1> DEFINE files == [p \in Paths |-> Bytes(file[p])]
           temps == [w \in Writers |-> Bytes(temp[w])]
<1>1. \A p \in Paths : files[p] \in Int BY BytesNat DEF TypeOK
<1>2. \A w \in Writers : temps[w] \in Int BY BytesNat DEF TypeOK
<1>3. DOMAIN files = Paths /\ DOMAIN temps = Writers OBVIOUS
<1> HIDE DEF files, temps
<1>4. SumFunction(files) \in Int
      BY <1>1, <1>3, StoreAssumption, SumTakes DEF StoreAssumption, SumFunction
<1>5. SumFunction(temps) \in Int
      BY <1>2, <1>3, StoreAssumption, SumTakes DEF StoreAssumption, SumFunction
<1>6. DirectorySize = SumFunction(files) + SumFunction(temps) + (IF scratch THEN Scratch ELSE 0)
      BY DEF DirectorySize, files, temps
<1>7. QED BY <1>4, <1>5, <1>6, StoreAssumption DEF StoreAssumption

\* The name an upload takes is that of a path.
LEMMA FirstFreeIn == FreeNames # {} => FirstFree \in Paths /\ file[FirstFree] = None
<1> SUFFICES ASSUME FreeNames # {} PROVE FirstFree \in Paths /\ file[FirstFree] = None
    OBVIOUS
<1>1. FreeNames \subseteq Nat BY StoreAssumption DEF StoreAssumption, FreeNames
<1>2. \E i \in FreeNames : \A j \in FreeNames : i <= j BY <1>1, LeastNumber
<1> DEFINE first == CHOOSE i \in FreeNames : \A j \in FreeNames : i <= j
<1>3. first \in FreeNames BY <1>2
<1>4. FirstFree = UploadNames[first] BY DEF FirstFree
<1> HIDE DEF first
<1>5. QED BY <1>3, <1>4, StoreAssumption DEF StoreAssumption, FreeNames

-----------------------------------------------------------------------------
(* Types, places and locks.                                                *)

\* Nobody is anywhere, and no lock is held.
LEMMA BaseInit == Init => Base
<1> SUFFICES ASSUME Init PROVE Base OBVIOUS
<1> USE StoreAssumption DEF StoreAssumption, Init
<1>1. TypeOK
  <2>1. NoDraft \in Drafts BY DEF NoDraft, Drafts
  <2>2. "idle" \in Places /\ command \in Commands /\ sweep \in Sweeps
        BY DEF Places, Commands, Sweeps
  <2>3. created \in [Runs -> Seq(Paths)] OBVIOUS
  <2>4. draft \in [Writers -> Drafts] /\ pc \in [Writers -> Places] BY <2>1, <2>2
  <2>5. deaths \in 0..MaxDeaths OBVIOUS
  <2>6. /\ file \in [Paths -> Contents \cup {None}]
        /\ temp \in [Writers -> Contents \cup {None}]
        /\ sum \in [Writers -> Int]
        OBVIOUS
  <2>7. look \in [Runs -> BOOLEAN] BY Zenon
  <2>8. QED BY <2>2, <2>3, <2>4, <2>5, <2>6, <2>7 DEF TypeOK
<1>2. Placed BY DEF Placed, Drafting, Putting, Writers
<1>3. LocksExclude
  <2>1. FileHolders = {} BY DEF FileHolders, Locked, Putting, Staging, Undoing
  <2>2. ActiveSavers = {} BY DEF ActiveSavers, Editing, Locked, Putting, Staging, Undoing, Writers
  <2>3. QED BY <2>1, <2>2 DEF LocksExclude, Commanding, Sweeping
<1>4. QED BY <1>1, <1>2, <1>3 DEF Base

\* Admission to put, by whichever caller.
LEMMA TypeAdmit ==
    ASSUME TypeOK, NEW w \in Writers, NEW from, NEW d \in Drafts, Admit(w, from, d),
           d.path \in Paths, d.text \in Contents, created' \in [Runs -> Seq(Paths)]
    PROVE  TypeOK'
<1> USE StoreAssumption DEF StoreAssumption, TypeOK, Admit, Go, dialogue
<1>1. SizeAfter(d.path, d.text) \in Int
  <2>1. Bytes(file[d.path]) \in Int /\ Bytes(d.text) \in Int BY BytesNat
  <2>2. Known \in Int BY SizeInt DEF Known
  <2>3. QED BY <2>1, <2>2 DEF SizeAfter
<1>2. sum' \in [Writers -> Int] BY <1>1
<1>3. draft' \in [Writers -> Drafts] OBVIOUS
<1>4. pc' \in [Writers -> Places] BY DEF Places, Live, Locked, Putting
<1>5. QED BY <1>2, <1>3, <1>4

\* The steps inside put keep the types: what is renamed is a content.
LEMMA TypePut ==
    ASSUME TypeOK, Placed, NEW w \in Writers, PutStep(w)
    PROVE  TypeOK'
<1> USE StoreAssumption DEF StoreAssumption, TypeOK, Placed, Go, Return, dialogue
<1>1. NoDraft \in Drafts BY DEF NoDraft, Drafts
<1>2. {"replaced", "locked", "done", "failing", "written"} \subseteq Places
      BY DEF Places, Live, Locked, Putting, Undoing
<1>3. CASE WriteTemporary(w) BY <1>2, <1>3 DEF WriteTemporary, Drafts
<1>4. CASE Replace(w) BY <1>2, <1>4 DEF Replace, Drafts, Drafting, Putting
<1>5. CASE RecordUsage(w) BY <1>1, <1>2, <1>5 DEF RecordUsage
<1>6. CASE PutFails(w) BY <1>1, <1>2, <1>6 DEF PutFails
<1>7. QED BY <1>3, <1>4, <1>5, <1>6 DEF PutStep

\* What put is given of a path and a text.
LEMMA DraftIn ==
    ASSUME TypeOK, NEW p \in Paths, NEW c \in Contents
    PROVE  Draft(p, c) \in Drafts /\ Draft(p, c).path = p /\ Draft(p, c).text = c
BY DEF Draft, Drafts, TypeOK

\* The types, through a step of a tool.
LEMMA TypeTool ==
    ASSUME TypeOK, Placed, NEW t \in Tools, ToolStep(t)
    PROVE  TypeOK'
<1>1. ASSUME NEW p \in Paths, NEW c \in Contents, ToolPuts(t, p, c) PROVE TypeOK'
      BY <1>1, DraftIn, TypeAdmit DEF ToolPuts, TypeOK, Writers
<1>2. CASE PutStep(t) BY <1>2, TypePut DEF Writers
<1>3. QED BY <1>1, <1>2 DEF ToolStep, ToolWrites, ToolEdits

\* The types, through a step of an editor, which keeps its draft.
LEMMA TypeSaver ==
    ASSUME TypeOK, Placed, NEW s \in Savers, SaverStep(s)
    PROVE  TypeOK'
<1> USE DEF Go, disk, dialogue
<1>1. s \in Writers BY DEF Writers
<1>2. {"drafted", "entered", "cleared", "done"} \subseteq Places BY DEF Places, Editing
<1>3. CASE Preview(s)
  <2>1. PICK p \in Paths, c \in Contents : draft' = [draft EXCEPT ![s] = Draft(p, c)]
        BY <1>3 DEF Preview
  <2>2. draft' \in [Writers -> Drafts] BY <2>1, DraftIn DEF TypeOK
  <2>3. QED BY <1>1, <1>2, <1>3, <2>2 DEF Preview, TypeOK
<1>4. CASE EnterSave(s) BY <1>1, <1>2, <1>4 DEF EnterSave, TypeOK
<1>5. CASE ClearMarker(s) BY <1>1, <1>2, <1>5 DEF ClearMarker, TypeOK
<1>6. CASE Save(s)
  <2>1. draft[s] \in Drafts /\ draft[s].path \in Paths /\ draft[s].text \in Contents
        BY <1>1, <1>6 DEF Save, TypeOK, Placed, Drafting
  <2>2. QED BY <1>1, <1>6, <2>1, TypeAdmit DEF Save, TypeOK
<1>7. CASE SaveRefused(s) BY <1>1, <1>2, <1>7 DEF SaveRefused, TypeOK
<1>8. CASE SaveFails(s)
      BY <1>1, <1>2, <1>8 DEF SaveFails, Return, TypeOK, NoDraft, Drafts
<1>9. CASE PutStep(s) BY <1>1, <1>9, TypePut
<1>10. QED BY <1>3, <1>4, <1>5, <1>6, <1>7, <1>8, <1>9 DEF SaverStep

\* The types, through a step of a run and its uploads.
LEMMA TypeRun ==
    ASSUME TypeOK, Placed, NEW r \in Runs, RunStep(r)
    PROVE  TypeOK'
<1> USE StoreAssumption DEF StoreAssumption, Go, disk, dialogue, work
<1>1. r \in Writers BY DEF Writers
<1>2. Live \cup {"done"} \subseteq Places BY DEF Places
<1>3. {"leased", "locked", "staged", "prepared", "undone", "done", "staging", "swapping",
        "streaming", "ending", "looked"} \subseteq Places
      BY DEF Places, Live, Locked, Staging, Undoing
<1>4. CASE Lease(r) BY <1>1, <1>3, <1>4 DEF Lease, TypeOK
<1>5. CASE StartTurn(r) BY <1>1, <1>3, <1>5 DEF StartTurn, TypeOK
<1>6. CASE StartResume(r) BY <1>1, <1>3, <1>6 DEF StartResume, TypeOK
<1>7. CASE Upload(r)
  <2>1. FirstFree \in Paths BY <1>7, FirstFreeIn DEF Upload
  <2>2. Batch[Len(created[r]) + 1] \in Contents
    <3>1. created[r] \in Seq(Paths) BY DEF TypeOK
    <3>2. Len(created[r]) + 1 \in 1..Len(Batch) BY <1>7, <3>1 DEF Upload
    <3>3. QED BY <3>2
  <2>3. created' \in [Runs -> Seq(Paths)] BY <1>7, <2>1 DEF Upload, TypeOK
  <2> DEFINE d == Draft(FirstFree, Batch[Len(created[r]) + 1])
  <2>4. d \in Drafts /\ d.path \in Paths /\ d.text \in Contents BY <2>1, <2>2, DraftIn DEF TypeOK
  <2>5. Admit(r, "locked", d) BY <1>7 DEF Upload
  <2> HIDE DEF d
  <2>6. QED BY <1>1, <2>3, <2>4, <2>5, TypeAdmit DEF TypeOK
<1>8. CASE Uploaded(r)
  <2>1. created' \in [Runs -> Seq(Paths)] BY <1>8 DEF Uploaded, TypeOK
  <2>2. QED BY <1>1, <1>3, <1>8, <2>1 DEF Uploaded, TypeOK
<1>9. CASE UndoUploads(r)
  <2>1. file' \in [Paths -> Contents \cup {None}] BY <1>9 DEF UndoUploads, TypeOK
  <2>2. QED BY <1>1, <1>3, <1>9, <2>1 DEF UndoUploads, TypeOK
<1>10. CASE ForgetUsage(r)
  <2>1. created' \in [Runs -> Seq(Paths)] BY <1>10 DEF ForgetUsage, TypeOK
  <2>2. QED BY <1>1, <1>3, <1>10, <2>1 DEF ForgetUsage, TypeOK
<1>11. CASE PutStep(r) BY <1>1, <1>11, TypePut
<1>12. CASE StageInputs(r) BY <1>1, <1>3, <1>12 DEF StageInputs, TypeOK
<1>13. CASE RemoveOld(r) BY <1>1, <1>3, <1>13 DEF RemoveOld, TypeOK
<1>14. CASE InstallNew(r) BY <1>1, <1>3, <1>14 DEF InstallNew, TypeOK
<1>15. CASE EnterStream(r) BY <1>1, <1>3, <1>15 DEF EnterStream, TypeOK
<1>16. CASE TakeAnswer(r) BY <1>16 DEF TakeAnswer, TypeOK
<1>17. CASE GraphEnds(r) BY <1>1, <1>3, <1>17 DEF GraphEnds, TypeOK
<1>18. CASE ReadPending(r) BY <1>1, <1>3, <1>18 DEF ReadPending, TypeOK
<1>19. CASE MarkPaused(r) BY <1>1, <1>3, <1>19 DEF MarkPaused, TypeOK
<1>20. CASE RunFails(r) BY <1>1, <1>3, <1>20 DEF RunFails, TypeOK
<1>21. QED BY <1>4, <1>5, <1>6, <1>7, <1>8, <1>9, <1>10, <1>11, <1>12, <1>13, <1>14,
              <1>15, <1>16, <1>17, <1>18, <1>19, <1>20 DEF RunStep

\* The types, through a step of the command and what its container writes.
LEMMA TypeCommand ==
    ASSUME TypeOK, CommandStep
    PROVE  TypeOK'
<1> USE DEF exceptSlot, exceptRow, disk, dialogue, work, Commands, Commanding
<1>1. CASE Submit \/ Claim \/ EndRow
  <2>1. asker' \in Runs \cup {None} BY <1>1 DEF Submit, Claim, EndRow, TypeOK
  <2>2. QED BY <1>1, <2>1 DEF Submit, Claim, EndRow, TypeOK
<1>2. CASE CommandLocks BY <1>2 DEF CommandLocks, TypeOK
<1>3. ASSUME NEW from, NEW within \in Commands, Recount(from, within) PROVE TypeOK'
  <2>1. usage' \in Int BY <1>3, SizeInt DEF Recount
  <2>2. QED BY <1>3, <2>1 DEF Recount, TypeOK
<1>4. CASE MeasureBefore \/ MeasureAfter BY <1>3, <1>4 DEF MeasureBefore, MeasureAfter
<1>5. CASE StartContainer BY <1>5 DEF StartContainer, TypeOK
<1>6. CASE ContainerWrites
  <2>1. file' \in [Paths -> Contents \cup {None}] BY <1>6 DEF ContainerWrites, TypeOK
  <2>2. temp' \in [Writers -> Contents \cup {None}] BY <1>6 DEF ContainerWrites, TypeOK
  <2>3. scratch' \in BOOLEAN BY <1>6 DEF ContainerWrites, TypeOK
  <2>4. QED BY <1>6, <2>1, <2>2, <2>3 DEF ContainerWrites, TypeOK
<1>7. CASE NotStarted BY <1>7 DEF NotStarted, TypeOK
<1>8. CASE RemoveContainer BY <1>8 DEF RemoveContainer, TypeOK
<1>9. CASE LeaveCommand BY <1>9 DEF LeaveCommand, TypeOK
<1>10. CASE Report BY <1>10 DEF Report, TypeOK
<1>11. CASE RemoveFails BY <1>11 DEF RemoveFails, TypeOK, Sweeps
<1>12. CASE Restart BY <1>12 DEF Restart, TypeOK, Sweeps
<1>13. QED BY <1>1, <1>2, <1>4, <1>5, <1>6, <1>7, <1>8, <1>9, <1>10, <1>11, <1>12
           DEF CommandStep

\* The types, through every step.
LEMMA TypeStep == TypeOK /\ Placed /\ [Next]_vars => TypeOK'
<1> SUFFICES ASSUME TypeOK, Placed, [Next]_vars PROVE TypeOK' OBVIOUS
<1>1. CASE SweepStep
      BY <1>1 DEF SweepStep, BeginSweep, SweepLocks, SweepChecks, RemoveScratch,
         SweepSkips, exceptSweep, dialogue, work, TypeOK, Sweeps
<1>2. CASE ApiDies
  <2> USE StoreAssumption DEF StoreAssumption, ApiDies, TypeOK, disk, dialogue
  <2>1. pc' \in [Writers -> Places] BY <1>2 DEF Places
  <2>2. draft' \in [Writers -> Drafts] BY <1>2 DEF Drafts, NoDraft
  <2>3. created' \in [Runs -> Seq(Paths)] BY <1>2
  <2>4. deaths' \in 0..MaxDeaths BY <1>2
  <2>5. sum' \in [Writers -> Int] /\ look' \in [Runs -> BOOLEAN] BY <1>2
  <2>6. QED BY <1>2, <2>1, <2>2, <2>3, <2>4, <2>5
<1>3. CASE WorkerDies
  <2>1. deaths' \in 0..MaxDeaths
        BY <1>3, StoreAssumption DEF StoreAssumption, WorkerDies, TypeOK
  <2>2. command' \in Commands /\ sweep' \in Sweeps
        BY <1>3 DEF WorkerDies, TypeOK, Commands, Sweeps
  <2>3. tainted' \in BOOLEAN /\ adrift' \in BOOLEAN BY <1>3 DEF WorkerDies, TypeOK
  <2>4. QED BY <1>3, <2>1, <2>2, <2>3 DEF WorkerDies, TypeOK, disk, dialogue, work
<1>4. CASE UNCHANGED vars BY <1>4 DEF vars, disk, dialogue, work, TypeOK
<1>5. QED BY <1>1, <1>2, <1>3, <1>4, TypeTool, TypeSaver, TypeRun, TypeCommand DEF Next

-----------------------------------------------------------------------------
(* How a step of a writer moves it.                                        *)

WriterStep(w) ==
    \/ w \in Tools /\ ToolStep(w)
    \/ w \in Savers /\ SaverStep(w)
    \/ w \in Runs /\ RunStep(w)

\* Nobody else moves, and whoever takes a lock finds it free.
Moves(w, to) ==
    /\ pc' = [pc EXCEPT ![w] = to]
    /\ UNCHANGED <<job, sweep, marks>>
    /\ to \in Locked => pc[w] \in Locked \/ FilesFree
    /\ w \in Tools => to \in {"done"} \cup Putting
    /\ w \in Savers => /\ to \in {"done"} \cup Drafting
                       /\ to \in Editing => pc[w] \in Editing \/ OperationFree
    /\ w \in Runs => to \in {"done"} \cup Live
    /\ w \in Runs /\ to \in Live /\ pc[w] \notin Live =>
          ExclusiveFree /\ (Exclusive => LiveRuns = {})

\* Which places hold which lock.
LEMMA WhereLocked ==
    /\ \A x \in {"locked", "admitted", "written", "replaced", "staging", "swapping", "failing",
               "undone"} : x \in Locked /\ x \in Live /\ x \in Editing
    /\ \A x \in {"leased", "prepared", "staged", "streaming", "ending", "looked"} :
          x \in Live /\ x \notin Locked
    /\ \A x \in {"entered", "cleared"} : x \in Editing /\ x \notin Locked
    /\ \A x \in {"idle", "drafted", "done"} : x \notin Locked /\ x \notin Live /\ x \notin Editing
    /\ \A x \in {"admitted", "written", "replaced"} : x \in Putting /\ x \in Drafting
    /\ \A x \in {"drafted", "entered", "cleared"} : x \in Drafting /\ x \notin Putting
    /\ \A x \in {"idle", "done", "leased", "prepared", "staged", "streaming", "ending", "looked",
               "locked", "staging", "swapping", "failing", "undone"} : x \notin Drafting
BY DEF Locked, Live, Editing, Drafting, Putting, Staging, Undoing

\* A step inside put moves its writer from a place under the files lock.
LEMMA PutMoves ==
    ASSUME TypeOK, NEW w \in Writers, PutStep(w)
    PROVE  \E to : Moves(w, to) /\ pc[w] \in {"locked"} \cup Putting
<1> USE WhereLocked, WritersDisjoint DEF WritersDisjoint, Writers, Moves, Go
<1>1. CASE WriteTemporary(w)
  <2>1. Moves(w, "written") BY <1>1 DEF WriteTemporary
  <2>2. QED BY <1>1, <2>1 DEF WriteTemporary
<1>2. CASE Replace(w)
  <2>1. Moves(w, "replaced") BY <1>2 DEF Replace
  <2>2. QED BY <1>2, <2>1 DEF Replace
<1>3. CASE RecordUsage(w)
  <2>1. Moves(w, IF w \in Runs THEN "locked" ELSE "done") BY <1>3 DEF RecordUsage
  <2>2. QED BY <1>3, <2>1 DEF RecordUsage
<1>4. CASE PutFails(w)
  <2>1. pc[w] \in Locked /\ pc[w] \in Live BY <1>4 DEF PutFails, Putting
  <2>2. Moves(w, IF w \in Runs THEN "failing" ELSE "done") BY <1>4, <2>1 DEF PutFails
  <2>3. QED BY <1>4, <2>2 DEF PutFails
<1>5. QED BY <1>1, <1>2, <1>3, <1>4 DEF PutStep

\* Every step of a writer is a move.
LEMMA WriterMoves ==
    ASSUME TypeOK, NEW w \in Writers, WriterStep(w)
    PROVE  \E to : Moves(w, to)
<1>1. CASE PutStep(w) BY <1>1, PutMoves
<1>2. CASE w \in Tools /\ ToolStep(w) /\ ~PutStep(w)
  <2>1. PICK p \in Paths, c \in Contents : ToolPuts(w, p, c)
        BY <1>2 DEF ToolStep, ToolWrites, ToolEdits
  <2>2. Moves(w, "admitted")
        BY <1>2, <2>1, WritersDisjoint DEF WritersDisjoint, Moves, ToolPuts, Admit, Go, Putting
  <2>3. QED BY <2>2
<1>3. CASE w \in Savers /\ SaverStep(w) /\ ~PutStep(w)
  <2>1. w \notin Tools /\ w \notin Runs BY <1>3, WritersDisjoint DEF WritersDisjoint
  <2> USE WhereLocked DEF Moves, Go
  <2>2. Preview(w) => Moves(w, "drafted") BY <2>1 DEF Preview
  <2>3. EnterSave(w) => Moves(w, "entered") BY <2>1 DEF EnterSave
  <2>4. ClearMarker(w) => Moves(w, "cleared") BY <2>1 DEF ClearMarker
  <2>5. Save(w) => Moves(w, "admitted") BY <2>1 DEF Save, Admit
  <2>6. SaveRefused(w) => Moves(w, "drafted") BY <2>1 DEF SaveRefused
  <2>7. SaveFails(w) => Moves(w, "done") BY <2>1 DEF SaveFails
  <2>8. QED BY <1>3, <2>2, <2>3, <2>4, <2>5, <2>6, <2>7, Zenon DEF SaverStep
<1>4. CASE w \in Runs /\ RunStep(w) /\ ~PutStep(w)
  <2>1. w \notin Tools /\ w \notin Savers BY <1>4, WritersDisjoint DEF WritersDisjoint
  <2> USE WhereLocked DEF Moves, Go
  <2>2. Lease(w) => Moves(w, "leased") BY <2>1 DEF Lease
  <2>3. StartTurn(w) => Moves(w, "locked") BY <2>1 DEF StartTurn
  <2>4. StartResume(w) => Moves(w, "staged") BY <2>1 DEF StartResume
  <2>5. Upload(w) => Moves(w, "admitted") BY <2>1 DEF Upload, Admit
  <2>6. Uploaded(w) => Moves(w, "prepared") BY <2>1 DEF Uploaded
  <2>7. UndoUploads(w) => Moves(w, "undone") BY <2>1 DEF UndoUploads
  <2>8. ForgetUsage(w) => Moves(w, "done") BY <2>1 DEF ForgetUsage
  <2>9. StageInputs(w) => Moves(w, "staging") BY <2>1 DEF StageInputs
  <2>10. RemoveOld(w) => Moves(w, "swapping") BY <2>1 DEF RemoveOld
  <2>11. InstallNew(w) => Moves(w, "staged") BY <2>1 DEF InstallNew
  <2>12. EnterStream(w) => Moves(w, "streaming") BY <2>1 DEF EnterStream
  <2>13. TakeAnswer(w) => Moves(w, "streaming") BY <2>1 DEF TakeAnswer, work, TypeOK
  <2>14. GraphEnds(w) => Moves(w, "ending") BY <2>1 DEF GraphEnds
  <2>15. ReadPending(w) => Moves(w, "looked") BY <2>1 DEF ReadPending
  <2>16. MarkPaused(w) => Moves(w, "done") BY <2>1 DEF MarkPaused
  <2>17. RunFails(w) => Moves(w, "done") BY <2>1 DEF RunFails
  <2>18. QED BY <1>4, <2>2, <2>3, <2>4, <2>5, <2>6, <2>7, <2>8, <2>9, <2>10, <2>11, <2>12,
             <2>13, <2>14, <2>15, <2>16, <2>17, Zenon DEF RunStep
<1>5. QED BY <1>1, <1>2, <1>3, <1>4 DEF WriterStep

\* The locks, when a writer moves.
LEMMA LocksMove ==
    ASSUME TypeOK, LocksExclude, NEW w \in Writers, NEW to, Moves(w, to)
    PROVE  LocksExclude'
<1> USE WritersDisjoint DEF WritersDisjoint, TypeOK, Writers, LocksExclude, Moves
<1>1. FileHolders' \subseteq FileHolders \/ (FilesFree /\ FileHolders' = {w})
  <2>1. CASE to \in Locked /\ pc[w] \notin Locked
    <3>1. FilesFree BY <2>1
    <3>2. FileHolders = {} BY <3>1 DEF FilesFree
    <3>3. FileHolders' \subseteq {w} BY <3>2 DEF FileHolders
    <3>4. QED BY <3>1, <3>3, <2>1 DEF FileHolders
  <2>2. CASE to \notin Locked \/ pc[w] \in Locked BY <2>2 DEF FileHolders
  <2>3. QED BY <2>1, <2>2
<1>2. ActiveSavers' \subseteq ActiveSavers \/ (OperationFree /\ ActiveSavers' = {w} /\ w \in Savers)
  <2>1. CASE w \in Savers /\ to \in Editing /\ pc[w] \notin Editing
    <3>1. OperationFree BY <2>1
    <3>2. ActiveSavers = {} BY <3>1 DEF OperationFree, ExclusiveFree
    <3>3. ActiveSavers' \subseteq {w} BY <3>2 DEF ActiveSavers
    <3>4. QED BY <3>1, <3>3, <2>1 DEF ActiveSavers
  <2>2. CASE w \notin Savers \/ to \notin Editing \/ pc[w] \in Editing BY <2>2 DEF ActiveSavers
  <2>3. QED BY <2>1, <2>2
<1>3. LiveRuns' \subseteq LiveRuns \/ (ExclusiveFree /\ LiveRuns' \subseteq LiveRuns \cup {w} /\ w \in Runs)
      BY DEF LiveRuns
<1>4. ActiveSavers' \subseteq ActiveSavers \/ LiveRuns' \subseteq LiveRuns
  <2>1. w \notin Savers => ActiveSavers' \subseteq ActiveSavers BY DEF ActiveSavers
  <2>2. w \notin Runs => LiveRuns' \subseteq LiveRuns BY DEF LiveRuns
  <2>3. QED BY <2>1, <2>2
<1>5. /\ \A u, v \in FileHolders' : u = v
      /\ FileHolders' # {} => command \notin Commanding /\ sweep \notin Sweeping
      BY <1>1 DEF FilesFree, Sweeping
<1>6. /\ \A u, v \in ActiveSavers' : u = v
      /\ ActiveSavers' # {} => command \notin Commanding /\ sweep \notin Sweeping
      BY <1>2 DEF OperationFree, ExclusiveFree, Sweeping
<1>7. ActiveSavers' # {} => LiveRuns' = {}
      BY <1>2, <1>3, <1>4 DEF OperationFree, ExclusiveFree
<1>8. sweep \in Sweeping => LiveRuns' = {} /\ command \notin Commanding
      BY <1>3 DEF ExclusiveFree, Sweeping
<1>9. QED BY <1>5, <1>6, <1>7, <1>8

\* The command and the sweep, when one of them moves.
LEMMA LocksCommand ==
    ASSUME TypeOK, LocksExclude, CommandStep \/ SweepStep
    PROVE  LocksExclude' /\ UNCHANGED work
<1>1. UNCHANGED work
      BY DEF CommandStep, Submit, Claim, EndRow, CommandLocks, MeasureBefore, MeasureAfter, Recount,
         StartContainer, ContainerWrites, NotStarted, RemoveContainer, LeaveCommand, Report,
         RemoveFails, Restart, SweepStep, BeginSweep, SweepLocks, SweepChecks, RemoveScratch,
         SweepSkips, exceptSlot, exceptRow, exceptSweep
<1>2. /\ FileHolders' = FileHolders /\ ActiveSavers' = ActiveSavers /\ LiveRuns' = LiveRuns
      BY <1>1 DEF work, FileHolders, ActiveSavers, LiveRuns
<1> USE <1>2 DEF LocksExclude, Commanding, Sweeping
<1>3. CASE Submit \/ Claim \/ EndRow BY <1>3 DEF Submit, Claim, EndRow, exceptRow
<1>4. CASE CommandLocks
      BY <1>4 DEF CommandLocks, ExclusiveFree, FilesFree, exceptSlot, exceptRow
<1>5. CASE MeasureBefore BY <1>5 DEF MeasureBefore, Recount, exceptSlot, exceptRow
<1>6. CASE MeasureAfter BY <1>6 DEF MeasureAfter, Recount, exceptSlot, exceptRow
<1>7. CASE StartContainer BY <1>7 DEF StartContainer, exceptSlot, exceptRow
<1>8. CASE ContainerWrites BY <1>8 DEF ContainerWrites
<1>9. CASE NotStarted BY <1>9 DEF NotStarted, exceptSlot, exceptRow
<1>10. CASE RemoveContainer BY <1>10 DEF RemoveContainer, exceptSlot, exceptRow
<1>11. CASE LeaveCommand BY <1>11 DEF LeaveCommand, exceptSlot, exceptRow
<1>12. CASE Report BY <1>12 DEF Report, exceptSlot, exceptRow
<1>13. CASE RemoveFails BY <1>13 DEF RemoveFails
<1>14. CASE Restart BY <1>14 DEF Restart
<1>15. CASE SweepStep
  <2>1. CASE SweepLocks
        BY <2>1 DEF SweepLocks, OperationFree, ExclusiveFree, FilesFree, exceptSweep
  <2>2. QED BY <1>15, <2>1 DEF SweepStep, BeginSweep, SweepChecks, RemoveScratch, SweepSkips,
            exceptSweep
<1>16. QED BY <1>1, <1>3, <1>4, <1>5, <1>6, <1>7, <1>8, <1>9, <1>10, <1>11, <1>12, <1>13, <1>14,
              <1>15 DEF CommandStep

\* A process dies: the locks of its requests, or of its command, go.
LEMMA LocksDeath ==
    ASSUME TypeOK, LocksExclude, ApiDies \/ WorkerDies
    PROVE  LocksExclude'
<1>1. CASE ApiDies
  <2>1. \A w \in Writers : pc'[w] \in {pc[w], "done"} BY <1>1 DEF ApiDies
  <2>2. /\ FileHolders' \subseteq FileHolders /\ ActiveSavers' \subseteq ActiveSavers
        /\ LiveRuns' \subseteq LiveRuns
        BY <2>1, WhereLocked DEF FileHolders, ActiveSavers, LiveRuns, Writers
  <2>3. UNCHANGED <<job, sweep, marks>> BY <1>1 DEF ApiDies
  <2>4. QED BY <2>2, <2>3 DEF LocksExclude
<1>2. CASE WorkerDies
  <2>1. /\ FileHolders' = FileHolders /\ ActiveSavers' = ActiveSavers /\ LiveRuns' = LiveRuns
        BY <1>2 DEF WorkerDies, work, FileHolders, ActiveSavers, LiveRuns
  <2>2. sweep' = "dead" /\ command' \in {"none", "queued", "stray", "halted"}
        BY <1>2 DEF WorkerDies
  <2>3. /\ command' = "stray" => tainted' /\ (listed' \/ adrift')
        /\ command' \in {"queued", "claimed"} => listed' \/ asker' = None
        BY <1>2 DEF WorkerDies, LocksExclude
  <2>4. QED BY <2>1, <2>2, <2>3 DEF LocksExclude, Commanding, Sweeping
<1>3. QED BY <1>1, <1>2

\* What a writer is about to write stays known.
LEMMA PlacedMove ==
    ASSUME TypeOK, Placed, NEW w \in Writers, WriterStep(w)
    PROVE  Placed'
<1>1. PICK to : Moves(w, to) BY WriterMoves
<1>2. /\ \A t \in Tools : pc'[t] \in {"idle", "done"} \cup Putting
      /\ \A s \in Savers : pc'[s] \in {"idle", "done"} \cup Drafting
      /\ \A r \in Runs : pc'[r] \in {"idle", "done"} \cup Live
      BY <1>1, WritersDisjoint DEF WritersDisjoint, TypeOK, Writers, Moves, Placed
<1>3. \/ draft' = draft /\ (pc'[w] \in Drafting => pc[w] \in Drafting)
      \/ pc'[w] \notin Drafting /\ draft' = [draft EXCEPT ![w] = NoDraft]
      \/ \E d \in Drafts : /\ d.path \in Paths /\ d.text \in Contents
                           /\ draft' = [draft EXCEPT ![w] = d]
  <2> USE WhereLocked DEF Go, Return, TypeOK
  <2>1. CASE PutStep(w)
        BY <2>1 DEF PutStep, WriteTemporary, Replace, RecordUsage, PutFails, Drafting, Putting
  <2>2. ASSUME NEW p \in Paths, NEW c \in Contents, draft' = [draft EXCEPT ![w] = Draft(p, c)]
        PROVE  \E d \in Drafts : /\ d.path \in Paths /\ d.text \in Contents
                                /\ draft' = [draft EXCEPT ![w] = d]
    <3>1. Draft(p, c) \in Drafts /\ Draft(p, c).path = p /\ Draft(p, c).text = c BY DraftIn
    <3>2. QED BY <2>2, <3>1
  <2>3. CASE w \in Tools /\ ToolStep(w) /\ ~PutStep(w)
        BY <2>2, <2>3 DEF ToolStep, ToolWrites, ToolEdits, ToolPuts, Admit
  <2>4. CASE w \in Savers /\ SaverStep(w) /\ ~PutStep(w)
    <3>1. CASE Save(w) BY <3>1 DEF Save, Admit
    <3>2. CASE Preview(w) BY <2>2, <3>2 DEF Preview
    <3>3. CASE SaveFails(w) BY <2>4, <3>3 DEF SaveFails, Drafting, Putting
    <3>4. QED BY <2>4, <3>1, <3>2, <3>3 DEF SaverStep, EnterSave, ClearMarker, SaveRefused
  <2>5. CASE w \in Runs /\ RunStep(w) /\ ~PutStep(w)
    <3>1. CASE Upload(w)
      <4>1. FirstFree \in Paths BY <3>1, FirstFreeIn DEF Upload
      <4>2. created[w] \in Seq(Paths) BY <2>5
      <4>3. Batch[Len(created[w]) + 1] \in Contents
            BY <3>1, <4>2, StoreAssumption DEF StoreAssumption, Upload
      <4>4. QED BY <2>2, <3>1, <4>1, <4>3 DEF Upload, Admit
    <3>2. QED BY <2>5, <3>1 DEF RunStep, Lease, StartTurn, StartResume, Uploaded, UndoUploads,
              ForgetUsage, StageInputs, RemoveOld, InstallNew, EnterStream, TakeAnswer,
              GraphEnds, ReadPending, MarkPaused, RunFails, work
  <2>6. QED BY <2>1, <2>3, <2>4, <2>5 DEF WriterStep
<1>4. ASSUME NEW v \in Writers, pc'[v] \in Drafting, v # w
      PROVE  draft'[v].path \in Paths /\ draft'[v].text \in Contents
  <2>1. pc'[v] = pc[v] /\ draft'[v] = draft[v] BY <1>1, <1>3, <1>4 DEF Moves, TypeOK
  <2>2. QED BY <1>4, <2>1 DEF Placed
<1>5. ASSUME pc'[w] \in Drafting
      PROVE  draft'[w].path \in Paths /\ draft'[w].text \in Contents
  <2>1. CASE draft' = draft /\ pc[w] \in Drafting BY <2>1 DEF Placed
  <2>2. QED BY <1>3, <1>5, <2>1 DEF TypeOK
<1>6. QED BY <1>2, <1>4, <1>5 DEF Placed

\* Types, places and locks are kept by every step.
LEMMA BaseStep == Base /\ [Next]_vars => Base'
<1> SUFFICES ASSUME Base, [Next]_vars PROVE Base' OBVIOUS
<1>1. TypeOK' BY TypeStep DEF Base
<1>2. ASSUME NEW w \in Writers, WriterStep(w) PROVE Placed' /\ LocksExclude'
  <2>1. PICK to : Moves(w, to) BY <1>2, WriterMoves DEF Base
  <2>2. QED BY <1>2, <2>1, PlacedMove, LocksMove DEF Base
<1>3. CASE CommandStep \/ SweepStep
  <2>1. LocksExclude' /\ UNCHANGED work BY <1>3, LocksCommand DEF Base
  <2>2. QED BY <1>1, <2>1 DEF Base, Placed, work
<1>4. CASE ApiDies
  <2>1. \A w \in Writers : \/ pc'[w] = pc[w] /\ draft'[w] = draft[w]
                           \/ pc'[w] = "done"
        BY <1>4 DEF ApiDies
  <2>2. Placed' BY <2>1, WhereLocked DEF Base, Placed, Writers
  <2>3. QED BY <1>1, <1>4, <2>2, LocksDeath DEF Base
<1>5. CASE WorkerDies
  <2>1. UNCHANGED work BY <1>5 DEF WorkerDies
  <2>2. QED BY <1>1, <1>5, <2>1, LocksDeath DEF Base, Placed, work
<1>6. CASE UNCHANGED vars
  <2>1. UNCHANGED <<work, job, sweep, marks>> BY <1>6 DEF vars
  <2>2. Placed' BY <2>1 DEF Base, Placed, work
  <2>3. LocksExclude'
        BY <2>1 DEF Base, LocksExclude, FileHolders, ActiveSavers, LiveRuns, work
  <2>4. QED BY <1>1, <2>2, <2>3 DEF Base
<1>7. [Next]_vars => \/ \E w \in Writers : WriterStep(w)
                     \/ CommandStep \/ SweepStep \/ ApiDies \/ WorkerDies \/ UNCHANGED vars
      BY DEF Next, WriterStep, Writers
<1>8. QED BY <1>1, <1>2, <1>3, <1>4, <1>5, <1>6, <1>7 DEF Base

\* Types, places and locks, whatever the bounds.
THEOREM BaseHolds == Spec => []Base
<1>1. QED BY BaseInit, BaseStep, PTL DEF Spec

\* The contents, the temporaries, the accounts and the places keep their types:
\* an upload always has a name, and new_size is a number also when .usage is
\* absent and the directory is counted.
THEOREM WorkspaceTyped == Spec => []TypeOK
<1>1. Base => TypeOK BY DEF Base
<1>2. QED BY BaseHolds, <1>1, PTL

-----------------------------------------------------------------------------
(* What a writer found is there until it replaces it.                      *)

\* A writer that goes into put has just looked at the file, or looks again.
Entry(w, from, d) ==
    /\ Admit(w, from, d) /\ from \notin Putting
    /\ d \in Drafts /\ d.path \in Paths /\ d.text \in Contents
    /\ file[d.path] = d.base
    /\ w \in Savers => from = "cleared"

\* Whoever enters put goes through Entry.
LEMMA Enters ==
    ASSUME Base, NEW w \in Writers, WriterStep(w), pc'[w] \in Putting, pc[w] \notin Putting
    PROVE  \E from, d : Entry(w, from, d)
<1> USE WhereLocked DEF Base, Go, TypeOK, Entry
<1>1. pc[w] # pc'[w] OBVIOUS
<1>2. ~PutStep(w)
      BY DEF PutStep, WriteTemporary, Replace, RecordUsage, PutFails, Putting
<1>3. ASSUME NEW p \in Paths, NEW c \in Contents, NEW from \in {"idle", "locked"},
             Admit(w, from, Draft(p, c)), w \notin Savers
      PROVE  Entry(w, from, Draft(p, c))
  <2>1. /\ Draft(p, c) \in Drafts /\ Draft(p, c).path = p /\ Draft(p, c).text = c
        /\ file[p] = Draft(p, c).base
        BY DraftIn DEF Draft
  <2>2. from \notin Putting BY DEF Putting
  <2>3. QED BY <1>3, <2>1, <2>2
<1>4. CASE w \in Tools /\ ToolStep(w)
  <2>1. PICK p \in Paths, c \in Contents : ToolPuts(w, p, c)
        BY <1>2, <1>4 DEF ToolStep, ToolWrites, ToolEdits
  <2>2. Admit(w, "idle", Draft(p, c)) BY <2>1 DEF ToolPuts
  <2>3. w \notin Savers BY <1>4, WritersDisjoint DEF WritersDisjoint
  <2>4. Entry(w, "idle", Draft(p, c)) BY <1>3, <2>2, <2>3
  <2>5. QED BY <2>4
<1>5. CASE w \in Savers /\ SaverStep(w)
  <2>1. Save(w)
        BY <1>2, <1>5 DEF SaverStep, Preview, EnterSave, ClearMarker, SaveRefused, SaveFails,
           Putting
  <2>2. Admit(w, "cleared", draft[w]) /\ file[draft[w].path] = draft[w].base
        BY <2>1 DEF Save
  <2>3. draft[w] \in Drafts /\ draft[w].path \in Paths /\ draft[w].text \in Contents
        BY <2>1, <1>5 DEF Save, Placed
  <2>4. QED BY <2>2, <2>3
<1>6. CASE w \in Runs /\ RunStep(w)
  <2>1. Upload(w)
        BY <1>1, <1>2, <1>6 DEF RunStep, Lease, StartTurn, StartResume, Uploaded, UndoUploads,
           ForgetUsage, StageInputs, RemoveOld, InstallNew, EnterStream, TakeAnswer,
           GraphEnds, ReadPending, MarkPaused, RunFails, work, Putting
  <2>2. FirstFree \in Paths BY <2>1, FirstFreeIn DEF Upload
  <2>3. created[w] \in Seq(Paths) BY <1>6
  <2>4. Batch[Len(created[w]) + 1] \in Contents
        BY <2>1, <2>3, StoreAssumption DEF StoreAssumption, Upload
  <2>5. Admit(w, "locked", Draft(FirstFree, Batch[Len(created[w]) + 1])) BY <2>1 DEF Upload
  <2>6. w \notin Savers BY <1>6, WritersDisjoint DEF WritersDisjoint
  <2> DEFINE c == Batch[Len(created[w]) + 1]
  <2>7. c \in Contents /\ Admit(w, "locked", Draft(FirstFree, c)) BY <2>4, <2>5
  <2> HIDE DEF c
  <2>8. Entry(w, "locked", Draft(FirstFree, c)) BY <1>3, <2>2, <2>6, <2>7
  <2>9. QED BY <2>8
<1>7. QED BY <1>4, <1>5, <1>6 DEF WriterStep

\* Only a rename and the undoing of a batch change a file, under the files lock.
LEMMA FilesMove ==
    ASSUME Base, NEW w \in Writers, WriterStep(w)
    PROVE  /\ file' # file => pc[w] \in Locked /\ pc'[w] \notin {"admitted", "written"}
           /\ \A v \in Writers \ {w} : draft'[v] = draft[v] /\ pc'[v] = pc[v]
           /\ pc[w] \in Putting /\ pc'[w] \in {"admitted", "written"} => draft'[w] = draft[w]
<1> USE WhereLocked DEF Base, Go, Return, TypeOK, disk
<1>1. CASE PutStep(w)
      BY <1>1 DEF PutStep, WriteTemporary, Replace, RecordUsage, PutFails
<1>2. CASE w \in Tools /\ ToolStep(w) /\ ~PutStep(w)
      BY <1>2 DEF ToolStep, ToolWrites, ToolEdits, ToolPuts, Admit, Putting
<1>3. CASE w \in Savers /\ SaverStep(w) /\ ~PutStep(w)
      BY <1>3 DEF SaverStep, Preview, EnterSave, ClearMarker, Save, Admit, SaveRefused, SaveFails,
         Putting
<1>4. CASE w \in Runs /\ RunStep(w) /\ ~PutStep(w)
      BY <1>4 DEF RunStep, Lease, StartTurn, StartResume, Upload, Admit, Uploaded, UndoUploads,
         ForgetUsage, StageInputs, RemoveOld, InstallNew, EnterStream, TakeAnswer,
         GraphEnds, ReadPending, MarkPaused, RunFails, work, Putting
<1>5. QED BY <1>1, <1>2, <1>3, <1>4 DEF WriterStep

\* Without the locks of a command no container comes to be stray, and what is
\* marked stays marked.
LEMMA MarksStay ==
    ASSUME Base, command \notin Commanding, CommandStep \/ SweepStep
    PROVE  /\ tainted => tainted'
           /\ adrift => adrift'
           /\ command' = "stray" => command = "stray"
<1> USE DEF Commanding
<1>1. CASE EndRow BY <1>1, Zenon DEF EndRow
<1>2. CASE Submit \/ Claim \/ Report \/ Restart
      BY <1>2 DEF Submit, Claim, Report, Restart, exceptRow
<1>3. CASE CommandLocks \/ ContainerWrites BY <1>3 DEF CommandLocks, ContainerWrites
<1>4. CASE SweepStep
      BY <1>4 DEF SweepStep, BeginSweep, SweepLocks, SweepChecks, RemoveScratch, SweepSkips,
         exceptSweep
<1>5. CASE \/ MeasureBefore \/ MeasureAfter \/ StartContainer \/ NotStarted \/ RemoveContainer
           \/ LeaveCommand \/ RemoveFails
      BY <1>5 DEF MeasureBefore, MeasureAfter, Recount, StartContainer, NotStarted,
         RemoveContainer, LeaveCommand, RemoveFails
<1>6. QED BY <1>1, <1>2, <1>3, <1>4, <1>5 DEF CommandStep

\* Beside a save past its look at the jobs no container starts or loses its
\* worker, and one that did so before is adrift.
LEMMA FoundCommand ==
    ASSUME Base, StillFound, CommandStep \/ SweepStep
    PROVE  StillFound'
<1>1. UNCHANGED work BY LocksCommand DEF Base
<1>2. ASSUME NEW s \in Savers, pc[s] \in {"cleared"} \cup Putting
      PROVE  command' # "stray" \/ adrift'
  <2>1. command # "stray" \/ adrift BY <1>2 DEF StillFound
  <2>2. s \in ActiveSavers BY <1>2, WhereLocked DEF ActiveSavers, Putting
  <2>3. command \notin Commanding BY <2>2 DEF Base, LocksExclude
  <2>4. QED BY <2>1, <2>3, MarksStay
<1>3. ASSUME NEW w \in Writers, pc[w] \in {"admitted", "written"}
      PROVE  Found(w)' \/ (tainted' /\ w \notin Savers) \/ adrift'
  <2>1. w \in FileHolders BY <1>3, WhereLocked DEF FileHolders
  <2>2. command \notin Commanding BY <2>1 DEF Base, LocksExclude
  <2>3. (tainted => tainted') /\ (adrift => adrift') BY <2>2, MarksStay
  <2>4. CASE ContainerWrites
    <3>1. command = "stray" BY <2>2, <2>4 DEF ContainerWrites, Commanding
    <3>2. tainted BY <3>1 DEF Base, LocksExclude
    <3>3. w \notin Savers \/ adrift BY <1>3, <3>1, WhereLocked DEF StillFound
    <3>4. QED BY <2>3, <3>2, <3>3
  <2>5. CASE ~ContainerWrites
    <3>1. UNCHANGED file
          BY <2>5 DEF CommandStep, Submit, Claim, EndRow, CommandLocks, MeasureBefore, MeasureAfter, Recount,
            StartContainer, NotStarted, RemoveContainer, LeaveCommand, Report,
            RemoveFails, Restart, SweepStep, BeginSweep, SweepLocks, SweepChecks,
            RemoveScratch, SweepSkips, exceptSweep, exceptSlot, exceptRow, disk
    <3>2. QED BY <1>1, <1>3, <2>3, <3>1 DEF StillFound, Found, work
  <2>6. QED BY <2>4, <2>5
<1>4. QED BY <1>1, <1>2, <1>3 DEF StillFound, work

\* A writer renames alone, and looks at the file when it enters.
LEMMA FoundWriter ==
    ASSUME Base, StillFound, NEW w \in Writers, WriterStep(w)
    PROVE  StillFound'
<1>1. PICK to : Moves(w, to) BY WriterMoves DEF Base
<1>2. UNCHANGED <<command, tainted, adrift>> BY <1>1 DEF Moves
<1>3. ASSUME NEW s \in Savers, pc'[s] \in {"cleared"} \cup Putting
      PROVE  command' # "stray" \/ adrift'
  <2>1. CASE s # w BY <1>2, <1>3, <2>1, FilesMove DEF StillFound, Writers
  <2>2. CASE s = w /\ pc[s] \in {"cleared"} \cup Putting BY <1>2, <2>2 DEF StillFound
  <2>3. CASE s = w /\ pc[s] \notin {"cleared"} \cup Putting
    <3>1. pc'[w] \notin Putting
      <4>1. SUFFICES ASSUME pc'[w] \in Putting PROVE FALSE OBVIOUS
      <4>2. pc[w] \notin Putting BY <2>3
      <4>3. PICK from, d : Entry(w, from, d) BY <4>1, <4>2, Enters
      <4>4. QED BY <2>3, <4>3 DEF Entry, Admit, Go
    <3>2. SaverStep(w) BY <2>3, WritersDisjoint DEF WriterStep, WritersDisjoint
    <3>3. ClearMarker(w)
          BY <1>3, <2>3, <3>1, <3>2 DEF SaverStep, Preview, EnterSave, Save, Admit, SaveRefused,
             SaveFails, Go, PutStep, WriteTemporary, Replace, RecordUsage, PutFails, Putting,
             Base, TypeOK, Writers
    <3>4. QED BY <1>2, <3>3 DEF ClearMarker, Base, LocksExclude
  <2>4. QED BY <2>1, <2>2, <2>3
<1>4. ASSUME NEW v \in Writers, pc'[v] \in {"admitted", "written"}
      PROVE  Found(v)' \/ (tainted /\ v \notin Savers) \/ adrift
  <2>1. CASE v # w
    <3>1. pc[v] = pc'[v] /\ draft'[v] = draft[v] BY <2>1, FilesMove
    <3>2. v \in FileHolders BY <1>4, <3>1, WhereLocked DEF FileHolders
    <3>3. file' = file
      <4>1. SUFFICES ASSUME pc[w] \in Locked PROVE FALSE BY FilesMove
      <4>2. w \in FileHolders BY <4>1 DEF FileHolders
      <4>3. QED BY <2>1, <3>2, <4>2 DEF Base, LocksExclude
    <3>4. QED BY <1>4, <3>1, <3>3 DEF StillFound, Found
  <2>2. CASE v = w /\ pc[w] \in Putting
    <3>1. file' = file /\ draft'[w] = draft[w] BY <1>4, <2>2, FilesMove
    <3>2. pc[w] \in {"admitted", "written"}
      <4>1. PutStep(w) \/ pc'[w] = pc[w]
            BY <1>4, <2>2 DEF WriterStep, ToolStep, ToolWrites, ToolEdits, ToolPuts, Admit, Go,
               SaverStep, Preview, EnterSave, ClearMarker, Save, SaveRefused, SaveFails,
               RunStep, Lease, StartTurn, StartResume, Upload, Uploaded, UndoUploads,
               ForgetUsage, StageInputs, RemoveOld, InstallNew, EnterStream, TakeAnswer,
               GraphEnds, ReadPending, MarkPaused, RunFails, work, Putting, Staging
      <4>2. QED BY <1>4, <2>2, <4>1 DEF PutStep, WriteTemporary, Replace, RecordUsage, PutFails, Go,
                Base, TypeOK
    <3>3. QED BY <2>2, <3>1, <3>2 DEF StillFound, Found
  <2>3. CASE v = w /\ pc[w] \notin Putting
    <3>1. pc'[w] \in Putting BY <1>4, <2>3, WhereLocked
    <3>2. PICK from, d : Entry(w, from, d) BY <2>3, <3>1, Enters
    <3>3. draft'[w] = d /\ file' = file BY <3>2 DEF Entry, Admit, Base, TypeOK
    <3>4. QED BY <2>3, <3>2, <3>3 DEF Entry, Found
  <2>4. QED BY <2>1, <2>2, <2>3
<1>5. QED BY <1>2, <1>3, <1>4 DEF StillFound

\* What was found stays, through every step.
LEMMA FoundStep == Base /\ StillFound /\ [Next]_vars => StillFound'
<1> SUFFICES ASSUME Base, StillFound, [Next]_vars PROVE StillFound' OBVIOUS
<1>1. CASE ApiDies
  <2>1. \A w \in Writers : \/ pc'[w] = pc[w] /\ draft'[w] = draft[w]
                           \/ pc'[w] = "done"
        BY <1>1 DEF ApiDies
  <2>2. UNCHANGED <<file, command, tainted, adrift>> BY <1>1 DEF ApiDies, disk
  <2>3. \A w \in Writers : pc'[w] \in {"cleared"} \cup Putting =>
                              pc'[w] = pc[w] /\ draft'[w] = draft[w]
        BY <2>1 DEF Putting
  <2>4. QED BY <2>2, <2>3, WhereLocked DEF StillFound, Found, Writers
<1>2. CASE WorkerDies
  <2>1. UNCHANGED <<file, work>> /\ (tainted => tainted') /\ (adrift => adrift')
        BY <1>2 DEF WorkerDies, disk
  <2>2. ASSUME NEW s \in Savers, pc[s] \in {"cleared"} \cup Putting PROVE command' # "stray"
    <3>1. s \in ActiveSavers BY <2>2, WhereLocked DEF ActiveSavers, Putting
    <3>2. command \notin Commanding BY <3>1 DEF Base, LocksExclude
    <3>3. QED BY <1>2, <3>2 DEF WorkerDies, Commanding
  <2>3. QED BY <2>1, <2>2 DEF StillFound, Found, work
<1>3. CASE UNCHANGED vars BY <1>3 DEF StillFound, Found, vars, disk, work
<1>4. QED BY <1>1, <1>2, <1>3, FoundCommand, FoundWriter DEF Next, WriterStep, Writers

\* What was found stays.
LEMMA FoundHolds == Spec => []StillFound
<1>1. Init => StillFound
      BY DEF Init, StillFound, Putting, Writers
<1>2. QED BY <1>1, BaseHolds, FoundStep, PTL DEF Spec

\* A write replaces what it was based on, whatever tools, editors, uploads and
\* commands do between its look at the file and its rename, in any number and
\* through deaths of either process; only a container without its worker may
\* write beside a tool or an upload, and beside a save if its row was ended.
THEOREM NoUpdateLost == Spec => NoLostUpdate
<1>1. Base /\ StillFound =>
          \A w \in Writers : pc[w] = "written" /\ pc'[w] = "replaced"
             => \/ file[draft[w].path] = draft[w].base
                \/ tainted /\ w \notin Savers
                \/ adrift
      BY DEF StillFound, Found
<1>2. QED BY <1>1, BaseHolds, FoundHolds, PTL DEF NoLostUpdate

-----------------------------------------------------------------------------
(* The accounts.                                                           *)

FileBytes == SumFunctionOnSet([p \in Paths |-> Bytes(file[p])], Paths)
TempBytes == SumFunctionOnSet([w \in Writers |-> Bytes(temp[w])], Writers)
ScratchBytes == IF scratch THEN Scratch ELSE 0

\* The directory is its files, the temporaries and the scratch.
Parts == /\ DirectorySize = FileBytes + TempBytes + ScratchBytes
         /\ FileBytes \in Int /\ TempBytes \in Int /\ ScratchBytes \in Nat

\* The parts of the directory, in this state and in the next.
LEMMA SizeParts == TypeOK => Parts
<1> SUFFICES ASSUME TypeOK PROVE Parts OBVIOUS
<1> DEFINE files == [p \in Paths |-> Bytes(file[p])]
           temps == [w \in Writers |-> Bytes(temp[w])]
<1>1. \A p \in Paths : files[p] \in Int BY BytesNat DEF TypeOK
<1>2. \A w \in Writers : temps[w] \in Int BY BytesNat DEF TypeOK
<1>3. /\ SumFunction(files) = SumFunctionOnSet(files, Paths)
      /\ SumFunction(temps) = SumFunctionOnSet(temps, Writers)
      BY DEF SumFunction
<1>4. FileBytes = SumFunctionOnSet(files, Paths) /\ TempBytes = SumFunctionOnSet(temps, Writers)
      BY DEF FileBytes, TempBytes
<1>5. DirectorySize = SumFunction(files) + SumFunction(temps) + ScratchBytes
      BY DEF DirectorySize, ScratchBytes
<1> HIDE DEF files, temps
<1>6. SumFunctionOnSet(files, Paths) \in Int
      BY <1>1, StoreAssumption, SumTakes DEF StoreAssumption
<1>7. SumFunctionOnSet(temps, Writers) \in Int
      BY <1>2, StoreAssumption, SumTakes DEF StoreAssumption
<1>8. ScratchBytes \in Nat BY StoreAssumption DEF StoreAssumption, ScratchBytes
<1>9. QED BY <1>3, <1>4, <1>5, <1>6, <1>7, <1>8 DEF Parts

\* The same, of the next state.
LEMMA SizePartsNext == TypeOK' => Parts'
BY SizeParts, PTL

\* One file, or one temporary, is replaced.
LEMMA FileChanges ==
    ASSUME TypeOK, NEW p \in Paths, NEW c \in Contents \cup {None},
           file' = [file EXCEPT ![p] = c]
    PROVE  FileBytes' = FileBytes - Bytes(file[p]) + Bytes(c)
<1> DEFINE old == [q \in Paths |-> Bytes(file[q])]
           new == [q \in Paths |-> Bytes(file'[q])]
<1>1. file' \in [Paths -> Contents \cup {None}] BY DEF TypeOK
<1>2. \A q \in Paths : old[q] \in Int /\ new[q] \in Int BY <1>1, BytesNat DEF TypeOK
<1>3. \A q \in Paths \ {p} : new[q] = old[q] BY DEF TypeOK
<1>4. old[p] = Bytes(file[p]) /\ new[p] = Bytes(c) BY DEF TypeOK
<1>5. FileBytes = SumFunctionOnSet(old, Paths) /\ FileBytes' = SumFunctionOnSet(new, Paths)
      BY DEF FileBytes, Bytes
<1> HIDE DEF old, new
<1>6. SumFunctionOnSet(new, Paths) = SumFunctionOnSet(old, Paths) - old[p] + new[p]
      BY <1>2, <1>3, StoreAssumption, SumChanges DEF StoreAssumption
<1>7. QED BY <1>4, <1>5, <1>6

\* One temporary is written, or goes.
LEMMA TempChanges ==
    ASSUME TypeOK, NEW w \in Writers, NEW c \in Contents \cup {None},
           temp' = [temp EXCEPT ![w] = c]
    PROVE  TempBytes' = TempBytes - Bytes(temp[w]) + Bytes(c)
<1> DEFINE old == [v \in Writers |-> Bytes(temp[v])]
           new == [v \in Writers |-> Bytes(temp'[v])]
<1>1. temp' \in [Writers -> Contents \cup {None}] BY DEF TypeOK
<1>2. \A v \in Writers : old[v] \in Int /\ new[v] \in Int BY <1>1, BytesNat DEF TypeOK
<1>3. \A v \in Writers \ {w} : new[v] = old[v] BY DEF TypeOK
<1>4. old[w] = Bytes(temp[w]) /\ new[w] = Bytes(c) BY DEF TypeOK
<1>5. TempBytes = SumFunctionOnSet(old, Writers) /\ TempBytes' = SumFunctionOnSet(new, Writers)
      BY DEF TempBytes, Bytes
<1> HIDE DEF old, new
<1>6. SumFunctionOnSet(new, Writers) = SumFunctionOnSet(old, Writers) - old[w] + new[w]
      BY <1>2, <1>3, StoreAssumption, SumChanges DEF StoreAssumption
<1>7. QED BY <1>4, <1>5, <1>6

\* Files that go leave less behind.
LEMMA FilesShrink ==
    ASSUME TypeOK, TypeOK', \A p \in Paths : file'[p] \in {file[p], None}
    PROVE  FileBytes' <= FileBytes
<1> DEFINE old == [q \in Paths |-> Bytes(file[q])]
           new == [q \in Paths |-> Bytes(file'[q])]
<1>1. \A q \in Paths : old[q] \in Nat /\ new[q] \in Nat BY BytesNat DEF TypeOK
<1>2. \A q \in Paths : new[q] <= old[q] BY <1>1 DEF Bytes
<1>3. FileBytes = SumFunctionOnSet(old, Paths) /\ FileBytes' = SumFunctionOnSet(new, Paths)
      BY DEF FileBytes, Bytes
<1>4. \A q \in Paths : new[q] \in Int /\ old[q] \in Int /\ new[q] <= old[q] BY <1>1, <1>2
<1> HIDE DEF old, new
<1>5. SumFunctionOnSet(new, Paths) <= SumFunctionOnSet(old, Paths)
      BY <1>4, StoreAssumption, SumMonotone DEF StoreAssumption
<1>6. QED BY <1>3, <1>5

\* Nothing on the disk, or nothing that counts, changes.
LEMMA SizeKept ==
    ASSUME UNCHANGED <<file, temp, scratch>>
    PROVE  DirectorySize' = DirectorySize
BY DEF DirectorySize, Bytes

\* Inside put, the sizes that are compared are numbers.
LEMMA ComingInt ==
    ASSUME Base, NEW w \in Writers, pc[w] \in Putting
    PROVE  Coming(w) \in Int /\ Bytes(file[draft[w].path]) \in Nat /\ Bytes(draft[w].text) \in Nat
<1>1. draft[w].path \in Paths /\ draft[w].text \in Contents
      BY WhereLocked DEF Base, Placed, Putting
<1>2. Bytes(file[draft[w].path]) \in Nat /\ Bytes(draft[w].text) \in Nat
      BY <1>1, BytesNat DEF Base, TypeOK
<1>3. DirectorySize \in Int BY SizeInt DEF Base
<1>4. QED BY <1>2, <1>3 DEF Coming

\* What a step of a writer does to the temporaries, and where.
LEMMA TempMoves ==
    ASSUME Base, NEW w \in Writers, WriterStep(w)
    PROVE  /\ pc[w] # "done"
           /\ \/ WriteTemporary(w)
              \/ (Replace(w) \/ PutFails(w)) /\ temp' = [temp EXCEPT ![w] = None] /\ pc'[w] # "written"
              \/ temp' = temp /\ pc[w] # "written" /\ pc'[w] # "written"
<1> USE DEF Base, Go, TypeOK, disk
<1>1. CASE PutStep(w)
      BY <1>1 DEF PutStep, WriteTemporary, Replace, RecordUsage, PutFails, Putting
<1>2. CASE w \in Tools /\ ToolStep(w) /\ ~PutStep(w)
      BY <1>2 DEF ToolStep, ToolWrites, ToolEdits, ToolPuts, Admit
<1>3. CASE w \in Savers /\ SaverStep(w) /\ ~PutStep(w)
      BY <1>3 DEF SaverStep, Preview, EnterSave, ClearMarker, Save, Admit, SaveRefused, SaveFails
<1>4. CASE w \in Runs /\ RunStep(w) /\ ~PutStep(w)
      BY <1>4 DEF RunStep, Lease, StartTurn, StartResume, Upload, Admit, Uploaded, UndoUploads,
         ForgetUsage, StageInputs, RemoveOld, InstallNew, EnterStream, TakeAnswer,
         GraphEnds, ReadPending, MarkPaused, RunFails, work, Staging
<1>5. QED BY <1>1, <1>2, <1>3, <1>4 DEF WriterStep

\* A temporary stays with its writer, or is left by a dead one.
LEMMA TemporariesStep == Base /\ Temporaries /\ [Next]_vars => Temporaries'
<1> SUFFICES ASSUME Base, Temporaries, [Next]_vars PROVE Temporaries' OBVIOUS
<1>1. ASSUME NEW w \in Writers, WriterStep(w) PROVE Temporaries'
  <2>1. \A v \in Writers \ {w} : draft'[v] = draft[v] /\ pc'[v] = pc[v] BY <1>1, FilesMove
  <2>2. CASE WriteTemporary(w)
        BY <2>1, <2>2 DEF WriteTemporary, Go, Temporaries, Base, TypeOK
  <2>3. CASE temp' = [temp EXCEPT ![w] = None] /\ pc'[w] # "written"
        BY <2>1, <2>3 DEF Temporaries, Base, TypeOK
  <2>4. CASE temp' = temp /\ pc[w] # "written" /\ pc'[w] # "written"
    <3>1. pc[w] # "done" BY <1>1, TempMoves
    <3>2. QED BY <2>1, <2>4, <3>1 DEF Temporaries
  <2>5. QED BY <1>1, <2>2, <2>3, <2>4, TempMoves
<1>2. CASE CommandStep \/ SweepStep
  <2>1. UNCHANGED work BY <1>2, LocksCommand DEF Base
  <2>2. \A w \in Writers : temp'[w] = temp[w] \/ (temp'[w] = None /\ pc[w] = "done")
        BY <1>2 DEF CommandStep, Submit, Claim, EndRow, CommandLocks, MeasureBefore, MeasureAfter, Recount,
            StartContainer, ContainerWrites, NotStarted, RemoveContainer, LeaveCommand, Report,
            RemoveFails, Restart, SweepStep, BeginSweep, SweepLocks, SweepChecks,
            RemoveScratch, SweepSkips, exceptSweep, exceptSlot, exceptRow, disk, Base, TypeOK
  <2>3. QED BY <2>1, <2>2 DEF Temporaries, work
<1>3. CASE ApiDies
  <2>1. temp' = temp /\ \A w \in Writers : pc'[w] # "written" /\ (pc[w] \in {"written", "done"} => pc'[w] = "done")
        BY <1>3 DEF ApiDies, Survives, disk
  <2>2. QED BY <2>1 DEF Temporaries
<1>4. CASE WorkerDies \/ UNCHANGED vars
      BY <1>4 DEF WorkerDies, vars, disk, work, Temporaries
<1>5. QED BY <1>1, <1>2, <1>3, <1>4 DEF Next, WriterStep, Writers

\* The sum a writer records, when nothing it counts changes.
LEMMA ComingKept ==
    ASSUME NEW w \in Writers, UNCHANGED <<file, temp, scratch>>,
           pc'[w] = pc[w], draft'[w] = draft[w]
    PROVE  Coming(w)' = Coming(w)
BY SizeKept DEF Coming, Bytes

\* Inside put: whoever holds the files lock is alone with the accounts.
LEMMA AccountsPut ==
    ASSUME Accounted, TypeOK', NEW w \in Writers, PutStep(w)
    PROVE  /\ tainted \/ usage' = None \/ usage' >= DirectorySize' \/ UNCHANGED <<usage, file, temp, scratch>>
           /\ pc'[w] \in Putting =>
                 usage' = None /\ sum'[w] <= Limit /\ (tainted \/ sum'[w] >= Coming(w)')
<1> USE DEF Accounted, Base, Go, Return
<1>1. Parts /\ Parts' BY SizeParts, SizePartsNext
<1>2. DirectorySize \in Int /\ DirectorySize' \in Int BY <1>1 DEF Parts
<1>3. CASE WriteTemporary(w)
  <2>1. pc[w] = "admitted" /\ pc'[w] = "written" BY <1>3 DEF WriteTemporary, TypeOK
  <2>2. draft[w].text \in Contents /\ draft[w].path \in Paths
        BY <2>1, WhereLocked DEF Placed
  <2>3. TempBytes' = TempBytes - Bytes(temp[w]) + Bytes(draft[w].text)
        BY <1>3, <2>2, TempChanges DEF WriteTemporary
  <2>4. Bytes(temp[w]) = 0 BY <2>1 DEF Temporaries, Bytes
  <2>5. FileBytes' = FileBytes /\ ScratchBytes' = ScratchBytes
        BY <1>3 DEF WriteTemporary, FileBytes, ScratchBytes, Bytes
  <2>6. Bytes(draft[w].text) \in Nat /\ Bytes(file[draft[w].path]) \in Nat
        BY <2>2, BytesNat DEF TypeOK
  <2>7. DirectorySize' = DirectorySize + Bytes(draft[w].text)
        BY <1>1, <2>3, <2>4, <2>5, <2>6 DEF Parts
  <2>8. Coming(w) = DirectorySize + Bytes(draft[w].text) - Bytes(file[draft[w].path])
        BY <2>1 DEF Coming
  <2>9. Coming(w)' = DirectorySize' + 0 - Bytes(file[draft[w].path])
        BY <1>3, <2>1 DEF Coming, WriteTemporary, Bytes
  <2>10. Coming(w)' = Coming(w) BY <1>2, <2>6, <2>7, <2>8, <2>9
  <2>11. usage = None /\ sum[w] <= Limit /\ (tainted \/ sum[w] >= Coming(w))
         BY <2>1, WhereLocked DEF Accounts
  <2>12. QED BY <1>3, <2>10, <2>11 DEF WriteTemporary
<1>4. CASE Replace(w)
  <2>1. pc[w] = "written" /\ pc'[w] = "replaced" BY <1>4 DEF Replace, TypeOK
  <2>2. draft[w].text \in Contents /\ draft[w].path \in Paths
        BY <2>1, WhereLocked DEF Placed
  <2>3. FileBytes' = FileBytes - Bytes(file[draft[w].path]) + Bytes(draft[w].text)
        BY <1>4, <2>2, FileChanges DEF Replace
  <2>4. TempBytes' = TempBytes - Bytes(temp[w]) + Bytes(None)
        BY <1>4, TempChanges DEF Replace
  <2>5. temp[w] = draft[w].text /\ Bytes(None) = 0 BY <2>1 DEF Temporaries, Bytes
  <2>6. ScratchBytes' = ScratchBytes BY <1>4 DEF Replace, ScratchBytes
  <2>7. Bytes(draft[w].text) \in Nat /\ Bytes(file[draft[w].path]) \in Nat
        BY <2>2, BytesNat DEF TypeOK
  <2>8. DirectorySize' = DirectorySize - Bytes(file[draft[w].path])
        BY <1>1, <2>3, <2>4, <2>5, <2>6, <2>7 DEF Parts
  <2>9. Coming(w) = DirectorySize + 0 - Bytes(file[draft[w].path]) BY <2>1 DEF Coming
  <2>10. Coming(w)' = DirectorySize' + 0 - 0 BY <2>1 DEF Coming
  <2>11. Coming(w)' = Coming(w) BY <1>2, <2>7, <2>8, <2>9, <2>10
  <2>12. usage = None /\ sum[w] <= Limit /\ (tainted \/ sum[w] >= Coming(w))
         BY <2>1, WhereLocked DEF Accounts
  <2>13. QED BY <1>4, <2>11, <2>12 DEF Replace
<1>5. CASE RecordUsage(w)
  <2>1. pc[w] = "replaced" /\ pc'[w] \notin Putting
        BY <1>5, WhereLocked DEF RecordUsage, TypeOK, Putting
  <2>2. Coming(w) = DirectorySize + 0 - 0 BY <2>1 DEF Coming
  <2>3. DirectorySize' = DirectorySize BY <1>5, SizeKept DEF RecordUsage
  <2>4. tainted \/ sum[w] >= DirectorySize BY <1>2, <2>1, <2>2, WhereLocked DEF Accounts
  <2>5. QED BY <1>5, <2>1, <2>3, <2>4 DEF RecordUsage
<1>6. CASE PutFails(w)
  <2>1. pc'[w] \notin Putting BY <1>6 DEF PutFails, TypeOK, Putting
  <2>2. CASE pc[w] \in Putting
    <3>1. usage = None BY <2>2 DEF Accounts
    <3>2. QED BY <1>6, <2>1, <3>1 DEF PutFails
  <2>3. CASE pc[w] \notin Putting
    <3>1. pc[w] = "locked" BY <1>6, <2>3 DEF PutFails
    <3>2. temp[w] = None BY <3>1 DEF Temporaries
    <3>3. temp' = temp BY <1>6, <3>2 DEF PutFails, TypeOK
    <3>4. QED BY <1>6, <2>1, <3>3 DEF PutFails
  <2>4. QED BY <2>2, <2>3
<1>7. QED BY <1>3, <1>4, <1>5, <1>6 DEF PutStep

\* Going into put: what is known of the directory covers it.
LEMMA AccountsEntry ==
    ASSUME Accounted, NEW w \in Writers, NEW from, NEW d, Entry(w, from, d),
           command \notin Commanding
    PROVE  usage' = None /\ sum'[w] <= Limit /\ (tainted \/ sum'[w] >= Coming(w)')
<1> USE DEF Accounted, Base
<1>1. /\ pc' = [pc EXCEPT ![w] = "admitted"] /\ draft' = [draft EXCEPT ![w] = d]
      /\ sum' = [sum EXCEPT ![w] = SizeAfter(d.path, d.text)]
      /\ SizeAfter(d.path, d.text) <= Limit /\ usage' = None
      /\ UNCHANGED <<file, temp, scratch, tainted>>
      BY DEF Entry, Admit, Go
<1>2. DirectorySize \in Int /\ DirectorySize' = DirectorySize BY <1>1, SizeInt, SizeKept
<1>3. Bytes(d.text) \in Nat /\ Bytes(file[d.path]) \in Nat BY BytesNat DEF Entry, TypeOK
<1>4. pc'[w] = "admitted" /\ draft'[w] = d /\ sum'[w] = SizeAfter(d.path, d.text)
      BY <1>1 DEF TypeOK
<1>5. Coming(w)' = DirectorySize + Bytes(d.text) - Bytes(file[d.path])
      BY <1>1, <1>2, <1>4 DEF Coming, Bytes
<1>6. tainted \/ Known >= DirectorySize
  <2>1. usage # None => usage \in Int BY DEF TypeOK
  <2>2. QED BY <1>2, <2>1 DEF Known, Accounts, Commanding
<1>7. Known \in Int BY <1>2 DEF Known, TypeOK
<1>8. QED BY <1>1, <1>2, <1>3, <1>4, <1>5, <1>6, <1>7 DEF SizeAfter

\* Everything else a writer does leaves the accounts as they are, or forgets.
LEMMA AccountsElse ==
    ASSUME Accounted, NEW w \in Writers, WriterStep(w), ~PutStep(w), pc'[w] \notin Putting
    PROVE  /\ UNCHANGED <<temp, scratch>> /\ \A v \in Writers \ {w} : sum'[v] = sum[v]
           /\ usage' = usage \/ usage' = None
           /\ file' = file \/ \A p \in Paths : file'[p] \in {file[p], None}
           /\ pc[w] \notin Locked => file' = file /\ usage' = usage
<1> USE WhereLocked DEF Accounted, Base, TypeOK, Go, Return, disk
<1>1. CASE w \in Tools /\ ToolStep(w)
  <2>1. PICK p \in Paths, c \in Contents : ToolPuts(w, p, c)
        BY <1>1 DEF ToolStep, ToolWrites, ToolEdits
  <2>2. QED BY <2>1 DEF ToolPuts, Admit, Putting
<1>2. CASE w \in Savers /\ SaverStep(w)
      BY <1>2 DEF SaverStep, Preview, EnterSave, ClearMarker, Save, Admit, SaveRefused, SaveFails,
         Putting
<1>3. CASE w \in Runs /\ RunStep(w)
      BY <1>3 DEF RunStep, Lease, StartTurn, StartResume, Upload, Admit, Uploaded, UndoUploads,
         ForgetUsage, StageInputs, RemoveOld, InstallNew, EnterStream, TakeAnswer,
         GraphEnds, ReadPending, MarkPaused, RunFails, work, Putting
<1>4. QED BY <1>1, <1>2, <1>3 DEF WriterStep

\* The sums of writers that stay where they are, beside a step off the disk.
LEMMA AccountsBeside ==
    ASSUME Accounted, LocksExclude', NEW w \in Writers, WriterStep(w),
           NEW v \in Writers \ {w}, pc'[v] \in Putting
    PROVE  usage' = None /\ sum'[v] <= Limit /\ (tainted \/ sum'[v] >= Coming(v)')
<1>1. pc'[v] = pc[v] /\ draft'[v] = draft[v] BY FilesMove DEF Accounted
<1>2. v \in FileHolders /\ v \in FileHolders' BY <1>1, WhereLocked DEF FileHolders, Putting
<1>3. pc[w] \notin Locked /\ pc'[w] \notin Locked
      BY <1>2 DEF Accounted, Base, LocksExclude, FileHolders
<1>4. ~PutStep(w)
      BY <1>3, PutMoves, WhereLocked DEF Accounted, Base, Putting
<1>5. pc'[w] \notin Putting BY <1>3, WhereLocked DEF Putting
<1>6. /\ UNCHANGED <<temp, scratch, file>> /\ sum'[v] = sum[v] /\ usage' = usage
      BY <1>3, <1>4, <1>5, AccountsElse
<1>7. Coming(v)' = Coming(v) BY <1>1, <1>6, ComingKept
<1>8. QED BY <1>1, <1>6, <1>7 DEF Accounted, Accounts

\* The accounts, through every step of a writer.
LEMMA AccountsWriter ==
    ASSUME Accounted, Base', NEW w \in Writers, WriterStep(w)
    PROVE  Accounts'
<1>1. PICK to : Moves(w, to) BY WriterMoves DEF Accounted, Base
<1>2. UNCHANGED <<command, tainted>> BY <1>1 DEF Moves
<1>3. Parts /\ Parts' /\ DirectorySize \in Int /\ DirectorySize' \in Int
      BY SizeParts, SizePartsNext DEF Accounted, Base, Parts
<1>4. \A v \in Writers \ {w} : pc'[v] \in Putting =>
          usage' = None /\ sum'[v] <= Limit /\ (tainted \/ sum'[v] >= Coming(v)')
      BY AccountsBeside DEF Base
<1>5. CASE PutStep(w)
  <2>1. pc[w] \in Locked BY <1>5, PutMoves, WhereLocked DEF Accounted, Base, Putting
  <2>2. command \notin Commanding BY <2>1 DEF Accounted, Base, LocksExclude, FileHolders
  <2>3. command # "measuring" BY <2>2 DEF Commanding
  <2>4. \/ tainted \/ usage' = None \/ usage' >= DirectorySize'
        \/ UNCHANGED <<usage, file, temp, scratch>>
        BY <1>5, AccountsPut DEF Base
  <2>5. tainted \/ usage' = None \/ usage' >= DirectorySize'
    <3>1. tainted \/ usage = None \/ usage >= DirectorySize
          BY <2>2 DEF Accounted, Accounts, Commanding
    <3>2. QED BY <2>4, <3>1, SizeKept
  <2>6. pc'[w] \in Putting =>
            usage' = None /\ sum'[w] <= Limit /\ (tainted \/ sum'[w] >= Coming(w)')
        BY <1>5, AccountsPut DEF Base
  <2>7. QED BY <1>2, <1>4, <2>3, <2>5, <2>6 DEF Accounts
<1>6. CASE ~PutStep(w) /\ pc'[w] \in Putting
  <2>1. pc[w] \notin Putting
        BY <1>6, <1>1 DEF WriterStep, ToolStep, ToolWrites, ToolEdits, ToolPuts, Admit, Go,
               SaverStep, Preview, EnterSave, ClearMarker, Save, SaveRefused, SaveFails,
               RunStep, Lease, StartTurn, StartResume, Upload, Uploaded, UndoUploads,
               ForgetUsage, StageInputs, RemoveOld, InstallNew, EnterStream, TakeAnswer,
               GraphEnds, ReadPending, MarkPaused, RunFails, work, Putting, Staging
  <2>2. PICK from, d : Entry(w, from, d) BY <1>6, <2>1, Enters DEF Accounted
  <2>3. command \notin Commanding
    <3>1. w \in FileHolders' BY <1>6, WhereLocked DEF FileHolders, Putting
    <3>2. QED BY <1>2, <3>1 DEF Base, LocksExclude
  <2>4. usage' = None /\ sum'[w] <= Limit /\ (tainted \/ sum'[w] >= Coming(w)')
        BY <2>2, <2>3, AccountsEntry
  <2>5. QED BY <1>2, <1>4, <2>4 DEF Accounts
<1>7. CASE ~PutStep(w) /\ pc'[w] \notin Putting
  <2>1. /\ UNCHANGED <<temp, scratch>>
        /\ usage' = usage \/ usage' = None
        /\ file' = file \/ \A p \in Paths : file'[p] \in {file[p], None}
        BY <1>7, AccountsElse
  <2>2. DirectorySize' <= DirectorySize
    <3>1. CASE file' = file BY <1>3, <2>1, <3>1, SizeKept
    <3>2. CASE \A p \in Paths : file'[p] \in {file[p], None}
      <4>1. FileBytes' <= FileBytes BY <3>2, FilesShrink DEF Accounted, Base
      <4>2. TempBytes' = TempBytes /\ ScratchBytes' = ScratchBytes
            BY <2>1 DEF TempBytes, ScratchBytes, Bytes
      <4>3. /\ DirectorySize = FileBytes + TempBytes + ScratchBytes
            /\ DirectorySize' = FileBytes' + TempBytes + ScratchBytes
            /\ FileBytes \in Int /\ TempBytes \in Int /\ ScratchBytes \in Int
            /\ FileBytes' \in Int
            BY <1>3, <4>2 DEF Parts
      <4>4. \A a, b, c, d \in Int : a <= b => a + c + d <= b + c + d OBVIOUS
      <4>5. QED BY <4>1, <4>3, <4>4
    <3>3. QED BY <2>1, <3>1, <3>2
  <2>3. usage # None => usage \in Int BY DEF Accounted, Base, TypeOK
  <2>4. \/ tainted \/ usage' = None \/ usage' >= DirectorySize'
        \/ command \in {"running", "recounting", "leaving"}
        BY <1>3, <2>1, <2>2, <2>3 DEF Accounted, Accounts
  <2>5. command = "measuring" => usage' = None BY <2>1 DEF Accounted, Accounts
  <2>6. QED BY <1>2, <1>4, <1>7, <2>4, <2>5 DEF Accounts
<1>8. QED BY <1>5, <1>6, <1>7
\* The command and the sweep measure, forget, or write under every lock; only a
\* container without its worker writes beside a writer, and taints the accounts.
LEMMA AccountsCommand ==
    ASSUME Accounted, CommandStep \/ SweepStep
    PROVE  Accounts'
<1> USE DEF Accounted, Base
<1>1. UNCHANGED work BY LocksCommand
<1>2. ASSUME NEW w \in Writers, pc[w] \in Putting
      PROVE  usage' = None /\ sum'[w] <= Limit /\ (tainted' \/ sum'[w] >= Coming(w)')
  <2>1. w \in FileHolders BY <1>2, WhereLocked DEF FileHolders, Putting
  <2>2. command \notin Commanding /\ sweep \notin Sweeping BY <2>1 DEF LocksExclude
  <2>3. ~CommandLocks /\ ~SweepLocks BY <2>1 DEF CommandLocks, SweepLocks, FilesFree
  <2>4. /\ usage' = None /\ (tainted => tainted')
        /\ tainted' \/ UNCHANGED <<file, temp, scratch>>
    <3>1. usage = None /\ (command = "stray" => tainted) BY <1>2 DEF Accounts, LocksExclude
    <3>2. QED BY <2>2, <2>3, <3>1 DEF CommandStep, Submit, Claim, EndRow, MeasureBefore, MeasureAfter, Recount,
              StartContainer, ContainerWrites, NotStarted, RemoveContainer, LeaveCommand,
              Report, RemoveFails, Restart, SweepStep, BeginSweep, SweepChecks, RemoveScratch,
              SweepSkips, exceptSweep, exceptSlot, exceptRow, disk, Commanding, Sweeping
  <2>5. sum'[w] = sum[w] /\ sum[w] <= Limit /\ (tainted \/ sum[w] >= Coming(w))
        BY <1>1, <1>2 DEF work, Accounts
  <2>6. UNCHANGED <<file, temp, scratch>> => Coming(w)' = Coming(w)
        BY <1>1, ComingKept DEF work
  <2>7. QED BY <2>4, <2>5, <2>6
<1>3. command' = "measuring" => usage' = None
  <2>1. CASE CommandStep
        BY <2>1 DEF Accounts, CommandStep, Submit, Claim, EndRow, CommandLocks, MeasureBefore,
           MeasureAfter, Recount, StartContainer, ContainerWrites, NotStarted, RemoveContainer,
           LeaveCommand, Report, RemoveFails, Restart, disk, exceptSlot, exceptRow
  <2>2. CASE SweepStep
        BY <2>2 DEF Accounts, SweepStep, BeginSweep, SweepLocks, SweepChecks, RemoveScratch,
           SweepSkips, exceptSweep
  <2>3. QED BY <2>1, <2>2
<1>4. \/ tainted' \/ usage' = None \/ usage' >= DirectorySize'
      \/ command' \in {"running", "recounting", "leaving"}
  <2>1. DirectorySize \in Int /\ (usage # None => usage \in Int) BY SizeInt DEF TypeOK
  <2>2. CASE UNCHANGED <<file, temp, scratch, usage, tainted>>
             /\ (command \in {"running", "recounting", "leaving"} =>
                    command' \in {"running", "recounting", "leaving"})
        BY <2>2, SizeKept DEF Accounts
  <2>3. CASE usage' = DirectorySize /\ UNCHANGED <<file, temp, scratch>>
        BY <2>1, <2>3, SizeKept
  <2>4. CASE RemoveScratch
    <3>1. Parts /\ FileBytes' = FileBytes /\ TempBytes' = TempBytes /\ ScratchBytes' = 0
          BY <2>4, SizeParts DEF RemoveScratch, exceptSweep, FileBytes, TempBytes, ScratchBytes,
             Bytes
    <3>2. TypeOK' BY TypeStep DEF Next
    <3>3. Parts' BY <3>2, SizePartsNext
    <3>4. DirectorySize' <= DirectorySize
      <4>1. /\ DirectorySize = FileBytes + TempBytes + ScratchBytes
            /\ DirectorySize' = FileBytes + TempBytes + 0
            /\ FileBytes \in Int /\ TempBytes \in Int /\ ScratchBytes \in Nat
            BY <3>1, <3>3 DEF Parts
      <4> HIDE DEF DirectorySize, FileBytes, TempBytes, ScratchBytes
      <4>2. QED BY <4>1
    <3>5. UNCHANGED <<usage, command, tainted>> /\ DirectorySize' \in Int
          BY <2>4, <3>3, SizeInt DEF RemoveScratch, exceptSweep, Parts
    <3>6. QED BY <2>1, <3>4, <3>5 DEF Accounts
  <2>5. CASE CommandStep
    <3>1. CASE Submit \/ Claim \/ EndRow \/ Report
          BY <2>2, <3>1 DEF Submit, Claim, EndRow, Report, exceptRow, disk
    <3>2. CASE CommandLocks \/ LeaveCommand \/ RemoveFails
          BY <3>2 DEF CommandLocks, LeaveCommand, RemoveFails
    <3>3. CASE MeasureBefore \/ MeasureAfter
          BY <2>3, <3>3 DEF MeasureBefore, MeasureAfter, Recount, exceptSlot, exceptRow
    <3>4. CASE StartContainer \/ NotStarted \/ RemoveContainer
          BY <3>4 DEF StartContainer, NotStarted, RemoveContainer
    <3>5. CASE ContainerWrites BY <3>5 DEF ContainerWrites, LocksExclude
    <3>6. CASE Restart
      <4>1. command \notin {"running", "recounting", "leaving"}
            BY <3>6 DEF Restart, LocksExclude, Commanding
      <4>2. UNCHANGED <<file, temp, scratch, usage, tainted>> BY <3>6 DEF Restart, disk
      <4>3. QED BY <2>2, <4>1, <4>2
    <3>7. QED BY <2>5, <3>1, <3>2, <3>3, <3>4, <3>5, <3>6 DEF CommandStep
  <2>6. CASE SweepChecks BY <2>6 DEF SweepChecks
  <2>7. CASE BeginSweep \/ SweepLocks \/ SweepSkips
        BY <2>2, <2>7 DEF BeginSweep, SweepLocks, SweepSkips, exceptSweep
  <2>8. QED BY <2>4, <2>5, <2>6, <2>7 DEF SweepStep
<1>5. QED BY <1>1, <1>2, <1>3, <1>4 DEF Accounts, work

\* The accounts are kept by every step, the deaths of the processes included.
LEMMA AccountsStep == Accounted /\ [Next]_vars => Accounts'
<1> SUFFICES ASSUME Accounted, [Next]_vars PROVE Accounts' OBVIOUS
<1>1. Base' BY BaseStep DEF Accounted
<1>2. CASE ApiDies
  <2>1. UNCHANGED <<file, temp, scratch, usage, command, tainted>> BY <1>2 DEF ApiDies, disk
  <2>2. \A w \in Writers : pc'[w] \notin Putting BY <1>2 DEF ApiDies, Survives, Putting
  <2>3. QED BY <2>1, <2>2, SizeKept DEF Accounted, Accounts
<1>3. CASE WorkerDies
  <2>1. UNCHANGED <<file, temp, scratch, usage, work>> BY <1>3 DEF WorkerDies, disk
  <2>2. /\ tainted => tainted'
        /\ command' # "measuring"
        /\ command \in {"running", "recounting", "leaving"} => tainted'
        BY <1>3 DEF WorkerDies
  <2>3. \A w \in Writers : Coming(w)' = Coming(w) BY <2>1, ComingKept DEF work
  <2>4. QED BY <2>1, <2>2, <2>3, SizeKept DEF Accounted, Accounts, work
<1>4. CASE UNCHANGED vars
  <2>1. UNCHANGED <<file, temp, scratch, usage, work, command, tainted>>
        BY <1>4 DEF vars, disk
  <2>2. \A w \in Writers : Coming(w)' = Coming(w) BY <2>1, ComingKept DEF work
  <2>3. QED BY <2>1, <2>2, SizeKept DEF Accounted, Accounts, work
<1>5. QED BY <1>1, <1>2, <1>3, <1>4, AccountsWriter, AccountsCommand DEF Next, WriterStep, Writers

\* An empty directory has nothing recorded.
LEMMA AccountedHolds == Spec => []Accounted
<1>1. Init => Temporaries /\ Accounts
      BY DEF Init, Temporaries, Accounts, Putting, Writers
<1>2. Base /\ Temporaries /\ Accounts /\ [Next]_vars => Temporaries' /\ Accounts'
      BY TemporariesStep, AccountsStep DEF Accounted
<1>3. QED BY <1>1, <1>2, BaseInit, BaseStep, PTL DEF Spec, Accounted

\* Outside a command .usage is absent or counts at least what is there, however
\* many writers, files and deaths; only a worker that died between the start of
\* a container and the end of its command takes that away.
THEOREM UsageIsCovered == Spec => []UsageCovers
<1>1. Accounted => UsageCovers BY DEF Accounted, Accounts, UsageCovers, Commanding
<1>2. QED BY <1>1, AccountedHolds, PTL

\* A rename never leaves more than the limit, although new_size was computed
\* before the temporary was written and the directory counted it meanwhile.
THEOREM QuotaIsKept == Spec => QuotaKept
<1>1. Accounted /\ Accounted' /\ [Next]_vars =>
          \A w \in Writers : pc[w] = "written" /\ pc'[w] = "replaced"
             => tainted \/ DirectorySize' <= Limit
  <2> SUFFICES ASSUME Accounted, Accounted', [Next]_vars, NEW w \in Writers,
                      pc[w] = "written", pc'[w] = "replaced", ~tainted
               PROVE  DirectorySize' <= Limit
      OBVIOUS
  <2>1. tainted' = tainted
    <3>1. ASSUME NEW v \in Writers, WriterStep(v) PROVE tainted' = tainted
      <4>1. PICK to : Moves(v, to) BY <3>1, WriterMoves DEF Accounted, Base
      <4>2. QED BY <4>1 DEF Moves
    <3>2. CASE CommandStep \/ SweepStep
      <4>1. UNCHANGED work BY <3>2, LocksCommand DEF Accounted, Base
      <4>2. QED BY <4>1 DEF work
    <3>3. CASE ApiDies BY <3>3 DEF ApiDies
    <3>4. CASE WorkerDies \/ UNCHANGED vars BY <3>4 DEF WorkerDies, vars, work
    <3>5. QED BY <3>1, <3>2, <3>3, <3>4 DEF Next, WriterStep, Writers
  <2>2. sum'[w] <= Limit /\ sum'[w] >= Coming(w)'
        BY <2>1, WhereLocked DEF Accounted, Accounts
  <2>3. Coming(w)' = DirectorySize' + 0 - 0 BY DEF Coming
  <2>4. DirectorySize' \in Int BY SizePartsNext DEF Accounted, Base, Parts
  <2>5. sum'[w] \in Int BY DEF Accounted, Base, TypeOK
  <2>6. Limit \in Int BY StoreAssumption DEF StoreAssumption
  <2> HIDE DEF DirectorySize
  <2>7. QED BY <2>2, <2>3, <2>4, <2>5, <2>6
<1>2. QED BY <1>1, AccountedHolds, PTL DEF Spec, QuotaKept
-----------------------------------------------------------------------------
(* The dialogue: one run of a conversation at a time.                      *)

\* A run that is not alive has nothing to keep but its look.
LEMMA Quiet ==
    ASSUME NEW r \in Runs, pc[r] \in {"idle", "done"}
    PROVE  RunDialogue(r) <=> ~look[r]
BY DEF RunDialogue, Fresh, Putting, Staging, Undoing

\* The run that steps is the only one alive; the others keep quiet.
LEMMA Alone ==
    ASSUME Exclusive = TRUE, Base, OneDialogue, NEW r \in Runs, RunStep(r),
           \A q \in Runs \ {r} : look'[q] = look[q]
    PROVE  /\ \A p, q \in LiveRuns' : p = q
           /\ \A q \in Runs \ {r} : RunDialogue(q)'
<1>1. r \in Writers /\ WriterStep(r) BY DEF Writers, WriterStep
<1>2. PICK to : Moves(r, to) BY <1>1, WriterMoves DEF Base
<1>3. \A q \in Runs \ {r} : pc'[q] = pc[q]
      BY <1>2 DEF Moves, Base, TypeOK, Writers
<1>4. \A q \in Runs \ {r} : pc[q] \notin Live
  <2>1. CASE pc[r] \in Live BY <2>1 DEF OneDialogue, LiveRuns
  <2>2. CASE pc[r] \notin Live /\ to \in Live BY <1>2, <2>2 DEF Moves, LiveRuns
  <2>3. CASE pc[r] \notin Live /\ to \notin Live
    <3>1. ~PutStep(r) BY <1>1, <2>3, PutMoves, WhereLocked DEF Base, Putting
    <3>2. Lease(r)
          BY <2>3, <3>1, WhereLocked DEF RunStep, StartTurn, StartResume, Upload, Admit,
             Uploaded, UndoUploads, ForgetUsage, StageInputs, RemoveOld, InstallNew,
             EnterStream, TakeAnswer, GraphEnds, ReadPending, MarkPaused, RunFails, Go, Staging
    <3>3. to = "leased" BY <1>1, <1>2, <3>2 DEF Moves, Lease, Go, Base, TypeOK
    <3>4. QED BY <2>3, <3>3, WhereLocked
  <2>4. QED BY <2>1, <2>2, <2>3
<1>5. \A q \in Runs \ {r} : pc'[q] \in {"idle", "done"} /\ ~look'[q]
      BY <1>3, <1>4, Quiet DEF Base, Placed, OneDialogue
<1>6. \A q \in Runs \ {r} : q \notin LiveRuns' BY <1>5, WhereLocked DEF LiveRuns
<1>7. ASSUME NEW q \in Runs \ {r} PROVE RunDialogue(q)'
      BY <1>5, <1>7 DEF RunDialogue, Fresh, Putting, Staging, Undoing
<1>8. QED BY <1>6, <1>7 DEF LiveRuns

\* A run asks only of the turn whose inputs are staged, and marks what it asks.
LEMMA DialogueRun ==
    ASSUME Exclusive = TRUE, Base, OneDialogue, NEW r \in Runs, RunStep(r)
    PROVE  OneDialogue'
<1> USE DEF Go, dialogue, work
<1>1. r \in Writers /\ pc \in [Writers -> Places] /\ look \in [Runs -> BOOLEAN]
      BY DEF Writers, Base, TypeOK
<1>2. RunDialogue(r) /\ Question BY DEF OneDialogue
<1>3. UNCHANGED <<job, sweep>>
  <2>1. PICK to : Moves(r, to) BY <1>1, WriterMoves DEF Base, WriterStep
  <2>2. QED BY <2>1 DEF Moves
<1>4. pc[r] \in Live => sweep # "removing"
      BY DEF Base, LocksExclude, LiveRuns, Sweeping
<1>5. Question' /\ RunDialogue(r)' /\ \A q \in Runs \ {r} : look'[q] = look[q]
  <2> USE <1>1, <1>2, <1>3, <1>4, WhereLocked
      DEF Question, RunDialogue, Coherent, Bound, Fresh, Putting, Staging, Undoing
  <2>1. CASE Lease(r) BY <2>1 DEF Lease
  <2>2. CASE StartTurn(r) BY <2>2 DEF StartTurn
  <2>3. CASE StartResume(r) BY <2>3 DEF StartResume
  <2>4. CASE Upload(r) BY <2>4 DEF Upload, Admit
  <2>5. CASE Uploaded(r) BY <2>5 DEF Uploaded
  <2>6. CASE UndoUploads(r) BY <2>6 DEF UndoUploads
  <2>7. CASE ForgetUsage(r) BY <2>7 DEF ForgetUsage
  <2>8. CASE PutStep(r)
        BY <2>8 DEF PutStep, WriteTemporary, Replace, RecordUsage, PutFails
  <2>9. CASE StageInputs(r) BY <2>9 DEF StageInputs, FilesFree
  <2>10. CASE RemoveOld(r) BY <2>10 DEF RemoveOld
  <2>11. CASE InstallNew(r) BY <2>11 DEF InstallNew
  <2>12. CASE EnterStream(r)
         BY <2>12, StoreAssumption DEF EnterStream, StoreAssumption
  <2>13. CASE TakeAnswer(r) BY <2>13 DEF TakeAnswer
  <2>14. CASE GraphEnds(r) BY <2>14 DEF GraphEnds
  <2>15. CASE ReadPending(r) BY <2>15 DEF ReadPending
  <2>16. CASE MarkPaused(r) BY <2>16 DEF MarkPaused
  <2>17. CASE RunFails(r) BY <2>17 DEF RunFails
  <2>18. QED BY <2>1, <2>2, <2>3, <2>4, <2>5, <2>6, <2>7, <2>8, <2>9, <2>10, <2>11, <2>12,
             <2>13, <2>14, <2>15, <2>16, <2>17 DEF RunStep
<1>6. /\ \A p, q \in LiveRuns' : p = q
      /\ \A q \in Runs \ {r} : RunDialogue(q)'
      BY <1>5, Alone
<1>7. QED BY <1>5, <1>6 DEF OneDialogue

\* Beside the runs, only an editor that finds no question takes the marker away.
LEMMA DialogueOther ==
    ASSUME Base, OneDialogue, NEW w \in Tools \cup Savers,
           ToolStep(w) \/ SaverStep(w), w \in Tools => ToolStep(w), w \in Savers => SaverStep(w)
    PROVE  OneDialogue'
<1>1. w \in Writers /\ w \notin Runs /\ WriterStep(w)
      BY WritersDisjoint DEF Writers, WritersDisjoint, WriterStep
<1>2. PICK to : Moves(w, to) BY <1>1, WriterMoves DEF Base
<1>3. \A r \in Runs : pc'[r] = pc[r] BY <1>1, <1>2 DEF Moves, Base, TypeOK, Writers
<1>4. UNCHANGED <<job, sweep, pending, inputs, turn, look>>
  <2>1. UNCHANGED <<job, sweep>> BY <1>2 DEF Moves
  <2>2. UNCHANGED <<pending, inputs, turn, look>>
        BY DEF SaverStep, Preview, EnterSave, ClearMarker, Save, SaveRefused, SaveFails, ToolStep,
           ToolWrites, ToolEdits, ToolPuts, Admit, PutStep, WriteTemporary, Replace, RecordUsage,
           PutFails, dialogue
  <2>3. QED BY <2>1, <2>2
<1>5. LiveRuns' = LiveRuns BY <1>3 DEF LiveRuns
<1>6. CASE ClearMarker(w) /\ w \in Savers
  <2>1. w \in ActiveSavers BY <1>6, WhereLocked DEF ClearMarker, Go, ActiveSavers
  <2>2. LiveRuns = {} BY <2>1 DEF Base, LocksExclude
  <2>3. ~pending BY <1>6 DEF ClearMarker
  <2>4. \A r \in Runs : pc[r] \notin {"streaming", "ending", "looked"}
        BY <2>2, WhereLocked DEF LiveRuns
  <2>5. Question' BY <1>4, <2>3 DEF OneDialogue, Question, Coherent, Bound
  <2>6. \A r \in Runs : RunDialogue(r)'
        BY <1>3, <1>4, <2>4 DEF OneDialogue, RunDialogue, Coherent, Bound
  <2>7. QED BY <1>5, <2>5, <2>6 DEF OneDialogue
<1>7. CASE ~(ClearMarker(w) /\ w \in Savers)
  <2>1. UNCHANGED paused
        BY <1>7 DEF SaverStep, Preview, EnterSave, Save, SaveRefused, SaveFails, ToolStep,
           ToolWrites, ToolEdits, ToolPuts, Admit, PutStep, WriteTemporary, Replace, RecordUsage,
           PutFails, dialogue
  <2>2. QED BY <1>3, <1>4, <1>5, <2>1 DEF OneDialogue, Question, RunDialogue, Coherent, Bound
<1>8. QED BY <1>6, <1>7

\* A job is submitted from the graph of the only run; the sweep looks at the
\* marker when no run can set it.
LEMMA DialogueCommand ==
    ASSUME Base, OneDialogue, CommandStep \/ SweepStep
    PROVE  OneDialogue'
<1>1. UNCHANGED work BY LocksCommand DEF Base
<1>2. UNCHANGED dialogue
      BY DEF CommandStep, Submit, Claim, EndRow, CommandLocks, MeasureBefore, MeasureAfter, Recount,
         StartContainer, ContainerWrites, NotStarted, RemoveContainer, LeaveCommand, Report,
         RemoveFails, Restart, SweepStep, BeginSweep, SweepLocks, SweepChecks, RemoveScratch,
         SweepSkips, exceptSlot, exceptRow, exceptSweep
<1>3. LiveRuns' = LiveRuns BY <1>1 DEF work, LiveRuns
<1>4. CASE Submit
  <2>1. Bound' => Coherent /\ asker' = turn /\ \A q \in Runs : pc[q] \notin Staging
    <3>1. SUFFICES ASSUME Bound' PROVE Coherent /\ asker' = turn
                                       /\ \A q \in Runs : pc[q] \notin Staging
          OBVIOUS
    <3>2. Streaming /\ asker' = turn BY <1>4, <3>1 DEF Submit, Bound
    <3>3. PICK r \in Runs : pc[r] = "streaming" BY <3>2 DEF Streaming
    <3>4. r \in LiveRuns BY <3>3, WhereLocked DEF LiveRuns
    <3>5. QED BY <3>2, <3>3, <3>4, WhereLocked DEF OneDialogue, RunDialogue, LiveRuns, Staging
  <2>2. sweep' = sweep BY <1>4 DEF Submit, exceptRow
  <2>3. Question' BY <1>2, <2>1, <2>2 DEF OneDialogue, Question, Coherent, dialogue
  <2>4. \A q \in Runs : RunDialogue(q)'
        BY <1>1, <1>2, <2>1 DEF OneDialogue, RunDialogue, Coherent, dialogue, work
  <2>5. QED BY <1>3, <2>3, <2>4 DEF OneDialogue
<1>5. CASE ~Submit
  <2>1. Bound' => Bound /\ asker' = asker
        BY <1>5 DEF Bound, Base, LocksExclude, Commanding, CommandStep, Claim, EndRow,
           CommandLocks, MeasureBefore, MeasureAfter, Recount,
           StartContainer, ContainerWrites, NotStarted, RemoveContainer, LeaveCommand, Report,
           RemoveFails, Restart, SweepStep, BeginSweep, SweepLocks, SweepChecks, RemoveScratch,
           SweepSkips, exceptSlot, exceptRow, exceptSweep
  <2>2. sweep' = "removing" => ~pending
    <3>1. CASE SweepChecks BY <3>1 DEF SweepChecks, OneDialogue, Question
    <3>2. CASE ~SweepChecks
      <4>1. sweep' = "removing" => sweep = "removing"
            BY <3>2 DEF CommandStep, Submit, Claim, EndRow, CommandLocks, MeasureBefore, MeasureAfter, Recount,
               StartContainer, ContainerWrites, NotStarted, RemoveContainer, LeaveCommand,
               Report, RemoveFails, Restart, SweepStep, BeginSweep, SweepLocks, RemoveScratch,
               SweepSkips, exceptSlot, exceptRow
      <4>2. QED BY <4>1 DEF OneDialogue, Question
    <3>3. QED BY <3>1, <3>2
  <2>3. Question' BY <1>2, <2>1, <2>2 DEF OneDialogue, Question, Coherent, dialogue
  <2>4. \A q \in Runs : RunDialogue(q)'
        BY <1>1, <1>2, <2>1 DEF OneDialogue, RunDialogue, Coherent, dialogue, work
  <2>5. QED BY <1>3, <2>3, <2>4 DEF OneDialogue
<1>6. QED BY <1>4, <1>5

\* A death keeps the question, the marker and the inputs; the runs end.
LEMMA DialogueDeath ==
    ASSUME Base, OneDialogue, ApiDies \/ WorkerDies
    PROVE  OneDialogue'
<1>1. CASE ApiDies
  <2>1. UNCHANGED <<paused, pending, inputs, turn, job, sweep>>
        BY <1>1 DEF ApiDies, dialogue
  <2>2. \A r \in Runs : pc'[r] \in {"idle", "done"} /\ ~look'[r]
    <3>1. ASSUME NEW r \in Runs PROVE pc'[r] \in {"idle", "done"}
      <4>1. r \in Writers /\ pc[r] \in {"idle", "done"} \cup Live
            BY <3>1 DEF Writers, Base, Placed
      <4>2. pc'[r] = IF Survives(r) THEN pc[r] ELSE "done" BY <1>1, <4>1 DEF ApiDies
      <4>3. QED BY <4>1, <4>2, WhereLocked DEF Survives
    <3>2. \A r \in Runs : ~look'[r] BY <1>1 DEF ApiDies
    <3>3. QED BY <3>1, <3>2
  <2>3. LiveRuns' = {} BY <2>2, WhereLocked DEF LiveRuns
  <2>4. \A r \in Runs : RunDialogue(r)'
        BY <2>2 DEF RunDialogue, Fresh, Putting, Staging, Undoing
  <2>5. Question' BY <2>1 DEF OneDialogue, Question, Coherent, Bound
  <2>6. QED BY <2>3, <2>4, <2>5 DEF OneDialogue
<1>2. CASE WorkerDies
  <2>1. /\ UNCHANGED <<dialogue, work>> /\ sweep' = "dead"
        /\ Bound' => Bound /\ asker' = asker
        BY <1>2 DEF WorkerDies, Bound, Commanding
  <2>2. QED BY <2>1 DEF OneDialogue, Question, RunDialogue, Coherent, dialogue, work, LiveRuns
<1>3. QED BY <1>1, <1>2

\* With one run at a time the dialogue is coherent from the first message on.
LEMMA DialogueHolds ==
    ASSUME Exclusive = TRUE
    PROVE  Spec => []OneDialogue
<1>1. Init => OneDialogue
  <2> SUFFICES ASSUME Init PROVE OneDialogue OBVIOUS
  <2>1. LiveRuns = {} BY WhereLocked DEF Init, LiveRuns, Writers
  <2>2. \A r \in Runs : RunDialogue(r) BY Quiet DEF Init, Writers
  <2>3. Question BY DEF Init, Question, Bound
  <2>4. QED BY <2>1, <2>2, <2>3 DEF OneDialogue
<1>2. Base /\ OneDialogue /\ [Next]_vars => OneDialogue'
  <2> SUFFICES ASSUME Base, OneDialogue, [Next]_vars PROVE OneDialogue' OBVIOUS
  <2>1. CASE UNCHANGED vars
        BY <2>1 DEF vars, dialogue, work, OneDialogue, Question, RunDialogue, Coherent, Bound,
           LiveRuns
  <2>2. ASSUME NEW t \in Tools, ToolStep(t) PROVE OneDialogue'
        BY <2>2, DialogueOther, WritersDisjoint DEF WritersDisjoint
  <2>3. ASSUME NEW s \in Savers, SaverStep(s) PROVE OneDialogue'
        BY <2>3, DialogueOther, WritersDisjoint DEF WritersDisjoint
  <2>4. ASSUME NEW r \in Runs, RunStep(r) PROVE OneDialogue' BY <2>4, DialogueRun
  <2>5. QED BY <2>1, <2>2, <2>3, <2>4, DialogueCommand, DialogueDeath DEF Next
<1>3. QED BY <1>1, <1>2, BaseHolds, PTL DEF Spec

\* With run controls, a container sees the whole inputs of the turn that asked
\* for it, however many runs, resumes, failed stagings and deaths came before,
\* unless its caller ended the row before the slot had its locks.
THEOREM InputsOfTheTurn ==
    ASSUME Exclusive = TRUE
    PROVE  Spec => []TurnInputs
<1>1. OneDialogue => TurnInputs
      BY DEF OneDialogue, Question, Bound, TurnInputs, Commanding
<1>2. QED BY <1>1, DialogueHolds, PTL

\* With run controls, the scratch goes only when no run, no editor and no
\* container works in the conversation and no question waits for its answer,
\* although the marker is written after the question is read.
THEOREM ScratchIsSpared ==
    ASSUME Exclusive = TRUE
    PROVE  Spec => []SweepSpares
<1>1. Base /\ OneDialogue => SweepSpares
      BY DEF Base, LocksExclude, OneDialogue, Question, SweepSpares, Sweeping
<1>2. QED BY <1>1, BaseHolds, DialogueHolds, PTL
=============================================================================
