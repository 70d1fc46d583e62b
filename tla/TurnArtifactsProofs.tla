------------------------ MODULE TurnArtifactsProofs ------------------------
(***************************************************************************)
(* What TurnArtifacts keeps for any specialists, calls, paths, sizes,      *)
(* limits, turns, cancelled runs and restarts.  The invariant has five     *)
(* parts: what the tools hold, the ledger and the accounts of the window,  *)
(* the baselines of the specialists, who is about to bring the latest      *)
(* version of a path, and what the browser has seen.                       *)
(***************************************************************************)
EXTENDS TurnArtifacts, DataTheorems

USE DEF mishaps

Artifacts == [path : Paths \cup {None}, version : Nat, size : Nat, turn : Nat,
              by : Specialists, at : Nat]
Windows == [ids : Seq(Nat), results : Seq(Nat), images : Int, bytes : Int,
            records : Nat, byPath : [Paths -> Nat], undelivered : Nat, omitted : Nat]
Delegates == [working : {"no", "yes", "ended"}, baseline : SUBSET Nat,
              since : [Paths -> Nat]]
Places == {"idle", "held", "running", "reading", "ended"}
Files == [version : 0..MaxWrites, size : Nat]

Typed ==
    /\ stored \in Seq(Artifacts) /\ window \in Windows
    /\ events \in Seq(Nat) /\ live \in Seq(Nat)
    /\ attached \in [1..MaxTurns -> SUBSET Nat]
    /\ file \in [Paths -> Files]
    /\ place \in [Tools -> Places] /\ hold \in [Tools -> Content]
    /\ delegate \in [Specialists -> Delegates]
    /\ reported \in [Specialists -> SUBSET Nat]
    /\ told \subseteq Paths \X Nat /\ lost \subseteq Paths \X Nat /\ astray \subseteq Commands
    /\ phase \in {"idle", "running", "paused", "answered", "finished"}
    /\ turn \in 0..MaxTurns /\ restarted \in BOOLEAN /\ breaks \in 0..MaxBreaks

\* A tool that has written something it must register knows the file; one of
\* the turn that runs has its specialist waiting for it.
Hands ==
    \A t \in Tools :
       /\ IF place[t] \in {"held", "reading"} THEN hold[t].path \in Paths
          ELSE hold[t].path = None
       /\ place[t] = "held" => hold[t].version <= file[hold[t].path].version
       /\ hold[t].turn <= turn
       /\ place[t] # "idle" /\ hold[t].turn = turn =>
             /\ phase \in {"running", "paused"} => Working(OwnerOf[t])
             /\ phase \notin {"answered", "finished"}

Begun == phase # "idle" => turn \in 1..MaxTurns

Base == Typed /\ Hands /\ Begun

ResultsIn(set) == {id \in set : ~IsRecord(id)}
RecordsIn(set) == {id \in set : IsRecord(id)}

\* Ids grow along every list; the window has one result of a path, which the
\* path points to; what is stored is no newer than the file, and what is
\* pending is of this turn.
Ledger ==
    /\ Range(window.ids) \cup Range(events) \cup Range(live) \subseteq Ids
    /\ Increasing(window.ids) /\ Increasing(window.results)
    /\ Increasing(events) /\ Increasing(live)
    /\ \A x \in Range(live), y \in Range(events) : x < y
    /\ Pending = ResultsIn(Range(window.ids))
    /\ \A p \in Paths : window.byPath[p] # 0 =>
          window.byPath[p] \in Pending /\ stored[window.byPath[p]].path = p
    /\ \A id \in Pending : window.byPath[stored[id].path] = id
    /\ \A id \in Ids : ~IsRecord(id) => stored[id].version <= file[stored[id].path].version
    /\ \A id \in Range(window.ids) : stored[id].at = turn

\* What a set of artifacts counts.
Counts ==
    /\ Len(window.ids) = Len(window.results) + Cardinality(RecordsIn(Range(window.ids)))
    /\ window.images = ImagesOf(Pending) /\ window.images <= MaxImages
    /\ window.bytes = BytesOf(Pending) /\ window.bytes <= MaxBytes
    /\ window.records = Cardinality(RecordsIn(Range(window.ids)))
    /\ window.records <= MaxRecords

\* Answers and reports are made of artifacts, answers of those of their turn.
Answers ==
    /\ \A t \in 1..MaxTurns : \A id \in attached[t] : id \in Ids /\ stored[id].at = t
    /\ \A t \in 1..MaxTurns : \A a, b \in attached[t] :
          ~IsRecord(a) /\ stored[a].path = stored[b].path => a = b
    /\ \A s \in Specialists : reported[s] \subseteq Ids

\* What was pending when a specialist began is no newer than the files it found.
Baselines ==
    \A s \in Specialists : \A id \in delegate[s].baseline :
       /\ id \in Ids /\ ~IsRecord(id)
       /\ stored[id].version <= delegate[s].since[stored[id].path]

\* Somebody was told of the latest version of a path, or the result of its
\* command is lost, or a tool that wrote or read it has still to bring it.
Coming(p) ==
    \/ <<p, file[p].version>> \in told \cup lost
    \/ \E t \in Tools : /\ place[t] \in {"held", "reading"} /\ hold[t].path = p
                       /\ hold[t].version = file[p].version
Latest(id) == stored[id].version = file[stored[id].path].version
Overtaken(p) == \E i \in Ids : /\ stored[i].path = p /\ stored[i].version = file[p].version
                               /\ stored[i].at = turn /\ stored[i].turn # turn

\* Who holds a version holds the latest, or it is coming; a result that is
\* pending or answered is the latest, or that one is coming.
Tidings ==
    /\ \A t \in Tools : place[t] = "held" => Coming(hold[t].path)
    /\ \A id \in Pending : Latest(id) \/ Coming(stored[id].path)
    /\ phase \in {"answered", "finished"} => \A id \in ResultsIn(attached[turn]) :
          Latest(id) \/ Coming(stored[id].path) \/ Overtaken(stored[id].path)

\* What was or will be streamed until the response ends.
Seen == IF phase = "finished" THEN Range(live) ELSE Range(live) \cup Range(events)
Superseded(id, set) ==
    ~IsRecord(id) /\ \E a \in set : stored[a].path = stored[id].path /\ id < a

\* The stream shows all that is pending, and besides it only what a later
\* result has replaced; so it is with the answer, but for late threads.
ShownWindow ==
    phase \in {"running", "paused"} /\ ~restarted =>
       /\ Range(window.ids) \subseteq Seen
       /\ \A id \in Seen \ Range(window.ids) : Superseded(id, Pending)
ShownAnswer ==
    phase \in {"answered", "finished"} =>
       /\ attached[turn] \cap Range(window.ids) = {}
       /\ ~restarted =>
             /\ attached[turn] \subseteq Seen
             /\ \A id \in Seen \ attached[turn] :
                   stored[id].turn # turn \/ Superseded(id, attached[turn])
Shown == ShownWindow /\ ShownAnswer

-----------------------------------------------------------------------------
(* The store.                                                              *)

\* Ids are positions.
LEMMA IdsAre == Typed => Ids = 1..Len(stored) /\ Len(stored) \in Nat
                         /\ \A i \in Ids : stored[i] \in Artifacts
BY LenProperties, ElementOfSeq DEF Typed, Ids

\* Nothing stored is lost or changed.
Grows == /\ stored' \in Seq(Artifacts) /\ Ids \subseteq Ids'
         /\ \A i \in Ids : stored'[i] = stored[i]

\* A new artifact is stored, pending and announced; old is withdrawn.
New == Len(stored) + 1
Enters(c, by, old) ==
    /\ stored' \in Seq(Artifacts) /\ Ids' = Ids \cup {New}
    /\ New \in Nat /\ New \notin Ids /\ \A i \in Ids : i < New
    /\ \A i \in Ids : stored'[i] = stored[i]
    /\ stored'[New] = Stored(c, by)
    /\ window' \in Windows /\ events' \in Seq(Nat)
    /\ Range(window.ids)' = (Range(window.ids) \ {old}) \cup {New}
    /\ Range(events)' = (Range(events) \ {old}) \cup {New}
    /\ Increasing(window.ids)' /\ Increasing(events)'

\* What Append does to the artifacts.
LEMMA AppendStored ==
    ASSUME Typed, NEW a \in Artifacts, stored' = Append(stored, a)
    PROVE  /\ stored' \in Seq(Artifacts) /\ Ids' = Ids \cup {New}
           /\ New \in Nat /\ New \notin Ids /\ \A i \in Ids : i < New
           /\ \A i \in Ids : stored'[i] = stored[i]
           /\ stored'[New] = a
<1>1. stored \in Seq(Artifacts) BY DEF Typed
<1>2. Ids = 1..Len(stored) /\ Len(stored) \in Nat BY <1>1, IdsAre
<1>3. /\ stored' \in Seq(Artifacts) /\ Len(stored') = Len(stored) + 1
      /\ \A i \in 1..Len(stored) : stored'[i] = stored[i]
      /\ stored'[Len(stored) + 1] = a
      BY <1>1, AppendProperties
<1>4. Ids' = 1..(Len(stored) + 1) BY <1>3, LenProperties DEF Ids
<1>5. QED BY <1>2, <1>3, <1>4 DEF New

\* What is stored is an artifact.
LEMMA StoredIn ==
    ASSUME Typed, NEW c \in Content, NEW by \in Specialists
    PROVE  Stored(c, by) \in Artifacts
BY ArtifactAssumption DEF Typed, Stored, Content, Artifacts, ArtifactAssumption

\* A result enters the store and takes the place of the one before.
Renews(c) ==
    LET old == Replacing(c)
    IN /\ Pending' = (Pending \ {old}) \cup {New} /\ Increasing(window.results)'
       /\ window.byPath' = [window.byPath EXCEPT ![c.path] = New]
       /\ Len(window.ids)' = (IF old \in Range(window.ids) THEN Len(window.ids) - 1
                              ELSE Len(window.ids)) + 1
       /\ Len(window.results)' = (IF old \in Pending THEN Len(window.results) - 1
                                  ELSE Len(window.results)) + 1
       /\ window.images' = window.images - ImageOf(old) + Image(c)
       /\ window.bytes' = window.bytes - SizeOf(old) + c.size
       /\ window.records' = window.records

\* A result that is registered takes the place of the one it replaces.
LEMMA ResultEnters ==
    ASSUME Typed, Ledger, NEW c \in Content, c.path \in Paths, NEW by \in Specialists,
           RegisterResult(c, by)
    PROVE  Enters(c, by, Replacing(c)) /\ Renews(c)
<1> DEFINE old == Replacing(c)
           ids == RemoveFirst(window.ids, old)
           results == RemoveFirst(window.results, old)
           coming == RemoveFirst(events, old)
<1>1. /\ stored' \in Seq(Artifacts) /\ Ids' = Ids \cup {New}
      /\ New \in Nat /\ New \notin Ids /\ \A i \in Ids : i < New
      /\ \A i \in Ids : stored'[i] = stored[i]
      /\ stored'[New] = Stored(c, by)
  <2>1. stored' = Append(stored, Stored(c, by)) BY DEF RegisterResult
  <2>2. Stored(c, by) \in Artifacts BY StoredIn
  <2>3. QED BY <2>1, <2>2, AppendStored
<1>2. /\ window.ids \in Seq(Nat) /\ window.results \in Seq(Nat) /\ events \in Seq(Nat)
      BY DEF Typed, Windows
<1>3. /\ Increasing(window.ids) /\ Increasing(window.results) /\ Increasing(events)
      /\ Range(window.ids) \subseteq Ids /\ Pending \subseteq Ids /\ Range(events) \subseteq Ids
      BY DEF Ledger, ResultsIn
<1>4. /\ ids \in Seq(Nat) /\ Increasing(ids) /\ Range(ids) = Range(window.ids) \ {old}
      /\ Len(ids) = IF old \in Range(window.ids) THEN Len(window.ids) - 1
                    ELSE Len(window.ids)
      BY <1>2, <1>3, RemoveIncreasing
<1>5. /\ results \in Seq(Nat) /\ Increasing(results) /\ Range(results) = Pending \ {old}
      /\ Len(results) = IF old \in Pending THEN Len(window.results) - 1
                        ELSE Len(window.results)
      BY <1>2, <1>3, RemoveIncreasing DEF Pending
<1>6. coming \in Seq(Nat) /\ Increasing(coming) /\ Range(coming) = Range(events) \ {old}
      BY <1>2, <1>3, RemoveIncreasing
<1>7. /\ window' = Add(Withdraw(window, old), New, c)
      /\ events' = Append(coming, New)
      BY DEF RegisterResult, New
<1>8. /\ window.ids' = Append(ids, New) /\ window.results' = Append(results, New)
      /\ window.images' = window.images - ImageOf(old) + Image(c)
      /\ window.bytes' = window.bytes - SizeOf(old) + c.size
      /\ window.records' = window.records
      /\ window.byPath' = [window.byPath EXCEPT ![c.path] = New]
      /\ window.undelivered' = window.undelivered /\ window.omitted' = window.omitted
      /\ window' = [ids |-> window'.ids, results |-> window'.results,
                    images |-> window'.images, bytes |-> window'.bytes,
                    records |-> window'.records, byPath |-> window'.byPath,
                    undelivered |-> window'.undelivered, omitted |-> window'.omitted]
      BY <1>7 DEF Add, Withdraw, Typed, Windows
<1> HIDE DEF old, ids, results, coming
<1>9. /\ Append(ids, New) \in Seq(Nat) /\ Increasing(Append(ids, New))
      /\ Range(Append(ids, New)) = Range(ids) \cup {New}
      /\ Len(Append(ids, New)) = Len(ids) + 1
      BY <1>1, <1>3, <1>4, AppendIncreasing
<1>10. /\ Append(results, New) \in Seq(Nat) /\ Increasing(Append(results, New))
       /\ Range(Append(results, New)) = Range(results) \cup {New}
       /\ Len(Append(results, New)) = Len(results) + 1
       BY <1>1, <1>3, <1>5, AppendIncreasing
<1>11. /\ Append(coming, New) \in Seq(Nat) /\ Increasing(Append(coming, New))
       /\ Range(Append(coming, New)) = Range(coming) \cup {New}
       BY <1>1, <1>3, <1>6, AppendIncreasing
<1>12. window' \in Windows
  <2>1. /\ window.images \in Int /\ window.bytes \in Int /\ window.records \in Nat
        /\ window.byPath \in [Paths -> Nat] /\ window.undelivered \in Nat
        /\ window.omitted \in Nat
        BY DEF Typed, Windows
  <2>2. c.size \in Nat /\ Image(c) \in Int BY DEF Content, Image
  <2>3. SizeOf(old) \in Int /\ ImageOf(old) \in Int
    <3>1. window.byPath[c.path] # 0 => window.byPath[c.path] \in Ids BY <1>3 DEF Ledger
    <3>2. old # 0 => old \in Ids BY <3>1 DEF old, Replacing
    <3>3. old # 0 => stored[old] \in Artifacts BY <3>2, IdsAre
    <3>4. QED BY <3>3 DEF SizeOf, ImageOf, Image, Artifacts
  <2>4. window.images' \in Int /\ window.bytes' \in Int
    <3>1. \A a, b, d \in Int : a - b + d \in Int OBVIOUS
    <3>2. window.images - ImageOf(old) + Image(c) \in Int BY <2>1, <2>2, <2>3, <3>1
    <3>3. c.size \in Int BY <2>2
    <3>4. window.bytes - SizeOf(old) + c.size \in Int BY <2>1, <2>3, <3>1, <3>3
    <3>5. QED BY <1>8, <3>2, <3>4
  <2>5. window.byPath' \in [Paths -> Nat] BY <1>1, <1>8, <2>1
  <2>6. window'.ids \in Seq(Nat) /\ window'.results \in Seq(Nat) BY <1>8, <1>9, <1>10
  <2>7. QED BY <1>8, <2>1, <2>4, <2>5, <2>6 DEF Windows
<1>13. Enters(c, by, old)
       BY <1>1, <1>4, <1>6, <1>7, <1>8, <1>9, <1>11, <1>12 DEF Enters
<1>14. Renews(c)
  <2>1. Pending' = (Pending \ {old}) \cup {New} /\ Increasing(window.results)'
        BY <1>5, <1>8, <1>10 DEF Pending
  <2>2. /\ Len(window.ids)' = Len(ids) + 1 /\ Len(window.results)' = Len(results) + 1
        BY <1>8, <1>9, <1>10
  <2>3. QED BY <1>4, <1>5, <1>8, <2>1, <2>2 DEF Renews, old
<1>15. QED BY <1>13, <1>14 DEF old

\* A record enters beside the others.
RecordJoins ==
    /\ window.records < MaxRecords /\ window.records' = window.records + 1
    /\ Len(window.ids)' = Len(window.ids) + 1
    /\ window.results' = window.results /\ window.byPath' = window.byPath
    /\ window.images' = window.images /\ window.bytes' = window.bytes

\* A record joins the window, or there is no room and nothing changes.
LEMMA RecordEnters ==
    ASSUME Typed, Ledger, NEW c \in Content, NEW by \in Specialists, RegisterRecord(c, by)
    PROVE  (Enters(c, by, 0) /\ RecordJoins) \/ UNCHANGED store
<1>1. CASE ~(window.records < MaxRecords) BY <1>1 DEF RegisterRecord
<1>2. CASE window.records < MaxRecords
  <2>1. /\ stored' \in Seq(Artifacts) /\ Ids' = Ids \cup {New}
        /\ New \in Nat /\ New \notin Ids /\ \A i \in Ids : i < New
        /\ \A i \in Ids : stored'[i] = stored[i]
        /\ stored'[New] = Stored(c, by)
    <3>1. stored' = Append(stored, Stored(c, by)) BY <1>2 DEF RegisterRecord
    <3>2. Stored(c, by) \in Artifacts BY StoredIn
    <3>3. QED BY <3>1, <3>2, AppendStored
  <2>2. window' = AddRecord(window, New) /\ events' = Append(events, New)
        BY <1>2 DEF RegisterRecord, New
  <2>3. /\ window.ids' = Append(window.ids, New) /\ window.results' = window.results
        /\ window.images' = window.images /\ window.bytes' = window.bytes
        /\ window.records' = window.records + 1 /\ window.byPath' = window.byPath
        BY <2>2 DEF AddRecord, Typed, Windows
  <2>4. /\ window.ids \in Seq(Nat) /\ events \in Seq(Nat)
        /\ Increasing(window.ids) /\ Increasing(events)
        /\ Range(window.ids) \subseteq Ids /\ Range(events) \subseteq Ids
        BY DEF Typed, Windows, Ledger
  <2>5. /\ Append(window.ids, New) \in Seq(Nat) /\ Increasing(Append(window.ids, New))
        /\ Range(Append(window.ids, New)) = Range(window.ids) \cup {New}
        /\ Len(Append(window.ids, New)) = Len(window.ids) + 1
        BY <2>1, <2>4, AppendIncreasing
  <2>6. /\ Append(events, New) \in Seq(Nat) /\ Increasing(Append(events, New))
        /\ Range(Append(events, New)) = Range(events) \cup {New}
        BY <2>1, <2>4, AppendIncreasing
  <2>7. window' \in Windows
    <3>1. window' = [window EXCEPT !.ids = Append(window.ids, New),
                                   !.records = window.records + 1]
          BY <2>2 DEF AddRecord
    <3>2. window.records + 1 \in Nat BY DEF Typed, Windows
    <3> DEFINE ids == Append(window.ids, New)
    <3>3. ids \in Seq(Nat) BY <2>5
    <3> HIDE DEF ids
    <3>4. window' = [window EXCEPT !.ids = ids, !.records = window.records + 1]
          BY <3>1 DEF ids
    <3>5. QED BY <3>2, <3>3, <3>4 DEF Typed, Windows
  <2>8. 0 \notin Range(window.ids) /\ 0 \notin Range(events) BY <2>4, IdsAre
  <2>9. Enters(c, by, 0) BY <2>1, <2>2, <2>3, <2>5, <2>6, <2>7, <2>8 DEF Enters
  <2>10. RecordJoins BY <1>2, <2>3, <2>5 DEF RecordJoins
  <2>11. QED BY <2>9, <2>10
<1>3. QED BY <1>1, <1>2

\* No list of the store changes.
StoreKept ==
    /\ stored' = stored /\ events' = events /\ window' \in Windows
    /\ window.ids' = window.ids /\ window.results' = window.results
    /\ window.byPath' = window.byPath /\ window.images' = window.images
    /\ window.bytes' = window.bytes /\ window.records' = window.records

\* What a tool does to the store: it registers the result it holds, or a record,
\* or nothing; after the answer only for an earlier turn.
Late(c) == phase \in {"answered", "finished"} => c.turn # turn
ResultStep(t, c) ==
    /\ c = hold[t] /\ place[t] = "held" /\ c.path \in Paths /\ Late(c)
    /\ Registers(c) /\ Enters(c, OwnerOf[t], Replacing(c)) /\ Renews(c)
RecordStep(t, c) ==
    /\ c.path = None /\ Late(c) /\ Enters(c, OwnerOf[t], 0) /\ RecordJoins
ToolStore(t) == \/ \E c \in Content : ResultStep(t, c) \/ RecordStep(t, c)
                \/ StoreKept

\* A step that leaves the store alone keeps it.
LEMMA StoreUnchanged == Typed /\ UNCHANGED store => StoreKept
BY DEF Typed, store, StoreKept

\* What a tool holds is a content it may register.
LEMMA ToolRegisters ==
    ASSUME Base, Ledger, NEW t \in Tools, place[t] = "held",
           RegisterResult(hold[t], OwnerOf[t])
    PROVE  ToolStore(t) /\ ResultStep(t, hold[t]) /\ hold[t] \in Content
<1>1. hold[t] \in Content /\ OwnerOf[t] \in Specialists
      BY ArtifactAssumption DEF Base, Typed, ArtifactAssumption
<1>2. hold[t].path \in Paths BY DEF Base, Hands
<1>3. Late(hold[t]) BY DEF Base, Hands, Late
<1>4. Enters(hold[t], OwnerOf[t], Replacing(hold[t])) /\ Renews(hold[t])
      BY <1>1, <1>2, ResultEnters DEF Base
<1>5. Registers(hold[t]) BY DEF RegisterResult
<1>6. ResultStep(t, hold[t]) BY <1>2, <1>3, <1>4, <1>5 DEF ResultStep
<1>7. QED BY <1>1, <1>6 DEF ToolStore

\* A command's record is registered as one of its own turn.
LEMMA ToolRecords ==
    ASSUME Base, Ledger, NEW t \in Tools, NEW n \in 0..turn,
           phase \in {"answered", "finished"} => n # turn,
           RegisterRecord([NoHold EXCEPT !.turn = n], OwnerOf[t])
    PROVE  ToolStore(t)
<1> DEFINE c == [NoHold EXCEPT !.turn = n]
<1>1. OwnerOf[t] \in Specialists BY ArtifactAssumption DEF ArtifactAssumption
<1>2. n \in Nat BY DEF Base, Typed
<1>3. c \in Content /\ c.path = None /\ c.turn = n BY <1>2 DEF NoHold, Content
<1> HIDE DEF c
<1>4. RegisterRecord(c, OwnerOf[t]) BY DEF c
<1>5. (Enters(c, OwnerOf[t], 0) /\ RecordJoins) \/ UNCHANGED store
      BY <1>1, <1>3, <1>4, RecordEnters DEF Base
<1>6. Enters(c, OwnerOf[t], 0) /\ RecordJoins => RecordStep(t, c)
      BY <1>3 DEF RecordStep, Late
<1>7. QED BY <1>3, <1>5, <1>6, StoreUnchanged DEF ToolStore, Base

\* A note that something was not delivered keeps the store.
LEMMA ToolNotes ==
    ASSUME Typed, NoteUndelivered
    PROVE  StoreKept
<1>1. window.undelivered + 1 \in Nat /\ window.omitted + 1 \in Nat BY DEF Typed, Windows
<1>2. \/ window' = [window EXCEPT !.undelivered = window.undelivered + 1]
      \/ window' = [window EXCEPT !.omitted = window.omitted + 1]
      BY DEF NoteUndelivered
<1>3. QED BY <1>1, <1>2 DEF NoteUndelivered, StoreKept, Typed, Windows

\* Whatever a tool does, it registers one artifact or keeps the store.
LEMMA ToolStores ==
    ASSUME Base, Ledger, NEW t \in Tools, ToolStep(t)
    PROVE  ToolStore(t)
<1>1. CASE \E p \in Paths : \E size \in SizesOf[p] : t \in Writers /\ Write(t, p, size)
      BY <1>1, StoreUnchanged DEF Write, ToolStore, Base
<1>2. CASE Publish(t)
  <2>1. place[t] = "held" BY <1>2 DEF Publish, Move
  <2>2. CASE RegisterResult(hold[t], OwnerOf[t]) BY <2>1, <2>2, ToolRegisters
  <2>3. CASE NoteUndelivered BY <2>3, ToolNotes DEF Base, ToolStore
  <2>4. QED BY <1>2, <2>2, <2>3 DEF Publish
<1>3. CASE StartCommand(t)
  <2>1. RegisterRecord([NoHold EXCEPT !.turn = turn], OwnerOf[t]) /\ phase = "running"
        BY <1>3 DEF StartCommand, MayCall
  <2>2. turn \in 0..turn BY DEF Base, Typed
  <2>3. QED BY <2>1, <2>2, ToolRecords
<1>4. CASE CommandRuns(t) BY <1>4, StoreUnchanged DEF CommandRuns, ToolStore, Base
<1>5. CASE Collect(t) BY <1>5, StoreUnchanged DEF Collect, ToolStore, Base
<1>6. CASE Attach(t)
  <2>1. place[t] = "held" BY <1>6 DEF Attach, Move
  <2>2. CASE RegisterResult(hold[t], OwnerOf[t]) BY <2>1, <2>2, ToolRegisters
  <2>3. CASE UNCHANGED store BY <2>3, StoreUnchanged DEF Base, ToolStore
  <2>4. QED BY <1>6, <2>2, <2>3 DEF Attach
<1>7. CASE EndCommand(t)
  <2>1. place[t] = "ended" BY <1>7 DEF EndCommand, Move
  <2>2. hold[t].turn \in 0..turn BY DEF Base, Typed, Content, Hands
  <2>3. phase \in {"answered", "finished"} => hold[t].turn # turn
        BY <2>1 DEF Base, Hands
  <2>4. CASE RegisterRecord([NoHold EXCEPT !.turn = hold[t].turn], OwnerOf[t])
        BY <2>2, <2>3, <2>4, ToolRecords
  <2>5. CASE UNCHANGED store BY <2>5, StoreUnchanged DEF Base, ToolStore
  <2>6. QED BY <1>7, <2>4, <2>5 DEF EndCommand
<1>8. CASE CallGivesUp(t) \/ StrayRuns(t) \/ ResultLost(t)
      BY <1>8, StoreUnchanged DEF CallGivesUp, StrayRuns, ResultLost, ToolStore, Base
<1>9. QED BY <1>1, <1>2, <1>3, <1>4, <1>5, <1>6, <1>7, <1>8 DEF ToolStep

\* Whatever a tool does, the store keeps its type.
LEMMA ToolStoreTyped ==
    ASSUME Base, NEW t \in Tools, ToolStore(t)
    PROVE  stored' \in Seq(Artifacts) /\ window' \in Windows /\ events' \in Seq(Nat)
BY DEF ToolStore, ResultStep, RecordStep, Enters, StoreKept, Base, Typed

-----------------------------------------------------------------------------
(* Types and hands.                                                        *)

\* A write makes a version of its path, within the bound.
LEMMA PutFileMakes ==
    ASSUME Typed, NEW p \in Paths, NEW size \in SizesOf[p], PutFile(p, size)
    PROVE  /\ file' \in [Paths -> Files]
           /\ file'[p].version = file[p].version + 1
           /\ \A q \in Paths : q # p => file'[q] = file[q]
           /\ \A q \in Paths : file[q].version <= file'[q].version
<1> DEFINE f == [q \in Paths |-> file[q].version]
<1>1. \A q \in Paths : file[q] \in Files BY DEF Typed
<1>2. \A q \in Paths : file[q].version \in Nat BY <1>1, ArtifactAssumption DEF Files
<1>3. \A q \in Paths : f[q] \in Nat BY <1>2
<1>4. DOMAIN f = Paths /\ f[p] = file[p].version OBVIOUS
<1>5. SumFunction(f) < MaxWrites BY DEF PutFile
<1> HIDE DEF f
<1>6. f[p] <= SumFunctionOnSet(f, Paths) /\ SumFunctionOnSet(f, Paths) \in Int
      BY <1>3, SumCovers, SumTakes, ArtifactAssumption DEF ArtifactAssumption
<1>7. MaxWrites \in Nat /\ size \in Nat BY ArtifactAssumption DEF ArtifactAssumption
<1>8. file[p].version + 1 \in 0..MaxWrites
      BY <1>2, <1>4, <1>5, <1>6, <1>7 DEF SumFunction
<1>9. file' = [file EXCEPT ![p] = [version |-> file[p].version + 1, size |-> size]]
      BY DEF PutFile
<1>10. file \in [Paths -> Files] BY DEF Typed
<1>11. [version |-> file[p].version + 1, size |-> size] \in Files BY <1>7, <1>8 DEF Files
<1>12. QED BY <1>2, <1>9, <1>10, <1>11

\* What a tool leaves alone.
ToolKeeps == UNCHANGED <<live, attached, delegation, conversation>>

\* A tool goes to a place with what it holds there.
Takes(t, to, c) ==
    /\ place' = [place EXCEPT ![t] = to] /\ hold' = [hold EXCEPT ![t] = c]
    /\ \/ c.turn = hold[t].turn
       \/ c.turn = turn /\ MayCall(t)
       \/ to = "idle" /\ c.turn = 0
    /\ place[t] = "idle" /\ to # "idle" => MayCall(t) /\ c.turn = turn
    /\ IF to \in {"held", "reading"} THEN c.path \in Paths ELSE c.path = None
    /\ to = "held" => c.version <= file'[c.path].version

\* A path may have a new version, and somebody may be told of one, or it is lost.
Versions == /\ file' \in [Paths -> Files] /\ told' \subseteq Paths \X Nat
            /\ lost' \subseteq Paths \X Nat /\ astray' \subseteq Commands
            /\ \A q \in Paths : file[q].version <= file'[q].version
            /\ told \subseteq told' /\ lost \subseteq lost'

ToolMove(t) == /\ ToolKeeps /\ Versions
               /\ \E to \in Places, c \in Content : Takes(t, to, c)

\* Versions do not go back when no file is written.
LEMMA FilesKept == Typed /\ file' = file /\ told' = told /\ mishaps' = mishaps => Versions
<1>1. Typed => \A q \in Paths : file[q].version \in Int
      BY ArtifactAssumption DEF Typed, Files, ArtifactAssumption
<1>2. QED BY <1>1 DEF Typed, Versions

\* Every action of a tool is such a move.
LEMMA ToolMoves ==
    ASSUME Base, NEW t \in Tools, ToolStep(t)
    PROVE  ToolMove(t)
<1>1. /\ place \in [Tools -> Places] /\ hold \in [Tools -> Content]
      /\ file \in [Paths -> Files] /\ told \subseteq Paths \X Nat /\ turn \in Nat
      /\ lost \subseteq Paths \X Nat /\ astray \subseteq Commands
      BY DEF Base, Typed
<1>2. /\ hold[t] \in Content /\ place[t] \in Places
      /\ \A q \in Paths : /\ file[q] \in Files /\ file[q].version \in Nat
                          /\ file[q].size \in Nat /\ q # None
      BY <1>1, ArtifactAssumption DEF Files, ArtifactAssumption
<1>3. Places = {"idle", "held", "running", "reading", "ended"} BY DEF Places
<1>4. CASE \E p \in Paths : \E size \in SizesOf[p] : t \in Writers /\ Write(t, p, size)
  <2>1. PICK p \in Paths : \E size \in SizesOf[p] : Write(t, p, size) BY <1>4
  <2>2. PICK size \in SizesOf[p] : Write(t, p, size) BY <2>1
  <2>3. /\ MayCall(t) /\ PutFile(p, size) /\ place[t] = "idle"
        /\ place' = [place EXCEPT ![t] = "held"] /\ hold' = [hold EXCEPT ![t] = Held(p)]
        /\ told' = told /\ mishaps' = mishaps /\ ToolKeeps
        BY <2>2 DEF Write, Move, ToolKeeps
  <2>4. /\ file' \in [Paths -> Files]
        /\ \A q \in Paths : file[q].version <= file'[q].version
        BY <2>3, PutFileMakes DEF Base
  <2>5. Versions BY <1>1, <2>3, <2>4 DEF Versions
  <2>6. file'[p] \in Files /\ file'[p].version \in Nat /\ file'[p].size \in Nat
        BY <2>4, ArtifactAssumption DEF Files
  <2>7. Held(p) \in Content /\ Held(p).path = p /\ Held(p).turn = turn
        /\ Held(p).version <= file'[p].version
        BY <1>1, <2>6 DEF Held, Content
  <2>8. Takes(t, "held", Held(p)) BY <2>3, <2>7 DEF Takes
  <2>9. QED BY <1>3, <2>3, <2>5, <2>7, <2>8 DEF ToolMove
<1>5. CASE Publish(t)
  <2>1. /\ place[t] = "held" /\ place' = [place EXCEPT ![t] = "idle"]
        /\ hold' = [hold EXCEPT ![t] = NoHold] /\ file' = file /\ mishaps' = mishaps /\ ToolKeeps
        BY <1>5 DEF Publish, Move, ToolKeeps
  <2>2. NoHold \in Content /\ NoHold.path = None /\ NoHold.turn = 0 BY DEF NoHold, Content
  <2>3. hold[t].path \in Paths /\ hold[t].version \in Nat BY <1>2, <2>1 DEF Base, Hands, Content
  <2>4. told' = told \/ told' = told \cup {<<hold[t].path, hold[t].version>>}
        BY <1>5 DEF Publish
  <2>5. Versions BY <1>1, <1>2, <2>1, <2>3, <2>4 DEF Versions
  <2>6. Takes(t, "idle", NoHold) BY <2>1, <2>2 DEF Takes
  <2>7. QED BY <1>3, <2>1, <2>2, <2>5, <2>6 DEF ToolMove
<1>6. CASE StartCommand(t)
  <2> DEFINE c == [hold[t] EXCEPT !.turn = turn]
  <2>1. /\ MayCall(t) /\ place[t] = "idle" /\ place' = [place EXCEPT ![t] = "running"]
        /\ hold' = [hold EXCEPT ![t] = c] /\ file' = file /\ told' = told /\ mishaps' = mishaps /\ ToolKeeps
        BY <1>6 DEF StartCommand, Move, ToolKeeps
  <2>2. hold[t].path = None BY <2>1 DEF Base, Hands
  <2>3. c \in Content /\ c.path = None /\ c.turn = turn
        BY <1>1, <1>2, <2>2 DEF Content
  <2> HIDE DEF c
  <2>4. Takes(t, "running", c) BY <2>1, <2>3 DEF Takes
  <2>5. QED BY <1>3, <2>1, <2>3, <2>4, FilesKept DEF ToolMove, Base
<1>7. CASE CommandRuns(t)
  <2>1. place[t] = "running" /\ hold[t].path = None /\ told' = told /\ mishaps' = mishaps /\ ToolKeeps
        BY <1>7 DEF CommandRuns, ToolKeeps, Base, Hands
  <2>2. ASSUME NEW p \in Paths, NEW size \in SizesOf[p], PutFile(p, size),
               hold' = [hold EXCEPT ![t] = [Held(p) EXCEPT !.turn = hold[t].turn]],
               Move(t, "running", "reading")
        PROVE  ToolMove(t)
    <3> DEFINE c == [Held(p) EXCEPT !.turn = hold[t].turn]
    <3>1. /\ file' \in [Paths -> Files]
          /\ \A q \in Paths : file[q].version <= file'[q].version
          BY <2>2, PutFileMakes DEF Base
    <3>2. Versions BY <1>1, <2>1, <3>1 DEF Versions
    <3>3. /\ hold' = [hold EXCEPT ![t] = c] /\ place' = [place EXCEPT ![t] = "reading"]
          BY <2>2 DEF Move
    <3>4. file'[p] \in Files /\ file'[p].version \in Nat /\ file'[p].size \in Nat
          BY <3>1, ArtifactAssumption DEF Files
    <3>5. c \in Content /\ c.path = p /\ c.turn = hold[t].turn
          BY <1>2, <3>4 DEF Content, Held
    <3> HIDE DEF c
    <3>6. Takes(t, "reading", c) BY <2>1, <3>3, <3>5 DEF Takes
    <3>7. QED BY <1>3, <2>1, <3>2, <3>5, <3>6 DEF ToolMove
  <2>3. CASE Move(t, "running", "ended") /\ UNCHANGED <<file, hold>>
    <3>1. hold' = [hold EXCEPT ![t] = hold[t]] /\ place' = [place EXCEPT ![t] = "ended"]
          BY <1>1, <2>3 DEF Move
    <3>2. Takes(t, "ended", hold[t]) BY <2>1, <3>1 DEF Takes
    <3>3. QED BY <1>2, <1>3, <2>1, <2>3, <3>2, FilesKept DEF ToolMove, Base
  <2>4. QED BY <1>7, <2>2, <2>3 DEF CommandRuns
<1>8. CASE Collect(t)
  <2> DEFINE p == hold[t].path
  <2>1. place[t] = "reading" /\ p \in Paths /\ file' = file /\ mishaps' = mishaps /\ ToolKeeps
        BY <1>8 DEF Collect, ToolKeeps, Base, Hands
  <2>2. CASE /\ Move(t, "reading", "held")
             /\ hold' = [hold EXCEPT ![t] = [path |-> p, version |-> file[p].version,
                             size |-> file[p].size, turn |-> @.turn]]
             /\ told' = told
    <3> DEFINE c == [path |-> p, version |-> file[p].version,
                     size |-> file[p].size, turn |-> hold[t].turn]
    <3>1. hold' = [hold EXCEPT ![t] = c] /\ place' = [place EXCEPT ![t] = "held"]
          BY <1>1, <2>2 DEF Move
    <3>2. c \in Content /\ c.path = p /\ c.turn = hold[t].turn /\ c.version = file[p].version
          BY <1>2, <2>1 DEF Content
    <3> HIDE DEF c, p
    <3>3. file'[p].version <= file'[p].version BY <1>2, <2>1
    <3>4. Takes(t, "held", c) BY <2>1, <3>1, <3>2, <3>3 DEF Takes
    <3>5. QED BY <1>3, <2>1, <2>2, <3>2, <3>4, FilesKept DEF ToolMove, Base
  <2>3. CASE /\ Move(t, "reading", "ended")
             /\ hold' = [hold EXCEPT ![t].path = None]
             /\ told' = told \cup {<<p, file[p].version>>}
    <3> DEFINE c == [hold[t] EXCEPT !.path = None]
    <3>1. hold' = [hold EXCEPT ![t] = c] /\ place' = [place EXCEPT ![t] = "ended"]
          BY <2>3 DEF Move
    <3>2. c \in Content /\ c.path = None /\ c.turn = hold[t].turn BY <1>2 DEF Content
    <3> HIDE DEF c, p
    <3>3. Takes(t, "ended", c) BY <2>1, <3>1, <3>2 DEF Takes
    <3>4. Versions BY <1>1, <1>2, <2>1, <2>3 DEF Versions
    <3>5. QED BY <1>3, <2>1, <3>2, <3>3, <3>4 DEF ToolMove
  <2>4. QED BY <1>8, <2>2, <2>3 DEF Collect
<1>9. CASE Attach(t)
  <2> DEFINE c == [hold[t] EXCEPT !.path = None]
  <2>1. /\ place[t] = "held" /\ place' = [place EXCEPT ![t] = "ended"]
        /\ hold' = [hold EXCEPT ![t] = c] /\ file' = file /\ mishaps' = mishaps /\ ToolKeeps
        BY <1>9 DEF Attach, Move, ToolKeeps
  <2>2. c \in Content /\ c.path = None /\ c.turn = hold[t].turn BY <1>2 DEF Content
  <2>3. hold[t].path \in Paths /\ hold[t].version \in Nat BY <1>2, <2>1 DEF Base, Hands, Content
  <2>4. told' = told \/ told' = told \cup {<<hold[t].path, hold[t].version>>}
        BY <1>9 DEF Attach
  <2>5. Versions BY <1>1, <1>2, <2>1, <2>3, <2>4 DEF Versions
  <2> HIDE DEF c
  <2>6. Takes(t, "ended", c) BY <2>1, <2>2 DEF Takes
  <2>7. QED BY <1>3, <2>1, <2>2, <2>5, <2>6 DEF ToolMove
<1>10. CASE EndCommand(t)
  <2>1. /\ place[t] = "ended" /\ place' = [place EXCEPT ![t] = "idle"]
        /\ hold' = [hold EXCEPT ![t] = NoHold] /\ file' = file /\ told' = told /\ mishaps' = mishaps /\ ToolKeeps
        BY <1>10 DEF EndCommand, Move, ToolKeeps
  <2>2. NoHold \in Content /\ NoHold.path = None /\ NoHold.turn = 0 BY DEF NoHold, Content
  <2>3. Takes(t, "idle", NoHold) BY <2>1, <2>2 DEF Takes
  <2>4. QED BY <1>3, <2>1, <2>2, <2>3, FilesKept DEF ToolMove, Base
<1>11. CASE CallGivesUp(t)
  <2>1. /\ place[t] = "running" /\ place' = [place EXCEPT ![t] = "ended"]
        /\ hold' = hold /\ file' = file /\ told' = told /\ lost' = lost
        /\ astray' = astray \cup {t} /\ ToolKeeps
        BY <1>11 DEF CallGivesUp, Move, ToolKeeps
  <2>2. t \in Commands BY <1>11 DEF CallGivesUp
  <2>3. Versions BY <1>1, <1>2, <2>1, <2>2 DEF Versions
  <2>4. hold[t].path = None BY <2>1 DEF Base, Hands
  <2>5. hold' = [hold EXCEPT ![t] = hold[t]] BY <1>1, <2>1
  <2>6. Takes(t, "ended", hold[t]) BY <2>1, <2>4, <2>5 DEF Takes
  <2>7. QED BY <1>2, <1>3, <2>1, <2>3, <2>6 DEF ToolMove
<1>12. CASE StrayRuns(t)
  <2>1. PICK p \in Paths : \E size \in SizesOf[p] :
           PutFile(p, size) /\ lost' = lost \cup {<<p, file'[p].version>>}
        BY <1>12 DEF StrayRuns
  <2>2. /\ place' = place /\ hold' = hold /\ told' = told /\ astray' = astray /\ ToolKeeps
        BY <1>12 DEF StrayRuns, ToolKeeps
  <2>3. /\ file' \in [Paths -> Files]
        /\ \A q \in Paths : file[q].version <= file'[q].version
        BY <2>1, PutFileMakes DEF Base
  <2>4. file'[p].version \in Nat BY <2>3, ArtifactAssumption DEF Files
  <2>5. Versions BY <1>1, <2>1, <2>2, <2>3, <2>4 DEF Versions
  <2>6. place' = [place EXCEPT ![t] = place[t]] /\ hold' = [hold EXCEPT ![t] = hold[t]]
        BY <1>1, <2>2
  <2>7. IF place[t] \in {"held", "reading"} THEN hold[t].path \in Paths
        ELSE hold[t].path = None
        BY DEF Base, Hands
  <2>8. place[t] = "held" => hold[t].version <= file'[hold[t].path].version
    <3> HAVE place[t] = "held"
    <3>1. hold[t].path \in Paths /\ hold[t].version <= file[hold[t].path].version
          BY DEF Base, Hands
    <3>2. /\ hold[t].version \in Nat /\ file[hold[t].path].version \in Nat
          /\ file'[hold[t].path].version \in Nat
          BY <1>2, <2>3, <3>1, ArtifactAssumption DEF Content, Files
    <3>3. file[hold[t].path].version <= file'[hold[t].path].version BY <2>3, <3>1
    <3>4. QED BY <3>1, <3>2, <3>3
  <2>9. Takes(t, place[t], hold[t]) BY <2>6, <2>7, <2>8 DEF Takes
  <2>10. QED BY <1>2, <2>2, <2>5, <2>9 DEF ToolMove
<1>13. CASE ResultLost(t)
  <2> DEFINE c == [hold[t] EXCEPT !.path = None]
  <2>1. /\ place[t] \in {"reading", "held"} /\ place' = [place EXCEPT ![t] = "ended"]
        /\ hold' = [hold EXCEPT ![t] = c] /\ file' = file /\ told' = told
        /\ lost' = lost \cup {<<hold[t].path, hold[t].version>>}
        /\ astray' = astray /\ ToolKeeps
        BY <1>13 DEF ResultLost, Move, ToolKeeps
  <2>2. c \in Content /\ c.path = None /\ c.turn = hold[t].turn BY <1>2 DEF Content
  <2>3. hold[t].path \in Paths /\ hold[t].version \in Nat BY <1>2, <2>1 DEF Base, Hands, Content
  <2>4. Versions BY <1>1, <1>2, <2>1, <2>3 DEF Versions
  <2> HIDE DEF c
  <2>5. Takes(t, "ended", c) BY <2>1, <2>2 DEF Takes
  <2>6. QED BY <1>3, <2>1, <2>2, <2>4, <2>5 DEF ToolMove
<1>14. QED BY <1>4, <1>5, <1>6, <1>7, <1>8, <1>9, <1>10, <1>11, <1>12, <1>13 DEF ToolStep

\* So a tool keeps types and hands.
LEMMA ToolBase ==
    ASSUME Base, Ledger, NEW t \in Tools, ToolStep(t)
    PROVE  Base'
<1>1. ToolKeeps /\ Versions BY ToolMoves DEF ToolMove
<1>2. PICK to \in Places, c \in Content : Takes(t, to, c) BY ToolMoves DEF ToolMove
<1>3. stored' \in Seq(Artifacts) /\ window' \in Windows /\ events' \in Seq(Nat)
      BY ToolStores, ToolStoreTyped
<1>4. /\ place' = [place EXCEPT ![t] = to] /\ hold' = [hold EXCEPT ![t] = c]
      BY <1>2 DEF Takes
<1>5. place' \in [Tools -> Places] /\ hold' \in [Tools -> Content]
      BY <1>4 DEF Base, Typed
<1>6. Typed'
      BY <1>1, <1>3, <1>5 DEF Base, Typed, ToolKeeps, Versions, delegation, conversation
<1>7. Begun' BY <1>1 DEF Base, Begun, ToolKeeps, conversation
<1>8. Hands'
  <2>1. /\ phase' = phase /\ turn' = turn /\ delegate' = delegate
        BY <1>1 DEF ToolKeeps, conversation, delegation
  <2>2. \A s \in Specialists : Working(s)' = Working(s) BY <2>1 DEF Working
  <2>3. \A u \in Tools : OwnerOf[u] \in Specialists
        BY ArtifactAssumption DEF ArtifactAssumption
  <2>4. turn \in Nat BY DEF Base, Typed
  <2> SUFFICES ASSUME NEW u \in Tools
               PROVE  /\ IF place'[u] \in {"held", "reading"} THEN hold'[u].path \in Paths
                         ELSE hold'[u].path = None
                      /\ place'[u] = "held" => hold'[u].version <= file'[hold'[u].path].version
                      /\ hold'[u].turn <= turn
                      /\ place'[u] # "idle" /\ hold'[u].turn = turn =>
                            /\ phase \in {"running", "paused"} => Working(OwnerOf[u])
                            /\ phase \notin {"answered", "finished"}
      BY <2>1, <2>2, <2>3 DEF Hands
  <2>5. CASE u # t
    <3>1. place'[u] = place[u] /\ hold'[u] = hold[u] BY <1>4, <2>5 DEF Base, Typed
    <3>2. place[u] = "held" => hold'[u].version <= file'[hold[u].path].version
      <4> HAVE place[u] = "held"
      <4>1. hold[u].path \in Paths /\ hold[u].version <= file[hold[u].path].version
            BY DEF Base, Hands
      <4>2. file[hold[u].path].version <= file'[hold[u].path].version
            BY <1>1, <4>1 DEF Versions
      <4>3. /\ hold[u] \in Content /\ file[hold[u].path] \in Files
            /\ file'[hold[u].path] \in Files
            BY <1>1, <4>1 DEF Base, Typed, Versions
      <4>4. /\ hold[u].version \in Nat /\ file[hold[u].path].version \in Nat
            /\ file'[hold[u].path].version \in Nat
            BY <4>3, ArtifactAssumption DEF Content, Files
      <4>5. QED BY <3>1, <4>1, <4>2, <4>4
    <3>3. QED BY <3>1, <3>2 DEF Base, Hands
  <2>6. CASE u = t
    <3>1. place'[u] = to /\ hold'[u] = c BY <1>4, <2>6 DEF Base, Typed
    <3>2. /\ IF to \in {"held", "reading"} THEN c.path \in Paths ELSE c.path = None
          /\ to = "held" => c.version <= file'[c.path].version
          BY <1>2 DEF Takes
    <3>3. \/ c.turn = hold[t].turn
          \/ c.turn = turn /\ MayCall(t)
          \/ to = "idle" /\ c.turn = 0
          BY <1>2 DEF Takes
    <3>4. place[t] = "idle" /\ to # "idle" => MayCall(t) BY <1>2 DEF Takes
    <3>5. hold[t].turn <= turn BY DEF Base, Hands
    <3>6. c.turn <= turn BY <2>4, <3>3, <3>5
    <3>7. MayCall(t) => /\ Working(OwnerOf[t]) /\ phase = "running"
          BY DEF MayCall
    <3>8. to # "idle" /\ c.turn = turn =>
             /\ phase \in {"running", "paused"} => Working(OwnerOf[t])
             /\ phase \notin {"answered", "finished"}
          BY <3>3, <3>4, <3>7 DEF Base, Hands
    <3>9. QED BY <2>6, <3>1, <3>2, <3>6, <3>8
  <2>7. QED BY <2>5, <2>6
<1>9. QED BY <1>6, <1>7, <1>8 DEF Base

\* The empty window, and the empty hands.
LEMMA EmptyTyped ==
    /\ EmptyWindow \in Windows /\ EmptyWindow.ids = <<>> /\ EmptyWindow.results = <<>>
    /\ <<>> \in Seq(Nat) /\ Range(<<>>) = {} /\ NoHold \in Content
    /\ NoHold.path = None /\ NoHold.turn = 0
<1>1. <<>> \in Seq(Nat) OBVIOUS
<1>2. Range(<<>>) = {} BY DEF Range
<1>3. [p \in Paths |-> 0] \in [Paths -> Nat] OBVIOUS
<1>4. QED BY <1>1, <1>2, <1>3 DEF EmptyWindow, Windows, NoHold, Content

\* A specialist that does nothing has no baseline.
LEMMA OffTyped == Off \in Delegates /\ Off.working = "no" /\ Off.baseline = {}
<1>1. [p \in Paths |-> 0] \in [Paths -> Nat] OBVIOUS
<1>2. QED BY <1>1 DEF Off, Delegates

\* What was streamed goes on with the events.
LEMMA LiveTyped == Typed => live \o events \in Seq(Nat)
BY ConcatProperties DEF Typed

\* In the beginning nobody holds anything.
LEMMA BaseInit == Init => Base
<1> SUFFICES ASSUME Init PROVE Base OBVIOUS
<1>1. MaxTurns \in Nat /\ MaxBreaks \in Nat /\ MaxWrites \in Nat
      BY ArtifactAssumption DEF ArtifactAssumption
<1>2. <<>> \in Seq(Artifacts) OBVIOUS
<1>3. Typed
  <2>1. [version |-> 0, size |-> 0] \in Files BY <1>1 DEF Files
  <2>2. file \in [Paths -> Files] BY <2>1 DEF Init
  <2>3. attached \in [1..MaxTurns -> SUBSET Nat] BY DEF Init
  <2>4. delegate \in [Specialists -> Delegates] /\ reported \in [Specialists -> SUBSET Nat]
        BY OffTyped DEF Init
  <2>5. place \in [Tools -> Places] /\ hold \in [Tools -> Content]
        BY EmptyTyped DEF Init, Places
  <2>6. /\ phase = "idle" /\ turn \in 0..MaxTurns /\ breaks \in 0..MaxBreaks
        /\ told = {} /\ lost = {} /\ astray = {}
        BY <1>1 DEF Init
  <2>7. stored \in Seq(Artifacts) /\ window \in Windows /\ events \in Seq(Nat) /\ live \in Seq(Nat)
        BY <1>2, EmptyTyped DEF Init
  <2>8. restarted \in BOOLEAN BY DEF Init
  <2>9. QED BY <2>2, <2>3, <2>4, <2>5, <2>6, <2>7, <2>8 DEF Typed
<1>4. Hands BY EmptyTyped DEF Init, Hands
<1>5. Begun BY DEF Init, Begun
<1>6. QED BY <1>3, <1>4, <1>5 DEF Base

\* A specialist begins, or ends when its tools have.
LEMMA SpecialistBase ==
    ASSUME Base, NEW s \in Specialists, StartSpecialist(s) \/ EndSpecialist(s)
    PROVE  Base'
<1>1. /\ phase = "running" /\ phase' = phase /\ turn' = turn /\ UNCHANGED tools
      /\ UNCHANGED <<store, live, attached, restarted, breaks>>
      BY DEF StartSpecialist, EndSpecialist, conversation
<1>2. Pending \subseteq Nat
  <2>1. window.results \in Seq(Nat) BY DEF Base, Typed, Windows
  <2>2. QED BY <2>1, ElementOfSeq, LenProperties DEF Pending, Range
<1>3. delegate' \in [Specialists -> Delegates]
  <2>1. CASE StartSpecialist(s)
    <3> DEFINE d == [working |-> "yes", baseline |-> Pending,
                     since |-> [p \in Paths |-> file[p].version]]
    <3>1. [p \in Paths |-> file[p].version] \in [Paths -> Nat]
      <4>1. \A p \in Paths : file[p].version \in Nat
            BY ArtifactAssumption DEF Base, Typed, Files
      <4>2. QED BY <4>1
    <3>2. d \in Delegates BY <1>2, <3>1 DEF Delegates
    <3>3. delegate' = [delegate EXCEPT ![s] = d] BY <2>1 DEF StartSpecialist
    <3> HIDE DEF d
    <3>4. QED BY <3>2, <3>3 DEF Base, Typed
  <2>2. CASE EndSpecialist(s)
    <3>1. [Off EXCEPT !.working = "ended"] \in Delegates BY OffTyped DEF Delegates
    <3>2. QED BY <2>2, <3>1 DEF EndSpecialist, Base, Typed
  <2>3. QED BY <2>1, <2>2
<1>4. reported' \in [Specialists -> SUBSET Nat]
      BY <1>2 DEF StartSpecialist, EndSpecialist, Base, Typed
<1>5. Typed' BY <1>1, <1>3, <1>4 DEF Base, Typed, store, tools
<1>6. Hands'
  <2>1. UNCHANGED <<place, hold, file, phase, turn>> BY <1>1 DEF tools
  <2>2. \A r \in Specialists : r # s => delegate'[r] = delegate[r]
        BY DEF StartSpecialist, EndSpecialist, Base, Typed
  <2>3. ASSUME NEW t \in Tools, place[t] # "idle", hold[t].turn = turn
        PROVE  Working(OwnerOf[t])'
    <3>1. OwnerOf[t] \in Specialists BY ArtifactAssumption DEF ArtifactAssumption
    <3>2. Working(OwnerOf[t]) BY <1>1, <2>3 DEF Base, Hands
    <3>3. OwnerOf[t] # s
      <4>1. CASE StartSpecialist(s) BY <3>2, <4>1 DEF StartSpecialist, Working
      <4>2. CASE EndSpecialist(s) BY <2>3, <4>2 DEF EndSpecialist, QuietTools
      <4>3. QED BY <4>1, <4>2
    <3>4. QED BY <2>2, <3>1, <3>2, <3>3 DEF Working
  <2>4. QED BY <1>1, <2>1, <2>3 DEF Base, Hands
<1>7. Begun' BY <1>1 DEF Base, Begun
<1>8. QED BY <1>5, <1>6, <1>7 DEF Base

\* The turn goes its way.
LEMMA TurnBase ==
    ASSUME Base,
           BeginTurn \/ Drain \/ Pause \/ Resume \/ Claim \/ Finish \/ Abort \/ Restart
    PROVE  Base'
<1>1. /\ turn \in 0..MaxTurns /\ MaxTurns \in Nat /\ MaxBreaks \in Nat /\ breaks \in 0..MaxBreaks
      BY ArtifactAssumption DEF Base, Typed, ArtifactAssumption
<1>2. \A t \in Tools : OwnerOf[t] \in Specialists BY ArtifactAssumption DEF ArtifactAssumption
<1>3. \A t \in Tools : hold[t].turn \in Nat /\ hold[t].turn <= turn
      BY DEF Base, Typed, Hands, Content
<1>4. CASE BeginTurn
  <2>1. turn' = turn + 1 /\ phase' = "running" /\ turn' \in 1..MaxTurns /\ UNCHANGED tools
        BY <1>1, <1>4 DEF BeginTurn
  <2>2. delegate' \in [Specialists -> Delegates] /\ reported' \in [Specialists -> SUBSET Nat]
        BY <1>4, OffTyped DEF BeginTurn
  <2>3. window' \in Windows /\ events' \in Seq(Nat) /\ live' \in Seq(Nat)
        BY <1>4, EmptyTyped DEF BeginTurn
  <2>4. Typed'
    <3>1. UNCHANGED <<stored, attached, breaks>> BY <1>4 DEF BeginTurn
    <3>2. restarted' \in BOOLEAN BY <1>4 DEF BeginTurn
    <3>3. turn' \in 0..MaxTurns BY <2>1
    <3>4. QED BY <2>1, <2>2, <2>3, <3>1, <3>2, <3>3 DEF Base, Typed, tools
  <2>5. \A t \in Tools : hold[t].turn # turn' /\ hold[t].turn <= turn'
        BY <1>1, <1>3, <2>1
  <2>6. Hands' BY <2>1, <2>5 DEF Base, Hands, tools
  <2>7. QED BY <2>1, <2>4, <2>6 DEF Base, Begun
<1>5. CASE Drain
  <2>1. /\ UNCHANGED <<stored, window, attached, tools, delegation, conversation>>
        /\ live' = live \o events /\ events' = <<>>
        BY <1>5 DEF Drain
  <2>2. Typed' BY <2>1, LiveTyped, EmptyTyped DEF Base, Typed, tools, delegation, conversation
  <2>3. Hands' /\ Begun'
        BY <2>1 DEF Base, Hands, Begun, Working, tools, delegation, conversation
  <2>4. QED BY <2>2, <2>3 DEF Base
<1>6. CASE Pause
  <2>1. /\ UNCHANGED <<stored, window, attached, tools, delegation, turn, restarted, breaks>>
        /\ live' = live \o events /\ events' = <<>> /\ phase = "running" /\ phase' = "paused"
        BY <1>6 DEF Pause
  <2>2. Typed' BY <2>1, LiveTyped, EmptyTyped DEF Base, Typed, tools, delegation
  <2>3. Hands' /\ Begun'
        BY <2>1 DEF Base, Hands, Begun, Working, tools, delegation
  <2>4. QED BY <2>2, <2>3 DEF Base
<1>7. CASE Resume
  <2>1. /\ UNCHANGED <<store, live, attached, tools, delegation, turn, restarted, breaks>>
        /\ phase = "paused" /\ phase' = "running"
        BY <1>7 DEF Resume
  <2>2. Typed' BY <2>1 DEF Base, Typed, store, tools, delegation
  <2>3. Hands' /\ Begun'
        BY <2>1 DEF Base, Hands, Begun, Working, tools, delegation
  <2>4. QED BY <2>2, <2>3 DEF Base
<1>8. CASE Claim
  <2>1. /\ UNCHANGED <<stored, events, live, tools, delegation, turn, restarted, breaks>>
        /\ phase = "running" /\ phase' = "answered" /\ window' = EmptyWindow
        /\ attached' = [attached EXCEPT ![turn] = Range(window.ids)]
        /\ \A s \in Specialists : ~Working(s)
        BY <1>8 DEF Claim
  <2>2. Range(window.ids) \in SUBSET Nat
    <3>1. window.ids \in Seq(Nat) BY DEF Base, Typed, Windows
    <3>2. QED BY <3>1, ElementOfSeq, LenProperties DEF Range
  <2>3. attached' \in [1..MaxTurns -> SUBSET Nat] BY <2>1, <2>2 DEF Base, Typed
  <2>4. Typed' BY <2>1, <2>3, EmptyTyped DEF Base, Typed, tools, delegation
  <2>5. \A t \in Tools : place[t] # "idle" => hold[t].turn # turn
        BY <1>2, <2>1 DEF Base, Hands
  <2>6. Hands' BY <2>1, <2>5 DEF Base, Hands, tools
  <2>7. QED BY <2>1, <2>4, <2>6 DEF Base, Begun
<1>9. CASE Finish
  <2>1. /\ UNCHANGED <<stored, window, attached, tools, delegation, turn, restarted, breaks>>
        /\ live' = live \o events /\ events' = <<>> /\ phase = "answered" /\ phase' = "finished"
        BY <1>9 DEF Finish
  <2>2. Typed' BY <2>1, LiveTyped, EmptyTyped DEF Base, Typed, tools, delegation
  <2>3. Hands' /\ Begun'
        BY <2>1 DEF Base, Hands, Begun, Working, tools, delegation
  <2>4. QED BY <2>2, <2>3 DEF Base
<1>10. CASE Abort
  <2>1. /\ UNCHANGED <<store, live, attached, tools, reported, turn, restarted>>
        /\ phase' = "idle" /\ breaks' = breaks + 1 /\ breaks < MaxBreaks
        /\ delegate' = [s \in Specialists |-> Off]
        BY <1>10 DEF Abort
  <2>2. breaks' \in 0..MaxBreaks BY <1>1, <2>1
  <2>3. delegate' \in [Specialists -> Delegates] BY <2>1, OffTyped
  <2>4. Typed' BY <2>1, <2>2, <2>3 DEF Base, Typed, store, tools
  <2>5. Hands' BY <2>1 DEF Base, Hands, tools
  <2>6. QED BY <2>1, <2>4, <2>5 DEF Base, Begun
<1>11. CASE Restart
  <2>1. /\ UNCHANGED <<stored, live, attached, file, told, lost, reported, turn>>
        /\ astray' = astray \cup {t \in Commands : place[t] = "running"}
        /\ phase' \in {"idle", "paused"} /\ (phase' # "idle" => phase # "idle")
        /\ breaks' = breaks + 1 /\ breaks < MaxBreaks
        /\ window' = EmptyWindow /\ events' = <<>> /\ restarted' = TRUE
        /\ place' = [t \in Tools |-> "idle"] /\ hold' = [t \in Tools |-> NoHold]
        /\ (delegate' = delegate \/ delegate' = [s \in Specialists |-> Off])
        BY <1>11 DEF Restart
  <2>2. breaks' \in 0..MaxBreaks BY <1>1, <2>1
  <2>3. delegate' \in [Specialists -> Delegates] BY <2>1, OffTyped DEF Base, Typed
  <2>4. place' \in [Tools -> Places] /\ hold' \in [Tools -> Content]
        BY <2>1, EmptyTyped DEF Places
  <2>5. Typed' BY <2>1, <2>2, <2>3, <2>4, EmptyTyped DEF Base, Typed
  <2>6. Hands' BY <1>1, <2>1, EmptyTyped DEF Hands
  <2>7. QED BY <2>1, <2>5, <2>6 DEF Base, Begun
<1>12. QED BY <1>4, <1>5, <1>6, <1>7, <1>8, <1>9, <1>10, <1>11

\* Every step keeps types and hands.
LEMMA BaseStep == Base /\ Ledger /\ [Next]_vars => Base'
<1> SUFFICES ASSUME Base, Ledger, [Next]_vars PROVE Base' OBVIOUS
<1>1. CASE \E t \in Tools : ToolStep(t) BY <1>1, ToolBase
<1>2. CASE \E s \in Specialists : StartSpecialist(s) \/ EndSpecialist(s)
      BY <1>2, SpecialistBase
<1>3. CASE BeginTurn \/ Drain \/ Pause \/ Resume \/ Claim \/ Finish \/ Abort \/ Restart
      BY <1>3, TurnBase
<1>4. CASE UNCHANGED vars
  <2>1. Typed' BY <1>4 DEF vars, store, tools, delegation, conversation, Base, Typed
  <2>2. Hands' /\ Begun'
        BY <1>4 DEF vars, store, tools, delegation, conversation, Base, Hands, Begun, Working
  <2>3. QED BY <2>1, <2>2 DEF Base
<1>5. QED BY <1>1, <1>2, <1>3, <1>4 DEF Next

-----------------------------------------------------------------------------
(* The ledger.                                                             *)

\* Ids are numbers from 1, and what is pending is a result with a path.
LEMMA PendingIn ==
    ASSUME Typed, Ledger
    PROVE  /\ \A id \in Ids : id \in Nat /\ id # 0 /\ stored[id] \in Artifacts
           /\ Range(window.ids) \subseteq Ids /\ Pending \subseteq Range(window.ids)
           /\ \A id \in Ids : ~IsRecord(id) => stored[id].path \in Paths
           /\ \A id \in Pending : stored[id].path \in Paths /\ ~IsRecord(id)
<1>1. \A id \in Ids : id \in Nat /\ id # 0 /\ stored[id] \in Artifacts BY IdsAre
<1>2. \A id \in Ids : ~IsRecord(id) => stored[id].path \in Paths BY <1>1 DEF Artifacts, IsRecord
<1>3. /\ Range(window.ids) \subseteq Ids
      /\ Pending = ResultsIn(Range(window.ids))
      BY DEF Ledger
<1>4. QED BY <1>1, <1>2, <1>3 DEF ResultsIn

\* Versions only grow.
LEMMA VersionsGrow ==
    ASSUME Typed, Versions, NEW p \in Paths, NEW n \in Nat, n <= file[p].version
    PROVE  n <= file'[p].version
<1>1. file[p].version <= file'[p].version BY DEF Versions
<1>2. file[p].version \in Nat /\ file'[p].version \in Nat
      BY ArtifactAssumption DEF Typed, Versions, Files
<1>3. QED BY <1>1, <1>2

\* The ledger stays true when a result is registered,
LEMMA ResultLedger ==
    ASSUME Base, Ledger, ToolKeeps, Versions, NEW t \in Tools, NEW c \in Content,
           ResultStep(t, c)
    PROVE  Ledger'
<1> DEFINE old == Replacing(c)
<1>1. /\ Enters(c, OwnerOf[t], old) /\ Renews(c) /\ c.path \in Paths /\ c.path # None
      BY ArtifactAssumption DEF ResultStep, ArtifactAssumption
<1>2. c.version <= file[c.path].version /\ c.version \in Nat
      BY DEF ResultStep, Base, Hands, Content
<1>3. /\ Ids' = Ids \cup {New} /\ New \in Nat /\ New \notin Ids /\ \A i \in Ids : i < New
      /\ \A i \in Ids : stored'[i] = stored[i] /\ (IsRecord(i)' <=> IsRecord(i))
      /\ stored'[New] = Stored(c, OwnerOf[t]) /\ stored'[New].path # None
      /\ stored'[New].path = c.path /\ stored'[New].version = c.version
      /\ stored'[New].at = turn
      BY <1>1 DEF Enters, Stored, IsRecord
<1>4. /\ Range(window.ids)' = (Range(window.ids) \ {old}) \cup {New}
      /\ Range(events)' = (Range(events) \ {old}) \cup {New}
      /\ Pending' = (Pending \ {old}) \cup {New} /\ Increasing(window.results)'
      /\ Increasing(window.ids)' /\ Increasing(events)'
      /\ window.byPath' = [window.byPath EXCEPT ![c.path] = New]
      BY <1>1 DEF Enters, Renews
<1>5. live' = live /\ turn' = turn /\ Range(live)' = Range(live)
      BY DEF ToolKeeps, conversation
<1>6. old = window.byPath[c.path] BY DEF Replacing
<1> HIDE DEF old
<1>7. window.byPath \in [Paths -> Nat] BY DEF Base, Typed, Windows
<1>8. /\ \A id \in Ids : id \in Nat /\ id # 0 /\ stored[id] \in Artifacts
      /\ Range(window.ids) \subseteq Ids /\ Pending \subseteq Range(window.ids)
      /\ \A id \in Ids : ~IsRecord(id) => stored[id].path \in Paths
      /\ \A id \in Pending : stored[id].path \in Paths /\ ~IsRecord(id)
      BY PendingIn DEF Base
<1>9. /\ Range(window.ids) \subseteq Ids /\ Range(events) \subseteq Ids /\ Range(live) \subseteq Ids
      /\ Pending = ResultsIn(Range(window.ids))
      /\ Increasing(live) /\ \A x \in Range(live), y \in Range(events) : x < y
      /\ \A p \in Paths : window.byPath[p] # 0 =>
            window.byPath[p] \in Pending /\ stored[window.byPath[p]].path = p
      /\ \A id \in Pending : window.byPath[stored[id].path] = id
      BY DEF Ledger
<1>10. Range(window.ids)' \cup Range(events)' \cup Range(live)' \subseteq Ids'
       BY <1>3, <1>4, <1>5, <1>9
<1>11. \A x \in Range(live)', y \in Range(events)' : x < y BY <1>3, <1>4, <1>5, <1>9
<1>12. Pending' = {id \in Range(window.ids)' : ~IsRecord(id)'}
       BY <1>3, <1>4, <1>8, <1>9 DEF ResultsIn, IsRecord
<1>13. ASSUME NEW p \in Paths, window.byPath'[p] # 0
       PROVE  window.byPath'[p] \in Pending' /\ stored'[window.byPath'[p]].path = p
  <2>1. CASE p = c.path BY <1>1, <1>3, <1>4, <1>7, <2>1
  <2>2. CASE p # c.path
    <3>1. window.byPath'[p] = window.byPath[p] BY <1>4, <1>7, <2>2
    <3>2. window.byPath[p] \in Pending /\ stored[window.byPath[p]].path = p
          BY <1>9, <1>13, <3>1
    <3>3. window.byPath[p] # old BY <1>1, <1>6, <1>9, <1>13, <2>2, <3>1, <3>2
    <3>4. QED BY <1>3, <1>4, <1>8, <3>1, <3>2, <3>3
  <2>3. QED BY <2>1, <2>2
<1>14. ASSUME NEW id \in Pending' PROVE window.byPath'[stored'[id].path] = id
  <2>1. CASE id = New BY <1>1, <1>3, <1>4, <1>7, <2>1
  <2>2. CASE id # New
    <3>1. id \in Pending /\ id # old BY <1>4, <1>14, <2>2
    <3>2. stored'[id] = stored[id] /\ stored[id].path \in Paths BY <1>3, <1>8, <3>1
    <3>3. window.byPath[stored[id].path] = id BY <1>9, <3>1
    <3>4. stored[id].path # c.path BY <1>6, <3>1, <3>3
    <3>5. QED BY <1>4, <1>7, <3>2, <3>3, <3>4
  <2>3. QED BY <2>1, <2>2
<1>15. ASSUME NEW id \in Ids', ~IsRecord(id)'
       PROVE  stored'[id].version <= file'[stored'[id].path].version
  <2>1. CASE id = New BY <1>1, <1>2, <1>3, <2>1, VersionsGrow DEF Base
  <2>2. CASE id # New
    <3>1. id \in Ids /\ stored'[id] = stored[id] /\ ~IsRecord(id) BY <1>3, <1>15, <2>2
    <3>2. /\ stored[id].version <= file[stored[id].path].version
          /\ stored[id].path \in Paths /\ stored[id].version \in Nat
          BY <1>8, <3>1 DEF Ledger, Artifacts
    <3>3. QED BY <3>1, <3>2, VersionsGrow DEF Base
  <2>3. QED BY <2>1, <2>2
<1>16. \A id \in Range(window.ids)' : stored'[id].at = turn'
       BY <1>3, <1>4, <1>5, <1>9 DEF Ledger
<1>17. QED
       BY <1>4, <1>5, <1>9, <1>10, <1>11, <1>12, <1>13, <1>14, <1>15, <1>16
       DEF Ledger, ResultsIn

\* when a record is,
LEMMA RecordLedger ==
    ASSUME Base, Ledger, ToolKeeps, Versions, NEW t \in Tools, NEW c \in Content,
           RecordStep(t, c)
    PROVE  Ledger'
<1>1. Enters(c, OwnerOf[t], 0) /\ RecordJoins /\ c.path = None BY DEF RecordStep
<1>2. /\ \A id \in Ids : id \in Nat /\ id # 0 /\ stored[id] \in Artifacts
      /\ Range(window.ids) \subseteq Ids /\ Pending \subseteq Range(window.ids)
      /\ \A id \in Ids : ~IsRecord(id) => stored[id].path \in Paths
      /\ \A id \in Pending : stored[id].path \in Paths /\ ~IsRecord(id)
      BY PendingIn DEF Base
<1>3. /\ Range(window.ids) \subseteq Ids /\ Range(events) \subseteq Ids /\ Range(live) \subseteq Ids
      /\ Pending = ResultsIn(Range(window.ids)) /\ Increasing(window.results)
      /\ Increasing(live) /\ \A x \in Range(live), y \in Range(events) : x < y
      /\ \A p \in Paths : window.byPath[p] # 0 =>
            window.byPath[p] \in Pending /\ stored[window.byPath[p]].path = p
      /\ \A id \in Pending : window.byPath[stored[id].path] = id
      BY DEF Ledger
<1>4. /\ Ids' = Ids \cup {New} /\ New \in Nat /\ New \notin Ids /\ \A i \in Ids : i < New
      /\ \A i \in Ids : stored'[i] = stored[i] /\ (IsRecord(i)' <=> IsRecord(i))
      /\ stored'[New].path = None /\ stored'[New].at = turn
      BY <1>1 DEF Enters, Stored, IsRecord
<1>5. /\ Range(window.ids)' = Range(window.ids) \cup {New}
      /\ Range(events)' = Range(events) \cup {New}
      /\ Increasing(window.ids)' /\ Increasing(events)'
      BY <1>1, <1>2, <1>3 DEF Enters
<1>6. /\ window.results' = window.results /\ Pending' = Pending
      /\ window.byPath' = window.byPath
      BY <1>1 DEF RecordJoins, Pending
<1>7. live' = live /\ turn' = turn /\ Range(live)' = Range(live)
      BY DEF ToolKeeps, conversation
<1>8. Range(window.ids)' \cup Range(events)' \cup Range(live)' \subseteq Ids'
      BY <1>3, <1>4, <1>5, <1>7
<1>9. \A x \in Range(live)', y \in Range(events)' : x < y BY <1>3, <1>4, <1>5, <1>7
<1>10. Pending' = {id \in Range(window.ids)' : ~IsRecord(id)'}
       BY <1>3, <1>4, <1>5, <1>6 DEF ResultsIn, IsRecord
<1>11. \A id \in Pending : stored'[id] = stored[id] BY <1>2, <1>4
<1>12. ASSUME NEW id \in Ids', ~IsRecord(id)'
       PROVE  stored'[id].version <= file'[stored'[id].path].version
  <2>1. id \in Ids /\ stored'[id] = stored[id] /\ ~IsRecord(id)
        BY <1>4, <1>12 DEF IsRecord
  <2>2. /\ stored[id].version <= file[stored[id].path].version
        /\ stored[id].path \in Paths /\ stored[id].version \in Nat
        BY <1>2, <2>1 DEF Ledger, Artifacts
  <2>3. QED BY <2>1, <2>2, VersionsGrow DEF Base
<1>13. \A id \in Range(window.ids)' : stored'[id].at = turn'
       BY <1>3, <1>4, <1>5, <1>7 DEF Ledger
<1>14. QED
       BY <1>3, <1>5, <1>6, <1>7, <1>8, <1>9, <1>10, <1>11, <1>12, <1>13
       DEF Ledger, ResultsIn

\* and so on every step of a tool.
LEMMA ToolLedger ==
    ASSUME Base, Ledger, NEW t \in Tools, ToolStep(t)
    PROVE  Ledger'
<1>1. ToolKeeps /\ Versions BY ToolMoves DEF ToolMove
<1>2. CASE StoreKept
  <2>1. /\ stored' = stored /\ events' = events /\ live' = live /\ turn' = turn
        /\ window.ids' = window.ids /\ window.results' = window.results
        /\ window.byPath' = window.byPath
        BY <1>1, <1>2 DEF StoreKept, ToolKeeps, conversation
  <2>2. ASSUME NEW id \in Ids, ~IsRecord(id)
        PROVE  stored[id].version <= file'[stored[id].path].version
    <3>1. /\ stored[id].version <= file[stored[id].path].version
          /\ stored[id].path \in Paths /\ stored[id].version \in Nat
          BY <2>2, PendingIn DEF Base, Ledger, Artifacts
    <3>2. QED BY <1>1, <3>1, VersionsGrow DEF Base
  <2>3. QED BY <2>1, <2>2 DEF Ledger, ResultsIn, IsRecord, Pending, Ids
<1>3. QED BY <1>1, <1>2, ToolStores, ResultLedger, RecordLedger DEF ToolStore

\* The window is emptied, or the events are streamed; else the ledger stays.
LEMMA OtherLedger ==
    ASSUME Base, Ledger,
           \/ \E s \in Specialists : StartSpecialist(s) \/ EndSpecialist(s)
           \/ BeginTurn \/ Drain \/ Pause \/ Resume \/ Claim \/ Finish \/ Abort \/ Restart
           \/ UNCHANGED vars
    PROVE  Ledger'
<1> DEFINE Emptied == window' = EmptyWindow
           Streamed == live' = live \o events /\ events' = <<>>
<1>1. stored' = stored /\ file' = file
      BY DEF StartSpecialist, EndSpecialist, BeginTurn, Drain, Pause, Resume, Claim, Finish,
             Abort, Restart, vars, store, tools
<1>2. (window' = window /\ turn' = turn) \/ Emptied
      BY DEF StartSpecialist, EndSpecialist, BeginTurn, Drain, Pause, Resume, Claim, Finish,
             Abort, Restart, vars, store, tools, conversation
<1>3. \/ UNCHANGED <<events, live>> \/ Streamed
      \/ live' \in {live, <<>>} /\ events' = <<>>
      BY DEF StartSpecialist, EndSpecialist, BeginTurn, Drain, Pause, Resume, Claim, Finish,
             Abort, Restart, vars, store, tools, conversation
<1>4. Ids' = Ids /\ \A i \in Ids : IsRecord(i)' <=> IsRecord(i) BY <1>1 DEF Ids, IsRecord
<1>5. /\ Range(<<>>) = {} /\ Increasing(<<>>)
  <2>1. Increasing(<<>>) BY DEF Increasing
  <2>2. QED BY <2>1, EmptyTyped
<1>6. /\ Range(window.ids)' \subseteq Ids' /\ Increasing(window.ids)'
      /\ Increasing(window.results)' /\ Pending' = ResultsIn(Range(window.ids))'
      /\ \A p \in Paths : window.byPath'[p] # 0 =>
            window.byPath'[p] \in Pending' /\ stored'[window.byPath'[p]].path = p
      /\ \A id \in Pending' : window.byPath'[stored'[id].path] = id
      /\ \A id \in Range(window.ids)' : stored'[id].at = turn'
  <2>1. CASE window' = window /\ turn' = turn
        BY <1>1, <2>1 DEF Ledger, Pending, ResultsIn, IsRecord, Ids
  <2>2. CASE Emptied
    <3>1. window.ids' = <<>> /\ window.results' = <<>> /\ \A p \in Paths : window.byPath'[p] = 0
          BY <2>2 DEF EmptyWindow
    <3>2. Range(window.ids)' = {} /\ Pending' = {} BY <1>5, <3>1 DEF Pending
    <3>3. QED BY <1>5, <3>1, <3>2 DEF ResultsIn
  <2>3. QED BY <1>2, <2>1, <2>2
<1>7. /\ Range(events)' \cup Range(live)' \subseteq Ids'
      /\ Increasing(events)' /\ Increasing(live)'
      /\ \A x \in Range(live)', y \in Range(events)' : x < y
  <2>1. /\ Range(events) \subseteq Ids /\ Range(live) \subseteq Ids
        /\ Increasing(events) /\ Increasing(live)
        /\ \A x \in Range(live), y \in Range(events) : x < y
        BY DEF Ledger
  <2>2. CASE UNCHANGED <<events, live>> BY <1>4, <2>1, <2>2
  <2>3. CASE Streamed
    <3>1. events \in Seq(Nat) /\ live \in Seq(Nat) BY DEF Base, Typed
    <3>2. Increasing(live \o events) /\ Range(live \o events) = Range(live) \cup Range(events)
          BY <2>1, <3>1, ConcatIncreasing
    <3>3. Range(live)' = Range(live) \cup Range(events) /\ Range(events)' = {}
          /\ Increasing(live)' /\ Increasing(events)'
          BY <1>5, <2>3, <3>2
    <3>4. QED BY <1>4, <2>1, <3>3
  <2>4. CASE live' \in {live, <<>>} /\ events' = <<>>
    <3>1. Range(events)' = {} /\ Increasing(events)' BY <1>5, <2>4
    <3>2. Range(live)' \subseteq Range(live) /\ Increasing(live)' BY <1>5, <2>1, <2>4
    <3>3. QED BY <1>4, <2>1, <3>1, <3>2
  <2>5. QED BY <1>3, <2>2, <2>3, <2>4
<1>8. \A id \in Ids' : ~IsRecord(id)' => stored'[id].version <= file'[stored'[id].path].version
      BY <1>1, <1>4 DEF Ledger
<1>9. QED BY <1>6, <1>7, <1>8 DEF Ledger

\* Every step keeps the ledger.
LEMMA LedgerStep == Base /\ Ledger /\ [Next]_vars => Ledger'
BY ToolLedger, OtherLedger DEF Next

-----------------------------------------------------------------------------
(* The accounts.                                                           *)

\* What is pending is finitely much.
LEMMA PendingFinite ==
    ASSUME Typed, Ledger
    PROVE  IsFiniteSet(Pending) /\ IsFiniteSet(Range(window.ids)) /\ IsFiniteSet(Ids)
<1>1. Ids = 1..Len(stored) /\ Len(stored) \in Nat BY IdsAre
<1>2. IsFiniteSet(Ids) BY <1>1, FS_Interval
<1>3. Pending \subseteq Ids /\ Range(window.ids) \subseteq Ids BY PendingIn
<1>4. QED BY <1>2, <1>3, FS_Subset

\* An element leaves a finite set and another enters.
Has(S, x) == IF x \in S THEN 1 ELSE 0
\* The cardinality of such a set.
LEMMA CardinalityMoves ==
    ASSUME NEW S, IsFiniteSet(S), NEW x, NEW y, y \notin S
    PROVE  /\ Cardinality((S \ {x}) \cup {y})
                 = Cardinality(S) - Has(S, x) + 1
           /\ Cardinality(S \ {x}) = Cardinality(S) - Has(S, x)
           /\ IsFiniteSet((S \ {x}) \cup {y}) /\ Cardinality(S) \in Nat
<1>1. /\ IsFiniteSet(S \ {x}) /\ Cardinality(S) \in Nat
      /\ Cardinality(S \ {x}) = Cardinality(S) - Has(S, x)
  <2>1. /\ IsFiniteSet(S \ {x}) /\ Cardinality(S) \in Nat
        /\ Cardinality(S \ {x}) = IF x \in S THEN Cardinality(S) - 1 ELSE Cardinality(S)
        BY FS_RemoveElement, FS_CardinalityType
  <2>2. CASE x \in S BY <2>1, <2>2 DEF Has
  <2>3. CASE x \notin S BY <2>1, <2>3 DEF Has
  <2>4. QED BY <2>1, <2>2, <2>3
<1>2. /\ IsFiniteSet((S \ {x}) \cup {y})
      /\ Cardinality((S \ {x}) \cup {y}) = Cardinality(S \ {x}) + 1
      BY <1>1, FS_AddElement
<1>3. QED BY <1>1, <1>2

\* So it is with sums.
Taken(f, S, x) == IF x \in S THEN f[x] ELSE 0
\* The sum over such a set.
LEMMA SumMoves ==
    ASSUME NEW S, IsFiniteSet(S), NEW x, NEW y, y \notin S,
           NEW f, \A e \in S : f[e] \in Int, NEW h, h[y] \in Int,
           \A e \in S \ {x} : h[e] = f[e]
    PROVE  SumFunctionOnSet(h, (S \ {x}) \cup {y})
              = SumFunctionOnSet(f, S) - Taken(f, S, x) + h[y]
<1> DEFINE rest == S \ {x}
           all == rest \cup {y}
<1>1. IsFiniteSet(rest) /\ IsFiniteSet(all) BY FS_RemoveElement, FS_AddElement
<1>2. rest \subseteq S /\ y \notin rest /\ all \ {y} = rest /\ y \in all OBVIOUS
<1>3. \A e \in all : h[e] \in Int OBVIOUS
<1>4. \A e \in rest : f[e] \in Int /\ h[e] = f[e] OBVIOUS
<1>5. x \notin S => rest = S OBVIOUS
<1>6. x \in S => rest = S \ {x} OBVIOUS
<1> HIDE DEF rest, all
<1>7. SumFunctionOnSet(h, all) = h[y] + SumFunctionOnSet(h, rest) BY <1>1, <1>2, <1>3, SumTakes
<1>8. SumFunctionOnSet(h, rest) = SumFunctionOnSet(f, rest) BY <1>1, <1>4, SumSame
<1>9. SumFunctionOnSet(f, rest) \in Int /\ SumFunctionOnSet(f, S) \in Int
      BY <1>1, <1>4, SumTakes
<1>10. CASE x \in S
  <2>1. SumFunctionOnSet(f, S) = f[x] + SumFunctionOnSet(f, rest) BY <1>6, <1>10, SumTakes
  <2>2. Taken(f, S, x) = f[x] /\ f[x] \in Int /\ h[y] \in Int BY <1>10 DEF Taken
  <2>3. \A a, b, d \in Int : b + a = d + a - d + b OBVIOUS
  <2>4. QED BY <1>7, <1>8, <1>9, <2>1, <2>2, <2>3 DEF all, rest
<1>11. CASE x \notin S
  <2>1. SumFunctionOnSet(f, rest) = SumFunctionOnSet(f, S) BY <1>5, <1>11
  <2>2. Taken(f, S, x) = 0 BY <1>11 DEF Taken
  <2>3. \A a, b \in Int : a + b = b - 0 + a OBVIOUS
  <2>4. SumFunctionOnSet(h, all) = h[y] + SumFunctionOnSet(f, S) BY <1>7, <1>8, <2>1
  <2>5. h[y] + SumFunctionOnSet(f, S) = SumFunctionOnSet(f, S) - 0 + h[y] BY <1>9, <2>3
  <2>6. QED BY <2>2, <2>4, <2>5 DEF all, rest
<1>12. QED BY <1>10, <1>11

\* A sum of numbers is a number.
LEMMA SumNatural ==
    ASSUME NEW S, IsFiniteSet(S), NEW f, \A x \in S : f[x] \in Nat
    PROVE  SumFunctionOnSet(f, S) \in Nat
<1>1. SumFunctionOnSet(f, S) \in Int BY SumTakes
<1>2. CASE S = {} BY <1>2, SumEmpty
<1>3. CASE S # {}
  <2>1. PICK x \in S : TRUE BY <1>3
  <2>2. f[x] <= SumFunctionOnSet(f, S) BY SumCovers
  <2>3. QED BY <1>1, <2>1, <2>2
<1>4. QED BY <1>2, <1>3

\* The bytes are a sum over the pending results.
SizeAt == [id \in Ids |-> stored[id].size]
Sized == /\ BytesOf(Pending) = SumFunctionOnSet(SizeAt, Pending)
         /\ \A id \in Ids : SizeAt[id] = stored[id].size /\ SizeAt[id] \in Nat
         /\ BytesOf(Pending) \in Nat
\* The bytes of the window are such a sum.
LEMMA BytesAre == Typed /\ Ledger => Sized
<1> SUFFICES ASSUME Typed, Ledger PROVE Sized OBVIOUS
<1> DEFINE f == [id \in Pending |-> stored[id].size]
<1>1. \A id \in Ids : SizeAt[id] = stored[id].size /\ SizeAt[id] \in Nat
      BY PendingIn DEF SizeAt, Artifacts
<1>2. Pending \subseteq Ids /\ IsFiniteSet(Pending) BY PendingIn, PendingFinite
<1>3. \A id \in Pending : SizeAt[id] \in Int /\ f[id] = SizeAt[id] BY <1>1, <1>2
<1>4. DOMAIN f = Pending OBVIOUS
<1>5. BytesOf(Pending) = SumFunction(f) BY DEF BytesOf
<1> HIDE DEF f
<1>6. SumFunctionOnSet(SizeAt, Pending) = SumFunctionOnSet(f, Pending) BY <1>2, <1>3, SumSame
<1>7. SumFunctionOnSet(SizeAt, Pending) \in Nat BY <1>1, <1>2, SumNatural
<1>8. QED BY <1>1, <1>4, <1>5, <1>6, <1>7 DEF Sized, SumFunction

\* A result changes the accounts by what it brings and what it replaces.
LEMMA ResultCounts ==
    ASSUME Base, Ledger, Counts, Typed', Ledger', NEW t \in Tools, NEW c \in Content,
           ResultStep(t, c)
    PROVE  Counts'
<1> DEFINE old == Replacing(c)
<1>1. /\ Enters(c, OwnerOf[t], old) /\ Renews(c) /\ c.path \in Paths /\ c.path # None
      /\ Admits(c)
      BY ArtifactAssumption DEF ResultStep, ArtifactAssumption, Registers
<1>2. /\ Ids' = Ids \cup {New} /\ New \notin Ids /\ New \in Nat
      /\ \A i \in Ids : stored'[i] = stored[i]
      /\ stored'[New].path = c.path /\ stored'[New].size = c.size
      BY <1>1 DEF Enters, Stored
<1>3. /\ Range(window.ids)' = (Range(window.ids) \ {old}) \cup {New}
      /\ Pending' = (Pending \ {old}) \cup {New}
      BY <1>1 DEF Enters, Renews
<1>4. /\ Range(window.ids) \subseteq Ids /\ Pending \subseteq Range(window.ids)
      /\ 0 \notin Ids /\ \A id \in Pending : ~IsRecord(id) /\ stored[id] \in Artifacts
      BY PendingIn DEF Base
<1>5. old = 0 \/ old \in Pending BY <1>1 DEF Ledger, Replacing
<1>6. IsFiniteSet(Pending) /\ IsFiniteSet(Range(window.ids)) BY PendingFinite DEF Base
<1>7. c.size \in Nat BY DEF Content
<1>8. /\ window.images' = window.images - ImageOf(old) + Image(c)
      /\ window.bytes' = window.bytes - SizeOf(old) + c.size
      /\ window.records' = window.records
      /\ Len(window.ids)' = (IF old \in Range(window.ids) THEN Len(window.ids) - 1
                             ELSE Len(window.ids)) + 1
      /\ Len(window.results)' = (IF old \in Pending THEN Len(window.results) - 1
                                 ELSE Len(window.results)) + 1
      BY <1>1 DEF Renews
<1> HIDE DEF old
<1>9. RecordsIn(Range(window.ids))' = RecordsIn(Range(window.ids))
  <2>1. RecordsIn(Range(window.ids))' = {id \in Range(window.ids)' : stored'[id].path = None}
        BY DEF RecordsIn, IsRecord
  <2>2. RecordsIn(Range(window.ids)) = {id \in Range(window.ids) : stored[id].path = None}
        BY DEF RecordsIn, IsRecord
  <2>3. old \in Range(window.ids) => stored[old].path # None BY <1>4, <1>5 DEF IsRecord
  <2>4. QED BY <1>1, <1>2, <1>3, <1>4, <2>1, <2>2, <2>3
<1>10. /\ window.images \in Int /\ window.bytes \in Int /\ window.records \in Nat
       /\ Len(window.ids) \in Nat /\ Len(window.results) \in Nat
       BY LenProperties DEF Base, Typed, Windows
<1>11. Cardinality(RecordsIn(Range(window.ids))) \in Nat
  <2>1. RecordsIn(Range(window.ids)) \subseteq Range(window.ids) BY DEF RecordsIn
  <2>2. QED BY <1>6, <2>1, FS_Subset, FS_CardinalityType
<1>12. Len(window.ids)' = Len(window.results)' + Cardinality(RecordsIn(Range(window.ids)))'
  <2>1. Len(window.ids) = Len(window.results) + Cardinality(RecordsIn(Range(window.ids)))
        BY DEF Counts
  <2>2. old \in Pending <=> old \in Range(window.ids) BY <1>4, <1>5
  <2>3. \A a, b, d \in Nat : a = b + d => a - 1 + 1 = b - 1 + 1 + d /\ a + 1 = b + 1 + d
        OBVIOUS
  <2>4. Cardinality(RecordsIn(Range(window.ids)))' = Cardinality(RecordsIn(Range(window.ids)))
        BY <1>9
  <2>5. QED BY <1>8, <1>10, <1>11, <2>1, <2>2, <2>3, <2>4
<1>13. window.images' = ImagesOf(Pending)' /\ window.images' <= MaxImages
  <2> DEFINE I == {id \in Pending : stored[id].path \in Images}
             J == {id \in Pending' : stored'[id].path \in Images}
  <2>1. I \subseteq Pending /\ IsFiniteSet(I) BY <1>6, FS_Subset
  <2>2. ImagesOf(Pending)' = Cardinality(J) /\ window.images = Cardinality(I)
        BY DEF ImagesOf, Counts
  <2>3. ImageOf(old) = Has(I, old) BY <1>4, <1>5 DEF ImageOf, Image, Has
  <2>4. New \notin I BY <1>2, <1>4
  <2>5. J = IF c.path \in Images THEN (I \ {old}) \cup {New} ELSE I \ {old}
        BY <1>2, <1>3, <1>4
  <2> HIDE DEF I, J
  <2>6. /\ Cardinality((I \ {old}) \cup {New})
              = Cardinality(I) - Has(I, old) + 1
        /\ Cardinality(I \ {old}) = Cardinality(I) - Has(I, old)
        /\ Cardinality(I) \in Nat
        BY <2>1, <2>4, CardinalityMoves
  <2>7. Cardinality(J) = Cardinality(I) - ImageOf(old) + Image(c)
    <3>1. ImageOf(old) \in Int BY <2>3 DEF Has
    <3>2. CASE c.path \in Images
      <4>1. Image(c) = 1 /\ J = (I \ {old}) \cup {New} BY <2>5, <3>2 DEF Image
      <4>2. QED BY <2>3, <2>6, <4>1
    <3>3. CASE c.path \notin Images
      <4>1. Image(c) = 0 /\ J = I \ {old} BY <2>5, <3>3 DEF Image
      <4>2. QED BY <2>3, <2>6, <3>1, <4>1
    <3>4. QED BY <3>2, <3>3
  <2>8. window.images - ImageOf(old) + Image(c) <= MaxImages BY <1>1 DEF Admits, old
  <2>9. QED BY <1>8, <2>2, <2>7, <2>8
<1>14. window.bytes' = BytesOf(Pending)' /\ window.bytes' <= MaxBytes
  <2>1. /\ BytesOf(Pending) = SumFunctionOnSet(SizeAt, Pending)
        /\ \A id \in Ids : SizeAt[id] = stored[id].size /\ SizeAt[id] \in Nat
        BY BytesAre DEF Base, Sized
  <2>2. /\ BytesOf(Pending)' = SumFunctionOnSet(SizeAt', Pending')
        /\ \A id \in Ids' : SizeAt'[id] = stored'[id].size
    <3>1. (Typed /\ Ledger)' => Sized' BY BytesAre, PTL
    <3>2. QED BY <3>1 DEF Sized
  <2> DEFINE sizes == SizeAt'
  <2>3. /\ New \notin Pending /\ \A e \in Pending : SizeAt[e] \in Int
        /\ sizes[New] = c.size /\ sizes[New] \in Int
        /\ \A e \in Pending \ {old} : sizes[e] = SizeAt[e]
        BY <1>2, <1>4, <1>7, <2>1, <2>2
  <2> HIDE DEF sizes
  <2>4. SumFunctionOnSet(sizes, (Pending \ {old}) \cup {New})
           = SumFunctionOnSet(SizeAt, Pending)
             - Taken(SizeAt, Pending, old) + sizes[New]
    <3>1. PICK S, f, h, x, y : S = Pending /\ f = SizeAt /\ h = sizes /\ x = old /\ y = New
          OBVIOUS
    <3>2. /\ IsFiniteSet(S) /\ y \notin S /\ \A e \in S : f[e] \in Int
          /\ h[y] \in Int /\ \A e \in S \ {x} : h[e] = f[e]
          BY <1>6, <2>3, <3>1
    <3>3. SumFunctionOnSet(h, (S \ {x}) \cup {y})
             = SumFunctionOnSet(f, S) - Taken(f, S, x) + h[y]
          BY <3>2, SumMoves
    <3>4. QED BY <3>1, <3>3
  <2>5. SizeOf(old) = Taken(SizeAt, Pending, old)
        BY <1>4, <1>5, <2>1 DEF SizeOf, Taken
  <2>6. window.bytes = BytesOf(Pending) BY DEF Counts
  <2>7. window.bytes - SizeOf(old) + c.size <= MaxBytes BY <1>1 DEF Admits, old
  <2>8. QED BY <1>3, <1>8, <2>1, <2>2, <2>3, <2>4, <2>5, <2>6, <2>7 DEF sizes
<1>15. QED BY <1>8, <1>9, <1>12, <1>13, <1>14 DEF Counts

\* A record is one more.
LEMMA RecordCounts ==
    ASSUME Base, Ledger, Counts, NEW t \in Tools, NEW c \in Content, RecordStep(t, c)
    PROVE  Counts'
<1>1. Enters(c, OwnerOf[t], 0) /\ RecordJoins /\ c.path = None BY DEF RecordStep
<1>2. /\ Ids' = Ids \cup {New} /\ New \notin Ids
      /\ \A i \in Ids : stored'[i] = stored[i]
      /\ stored'[New].path = None
      BY <1>1 DEF Enters, Stored
<1>3. /\ Range(window.ids) \subseteq Ids /\ Pending \subseteq Range(window.ids) /\ 0 \notin Ids
      BY PendingIn DEF Base
<1>4. Range(window.ids)' = Range(window.ids) \cup {New} BY <1>1, <1>3 DEF Enters
<1>5. /\ window.results' = window.results /\ Pending' = Pending
      /\ window.images' = window.images /\ window.bytes' = window.bytes
      /\ Len(window.ids)' = Len(window.ids) + 1
      /\ window.records' = window.records + 1 /\ window.records < MaxRecords
      BY <1>1 DEF RecordJoins, Pending
<1>6. \A id \in Pending : stored'[id] = stored[id] BY <1>2, <1>3
<1>7. ImagesOf(Pending)' = ImagesOf(Pending) BY <1>5, <1>6 DEF ImagesOf
<1>8. BytesOf(Pending)' = BytesOf(Pending)
  <2>1. [id \in Pending' |-> stored'[id].size] = [id \in Pending |-> stored[id].size]
        BY <1>5, <1>6
  <2>2. QED BY <2>1 DEF BytesOf
<1> DEFINE R == RecordsIn(Range(window.ids))
<1>9. RecordsIn(Range(window.ids))' = R \cup {New} /\ New \notin R
      BY <1>2, <1>3, <1>4 DEF RecordsIn, IsRecord
<1>10. R \subseteq Range(window.ids) BY DEF RecordsIn
<1> HIDE DEF R
<1>11. IsFiniteSet(R) BY <1>10, PendingFinite, FS_Subset DEF Base
<1>12. Cardinality(R \cup {New}) = Cardinality(R) + 1 /\ Cardinality(R) \in Nat
       BY <1>9, <1>11, FS_AddElement, FS_CardinalityType
<1>13. /\ Len(window.ids) = Len(window.results) + Cardinality(R)
       /\ window.records = Cardinality(R)
       /\ window.images = ImagesOf(Pending) /\ window.images <= MaxImages
       /\ window.bytes = BytesOf(Pending) /\ window.bytes <= MaxBytes
       BY DEF Counts, R
<1>14. Len(window.results) \in Nat /\ MaxRecords \in Nat
       BY LenProperties, ArtifactAssumption DEF Base, Typed, Windows, ArtifactAssumption
<1>15. Len(window.results)' = Len(window.results) BY <1>5
<1>16. Cardinality(RecordsIn(Range(window.ids)))' = Cardinality(R) + 1 BY <1>9, <1>12
<1>17. QED BY <1>5, <1>7, <1>8, <1>12, <1>13, <1>14, <1>15, <1>16 DEF Counts

\* The accounts of an empty window.
LEMMA EmptyCounts == window = EmptyWindow => Counts
<1> SUFFICES ASSUME window = EmptyWindow PROVE Counts OBVIOUS
<1>1. /\ window.ids = <<>> /\ window.results = <<>> /\ window.images = 0
      /\ window.bytes = 0 /\ window.records = 0
      BY DEF EmptyWindow
<1>2. Range(window.ids) = {} /\ Pending = {} BY <1>1, EmptyTyped DEF Pending
<1>3. RecordsIn(Range(window.ids)) = {} /\ ImagesOf(Pending) = Cardinality({})
      BY <1>2 DEF RecordsIn, ImagesOf
<1>4. BytesOf(Pending) = 0
  <2> DEFINE f == [id \in {} |-> stored[id].size]
  <2>1. BytesOf(Pending) = SumFunction(f) /\ DOMAIN f = {} BY <1>2 DEF BytesOf
  <2> HIDE DEF f
  <2>2. QED BY <2>1, SumEmpty DEF SumFunction
<1>5. Cardinality({}) = 0 BY FS_EmptySet
<1>6. Len(<<>>) = 0 OBVIOUS
<1>7. MaxImages \in Nat /\ MaxBytes \in Nat /\ MaxRecords \in Nat
      BY ArtifactAssumption DEF ArtifactAssumption
<1>8. Cardinality(RecordsIn(Range(window.ids))) = 0 /\ ImagesOf(Pending) = 0
      BY <1>3, <1>5
<1>9. Len(window.ids) = 0 /\ Len(window.results) = 0 BY <1>1, <1>6
<1>10. 0 <= MaxImages /\ 0 <= MaxBytes /\ 0 <= MaxRecords /\ 0 = 0 + 0 BY <1>7
<1>11. QED BY <1>1, <1>4, <1>8, <1>9, <1>10, Zenon DEF Counts

\* Every step keeps the accounts.
LEMMA CountsStep == Base /\ Ledger /\ Counts /\ [Next]_vars => Counts'
<1> SUFFICES ASSUME Base, Ledger, Counts, [Next]_vars PROVE Counts' OBVIOUS
<1>1. Base' /\ Ledger' BY BaseStep, LedgerStep
<1>2. ASSUME stored' = stored, window.ids' = window.ids, window.results' = window.results,
             window.images' = window.images, window.bytes' = window.bytes,
             window.records' = window.records
      PROVE  Counts'
      BY <1>2 DEF Counts, Pending, ImagesOf, BytesOf, RecordsIn, IsRecord
<1>3. CASE \E t \in Tools : ToolStep(t)
  <2>1. PICK t \in Tools : ToolStep(t) BY <1>3
  <2>2. ToolStore(t) BY <2>1, ToolStores
  <2>3. CASE StoreKept BY <1>2, <2>3 DEF StoreKept
  <2>4. QED BY <1>1, <2>2, <2>3, ResultCounts, RecordCounts DEF ToolStore, Base
<1>4. CASE window' = EmptyWindow
  <2>1. (window = EmptyWindow)' BY <1>4 DEF EmptyWindow
  <2>2. (window = EmptyWindow)' => Counts' BY EmptyCounts, PTL
  <2>3. QED BY <2>1, <2>2
<1>5. CASE \/ \E s \in Specialists : StartSpecialist(s) \/ EndSpecialist(s)
           \/ Drain \/ Pause \/ Resume \/ Finish \/ Abort \/ UNCHANGED vars
  <2>1. stored' = stored /\ window' = window
        BY <1>5 DEF StartSpecialist, EndSpecialist, Drain, Pause, Resume, Finish, Abort,
                    vars, store
  <2>2. QED BY <1>2, <2>1
<1>6. CASE BeginTurn \/ Claim \/ Restart
      BY <1>4, <1>6 DEF BeginTurn, Claim, Restart
<1>7. QED BY <1>3, <1>5, <1>6 DEF Next

-----------------------------------------------------------------------------
(* Answers and baselines.                                                  *)

Booked == Base /\ Ledger /\ Counts /\ Answers /\ Baselines

\* No step takes an artifact away or changes one.
LEMMA StoreGrows == Base /\ Ledger /\ [Next]_vars => Grows
<1> SUFFICES ASSUME Base, Ledger, [Next]_vars PROVE Grows OBVIOUS
<1>1. stored \in Seq(Artifacts) BY DEF Base, Typed
<1>2. CASE \E t \in Tools : ToolStep(t)
  <2>1. PICK t \in Tools : ToolStep(t) BY <1>2
  <2>2. ToolStore(t) BY <2>1, ToolStores
  <2>3. QED BY <1>1, <2>2
        DEF ToolStore, ResultStep, RecordStep, Enters, StoreKept, Grows, Ids
<1>3. CASE stored' = stored BY <1>1, <1>3 DEF Grows, Ids
<1>4. CASE \/ \E s \in Specialists : StartSpecialist(s) \/ EndSpecialist(s)
           \/ BeginTurn \/ Drain \/ Pause \/ Resume \/ Claim \/ Finish \/ Abort \/ Restart
           \/ UNCHANGED vars
      BY <1>3, <1>4
      DEF StartSpecialist, EndSpecialist, BeginTurn, Drain, Pause, Resume, Claim, Finish,
          Abort, Restart, vars, store
<1>5. QED BY <1>2, <1>4 DEF Next

\* An answer carries what the window holds, and the window one result of a path.
LEMMA AnswersStep == Base /\ Ledger /\ Answers /\ [Next]_vars => Answers'
<1> SUFFICES ASSUME Base, Ledger, Answers, [Next]_vars PROVE Answers' OBVIOUS
<1>1. Ids \subseteq Ids' /\ \A i \in Ids : stored'[i] = stored[i] BY StoreGrows DEF Grows
<1>2. \A i \in Ids : IsRecord(i)' <=> IsRecord(i) BY <1>1 DEF IsRecord
<1>3. /\ Range(window.ids) \subseteq Ids /\ Pending \subseteq Range(window.ids)
      BY PendingIn DEF Base
<1>4. ASSUME NEW set, set \subseteq Ids, \A id \in set : stored[id].at = turn,
             \A a, b \in set : ~IsRecord(a) /\ stored[a].path = stored[b].path => a = b,
             attached' = [attached EXCEPT ![turn] = set]
      PROVE  /\ \A t \in 1..MaxTurns : \A id \in attached'[t] :
                   id \in Ids' /\ stored'[id].at = t
             /\ \A t \in 1..MaxTurns : \A a, b \in attached'[t] :
                   ~IsRecord(a)' /\ stored'[a].path = stored'[b].path => a = b
  <2>1. attached \in [1..MaxTurns -> SUBSET Nat] BY DEF Base, Typed
  <2>2. SUFFICES ASSUME NEW t \in 1..MaxTurns
                 PROVE  /\ \A id \in attached'[t] : id \in Ids' /\ stored'[id].at = t
                        /\ \A a, b \in attached'[t] :
                              ~IsRecord(a)' /\ stored'[a].path = stored'[b].path => a = b
        OBVIOUS
  <2>3. CASE t = turn
    <3>1. attached'[t] = set BY <1>4, <2>1, <2>3
    <3>2. \A a \in set : a \in Ids' /\ stored'[a] = stored[a] /\ (IsRecord(a)' <=> IsRecord(a))
          BY <1>1, <1>2, <1>4
    <3>3. QED BY <1>4, <2>3, <3>1, <3>2
  <2>4. CASE t # turn
    <3>1. attached'[t] = attached[t] BY <1>4, <2>1, <2>4
    <3>2. \A id \in attached[t] : id \in Ids /\ stored[id].at = t BY DEF Answers
    <3>3. \A a, b \in attached[t] : ~IsRecord(a) /\ stored[a].path = stored[b].path => a = b
          BY DEF Answers
    <3>4. \A a \in attached[t] :
             a \in Ids' /\ stored'[a] = stored[a] /\ (IsRecord(a)' <=> IsRecord(a))
          BY <1>1, <1>2, <3>2
    <3>5. QED BY <3>1, <3>2, <3>3, <3>4
  <2>5. QED BY <2>3, <2>4
<1>5. /\ \A t \in 1..MaxTurns : \A id \in attached'[t] : id \in Ids' /\ stored'[id].at = t
      /\ \A t \in 1..MaxTurns : \A a, b \in attached'[t] :
            ~IsRecord(a)' /\ stored'[a].path = stored'[b].path => a = b
  <2>1. CASE attached' = attached
    <3>1. \A t \in 1..MaxTurns : \A id \in attached[t] :
             /\ id \in Ids /\ id \in Ids' /\ stored[id].at = t
             /\ stored'[id] = stored[id] /\ (IsRecord(id)' <=> IsRecord(id))
          BY <1>1, <1>2 DEF Answers
    <3>2. \A t \in 1..MaxTurns : \A a, b \in attached[t] :
             ~IsRecord(a) /\ stored[a].path = stored[b].path => a = b
          BY DEF Answers
    <3>3. QED BY <2>1, <3>1, <3>2
  <2>2. CASE Claim
    <3>1. attached' = [attached EXCEPT ![turn] = Range(window.ids)] BY <2>2 DEF Claim
    <3>2. \A id \in Range(window.ids) : stored[id].at = turn BY DEF Ledger
    <3>3. ASSUME NEW a \in Range(window.ids), NEW b \in Range(window.ids),
                 ~IsRecord(a), stored[a].path = stored[b].path
          PROVE  a = b
      <4>1. a \in Pending /\ b \in Pending BY <3>3 DEF Ledger, ResultsIn, IsRecord
      <4>2. window.byPath[stored[a].path] = a /\ window.byPath[stored[b].path] = b
            BY <4>1 DEF Ledger
      <4>3. QED BY <3>3, <4>2
    <3>4. QED BY <1>3, <1>4, <3>1, <3>2, <3>3
  <2>3. attached' = attached \/ Claim
    <3>1. \A t \in Tools : ToolStep(t) => ToolKeeps BY ToolMoves DEF ToolMove
    <3>2. QED BY <3>1
          DEF Next, ToolKeeps, StartSpecialist, EndSpecialist, BeginTurn, Drain, Pause,
              Resume, Finish, Abort, Restart, vars
  <2>4. QED BY <2>1, <2>2, <2>3
<1>6. \A s \in Specialists : reported'[s] \subseteq Ids'
  <2>1. CASE reported' = reported BY <1>1, <2>1 DEF Answers
  <2>2. CASE \E s \in Specialists : EndSpecialist(s)
    <3>1. PICK s \in Specialists : EndSpecialist(s) BY <2>2
    <3>2. reported' = [reported EXCEPT ![s] = Pending \ delegate[s].baseline]
          BY <3>1 DEF EndSpecialist
    <3>3. reported \in [Specialists -> SUBSET Nat] BY DEF Base, Typed
    <3>4. QED BY <1>1, <1>3, <3>2, <3>3 DEF Answers
  <2>3. CASE reported' = [s \in Specialists |-> {}] BY <2>3
  <2>4. reported' = reported \/ (\E s \in Specialists : EndSpecialist(s))
           \/ reported' = [s \in Specialists |-> {}]
    <3>1. \A t \in Tools : ToolStep(t) => reported' = reported
          BY ToolMoves DEF ToolMove, ToolKeeps, delegation
    <3>2. QED BY <3>1
          DEF Next, StartSpecialist, BeginTurn, Drain, Pause,
              Resume, Claim, Finish, Abort, Restart, vars, delegation
  <2>5. QED BY <2>1, <2>2, <2>3, <2>4
<1>7. QED BY <1>5, <1>6 DEF Answers

\* A baseline is made of what is pending when a specialist begins.
LEMMA BaselinesStep == Base /\ Ledger /\ Baselines /\ [Next]_vars => Baselines'
<1> SUFFICES ASSUME Base, Ledger, Baselines, [Next]_vars PROVE Baselines' OBVIOUS
<1>1. Ids \subseteq Ids' /\ \A i \in Ids : stored'[i] = stored[i] BY StoreGrows DEF Grows
<1>2. SUFFICES ASSUME NEW s \in Specialists, NEW id \in delegate'[s].baseline
               PROVE  /\ id \in Ids /\ ~IsRecord(id)
                      /\ stored[id].version <= delegate'[s].since[stored[id].path]
      BY <1>1 DEF Baselines, IsRecord
<1>3. CASE delegate'[s] = delegate[s] BY <1>2, <1>3 DEF Baselines
<1>4. CASE delegate'[s].baseline = {} BY <1>2, <1>4
<1>5. CASE StartSpecialist(s)
  <2>1. delegate' = [delegate EXCEPT ![s] =
           [working |-> "yes", baseline |-> Pending,
            since |-> [p \in Paths |-> file[p].version]]]
        BY <1>5 DEF StartSpecialist
  <2>2. /\ delegate'[s].baseline = Pending
        /\ delegate'[s].since = [p \in Paths |-> file[p].version]
        BY <2>1 DEF Base, Typed
  <2>3. /\ id \in Ids /\ ~IsRecord(id) /\ stored[id].path \in Paths
        BY <1>2, <2>2, PendingIn DEF Base
  <2>4. stored[id].version <= file[stored[id].path].version BY <2>3 DEF Ledger
  <2>5. QED BY <2>2, <2>3, <2>4
<1>6. delegate'[s] = delegate[s] \/ delegate'[s].baseline = {} \/ StartSpecialist(s)
  <2>1. CASE \E t \in Tools : ToolStep(t)
        BY <2>1, ToolMoves DEF ToolMove, ToolKeeps, delegation
  <2>2. CASE \E r \in Specialists : StartSpecialist(r)
        BY <2>2 DEF StartSpecialist, Base, Typed
  <2>3. CASE \E r \in Specialists : EndSpecialist(r)
    <3>1. PICK r \in Specialists : EndSpecialist(r) BY <2>3
    <3>2. delegate' = [delegate EXCEPT ![r] = [Off EXCEPT !.working = "ended"]]
          BY <3>1 DEF EndSpecialist
    <3>3. [Off EXCEPT !.working = "ended"].baseline = {} BY DEF Off
    <3>4. QED BY <3>2, <3>3 DEF Base, Typed
  <2>4. CASE delegate' = delegate \/ delegate' = [r \in Specialists |-> Off]
        BY <2>4, OffTyped
  <2>5. CASE BeginTurn \/ Drain \/ Pause \/ Resume \/ Claim \/ Finish \/ Abort \/ Restart
             \/ UNCHANGED vars
        BY <2>4, <2>5
        DEF BeginTurn, Drain, Pause, Resume, Claim, Finish, Abort, Restart, vars, delegation
  <2>6. QED BY <2>1, <2>2, <2>3, <2>5 DEF Next
<1>7. QED BY <1>3, <1>4, <1>5, <1>6

\* In the beginning nothing is stored.
LEMMA BookedInit == Init => Booked
<1> SUFFICES ASSUME Init PROVE Booked OBVIOUS
<1>1. Base BY BaseInit
<1>2. /\ stored = <<>> /\ window = EmptyWindow /\ events = <<>> /\ live = <<>> /\ Ids = {}
      BY DEF Init, Ids
<1>3. Increasing(<<>>) BY DEF Increasing
<1>4. /\ window.ids = <<>> /\ window.results = <<>> /\ \A p \in Paths : window.byPath[p] = 0
      BY <1>2 DEF EmptyWindow
<1>5. Range(window.ids) = {} /\ Pending = {} /\ Range(events) = {} /\ Range(live) = {}
      BY <1>2, <1>4, EmptyTyped DEF Pending
<1>6. Ledger BY <1>2, <1>3, <1>4, <1>5 DEF Ledger, ResultsIn
<1>7. Counts BY <1>2, EmptyCounts
<1>8. Answers BY DEF Init, Answers
<1>9. Baselines BY OffTyped DEF Init, Baselines
<1>10. QED BY <1>1, <1>6, <1>7, <1>8, <1>9 DEF Booked

\* The parts together are inductive.
LEMMA BookedHolds == Spec => []Booked
<1>1. Booked /\ [Next]_vars => Booked'
      BY BaseStep, LedgerStep, CountsStep, AnswersStep, BaselinesStep DEF Booked
<1>2. QED BY BookedInit, <1>1, PTL DEF Spec

\* What the invariant says about types.
LEMMA BookedTypes == Booked => TypeOK
<1> SUFFICES ASSUME Booked PROVE TypeOK OBVIOUS
<1>1. Typed /\ Ledger /\ Counts /\ Answers /\ Baselines BY DEF Booked, Base
<1>2. \A id \in Ids : stored[id] \in Artifacts BY <1>1, IdsAre
<1>3. window.byPath \in [Paths -> Ids \cup {0}]
  <2>1. window.byPath \in [Paths -> Nat] BY <1>1 DEF Typed, Windows
  <2>2. \A p \in Paths : window.byPath[p] \in Ids \cup {0} BY <1>1, PendingIn DEF Ledger
  <2>3. QED BY <2>1, <2>2
<1>4. {window.images, window.bytes, window.records, window.undelivered,
       window.omitted} \subseteq Nat
  <2>1. /\ window.records \in Nat /\ window.undelivered \in Nat /\ window.omitted \in Nat
        BY <1>1 DEF Typed, Windows
  <2>2. window.bytes \in Nat BY <1>1, BytesAre DEF Sized, Counts
  <2>3. window.images \in Nat
    <3> DEFINE I == {id \in Pending : stored[id].path \in Images}
    <3>1. IsFiniteSet(I) BY <1>1, PendingFinite, FS_Subset
    <3>2. Cardinality(I) \in Nat BY <3>1, FS_CardinalityType
    <3>3. QED BY <1>1, <3>2 DEF Counts, ImagesOf
  <2>4. QED BY <2>1, <2>2, <2>3
<1>5. \A t \in 1..MaxTurns : attached[t] \subseteq Ids BY <1>1 DEF Answers
<1>6. \A s \in Specialists :
          /\ delegate[s].working \in {"no", "yes", "ended"}
          /\ delegate[s].baseline \cup reported[s] \subseteq Ids
      BY <1>1 DEF Typed, Delegates, Answers, Baselines
<1>7. /\ Range(window.ids) \subseteq Ids /\ Range(events) \cup Range(live) \subseteq Ids
      BY <1>1 DEF Ledger
<1>8. (\A w \in told \cup lost : w[1] \in Paths) /\ astray \subseteq Commands BY <1>1 DEF Typed
<1>9. \A t \in Tools : hold[t] \in Content BY <1>1 DEF Typed
<1>10. place \in [Tools -> {"idle", "held", "running", "reading", "ended"}]
       /\ file \in [Paths -> [version : 0..MaxWrites, size : Nat]]
       BY <1>1 DEF Typed, Places, Files
<1>11. /\ phase \in {"idle", "running", "paused", "answered", "finished"}
       /\ turn \in 0..MaxTurns /\ restarted \in BOOLEAN /\ breaks \in 0..MaxBreaks
       BY <1>1 DEF Typed
<1>12. QED
       BY <1>2, <1>3, <1>4, <1>5, <1>6, <1>7, <1>8, <1>9, <1>10, <1>11 DEF TypeOK, Artifacts

\* Every id in a list, an answer or a report is one of the store's.
THEOREM ArtifactsTyped == Spec => []TypeOK
BY BookedHolds, BookedTypes, PTL

\* The counters of a window are those of the results and records it holds,
\* within the limits, and a path has one result, through any refusals and
\* rewrites (_PendingTurn).
THEOREM WindowIsExact == Spec => []WindowExact
<1>1. Booked => WindowExact
  <2> SUFFICES ASSUME Booked PROVE WindowExact OBVIOUS
  <2> DEFINE records == {id \in Range(window.ids) : IsRecord(id)}
  <2>1. Typed /\ Ledger /\ Counts BY DEF Booked, Base
  <2>2. records = RecordsIn(Range(window.ids)) BY DEF RecordsIn
  <2>3. Range(window.ids) = Pending \cup records BY <2>1 DEF Ledger, ResultsIn
  <2>4. ASSUME NEW p \in Paths
        PROVE  {id \in Pending : stored[id].path = p} = {window.byPath[p]} \ {0}
    <3>1. \A id \in Pending : id # 0 /\ window.byPath[stored[id].path] = id
          BY <2>1, PendingIn DEF Ledger
    <3>2. window.byPath[p] # 0 => /\ window.byPath[p] \in Pending
                                  /\ stored[window.byPath[p]].path = p
          BY <2>1 DEF Ledger
    <3>3. QED BY <3>1, <3>2
  <2> HIDE DEF records
  <2>5. QED BY <2>1, <2>2, <2>3, <2>4 DEF WindowExact, Counts, records
<1>2. QED BY BookedHolds, <1>1, PTL

\* What an earlier turn left behind never attaches itself to an answer
\* (begin_turn, claim_for_message).
THEOREM AnswersOfTheirTurn == Spec => []TurnsApart
<1>1. Booked => TurnsApart BY DEF Booked, Answers, TurnsApart
<1>2. QED BY BookedHolds, <1>1, PTL

\* A specialist lists every version its tools made and the user will receive,
\* whoever registered the path before (_own_artifacts).
THEOREM RewritesAreReported == Spec => ReportsRewrites
<1> DEFINE Reports(s) ==
       delegate[s].working = "yes" /\ delegate'[s].working = "ended"
         => \A id \in Pending :
               stored[id].by = s /\ stored[id].turn = turn
                  /\ stored[id].version > delegate[s].since[stored[id].path]
               => id \in reported'[s]
<1>1. ASSUME Booked, [Next]_vars, NEW s \in Specialists PROVE Reports(s)
  <2> SUFFICES ASSUME delegate[s].working = "yes", delegate'[s].working = "ended",
                      NEW id \in Pending,
                      stored[id].version > delegate[s].since[stored[id].path]
               PROVE  id \in reported'[s]
      OBVIOUS
  <2>1. EndSpecialist(s)
    <3>1. CASE \E t \in Tools : ToolStep(t)
          BY <1>1, <3>1, ToolMoves DEF ToolMove, ToolKeeps, delegation, Booked
    <3>2. CASE \E r \in Specialists : StartSpecialist(r)
          BY <1>1, <3>2 DEF StartSpecialist, Booked, Base, Typed
    <3>3. CASE \E r \in Specialists : EndSpecialist(r)
      <4>1. PICK r \in Specialists : EndSpecialist(r) BY <3>3
      <4>2. delegate' = [delegate EXCEPT ![r] = [Off EXCEPT !.working = "ended"]]
            BY <4>1 DEF EndSpecialist
      <4>3. r # s => delegate'[s] = delegate[s] BY <1>1, <4>2 DEF Booked, Base, Typed
      <4>4. QED BY <4>1, <4>3
    <3>4. CASE delegate' = delegate \/ delegate' = [r \in Specialists |-> Off]
          BY <3>4, OffTyped
    <3>5. CASE BeginTurn \/ Drain \/ Pause \/ Resume \/ Claim \/ Finish \/ Abort \/ Restart
               \/ UNCHANGED vars
          BY <3>4, <3>5
          DEF BeginTurn, Drain, Pause, Resume, Claim, Finish, Abort, Restart, vars, delegation
    <3>6. QED BY <1>1, <3>1, <3>2, <3>3, <3>5 DEF Next
  <2>2. reported'[s] = Pending \ delegate[s].baseline
        BY <1>1, <2>1 DEF EndSpecialist, Booked, Base, Typed
  <2>3. id \notin delegate[s].baseline
    <3>1. id \in Ids /\ stored[id].path \in Paths /\ stored[id] \in Artifacts
          BY <1>1, PendingIn DEF Booked, Base
    <3>2. stored[id].version \in Nat /\ delegate[s].since[stored[id].path] \in Nat
          BY <1>1, <3>1 DEF Artifacts, Booked, Base, Typed, Delegates
    <3>3. SUFFICES ASSUME id \in delegate[s].baseline PROVE FALSE OBVIOUS
    <3>4. stored[id].version <= delegate[s].since[stored[id].path]
          BY <1>1, <3>3 DEF Booked, Baselines
    <3>5. QED BY <3>2, <3>4
  <2>4. QED BY <2>2, <2>3
<1>2. Booked /\ [Next]_vars => [\A s \in Specialists : Reports(s)]_vars BY <1>1
<1>3. QED BY BookedHolds, <1>2, PTL DEF Spec, ReportsRewrites

-----------------------------------------------------------------------------
(* The latest version.                                                     *)

\* Coming and Overtaken of a path in the next state.
ComingNext(p) ==
    \/ <<p, file'[p].version>> \in told' \cup lost'
    \/ \E t \in Tools : /\ place'[t] \in {"held", "reading"} /\ hold'[t].path = p
                       /\ hold'[t].version = file'[p].version
OvertakenNext(p) ==
    \E i \in Ids' : /\ stored'[i].path = p /\ stored'[i].version = file'[p].version
                    /\ stored'[i].at = turn' /\ stored'[i].turn # turn'

\* What is to be shown of a step.
LEMMA TidingsNext ==
    ASSUME \A t \in Tools : place'[t] = "held" => ComingNext(hold'[t].path),
           \A id \in Pending' : Latest(id)' \/ ComingNext(stored'[id].path),
           phase' \in {"answered", "finished"} => \A id \in ResultsIn(attached[turn])' :
              Latest(id)' \/ ComingNext(stored'[id].path) \/ OvertakenNext(stored'[id].path)
    PROVE  Tidings'
BY DEF Tidings, Coming, ComingNext, Overtaken, OvertakenNext

\* A tool registers the latest version of a path.
Delivers(t, p) == \E c \in Content : /\ ResultStep(t, c)
                                     /\ c.path = p /\ c.version = file[p].version

\* Who registers a result publishes or attaches it.
LEMMA WhoRegisters ==
    ASSUME NEW t \in Tools, ToolStep(t), NEW c \in Content, ResultStep(t, c)
    PROVE  (Publish(t) \/ Attach(t)) /\ file' = file
<1>1. place[t] = "held" BY DEF ResultStep
<1>2. stored' # stored BY DEF ResultStep, Enters, Ids
<1>3. ~ResultLost(t) /\ ~StrayRuns(t) BY <1>2 DEF ResultLost, StrayRuns, store
<1>4. Publish(t) \/ Attach(t)
      BY <1>1, <1>3
      DEF ToolStep, Write, StartCommand, CommandRuns, Collect, EndCommand, CallGivesUp, Move
<1>5. QED BY <1>4 DEF Publish, Attach

\* A new version of a path is coming.
LEMMA WrittenComes ==
    ASSUME Base, NEW t \in Tools, ToolStep(t), NEW p \in Paths,
           file'[p].version # file[p].version
    PROVE  ComingNext(p)
<1>1. place \in [Tools -> Places] /\ hold \in [Tools -> Content] BY DEF Base, Typed
<1>2. CASE \E q \in Paths : \E size \in SizesOf[q] : t \in Writers /\ Write(t, q, size)
  <2>1. PICK q \in Paths : \E size \in SizesOf[q] : Write(t, q, size) BY <1>2
  <2>2. PICK size \in SizesOf[q] : Write(t, q, size) BY <2>1
  <2>3. PutFile(q, size) BY <2>2 DEF Write
  <2>4. q = p BY <2>3, PutFileMakes DEF Base
  <2>5. place'[t] = "held" /\ hold'[t] = Held(p) BY <1>1, <2>2, <2>4 DEF Write, Move
  <2>6. hold'[t].path = p /\ hold'[t].version = file'[p].version BY <2>5 DEF Held
  <2>7. QED BY <2>5, <2>6 DEF Coming, ComingNext
<1>3. CASE CommandRuns(t)
  <2>1. PICK q \in Paths : \E size \in SizesOf[q] :
           /\ PutFile(q, size) /\ Move(t, "running", "reading")
           /\ hold' = [hold EXCEPT ![t] = [Held(q) EXCEPT !.turn = hold[t].turn]]
        BY <1>3 DEF CommandRuns
  <2>2. q = p BY <2>1, PutFileMakes DEF Base
  <2>3. /\ place'[t] = "reading" /\ hold'[t].path = p
        /\ hold'[t].version = file'[p].version
        BY <1>1, <2>1, <2>2 DEF Move, Held
  <2>4. QED BY <2>3 DEF Coming, ComingNext
<1>4. CASE StrayRuns(t)
  <2>1. PICK q \in Paths : \E size \in SizesOf[q] :
           PutFile(q, size) /\ lost' = lost \cup {<<q, file'[q].version>>}
        BY <1>4 DEF StrayRuns
  <2>2. q = p BY <2>1, PutFileMakes DEF Base
  <2>3. QED BY <2>1, <2>2 DEF ComingNext
<1>5. CASE \/ Publish(t) \/ StartCommand(t) \/ Collect(t) \/ Attach(t) \/ EndCommand(t)
           \/ CallGivesUp(t) \/ ResultLost(t)
      BY <1>5
      DEF Publish, StartCommand, Collect, Attach, EndCommand, CallGivesUp, ResultLost
<1>6. QED BY <1>2, <1>3, <1>4, <1>5 DEF ToolStep

\* What is coming stays so until it is delivered.
LEMMA ComingStays ==
    ASSUME Base, Ledger, NEW t \in Tools, ToolStep(t), NEW p \in Paths, Coming(p)
    PROVE  ComingNext(p) \/ Delivers(t, p)
<1>1. place \in [Tools -> Places] /\ hold \in [Tools -> Content] BY DEF Base, Typed
<1>2. PICK to \in Places, c \in Content : Takes(t, to, c) BY ToolMoves DEF ToolMove
<1>3. \A u \in Tools : u # t => place'[u] = place[u] /\ hold'[u] = hold[u]
      BY <1>1, <1>2 DEF Takes
<1>4. CASE file'[p].version # file[p].version BY <1>4, WrittenComes
<1>5. CASE file'[p].version = file[p].version
  <2>1. told \subseteq told' /\ lost \subseteq lost' BY ToolMoves DEF ToolMove, Versions
  <2>2. CASE <<p, file[p].version>> \in told \cup lost
        BY <1>5, <2>1, <2>2 DEF Coming, ComingNext
  <2>3. CASE \E u \in Tools \ {t} : /\ place[u] \in {"held", "reading"} /\ hold[u].path = p
                                    /\ hold[u].version = file[p].version
        BY <1>3, <1>5, <2>3 DEF Coming, ComingNext
  <2>4. CASE ResultLost(t) /\ hold[t].path = p /\ hold[t].version = file[p].version
        BY <1>5, <2>4 DEF ResultLost, ComingNext
  <2>5. CASE StrayRuns(t) /\ hold[t].path = p /\ hold[t].version = file[p].version
             /\ place[t] \in {"held", "reading"}
        BY <1>5, <2>5 DEF StrayRuns, ComingNext
  <2>6. CASE /\ hold[t].path = p /\ place[t] = "held" /\ hold[t].version = file[p].version
             /\ ~ResultLost(t) /\ ~StrayRuns(t)
    <3>1. Publish(t) \/ Attach(t)
          BY <2>6
          DEF ToolStep, Write, StartCommand, CommandRuns, Collect, EndCommand, CallGivesUp, Move
    <3>2. \/ RegisterResult(hold[t], OwnerOf[t])
          \/ told' = told \cup {<<hold[t].path, hold[t].version>>}
          BY <3>1 DEF Publish, Attach
    <3>3. CASE RegisterResult(hold[t], OwnerOf[t])
          BY <2>6, <3>3, ToolRegisters DEF Delivers
    <3>4. CASE told' = told \cup {<<hold[t].path, hold[t].version>>}
          BY <1>5, <2>6, <3>4 DEF Coming, ComingNext
    <3>5. QED BY <3>2, <3>3, <3>4
  <2>7. CASE hold[t].path = p /\ place[t] = "reading" /\ ~ResultLost(t) /\ ~StrayRuns(t)
    <3>1. Collect(t)
          BY <2>7
          DEF ToolStep, Write, Publish, StartCommand, CommandRuns, Attach, EndCommand,
              CallGivesUp, Move
    <3>2. CASE /\ Move(t, "reading", "held")
               /\ hold' = [hold EXCEPT ![t] = [path |-> p, version |-> file[p].version,
                               size |-> file[p].size, turn |-> @.turn]]
      <4>1. place'[t] = "held" /\ hold'[t].path = p /\ hold'[t].version = file[p].version
            BY <1>1, <3>2 DEF Move
      <4>2. QED BY <1>5, <4>1 DEF Coming, ComingNext
    <3>3. CASE told' = told \cup {<<p, file[p].version>>} BY <1>5, <3>3 DEF Coming, ComingNext
    <3>4. QED BY <2>7, <3>1, <3>2, <3>3 DEF Collect
  <2>8. QED BY <2>2, <2>3, <2>4, <2>5, <2>6, <2>7 DEF Coming, ComingNext
<1>6. QED BY <1>4, <1>5

\* What a tool that comes to hold a version holds is the latest.
LEMMA HeldIsLatest ==
    ASSUME Base, NEW t \in Tools, ToolStep(t), ~StrayRuns(t), place'[t] = "held"
    PROVE  hold'[t].path \in Paths /\ ComingNext(hold'[t].path)
<1>1. place \in [Tools -> Places] /\ hold \in [Tools -> Content] BY DEF Base, Typed
<1>2. CASE \E q \in Paths : \E size \in SizesOf[q] : t \in Writers /\ Write(t, q, size)
  <2>1. PICK q \in Paths : \E size \in SizesOf[q] : Write(t, q, size) BY <1>2
  <2>2. hold'[t] = Held(q) BY <1>1, <2>1 DEF Write
  <2>3. hold'[t].path = q /\ hold'[t].version = file'[q].version BY <2>2 DEF Held
  <2>4. QED BY <1>2, <2>3 DEF Coming, ComingNext
<1>3. CASE Collect(t)
  <2>1. hold[t].path \in Paths /\ file' = file
        BY <1>3 DEF Collect, Move, Base, Hands
  <2>2. /\ hold'[t].path = hold[t].path
        /\ hold'[t].version = file[hold[t].path].version
        BY <1>1, <1>3 DEF Collect, Move
  <2>3. QED BY <2>1, <2>2 DEF Coming, ComingNext
<1>4. CASE \/ Publish(t) \/ StartCommand(t) \/ CommandRuns(t) \/ Attach(t) \/ EndCommand(t)
           \/ CallGivesUp(t) \/ ResultLost(t)
      BY <1>1, <1>4
      DEF Publish, StartCommand, CommandRuns, Attach, EndCommand, CallGivesUp, ResultLost, Move
<1>5. QED BY <1>2, <1>3, <1>4 DEF ToolStep

\* Versions leave the tools in order.
LEMMA DeliversInOrder ==
    ASSUME Base, InOrder = TRUE, NEW t \in Tools, ToolStep(t), NEW p \in Paths,
           Delivers(t, p), NEW u \in Tools, u # t, place[u] = "held", hold[u].path = p
    PROVE  ComingNext(p)
<1>1. PICK c \in Content : /\ ResultStep(t, c)
                           /\ c.path = p /\ c.version = file[p].version
      BY DEF Delivers
<1>2. c = hold[t] /\ place[t] = "held" BY <1>1 DEF ResultStep
<1>3. Publish(t) \/ Attach(t) BY <1>1, WhoRegisters
<1>4. MyTurn(t) /\ file' = file BY <1>3 DEF Publish, Attach
<1>5. hold[u].version >= file[p].version BY <1>1, <1>2, <1>4 DEF MyTurn
<1>6. hold[u].version <= file[p].version BY DEF Base, Hands
<1>7. file[p] \in Files /\ hold[u] \in Content BY DEF Base, Typed
<1>8. hold[u].version \in Nat /\ file[p].version \in Nat
      BY <1>7, ArtifactAssumption DEF Base, Typed, Content, Files
<1>9. hold[u].version = file[p].version BY <1>5, <1>6, <1>8
<1>10. PICK to \in Places, d \in Content : Takes(t, to, d) BY ToolMoves DEF ToolMove
<1>11. place'[u] = "held" /\ hold'[u] = hold[u] BY <1>10 DEF Takes, Base, Typed
<1>12. QED BY <1>4, <1>9, <1>11 DEF Coming, ComingNext

\* A tool does not make the latest version vanish.
LEMMA ToolTidings ==
    ASSUME Booked, InOrder = TRUE, Tidings, NEW t \in Tools, ToolStep(t)
    PROVE  Tidings'
<1>1. Base /\ Ledger /\ Answers /\ Typed BY DEF Booked, Base
<1>2. /\ ToolKeeps /\ \A u \in Tools : u # t => place'[u] = place[u] /\ hold'[u] = hold[u]
  <2>1. PICK to \in Places, c \in Content : Takes(t, to, c)
        BY <1>1, ToolMoves DEF ToolMove
  <2>2. QED BY <1>1, <2>1, ToolMoves DEF ToolMove, Takes, Typed
<1>3. \A p \in Paths : Coming(p) => ComingNext(p) \/ Delivers(t, p) BY <1>1, ComingStays
<1>4. \A p \in Paths : file'[p].version # file[p].version => ComingNext(p)
      BY <1>1, WrittenComes
<1>5. /\ Ids \subseteq Ids' /\ \A i \in Ids : stored'[i] = stored[i]
      BY <1>1, StoreGrows DEF Next, Grows
<1>6. /\ \A id \in Ids : ~IsRecord(id) => stored[id].path \in Paths
      /\ \A id \in Pending : stored[id].path \in Paths /\ ~IsRecord(id) /\ id \in Ids
      BY <1>1, PendingIn
<1>7. \A u \in Tools : place[u] = "held" => hold[u].path \in Paths BY <1>1 DEF Base, Hands
<1>8. \A u \in Tools : place'[u] = "held" => ComingNext(hold'[u].path)
  <2> SUFFICES ASSUME NEW u \in Tools, place'[u] = "held" PROVE ComingNext(hold'[u].path)
      OBVIOUS
  <2>1. CASE u = t /\ ~StrayRuns(t) BY <1>1, <2>1, HeldIsLatest
  <2>2. CASE u = t /\ StrayRuns(t)
    <3> DEFINE p == hold[t].path
    <3>1. /\ place[t] = "held" /\ hold'[t].path = p /\ p \in Paths /\ stored' = stored
          BY <1>7, <2>2 DEF StrayRuns, store
    <3>2. ~Delivers(t, p) BY <3>1 DEF Delivers, ResultStep, Enters, Ids
    <3>3. Coming(p) BY <3>1 DEF Tidings
    <3>4. QED BY <1>3, <2>2, <3>1, <3>2, <3>3
  <2>3. CASE u # t
    <3> DEFINE p == hold[u].path
    <3>1. place[u] = "held" /\ hold'[u].path = p /\ p \in Paths BY <1>2, <1>7, <2>3
    <3>2. Coming(p) BY <3>1 DEF Tidings
    <3>3. Delivers(t, p) => ComingNext(p) BY <1>1, <2>3, <3>1, DeliversInOrder
    <3>4. QED BY <1>3, <3>1, <3>2, <3>3
  <2>4. QED BY <2>1, <2>2, <2>3
<1>9. \A id \in Pending' : Latest(id)' \/ ComingNext(stored'[id].path)
  <2> SUFFICES ASSUME NEW id \in Pending' PROVE Latest(id)' \/ ComingNext(stored'[id].path)
      OBVIOUS
  <2>1. ASSUME id \in Pending, ~Delivers(t, stored[id].path)
        PROVE  Latest(id)' \/ ComingNext(stored'[id].path)
    <3>1. stored'[id] = stored[id] /\ stored[id].path \in Paths BY <1>5, <1>6, <2>1
    <3>2. Latest(id) \/ Coming(stored[id].path) BY <2>1 DEF Tidings
    <3>3. QED BY <1>3, <1>4, <2>1, <3>1, <3>2 DEF Latest
  <2>2. CASE \E c \in Content : ResultStep(t, c)
    <3>1. PICK c \in Content : ResultStep(t, c) BY <2>2
    <3>2. /\ c = hold[t] /\ place[t] = "held" /\ c.path \in Paths
          /\ Pending' = (Pending \ {window.byPath[c.path]}) \cup {New}
          /\ stored'[New].path = c.path /\ stored'[New].version = c.version
          BY <3>1 DEF ResultStep, Renews, Enters, Stored, Replacing
    <3>3. CASE id = New
      <4>1. file' = file BY <3>1, WhoRegisters
      <4>2. CASE c.version = file[c.path].version BY <3>2, <3>3, <4>1, <4>2 DEF Latest
      <4>3. CASE c.version # file[c.path].version
        <5>1. Coming(c.path) BY <3>2 DEF Tidings
        <5>2. ~Delivers(t, c.path) BY <3>2, <4>3 DEF Delivers, ResultStep
        <5>3. QED BY <1>3, <3>2, <3>3, <5>1, <5>2
      <4>4. QED BY <4>2, <4>3
    <3>4. CASE id # New
      <4>1. id \in Pending /\ id # window.byPath[c.path] BY <3>2, <3>4
      <4>2. stored[id].path # c.path BY <1>1, <4>1 DEF Ledger
      <4>3. ~Delivers(t, stored[id].path) BY <3>2, <4>2 DEF Delivers, ResultStep
      <4>4. QED BY <2>1, <4>1, <4>3
    <3>5. QED BY <3>3, <3>4
  <2>3. CASE ~\E c \in Content : ResultStep(t, c)
    <3>1. Pending' = Pending
          BY <1>1, <2>3, ToolStores DEF ToolStore, RecordStep, RecordJoins, StoreKept, Pending
    <3>2. ~Delivers(t, stored[id].path) BY <2>3 DEF Delivers
    <3>3. QED BY <2>1, <3>1, <3>2
  <2>4. QED BY <2>2, <2>3
<1>10. ASSUME phase' \in {"answered", "finished"}, NEW id \in ResultsIn(attached[turn])'
       PROVE  Latest(id)' \/ ComingNext(stored'[id].path) \/ OvertakenNext(stored'[id].path)
  <2>1. phase' = phase /\ turn' = turn /\ attached' = attached
        BY <1>2 DEF ToolKeeps, conversation
  <2>2. turn \in 1..MaxTurns BY <1>1, <1>10, <2>1 DEF Base, Begun
  <2>3. id \in attached[turn] /\ id \in Ids BY <1>1, <1>10, <2>1, <2>2 DEF ResultsIn, Answers
  <2>4. id \in ResultsIn(attached[turn]) /\ stored'[id] = stored[id] /\ ~IsRecord(id)
        BY <1>5, <1>10, <2>3 DEF ResultsIn, IsRecord
  <2> DEFINE p == stored[id].path
  <2>5. p \in Paths /\ stored'[id].path = p BY <1>6, <2>3, <2>4
  <2>6. Latest(id) \/ Coming(p) \/ Overtaken(p) BY <1>10, <2>1, <2>4 DEF Tidings
  <2>7. CASE Latest(id) BY <1>4, <2>4, <2>5, <2>7 DEF Latest
  <2>8. CASE Coming(p)
    <3>1. CASE Delivers(t, p)
      <4>1. PICK c \in Content : /\ ResultStep(t, c)
                                 /\ c.path = p /\ c.version = file[p].version
            BY <3>1 DEF Delivers
      <4>2. /\ New \in Ids' /\ stored'[New].path = p /\ stored'[New].version = file[p].version
            /\ stored'[New].at = turn /\ stored'[New].turn = c.turn
            BY <4>1 DEF ResultStep, Enters, Stored
      <4>3. c.turn # turn BY <1>10, <2>1, <4>1 DEF ResultStep, Late
      <4>4. file'[p].version = file[p].version => OvertakenNext(p)
            BY <2>1, <4>2, <4>3 DEF Overtaken, OvertakenNext
      <4>5. QED BY <1>4, <2>5, <4>4
    <3>2. QED BY <1>3, <2>5, <2>8, <3>1
  <2>9. CASE Overtaken(p)
    <3>1. PICK i \in Ids : /\ stored[i].path = p /\ stored[i].version = file[p].version
                           /\ stored[i].at = turn /\ stored[i].turn # turn
          BY <2>9 DEF Overtaken, OvertakenNext
    <3>2. i \in Ids' /\ stored'[i] = stored[i] BY <1>5
    <3>3. file'[p].version = file[p].version => OvertakenNext(p)
          BY <2>1, <3>1, <3>2 DEF Overtaken, OvertakenNext
    <3>4. QED BY <1>4, <2>5, <3>3
  <2>10. QED BY <2>6, <2>7, <2>8, <2>9
<1>11. QED BY <1>8, <1>9, <1>10, TidingsNext

\* Else nobody moves; a turn begins without results, and an answer takes those
\* of the window.
LEMMA OtherTidings ==
    ASSUME Booked, Tidings,
           \/ \E s \in Specialists : StartSpecialist(s) \/ EndSpecialist(s)
           \/ BeginTurn \/ Drain \/ Pause \/ Resume \/ Claim \/ Finish \/ Abort \/ Restart
           \/ UNCHANGED vars
    PROVE  Tidings'
<1>1. Base /\ Ledger /\ Answers /\ Typed BY DEF Booked, Base
<1>2. stored' = stored /\ file' = file /\ told' = told /\ lost' = lost
      BY DEF StartSpecialist, EndSpecialist, BeginTurn, Drain, Pause, Resume, Claim, Finish,
             Abort, Restart, vars, store, tools
<1>3. Ids' = Ids /\ \A id : IsRecord(id)' <=> IsRecord(id) BY <1>2 DEF Ids, IsRecord
<1>4. CASE Restart
  <2>1. /\ \A t \in Tools : place'[t] = "idle"
        /\ phase' \notin {"answered", "finished"} /\ window'.results = <<>>
        BY <1>4 DEF Restart, EmptyWindow
  <2>2. Pending' = {} BY <2>1, EmptyTyped DEF Pending
  <2>3. QED BY <2>1, <2>2, TidingsNext
<1>5. CASE UNCHANGED tools
  <2>1. place' = place /\ hold' = hold BY <1>5 DEF tools
  <2>2. \A p : ComingNext(p) <=> Coming(p) BY <1>2, <2>1 DEF Coming, ComingNext
  <2>3. \A id : Latest(id)' <=> Latest(id) BY <1>2 DEF Latest
  <2>4. \A t \in Tools : place'[t] = "held" => ComingNext(hold'[t].path)
        BY <2>1, <2>2 DEF Tidings
  <2>5. CASE window' = window /\ UNCHANGED <<attached, turn>>
             /\ (phase' = phase \/ phase' \notin {"answered", "finished"} \/ phase = "answered")
    <3>1. Pending' = Pending BY <2>5 DEF Pending
    <3>2. \A p : OvertakenNext(p) <=> Overtaken(p) BY <1>2, <1>3, <2>5 DEF Overtaken, OvertakenNext
    <3>3. ResultsIn(attached[turn])' = ResultsIn(attached[turn])
          BY <1>3, <2>5 DEF ResultsIn
    <3>4. QED BY <1>2, <2>2, <2>3, <2>4, <2>5, <3>1, <3>2, <3>3, TidingsNext DEF Tidings
  <2>6. CASE BeginTurn
    <3>1. phase' \notin {"answered", "finished"} /\ window'.results = <<>>
          BY <2>6 DEF BeginTurn, EmptyWindow
    <3>2. Pending' = {} BY <3>1, EmptyTyped DEF Pending
    <3>3. QED BY <2>4, <3>1, <3>2, TidingsNext
  <2>7. CASE Claim
    <3>1. /\ turn' = turn /\ attached' = [attached EXCEPT ![turn] = Range(window.ids)]
          /\ window'.results = <<>> /\ phase = "running"
          BY <2>7 DEF Claim, EmptyWindow
    <3>2. turn \in 1..MaxTurns BY <1>1, <3>1 DEF Base, Begun
    <3>3. attached'[turn'] = Range(window.ids) BY <1>1, <3>1, <3>2 DEF Typed
    <3>4. ResultsIn(attached[turn])' = Pending
          BY <1>1, <1>3, <3>3 DEF Ledger, ResultsIn
    <3>5. Pending' = {} BY <3>1, EmptyTyped DEF Pending
    <3>6. \A id \in Pending : Latest(id)' \/ ComingNext(stored'[id].path)
          BY <1>2, <2>2, <2>3 DEF Tidings
    <3>7. QED BY <2>4, <3>4, <3>5, <3>6, TidingsNext
  <2>8. QED
        BY <2>5, <2>6, <2>7, <1>4
        DEF StartSpecialist, EndSpecialist, Drain, Pause, Resume, Finish, Abort, vars,
            store, conversation, Restart, EmptyWindow
<1>6. UNCHANGED tools \/ Restart
      BY DEF StartSpecialist, EndSpecialist, BeginTurn, Drain, Pause, Resume, Claim, Finish,
             Abort, vars, store, tools
<1>7. QED BY <1>4, <1>5, <1>6

-----------------------------------------------------------------------------
(* What the browser has seen.                                              *)

\* A tool announces whatever enters the window, and withdraws what leaves it.
LEMMA ToolShown ==
    ASSUME Booked, Shown, NEW t \in Tools, ToolStep(t)
    PROVE  Shown'
<1>1. Base /\ Ledger /\ Answers /\ Typed BY DEF Booked, Base
<1>2. /\ live' = live /\ attached' = attached /\ phase' = phase /\ turn' = turn
      /\ restarted' = restarted /\ Range(live)' = Range(live)
      BY <1>1, ToolMoves DEF ToolMove, ToolKeeps, conversation
<1>3. /\ Range(window.ids) \subseteq Ids /\ Range(events) \subseteq Ids
      /\ Range(live) \subseteq Ids /\ Seen \subseteq Ids
      /\ Pending \subseteq Range(window.ids)
      BY <1>1, PendingIn DEF Ledger, Seen
<1>4. \A id \in Ids : id \in Nat /\ id # 0 BY <1>1, PendingIn
<1>5. phase \in {"answered", "finished"} => attached[turn] \subseteq Ids
      BY <1>1 DEF Base, Begun, Answers
<1>6. CASE StoreKept
  <2>1. stored' = stored /\ events' = events /\ window.ids' = window.ids /\ Pending' = Pending
        BY <1>6 DEF StoreKept, Pending
  <2>2. Seen' = Seen BY <1>2, <2>1 DEF Seen
  <2>3. QED BY <1>2, <2>1, <2>2
        DEF Shown, ShownWindow, ShownAnswer, Superseded, IsRecord
<1>7. ASSUME NEW c \in Content, NEW by, NEW old, Enters(c, by, old), Late(c),
             old = 0 \/ old \in Pending
      PROVE  ShownAnswer'
  <2>1. /\ New \notin Ids /\ \A i \in Ids : stored'[i] = stored[i]
        /\ stored'[New].turn = c.turn
        /\ Range(window.ids)' = (Range(window.ids) \ {old}) \cup {New}
        /\ Range(events)' = (Range(events) \ {old}) \cup {New}
        BY <1>7 DEF Enters, Stored
  <2>2. SUFFICES ASSUME phase \in {"answered", "finished"}
                 PROVE  /\ attached[turn] \cap Range(window.ids)' = {}
                        /\ ~restarted =>
                              /\ attached[turn] \subseteq Seen'
                              /\ \A id \in Seen' \ attached[turn] :
                                    \/ stored'[id].turn # turn
                                    \/ /\ stored'[id].path # None
                                       /\ \E a \in attached[turn] :
                                             stored'[a].path = stored'[id].path /\ id < a
        BY <1>2 DEF ShownAnswer, Superseded, IsRecord
  <2>3. attached[turn] \cap Range(window.ids) = {} BY <2>2 DEF Shown, ShownAnswer
  <2>4. attached[turn] \cap Range(window.ids)' = {} BY <1>5, <2>1, <2>2, <2>3
  <2>5. ASSUME ~restarted
        PROVE  /\ attached[turn] \subseteq Seen'
               /\ \A id \in Seen' \ attached[turn] :
                     \/ stored'[id].turn # turn
                     \/ /\ stored'[id].path # None
                        /\ \E a \in attached[turn] :
                              stored'[a].path = stored'[id].path /\ id < a
    <3>1. /\ attached[turn] \subseteq Seen
          /\ \A id \in Seen \ attached[turn] :
                \/ stored[id].turn # turn
                \/ /\ stored[id].path # None
                   /\ \E a \in attached[turn] : stored[a].path = stored[id].path /\ id < a
          BY <2>2, <2>5 DEF Shown, ShownAnswer, Superseded, IsRecord
    <3>2. Seen \ {old} \subseteq Seen' /\ Seen' \subseteq Seen \cup {New}
          BY <1>2, <2>1 DEF Seen
    <3>3. old \notin attached[turn] BY <1>3, <1>4, <1>5, <1>7, <2>2, <2>3
    <3>4. c.turn # turn BY <1>7, <2>2 DEF Late
    <3>5. \A id \in attached[turn] : stored'[id] = stored[id] BY <1>5, <2>1, <2>2
    <3>6. \A id \in Seen : stored'[id] = stored[id] BY <1>3, <2>1
    <3>7. attached[turn] \subseteq Seen' BY <3>1, <3>2, <3>3
    <3>8. ASSUME NEW id \in Seen' \ attached[turn]
          PROVE  \/ stored'[id].turn # turn
                 \/ /\ stored'[id].path # None
                    /\ \E a \in attached[turn] :
                          stored'[a].path = stored'[id].path /\ id < a
      <4>1. CASE id = New BY <2>1, <3>4, <4>1
      <4>2. CASE id # New
        <5>1. id \in Seen \ attached[turn] /\ stored'[id] = stored[id]
              BY <3>2, <3>6, <3>8, <4>2
        <5>2. QED BY <3>1, <3>5, <5>1
      <4>3. QED BY <4>1, <4>2
    <3>9. QED BY <3>7, <3>8
  <2>6. QED BY <2>4, <2>5
<1>8. ASSUME NEW c \in Content, ResultStep(t, c) PROVE Shown'
  <2> DEFINE old == window.byPath[c.path]
  <2>1. /\ Enters(c, OwnerOf[t], old) /\ Renews(c) /\ c.path \in Paths /\ Late(c)
        BY <1>8 DEF ResultStep, Replacing
  <2>2. old = 0 \/ (old \in Pending /\ stored[old].path = c.path)
        BY <1>1, <2>1 DEF Ledger
  <2>3. ShownAnswer' BY <1>7, <2>1, <2>2
  <2>4. /\ New \notin Ids /\ \A i \in Ids : i < New /\ stored'[i] = stored[i]
        /\ stored'[New].path = c.path
        /\ Range(window.ids)' = (Range(window.ids) \ {old}) \cup {New}
        /\ Range(events)' = (Range(events) \ {old}) \cup {New}
        /\ Pending' = (Pending \ {old}) \cup {New}
        BY <2>1 DEF Enters, Renews, Stored, Replacing
  <2>5. c.path # None BY <2>1, ArtifactAssumption DEF ArtifactAssumption
  <2> HIDE DEF old
  <2>6. ASSUME phase \in {"running", "paused"}, ~restarted
        PROVE  /\ Range(window.ids)' \subseteq Seen'
               /\ \A id \in Seen' \ Range(window.ids)' :
                     /\ stored'[id].path # None
                     /\ \E a \in Pending' : stored'[a].path = stored'[id].path /\ id < a
    <3>1. /\ Range(window.ids) \subseteq Seen
          /\ \A id \in Seen \ Range(window.ids) :
                /\ stored[id].path # None
                /\ \E a \in Pending : stored[a].path = stored[id].path /\ id < a
          BY <2>6 DEF Shown, ShownWindow, Superseded, IsRecord
    <3>2. /\ Seen = Range(live) \cup Range(events)
          /\ Seen' = Range(live) \cup (Range(events) \ {old}) \cup {New}
          BY <1>2, <2>4, <2>6 DEF Seen
    <3>3. Range(window.ids)' \subseteq Seen' BY <2>4, <3>1, <3>2
    <3>4. ASSUME NEW id \in Seen' \ Range(window.ids)'
          PROVE  /\ stored'[id].path # None
                 /\ \E a \in Pending' : stored'[a].path = stored'[id].path /\ id < a
      <4>1. id \in Seen /\ id \in Ids /\ stored'[id] = stored[id] /\ id < New
            BY <1>3, <2>4, <3>2, <3>4
      <4>2. CASE id \in Range(window.ids)
        <5>1. id = old BY <2>4, <3>4, <4>2
        <5>2. stored[id].path = c.path BY <1>4, <2>2, <4>1, <5>1
        <5>3. QED BY <2>4, <2>5, <4>1, <5>2
      <4>3. CASE id \notin Range(window.ids)
        <5>1. PICK a \in Pending : stored[a].path = stored[id].path /\ id < a
              BY <3>1, <4>1, <4>3
        <5>2. stored[id].path # None BY <3>1, <4>1, <4>3
        <5>3. a \in Ids /\ a # 0 /\ stored'[a] = stored[a] BY <1>3, <1>4, <2>4
        <5>4. CASE a = old BY <2>2, <2>4, <4>1, <5>1, <5>2, <5>3, <5>4
        <5>5. CASE a # old BY <2>4, <4>1, <5>1, <5>2, <5>3, <5>5
        <5>6. QED BY <5>4, <5>5
      <4>4. QED BY <4>2, <4>3
    <3>5. QED BY <3>3, <3>4
  <2>7. ShownWindow' BY <1>2, <2>6 DEF ShownWindow, Superseded, IsRecord
  <2>8. QED BY <2>3, <2>7 DEF Shown
<1>9. ASSUME NEW c \in Content, RecordStep(t, c) PROVE Shown'
  <2>1. /\ Enters(c, OwnerOf[t], 0) /\ RecordJoins /\ Late(c) BY <1>9 DEF RecordStep
  <2>2. ShownAnswer' BY <1>7, <2>1
  <2>3. /\ \A i \in Ids : stored'[i] = stored[i]
        /\ Range(window.ids)' = Range(window.ids) \cup {New}
        /\ Range(events)' = Range(events) \cup {New}
        /\ Pending' = Pending
        BY <1>3, <1>4, <2>1 DEF Enters, RecordJoins, Pending
  <2>4. ASSUME phase \in {"running", "paused"}, ~restarted
        PROVE  /\ Range(window.ids)' \subseteq Seen'
               /\ \A id \in Seen' \ Range(window.ids)' :
                     /\ stored'[id].path # None
                     /\ \E a \in Pending' : stored'[a].path = stored'[id].path /\ id < a
    <3>1. /\ Range(window.ids) \subseteq Seen
          /\ \A id \in Seen \ Range(window.ids) :
                /\ stored[id].path # None
                /\ \E a \in Pending : stored[a].path = stored[id].path /\ id < a
          BY <2>4 DEF Shown, ShownWindow, Superseded, IsRecord
    <3>2. Seen' = Seen \cup {New} BY <1>2, <2>3, <2>4 DEF Seen
    <3>3. \A id \in Seen : stored'[id] = stored[id] BY <1>3, <2>3
    <3>4. \A a \in Pending : stored'[a] = stored[a] BY <1>3, <2>3
    <3>5. QED BY <2>3, <3>1, <3>2, <3>3, <3>4
  <2>5. ShownWindow' BY <1>2, <2>4 DEF ShownWindow, Superseded, IsRecord
  <2>6. QED BY <2>2, <2>5 DEF Shown
<1>10. QED BY <1>1, <1>6, <1>8, <1>9, ToolStores DEF ToolStore

\* The turn shows what it has, claims what it shows, and ends when all is shown.
LEMMA OtherShown ==
    ASSUME Booked, Shown,
           \/ \E s \in Specialists : StartSpecialist(s) \/ EndSpecialist(s)
           \/ BeginTurn \/ Drain \/ Pause \/ Resume \/ Claim \/ Finish \/ Abort \/ Restart
           \/ UNCHANGED vars
    PROVE  Shown'
<1>1. Base /\ Ledger /\ Typed BY DEF Booked, Base
<1>2. stored' = stored
      BY DEF StartSpecialist, EndSpecialist, BeginTurn, Drain, Pause, Resume, Claim, Finish,
             Abort, Restart, vars, store
<1>3. Range(live \o events) = Range(live) \cup Range(events)
      BY <1>1, RangeConcatenation DEF Typed
<1>4. ASSUME window' = window, attached' = attached, turn' = turn, restarted' = restarted,
             Seen' = Seen,
             phase' \in {"running", "paused"} => phase \in {"running", "paused"},
             phase' \in {"answered", "finished"} => phase \in {"answered", "finished"}
      PROVE  Shown'
  <2>1. Pending' = Pending BY <1>4 DEF Pending
  <2>2. QED BY <1>2, <1>4, <2>1 DEF Shown, ShownWindow, ShownAnswer, Superseded, IsRecord
<1>5. CASE \/ \E s \in Specialists : StartSpecialist(s) \/ EndSpecialist(s)
           \/ Resume \/ UNCHANGED vars
  <2>1. /\ UNCHANGED <<window, attached, turn, restarted, live, events>>
        /\ phase' = phase \/ (phase = "paused" /\ phase' = "running")
        BY <1>5 DEF StartSpecialist, EndSpecialist, Resume, vars, store, conversation
  <2>2. Seen' = Seen BY <2>1 DEF Seen
  <2>3. QED BY <1>4, <2>1, <2>2
<1>6. CASE Drain \/ Pause \/ Finish
  <2>1. /\ UNCHANGED <<window, attached, turn, restarted>>
        /\ live' = live \o events /\ events' = <<>>
        /\ \/ phase = "running" /\ phase' \in {"running", "paused"}
           \/ phase = "answered" /\ phase' = "finished"
        BY <1>6 DEF Drain, Pause, Finish, conversation
  <2>2. Range(live)' = Range(live) \cup Range(events) /\ Range(events)' = {}
        BY <1>3, <2>1, EmptyTyped
  <2>3. Seen' = Seen BY <2>1, <2>2 DEF Seen
  <2>4. QED BY <1>4, <2>1, <2>3
<1>7. CASE BeginTurn
  <2>1. /\ phase' = "running" /\ live' = <<>> /\ events' = <<>> /\ window'.ids = <<>>
        BY <1>7 DEF BeginTurn, EmptyWindow
  <2>2. Seen' = {} /\ Range(window.ids)' = {} BY <2>1, EmptyTyped DEF Seen
  <2>3. QED BY <2>1, <2>2 DEF Shown, ShownWindow, ShownAnswer
<1>8. CASE Claim
  <2>1. /\ phase = "running" /\ phase' = "answered" /\ window'.ids = <<>>
        /\ attached' = [attached EXCEPT ![turn] = Range(window.ids)]
        /\ UNCHANGED <<events, live, turn, restarted>>
        BY <1>8 DEF Claim, EmptyWindow
  <2>2. turn \in 1..MaxTurns BY <1>1, <2>1 DEF Base, Begun
  <2>3. attached'[turn'] = Range(window.ids) BY <1>1, <2>1, <2>2 DEF Typed
  <2>4. Range(window.ids)' = {} /\ Seen' = Seen BY <2>1, EmptyTyped DEF Seen
  <2>5. Pending \subseteq Range(window.ids) BY <1>1, PendingIn
  <2>6. ~restarted => /\ Range(window.ids) \subseteq Seen
                      /\ \A id \in Seen \ Range(window.ids) : Superseded(id, Pending)
        BY <2>1 DEF Shown, ShownWindow
  <2>7. QED BY <1>2, <2>1, <2>3, <2>4, <2>5, <2>6
        DEF Shown, ShownWindow, ShownAnswer, Superseded, IsRecord
<1>9. CASE Abort \/ Restart
  <2>1. phase' = "idle" \/ (phase' = "paused" /\ restarted')
        BY <1>9 DEF Abort, Restart
  <2>2. QED BY <2>1 DEF Shown, ShownWindow, ShownAnswer
<1>10. QED BY <1>5, <1>6, <1>7, <1>8, <1>9

\* In the beginning nobody has seen or holds anything.
LEMMA ShownInit == Init => Shown /\ Tidings
<1> SUFFICES ASSUME Init PROVE Shown /\ Tidings OBVIOUS
<1>1. /\ phase = "idle" /\ window.results = <<>> /\ \A t \in Tools : place[t] = "idle"
      BY DEF Init, EmptyWindow
<1>2. Pending = {} BY <1>1, EmptyTyped DEF Pending
<1>3. Shown BY <1>1 DEF Shown, ShownWindow, ShownAnswer
<1>4. Tidings BY <1>1, <1>2 DEF Tidings
<1>5. QED BY <1>3, <1>4

\* The browser draws the answer: what it saw and the answer does not carry has a
\* later result of its path in the answer (drain_events, claim_for_message).
THEOREM BrowserShowsAnswer == Spec => []LiveMatchesAnswer
<1>1. Booked /\ Shown /\ [Next]_vars => Shown' BY ToolShown, OtherShown DEF Next
<1>2. Booked /\ Shown => LiveMatchesAnswer
  <2> SUFFICES ASSUME Booked, Shown, phase = "finished", ~restarted,
                      \A id \in Range(live) \ attached[turn] : stored[id].turn = turn
               PROVE  Drawn = attached[turn]
      BY DEF LiveMatchesAnswer
  <2> DEFINE A == attached[turn]
  <2>1. Base /\ Ledger /\ Typed /\ turn \in 1..MaxTurns BY DEF Booked, Base, Begun
  <2>2. /\ A \subseteq Range(live)
        /\ \A id \in Range(live) \ A :
              /\ stored[id].path # None
              /\ \E a \in A : stored[a].path = stored[id].path /\ id < a
        BY DEF Shown, ShownAnswer, Seen, Superseded, IsRecord
  <2>3. \A a, b \in A : stored[a].path # None /\ stored[a].path = stored[b].path => a = b
        BY <2>1 DEF Booked, Answers, IsRecord
  <2>4. /\ \A i, j \in DOMAIN live : i < j => live[i] < live[j]
        /\ DOMAIN live \subseteq Nat /\ \A i \in DOMAIN live : live[i] \in Nat
    <3>1. Increasing(live) /\ live \in Seq(Nat) BY <2>1 DEF Ledger, Typed
    <3>2. QED BY <3>1, LenProperties, ElementOfSeq DEF Increasing
  <2>5. Range(live) = {live[i] : i \in DOMAIN live} BY DEF Range
  <2>6. ASSUME NEW i \in DOMAIN live, NEW j \in DOMAIN live, live[i] < live[j] PROVE ~(j <= i)
    <3>1. j < i => live[j] < live[i] BY <2>4
    <3>2. i \in Nat /\ j \in Nat /\ live[i] \in Nat /\ live[j] \in Nat BY <2>4
    <3>3. QED BY <2>6, <3>1, <3>2
  <2>7. Drawn = {live[i] : i \in {i \in DOMAIN live :
           stored[live[i]].path = None \/
           \A j \in DOMAIN live : stored[live[j]].path = stored[live[i]].path => j <= i}}
        BY DEF Drawn, IsRecord
  <2> HIDE DEF A
  <2>8. ASSUME NEW i \in DOMAIN live, live[i] \notin A
        PROVE  /\ stored[live[i]].path # None
               /\ \E j \in DOMAIN live : stored[live[j]].path = stored[live[i]].path /\ ~(j <= i)
    <3>1. /\ stored[live[i]].path # None
          /\ \E a \in A : stored[a].path = stored[live[i]].path /\ live[i] < a
          BY <2>2, <2>5, <2>8
    <3>2. PICK j \in DOMAIN live : /\ stored[live[j]].path = stored[live[i]].path
                                   /\ live[i] < live[j]
          BY <2>2, <2>5, <3>1
    <3>3. QED BY <2>6, <3>1, <3>2
  <2>9. ASSUME NEW i \in DOMAIN live, live[i] \in A, stored[live[i]].path # None,
               NEW j \in DOMAIN live, stored[live[j]].path = stored[live[i]].path
        PROVE  j <= i
    <3>1. CASE live[j] \in A
      <4>1. live[j] = live[i] BY <2>3, <2>9, <3>1
      <4>2. i < j => live[i] < live[j] BY <2>4
      <4>3. QED BY <2>4, <4>1, <4>2
    <3>2. CASE live[j] \notin A
      <4>1. PICK a \in A : stored[a].path = stored[live[j]].path /\ live[j] < a
            BY <2>2, <2>5, <3>2
      <4>2. a = live[i] BY <2>3, <2>9, <4>1
      <4>3. ~(i <= j) BY <2>6, <4>1, <4>2
      <4>4. QED BY <2>4, <4>3
    <3>3. QED BY <3>1, <3>2
  <2>10. Drawn \subseteq A BY <2>7, <2>8
  <2>11. A \subseteq Drawn
    <3> SUFFICES ASSUME NEW id \in A PROVE id \in Drawn OBVIOUS
    <3>1. PICK i \in DOMAIN live : id = live[i] BY <2>2, <2>5
    <3>2. QED BY <2>7, <2>9, <3>1
  <2>12. QED BY <2>10, <2>11 DEF A
<1>3. QED BY BookedHolds, ShownInit, <1>1, <1>2, PTL DEF Spec

\* Where the versions of a path are registered in the order they were written,
\* an answer has the latest, or somebody was told that it has not (register_artifact,
\* note_undelivered), unless the command that wrote it lost its result or a thread
\* of an earlier run wrote it, and still holds it or brought it too late.
THEOREM LatestIsDelivered ==
    ASSUME InOrder = TRUE
    PROVE  Spec => []LatestOrTold
<1>1. Booked /\ Tidings /\ [Next]_vars => Tidings'
      BY ToolTidings, OtherTidings DEF Next
<1>2. Booked /\ Tidings => LatestOrTold
  <2> SUFFICES ASSUME Booked, Tidings, phase \in {"answered", "finished"},
                      NEW id \in attached[turn], ~IsRecord(id)
               PROVE  LET p == stored[id].path
                          latest == file[p].version
                      IN \/ stored[id].version = latest
                         \/ <<p, latest>> \in told \cup lost
                         \/ \E t \in Tools : /\ hold[t].path = p
                                            /\ hold[t].version = latest
                                            /\ hold[t].turn # turn
                         \/ \E i \in Ids : /\ stored[i].path = p
                                           /\ stored[i].version = latest
                                           /\ stored[i].at = turn /\ stored[i].turn # turn
      BY DEF LatestOrTold
  <2>1. Latest(id) \/ Coming(stored[id].path) \/ Overtaken(stored[id].path)
        BY DEF Tidings, ResultsIn
  <2>2. ASSUME NEW t \in Tools, place[t] \in {"held", "reading"} PROVE hold[t].turn # turn
        BY <2>2 DEF Booked, Base, Hands
  <2>3. QED BY <2>1, <2>2 DEF Latest, Coming, Overtaken
<1>3. QED BY BookedHolds, ShownInit, <1>1, <1>2, PTL DEF Spec
=============================================================================
