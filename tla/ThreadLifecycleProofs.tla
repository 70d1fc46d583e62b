------------------------ MODULE ThreadLifecycleProofs ------------------------
(***************************************************************************)
(* Machine-checked theorems about ThreadLifecycle: for any processes,      *)
(* requests and crashes, with and without a conversation filesystem and    *)
(* run controls.                                                           *)
(***************************************************************************)
EXTENDS ThreadLifecycle, FiniteSetTheorems, TLAPS

\* Where a request of each kind can be.
Kinds ==
    /\ \A q \in Invocations : pc[q] \in {"idle", "abandoned", "done"} \cup Reserved
    /\ \A q \in Creates : pc[q] \in {"idle", "done"} \cup Setup
    /\ \A v \in Visits : pc[v] \in {"idle", "asked", "done"} \cup Saving
    /\ \A d \in Deletes : pc[d] \in {"idle", "asked", "done", "deleted"} \cup Removing
    /\ \A v \in Visits : pc[v] # "idle" /\ pc[v] # "done" => filesystem

Base == TypeOK /\ Kinds

\* A process knows of its one deletion and of each of its invocations.
Exact ==
    /\ ReservationsExact
    /\ \A d, e \in Deletes :
          At[d] = At[e] /\ pc[d] \in Removing /\ pc[e] \in Removing => d = e
    /\ \A d \in Deletes, q \in Invocations :
          ~(At[q] = At[d] /\ pc[d] \in Removing /\ pc[q] \in Reserved)

\* Whoever holds the operation lock exclusively is alone with it.
Locked ==
    filesystem =>
        \A x \in ExclusiveHolders :
            /\ SharedHolders = {}
            /\ ExclusiveHolders = {x}
            /\ command # "running"

\* How far a deletion has come is how much is left.
Erased ==
    \A d \in Deletes :
        /\ pc[d] \in Erasing => row
        /\ pc[d] \in InTree \cup {"unfiled", "forgotten", "bare"} => tombstone
        /\ pc[d] \in {"unfiled", "forgotten", "bare"} => files = "none"
        /\ pc[d] \in {"forgotten", "bare"} => ~checkpoint

\* Before a conversation without a tombstone has its row, nobody has got as
\* far as to write anything for it.
Fresh ==
    ~row /\ ~tombstone =>
        /\ \A q \in Invocations : pc[q] \notin Using \cup {"abandoned"}
        /\ \A v \in Visits : pc[v] \in {"idle", "done"}
        /\ command = "none"

\* A run that works has a row, one that has passed the check no tombstone.
Authorized ==
    /\ \A q \in Invocations : pc[q] \in Using => row
    /\ \A q \in Invocations \cup Creates :
          pc[q] \in {"checked", "found", "missing"} => ~tombstone

Course ==
    filesystem => Erased /\ Fresh /\ Authorized /\ (~row => files = "none" /\ ~checkpoint)

Safe == Base /\ Exact /\ Locked /\ Course

\* A conversation that was deleted.
Gone == filesystem /\ tombstone /\ ~row

-----------------------------------------------------------------------------
\* A request is of one kind only.
LEMMA DistinctKinds ==
    /\ \A q \in Invocations : q \in Requests /\ q \notin Creates /\ q \notin Visits /\ q \notin Deletes
    /\ \A q \in Creates : q \in Requests /\ q \notin Invocations /\ q \notin Visits /\ q \notin Deletes
    /\ \A q \in Visits : q \in Requests /\ q \notin Invocations /\ q \notin Creates /\ q \notin Deletes
    /\ \A q \in Deletes : q \in Requests /\ q \notin Invocations /\ q \notin Creates /\ q \notin Visits
BY KindsDisjoint DEF Requests, Invocations

\* Types and places hold at the start.
LEMMA BaseInit == Init => Base
<1> SUFFICES ASSUME Init PROVE Base OBVIOUS
<1>1. TypeOK
  <2>1. filesystem \in BOOLEAN /\ controls \in BOOLEAN
    BY LifecycleAssumption, Zenon DEF Init
  <2>2. crashes \in 0..MaxCrashes
    BY LifecycleAssumption DEF Init
  <2>3. QED BY <2>1, <2>2, Zenon DEF Init, TypeOK, Places
<1>2. Kinds
  BY DistinctKinds DEF Init, Kinds
<1>3. QED BY <1>1, <1>2 DEF Base

\* Every step keeps types and places.
LEMMA BaseStep == Base /\ [Next]_vars => Base'
<1> SUFFICES ASSUME Base, [Next]_vars PROVE Base' OBVIOUS
<1> USE DistinctKinds DEF Base, TypeOK, Kinds, deployment, process, data, sandbox, Places,
        Setup, Using, Reserved, Leased, Saving, InTree, Erasing, Guarded,
        Removing, Over
<1>1. ASSUME NEW q \in Invocations \cup Creates, SetupStep(q) PROVE Base'
  <2> USE <1>1
  <2>1. CASE Begin(q) BY <2>1 DEF Begin, Step, ReserveRun
  <2>2. CASE TakeLease(q) BY <2>2 DEF TakeLease, Move, Step
  <2>3. CASE CheckTombstone(q) BY <2>3 DEF CheckTombstone, Move, Step
  <2>4. CASE ReadRow(q) BY <2>4 DEF ReadRow, Move, Step
  <2>5. CASE CommitRow(q) BY <2>5 DEF CommitRow, Leave, ReleaseRun
  <2>6. CASE Authorize(q)
      BY <2>6 DEF Authorize, Move, Step, Invocations
  <2>7. CASE SetupFails(q) BY <2>7 DEF SetupFails, Leave, ReleaseRun
  <2>8. QED BY <2>1, <2>2, <2>3, <2>4, <2>5, <2>6, <2>7 DEF SetupStep
<1>2. ASSUME NEW q \in Invocations, RunStep(q) PROVE Base'
  <2> USE <1>2
  <2>1. CASE EnterStream(q) BY <2>1 DEF EnterStream, Step, exceptFiles
  <2>2. CASE Checkpoint(q) BY <2>2 DEF Checkpoint
  <2>3. CASE RunEnds(q) BY <2>3 DEF RunEnds, Leave, ReleaseRun
  <2>4. CASE Submit(q) BY <2>4 DEF Submit, HasThread
  <2>5. CASE ToolWrites(q) BY <2>5 DEF ToolWrites, HasThread, exceptFiles
  <2>6. CASE RegisterArtifact(q) BY <2>6 DEF RegisterArtifact, HasThread
  <2>7. CASE ThreadEnds(q) BY <2>7 DEF ThreadEnds, Move, Step
  <2>8. QED BY <2>1, <2>2, <2>3, <2>4, <2>5, <2>6, <2>7 DEF RunStep
<1>3. ASSUME WorkerStep PROVE Base'
  <2> USE <1>3
  <2>1. CASE Claim BY <2>1 DEF Claim
  <2>2. CASE CommandStarts BY <2>2 DEF CommandStarts, exceptFiles
  <2>3. CASE CommandEnds BY <2>3 DEF CommandEnds
  <2>4. CASE RowEnds BY <2>4 DEF RowEnds
  <2>5. CASE ClaimedEnds BY <2>5 DEF ClaimedEnds
  <2>6. QED BY <2>1, <2>2, <2>3, <2>4, <2>5 DEF WorkerStep
<1>4. ASSUME NEW v \in Visits, VisitStep(v) PROVE Base'
  <2> USE <1>4
  <2>1. CASE Ask(v) BY <2>1 DEF Ask, Move, Step
  <2>2. CASE SaveLocks(v) BY <2>2 DEF SaveLocks, Move, Step
  <2>3. CASE SaveRechecks(v) BY <2>3 DEF SaveRechecks, Move, Step
  <2>4. CASE SaveAssertsIdle(v) BY <2>4 DEF SaveAssertsIdle, Move, Step
  <2>5. CASE SaveWrites(v) BY <2>5 DEF SaveWrites, Step, exceptFiles
  <2>6. CASE ReadMigrates(v) BY <2>6 DEF ReadMigrates, Step, exceptFiles
  <2>7. CASE VisitFails(v) BY <2>7 DEF VisitFails
  <2>8. QED BY <2>1, <2>2, <2>3, <2>4, <2>5, <2>6, <2>7 DEF VisitStep
<1>5. ASSUME NEW d \in Deletes, DeleteStep(d) PROVE Base'
  <2> USE <1>5
  <2>1. CASE Ask(d) BY <2>1 DEF Ask, Move, Step
  <2>2. CASE Reserve(d)
    <3>1. TypeOK'
      <4>1. pc' \in [Requests -> Places] BY <2>2 DEF Reserve, Step, ReserveDelete
      <4>2. deleting' \in [Procs -> BOOLEAN] BY <2>2 DEF Reserve, Step, ReserveDelete
      <4>3. QED BY <2>2, <4>1, <4>2 DEF Reserve
    <3>2. Kinds' BY <2>2 DEF Reserve, Step, ReserveDelete
    <3>3. QED BY <3>1, <3>2
  <2>3. CASE NotReserved(d) BY <2>3 DEF NotReserved, Move, Step
  <2>4. CASE Guard(d) BY <2>4 DEF Guard, Move, Step
  <2>5. CASE AssertIdle(d) BY <2>5 DEF AssertIdle, Move, Step
  <2>6. CASE Recheck(d) BY <2>6 DEF Recheck, Move, Step
  <2>7. CASE Mark(d) BY <2>7 DEF Mark, Step
  <2>8. CASE SkipWorkspace(d) BY <2>8 DEF SkipWorkspace, Move, Step
  <2>9. CASE UnlinkOwner(d) BY <2>9 DEF UnlinkOwner, Step, exceptFiles
  <2>10. CASE RemoveTree(d) BY <2>10 DEF RemoveTree, Step
  <2>11. CASE RemoveCheckpoint(d)
    <3>1. TypeOK' BY <2>11 DEF RemoveCheckpoint, Step
    <3>2. Kinds' BY <2>11 DEF RemoveCheckpoint, Step
    <3>3. QED BY <3>1, <3>2
  <2>12. CASE RemoveArtifacts(d)
    <3>1. TypeOK' BY <2>12 DEF RemoveArtifacts, Step
    <3>2. Kinds' BY <2>12 DEF RemoveArtifacts, Step
    <3>3. QED BY <3>1, <3>2
  <2>13. CASE RemoveRow(d)
    <3>1. TypeOK' BY <2>13 DEF RemoveRow, Step, ReleaseDelete
    <3>2. Kinds' BY <2>13 DEF RemoveRow, Step, ReleaseDelete
    <3>3. QED BY <3>1, <3>2
  <2>14. CASE TreeFails(d)
    <3>1. TypeOK' BY <2>14 DEF TreeFails, ReleaseDelete
    <3>2. Kinds' BY <2>14 DEF TreeFails, ReleaseDelete
    <3>3. QED BY <3>1, <3>2
  <2>15. CASE DeleteFails(d)
    <3>1. TypeOK'
      <4>1. pc' \in [Requests -> Places] BY <2>15 DEF DeleteFails, ReleaseDelete
      <4>2. deleting' \in [Procs -> BOOLEAN] BY <2>15 DEF DeleteFails, ReleaseDelete
      <4>3. QED BY <2>15, <4>1, <4>2 DEF DeleteFails
    <3>2. Kinds' BY <2>15 DEF DeleteFails, ReleaseDelete
    <3>3. QED BY <3>1, <3>2
  <2>16. QED BY <2>1, <2>2, <2>3, <2>4, <2>5, <2>6, <2>7, <2>8,
           <2>9, <2>10, <2>11, <2>12, <2>13, <2>14, <2>15 DEF DeleteStep
<1>6. ASSUME NEW p \in Procs, Crash(p) PROVE Base'
  <2> USE <1>6 DEF Crash
  <2>1. TypeOK'
    <3>1. pc' \in [Requests -> Places] OBVIOUS
    <3>2. prior' \in [Deletes -> BOOLEAN] OBVIOUS
    <3>3. crashes' \in 0..MaxCrashes BY LifecycleAssumption
    <3>4. active' \in [Procs -> Nat] /\ deleting' \in [Procs -> BOOLEAN] OBVIOUS
    <3>5. QED BY <3>1, <3>2, <3>3, <3>4
  <2>2. \A q \in Requests : pc'[q] = pc[q] \/ pc'[q] = "done"
    OBVIOUS
  <2>3. Kinds'
    BY <2>2
  <2>4. QED BY <2>1, <2>3
<1>7. ASSUME UNCHANGED vars PROVE Base'
  BY <1>7 DEF vars
<1>8. QED BY <1>1, <1>2, <1>3, <1>4, <1>5, <1>6, <1>7 DEF Next

\* Nobody holds the operation lock at the start.
LEMMA LockedInit == Init => Locked
BY DEF Init, Locked, ExclusiveHolders, Saving, Guarded, Erasing, InTree, Requests

\* Every step respects the operation lock (WorkspaceStore.guard, acquire).
LEMMA LockedStep == Base /\ Locked /\ [Next]_vars => Locked'
<1> SUFFICES ASSUME Base, Locked, [Next]_vars PROVE Locked' OBVIOUS
<1> USE DistinctKinds DEF Base, TypeOK, Kinds, Locked, SharedHolders, ExclusiveHolders,
        MayShare, MayExclude, deployment, process, data, sandbox, Places,
        Setup, Using, Reserved, Leased, Saving, InTree, Erasing, Guarded,
        Removing, Over
<1>1. ASSUME NEW q \in Invocations \cup Creates, SetupStep(q) PROVE Locked'
  <2> USE <1>1
  <2>1. CASE Begin(q) BY <2>1 DEF Begin, Step, ReserveRun
  <2>2. CASE TakeLease(q) BY <2>2 DEF TakeLease, Move, Step
  <2>3. CASE CheckTombstone(q) BY <2>3 DEF CheckTombstone, Move, Step
  <2>4. CASE ReadRow(q) BY <2>4 DEF ReadRow, Move, Step
  <2>5. CASE CommitRow(q) BY <2>5 DEF CommitRow, Leave, ReleaseRun
  <2>6. CASE Authorize(q) BY <2>6 DEF Authorize, Move, Step
  <2>7. CASE SetupFails(q) BY <2>7 DEF SetupFails, Leave, ReleaseRun
  <2>8. QED BY <2>1, <2>2, <2>3, <2>4, <2>5, <2>6, <2>7 DEF SetupStep
<1>2. ASSUME NEW q \in Invocations, RunStep(q) PROVE Locked'
  <2> USE <1>2
  <2>1. CASE EnterStream(q) BY <2>1 DEF EnterStream, Step, exceptFiles
  <2>2. CASE Checkpoint(q) BY <2>2 DEF Checkpoint
  <2>3. CASE RunEnds(q) BY <2>3 DEF RunEnds, Leave, ReleaseRun
  <2>4. CASE Submit(q) BY <2>4 DEF Submit, HasThread
  <2>5. CASE ToolWrites(q) BY <2>5 DEF ToolWrites, HasThread, exceptFiles
  <2>6. CASE RegisterArtifact(q) BY <2>6 DEF RegisterArtifact, HasThread
  <2>7. CASE ThreadEnds(q) BY <2>7 DEF ThreadEnds, Move, Step
  <2>8. QED BY <2>1, <2>2, <2>3, <2>4, <2>5, <2>6, <2>7 DEF RunStep
<1>3. ASSUME WorkerStep PROVE Locked'
  <2> USE <1>3
  <2>1. CASE Claim BY <2>1 DEF Claim
  <2>2. CASE CommandStarts BY <2>2 DEF CommandStarts, exceptFiles
  <2>3. CASE CommandEnds BY <2>3 DEF CommandEnds
  <2>4. CASE RowEnds BY <2>4 DEF RowEnds
  <2>5. CASE ClaimedEnds BY <2>5 DEF ClaimedEnds
  <2>6. QED BY <2>1, <2>2, <2>3, <2>4, <2>5 DEF WorkerStep
<1>4. ASSUME NEW v \in Visits, VisitStep(v) PROVE Locked'
  <2> USE <1>4
  <2>1. CASE Ask(v) BY <2>1 DEF Ask, Move, Step
  <2>2. CASE SaveLocks(v) BY <2>2 DEF SaveLocks, Move, Step
  <2>3. CASE SaveRechecks(v) BY <2>3 DEF SaveRechecks, Move, Step
  <2>4. CASE SaveAssertsIdle(v) BY <2>4 DEF SaveAssertsIdle, Move, Step
  <2>5. CASE SaveWrites(v) BY <2>5 DEF SaveWrites, Step, exceptFiles
  <2>6. CASE ReadMigrates(v) BY <2>6 DEF ReadMigrates, Step, exceptFiles
  <2>7. CASE VisitFails(v) BY <2>7 DEF VisitFails
  <2>8. QED BY <2>1, <2>2, <2>3, <2>4, <2>5, <2>6, <2>7 DEF VisitStep
<1>5. ASSUME NEW d \in Deletes, DeleteStep(d) PROVE Locked'
  <2> USE <1>5
  <2>1. CASE Ask(d) BY <2>1 DEF Ask, Move, Step
  <2>2. CASE Reserve(d) BY <2>2 DEF Reserve, Step, ReserveDelete
  <2>3. CASE NotReserved(d) BY <2>3 DEF NotReserved, Move, Step
  <2>4. CASE Guard(d) BY <2>4 DEF Guard, Move, Step
  <2>5. CASE AssertIdle(d) BY <2>5 DEF AssertIdle, Move, Step
  <2>6. CASE Recheck(d) BY <2>6 DEF Recheck, Move, Step
  <2>7. CASE Mark(d) BY <2>7 DEF Mark, Step
  <2>8. CASE SkipWorkspace(d) BY <2>8 DEF SkipWorkspace, Move, Step
  <2>9. CASE UnlinkOwner(d) BY <2>9 DEF UnlinkOwner, Step, exceptFiles
  <2>10. CASE RemoveTree(d) BY <2>10 DEF RemoveTree, Step
  <2>11. CASE RemoveCheckpoint(d) BY <2>11 DEF RemoveCheckpoint, Step
  <2>12. CASE RemoveArtifacts(d) BY <2>12 DEF RemoveArtifacts, Step
  <2>13. CASE RemoveRow(d) BY <2>13 DEF RemoveRow, Step, ReleaseDelete
  <2>14. CASE TreeFails(d) BY <2>14 DEF TreeFails, ReleaseDelete
  <2>15. CASE DeleteFails(d) BY <2>15 DEF DeleteFails, ReleaseDelete
  <2>16. QED BY <2>1, <2>2, <2>3, <2>4, <2>5, <2>6, <2>7, <2>8,
           <2>9, <2>10, <2>11, <2>12, <2>13, <2>14, <2>15 DEF DeleteStep
<1>6. ASSUME NEW p \in Procs, Crash(p) PROVE Locked'
  BY <1>6 DEF Crash
<1>7. ASSUME UNCHANGED vars PROVE Locked'
  BY <1>7 DEF vars
<1>8. QED BY <1>1, <1>2, <1>3, <1>4, <1>5, <1>6, <1>7 DEF Next

\* Nothing exists at the start.
LEMMA CourseInit == Init => Course
BY DEF Init, Course, Erased, Fresh, Authorized, Requests, Invocations, Setup,
       Using, InTree, Erasing

\* Every step keeps the order in which a conversation is made and deleted.
LEMMA CourseStep == Base /\ Locked /\ Course /\ [Next]_vars => Course'
<1> SUFFICES ASSUME Base, Locked, Course, [Next]_vars PROVE Course' OBVIOUS
<1> USE DistinctKinds DEF Base, TypeOK, Kinds, Locked, SharedHolders, ExclusiveHolders, Course,
        Erased, Fresh, Authorized, deployment, process, data, sandbox, Places,
        Setup, Using, Reserved, Leased, Saving, InTree, Erasing, Guarded,
        Removing, Over
<1>1. ASSUME NEW q \in Invocations \cup Creates, SetupStep(q) PROVE Course'
  <2> USE <1>1
  <2>1. CASE Begin(q) BY <2>1 DEF Begin, Step, ReserveRun
  <2>2. CASE TakeLease(q) BY <2>2 DEF TakeLease, Move, Step
  <2>3. CASE CheckTombstone(q) BY <2>3 DEF CheckTombstone, Move, Step
  <2>4. CASE ReadRow(q) BY <2>4 DEF ReadRow, Move, Step
  <2>5. CASE CommitRow(q) BY <2>5 DEF CommitRow, Leave, ReleaseRun
  <2>6. CASE Authorize(q) BY <2>6 DEF Authorize, Move, Step
  <2>7. CASE SetupFails(q) BY <2>7 DEF SetupFails, Leave, ReleaseRun
  <2>8. QED BY <2>1, <2>2, <2>3, <2>4, <2>5, <2>6, <2>7 DEF SetupStep
<1>2. ASSUME NEW q \in Invocations, RunStep(q) PROVE Course'
  <2> USE <1>2
  <2>1. CASE EnterStream(q) BY <2>1 DEF EnterStream, Step, exceptFiles
  <2>2. CASE Checkpoint(q) BY <2>2 DEF Checkpoint
  <2>3. CASE RunEnds(q) BY <2>3 DEF RunEnds, Leave, ReleaseRun
  <2>4. CASE Submit(q) BY <2>4 DEF Submit, HasThread
  <2>5. CASE ToolWrites(q) BY <2>5 DEF ToolWrites, HasThread, exceptFiles
  <2>6. CASE RegisterArtifact(q) BY <2>6 DEF RegisterArtifact, HasThread
  <2>7. CASE ThreadEnds(q) BY <2>7 DEF ThreadEnds, Move, Step
  <2>8. QED BY <2>1, <2>2, <2>3, <2>4, <2>5, <2>6, <2>7 DEF RunStep
<1>3. ASSUME WorkerStep PROVE Course'
  <2> USE <1>3
  <2>1. CASE Claim BY <2>1 DEF Claim
  <2>2. CASE CommandStarts BY <2>2 DEF CommandStarts, exceptFiles
  <2>3. CASE CommandEnds BY <2>3 DEF CommandEnds
  <2>4. CASE RowEnds BY <2>4 DEF RowEnds
  <2>5. CASE ClaimedEnds BY <2>5 DEF ClaimedEnds
  <2>6. QED BY <2>1, <2>2, <2>3, <2>4, <2>5 DEF WorkerStep
<1>4. ASSUME NEW v \in Visits, VisitStep(v) PROVE Course'
  <2> USE <1>4
  <2>1. CASE Ask(v) BY <2>1 DEF Ask, Move, Step
  <2>2. CASE SaveLocks(v) BY <2>2 DEF SaveLocks, Move, Step
  <2>3. CASE SaveRechecks(v) BY <2>3 DEF SaveRechecks, Move, Step
  <2>4. CASE SaveAssertsIdle(v) BY <2>4 DEF SaveAssertsIdle, Move, Step
  <2>5. CASE SaveWrites(v) BY <2>5 DEF SaveWrites, Step, exceptFiles
  <2>6. CASE ReadMigrates(v) BY <2>6 DEF ReadMigrates, Step, exceptFiles
  <2>7. CASE VisitFails(v) BY <2>7 DEF VisitFails
  <2>8. QED BY <2>1, <2>2, <2>3, <2>4, <2>5, <2>6, <2>7 DEF VisitStep
<1>5. ASSUME NEW d \in Deletes, DeleteStep(d) PROVE Course'
  <2> USE <1>5
  <2>1. CASE Ask(d) BY <2>1 DEF Ask, Move, Step
  <2>2. CASE Reserve(d) BY <2>2 DEF Reserve, Step, ReserveDelete
  <2>3. CASE NotReserved(d) BY <2>3 DEF NotReserved, Move, Step
  <2>4. CASE Guard(d) BY <2>4 DEF Guard, Move, Step
  <2>5. CASE AssertIdle(d) BY <2>5 DEF AssertIdle, Move, Step
  <2>6. CASE Recheck(d) BY <2>6 DEF Recheck, Move, Step
  <2>7. CASE Mark(d) BY <2>7 DEF Mark, Step
  <2>8. CASE SkipWorkspace(d) BY <2>8 DEF SkipWorkspace, Move, Step
  <2>9. CASE UnlinkOwner(d) BY <2>9 DEF UnlinkOwner, Step, exceptFiles
  <2>10. CASE RemoveTree(d) BY <2>10 DEF RemoveTree, Step
  <2>11. CASE RemoveCheckpoint(d) BY <2>11 DEF RemoveCheckpoint, Step
  <2>12. CASE RemoveArtifacts(d) BY <2>12 DEF RemoveArtifacts, Step
  <2>13. CASE RemoveRow(d) BY <2>13 DEF RemoveRow, Step, ReleaseDelete
  <2>14. CASE TreeFails(d) BY <2>14 DEF TreeFails, ReleaseDelete
  <2>15. CASE DeleteFails(d) BY <2>15 DEF DeleteFails, ReleaseDelete
  <2>16. QED BY <2>1, <2>2, <2>3, <2>4, <2>5, <2>6, <2>7, <2>8,
           <2>9, <2>10, <2>11, <2>12, <2>13, <2>14, <2>15 DEF DeleteStep
<1>6. ASSUME NEW p \in Procs, Crash(p) PROVE Course'
  BY <1>6 DEF Crash
<1>7. ASSUME UNCHANGED vars PROVE Course'
  BY <1>7 DEF vars
<1>8. QED BY <1>1, <1>2, <1>3, <1>4, <1>5, <1>6, <1>7 DEF Next

-----------------------------------------------------------------------------
(* The reservations, by what a step does to them.                          *)

\* The invocations of a process can be counted.
LEMMA HoldersFinite ==
    \A p \in Procs : IsFiniteSet(Holders(p)) /\ Cardinality(Holders(p)) \in Nat
<1> TAKE p \in Procs
<1>1. Holders(p) \subseteq Invocations BY DEF Holders
<1>2. IsFiniteSet(Holders(p)) BY <1>1, LifecycleAssumption, FS_Subset
<1>3. QED BY <1>2, FS_CardinalityType

\* Nothing is reserved or released.
LEMMA ExactKept ==
    ASSUME Exact, UNCHANGED <<active, deleting, controls>>,
           \A q \in Invocations : pc'[q] \in Reserved <=> pc[q] \in Reserved,
           \A d \in Deletes : pc'[d] \in Removing <=> pc[d] \in Removing
    PROVE  Exact'
<1>1. \A p \in Procs : Holders(p)' = Holders(p) BY DEF Holders
<1>2. ReservationsExact' BY <1>1 DEF Exact, ReservationsExact
<1>3. QED BY <1>2 DEF Exact

\* ThreadActivity.reserve_run.
LEMMA ExactReserved ==
    ASSUME Base, Exact, NEW q \in Invocations, pc[q] = "idle",
           pc' = [pc EXCEPT ![q] = "reserved"], ReserveRun(At[q]),
           UNCHANGED <<deleting, controls>>
    PROVE  Exact'
<1> USE DistinctKinds DEF Base, TypeOK, Reserved, Setup, Using, ReserveRun
<1>1. At[q] \in Procs BY LifecycleAssumption
<1>2. q \notin Holders(At[q]) /\ Holders(At[q])' = Holders(At[q]) \cup {q}
  BY DEF Holders
<1>3. Cardinality(Holders(At[q])') = Cardinality(Holders(At[q])) + 1
  <2>1. IsFiniteSet(Holders(At[q])) BY <1>1, HoldersFinite
  <2>2. QED BY ONLY <1>2, <2>1, FS_AddElement
<1>4. \A p \in Procs : p # At[q] => Holders(p)' = Holders(p) BY DEF Holders
<1>5. \A d \in Deletes : pc'[d] = pc[d] OBVIOUS
<1>6. \A d \in Deletes : At[d] = At[q] => pc[d] \notin Removing
  BY <1>1 DEF Exact, ReservationsExact
<1>7. ASSUME NEW p \in Procs
      PROVE  /\ active'[p] = Cardinality(Holders(p)')
             /\ controls => active'[p] <= 1
  BY <1>1, <1>3, <1>4, HoldersFinite DEF Exact, ReservationsExact
<1>8. ReservationsExact' BY <1>5, <1>7 DEF Exact, ReservationsExact
<1>9. \A d \in Deletes, r \in Invocations :
         ~(At[r] = At[d] /\ pc'[d] \in Removing /\ pc'[r] \in Reserved)
  BY <1>5, <1>6 DEF Exact
<1>10. QED BY <1>5, <1>8, <1>9 DEF Exact

\* ThreadActivity.release_run.
LEMMA ExactReleased ==
    ASSUME Base, Exact, NEW q \in Invocations, pc[q] \in Reserved,
           NEW to \in {"done", "abandoned"},
           pc' = [pc EXCEPT ![q] = to], ReleaseRun(At[q]),
           UNCHANGED <<deleting, controls>>
    PROVE  Exact'
<1> USE DistinctKinds DEF Base, TypeOK, Reserved, Setup, Using, ReleaseRun
<1>1. At[q] \in Procs BY LifecycleAssumption
<1>2. q \in Holders(At[q]) /\ Holders(At[q])' = Holders(At[q]) \ {q}
  BY DEF Holders
<1>3. Cardinality(Holders(At[q])') = Cardinality(Holders(At[q])) - 1
  <2>1. IsFiniteSet(Holders(At[q])) BY <1>1, HoldersFinite
  <2>2. QED BY ONLY <1>2, <2>1, FS_RemoveElement
<1>4. IsFiniteSet(Holders(At[q])') BY <1>1, <1>2, HoldersFinite, FS_Subset
<1>5. Cardinality(Holders(At[q])') \in Nat BY <1>4, FS_CardinalityType
<1>6. \A p \in Procs : p # At[q] => Holders(p)' = Holders(p) BY DEF Holders
<1>7. \A d \in Deletes : pc'[d] = pc[d] OBVIOUS
<1>8. ASSUME NEW p \in Procs
      PROVE  /\ active'[p] = Cardinality(Holders(p)')
             /\ controls => active'[p] <= 1
  BY <1>1, <1>3, <1>5, <1>6, HoldersFinite DEF Exact, ReservationsExact
<1>9. ReservationsExact' BY <1>7, <1>8 DEF Exact, ReservationsExact
<1>10. QED BY <1>7, <1>9 DEF Exact

\* ThreadActivity.reserve_delete.
LEMMA ExactDeleting ==
    ASSUME Base, Exact, NEW d \in Deletes, pc[d] = "asked",
           pc' = [pc EXCEPT ![d] = "reserved"], ReserveDelete(At[d]),
           UNCHANGED <<active, controls>>
    PROVE  Exact'
<1> USE DistinctKinds DEF Base, TypeOK, ReserveDelete
<1>1. At[d] \in Procs BY LifecycleAssumption
<1>2. \A q \in Invocations : pc'[q] = pc[q] OBVIOUS
<1>3. \A p \in Procs : Holders(p)' = Holders(p) BY <1>2 DEF Holders
<1>4. Holders(At[d]) = {}
  BY <1>1, HoldersFinite, FS_EmptySet DEF Exact, ReservationsExact
<1>5. \A q \in Invocations : At[q] = At[d] => pc[q] \notin Reserved
  BY <1>4 DEF Holders
<1>6. \A e \in Deletes : At[e] = At[d] => pc[e] \notin Removing
  BY <1>1 DEF Exact, ReservationsExact
<1>7. pc'[d] \in Removing /\ \A e \in Deletes : e # d => pc'[e] = pc[e]
  BY DEF Removing
<1>8. ASSUME NEW p \in Procs
      PROVE  deleting'[p] <=> \E e \in Deletes : At[e] = p /\ pc'[e] \in Removing
  BY <1>1, <1>7 DEF Exact, ReservationsExact
<1>9. ReservationsExact' BY <1>3, <1>8 DEF Exact, ReservationsExact
<1>10. QED BY <1>2, <1>5, <1>6, <1>7, <1>9 DEF Exact

\* ThreadActivity.release_delete.
LEMMA ExactDeleted ==
    ASSUME Base, Exact, NEW d \in Deletes, pc[d] \in Removing,
           NEW to \in Over,
           pc' = [pc EXCEPT ![d] = to], ReleaseDelete(At[d]),
           UNCHANGED <<active, controls>>
    PROVE  Exact'
<1> USE DistinctKinds DEF Base, TypeOK, ReleaseDelete
<1>1. At[d] \in Procs BY LifecycleAssumption
<1>2. \A q \in Invocations : pc'[q] = pc[q] OBVIOUS
<1>3. \A p \in Procs : Holders(p)' = Holders(p) BY <1>2 DEF Holders
<1>4. pc'[d] \notin Removing /\ \A e \in Deletes : e # d => pc'[e] = pc[e]
  BY DEF Removing, Guarded, Erasing, InTree, Over
<1>5. \A e \in Deletes : At[e] = At[d] => pc'[e] \notin Removing
  BY <1>4 DEF Exact
<1>6. ASSUME NEW p \in Procs
      PROVE  deleting'[p] <=> \E e \in Deletes : At[e] = p /\ pc'[e] \in Removing
  BY <1>1, <1>4, <1>5 DEF Exact, ReservationsExact
<1>7. ReservationsExact' BY <1>3, <1>6 DEF Exact, ReservationsExact
<1>8. QED BY <1>2, <1>4, <1>7 DEF Exact

\* A process that dies has neither requests nor reservations.
LEMMA ExactCrashed ==
    ASSUME Base, Exact, NEW p \in Procs, Crash(p)
    PROVE  Exact'
<1> USE DistinctKinds DEF Base, TypeOK, Crash, deployment
<1>1. \A q \in Requests : pc'[q] = IF At[q] = p /\ pc[q] \notin {"idle", "deleted"}
                                  THEN "done" ELSE pc[q]
  OBVIOUS
<1>2. \A q \in Requests : At[q] = p => pc'[q] \notin Reserved \cup Removing
  BY <1>1 DEF Reserved, Setup, Using, Removing, Guarded, Erasing, InTree
<1>3. \A q \in Requests : At[q] # p => pc'[q] = pc[q] BY <1>1
<1>4. Holders(p)' = {} BY <1>2 DEF Holders
<1>5. Cardinality(Holders(p)') = 0 BY <1>4, FS_EmptySet
<1>6. \A r \in Procs : r # p => Holders(r)' = Holders(r) BY <1>3 DEF Holders
<1>7. ASSUME NEW r \in Procs
      PROVE  /\ active'[r] = Cardinality(Holders(r)')
             /\ controls => active'[r] <= 1
  BY <1>5, <1>6 DEF Exact, ReservationsExact
<1>8. ASSUME NEW r \in Procs
      PROVE  deleting'[r] <=> \E e \in Deletes : At[e] = r /\ pc'[e] \in Removing
  <2>1. CASE r = p BY <1>2, <2>1
  <2>2. CASE r # p
    <3>1. deleting'[r] = deleting[r] BY <2>2
    <3>2. \A e \in Deletes : At[e] = r => pc'[e] = pc[e] BY <1>3, <2>2
    <3>3. QED BY <3>1, <3>2 DEF Exact, ReservationsExact
  <2>3. QED BY <2>1, <2>2
<1>9. ReservationsExact' BY <1>7, <1>8 DEF Exact, ReservationsExact
<1>10. QED BY <1>2, <1>3, <1>9 DEF Exact

\* Nothing is reserved at the start.
LEMMA ExactInit == Init => Exact
<1> SUFFICES ASSUME Init PROVE Exact OBVIOUS
<1>1. \A q \in Requests : pc[q] \notin Reserved \cup Removing
  BY DEF Init, Reserved, Setup, Using, Removing, Guarded, Erasing, InTree
<1>2. \A p \in Procs : Holders(p) = {} BY <1>1, DistinctKinds DEF Holders
<1>3. \A p \in Procs : Cardinality(Holders(p)) = 0 BY <1>2, FS_EmptySet
<1>4. ReservationsExact BY <1>1, <1>3, DistinctKinds DEF Init, ReservationsExact
<1>5. QED BY <1>1, <1>4, DistinctKinds DEF Exact

\* Every step keeps the reservations exact.
LEMMA ExactStep == Base /\ Exact /\ [Next]_vars => Exact'
<1> SUFFICES ASSUME Base, Exact, [Next]_vars PROVE Exact' OBVIOUS
<1> USE DistinctKinds DEF Base, TypeOK, Kinds, deployment, process, data, sandbox, Places,
        Setup, Using, Reserved, Leased, Saving, InTree, Erasing, Guarded,
        Removing, Over
<1>1. ASSUME NEW q \in Invocations \cup Creates, SetupStep(q) PROVE Exact'
  <2> USE <1>1
  <2>1. CASE Begin(q)
    <3>1. CASE q \in Invocations BY <2>1, <3>1, ExactReserved DEF Begin, Step
    <3>2. CASE q \in Creates BY <2>1, <3>2, ExactKept DEF Begin, Step
    <3>3. QED BY <3>1, <3>2
  <2>2. CASE TakeLease(q) BY <2>2, ExactKept DEF TakeLease, Move, Step
  <2>3. CASE CheckTombstone(q) BY <2>3, ExactKept DEF CheckTombstone, Move, Step
  <2>4. CASE ReadRow(q) BY <2>4, ExactKept DEF ReadRow, Move, Step
  <2>5. CASE CommitRow(q)
    <3>1. CASE q \in Invocations BY <2>5, <3>1, ExactKept DEF CommitRow
    <3>2. CASE q \in Creates BY <2>5, <3>2, ExactKept DEF CommitRow, Leave
    <3>3. QED BY <3>1, <3>2
  <2>6. CASE Authorize(q)
      BY <2>6, ExactKept DEF Authorize, Move, Step, Invocations
  <2>7. CASE SetupFails(q)
    <3>1. CASE q \in Invocations BY <2>7, <3>1, ExactReleased DEF SetupFails, Leave
    <3>2. CASE q \in Creates BY <2>7, <3>2, ExactKept DEF SetupFails, Leave
    <3>3. QED BY <3>1, <3>2
  <2>8. QED BY <2>1, <2>2, <2>3, <2>4, <2>5, <2>6, <2>7 DEF SetupStep
<1>2. ASSUME NEW q \in Invocations, RunStep(q) PROVE Exact'
  <2> USE <1>2
  <2>1. CASE EnterStream(q) BY <2>1, ExactKept DEF EnterStream, Step, exceptFiles
  <2>2. CASE Checkpoint(q) BY <2>2, ExactKept DEF Checkpoint
  <2>3. CASE RunEnds(q)
      BY <2>3, ExactReleased DEF RunEnds, Leave
  <2>4. CASE Submit(q) BY <2>4, ExactKept DEF Submit, HasThread
  <2>5. CASE ToolWrites(q) BY <2>5, ExactKept DEF ToolWrites, HasThread, exceptFiles
  <2>6. CASE RegisterArtifact(q) BY <2>6, ExactKept DEF RegisterArtifact, HasThread
  <2>7. CASE ThreadEnds(q) BY <2>7, ExactKept DEF ThreadEnds, Move, Step
  <2>8. QED BY <2>1, <2>2, <2>3, <2>4, <2>5, <2>6, <2>7 DEF RunStep
<1>3. ASSUME WorkerStep PROVE Exact'
  <2> USE <1>3
  <2>1. CASE Claim BY <2>1, ExactKept DEF Claim
  <2>2. CASE CommandStarts BY <2>2, ExactKept DEF CommandStarts, exceptFiles
  <2>3. CASE CommandEnds BY <2>3, ExactKept DEF CommandEnds
  <2>4. CASE RowEnds BY <2>4, ExactKept DEF RowEnds
  <2>5. CASE ClaimedEnds BY <2>5, ExactKept DEF ClaimedEnds
  <2>6. QED BY <2>1, <2>2, <2>3, <2>4, <2>5 DEF WorkerStep
<1>4. ASSUME NEW v \in Visits, VisitStep(v) PROVE Exact'
  <2> USE <1>4
  <2>1. CASE Ask(v) BY <2>1, ExactKept DEF Ask, Move, Step
  <2>2. CASE SaveLocks(v) BY <2>2, ExactKept DEF SaveLocks, Move, Step
  <2>3. CASE SaveRechecks(v) BY <2>3, ExactKept DEF SaveRechecks, Move, Step
  <2>4. CASE SaveAssertsIdle(v) BY <2>4, ExactKept DEF SaveAssertsIdle, Move, Step
  <2>5. CASE SaveWrites(v) BY <2>5, ExactKept DEF SaveWrites, Step, exceptFiles
  <2>6. CASE ReadMigrates(v) BY <2>6, ExactKept DEF ReadMigrates, Step, exceptFiles
  <2>7. CASE VisitFails(v) BY <2>7, ExactKept DEF VisitFails
  <2>8. QED BY <2>1, <2>2, <2>3, <2>4, <2>5, <2>6, <2>7 DEF VisitStep
<1>5. ASSUME NEW d \in Deletes, DeleteStep(d) PROVE Exact'
  <2> USE <1>5
  <2>1. CASE Ask(d) BY <2>1, ExactKept DEF Ask, Move, Step
  <2>2. CASE Reserve(d)
      BY <2>2, ExactDeleting DEF Reserve, Step
  <2>3. CASE NotReserved(d) BY <2>3, ExactKept DEF NotReserved, Move, Step
  <2>4. CASE Guard(d) BY <2>4, ExactKept DEF Guard, Move, Step
  <2>5. CASE AssertIdle(d) BY <2>5, ExactKept DEF AssertIdle, Move, Step
  <2>6. CASE Recheck(d) BY <2>6, ExactKept DEF Recheck, Move, Step
  <2>7. CASE Mark(d) BY <2>7, ExactKept DEF Mark, Step
  <2>8. CASE SkipWorkspace(d) BY <2>8, ExactKept DEF SkipWorkspace, Move, Step
  <2>9. CASE UnlinkOwner(d) BY <2>9, ExactKept DEF UnlinkOwner, Step, exceptFiles
  <2>10. CASE RemoveTree(d) BY <2>10, ExactKept DEF RemoveTree, Step
  <2>11. CASE RemoveCheckpoint(d) BY <2>11, ExactKept DEF RemoveCheckpoint, Step
  <2>12. CASE RemoveArtifacts(d) BY <2>12, ExactKept DEF RemoveArtifacts, Step
  <2>13. CASE RemoveRow(d)
      BY <2>13, ExactDeleted DEF RemoveRow, Step
  <2>14. CASE TreeFails(d)
      BY <2>14, ExactDeleted DEF TreeFails
  <2>15. CASE DeleteFails(d)
      BY <2>15, ExactDeleted DEF DeleteFails
  <2>16. QED BY <2>1, <2>2, <2>3, <2>4, <2>5, <2>6, <2>7, <2>8,
           <2>9, <2>10, <2>11, <2>12, <2>13, <2>14, <2>15 DEF DeleteStep
<1>6. ASSUME NEW p \in Procs, Crash(p) PROVE Exact'
  BY <1>6, ExactCrashed
<1>7. ASSUME UNCHANGED vars PROVE Exact'
  BY <1>7, ExactKept DEF vars
<1>8. QED BY <1>1, <1>2, <1>3, <1>4, <1>5, <1>6, <1>7 DEF Next

\* Once the row is gone behind a tombstone, so it stays.
LEMMA GoneStep == Base /\ Course /\ Gone /\ [Next]_vars => Gone'
<1> SUFFICES ASSUME Base, Course, Gone, [Next]_vars PROVE Gone' OBVIOUS
<1> USE DistinctKinds DEF Gone, Course, Erased, Authorized, Base, TypeOK, Kinds, deployment,
        process, data, sandbox, Places, Setup, Using, Reserved, Leased,
        Saving, InTree, Erasing, Guarded, Removing, Over
<1>1. ASSUME NEW q \in Invocations \cup Creates, SetupStep(q) PROVE Gone'
  <2> USE <1>1
  <2>1. CASE Begin(q) BY <2>1 DEF Begin, Step, ReserveRun
  <2>2. CASE TakeLease(q) BY <2>2 DEF TakeLease, Move, Step
  <2>3. CASE CheckTombstone(q) BY <2>3 DEF CheckTombstone, Move, Step
  <2>4. CASE ReadRow(q) BY <2>4 DEF ReadRow, Move, Step
  <2>5. CASE CommitRow(q) BY <2>5 DEF CommitRow, Leave, ReleaseRun
  <2>6. CASE Authorize(q) BY <2>6 DEF Authorize, Move, Step
  <2>7. CASE SetupFails(q) BY <2>7 DEF SetupFails, Leave, ReleaseRun
  <2>8. QED BY <2>1, <2>2, <2>3, <2>4, <2>5, <2>6, <2>7 DEF SetupStep
<1>2. ASSUME NEW q \in Invocations, RunStep(q) PROVE Gone'
  <2> USE <1>2
  <2>1. CASE EnterStream(q) BY <2>1 DEF EnterStream, Step, exceptFiles
  <2>2. CASE Checkpoint(q) BY <2>2 DEF Checkpoint
  <2>3. CASE RunEnds(q) BY <2>3 DEF RunEnds, Leave, ReleaseRun
  <2>4. CASE Submit(q) BY <2>4 DEF Submit, HasThread
  <2>5. CASE ToolWrites(q) BY <2>5 DEF ToolWrites, HasThread, exceptFiles
  <2>6. CASE RegisterArtifact(q) BY <2>6 DEF RegisterArtifact, HasThread
  <2>7. CASE ThreadEnds(q) BY <2>7 DEF ThreadEnds, Move, Step
  <2>8. QED BY <2>1, <2>2, <2>3, <2>4, <2>5, <2>6, <2>7 DEF RunStep
<1>3. ASSUME WorkerStep PROVE Gone'
  <2> USE <1>3
  <2>1. CASE Claim BY <2>1 DEF Claim
  <2>2. CASE CommandStarts BY <2>2 DEF CommandStarts, exceptFiles
  <2>3. CASE CommandEnds BY <2>3 DEF CommandEnds
  <2>4. CASE RowEnds BY <2>4 DEF RowEnds
  <2>5. CASE ClaimedEnds BY <2>5 DEF ClaimedEnds
  <2>6. QED BY <2>1, <2>2, <2>3, <2>4, <2>5 DEF WorkerStep
<1>4. ASSUME NEW v \in Visits, VisitStep(v) PROVE Gone'
  <2> USE <1>4
  <2>1. CASE Ask(v) BY <2>1 DEF Ask, Move, Step
  <2>2. CASE SaveLocks(v) BY <2>2 DEF SaveLocks, Move, Step
  <2>3. CASE SaveRechecks(v) BY <2>3 DEF SaveRechecks, Move, Step
  <2>4. CASE SaveAssertsIdle(v) BY <2>4 DEF SaveAssertsIdle, Move, Step
  <2>5. CASE SaveWrites(v) BY <2>5 DEF SaveWrites, Step, exceptFiles
  <2>6. CASE ReadMigrates(v) BY <2>6 DEF ReadMigrates, Step, exceptFiles
  <2>7. CASE VisitFails(v) BY <2>7 DEF VisitFails
  <2>8. QED BY <2>1, <2>2, <2>3, <2>4, <2>5, <2>6, <2>7 DEF VisitStep
<1>5. ASSUME NEW d \in Deletes, DeleteStep(d) PROVE Gone'
  <2> USE <1>5
  <2>1. CASE Ask(d) BY <2>1 DEF Ask, Move, Step
  <2>2. CASE Reserve(d) BY <2>2 DEF Reserve, Step, ReserveDelete
  <2>3. CASE NotReserved(d) BY <2>3 DEF NotReserved, Move, Step
  <2>4. CASE Guard(d) BY <2>4 DEF Guard, Move, Step
  <2>5. CASE AssertIdle(d) BY <2>5 DEF AssertIdle, Move, Step
  <2>6. CASE Recheck(d) BY <2>6 DEF Recheck, Move, Step
  <2>7. CASE Mark(d) BY <2>7 DEF Mark, Step
  <2>8. CASE SkipWorkspace(d) BY <2>8 DEF SkipWorkspace, Move, Step
  <2>9. CASE UnlinkOwner(d) BY <2>9 DEF UnlinkOwner, Step, exceptFiles
  <2>10. CASE RemoveTree(d) BY <2>10 DEF RemoveTree, Step
  <2>11. CASE RemoveCheckpoint(d) BY <2>11 DEF RemoveCheckpoint, Step
  <2>12. CASE RemoveArtifacts(d) BY <2>12 DEF RemoveArtifacts, Step
  <2>13. CASE RemoveRow(d) BY <2>13 DEF RemoveRow, Step, ReleaseDelete
  <2>14. CASE TreeFails(d) BY <2>14 DEF TreeFails, ReleaseDelete
  <2>15. CASE DeleteFails(d) BY <2>15 DEF DeleteFails, ReleaseDelete
  <2>16. QED BY <2>1, <2>2, <2>3, <2>4, <2>5, <2>6, <2>7, <2>8,
           <2>9, <2>10, <2>11, <2>12, <2>13, <2>14, <2>15 DEF DeleteStep
<1>6. ASSUME NEW p \in Procs, Crash(p) PROVE Gone'
  BY <1>6 DEF Crash
<1>7. ASSUME UNCHANGED vars PROVE Gone'
  BY <1>7 DEF vars
<1>8. QED BY <1>1, <1>2, <1>3, <1>4, <1>5, <1>6, <1>7 DEF Next

-----------------------------------------------------------------------------
(* The theorems.                                                           *)

\* What all of them follow from.
LEMMA SafeInductive == Spec => []Safe
<1>1. Init => Safe BY BaseInit, ExactInit, LockedInit, CourseInit DEF Safe
<1>2. Safe /\ [Next]_vars => Safe'
  BY BaseStep, ExactStep, LockedStep, CourseStep DEF Safe
<1>3. QED BY <1>1, <1>2, PTL DEF Spec

\* Every variable of the conversation keeps its type, whatever requests,
\* failures and crashes meet (endpoints.py, api.py, service.py).
THEOREM TypeCorrect == Spec => []TypeOK
BY SafeInductive, PTL DEF Safe, Base

\* ThreadActivity counts the invocations of its process and knows of its
\* deletion, on every path that a request of endpoints.py can end.
THEOREM ReservationsAreExact == Spec => []ReservationsExact
BY SafeInductive, PTL DEF Safe, Exact

\* A deletion of endpoints.py has the conversation to itself, in its process
\* by ThreadActivity and among all processes by the lock of store.guard.
THEOREM DeletionIsAlone == Spec => []DeletionAlone
<1>1. Safe => DeletionAlone
  BY DEF Safe, Exact, Locked, DeletionAlone, ExclusiveHolders
<1>2. QED BY <1>1, SafeInductive, PTL

\* A save of filesystem/api.py has the workspace to itself.
THEOREM SaveIsAlone == Spec => []SaveAlone
<1>1. Safe => SaveAlone
  BY DEF Safe, Base, Kinds, Locked, SaveAlone, ExclusiveHolders, Saving
<1>2. QED BY <1>1, SafeInductive, PTL

\* delete_thread removes the row last, and nothing writes for a conversation
\* that has none.
THEOREM RowIsLast == Spec => []RowGoesLast
<1>1. Safe => RowGoesLast BY DEF Safe, Course, RowGoesLast
<1>2. QED BY <1>1, SafeInductive, PTL

\* A tombstone without a row is for ever, and nothing is written behind it.
THEOREM DeletedStaysDeleted == Spec => NoRevival
<1>1. Safe /\ Safe' /\ [Next]_vars =>
        [Gone => tombstone' /\ ~row' /\ ~checkpoint' /\ files' = "none"]_vars
  BY GoneStep DEF Safe, Course, Gone
<1>2. QED BY <1>1, SafeInductive, PTL DEF Spec, NoRevival, Gone

=============================================================================
