-------------------------- MODULE RunControlProofs --------------------------
(***************************************************************************)
(* Machine-checked theorems about RunControl, for any sandbox threads and  *)
(* instructions, whether or not the graph or the database may fail.        *)
(***************************************************************************)
EXTENDS RunControl, TLAPS

Before == {"new", "source", "unwind"}

\* How the state, the flags and the place of the pump go together.
Stage ==
    /\ pump \in Before =>
           /\ state \in {"preparing", "running", "stopping"}
           /\ ~saved /\ ~cleanupFailed /\ ~confirmed
           /\ state = "running" => prepared
           /\ prepared => state # "preparing"
           /\ cancelled <=> state = "stopping"
    /\ pump = "unwind" => cancelled
    /\ pump \in Before /\ cancelDue # "no" => cancelled
    /\ pump \in Finalizing \cup {"aborted"} => state = "finalizing"
    /\ pump = "done" => state \in Terminal

\* What finalize has established where it is suspended and when it has ended,
\* and what is known when the lease is gone.
Closing ==
    /\ pump \in Finalizing => ~cleanupFailed
    /\ pump \notin Before => cancelled \/ completed
    /\ pump \in {"sandbox", "counted"} => cancelled /\ ~confirmed
    /\ pump \in {"reconcile", "discard", "inspect"} => confirmed
    /\ pump = "inspect" => completed
    /\ pump = "done" /\ ~cleanupFailed => confirmed
    /\ ~lease => pump \in Ended /\ ~cleanupFailed

\* An active job has a thread in its operation, or one that lost the database;
\* before sandbox_jobs is set no thread has come that far.
Owned ==
    /\ \A t \in Tools : job[t] \in {"queued", "running"} => tool[t] \in {"open", "lost"}
    /\ ~jobsKnown => \A t \in Tools : tool[t] \in {"idle", "thread"}

\* A confirmed cancellation leaves nothing behind but jobs of lost threads.
Quiet ==
    confirmed /\ cancelled =>
        /\ Operations = {}
        /\ \A t \in ActiveJobs : tool[t] = "lost"

\* The delivery is written once, after the graph's last step and after the
\* last instruction that can be accepted.
Delivery ==
    /\ ~saved => \A i \in Instructions : ~aside[i]
    /\ saved => pump \in {"discard", "inspect"} \cup Ended
    /\ SteeringSettled

Base == TypeOK /\ Stage /\ Closing
Safe == Base /\ Owned /\ Quiet /\ Delivery /\ TruthfulOutcome

-----------------------------------------------------------------------------
\* The initial state.
LEMMA BaseInit == Init => Base
BY DEF Init, Base, TypeOK, Stage, Closing, States, Terminal, Before, Finalizing, Ended

\* Where StartFinalize leaves the run.
LEMMA StartFinalizeEffect ==
    ASSUME NEW c \in BOOLEAN, TypeOK, pump \in Before, Stage,
           failure' \in BOOLEAN, prepared' \in BOOLEAN,
           StartFinalize(c)
    PROVE  /\ completed' = c
           /\ cancelled' \in BOOLEAN /\ confirmed' \in BOOLEAN
           /\ cancelled' <=> (cancelled \/ ~c)
           /\ confirmed' <=> (~cancelled' \/ ~jobsKnown)
           /\ UNCHANGED <<cleanupFailed, active, saved>>
           /\ \/ pump' = "sandbox" /\ state' = "finalizing" /\ ~confirmed'
              \/ pump' = "reconcile" /\ state' = "finalizing" /\ confirmed'
              \/ /\ pump' = "done" /\ confirmed'
                 /\ state' \in {"failed", "cancelled", "completed"}
                 /\ state' = "cancelled" => cancelled' /\ ~failure'
                 /\ state' = "completed" => ~cancelled' /\ ~failure'
<1>1. /\ completed' = c /\ cancelled' \in BOOLEAN /\ confirmed' \in BOOLEAN
      /\ cancelled' <=> (cancelled \/ ~c)
      /\ confirmed' <=> (~cancelled' \/ ~jobsKnown)
      /\ UNCHANGED <<cleanupFailed, active, saved>>
      BY DEF StartFinalize, TypeOK
<1>2. CASE ~confirmed' BY <1>1, <1>2 DEF StartFinalize
<1>3. CASE confirmed' /\ prepared' BY <1>1, <1>3 DEF StartFinalize, EnterReconcile
<1>4. CASE confirmed' /\ ~prepared'
      BY <1>1, <1>4 DEF StartFinalize, EnterReconcile, FinishAs, Outcome
<1>5. QED BY <1>1, <1>2, <1>3, <1>4

\* The steps that begin finalize.
Begins(c) ==
    /\ pump \in Before
    /\ StartFinalize(c)
    /\ failure' \in BOOLEAN /\ prepared' \in BOOLEAN
    /\ UNCHANGED <<ends, threads, steering>>
    /\ cancelDue' \in {"no", "behind", "next"}

\* The steps of the graph, its threads and the mailbox leave the run alone.
LEMMA GraphFrame ==
    ASSUME \/ \E i \in Instructions : Steer(i)
           \/ Model
           \/ \E t \in Tools : Thread(t)
    PROVE  UNCHANGED <<flags, final, pump, cancelDue, ends>>
BY DEF Model, Steer, BeforeModel, RootModelCall, SpecialistModelCall, ModelCall,
       Thread, ToolStarts, NameJobs, EnterOperation, CreateJob, JobMoves, LeaveOperation

\* The steps of the pump either begin finalize or leave what it decides alone.
LEMMA PumpBegins ==
    ASSUME TypeOK, Pump \/ CancelAgain
    PROVE  \/ \E c \in BOOLEAN : Begins(c)
           \/ /\ UNCHANGED <<final, ends, threads, steering, cancelled, cleanupFailed>>
              /\ StartPump \/ Prepare \/ Item \/ CancelAgain
<1> USE DEF TypeOK, PumpStep, Begins, Before
<1>1. CASE StartPump BY <1>1 DEF StartPump, flags, final
<1>2. CASE Prepare BY <1>2 DEF Prepare, flags, final
<1>3. CASE Item BY <1>3 DEF Item, flags, final
<1>4. CASE SourceEnds \/ SourceRaises \/ Unwound
      BY <1>4 DEF SourceEnds, SourceRaises, Unwound
<1>5. CASE CancelAgain BY <1>5 DEF CancelAgain, flags, final
<1>6. QED BY <1>1, <1>2, <1>3, <1>4, <1>5 DEF Pump

-----------------------------------------------------------------------------
(* Types, stages and what finalize establishes.                            *)

\* The beginning of finalize keeps Base, except for the variables it frames.
LEMMA BeginsBase ==
    ASSUME Base, NEW c \in BOOLEAN, Begins(c)
    PROVE  Base'
<1>1. TypeOK /\ Stage /\ Closing BY DEF Base
<1>2. /\ pump \in Before /\ StartFinalize(c)
      /\ failure' \in BOOLEAN /\ prepared' \in BOOLEAN
      /\ UNCHANGED <<response, lease, jobsKnown, tool, job, mail, inHistory, aside>>
      /\ cancelDue' \in {"no", "behind", "next"}
      BY DEF Begins, ends, threads, steering
<1>3. /\ completed' = c
      /\ cancelled' \in BOOLEAN /\ confirmed' \in BOOLEAN
      /\ cancelled' <=> (cancelled \/ ~c)
      /\ confirmed' <=> (~cancelled' \/ ~jobsKnown)
      /\ UNCHANGED <<cleanupFailed, active, saved>>
      /\ \/ pump' = "sandbox" /\ state' = "finalizing" /\ ~confirmed'
         \/ pump' = "reconcile" /\ state' = "finalizing" /\ confirmed'
         \/ /\ pump' = "done" /\ confirmed'
            /\ state' \in {"failed", "cancelled", "completed"}
            /\ state' = "cancelled" => cancelled' /\ ~failure'
            /\ state' = "completed" => ~cancelled' /\ ~failure'
      BY <1>1, <1>2, StartFinalizeEffect
<1>4. TypeOK'
      BY <1>1, <1>2, <1>3 DEF TypeOK, States, Terminal, Finalizing, Ended
<1>5. Stage'
      BY <1>1, <1>2, <1>3 DEF Stage, TypeOK, Terminal, Finalizing, Before
<1>6. Closing'
      BY <1>1, <1>2, <1>3 DEF Closing, Stage, TypeOK, Finalizing, Ended, Before
<1>7. QED BY <1>4, <1>5, <1>6 DEF Base

\* Every step.
LEMMA BaseStep == Base /\ [Next]_vars => Base'
<1> SUFFICES ASSUME Base, [Next]_vars PROVE Base' OBVIOUS
<1> USE DEF Base, Terminal, Finalizing, Ended, Before
<1>1. CASE Pump \/ CancelAgain
  <2>1. CASE \E c \in BOOLEAN : Begins(c) BY <2>1, BeginsBase
  <2>2. ASSUME UNCHANGED <<final, ends, threads, steering, cancelled, cleanupFailed>>
        PROVE  (StartPump \/ Prepare \/ Item \/ CancelAgain) => Base'
    <3> USE <2>2 DEF final, ends, threads, steering, flags, PumpStep
    <3>1. CASE StartPump /\ ~cancelled
          BY <3>1 DEF StartPump, TypeOK, States, Stage, Closing
    <3>2. CASE StartPump /\ cancelled
      <4>1. Begins(FALSE) BY <3>2 DEF StartPump, Begins, TypeOK
      <4>2. QED BY <4>1, BeginsBase
    <3>3. CASE Prepare /\ ~cancelled
          BY <3>3 DEF Prepare, TypeOK, States, Stage, Closing
    <3>4. CASE Prepare /\ cancelled
      <4>1. Begins(FALSE) BY <3>4 DEF Prepare, Begins, TypeOK
      <4>2. QED BY <4>1, BeginsBase
    <3>5. CASE Item /\ ~cancelled
      <4>1. UNCHANGED <<pump, state, prepared, response, lease, jobsKnown, tool, job,
                        mail, inHistory, aside>>
            /\ failure' \in BOOLEAN /\ cancelDue' = "no"
            BY <3>5 DEF Item, TypeOK, Stage
      <4>2. TypeOK' BY <4>1 DEF TypeOK
      <4>3. Stage' /\ Closing' BY <4>1 DEF Stage, Closing
      <4>4. QED BY <4>2, <4>3
    <3>6. CASE Item /\ cancelled
      <4>1. Begins(FALSE) BY <3>6 DEF Item, Begins, TypeOK
      <4>2. QED BY <4>1, BeginsBase
    <3>7. CASE CancelAgain /\ pump \in Finalizing
          BY <3>7 DEF CancelAgain, TypeOK, States, Stage, Closing
    <3>8. CASE CancelAgain /\ pump \notin Finalizing
      <4>1. Begins(FALSE) BY <3>8 DEF CancelAgain, Begins, TypeOK
      <4>2. QED BY <4>1, BeginsBase
    <3>9. QED BY <3>1, <3>2, <3>3, <3>4, <3>5, <3>6, <3>7, <3>8
  <2>3. QED BY <1>1, <2>1, <2>2, PumpBegins
<1>2. CASE Finalize
  <2> USE DEF flags, final, ends, threads, steering, PumpStep, TypeOK, States, Stage, Closing
  <2>1. CASE CancelJobs BY <2>1 DEF CancelJobs
  <2>2. CASE Confirm BY <2>2 DEF Confirm, EnterReconcile, FinishAs, Outcome
  <2>3. CASE Reconcile
        BY <2>3 DEF Reconcile, SaveDelivery, AfterReconcile, FinishAs, Outcome
  <2>7. CASE Discard BY <2>7 DEF Discard, AfterReconcile, FinishAs, Outcome
  <2>4. CASE Inspect BY <2>4 DEF Inspect, FinishAs, Outcome
  <2>5. CASE FinalizeFails BY <2>5 DEF FinalizeFails, FinishAs
  <2>6. QED BY <1>2, <2>1, <2>2, <2>3, <2>4, <2>5, <2>7 DEF Finalize
<1>3. CASE Stop \/ LeaveStream
  <2>1. /\ UNCHANGED <<cleanupFailed, failure, prepared, completed, confirmed, active,
                       saved, pump, lease, jobsKnown, tool, job, mail, inHistory, aside>>
        /\ response' \in {"open", "closing", "overdue", "closed"}
        /\ \/ UNCHANGED <<state, cancelled, cancelDue>>
           \/ /\ state \in {"preparing", "running"}
              /\ state' = "stopping" /\ cancelled' = TRUE
              /\ cancelDue' \in {"no", "behind", "next"}
    <3> USE DEF final, ends, threads, steering
    <3>1. CASE Stop BY <3>1 DEF Stop, StopRun, TypeOK
    <3>2. CASE LeaveStream BY <3>2 DEF LeaveStream, StopRun
    <3>3. QED BY <1>3, <3>1, <3>2
  <2>2. TypeOK'
    <3>1. /\ state' \in States /\ cancelled' \in BOOLEAN
          /\ cancelDue' \in {"no", "behind", "next"}
          BY <2>1 DEF TypeOK, States
    <3>2. QED BY <2>1, <3>1 DEF TypeOK
  <2>3. Stage' BY <2>1 DEF Stage, TypeOK
  <2>4. Closing' BY <2>1 DEF Closing, Stage
  <2>5. QED BY <2>2, <2>3, <2>4
<1>7. CASE DeliverCancel
  <2>1. /\ UNCHANGED <<flags, final, ends, threads, steering>>
        /\ cancelDue' = "no"
        /\ \/ pump = "source" /\ pump' = "unwind"
           \/ pump \in Finalizing /\ pump' = "aborted"
           \/ UNCHANGED pump
        BY <1>7 DEF DeliverCancel
  <2>2. pump = "source" /\ pump' = "unwind" => cancelled
        BY <1>7 DEF DeliverCancel, Stage
  <2>3. TypeOK' BY <2>1 DEF flags, final, ends, threads, steering, TypeOK
  <2>4. Stage' BY <2>1, <2>2 DEF flags, final, Stage
  <2>5. Closing' BY <2>1 DEF flags, final, ends, Closing
  <2>6. QED BY <2>3, <2>4, <2>5
<1>8. CASE Overdue \/ Release
  <2> USE DEF flags, final, ends, threads, steering
  <2>1. TypeOK' BY <1>8 DEF Overdue, Release, TypeOK
  <2>2. Stage' /\ Closing' BY <1>8 DEF Overdue, Release, Stage, Closing
  <2>3. QED BY <2>1, <2>2
<1>4. CASE \/ \E i \in Instructions : Steer(i)
           \/ Model
           \/ \E t \in Tools : Thread(t)
  <2>1. UNCHANGED <<flags, final, pump, cancelDue, ends>> BY <1>4, GraphFrame
  <2>2. /\ jobsKnown' \in BOOLEAN
        /\ tool' \in [Tools -> {"idle", "thread", "named", "open", "gone", "lost"}]
        /\ job' \in [Tools -> {"none", "queued", "running", "ended"}]
        /\ mail' \in [Instructions -> {"none", "received", "applied"}]
        /\ inHistory' \in [Instructions -> BOOLEAN]
        /\ aside' \in [Instructions -> BOOLEAN]
    <3> USE DEF threads, steering, TypeOK
    <3>1. CASE \E i \in Instructions : Steer(i) BY <3>1 DEF Steer
    <3>2. CASE BeforeModel BY <3>2 DEF BeforeModel
    <3>3. CASE RootModelCall \/ SpecialistModelCall
          BY <3>3 DEF RootModelCall, SpecialistModelCall, ModelCall
    <3>4. ASSUME NEW t \in Tools, Thread(t)
          PROVE  /\ jobsKnown' \in BOOLEAN /\ UNCHANGED steering
                 /\ tool' \in [Tools -> {"idle", "thread", "named", "open", "gone", "lost"}]
                 /\ job' \in [Tools -> {"none", "queued", "running", "ended"}]
      <4>1. CASE ToolStarts(t) \/ NameJobs(t) BY <4>1 DEF ToolStarts, NameJobs
      <4>2. CASE EnterOperation(t) BY <4>2 DEF EnterOperation
      <4>3. CASE CreateJob(t) BY <4>3 DEF CreateJob
      <4>4. CASE JobMoves(t) BY <4>4 DEF JobMoves
      <4>5. CASE LeaveOperation(t) BY <4>5 DEF LeaveOperation
      <4>6. QED BY <3>4, <4>1, <4>2, <4>3, <4>4, <4>5 DEF Thread
    <3>5. QED BY <1>4, <3>1, <3>2, <3>3, <3>4 DEF Model
  <2>5. TypeOK' BY <2>1, <2>2 DEF flags, final, ends, TypeOK
  <2>3. Stage' /\ Closing'
        BY <2>1 DEF flags, final, ends, Stage, Closing
  <2>4. QED BY <2>5, <2>3
<1>5. CASE UNCHANGED vars
      BY <1>5 DEF vars, flags, final, ends, threads, steering, TypeOK, Stage, Closing
<1>6. QED BY <1>1, <1>2, <1>3, <1>4, <1>5, <1>7, <1>8 DEF Next, Respond

\* Every variable keeps its type, and the state and the flags fit the place
\* the pump is at.
THEOREM BaseHolds == Spec => []Base
<1>1. QED BY BaseInit, BaseStep, PTL DEF Spec

\* The state of a run, its flags, the jobs it waits for and the pump keep their types.
THEOREM RunTypeCorrect == Spec => []TypeOK
<1>1. Base => TypeOK BY DEF Base
<1>2. QED BY BaseHolds, <1>1, PTL

-----------------------------------------------------------------------------
(* The threads, and what a confirmation means.                             *)

\* Only a round of cancellation and the threads themselves touch the threads.
LEMMA ThreadsFrame ==
    ASSUME TypeOK, [Next]_vars,
           ~CancelJobs, ~ \E t \in Tools : Thread(t)
    PROVE  UNCHANGED <<jobsKnown, tool, job>>
<1> USE DEF threads
<1>1. CASE Pump BY <1>1 DEF Pump, StartPump, Prepare, Item, SourceEnds, SourceRaises, Unwound
<1>2. CASE Finalize
      BY <1>2 DEF Finalize, Confirm, Reconcile, SaveDelivery, Discard, Inspect, FinalizeFails
<1>3. CASE Stop \/ DeliverCancel \/ CancelAgain BY <1>3 DEF Stop, DeliverCancel, CancelAgain
<1>4. CASE Respond BY <1>4 DEF Respond, LeaveStream, Overdue, Release
<1>5. CASE \E i \in Instructions : Steer(i) BY <1>5 DEF Steer
<1>6. CASE Model
      BY <1>6 DEF Model, BeforeModel, RootModelCall, SpecialistModelCall, ModelCall
<1>7. CASE UNCHANGED vars BY <1>7 DEF vars
<1>8. QED BY <1>1, <1>2, <1>3, <1>4, <1>5, <1>6, <1>7 DEF Next

\* An active job keeps its thread.
LEMMA OwnedStep == TypeOK /\ Owned /\ [Next]_vars => Owned'
<1> SUFFICES ASSUME TypeOK, Owned, [Next]_vars PROVE Owned' OBVIOUS
<1>1. CASE CancelJobs
  <2>1. UNCHANGED <<jobsKnown, tool>> BY <1>1 DEF CancelJobs
  <2>2. \A t \in Tools : job'[t] \in {"queued", "running"} => job[t] = job'[t]
        BY <1>1 DEF CancelJobs
  <2>3. QED BY <2>1, <2>2 DEF Owned
<1>2. ASSUME NEW t \in Tools, Thread(t) PROVE Owned'
  <2> USE DEF Owned, TypeOK
  <2>1. CASE ToolStarts(t) BY <2>1 DEF ToolStarts
  <2>2. CASE NameJobs(t) BY <2>2 DEF NameJobs
  <2>3. CASE EnterOperation(t) BY <2>3 DEF EnterOperation
  <2>4. CASE CreateJob(t) BY <2>4 DEF CreateJob
  <2>5. CASE JobMoves(t) BY <2>5 DEF JobMoves
  <2>6. CASE LeaveOperation(t) BY <2>6 DEF LeaveOperation
  <2>7. QED BY <1>2, <2>1, <2>2, <2>3, <2>4, <2>5, <2>6 DEF Thread
<1>3. CASE ~CancelJobs /\ ~ \E t \in Tools : Thread(t)
      BY <1>3, ThreadsFrame DEF Owned
<1>4. QED BY <1>1, <1>2, <1>3

\* What is quiet stays quiet while the threads, the confirmation and the stop
\* request stay.
LEMMA QuietFrame ==
    ASSUME Quiet, UNCHANGED <<tool, job>>, confirmed' /\ cancelled' => confirmed /\ cancelled
    PROVE  Quiet'
BY DEF Quiet, Operations, ActiveJobs

\* What was quiet at the release stays quiet.
LEMMA QuietStep == Base /\ Owned /\ Quiet /\ [Next]_vars => Quiet'
<1> SUFFICES ASSUME TypeOK, Stage, Closing, Owned, Quiet, [Next]_vars PROVE Quiet'
    BY DEF Base
<1>1. CASE Pump \/ CancelAgain
  <2>1. UNCHANGED <<jobsKnown, tool, job>>
        BY <1>1 DEF Pump, StartPump, Prepare, Item, SourceEnds, SourceRaises, Unwound,
                    CancelAgain, threads
  <2>2. ASSUME NEW c \in BOOLEAN, Begins(c), confirmed', cancelled' PROVE Quiet'
    <3>1. ~jobsKnown BY <2>2, StartFinalizeEffect DEF Begins
    <3>2. QED BY <2>1, <3>1 DEF Owned, Quiet, Operations, ActiveJobs
  <2>3. ASSUME UNCHANGED <<final, ends, threads, steering, cancelled, cleanupFailed>>
        PROVE  Quiet'
        BY <2>1, <2>3, QuietFrame DEF final
  <2>4. QED BY <1>1, <2>2, <2>3, PumpBegins DEF Quiet
<1>2. CASE CancelJobs BY <1>2 DEF CancelJobs, Closing, Quiet, flags
<1>3. CASE Confirm
  <2>1. UNCHANGED <<tool, job, cancelled>> BY <1>3 DEF Confirm, threads
  <2>2. CASE Operations = {}
        BY <2>1, <2>2 DEF Quiet, Operations, ActiveJobs, Owned
  <2>3. CASE Operations # {}
        BY <1>3, <2>1, <2>3 DEF Confirm, Closing, Quiet
  <2>4. QED BY <2>2, <2>3
<1>4. CASE Reconcile \/ Discard \/ Inspect \/ FinalizeFails
  <2>1. UNCHANGED <<tool, job, confirmed, cancelled>>
        BY <1>4 DEF Reconcile, SaveDelivery, Discard, Inspect, FinalizeFails, final, threads
  <2>2. QED BY <2>1, QuietFrame
<1>5. CASE Stop \/ LeaveStream
  <2>1. UNCHANGED <<tool, job, confirmed>>
        /\ (UNCHANGED cancelled \/ state \in {"preparing", "running"})
        BY <1>5 DEF Stop, LeaveStream, StopRun, final, threads
  <2>2. state \in {"preparing", "running"} => ~confirmed
        BY DEF Stage, TypeOK, Terminal, Before, Finalizing, Ended
  <2>3. QED BY <2>1, <2>2, QuietFrame
<1>6. CASE DeliverCancel \/ Overdue \/ Release
      BY <1>6, QuietFrame DEF DeliverCancel, Overdue, Release, flags, final, threads
<1>7. CASE (\E i \in Instructions : Steer(i)) \/ Model
      BY <1>7, QuietFrame DEF Steer, Model, BeforeModel, RootModelCall, SpecialistModelCall,
                              ModelCall, flags, final, threads
<1>8. ASSUME NEW t \in Tools, Thread(t) PROVE Quiet'
  <2>1. UNCHANGED <<confirmed, cancelled>>
        BY <1>8, GraphFrame DEF flags, final
  <2>2. SUFFICES ASSUME confirmed, cancelled PROVE Quiet' BY <2>1 DEF Quiet
  <2>3. /\ tool[t] # "open"
        /\ \A u \in ActiveJobs : tool[u] = "lost"
        /\ \A u \in Tools : tool[u] # "open"
        BY <2>2 DEF Quiet, Operations
  <2> USE <2>2, <2>3 DEF Quiet, Operations, ActiveJobs, TypeOK
  <2>4. CASE ToolStarts(t) BY <2>4 DEF ToolStarts, GraphRuns
  <2>5. CASE NameJobs(t) BY <2>5 DEF NameJobs
  <2>6. CASE EnterOperation(t) BY <2>6 DEF EnterOperation
  <2>7. CASE JobMoves(t) BY <2>7 DEF JobMoves
  <2>8. CASE CreateJob(t) \/ LeaveOperation(t) BY <2>8 DEF CreateJob, LeaveOperation
  <2>9. QED BY <1>8, <2>4, <2>5, <2>6, <2>7, <2>8 DEF Thread
<1>9. CASE UNCHANGED vars BY <1>9, QuietFrame DEF vars, flags, final, threads
<1>10. QED BY <1>1, <1>2, <1>3, <1>4, <1>5, <1>6, <1>7, <1>8, <1>9
           DEF Next, Finalize, Respond

\* Whatever the threads and the pump do in between: once the lease of a
\* cancelled run is released after finalize, no thread is in an operation and
\* only a thread that had lost the database leaves an active job
\* (_cancel_sandbox and on_close in run_control.py).
THEOREM LeaseReleasedQuiet == Spec => []ReleasedQuiet
<1>1. Init => Owned /\ Quiet BY DEF Init, Owned, Quiet
<1>2. Base /\ Owned /\ Quiet /\ [Next]_vars => Owned' /\ Quiet'
      BY OwnedStep, QuietStep DEF Base
<1>3. Base /\ Owned /\ Quiet => ReleasedQuiet
      BY DEF Base, TypeOK, Closing, Quiet, ReleasedQuiet
<1>4. QED BY BaseHolds, <1>1, <1>2, <1>3, PTL DEF Spec

-----------------------------------------------------------------------------
(* Instructions.                                                           *)

\* Only Reconcile writes the delivery, and where it has been written nothing
\* that touches an instruction can happen any more.
LEMMA DeliveryStep == Base /\ Delivery /\ [Next]_vars => Delivery'
<1> SUFFICES ASSUME TypeOK, Stage, Closing, Delivery, [Next]_vars PROVE Delivery'
    BY DEF Base
<1> USE DEF Before, Finalizing, Ended
<1>1. CASE Reconcile
  <2>1. /\ pump = "reconcile" /\ saved' = TRUE /\ pump' \in {"discard", "inspect", "done"}
        /\ UNCHANGED mail
        /\ inHistory' = [i \in Instructions |-> i \in Applied]
        /\ aside' = [i \in Instructions |-> aside[i] \/ i \in Accepted \ Applied]
        BY <1>1 DEF Reconcile, SaveDelivery, AfterReconcile, FinishAs
  <2>2. \A i \in Instructions : ~aside[i] BY <2>1 DEF Delivery
  <2>3. SteeringSettled'
        BY <2>1, <2>2 DEF SteeringSettled, Accepted, Applied
  <2>4. QED BY <2>1, <2>3 DEF Delivery
<1>2. ASSUME UNCHANGED <<saved, mail, inHistory, aside>>,
             saved => pump' \in {"discard", "inspect"} \cup Ended
      PROVE  Delivery'
      BY <1>2 DEF Delivery, SteeringSettled, Accepted, Applied
<1>3. ASSUME UNCHANGED <<saved, aside, pump>>, ~saved PROVE Delivery'
      BY <1>3 DEF Delivery, SteeringSettled
<1>4. CASE Pump \/ CancelAgain
  <2>1. ASSUME NEW c \in BOOLEAN, Begins(c) PROVE Delivery'
    <3>1. UNCHANGED <<mail, inHistory, aside, saved>> /\ ~saved
          BY <2>1, StartFinalizeEffect DEF Begins, steering, Stage
    <3>2. QED BY <3>1, <1>2
  <2>2. ASSUME UNCHANGED <<final, ends, threads, steering, cancelled, cleanupFailed>>,
               StartPump \/ Prepare \/ Item \/ CancelAgain
        PROVE  Delivery'
    <3>1. UNCHANGED <<saved, mail, inHistory, aside>> BY <2>2 DEF final, steering
    <3>2. pump \notin Before => pump' = "aborted"
          BY <2>2 DEF StartPump, Prepare, Item, CancelAgain
    <3>3. QED BY <3>1, <3>2, <1>2 DEF Stage
  <2>3. QED BY <1>4, <2>1, <2>2, PumpBegins
<1>5. CASE CancelJobs \/ Confirm \/ Discard \/ Inspect \/ FinalizeFails
  <2>1. UNCHANGED <<saved, mail, inHistory, aside>>
        BY <1>5 DEF CancelJobs, Confirm, Discard, Inspect, FinalizeFails, final, steering
  <2>2. pump \in {"sandbox", "counted"} \/ pump' \in {"inspect", "done"}
        BY <1>5 DEF CancelJobs, Confirm, Discard, AfterReconcile, Inspect, FinalizeFails,
                    FinishAs
  <2>3. QED BY <2>1, <2>2, <1>2 DEF Delivery
<1>6. CASE Stop \/ LeaveStream
      BY <1>6, <1>2 DEF Stop, LeaveStream, final, steering, Delivery
<1>7. CASE DeliverCancel
  <2>1. UNCHANGED <<saved, mail, inHistory, aside>>
        /\ (pump = "source" \/ pump' = "aborted" \/ UNCHANGED pump)
        BY <1>7 DEF DeliverCancel, final, steering
  <2>2. QED BY <2>1, <1>2 DEF Stage, Delivery
<1>8. CASE Overdue \/ Release
      BY <1>8, <1>2 DEF Overdue, Release, final, steering, Delivery
<1>9. ASSUME NEW i \in Instructions, Steer(i) PROVE Delivery'
  <2>1. UNCHANGED <<saved, aside, pump>> /\ state = "running"
        BY <1>9 DEF Steer, final
  <2>2. ~saved BY <2>1 DEF Stage, TypeOK, Terminal
  <2>3. QED BY <2>1, <2>2, <1>3
<1>10. CASE Model
  <2>1. UNCHANGED <<saved, aside, pump>> /\ pump = "source"
        BY <1>10 DEF Model, BeforeModel, RootModelCall, SpecialistModelCall, ModelCall,
                     GraphRuns, final
  <2>2. QED BY <2>1, <1>3 DEF Stage
<1>11. ASSUME NEW t \in Tools, Thread(t) PROVE Delivery'
  <2>1. UNCHANGED <<saved, mail, inHistory, aside, pump>>
        BY <1>11 DEF Thread, ToolStarts, NameJobs, EnterOperation, CreateJob, JobMoves,
                     LeaveOperation, final, steering
  <2>2. QED BY <2>1, <1>2 DEF Delivery
<1>12. CASE UNCHANGED vars BY <1>12, <1>2 DEF vars, final, steering, Delivery
<1>13. QED BY <1>1, <1>4, <1>5, <1>6, <1>7, <1>8, <1>9, <1>10, <1>11, <1>12
           DEF Next, Finalize, Respond

\* However a stop, a steer and a model call interleave: when the delivery is
\* saved, an instruction is in the model's history exactly if a model call has
\* applied it, and set aside otherwise (_reconcile in run_control.py).
THEOREM InstructionsSettled == Spec => []SteeringSettled
<1>1. Init => Delivery BY DEF Init, Delivery, SteeringSettled
<1>2. Delivery => SteeringSettled BY DEF Delivery
<1>3. QED BY BaseHolds, DeliveryStep, <1>1, <1>2, PTL DEF Spec

-----------------------------------------------------------------------------
(* The outcome, and the direction of the state.                            *)

\* A final state means that the pump is done with the run.
LEMMA TerminalIsDone == Base /\ state \in Terminal => pump = "done"
BY DEF Base, TypeOK, Stage, Terminal, Before, Finalizing, Ended

\* What one step may do to the state, and with which flags it ends the run.
LEMMA StateStep ==
    ASSUME Base, [Next]_vars
    PROVE  /\ \/ UNCHANGED state
              \/ state = "preparing" /\ state' = "running"
              \/ state \in {"preparing", "running"} /\ state' = "stopping"
              \/ pump \in Before /\ state' \in {"finalizing"} \cup Terminal
              \/ pump \in Finalizing /\ state' \in {"finalizing"} \cup Terminal
           /\ state' # state /\ state' = "cancelled" => cancelled' /\ ~failure'
           /\ state' # state /\ state' \in {"completed", "paused"} =>
                  ~cancelled' /\ ~failure' /\ completed'
           /\ pump = "done" => UNCHANGED <<state, cancelled, failure, completed>>
<1> USE DEF Terminal, Before, Finalizing, Ended
<1>0. TypeOK /\ Stage /\ Closing BY DEF Base
<1>1. ASSUME NEW c \in BOOLEAN, Begins(c)
      PROVE  /\ pump \in Before /\ state' \in {"finalizing"} \cup Terminal
             /\ state' = "cancelled" => cancelled' /\ ~failure'
             /\ state' \in {"completed", "paused"} =>
                    ~cancelled' /\ ~failure' /\ completed'
      BY <1>0, <1>1, StartFinalizeEffect DEF Begins
<1>2. ASSUME UNCHANGED <<final, cancelled>>, StartPump \/ Prepare \/ Item \/ CancelAgain,
             ~ \E c \in BOOLEAN : Begins(c)
      PROVE  /\ UNCHANGED state \/ (state = "preparing" /\ state' = "running")
             /\ pump # "done"
  <2>1. CASE StartPump \/ Item
    <3>1. CASE cancelled
      <4>1. Begins(FALSE) BY <1>0, <2>1, <3>1 DEF StartPump, Item, Begins, PumpStep, TypeOK
      <4>2. QED BY <4>1, <1>2
    <3>2. CASE ~cancelled BY <2>1, <3>2 DEF StartPump, Item, flags
    <3>3. QED BY <3>1, <3>2
  <2>2. CASE Prepare
    <3>1. CASE cancelled
      <4>1. Begins(FALSE) BY <1>0, <2>2, <3>1 DEF Prepare, Begins, PumpStep, TypeOK
      <4>2. QED BY <4>1, <1>2
    <3>2. CASE ~cancelled BY <1>0, <2>2, <3>2 DEF Prepare, Stage
    <3>3. QED BY <3>1, <3>2
  <2>3. CASE CancelAgain
    <3>1. CASE pump \in Finalizing BY <2>3, <3>1 DEF CancelAgain, flags
    <3>2. CASE pump \notin Finalizing
      <4>1. Begins(FALSE) BY <1>0, <2>3, <3>2 DEF CancelAgain, Begins, TypeOK
      <4>2. QED BY <4>1, <1>2
    <3>3. QED BY <3>1, <3>2
  <2>4. QED BY <1>2, <2>1, <2>2, <2>3
<1>3. CASE Pump \/ CancelAgain
      BY <1>0, <1>1, <1>2, <1>3, PumpBegins
<1>4. CASE CancelJobs BY <1>4 DEF CancelJobs, flags
<1>5. CASE Confirm \/ Reconcile \/ Discard \/ Inspect
  <2>1. /\ pump \in Finalizing /\ UNCHANGED <<cancelled, failure, completed>>
        /\ (UNCHANGED state \/ state' = "finalizing"
             \/ \E paused \in BOOLEAN : state' = Outcome(paused))
        BY <1>5 DEF Confirm, Reconcile, SaveDelivery, Discard, AfterReconcile, Inspect,
                    EnterReconcile, FinishAs, final
  <2>2. \A paused \in BOOLEAN :
            /\ Outcome(paused) \in Terminal
            /\ Outcome(paused) = "cancelled" => cancelled' /\ ~failure'
            /\ Outcome(paused) \in {"completed", "paused"} => ~cancelled' /\ ~failure'
        BY DEF Outcome
  <2>3. cancelled \/ completed BY <1>0, <2>1 DEF Closing
  <2>4. cancelled \in BOOLEAN BY <1>0 DEF TypeOK
  <2>5. QED BY <2>1, <2>2, <2>3, <2>4
<1>6. CASE FinalizeFails BY <1>6 DEF FinalizeFails, FinishAs
<1>7. CASE Stop \/ LeaveStream
  <2>1. /\ UNCHANGED <<failure, completed>>
        /\ \/ UNCHANGED <<state, cancelled>>
           \/ state \in {"preparing", "running"} /\ state' = "stopping"
        BY <1>7 DEF Stop, LeaveStream, StopRun, final
  <2>2. QED BY <1>0, <2>1 DEF Stage
<1>8. CASE DeliverCancel \/ Overdue \/ Release
      BY <1>8 DEF DeliverCancel, Overdue, Release, flags, final
<1>9. CASE \/ \E i \in Instructions : Steer(i)
           \/ Model
           \/ \E t \in Tools : Thread(t)
      BY <1>9, GraphFrame DEF flags, final
<1>10. CASE UNCHANGED vars BY <1>10 DEF vars, flags, final
<1>11. QED BY <1>3, <1>4, <1>5, <1>6, <1>7, <1>8, <1>9, <1>10 DEF Next, Finalize, Respond

\* However a stop, a failure and the end of the graph interleave, the outcome
\* that finalize reports is the one its flags say.
THEOREM OutcomeTruthful == Spec => []TruthfulOutcome
<1>1. Init => TruthfulOutcome BY DEF Init, TruthfulOutcome
<1>2. Base /\ TruthfulOutcome /\ [Next]_vars => TruthfulOutcome'
  <2> SUFFICES ASSUME Base, TruthfulOutcome, [Next]_vars PROVE TruthfulOutcome' OBVIOUS
  <2>1. CASE state' # state BY <2>1, StateStep DEF TruthfulOutcome
  <2>2. CASE state' = state /\ state \in Terminal
        BY <2>2, StateStep, TerminalIsDone DEF TruthfulOutcome
  <2>3. CASE state' = state /\ state \notin Terminal
        BY <2>3 DEF TruthfulOutcome, Terminal
  <2>4. QED BY <2>1, <2>2, <2>3
<1>3. QED BY BaseHolds, <1>1, <1>2, PTL DEF Spec

\* No step takes the state back: preparation does not undo a stop request, and
\* nothing undoes the outcome.
THEOREM StateOnlyAdvances == Spec => StateAdvances
<1>1. Base /\ [Next]_vars => [state' # state => Rank(state') > Rank(state)]_vars
  <2> SUFFICES ASSUME Base, [Next]_vars, state' # state PROVE Rank(state') > Rank(state)
      OBVIOUS
  <2>1. Rank("preparing") = 0 /\ Rank("running") = 1 /\ Rank("stopping") = 2
        /\ Rank("finalizing") = 3 /\ \A s \in Terminal : Rank(s) = 4
        BY DEF Rank, Terminal
  <2>2. pump \in Before => state \in {"preparing", "running", "stopping"}
        BY DEF Base, Stage
  <2>3. pump \in Finalizing => state = "finalizing"
        BY DEF Base, Stage
  <2>4. QED BY <2>1, <2>2, <2>3, StateStep
<1>2. QED BY BaseHolds, <1>1, PTL DEF Spec, StateAdvances

-----------------------------------------------------------------------------
(* The run implements the ledger of runs.                                  *)

Seen == IF pump = "aborted" THEN "abandoned"
        ELSE IF state = "preparing" THEN "running" ELSE state

\* The run under way was stopped.
Halted == cancelled /\ pump \notin Ended

\* Whoever leaves the response stops a run whose graph is still at work.
LeftStopped == response # "open" /\ pump \in Before => cancelled

LEMMA LeftStoppedStep == Base /\ LeftStopped /\ [Next]_vars => LeftStopped'
<1> SUFFICES ASSUME Base, LeftStopped, [Next]_vars PROVE LeftStopped'
    OBVIOUS
<1> USE DEF LeftStopped, Before, Finalizing, Ended
<1>0. TypeOK /\ Stage BY DEF Base
<1>1. CASE Pump \/ CancelAgain
  <2>1. CASE \E c \in BOOLEAN : Begins(c)
        BY <1>0, <2>1, StartFinalizeEffect DEF Begins
  <2>2. CASE ~ \E c \in BOOLEAN : Begins(c)
    <3>1. /\ UNCHANGED <<ends, cancelled>>
          /\ StartPump \/ Prepare \/ Item \/ CancelAgain
          BY <1>0, <1>1, <2>2, PumpBegins
    <3>2. pump' \in Before => pump \in Before
          BY <1>0, <3>1 DEF StartPump, Prepare, Item, CancelAgain, flags, final, TypeOK
    <3>3. QED BY <3>1, <3>2 DEF ends
  <2>3. QED BY <2>1, <2>2
<1>2. CASE Finalize
  <2>1. pump \in Finalizing BY <1>2 DEF Finalize, CancelJobs, Confirm, Reconcile,
            SaveDelivery, Discard, Inspect, FinalizeFails
  <2>2. pump' \notin Before
        BY <1>2, <2>1 DEF Finalize, CancelJobs, Confirm, Reconcile, SaveDelivery,
           Discard, AfterReconcile, Inspect, FinalizeFails, EnterReconcile, FinishAs
  <2>3. QED BY <2>2
<1>3. CASE Stop BY <1>0, <1>3 DEF Stop, StopRun, ends
<1>4. CASE LeaveStream
      BY <1>0, <1>4 DEF LeaveStream, StopRun, Stage, TypeOK
<1>5. CASE DeliverCancel BY <1>5 DEF DeliverCancel, flags, ends
<1>6. CASE Overdue \/ Release \/ UNCHANGED vars
      BY <1>6 DEF Overdue, Release, vars, flags, ends
<1>7. CASE \/ \E i \in Instructions : Steer(i)
           \/ Model
           \/ \E t \in Tools : Thread(t)
      BY <1>7, GraphFrame DEF flags, ends
<1>8. QED BY <1>1, <1>2, <1>3, <1>4, <1>5, <1>6, <1>7 DEF Next, Respond

\* A run that ends as cancelled without anything to finalize was stopped.
LEMMA EndsStopped ==
    ASSUME Base, LeftStopped, Pump \/ CancelAgain, NEW c \in BOOLEAN, Begins(c),
           state' = "cancelled"
    PROVE  cancelled
<1> USE DEF Before, Finalizing, Ended
<1>1. TypeOK /\ Stage BY DEF Base
<1>2. /\ pump \in Before /\ state \in {"preparing", "running", "stopping"}
      /\ cancelled' /\ ~failure'
      BY <1>1, StartFinalizeEffect DEF Begins, Stage
<1>3. CASE StartPump BY <1>2, <1>3 DEF StartPump, flags
<1>4. CASE Prepare BY <1>2, <1>4 DEF Prepare
<1>5. CASE Item BY <1>2, <1>5 DEF Item
<1>6. CASE SourceEnds BY <1>1, <1>2, <1>6 DEF SourceEnds, StartFinalize, TypeOK
<1>7. CASE SourceRaises BY <1>2, <1>7 DEF SourceRaises
<1>8. CASE Unwound BY <1>1, <1>8 DEF Unwound, Stage
<1>9. CASE CancelAgain BY <1>2, <1>9 DEF CancelAgain, LeftStopped
<1>10. QED BY <1>3, <1>4, <1>5, <1>6, <1>7, <1>8, <1>9 DEF Pump

\* What the ledger sees of a run before and after finalize has begun.
LEMMA SeenStages ==
    ASSUME Base
    PROVE  /\ pump \in Before => Seen \in {"running", "stopping"}
           /\ pump \in Before /\ state \in {"preparing", "running"} => Seen = "running"
           /\ pump \in Finalizing => Seen = "finalizing"
           /\ pump = "aborted" => Seen = "abandoned"
           /\ pump = "done" => Seen = state /\ state \in Terminal
           /\ Seen = "stopping" => cancelled
BY DEF Base, TypeOK, Stage, Seen, Before, Finalizing, Ended, Terminal

\* A step that leaves the ledger's view alone stutters.
LEMMA LedgerStutters ==
    ASSUME UNCHANGED <<Seen, Halted, lease>>
    PROVE  UNCHANGED Ledger!ledgerVars
BY DEF Seen, Halted, Ledger!ledgerVars

\* finalize begins: the ledger's Finalize, or its End if there is no agent.
LEMMA BeginsRefines ==
    ASSUME Base, Base', NEW c \in BOOLEAN, Begins(c), state' = "cancelled" => cancelled
    PROVE  Ledger!LedgerNext
<1>1. TypeOK /\ Stage /\ TypeOK' BY DEF Base
<1>2. /\ UNCHANGED lease
      /\ cancelled' \in BOOLEAN /\ (cancelled => cancelled')
      /\ \/ pump' \in {"sandbox", "reconcile"}
         \/ /\ pump' = "done"
            /\ state' \in {"failed", "cancelled", "completed"}
            /\ state' = "completed" => ~cancelled'
      BY <1>1, StartFinalizeEffect DEF Begins, ends
<1>3. Seen \in {"running", "stopping"} /\ (Halted <=> cancelled)
      BY <1>1, SeenStages DEF Begins, Halted, Before, Ended
<1>4. CASE pump' \in {"sandbox", "reconcile"}
  <2>1. Seen' = "finalizing" BY <1>4 DEF Seen, Base, Stage, Finalizing
  <2>2. Halted' \in BOOLEAN /\ (Halted => Halted')
        BY <1>2, <1>3, <1>4 DEF Halted, Ended
  <2>3. Ledger!Finalize BY <1>2, <1>3, <2>1, <2>2 DEF Ledger!Finalize, Seen, Halted
  <2>4. QED BY <2>3 DEF Ledger!LedgerNext
<1>5. CASE pump' = "done"
  <2>1. Seen' = state' /\ Halted' = FALSE BY <1>2, <1>5 DEF Seen, Halted, Ended
  <2>2. Ledger!End
        BY <1>2, <1>3, <1>5, <2>1 DEF Ledger!End, Ledger!Outcomes, Seen, Halted
  <2>3. QED BY <2>2 DEF Ledger!LedgerNext
<1>6. QED BY <1>2, <1>4, <1>5

\* A finalization that ends gives an outcome its flags allow.
LEMMA FinishRefines ==
    ASSUME Base, pump \in Finalizing, pump' = "done",
           state' \in Terminal, UNCHANGED <<cancelled, lease>>,
           state' = "cancelled" => cancelled,
           state' \in {"completed", "paused"} => ~cancelled
    PROVE  Ledger!LedgerNext
<1>1. Seen = "finalizing" /\ (Halted <=> cancelled)
      BY SeenStages DEF Halted, Finalizing, Ended, Base, TypeOK
<1>2. Seen' = state' /\ Halted' = FALSE BY DEF Seen, Terminal, Halted, Ended
<1>3. Ledger!End
      BY <1>1, <1>2 DEF Ledger!End, Ledger!Outcomes, Seen, Halted, Terminal
<1>4. QED BY <1>3 DEF Ledger!LedgerNext

\* A pump that is cancelled in finalize abandons it.
LEMMA AbortRefines ==
    ASSUME Base, pump \in Finalizing, pump' = "aborted", UNCHANGED lease
    PROVE  Ledger!LedgerNext
<1>1. Seen = "finalizing" /\ Seen' = "abandoned" /\ Halted' = FALSE
      BY SeenStages DEF Seen, Halted, Ended
<1>2. Ledger!Abandon BY <1>1 DEF Ledger!Abandon, Seen, Halted
<1>3. QED BY <1>2 DEF Ledger!LedgerNext

\* Every step of the run is a step of the ledger or one it does not see.
LEMMA LedgerStep ==
    ASSUME Base, Base', LeftStopped, [Next]_vars
    PROVE  [Ledger!LedgerNext]_(Ledger!ledgerVars)
<1> USE DEF Before, Finalizing, Ended
<1>0. TypeOK /\ Stage /\ Closing BY DEF Base
<1>1. CASE Pump \/ CancelAgain
  <2>1. CASE \E c \in BOOLEAN : Begins(c) 
    <3>1. PICK c \in BOOLEAN : Begins(c) BY <2>1
    <3>2. state' = "cancelled" => cancelled BY <1>1, <3>1, EndsStopped
    <3>3. QED BY <3>1, <3>2, BeginsRefines
  <2>2. CASE ~ \E c \in BOOLEAN : Begins(c)
    <3>1. /\ UNCHANGED <<cancelled, lease>>
          /\ StartPump \/ Prepare \/ Item \/ CancelAgain
          BY <1>0, <1>1, <2>2, PumpBegins DEF ends
    <3>2. CASE StartPump \/ Item
      <4>1. ~cancelled
        <5>1. StartPump /\ cancelled => Begins(FALSE)
              BY <1>0 DEF StartPump, Begins, PumpStep, TypeOK
        <5>2. Item /\ cancelled => Begins(FALSE)
              BY <1>0 DEF Item, Begins, PumpStep, TypeOK
        <5>3. QED BY <5>1, <5>2, <3>2, <2>2
      <4>2. UNCHANGED state /\ pump \notin Ended /\ pump' \notin Ended
            BY <3>2, <4>1 DEF StartPump, Item, flags
      <4>3. QED BY <3>1, <4>2, LedgerStutters DEF Seen, Halted
    <3>3. CASE Prepare
      <4>1. ~cancelled
        <5>1. Prepare /\ cancelled => Begins(FALSE)
              BY <1>0 DEF Prepare, Begins, PumpStep, TypeOK
        <5>2. QED BY <5>1, <3>3, <2>2
      <4>2. state \in {"preparing", "running"} /\ state' = "running"
            /\ pump \notin Ended /\ pump' \notin Ended
            BY <1>0, <3>3, <4>1 DEF Prepare, Stage
      <4>3. QED BY <3>1, <4>2, LedgerStutters DEF Seen, Halted
    <3>4. CASE CancelAgain
      <4>1. pump \notin Finalizing => Begins(FALSE)
            BY <1>0, <3>4 DEF CancelAgain, Begins, TypeOK
      <4>2. pump \in Finalizing /\ pump' = "aborted"
            BY <3>4, <4>1, <2>2 DEF CancelAgain
      <4>3. QED BY <3>1, <4>2, AbortRefines
    <3>5. QED BY <3>1, <3>2, <3>3, <3>4
  <2>3. QED BY <2>1, <2>2
<1>2. CASE Finalize
  <2>1. /\ pump \in Finalizing /\ state = "finalizing"
        /\ UNCHANGED <<cancelled, failure, completed, lease>>
        /\ \/ pump' \in Finalizing /\ state' = "finalizing"
           \/ pump' = "done" /\ state' = "failed"
           \/ pump' = "done" /\ \E paused \in BOOLEAN : state' = Outcome(paused)
    <3> USE <1>0 DEF flags, final, ends, Stage
    <3>1. CASE CancelJobs BY <3>1 DEF CancelJobs
    <3>2. CASE Confirm BY <3>2 DEF Confirm, EnterReconcile, FinishAs
    <3>3. CASE Reconcile BY <3>3 DEF Reconcile, SaveDelivery, AfterReconcile, FinishAs
    <3>4. CASE Discard BY <3>4 DEF Discard, AfterReconcile, FinishAs
    <3>5. CASE Inspect BY <3>5 DEF Inspect, FinishAs
    <3>6. CASE FinalizeFails BY <3>6 DEF FinalizeFails, FinishAs
    <3>7. QED BY <1>2, <3>1, <3>2, <3>3, <3>4, <3>5, <3>6 DEF Finalize
  <2>2. CASE pump' \in Finalizing /\ state' = "finalizing"
        BY <2>1, <2>2, LedgerStutters DEF Seen, Halted
  <2>3. CASE pump' = "done" /\ state' = "failed"
        BY <2>1, <2>3, FinishRefines DEF Terminal
  <2>4. CASE pump' = "done" /\ \E paused \in BOOLEAN : state' = Outcome(paused)
    <3>1. PICK paused \in BOOLEAN : state' = Outcome(paused) BY <2>4
    <3>2. /\ state' \in Terminal
          /\ state' = "cancelled" => cancelled
          /\ state' \in {"completed", "paused"} => ~cancelled
          BY <2>1, <3>1 DEF Outcome, Terminal
    <3>3. QED BY <2>1, <2>4, <3>2, FinishRefines
  <2>5. QED BY <2>1, <2>2, <2>3, <2>4
<1>3. CASE Stop \/ LeaveStream
  <2>1. /\ UNCHANGED <<pump, lease>>
        /\ \/ UNCHANGED <<state, cancelled>>
           \/ /\ state \in {"preparing", "running"}
              /\ state' = "stopping" /\ cancelled' = TRUE
        BY <1>3 DEF Stop, LeaveStream, StopRun, ends
  <2>2. CASE UNCHANGED <<state, cancelled>> BY <2>1, <2>2, LedgerStutters DEF Seen, Halted
  <2>3. CASE state \in {"preparing", "running"} /\ state' = "stopping" /\ cancelled' = TRUE
    <3>1. pump \in Before BY <1>0, <2>3 DEF Stage, TypeOK, Terminal
    <3>2. Seen = "running" /\ Seen' = "stopping" BY <2>1, <2>3, <3>1, SeenStages DEF Seen
    <3>3. Halted' = TRUE BY <2>1, <2>3, <3>1 DEF Halted
    <3>5. Ledger!Halt BY <2>1, <3>2, <3>3 DEF Ledger!Halt, Seen, Halted
    <3>4. QED BY <3>5 DEF Ledger!LedgerNext
  <2>4. QED BY <2>1, <2>2, <2>3
<1>4. CASE DeliverCancel
  <2>1. /\ UNCHANGED <<state, cancelled, lease>>
        /\ \/ pump \in Finalizing /\ pump' = "aborted"
           \/ pump \notin Ended /\ pump' \notin Ended
           \/ UNCHANGED pump
        BY <1>4 DEF DeliverCancel, flags, ends
  <2>2. CASE pump \in Finalizing /\ pump' = "aborted" BY <2>1, <2>2, AbortRefines
  <2>3. CASE ~(pump \in Finalizing /\ pump' = "aborted")
        BY <2>1, <2>3, LedgerStutters DEF Seen, Halted
  <2>4. QED BY <2>2, <2>3
<1>5. CASE Release
  <2>1. /\ pump \in Ended /\ UNCHANGED <<pump, state, cancelled>>
        /\ lease' = cleanupFailed
        BY <1>5 DEF Release, flags
  <2>2. CASE lease /\ ~lease'
    <3>1. Seen \in {"abandoned"} \cup Terminal /\ UNCHANGED Seen
          BY <2>1, SeenStages DEF Seen
    <3>2. Ledger!Release
          BY <2>1, <2>2, <3>1, <1>0 DEF Ledger!Release, Ledger!Outcomes, Seen, Halted, Terminal, TypeOK
    <3>3. QED BY <3>2 DEF Ledger!LedgerNext
  <2>3. CASE ~(lease /\ ~lease')
    <3>1. UNCHANGED lease BY <1>0, <2>1, <2>3 DEF Closing, TypeOK
    <3>2. QED BY <2>1, <3>1, LedgerStutters DEF Seen, Halted
  <2>4. QED BY <2>2, <2>3
<1>6. CASE Overdue \/ UNCHANGED vars
      BY <1>6, LedgerStutters DEF Overdue, vars, flags, ends, Seen, Halted
<1>7. CASE \/ \E i \in Instructions : Steer(i)
           \/ Model
           \/ \E t \in Tools : Thread(t)
      BY <1>7, GraphFrame, LedgerStutters DEF flags, ends, Seen, Halted
<1>8. QED BY <1>1, <1>2, <1>3, <1>4, <1>5, <1>6, <1>7 DEF Next, Respond

\* However pump, Stop, deadlines and the leaving client interleave, the run
\* gives the conversation away only with an outcome or an abandoned
\* finalization, never revises an outcome and never forgets a stop
\* (run_in_own_task and RunControl.finalize).
THEOREM RunImplementsLedger == Spec => ImplementsRuns
<1>1. Init => Ledger!LedgerInit BY DEF Init, Ledger!LedgerInit
<1>2. Init => LeftStopped BY DEF Init, LeftStopped
<1>3. Base /\ Base' /\ LeftStopped /\ [Next]_vars
          => [Ledger!LedgerNext]_(Ledger!ledgerVars)
      BY LedgerStep
<1>4. QED BY <1>1, <1>2, <1>3, BaseHolds, LeftStoppedStep, PTL
          DEF Spec, ImplementsRuns, Ledger!LedgerSpec
=============================================================================
