----------------------------- MODULE StreamPath -----------------------------
(***************************************************************************)
(* One answer on its way from the graph to the page: the events of the     *)
(* agent run become frames (server/streaming/processor.py), the frames     *)
(* cross one HTTP response, a reader thread puts them into a buffer        *)
(* (ui/run_stream.py), and a fragment of the page that is rerun every      *)
(* quarter of a second draws the buffer and at the end books the result    *)
(* into the session (ui/streaming.py).                                     *)
(*                                                                         *)
(* The run on the server is RunControl's, reduced to the frames it sends   *)
(* and to what it leaves in the checkpoint.  The page is that of an        *)
(* application with run controls: it shows the composer or the card of a   *)
(* question only when no response is mounted.                              *)
(***************************************************************************)
EXTENDS Naturals, Sequences, SequencesExt

CONSTANTS
    Messages,       \* ids of the supervisor's messages with text
    MaxQuestions,   \* bound: interrupts the graph may raise
    Nothing,
    MaxResponses,   \* bound: responses the user starts
    MaxFaults,      \* bound: lost connections and ended browser sessions
    MaxAhead        \* bound: frames the graph may be ahead of the page

ASSUME StreamAssumption ==
    /\ Nothing \notin Messages \cup Nat
    /\ MaxQuestions \in Nat /\ MaxResponses \in Nat /\ MaxFaults \in Nat /\ MaxAhead \in Nat \ {0}

\* The ids of interrupts, in the order they are raised.
Questions == 1 .. MaxQuestions

Terminal == {"completed", "paused", "cancelled", "failed"}
States == {"none", "running", "stopping", "finalizing"} \cup Terminal

VARIABLES
    \* The run on the server and its checkpoint.
    run,          \* RunControl.state, or that its finalization was cancelled
    leased,       \* the conversation is reserved by the run
    serving,      \* RunControl.id: which response the run belongs to
    answering,    \* the interrupt this run was resumed with
    failure, cancelled,     \* RunControl.failure, RunControl.cancelled
    sent, asked,  \* the processor's streamed message and interrupt ids
    begun,        \* messages whose tokens have been streamed
    raised,       \* interrupts raised so far
    asking,         \* the interrupt pending in the checkpoint
    history,      \* the messages of the checkpoint, in order
    \* The response.
    link, wire,
    \* The controller of the browser session.
    reader,       \* the thread; the field `done' is reader = "off"
    buffer, state, error, resuming,
    confirmed,    \* history variable: the run's final state is known
    \* The page.
    page, reply,  \* the fragment, and the answer to its Stop request
    text, complete,             \* LiveView
    transcript, card, decided, looked,      \* st.session_state
    responses, faults

server == <<run, leased, serving, answering, failure, cancelled, sent, asked, begun, raised,
            asking, history>>
response == <<link, wire>>
controller == <<reader, buffer, state, error, resuming, confirmed>>
live == <<text, complete>>
session == <<transcript, card, decided, looked>>
fragment == <<page, reply>>
bounds == <<responses, faults>>
streamVars == <<server, response, controller, live, session, fragment, bounds>>

Frame(kind, what) == [kind |-> kind, what |-> what]
Failure == Frame("error", Nothing)
Entry(what, of) == [what |-> what, of |-> of]

Frames == [kind : {"run"}, what : States]
            \cup [kind : {"token", "message"}, what : Messages]
            \cup [kind : {"question"}, what : Questions]
            \cup {Failure}
Entries == [what : {"message"}, of : Messages]
             \cup [what : {"failed", "stopped", "partial"}, of : 1 .. MaxResponses]

StreamTypeOK ==
    /\ run \in States \cup {"abandoned"}
    /\ leased \in BOOLEAN
    /\ serving \in 0 .. MaxResponses
    /\ answering \in Questions \cup {Nothing}
    /\ failure \in BOOLEAN /\ cancelled \in BOOLEAN
    /\ sent \subseteq Messages /\ begun \subseteq Messages /\ asked \subseteq Questions
    /\ raised \in 0 .. MaxQuestions
    /\ asking \in Questions \cup {Nothing}
    /\ history \in Seq(Entries)
    /\ link \in {"down", "request", "refused", "up", "cut", "short", "silent", "ended"}
    /\ wire \in Seq(Frames)
    /\ reader \in {"off", "reading", "closing", "leaving"}
    /\ buffer \in Seq(Frames)
    /\ state \in States /\ error \in BOOLEAN
    /\ resuming \in Questions \cup {Nothing}
    /\ confirmed \in BOOLEAN
    /\ page \in {"idle", "mounted", "drawn", "posting", "replied"}
    /\ reply \in States
    /\ text \in Messages \cup {Nothing} /\ complete \in BOOLEAN
    /\ transcript \in Seq(Entries)
    /\ card \in Questions \cup {Nothing}
    /\ decided \subseteq Questions
    /\ looked \in BOOLEAN
    /\ responses \in 0 .. MaxResponses /\ faults \in 0 .. MaxFaults

StreamInit ==
    /\ run = "none" /\ leased = FALSE /\ serving = 0 /\ answering = Nothing
    /\ failure = FALSE /\ cancelled = FALSE
    /\ sent = {} /\ asked = {} /\ begun = {}
    /\ raised = 0 /\ asking = Nothing /\ history = <<>>
    /\ link = "down" /\ wire = <<>>
    /\ reader = "off" /\ buffer = <<>> /\ state = "none" /\ error = FALSE
    /\ resuming = Nothing /\ confirmed = FALSE
    /\ page = "idle" /\ reply = "none"
    /\ text = Nothing /\ complete = FALSE
    /\ transcript = <<>> /\ card = Nothing /\ decided = {} /\ looked = FALSE
    /\ responses = 0 /\ faults = 0

-----------------------------------------------------------------------------
(* The server.                                                             *)

\* Frames for a client that has gone are dropped.
Send(frames) ==
    IF link = "up" THEN wire' = wire \o frames ELSE UNCHANGED wire

\* build_resume_command: the reply names an interrupt that is not pending.
Stale(q) == q # Nothing /\ q # asking

\* A new message has to wait for the answer to a pending question.
Premature(q) == q = Nothing /\ asking # Nothing

\* The request reaches the API.  A stale reply and a premature message end the
\* run with an error before the graph starts.
Serve ==
    /\ link = "request"
    /\ ~leased /\ leased' = TRUE
    /\ serving' = responses
    /\ answering' = resuming
    /\ link' = "up"
    /\ failure' = (Stale(resuming) \/ Premature(resuming))
    /\ run' = IF failure' THEN "finalizing" ELSE "running"
    /\ wire' = <<Frame("run", "running")>> \o IF failure' THEN <<Failure>> ELSE <<>>
    /\ UNCHANGED <<cancelled, sent, asked, begun, raised, asking, history>>
    /\ UNCHANGED <<controller, live, session, fragment, bounds>>

\* 409: the conversation is still reserved by the run before.
Refuse ==
    /\ link = "request"
    /\ leased
    /\ link' = "refused"
    /\ UNCHANGED <<server, wire, controller, live, session, fragment, bounds>>

\* A step of the graph while it is neither stopped nor paused.
Running ==
    /\ run = "running"
    /\ asking \in {Nothing, answering}
    /\ Len(wire) + Len(buffer) < MaxAhead
    /\ UNCHANGED <<leased, link, controller, live, session, fragment, bounds>>

\* The node that was interrupted completes with the user's reply.
NodeCompletes ==
    /\ Running
    /\ answering # Nothing /\ asking = answering
    /\ asking' = Nothing
    /\ UNCHANGED <<run, serving, answering, failure, cancelled, sent, asked, begun, raised, history, wire>>

\* A supervisor's token; those of a specialist become a status line.
Token(m) ==
    /\ Running
    /\ m \notin begun \cup sent
    /\ Entry("message", m) \notin ToSet(history)
    /\ begun' = begun \cup {m}
    /\ Send(<<Frame("token", m)>>)
    /\ UNCHANGED <<run, serving, answering, failure, cancelled, sent, asked, raised, asking, history>>

\* The frame of a complete message; one that was sent in this run is dropped.
MessageFrames(m) == IF m \in sent THEN <<>> ELSE <<Frame("message", m)>>

\* A node ends with a message, which the checkpoint keeps.  A resumed node may
\* return the message it returned before the interrupt.
Update(m) ==
    /\ Running
    /\ Send(MessageFrames(m))
    /\ sent' = sent \cup {m}
    /\ history' = IF Entry("message", m) \in ToSet(history)
                     THEN history ELSE Append(history, Entry("message", m))
    /\ UNCHANGED <<run, serving, answering, failure, cancelled, asked, begun, raised, asking>>

\* The frame of an interrupt, unless it is the one that has been answered or
\* was streamed before: a specialist's interrupt is listed by two namespaces.
QuestionFrames(q) ==
    IF q = answering \/ q \in asked THEN <<>> ELSE <<Frame("question", q)>>

\* An event lists the interrupt a resume has not consumed yet.
Relist ==
    /\ Running
    /\ asking # Nothing
    /\ Send(QuestionFrames(asking))
    /\ asked' = asked \cup {asking}
    /\ UNCHANGED <<run, serving, answering, failure, cancelled, sent, begun, raised, asking, history>>

\* The graph pauses on a new question.
Interrupt ==
    /\ Running
    /\ asking = Nothing
    /\ raised < MaxQuestions
    /\ raised' = raised + 1
    /\ asking' = raised'
    /\ Send(QuestionFrames(raised'))
    /\ asked' = asked \cup {raised'}
    /\ UNCHANGED <<run, serving, answering, failure, cancelled, sent, begun, history>>

\* An event cannot be processed: the frame says so and the graph goes on.
EventFails ==
    /\ Running
    /\ ~failure
    /\ failure' = TRUE
    /\ Send(<<Failure>>)
    /\ UNCHANGED <<run, serving, answering, cancelled, sent, asked, begun, raised, asking, history>>

\* The graph raises: the generator reports it and ends.
GraphFails ==
    /\ Running
    /\ failure' = TRUE
    /\ run' = "finalizing"
    /\ Send(<<Failure>>)
    /\ UNCHANGED <<serving, answering, cancelled, sent, asked, begun, raised, asking, history>>

\* The graph is through, or paused on a question that is not the answered one.
GraphEnds ==
    /\ run = "running"
    /\ answering # Nothing => asking # answering
    /\ run' = "finalizing"
    /\ UNCHANGED <<leased, serving, answering, failure, cancelled, sent, asked, begun, raised, asking, history>>
    /\ UNCHANGED <<response, controller, live, session, fragment, bounds>>

\* The graph was cancelled by Stop, or by the end of the response.
GraphStops ==
    /\ \/ run = "stopping"
       \/ run = "running" /\ link \in {"cut", "short", "silent", "down"}
    /\ run' = "finalizing"
    /\ cancelled' = TRUE
    /\ UNCHANGED <<leased, serving, answering, failure, sent, asked, begun, raised, asking, history>>
    /\ UNCHANGED <<response, controller, live, session, fragment, bounds>>

\* RunControl.partial: the tokens of a message that is not complete.
Partial == IF begun \subseteq sent THEN <<>> ELSE <<Entry("partial", serving)>>

\* Mutant: the closing message does not carry the id of the run.
ClosingUnnamed == Partial \o <<Entry("stopped", Nothing)>>

\* What _reconcile adds to the history of a cancelled run.
Closing == Partial \o <<Entry("stopped", serving)>>

\* _reconcile: a cancelled run closes the history and discards what is pending.
Settle ==
    /\ asking' = IF cancelled THEN Nothing ELSE asking
    /\ history' = IF cancelled THEN history \o Closing ELSE history

\* Nothing of the run but its outcome and the checkpoint is looked at any more.
RunOver(outcome) ==
    /\ run = "finalizing"
    /\ run' = outcome
    /\ sent' = {} /\ asked' = {} /\ begun' = {}
    /\ answering' = Nothing /\ failure' = FALSE /\ cancelled' = FALSE
    /\ UNCHANGED <<leased, serving, raised>>
    /\ UNCHANGED <<controller, live, session, fragment, bounds>>

\* The pump's last items: the final snapshot and the end of the body.
SendOutcome ==
    /\ Send(<<Frame("run", run')>>)
    /\ link' = IF link = "up" THEN "ended" ELSE link

Outcome ==
    IF failure THEN "failed"
    ELSE IF cancelled THEN "cancelled"
    ELSE IF asking # Nothing THEN "paused" ELSE "completed"

Finalize ==
    /\ RunOver(Outcome)
    /\ Settle
    /\ SendOutcome

\* The sandbox is not confirmed, or the checkpoint cannot be written.
FinalizeFails ==
    /\ RunOver("failed")
    /\ Settle \/ UNCHANGED <<asking, history>>
    /\ SendOutcome

\* A cancellation leaves finalize: the one Stop has queued, at its first await,
\* or that of a response past its deadline, at any.  The pump ends without its
\* last items, so a body that is still read does not end.
Abandon ==
    /\ cancelled \/ link # "up"
    /\ RunOver("abandoned")
    /\ \/ UNCHANGED <<asking, history>>
       \/ link # "up" /\ Settle
    /\ UNCHANGED response

\* Mutant: the conversation is given back as soon as the response has ended.
ReleaseEarly ==
    /\ leased /\ link # "up"
    /\ leased' = FALSE
    /\ UNCHANGED <<run, serving, answering, failure, cancelled, sent, asked, begun, raised,
                   asking, history>>
    /\ UNCHANGED <<response, controller, live, session, fragment, bounds>>

\* on_close, when the response has ended and the pump with it.  A run whose
\* sandbox was not confirmed keeps the conversation: nothing makes it step.
Release ==
    /\ leased /\ link # "up"
    /\ run \in Terminal \cup {"abandoned"}
    /\ leased' = FALSE
    /\ UNCHANGED <<run, serving, answering, failure, cancelled, sent, asked, begun, raised,
                   asking, history>>
    /\ UNCHANGED <<response, controller, live, session, fragment, bounds>>

\* The connection breaks with the frames in flight, or an intermediary ends
\* the body of the response early as if it were complete.  A Stop request does
\* not meet that second fault: its answer would be the only news of the run.
Cut ==
    /\ link \in {"request", "up", "ended"}
    /\ link' = "cut"
    /\ wire' = <<>>

\* The connection is lost without a word: nothing closes or resets it, and the
\* client, which bounds connecting and writing, has no timeout for a read.
Silence ==
    /\ link \in {"request", "up", "ended"}
    /\ link' = "silent"
    /\ wire' = <<>>

Truncate ==
    /\ link = "up"
    /\ page \notin {"posting", "replied"}
    /\ link' = "short"
    /\ UNCHANGED wire

Disconnect ==
    /\ reader = "reading"
    /\ faults < MaxFaults
    /\ faults' = faults + 1
    /\ Cut \/ Truncate \/ Silence
    /\ UNCHANGED <<server, controller, live, session, fragment, responses>>

-----------------------------------------------------------------------------
(* The reader thread.                                                      *)

Push(f) == buffer' = Append(buffer, f)

\* The client's parser turns a frame into the chunk the page knows, and raises
\* for an error frame.
Raised(f) == f = Failure

\* One frame; what the client raises ends the reading.
Receive ==
    /\ reader = "reading" /\ link \in {"up", "short", "ended"}
    /\ wire # <<>>
    /\ LET f == Head(wire) IN
         /\ Push(f)
         /\ error' = Raised(f)
         /\ reader' = IF Raised(f) THEN "closing" ELSE "reading"
         /\ state' = IF f.kind = "run" THEN f.what ELSE state
         /\ confirmed' = (confirmed \/ (f.kind = "run" /\ f.what \in Terminal))
    /\ wire' = Tail(wire)
    /\ UNCHANGED <<server, link, resuming, live, session, fragment, bounds>>

\* A transport error or a refused request.  Only a connection that was closed or
\* reset gives one: a reader of a silent connection does not step again.
ReadFails ==
    /\ reader = "reading" /\ link \in {"cut", "refused"}
    /\ error' = TRUE
    /\ Push(Failure)
    /\ reader' = "closing"
    /\ UNCHANGED <<server, response, state, resuming, confirmed>>
    /\ UNCHANGED <<live, session, fragment, bounds>>

ReadEnds ==
    /\ reader = "reading" /\ link \in {"short", "ended"} /\ wire = <<>>
    /\ reader' = "closing"
    /\ UNCHANGED <<server, response, buffer, state, error, resuming, confirmed>>
    /\ UNCHANGED <<live, session, fragment, bounds>>

\* Mutant: any state that was read counts as final.
UnconfirmedUnstarted == ~error /\ state = "none"

\* The finally block: an end without a final state is an error.
Unconfirmed == ~error /\ state \notin Terminal

CloseResponse ==
    /\ reader = "closing"
    /\ link' = "down" /\ wire' = <<>>
    /\ error' = (error \/ Unconfirmed)
    /\ IF Unconfirmed THEN Push(Failure) ELSE UNCHANGED buffer
    /\ reader' = "leaving"
    /\ UNCHANGED <<server, state, resuming, confirmed, live, session, fragment, bounds>>

\* Mutant: the flag is set only where the stream ended by itself.
ReaderDoneUnfailed ==
    /\ reader = "leaving" /\ ~error
    /\ reader' = "off"
    /\ UNCHANGED <<server, response, buffer, state, error, resuming, confirmed>>
    /\ UNCHANGED <<live, session, fragment, bounds>>

ReaderDone ==
    /\ reader = "leaving"
    /\ reader' = "off"
    /\ UNCHANGED <<server, response, buffer, state, error, resuming, confirmed>>
    /\ UNCHANGED <<live, session, fragment, bounds>>

-----------------------------------------------------------------------------
(* The page.                                                               *)

\* The client opens the request: a message, or the reply to a question.
OpenRequest ==
    /\ link' = "request"
    /\ wire' = <<>>

\* StreamController.start for a new turn or, with q, for the reply to q.
Start(q) ==
    /\ page = "idle" /\ reader = "off"
    /\ responses < MaxResponses
    /\ responses' = responses + 1
    /\ OpenRequest
    /\ reader' = "reading" /\ buffer' = <<>>
    /\ state' = "none" /\ error' = FALSE /\ resuming' = q /\ confirmed' = FALSE
    /\ text' = Nothing /\ complete' = FALSE
    /\ page' = "mounted"
    /\ UNCHANGED <<server, reply, faults>>

\* The composer, which a card replaces.
SendMessage ==
    /\ card = Nothing
    /\ Start(Nothing)
    /\ UNCHANGED session

\* A card accepts a click while no decision on its question is stored.
Clickable(q) == q \notin decided

\* The decision is stored before the response is opened, for one command or
\* for a batch of them.
Decide == decided' = decided \cup {card}

\* The card goes, and the conversation may be looked up again.
TakeCard ==
    /\ card' = Nothing
    /\ looked' = FALSE

\* A click on the card of a question.
Reply ==
    /\ card # Nothing /\ Clickable(card)
    /\ Start(card)
    /\ Decide
    /\ TakeCard
    /\ UNCHANGED transcript

\* What the server answers when it is asked for the pending interrupt.
PendingInterrupt == asking

\* render_pending_interrupt asks the server once per conversation.
LookUp ==
    /\ page = "idle"
    /\ card = Nothing /\ ~looked
    /\ transcript # <<>>
    /\ card' = PendingInterrupt
    /\ looked' = TRUE
    /\ UNCHANGED <<server, response, controller, live, transcript, decided, fragment, bounds>>

\* Mutant: a message is always appended.
HeldTwice(entries, e) == Append(entries, e)

\* A message replaces the one with its id.
Held(entries, e) == IF e \in ToSet(entries) THEN entries ELSE Append(entries, e)

\* process_stream_chunk and the branches of the fragment, for one frame.
Drawn(v, f) ==
    CASE f.kind = "token" ->
           IF v.complete THEN v ELSE [v EXCEPT !.text = f.what]
      [] f.kind = "message" ->
           [v EXCEPT !.text = f.what, !.complete = TRUE,
                     !.transcript = Held(@, Entry("message", f.what))]
      [] f.kind = "question" -> [v EXCEPT !.card = f.what]
      [] OTHER -> v

View == [text |-> text, complete |-> complete, transcript |-> transcript, card |-> card]

\* What the page shows when it has drawn every frame of the buffer.
Drained ==
    LET after[n \in 0 .. Len(buffer)] ==
            IF n = 0 THEN View ELSE Drawn(after[n - 1], buffer[n])
    IN after[Len(buffer)]

\* A tick of the fragment drains the buffer.
Draw ==
    /\ page = "mounted"
    /\ LET v == Drained
       IN /\ text' = v.text /\ complete' = v.complete
          /\ transcript' = v.transcript /\ card' = v.card
    /\ buffer' = <<>>
    /\ page' = "drawn"
    /\ UNCHANGED <<server, response, reader, state, error, resuming, confirmed>>
    /\ UNCHANGED <<decided, looked, reply, bounds>>

\* The reader is still active: wait for the next tick.
Wait ==
    /\ page = "drawn" /\ reader # "off"
    /\ page' = "mounted"
    /\ UNCHANGED <<server, response, controller, live, session, reply, bounds>>

\* A Stop request that fails is shown and changes nothing.
PressStop ==
    /\ page = "drawn" /\ reader # "off"
    /\ state = "running" /\ link # "short"
    /\ page' = "posting"
    /\ UNCHANGED <<server, response, controller, live, session, reply, bounds>>

\* RunControl.stop, and the snapshot the request is answered with.  An
\* abandoned run has kept its state.
Stop ==
    /\ page = "posting"
    /\ IF run = "running"
          THEN run' = "stopping" /\ cancelled' = TRUE /\ Send(<<Frame("run", "stopping")>>)
          ELSE UNCHANGED <<run, cancelled, wire>>
    /\ reply' = IF run' = "abandoned" THEN "finalizing" ELSE run'
    /\ page' = "replied"
    /\ UNCHANGED <<leased, serving, answering, failure, sent, asked, begun, raised,
                   asking, history>>
    /\ UNCHANGED <<link, controller, live, session, bounds>>

\* The answer replaces what the reader knows of the run.
StopAnswered ==
    /\ page = "replied"
    /\ state' = reply
    /\ confirmed' = (confirmed \/ reply \in Terminal)
    /\ reply' = "none"
    /\ page' = "mounted"
    /\ UNCHANGED <<server, response, reader, buffer, error, resuming>>
    /\ UNCHANGED <<live, session, bounds>>

\* What the end of a response adds to the transcript.  The fragment takes the run
\* a few statements before it asks whether the reader is active, so it may note the
\* state before the last snapshot; no property reads which of the two is noted.
Notes ==
    (IF error \/ state = "failed" THEN <<Entry("failed", responses)>> ELSE <<>>)
        \o (IF text # Nothing /\ ~complete THEN <<Entry("partial", responses)>> ELSE <<>>)
        \o (IF state = "cancelled" THEN <<Entry("stopped", responses)>> ELSE <<>>)

\* The reader is done: the fragment books the result and unmounts.  A reply
\* that ended in an error gets its card back.
Finish ==
    /\ page = "drawn" /\ reader = "off"
    /\ transcript' = transcript \o Notes
    /\ IF error /\ resuming # Nothing
          THEN /\ card' = resuming
               /\ decided' = decided \ {resuming}
          ELSE UNCHANGED <<card, decided>>
    /\ confirmed' = FALSE
    /\ page' = "idle"
    /\ UNCHANGED <<server, response, reader, buffer, state, error, resuming, live, looked, reply, bounds>>

\* load_thread_messages: the conversation as the checkpoint has it.
Loaded == history

\* The browser session is released, which closes the response, and a new one
\* loads the conversation.
NewSession ==
    /\ faults < MaxFaults
    /\ responses > 0
    /\ faults' = faults + 1
    /\ link' = "down" /\ wire' = <<>>
    /\ reader' = "off" /\ buffer' = <<>>
    /\ state' = "none" /\ error' = FALSE /\ resuming' = Nothing /\ confirmed' = FALSE
    /\ text' = Nothing /\ complete' = FALSE
    /\ page' = "idle" /\ reply' = "none"
    /\ transcript' = Loaded
    /\ card' = Nothing /\ decided' = {} /\ looked' = FALSE
    /\ UNCHANGED <<server, responses>>

-----------------------------------------------------------------------------
ServerStep ==
    \/ Serve \/ Refuse \/ NodeCompletes \/ Relist \/ Interrupt \/ EventFails \/ GraphFails
    \/ GraphEnds \/ GraphStops \/ Finalize \/ FinalizeFails \/ Abandon \/ Release
    \/ \E m \in Messages : Token(m) \/ Update(m)

ReaderStep == Receive \/ ReadFails \/ ReadEnds \/ CloseResponse \/ ReaderDone

PageStep ==
    \/ Draw \/ Wait \/ PressStop \/ Stop \/ StopAnswered \/ Finish

UserStep == SendMessage \/ Reply \/ LookUp

StreamNext == ServerStep \/ ReaderStep \/ PageStep \/ UserStep \/ Disconnect \/ NewSession

StreamSpec == StreamInit /\ [][StreamNext]_streamVars

\* The event loop serves a request and ends a run, the reader thread reads on,
\* and the browser reruns the fragment.  The graph may stream as it likes but
\* does end; the user owes nothing.  A read ends with a frame, with the end of the
\* body or with a closed or reset connection, and not otherwise: ReaderStep is not
\* enabled on a silent one.
StreamFairness ==
    /\ WF_streamVars(Serve \/ Refuse) /\ WF_streamVars(NodeCompletes) /\ WF_streamVars(GraphEnds)
    /\ WF_streamVars(GraphStops) /\ WF_streamVars(Finalize)
    /\ WF_streamVars(ReaderStep)
    /\ WF_streamVars(Draw) /\ WF_streamVars(Wait) /\ WF_streamVars(Finish)
    /\ WF_streamVars(Stop) /\ WF_streamVars(StopAnswered)

LiveStreamSpec == StreamSpec /\ StreamFairness

-----------------------------------------------------------------------------
(* Properties.                                                             *)

\* A response that ends on the page while the final state of its run is not
\* known, from a frame or from the answer to Stop, is told to the user as
\* failed: an answer that was cut off is never booked as a complete one.
EndIsTold ==
    [][Finish => \/ confirmed
                 \/ Entry("failed", responses) \in ToSet(transcript')]_streamVars

\* The transcript holds every message once, also when a resumed node returns
\* it again, when a response failed, and in a session that loaded the history.
ShownOnce == IsInjective(transcript)

\* Every response is unmounted in the end, whether the connection delivers, is
\* closed, cut or shortened, and whatever the graph and the Stop request do, so the
\* user can go on: unless the finalization was abandoned and the body of the
\* response therefore has no end, or the connection was lost without a word, which
\* a read without a timeout never notices.
Endless == (run = "abandoned" /\ link = "up") \/ link = "silent"
ResponseUnmounts == page # "idle" ~> page = "idle" \/ Endless

\* ui/run_stream.py: the reader "only fills a locked buffer; the page drains
\* and renders that buffer".  No message and no question stays in the buffer
\* of a response the page has unmounted.
AnswerDrawn ==
    page = "idle" => \A i \in DOMAIN buffer : buffer[i].kind \notin {"message", "question"}

\* ui/streaming.py: after a failed resume "the interrupt is pending again, so
\* its card has to accept a click again".  The card that the end of a failed
\* reply has put back is that of a pending interrupt.
RestoredIsPending ==
    page = "idle" /\ error /\ card # Nothing /\ card = resuming /\ ~leased => card = asking

\* The reduced run of this module keeps what RunControl promises: both implement
\* the ledger of runs.
Ledger == INSTANCE RunLedger WITH stage <- run, stopped <- cancelled, leased <- leased
ImplementsRuns == Ledger!LedgerSpec
=============================================================================
