---------------------------- MODULE SpecialistRun ----------------------------
(***************************************************************************)
(* One specialist's run: the loop of model calls and tool calls, and the   *)
(* middleware that decides how it ends (agents/loop_guard.py,              *)
(* agents/specialist_outcome.py, and the limits and the nesting order of   *)
(* agents/specialist_runtime.py).                                          *)
(*                                                                         *)
(* The framework runs, round after round: the before_model hooks, the      *)
(* model, the after_model hooks in reverse order, the tools the model      *)
(* called; and after_agent at the end.  The model is free to do anything.  *)
(* A call is its signature: its name with its arguments in a fixed order.  *)
(* A report comes alone, ask_user and the summarizer are left out.         *)
(***************************************************************************)
EXTENDS Integers, Sequences, FiniteSets, SequencesExt

CONSTANTS
    Lookups,     \* research calls with no other effect
    Commands,    \* calls of execute
    Notes,       \* calls of write_file or edit_file under /findings/
    ToolLimit,   \* SPECIALIST_TOOL_CALL_LIMIT
    Reserve,     \* REPORT_RESERVE
    RepeatLimit, \* REPEAT_LIMIT
    MinResearch, \* SAVED_REPORT_MIN_TOOL_CALLS
    HasFiles,    \* the agent has a files channel
    MaxParallel, \* bound on the calls of one model message
    MaxMalformed,\* bound on the reports that do not validate
    MaxSteers    \* bound on the corrections the user sends

Research == Lookups \cup Commands \cup Notes

\* The report must fit in what the reserve leaves after the last research step.
ASSUME LimitsAssumption ==
    /\ ToolLimit \in Nat /\ Reserve \in Nat /\ Reserve <= ToolLimit
    /\ RepeatLimit \in Nat \ {0} /\ MinResearch \in Nat
    /\ MaxParallel \in Nat \ {0} /\ MaxMalformed \in Nat /\ MaxSteers \in Nat
    /\ MaxParallel + MaxMalformed <= Reserve
    /\ HasFiles \in BOOLEAN

ASSUME CallsAssumption == "SpecialistReport" \notin Research

Report == "SpecialistReport"

VARIABLES
    place,     \* the node of the loop that runs next
    msgs,      \* state["messages"]
    spent,     \* run_tool_call_count["__all__"]
    report,    \* structured_response is set
    evidence,  \* the kinds of the execution_events
    malformed, \* reports that did not validate
    steers,    \* corrections put into the history
    outcome    \* what after_agent made of the run, or NoOutcome

vars == <<place, msgs, spent, report, evidence, malformed, steers, outcome>>

Places == {"before", "model", "tools", "exit", "done"}

\* How an execution ended: exit code 0, anything else, not run at all.
Evidence == {"succeeded", "failed", "skipped"}

Human(mark) == [kind |-> "human", mark |-> mark]
AI(calls) == [kind |-> "ai", calls |-> calls]
Stopped(call, count) == [kind |-> "stopped", call |-> call, count |-> count]
Result(call, how) == [kind |-> "tool", call |-> call, how |-> how]

Messages ==
    [kind : {"human"}, mark : {"task", "steer", "reminder"}]
    \cup [kind : {"ai"}, calls : SeqOf(Research \cup {Report}, MaxParallel)]
    \cup [kind : {"stopped"}, call : Research, count : Nat]
    \cup [kind : {"tool"}, call : Research \cup {Report},
          how : {"ran", "refused", "limited", "malformed"}]

Outcomes == [verified : BOOLEAN, saved : BOOLEAN]
NoOutcome == [verified |-> FALSE]

TypeOK ==
    /\ place \in Places
    /\ msgs \in Seq(Messages)
    /\ spent \in Nat
    /\ report \in BOOLEAN
    /\ evidence \subseteq Evidence
    /\ malformed \in 0..MaxMalformed
    /\ steers \in 0..MaxSteers
    /\ outcome \in Outcomes \cup {NoOutcome}
    /\ place = "done" <=> outcome # NoOutcome

Init ==
    /\ place = "before"
    /\ msgs = <<Human("task")>>
    /\ spent = 0
    /\ report = FALSE
    /\ evidence = {}
    /\ malformed = 0
    /\ steers = 0
    /\ outcome = NoOutcome

-----------------------------------------------------------------------------
(* What the guard reads from the history.  Call ids are unique, so a       *)
(* result names the call it answers.                                       *)

IsResult(m) == m.kind = "tool"
IsRefusal(m) == m.kind = "tool" /\ m.how = "refused"
FromModel(m) == m.kind \in {"ai", "stopped"}

\* Where the results are.
Results(history) == {i \in DOMAIN history : IsResult(history[i])}

\* The call that produced a result last, in a set of at most one.
PreviousSignature(history) ==
    {history[i].call : i \in {j \in Results(history) :
                                 \A k \in Results(history) : k <= j}}

\* Mutant: without the break, every refusal of the run.
AllRefusals(history) == {i \in DOMAIN history : IsRefusal(history[i])}

\* The refusals after the last message that is neither from the model nor a
\* refusal.
TrailingRefusals(history) ==
    LET Breaks(i) == ~FromModel(history[i]) /\ ~IsRefusal(history[i])
    IN {i \in DOMAIN history :
           /\ IsRefusal(history[i])
           /\ \A j \in i..Len(history) : ~Breaks(j)}

Blocked(history, call) == call \in PreviousSignature(history)

(* The budget.                                                             *)

\* Mutant: without the reserve.
ReportOnlyAtLimit == spent >= ToolLimit

ReportOnly == spent >= ToolLimit - Reserve

\* ToolCallLimitMiddleware lets the first calls of a message through.
Allowed(calls) == SubSeq(calls, 1, IF spent + Len(calls) <= ToolLimit
                                   THEN Len(calls)
                                   ELSE IF spent >= ToolLimit THEN 0
                                   ELSE ToolLimit - spent)

Limited(calls) == SubSeq(calls, Len(Allowed(calls)) + 1, Len(calls))

\* Mutant: any human message counts.
RemindedByTask == \E i \in DOMAIN msgs : msgs[i].kind = "human"

Reminded == \E i \in DOMAIN msgs : msgs[i] = Human("reminder")

ResultsOf(calls, how) == [i \in DOMAIN calls |-> Result(calls[i], how)]

-----------------------------------------------------------------------------
(* SteeringMiddleware comes before the guard: a correction breaks the      *)
(* trailing refusals.                                                      *)
BeforeModel ==
    /\ place = "before"
    /\ \E steer \in BOOLEAN :
          LET history == IF steer THEN Append(msgs, Human("steer")) ELSE msgs
              refusals == TrailingRefusals(history)
          IN /\ steer => steers < MaxSteers
             /\ steers' = IF steer THEN steers + 1 ELSE steers
             /\ IF Cardinality(refusals) < RepeatLimit
                THEN place' = "model" /\ msgs' = history
                ELSE /\ place' = "exit"
                     /\ msgs' = Append(history,
                            Stopped(history[CHOOSE i \in refusals :
                                        \A j \in refusals : i <= j].call,
                                    Cardinality(refusals) + 1))
    /\ UNCHANGED <<spent, report, evidence, malformed, outcome>>

\* The model answers without calling a tool, and is reminded once.
ModelAnswers ==
    /\ place = "model"
    /\ IF Reminded
       THEN place' = "exit" /\ msgs' = Append(msgs, AI(<<>>))
       ELSE place' = "before" /\ msgs' = msgs \o <<AI(<<>>), Human("reminder")>>
    /\ UNCHANGED <<spent, report, evidence, malformed, steers, outcome>>

\* The model submits the report; the limit counts it and may refuse it.
ModelReports(valid) ==
    /\ place = "model"
    /\ ~valid => malformed < MaxMalformed
    /\ malformed' = IF valid THEN malformed ELSE malformed + 1
    /\ spent' = spent + 1
    /\ LET how == IF spent >= ToolLimit THEN "limited"
                  ELSE IF valid THEN "ran" ELSE "malformed"
       IN /\ report' = (how = "ran")
          /\ place' = IF how = "ran" THEN "exit" ELSE "before"
          /\ msgs' = msgs \o <<AI(<<Report>>), Result(Report, how)>>
    /\ UNCHANGED <<evidence, steers, outcome>>

\* The model calls tools, unless only the report is offered to it.
ModelCalls(calls) ==
    /\ place = "model"
    /\ ~ReportOnly
    /\ spent' = spent + Len(calls)
    /\ msgs' = Append(msgs, AI(calls)) \o ResultsOf(Limited(calls), "limited")
    /\ place' = IF Allowed(calls) = <<>> THEN "before" ELSE "tools"
    /\ UNCHANGED <<report, evidence, malformed, steers, outcome>>

\* The calls of the last model message that the limit let through.
Pending ==
    LET last == CHOOSE i \in DOMAIN msgs :
                    /\ msgs[i].kind = "ai"
                    /\ \A j \in DOMAIN msgs : msgs[j].kind = "ai" => j <= i
        calls == msgs[last].calls
    IN SubSeq(calls, 1, Len(calls) - (Len(msgs) - last))

\* The calls run side by side and all see the history before their results.
RunTools ==
    /\ place = "tools"
    /\ LET ran == {i \in DOMAIN Pending : ~Blocked(msgs, Pending[i])}
           executed == {i \in ran : Pending[i] \in Commands}
       IN /\ \E ends \in [executed -> Evidence] :
                evidence' = evidence \cup {ends[i] : i \in executed}
          /\ msgs' = msgs \o [i \in DOMAIN Pending |->
                        Result(Pending[i], IF i \in ran THEN "ran" ELSE "refused")]
    /\ place' = "before"
    /\ UNCHANGED <<spent, report, malformed, steers, outcome>>

-----------------------------------------------------------------------------
(* after_agent: the server's verdict, and its copy of the report.          *)

ResearchCalls ==
    {c \in (DOMAIN msgs) \X (1..MaxParallel) :
        /\ msgs[c[1]].kind = "ai" /\ c[2] \in DOMAIN msgs[c[1]].calls
        /\ msgs[c[1]].calls[c[2]] # Report}

WroteFindings == \E c \in ResearchCalls : msgs[c[1]].calls[c[2]] \in Notes

\* Something was attempted and nothing succeeded.
ExecutionFailed == "failed" \in evidence /\ "succeeded" \notin evidence

SavesReport ==
    /\ report /\ HasFiles
    /\ Cardinality(ResearchCalls) >= MinResearch
    /\ ~WroteFindings

AfterAgent ==
    /\ place = "exit"
    /\ place' = "done"
    /\ outcome' = [verified |-> report /\ ~ExecutionFailed,
                   saved |-> SavesReport]
    /\ UNCHANGED <<msgs, spent, report, evidence, malformed, steers>>

Ended == place = "done" /\ UNCHANGED vars

Next ==
    \/ BeforeModel
    \/ ModelAnswers
    \/ \E valid \in BOOLEAN : ModelReports(valid)
    \/ \E calls \in SeqOf(Research, MaxParallel) \ {<<>>} : ModelCalls(calls)
    \/ RunTools
    \/ AfterAgent
    \/ Ended

Spec == Init /\ [][Next]_vars

-----------------------------------------------------------------------------
(* A run that was stopped for repeating itself had made the named call as  *)
(* often as the message says: once, and then in refusals of that same call *)
(* that nothing interrupts, neither another answer nor a correction by the *)
(* user.  Before the first refusal the user or the reminder may have       *)
(* spoken, but no tool had answered since the call's last answer, unless   *)
(* to another call of the message whose call is refused                    *)
(* (_previous_signature, _trailing_refusals, STOPPED).                     *)
StopIsTruthful ==
    \A i \in DOMAIN msgs : msgs[i].kind = "stopped" =>
        LET again(m) == msgs[m] = Result(msgs[i].call, "refused")
        IN \E refused \in 1..(i - 1) : \E first \in 1..(refused - 1) :
              /\ again(refused)
              /\ \A m \in refused..i : FromModel(msgs[m]) \/ again(m)
              /\ Cardinality({m \in refused..i : IsRefusal(msgs[m])}) = msgs[i].count - 1
              /\ IsResult(msgs[first]) /\ msgs[first].call = msgs[i].call
              /\ \A m \in (first + 1)..(refused - 1) :
                    IsResult(msgs[m]) => \A n \in m..refused : msgs[n].kind # "ai"

(* The report the model is forced to make is never the call that the limit *)
(* refuses, even after parallel calls in the last research step and        *)
(* reports that had to be retried (ReportWhenToolsRunOutMiddleware).       *)
ReportFits ==
    /\ \A i \in DOMAIN msgs : msgs[i] # Result(Report, "limited")
    /\ place = "model" => spent < ToolLimit

(* A run hands over without a report only when the model was stopped for   *)
(* repeating itself or answered in plain text again after its reminder;    *)
(* every other run ends with one (after_model, after_agent).               *)
ReportOrReason ==
    outcome # NoOutcome /\ ~report =>
        \/ Last(msgs).kind = "stopped"
        \/ /\ Last(msgs) = AI(<<>>)
           /\ \E i \in 1..(Len(msgs) - 1) : msgs[i] = Human("reminder")

(* What the comment on REPEAT_LIMIT says of the first refusal: a nudge the *)
(* model can act on.  A run is stopped only after the model answered a     *)
(* refusal with the same call again.                                       *)
NudgeIsSeen ==
    \A i \in DOMAIN msgs : msgs[i].kind = "stopped" =>
        \E j, k \in 1..i : j < k /\ IsRefusal(msgs[j]) /\ msgs[k].kind = "ai"

=============================================================================
