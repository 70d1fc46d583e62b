----------------------------- MODULE RunLedger -----------------------------
(***************************************************************************)
(* What the rest of the server may rely on of the foreground runs of one   *)
(* conversation, without pump, response, threads or frames: one run at a   *)
(* time, whose outcome is not changed once it is given and tells whether   *)
(* the run was stopped, and whose lease goes back only when the run has an *)
(* outcome or its finalization was abandoned.                              *)
(***************************************************************************)

VARIABLES
    stage,      \* how far the run has come
    stopped,    \* the run under way was stopped, or did not come to its own end
    leased      \* the conversation is reserved by it

ledgerVars == <<stage, stopped, leased>>

Outcomes == {"completed", "paused", "cancelled", "failed"}

\* A conversation without a run, or with one that has just begun.
LedgerInit ==
    /\ stage \in {"none", "running"}
    /\ stopped = FALSE
    /\ leased = (stage = "running")

Begin ==
    /\ ~leased
    /\ stage' \in {"running", "finalizing"}
    /\ stopped' = FALSE
    /\ leased' = TRUE

Halt ==
    /\ stage = "running"
    /\ stage' = "stopping"
    /\ stopped' = TRUE
    /\ UNCHANGED leased

Finalize ==
    /\ stage \in {"running", "stopping"}
    /\ stage' = "finalizing"
    /\ stopped' \in BOOLEAN /\ (stopped => stopped')
    /\ UNCHANGED leased

\* A run that has nothing to finalize ends at once.
End ==
    /\ stage \in {"running", "stopping", "finalizing"}
    /\ stage' \in Outcomes
    /\ stage' = "cancelled" => stopped
    /\ stage' \in {"completed", "paused"} => ~stopped
    /\ stopped' = FALSE
    /\ UNCHANGED leased

Abandon ==
    /\ stage = "finalizing"
    /\ stage' = "abandoned"
    /\ stopped' = FALSE
    /\ UNCHANGED leased

Release ==
    /\ leased
    /\ stage \in {"abandoned"} \cup Outcomes
    /\ leased' = FALSE
    /\ UNCHANGED <<stage, stopped>>

LedgerNext == Begin \/ Halt \/ Finalize \/ End \/ Abandon \/ Release

LedgerSpec == LedgerInit /\ [][LedgerNext]_ledgerVars
=============================================================================
