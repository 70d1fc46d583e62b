----------------------------- MODULE JobLedger -----------------------------
(***************************************************************************)
(* What callers of the sandbox may rely on, without worker, slots, locks   *)
(* or deadlines: a bounded ledger of jobs in which a job is admitted only  *)
(* beside jobs of other owners, runs at most once, ends once, and is       *)
(* answered with the end its row records.                                  *)
(***************************************************************************)
EXTENDS Naturals, FiniteSets

CONSTANTS Jobs, OwnerOf, Concurrency

VARIABLES row, answer

ledgerVars == <<row, answer>>

Ends == {"completed", "failed", "timed_out", "cancelled"}
Refusals == {"unavailable", "busy", "error"}
Open == {j \in Jobs : row[j] \in {"queued", "running"}}

LedgerInit ==
    /\ row = [j \in Jobs |-> "absent"]
    /\ answer = [j \in Jobs |-> "none"]

Admit(j) ==
    /\ row[j] = "absent" /\ answer[j] = "none"
    /\ Cardinality(Open) < Concurrency
    /\ \A i \in Open : OwnerOf[i] # OwnerOf[j]
    /\ row' = [row EXCEPT ![j] = "queued"]
    /\ UNCHANGED answer

Start(j) ==
    /\ row[j] = "queued"
    /\ row' = [row EXCEPT ![j] = "running"]
    /\ UNCHANGED answer

\* Open rows may end together; nothing else changes.
EndSome ==
    /\ \A j \in Jobs : \/ row'[j] = row[j]
                       \/ j \in Open /\ row'[j] \in Ends
    /\ row' \in [Jobs -> {"absent", "queued", "running"} \cup Ends]

\* Whoever is answered while rows end is told what the row says afterwards.
End ==
    /\ EndSome
    /\ \/ UNCHANGED answer
       \/ \E j \in Jobs : /\ answer[j] = "none"
                          /\ row'[j] \in Ends
                          /\ answer' = [answer EXCEPT ![j] = row'[j]]

Refuse(j) ==
    /\ answer[j] = "none"
    /\ \E r \in Refusals : /\ r # "error" => row[j] = "absent"
                           /\ answer' = [answer EXCEPT ![j] = r]
    /\ UNCHANGED row

Forget(j) ==
    /\ row[j] \in Ends
    /\ answer[j] # "none"
    /\ row' = [row EXCEPT ![j] = "absent"]
    /\ UNCHANGED answer

LedgerNext ==
    \/ \E j \in Jobs : Admit(j) \/ Start(j) \/ Refuse(j) \/ Forget(j)
    \/ End

LedgerSpec == LedgerInit /\ [][LedgerNext]_ledgerVars
=============================================================================
