------------------------- MODULE MCThreadLifecycle -------------------------
(* Instances of ThreadLifecycle for TLC: a first process for one run and    *)
(* the deletions, a second one for the requests of another replica.         *)
EXTENDS ThreadLifecycle

MCAt == [q \in Requests |-> IF q \in {"run1", "resume1", "delete1"} THEN "api1" ELSE "api2"]
=============================================================================
