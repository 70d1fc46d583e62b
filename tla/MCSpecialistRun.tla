--------------------------- MODULE MCSpecialistRun ---------------------------
(* An instance of SpecialistRun for TLC.  The two lookups are alike.       *)
EXTENDS SpecialistRun, TLC

Alike == Permutations(Lookups)
=============================================================================
