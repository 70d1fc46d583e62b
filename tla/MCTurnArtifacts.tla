--------------------------- MODULE MCTurnArtifacts ---------------------------
(* An instance of TurnArtifacts for TLC: one specialist writes, the other  *)
(* runs commands.                                                          *)
EXTENDS TurnArtifacts, TLC

CONSTANTS writing, computing, table

\* A table may also be refused, or take the whole budget.
Bytes == [p \in Paths |-> IF p = table THEN {0, 1, 2} ELSE {1}]
Plots == Paths \ {table}
Alike == Permutations(Plots) \cup Permutations(Writers)
Owners == [t \in Tools |-> IF t \in Writers THEN writing ELSE computing]
=============================================================================
