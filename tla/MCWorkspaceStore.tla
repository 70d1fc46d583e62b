-------------------------- MODULE MCWorkspaceStore --------------------------
(* An instance of WorkspaceStore for TLC: one document, which an upload may
   create and everyone may change. *)
EXTENDS WorkspaceStore, TLC

MCBatch == <<"large">>
MCUploadNames == <<"upload">>
MCSizeOf == [c \in {"small", "large"} |-> IF c = "small" THEN 1 ELSE 2]
Symmetry == Permutations(Runs)
=============================================================================
