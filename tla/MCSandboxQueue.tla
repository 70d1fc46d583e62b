--------------------------- MODULE MCSandboxQueue ---------------------------
(* Small instances of SandboxQueue.  Jobs j1 and j2 belong to one workspace,  *)
(* job j3 to another tenant's; j1 and j3 run for foreground run r1, j2 for    *)
(* detached research that no one cancels.                                     *)
EXTENDS SandboxQueue

MCWorkspaceOf == [j \in Jobs |-> IF j = "j3" THEN "w2" ELSE "w1"]
MCTenantOf == [w \in Workspaces |-> IF w = "w2" THEN "t2" ELSE "t1"]
MCRunOf == [j \in Jobs |-> IF j = "j2" THEN None ELSE "r1"]

\* A slot is a process and an index.
MCWorkerOf == [s \in Slots |-> s[1]]
OneEach == {<<"k1", 1>>, <<"k2", 1>>}
TwoOfFirst == {<<"k1", 1>>, <<"k1", 2>>}
=============================================================================
