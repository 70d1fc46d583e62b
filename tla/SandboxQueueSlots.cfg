\* Two jobs of one workspace in two slots of one worker.
SPECIFICATION LiveSpec
CONSTANTS
    Jobs = {"j1", "j2"}
    Workspaces = {"w1"}
    Tenants = {"t1"}
    Runs = {"r1"}
    Workers = {"k1"}
    Slots <- TwoOfFirst
    WorkspaceOf <- MCWorkspaceOf
    TenantOf <- MCTenantOf
    RunOf <- MCRunOf
    WorkerOf <- MCWorkerOf
    Concurrency = 2
    FileWorkspaces = {}
    ExitStatuses = {"completed"}
    LockMayDrop = TRUE
    None = None
INVARIANT ContainersExclusive
PROPERTIES CallersReturn SlotsLetGo
CHECK_DEADLOCK FALSE
