\* Two owners compete for one slot; a second worker process takes over.
SPECIFICATION Spec
CONSTANTS
    Jobs = {"j1", "j3"}
    Workspaces = {"w1", "w2"}
    Tenants = {"t1", "t2"}
    Runs = {"r1"}
    Workers = {"k1", "k2"}
    Slots <- OneEach
    WorkspaceOf <- MCWorkspaceOf
    TenantOf <- MCTenantOf
    RunOf <- MCRunOf
    WorkerOf <- MCWorkerOf
    Concurrency = 1
    FileWorkspaces = {"w1"}
    ExitStatuses = {"completed"}
    LockMayDrop = FALSE
    None = None
INVARIANTS TypeOK GuardExcludesJobs RowOutlivesContainer
PROPERTY ImplementsLedger
CHECK_DEADLOCK FALSE
