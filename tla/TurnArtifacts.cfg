SPECIFICATION Spec
CONSTANTS
    writing = writing
    computing = computing
    Specialists = {writing, computing}
    Writers = {write1, write2}
    Commands = {execute}
    OwnerOf <- Owners
    table = table
    Paths = {table, p, q}
    Images <- Plots
    SizesOf <- Bytes
    MaxImages = 1
    MaxBytes = 2
    MaxRecords = 1
    MaxNotices = 1
    MaxWrites = 2
    MaxTurns = 2
    MaxBreaks = 1
    InOrder = TRUE
    None = None
INVARIANTS
    WindowExact
    TurnsApart
    
    LiveMatchesAnswer
PROPERTY
    ReportsRewrites
CHECK_DEADLOCK FALSE
SYMMETRY Alike
