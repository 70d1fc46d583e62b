SPECIFICATION Spec
CONSTANTS
    Lookups = {look1, look2}
    Commands = {exec}
    Notes = {note}
    ToolLimit = 6
    Reserve = 3
    RepeatLimit = 2
    MinResearch = 3
    HasFiles = TRUE
    MaxParallel = 2
    MaxMalformed = 1
    MaxSteers = 1
INVARIANTS
    StopIsTruthful
    ReportFits
    ReportOrReason
SYMMETRY Alike
