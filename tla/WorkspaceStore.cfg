\* A tool, an editor and two runs, a command and the sweep; one death.
SPECIFICATION Spec
CONSTANTS
    Tools = {"tool"}
    Savers = {"editor"}
    Runs = {run1, run2}
    Paths = {"upload"}
    UploadNames <- MCUploadNames
    Contents = {"small", "large"}
    Batch <- MCBatch
    SizeOf <- MCSizeOf
    Scratch = 1
    Limit = 2
    Exclusive = TRUE
    MaxDeaths = 1
    None = None
INVARIANTS TypeOK UsageCovers SweepSpares TurnInputs
PROPERTIES QuotaKept NoLostUpdate
SYMMETRY Symmetry
CHECK_DEADLOCK FALSE
