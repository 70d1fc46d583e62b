\* A run with two sandbox commands and one instruction, stopped at any moment.
SPECIFICATION LiveSpec
CONSTANTS
    Tools = {"t1", "t2"}
    Instructions = {"i1"}
    GraphMayFail = TRUE
    DatabaseMayFail = TRUE
INVARIANTS TypeOK ReleasedQuiet SteeringSettled
PROPERTIES ResponseEnds ImplementsRuns
CHECK_DEADLOCK FALSE
