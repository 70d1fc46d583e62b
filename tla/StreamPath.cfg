\* A message and two questions over two responses, with one fault.
SPECIFICATION StreamSpec
CONSTANTS
    Messages = {"m1"}
    MaxQuestions = 2
    Nothing = Nothing
    MaxResponses = 2
    MaxFaults = 1
    MaxAhead = 1
INVARIANTS StreamTypeOK ShownOnce
PROPERTIES EndIsTold ImplementsRuns
CHECK_DEADLOCK FALSE
