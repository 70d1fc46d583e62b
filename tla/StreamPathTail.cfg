\* The end of a response that is never drawn.
SPECIFICATION StreamSpec
CONSTANTS
    Messages = {"m1"}
    MaxQuestions = 2
    Nothing = Nothing
    MaxResponses = 2
    MaxFaults = 0
    MaxAhead = 1
INVARIANT AnswerDrawn
CHECK_DEADLOCK FALSE
