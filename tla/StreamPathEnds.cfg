\* Two questions over two responses, with two faults: every response ends.
SPECIFICATION LiveStreamSpec
CONSTANTS
    Messages = {}
    MaxQuestions = 2
    Nothing = Nothing
    MaxResponses = 2
    MaxFaults = 2
    MaxAhead = 1
PROPERTY ResponseUnmounts
CHECK_DEADLOCK FALSE
