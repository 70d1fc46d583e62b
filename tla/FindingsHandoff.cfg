CONSTANTS
    Topics = {survey, values}
    Conflict = conflict
    Summary = summary
    MaxCalls = 3
    MaxTurns = 2
    MaxSteering = 1
    MaxVersions = 5
SPECIFICATION HandoffSpec
INVARIANT BriefIsCurrent
PROPERTY MergesOwnWrites
CHECK_DEADLOCK FALSE
