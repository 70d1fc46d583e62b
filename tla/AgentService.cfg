CONSTANTS
    Agents = {supervisor, simulator}
    Requests = {r1, r2}
    Tools = {t1, t2}
    Principals = {p1, p2}
    None = None
    MaxBoots = 2
SPECIFICATION LiveSpec
INVARIANTS TypeOK NothingLeaks
PROPERTY GetsAnswered
CHECK_DEADLOCK FALSE
