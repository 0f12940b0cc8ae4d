SPECIFICATION Spec
CONSTANTS
    NONE = NONE
    n1 = n1
    Ids = {i1, i2}
    Names = {n1}
    Confs = {}
    Destinations = {}
    Pids = {}
    Handlers = {h1, h2}
    Calls <- AllCalls
    ThreadCounts = {4}
    MaxFaults = 0
INVARIANT RunRunsTheCommand
CHECK_DEADLOCK FALSE
