SPECIFICATION FairSpec
CONSTANTS
    NONE = NONE
    n1 = n1
    Ids = {i1, i2, i3}
    Names = {n1}
    Confs = {}
    Destinations = {}
    Pids = {}
    Handlers = {h1, h2, h3}
    Calls <- DetachedCalls
    ThreadCounts = {1, 3}
    MaxFaults = 0
PROPERTIES
    RequestsEnd
    ExitIsRecorded
CHECK_DEADLOCK FALSE
