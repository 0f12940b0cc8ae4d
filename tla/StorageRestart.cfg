SPECIFICATION Spec
CONSTANTS
    NONE = NONE
    i1 = i1
    i2 = i2
    n1 = n1
    d1 = d1
    p1 = p1
    k1 = k1
    Ids = {i1, i2}
    Names = {n1}
    Confs = {}
    Destinations = {d1}
    Pids = {}
    Clients = {c1, c2}
    Ops <- OneContainer
    ChanCap = 1
    ArchiveDir = FALSE
    MaxSnapshots = 1
    MaxWals = 1
    MaxOps = 2
    MaxFaults = 1
INVARIANT RestartSucceeds
CHECK_DEADLOCK FALSE
