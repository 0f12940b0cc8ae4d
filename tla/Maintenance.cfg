SPECIFICATION MaintSpec
CONSTANTS
    NONE = NONE
    i1 = i1
    i2 = i2
    n1 = n1
    d1 = d1
    Ids = {i1, i2}
    Names = {n1}
    Confs = {}
    Destinations = {d1}
    Pids = {}
    Clients = {c1}
    Ops <- MCOps
    ChanCap = 1
    ArchiveDir = TRUE
    MaxSnapshots = 1
    MaxWals = 1
    MaxOps = 3
    MaxFaults = 2
    MaxCompactions = 2
INVARIANTS
    CompactedLogIsHistory
    RecordsSurvive
    NothingLeftBehind
CHECK_DEADLOCK FALSE
