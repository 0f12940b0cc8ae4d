SPECIFICATION Spec
CONSTANTS
    NONE = NONE
    i1 = i1
    i2 = i2
    n1 = n1
    d1 = d1
    p1 = p1
    k1 = k1
    Ids = {i1, i2}
    Names = {n1}
    Confs = {k1}
    Destinations = {d1}
    Pids = {p1}
    Clients = {c1, c2}
    Ops <- MCOps
    ChanCap = 1
    ArchiveDir = FALSE
    MaxSnapshots = 1
    MaxWals = 1
    MaxOps = 3
    MaxFaults = 2
INVARIANTS
    TypeOK
    NoDanglingName
    MemoryIsHistory
    ReadableLogIsHistory
    SnapshotsArePrefixes
PROPERTY RefinesRegistry
SYMMETRY ClientSymmetry
CHECK_DEADLOCK FALSE
