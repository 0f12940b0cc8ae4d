SPECIFICATION Spec
CONSTANTS
    NONE = NONE
    n1 = n1
    Ids = {i1, i2}
    Names = {n1}
    Confs = {}
    Destinations = {}
    Pids = {}
    Handlers = {h1, h2, h3, h4}
    Calls <- AllCalls
    ThreadCounts = {4}
    MaxFaults = 2
INVARIANTS
    TypeOK
    RunningIsSupervised
    RunningIsInCgroup
    RecordHasWorkspace
    NobodyWaitsInVain
    ReachableByName
CONSTRAINT FourOrFaults
SYMMETRY Symmetry
CHECK_DEADLOCK FALSE
