SPECIFICATION Spec
CONSTANTS
    PtyCap = 2
    SockCap = 1
    Modes = {"attached", "detached"}
    ClientThreads = {1, 2}
    MaxOutput = 6
    MaxFaults = 1
    MaxForeign = 1
    HOLE = HOLE
    FOREIGN = FOREIGN
    REPORT = REPORT
INVARIANTS
    TypeOK
    ShownInOrder
    OutputIsConserved
    LogKeepsPlaces
PROPERTIES
    ExitEndsSession
    ExitIsReported
    CommandIsNotStuck
    NothingLeftRunning
CHECK_DEADLOCK FALSE
