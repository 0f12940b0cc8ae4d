SPECIFICATION Spec
CONSTANTS
    NONE = NONE
    NoCidr = NoCidr
    plain = plain
    padded = padded
    Spellings = {plain, padded}
    n1 = n1
    n2 = n2
    Modulus = 16
    Sizes = {1, 2, 4, 16}
    ByteBits = 4
    Handlers = {h1, h2, h3}
    Requests <- MCRequests
    MaxFaults = 3
INVARIANTS
    TypeOK
    NetworksAreComplete
    SavedIsKept
    CreatedIsListed
    StrayBridges
    StraySubnets
    GatewaysDiffer
SYMMETRY HandlerSymmetry
CHECK_DEADLOCK FALSE
