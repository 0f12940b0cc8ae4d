SPECIFICATION Spec
CONSTANTS
    NONE = NONE
    plain = plain
    padded = padded
    Spellings = {plain}
    Modulus = 16
    Sizes = {1, 2, 4, 16}
    ByteBits = 8
    Owners = {o1, o2, o3}
    UsedCidrs <- OneSmallSubnet
INVARIANT HeldInBlock
SYMMETRY Symmetry
