SPECIFICATION Spec
CONSTANTS
    NONE = NONE
    plain = plain
    padded = padded
    Spellings = {plain, padded}
    Modulus = 16
    Sizes = {1, 2, 4, 16}
    ByteBits = 4
    Owners = {o1, o2, o3, o4}
    UsedCidrs <- MCCidrs
INVARIANTS
    TypeOK
    HeldOnce
    TakenIsHeld
SYMMETRY Symmetry
