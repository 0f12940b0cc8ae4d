------------------------------- MODULE Ipam -------------------------------
(***************************************************************************)
(* The address manager of the networks (network/ipam.rs): for each subnet, *)
(* under the text of its CIDR, a bitmap of the addresses handed out.       *)
(*                                                                         *)
(* Addresses are integers below Modulus, and arithmetic on them is that of *)
(* u32: where it overflows, a build with overflow checks panics and one    *)
(* without (a release build) goes on with the value cut to the width.      *)
(*                                                                         *)
(* A CIDR is the address it is written with, the size of its block, 2 to   *)
(* the 32 - prefix_len, and how the two are spelt (/8, /08, /+8).  Nothing *)
(* asks that the address be the first one of the block, and the text, not  *)
(* the block, is the key of the map.                                       *)
(*                                                                         *)
(* A bitmap is its length and the positions that are taken.  Position p    *)
(* stands for the address p + 1 of the block.                              *)
(***************************************************************************)
EXTENDS Integers, FiniteSetsExt

CONSTANTS
    Modulus,     \* addresses of the address family (2^32 in the code)
    Sizes,       \* sizes of blocks (the powers of two up to Modulus)
    ByteBits,    \* bits in an element of a bitmap (8 in the code)
    Spellings,   \* ways to write one address and one length
    NONE         \* absence of a value

ASSUME IpamAssumption ==
    /\ Modulus \in Nat \ {0} /\ ByteBits \in Nat \ {0}
    /\ Sizes \subseteq {n \in 1 .. Modulus : Modulus % n = 0}
    /\ NONE \notin 0 .. Modulus

Addresses == 0 .. (Modulus - 1)
Cidrs     == [ip : Addresses, size : Sizes, text : Spellings]
Bitmaps   == [len : 0 .. (Modulus + ByteBits), taken : SUBSET (0 .. (Modulus + ByteBits))]

\* What a call leaves behind and returns.
Outcome(s, st, ip) == [subnets |-> s, st |-> st, ip |-> ip]
Failed(s)   == Outcome(s, "err", NONE)
Panicked(s) == Outcome(s, "panic", NONE)

\* HashMap::insert
Put(f, key, value) == [x \in DOMAIN f \cup {key} |-> IF x = key THEN value ELSE f[x]]

\* IPAM::empty
NoSubnets == <<>>

Positions(b) == 0 .. (b.len - 1)
Taken(s, c)  == s[c].taken

\* The shift of /0 goes round: its mask keeps every bit.
MaskSize(c) == IF c.size = Modulus THEN 1 ELSE c.size

\* Variant: a mask that is one bit too short.
BaseOfDouble(c, a) == a - (a % (2 * MaskSize(c)))

\* address & mask
Base(c, a) == a - (a % MaskSize(c))

\* The block of c as its notation means it.
Block(c) == LET first == c.ip - (c.ip % c.size) IN first .. (first + c.size - 1)

\* A CIDR written with the first address of its block.
Canonical(c) == c.ip % c.size = 0

\* Variant: in more bits than an address has.
WideIp(c, index) == Base(c, c.ip) + index

\* calculate_ip: the address, or a panic where the sum leaves the width.
IpOf(c, index) == (Base(c, c.ip) + index) % Modulus
IpPanics(c, index, checked) ==
    checked /\ (c.size = Modulus \/ Base(c, c.ip) + index >= Modulus)

\* 2u32.pow(32 - prefix_len) - 2: /0 overflows, /32 goes below zero.
CapacityOverflows(c) == c.size \in {1, Modulus}
Capacity(c) == (c.size - 2) % Modulus

\* Variants: without the look whether it is there; inserted before the capacity
\* is known.
AddSubnetAgain(s, c, checked) ==
    IF checked /\ CapacityOverflows(c) THEN Panicked(s)
    ELSE Outcome(Put(s, c, [len |-> Capacity(c), taken |-> {}]), "ok", NONE)
AddSubnetEarly(s, c, checked) ==
    IF c \in DOMAIN s THEN Failed(s)
    ELSE LET s2 == Put(s, c, [len |-> Capacity(c), taken |-> {}])
         IN  IF checked /\ CapacityOverflows(c) THEN Panicked(s2) ELSE Outcome(s2, "ok", NONE)

AddSubnet(s, c, checked) ==
    IF c \in DOMAIN s THEN Failed(s)
    ELSE IF checked /\ CapacityOverflows(c) THEN Panicked(s)
    ELSE Outcome(Put(s, c, [len |-> Capacity(c), taken |-> {}]), "ok", NONE)

\* The bit is set before the address is calculated.
Take(s, c, pos, checked) ==
    LET s2 == [s EXCEPT ![c].taken = @ \cup {pos}]
    IN  IF IpPanics(c, pos + 1, checked)
        THEN Panicked(s2)
        ELSE Outcome(s2, "ok", IpOf(c, pos + 1))

\* Variant: the first bit, not the first zero.
AllPositions(b) == Positions(b)

\* first_zero
FreePositions(b) == Positions(b) \ b.taken

AllocateIp(s, c, checked) ==
    IF c \notin DOMAIN s \/ FreePositions(s[c]) = {}
    THEN Failed(s)
    ELSE Take(s, c, Min(FreePositions(s[c])), checked)

\* allocate_specific_ip with index 0, which compares it with the length as a u32
AllocateGateway(s, c, checked) ==
    IF c \notin DOMAIN s \/ s[c].len % Modulus = 0 \/ 0 \in s[c].taken
    THEN Failed(s)
    ELSE Take(s, c, 0, checked)

\* Variant: the addresses counted from zero.
IndexFromZero(c, ip) == (ip - c.ip) % Modulus

\* ip_to_index subtracts the address that the CIDR is written with.
IndexOf(c, ip) == (ip - c.ip - 1) % Modulus
IndexPanics(c, ip, checked) ==
    checked /\ \/ c.size = Modulus
               \/ Base(c, c.ip) = Base(c, ip) /\ ip - c.ip - 1 < 0

ReleaseIp(s, c, ip, checked) ==
    IF IndexPanics(c, ip, checked) THEN Panicked(s)
    ELSE IF \/ Base(c, c.ip) # Base(c, ip)
            \/ c \notin DOMAIN s
            \/ IndexOf(c, ip) \notin Positions(s[c])
            \/ IndexOf(c, ip) \notin s[c].taken
    THEN Failed(s)
    ELSE Outcome([s EXCEPT ![c].taken = @ \ {IndexOf(c, ip)}], "ok", NONE)

\* serialize_subnets writes the bytes of a bitmap and not its length, so
\* deserialize_subnets makes a bitmap of all the bits of these bytes.
RoundUp(n) == ((n + ByteBits - 1) \div ByteBits) * ByteBits

Reloaded(s) == [c \in DOMAIN s |-> [s[c] EXCEPT !.len = RoundUp(@)]]
=============================================================================
