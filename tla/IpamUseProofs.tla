--------------------------- MODULE IpamUseProofs ---------------------------
(***************************************************************************)
(* Theorems about the address manager in use, for address families of any  *)
(* size, any subnets and any number of owners.                             *)
(***************************************************************************)
EXTENDS IpamUse, IpamProofs, WellFoundedInduction

\* The position that the address of o has in its subnet.
IndexAt(o) == IndexOf(held[o].cidr, held[o].ip)

\* The bitmaps are of subnets asked for, as long as they were made, or rounded up
\* by a reload.
BitmapInv ==
    /\ Maps(subnets) /\ DOMAIN subnets \subseteq UsedCidrs
    /\ \A c \in DOMAIN subnets :
          \/ subnets[c].len = Capacity(c)
          \/ reloads /\ subnets[c].len = RoundUp(Capacity(c))

\* Addresses are held, and bits lost, of subnets that are there.
OwnerInv ==
    /\ \A o \in Owners : held[o] # Nothing => held[o].cidr \in DOMAIN subnets
    /\ \A c, p : <<c, p>> \in lost => c \in DOMAIN subnets

\* TakenIsHeld, bit by bit; and no bit of a held address is a lost one.
BitsInv ==
    \A c \in DOMAIN subnets : Canonical(c) =>
        /\ \A p : p \in Taken(subnets, c) <=>
              \/ \E o \in Owners : held[o].cidr = c /\ IndexAt(o) = p
              \/ p \in 0 .. (Modulus + ByteBits) /\ <<c, p>> \in lost
        /\ \A o \in Owners : held[o].cidr = c => <<c, IndexAt(o)>> \notin lost

\* HeldInBlock as the code keeps it: a reload widens the subnet to whole bytes, once.
HeldInRoom ==
    \A o \in Owners : held[o] # Nothing =>
        LET c    == held[o].cidr
            room == IF reloads THEN RoundUp(c.size - 2) ELSE c.size - 2
        IN  CapacityOverflows(c) \/ (held[o].ip - Min(Block(c))) % Modulus \in 1 .. room

Inv == TypeOK /\ BitmapInv /\ OwnerInv /\ BitsInv /\ HeldOnce /\ HeldInRoom

-----------------------------------------------------------------------------
(* Arithmetic.                                                             *)

LEMMA MinFacts ==
    ASSUME NEW S, S \subseteq Nat, S # {}
    PROVE  Min(S) \in S /\ \A y \in S : Min(S) <= y
<1> DEFINE R == {ss \in Nat \X Nat : ss[1] < ss[2]}
<1>1. IsWellFoundedOn(R, Nat)
  BY NatLessThanWellFounded, Zenon DEF OpToRel
<1>2. \E x \in S : \A y \in S : <<y, x>> \notin R
  <2> HIDE DEF R
  <2> QED BY <1>1, WFMin
<1>3. PICK x \in S : \A y \in S : <<y, x>> \notin R
  BY <1>2
<1>4. \A y \in S : x <= y
  <2> TAKE y \in S
  <2>1. ~(y < x)
    BY <1>3
  <2> QED BY <2>1
<1> QED BY <1>4 DEF Min

\* A block with room for hosts is at most half of the addresses, and rounding its
\* capacity up to a byte does not fill them.
LEMMA RoomFacts ==
    ASSUME NEW c \in Cidrs
    PROVE  /\ RoundUp(Capacity(c)) <= Modulus
           /\ ~CapacityOverflows(c) => /\ c.size - 2 \in Nat /\ Capacity(c) = c.size - 2
                                       /\ RoundUp(c.size - 2) < Modulus
<1> DEFINE M == Modulus
           B == ByteBits
           n == Capacity(c)
           q == (n + B - 1) \div B
<1>1. /\ M \in Nat \ {0} /\ B \in Nat \ {0} /\ M % B = 0 /\ B < M /\ c.size \in 1 .. M
      /\ M % c.size = 0 /\ n \in 0 .. (M - 1)
  BY IpamAssumption, UseAssumption, MaskFacts, CapacityFacts DEF IpamAssumption
<1>2. RoundUp(n) \in Nat /\ RoundUp(n) <= n + B - 1
  BY <1>1, RoundUpFacts, IpamAssumption
<1>3. ASSUME NEW d \in 1 .. M, M % d = 0
      PROVE  M \div d \in Int /\ M = d * (M \div d)
  <2>1. d \in Nat \ {0} /\ M \in Int
    BY <1>1
  <2>2. M \div d \in Int /\ M = d * (M \div d) + (M % d)
    BY <2>1, DivMod
  <2> QED BY <1>3, <2>1, <2>2
<1>4. ASSUME NEW d \in 1 .. M, M % d = 0, d < M
      PROVE  d + d <= M
  <2>1. d \in Nat \ {0} /\ 1 \in Int /\ M \div d \in Int /\ M = d * (M \div d)
    BY <1>3, <1>4
  <2>2. d * 1 < d * (M \div d)
    BY <1>4, <2>1
  <2>3. d * 1 + d <= d * (M \div d)
    BY <2>1, <2>2, NextMultiple
  <2> QED BY <2>1, <2>3
<1>5. RoundUp(n) <= M
  <2>1. q \in Int
    <3>1. n + B - 1 \in Int
      BY <1>1
    <3> QED BY <1>1, <3>1, DivMod
  <2>2. RoundUp(n) = B * q
    BY <1>1, <2>1 DEF RoundUp
  <2>3. M \div B \in Int /\ M = B * (M \div B)
    BY <1>1, <1>3
  <2>4. CASE B * (M \div B) < B * q
    <3>1. B * (M \div B) + B <= B * q
      BY <1>1, <2>1, <2>3, <2>4, NextMultiple
    <3>2. M + B <= RoundUp(n)
      BY <2>2, <2>3, <3>1
    <3> HIDE DEF n
    <3> QED BY <1>1, <1>2, <3>2
  <2> QED BY <1>1, <1>2, <2>2, <2>3, <2>4
<1>6. ASSUME ~CapacityOverflows(c)
      PROVE  c.size - 2 \in Nat /\ n = c.size - 2 /\ RoundUp(c.size - 2) < M
  <2>1. c.size # 1 /\ c.size # M
    BY <1>6 DEF CapacityOverflows
  <2>2. n = c.size - 2
    BY <2>1, CapacityFacts, IpamAssumption
  <2>3. c.size + c.size <= M /\ B + B <= M
    BY <1>1, <1>4, <2>1
  <2> QED BY <1>1, <1>2, <2>1, <2>2, <2>3
<1> QED BY <1>5, <1>6

LEMMA CanonicalBase ==
    ASSUME NEW c \in Cidrs, Canonical(c)
    PROVE  Base(c, c.ip) = c.ip
<1>1. c.ip \in Addresses
  BY MaskFacts, IpamAssumption
<1>2. CASE c.size = Modulus
  <2>1. c.ip \in Int /\ 1 \in Nat \ {0}
    BY <1>1 DEF Addresses
  <2>2. c.ip % 1 \in 0 .. (1 - 1)
    BY <2>1, DivMod
  <2>3. c.ip % 1 = 0
    BY <2>2
  <2> QED BY <1>2, <2>1, <2>3 DEF Base, MaskSize
<1>3. CASE c.size # Modulus
  BY <1>1, <1>3 DEF Canonical, Base, MaskSize, Addresses
<1> QED BY <1>2, <1>3

\* The position of an address that was calculated is the one it was calculated from.
LEMMA IndexOfIp ==
    ASSUME NEW c \in Cidrs, Canonical(c), NEW p \in 0 .. (Modulus - 1)
    PROVE  IndexOf(c, IpOf(c, p + 1)) = p
<1> DEFINE M == Modulus
           a == c.ip + (p + 1)
<1>1. c.ip \in 0 .. (M - 1) /\ M \in Nat \ {0} /\ p \in 0 .. (M - 1)
  BY MaskFacts, IpamAssumption DEF IpamAssumption, Addresses
<1>2. IpOf(c, p + 1) = a % M
  BY CanonicalBase DEF IpOf
<1>3. a \in Int /\ (a \in 0 .. (M - 1) \/ a \in M .. (2 * M - 1))
  BY <1>1
<1>4. a % M = a \/ a % M = a - M
  <2> HIDE DEF a
  <2> QED BY <1>1, <1>3, SmallMod
<1> DEFINE b == (a % M) - c.ip - 1
<1>5. b = p \/ b = p - M
  <2> DEFINE r == a % M
  <2>1. r = a \/ r = a - M
    BY <1>4
  <2> HIDE DEF r
  <2>2. r - c.ip - 1 = p \/ r - c.ip - 1 = p - M
    BY <1>1, <2>1
  <2> QED BY <2>2 DEF r
<1> HIDE DEF b
<1>6. b \in Int /\ (b \in 0 .. (M - 1) \/ b \in (-M) .. (-1))
  BY <1>1, <1>5
<1>7. b % M = p
  BY <1>1, <1>5, <1>6, SmallMod
<1> QED BY <1>2, <1>7 DEF IndexOf, b

\* Addresses with one position are one address.
LEMMA IndexIsInjective ==
    ASSUME NEW c \in Cidrs, NEW a \in Addresses, NEW b \in Addresses,
           IndexOf(c, a) = IndexOf(c, b)
    PROVE  a = b
<1> DEFINE M == Modulus
           x == a - c.ip - 1
           y == b - c.ip - 1
<1>1. /\ c.ip \in 0 .. (M - 1) /\ M \in Nat \ {0} /\ a \in 0 .. (M - 1) /\ b \in 0 .. (M - 1)
  BY MaskFacts, IpamAssumption DEF IpamAssumption, Addresses
<1>2. x % M = y % M
  BY DEF IndexOf
<1>3. /\ x \in Int /\ (x \in 0 .. (M - 1) \/ x \in (-M) .. (-1))
      /\ y \in Int /\ (y \in 0 .. (M - 1) \/ y \in (-M) .. (-1))
  BY <1>1
<1>4. (x % M = x \/ x % M = x + M) /\ (y % M = y \/ y % M = y + M)
  <2> HIDE DEF x, y
  <2> QED BY <1>1, <1>3, SmallMod
<1>5. x = y \/ x = y + M \/ y = x + M
  <2> HIDE DEF x, y
  <2> QED BY <1>1, <1>2, <1>3, <1>4
<1> QED BY <1>1, <1>5

\* The address of a position below the room of a subnet is in its block, counted from
\* the first one and round the address family.
LEMMA IpInRoom ==
    ASSUME NEW c \in Cidrs, ~CapacityOverflows(c), NEW p \in Nat, p + 1 < Modulus
    PROVE  (IpOf(c, p + 1) - Min(Block(c))) % Modulus = p + 1
<1> DEFINE M == Modulus
           first == c.ip - (c.ip % c.size)
           a == first + (p + 1)
<1>1. M \in Nat \ {0} /\ c.ip \in Addresses /\ c.size \in 1 .. M
  BY MaskFacts, IpamAssumption DEF IpamAssumption
<1>2. Base(c, c.ip) = first /\ first \in Nat /\ first < M
  <2>1. Base(c, c.ip) = first /\ Base(c, c.ip) \in Nat /\ Base(c, c.ip) <= c.ip
    BY <1>1, BaseFacts, IpamAssumption
  <2> HIDE DEF first
  <2> QED BY <1>1, <2>1 DEF Addresses
<1>3. IpOf(c, p + 1) = a % M
  BY <1>2 DEF IpOf
<1>4. Min(Block(c)) = first
  <2>1. Block(c) = first .. (first + c.size - 1)
    BY DEF Block
  <2> HIDE DEF first
  <2>2. Block(c) \subseteq Nat /\ first \in Block(c) /\ \A y \in Block(c) : first <= y
    BY <1>1, <1>2, <2>1
  <2>3. Min(Block(c)) \in Block(c) /\ \A y \in Block(c) : Min(Block(c)) <= y
    BY <2>2, MinFacts
  <2> QED BY <1>2, <2>2, <2>3
<1> HIDE DEF first
<1>5. a \in Int /\ (a \in 0 .. (M - 1) \/ a \in M .. (2 * M - 1))
  BY <1>1, <1>2
<1>6. a % M = a \/ a % M = a - M
  <2> HIDE DEF a
  <2> QED BY <1>1, <1>5, SmallMod
<1> DEFINE r == a % M
           b == r - first
<1>7. b = p + 1 \/ b = p + 1 - M
  <2>1. r = a \/ r = a - M
    BY <1>6
  <2> HIDE DEF r
  <2>2. r - first = p + 1 \/ r - first = p + 1 - M
    BY <1>1, <1>2, <2>1
  <2> QED BY <2>2 DEF r
<1> HIDE DEF b
<1>8. b \in Int /\ (b \in 0 .. (M - 1) \/ b \in (-M) .. (-1))
  BY <1>1, <1>7
<1>9. b % M = p + 1
  <2>1. p + 1 \in 0 .. (M - 1) /\ p + 1 - M \in (-M) .. (-1)
    BY <1>1
  <2>2. b \in 0 .. (M - 1) => b % M = b
    BY <1>1, <1>8, SmallMod
  <2>3. b \in (-M) .. (-1) => b % M = b + M
    BY <1>1, <1>8, SmallMod
  <2> QED BY <1>1, <1>7, <2>1, <2>2, <2>3
<1> QED BY <1>3, <1>4, <1>9 DEF b

-----------------------------------------------------------------------------
(* Steps.                                                                  *)

LEMMA InitHolds == ASSUME Init PROVE Inv
<1> USE DEF Init
<1>1. DOMAIN subnets = {} /\ lost = {} /\ \A o \in Owners : held[o] = Nothing
  BY DEF NoSubnets
<1>2. TypeOK
  <2>1. held \in [Owners -> {Nothing} \cup [cidr : UsedCidrs, ip : Addresses]]
    OBVIOUS
  <2> QED BY <1>1, <2>1 DEF TypeOK
<1>3. BitmapInv /\ OwnerInv /\ BitsInv
  BY <1>1 DEF BitmapInv, Maps, OwnerInv, BitsInv
<1>4. HeldOnce /\ HeldInRoom
  BY <1>1 DEF HeldOnce, HeldInRoom
<1> QED BY <1>2, <1>3, <1>4 DEF Inv

\* A call that changes nothing, in particular one that is refused.
LEMMA SameStep == ASSUME Inv, UNCHANGED vars PROVE Inv'
<1> USE DEF Inv, vars
<1>1. TypeOK' /\ BitmapInv'
  BY DEF TypeOK, BitmapInv, Maps
<1>2. OwnerInv' /\ BitsInv'
  BY DEF OwnerInv, BitsInv, IndexAt, Taken
<1>3. HeldOnce' /\ HeldInRoom'
  BY DEF HeldOnce, HeldInRoom
<1> QED BY <1>1, <1>2, <1>3

LEMMA AddStep ==
    ASSUME Inv, NEW c \in UsedCidrs, Add(c)
    PROVE  Inv'
<1> USE DEF Inv
<1> DEFINE out == AddSubnet(subnets, c, checked)
<1>1. subnets' = out.subnets /\ UNCHANGED <<checked, held, reloads, lost>>
  BY DEF Add
<1>2. c \in Cidrs /\ Maps(subnets) /\ checked \in BOOLEAN
  BY UseAssumption DEF BitmapInv, TypeOK
<1>3. \/ /\ out.st = "ok" /\ c \notin DOMAIN subnets
         /\ ~(checked /\ CapacityOverflows(c))
         /\ DOMAIN out.subnets = DOMAIN subnets \cup {c}
         /\ \A d \in DOMAIN subnets : out.subnets[d] = subnets[d]
         /\ out.subnets[c] = [len |-> Capacity(c), taken |-> {}]
         /\ Maps(out.subnets)
      \/ out.st \in {"err", "panic"} /\ out.subnets = subnets /\ out.ip = NONE
  BY <1>2, AddFacts, IpamAssumption
<1> HIDE DEF out
<1>4. CASE subnets' = subnets
  BY <1>1, <1>4, SameStep DEF vars
<1>5. CASE subnets' # subnets
  <2>1. /\ c \notin DOMAIN subnets /\ DOMAIN subnets' = DOMAIN subnets \cup {c}
        /\ \A d \in DOMAIN subnets : subnets'[d] = subnets[d]
        /\ subnets'[c] = [len |-> Capacity(c), taken |-> {}]
        /\ Maps(subnets')
    BY <1>1, <1>3, <1>5
  <2>2. BitmapInv'
    BY <1>1, <2>1 DEF BitmapInv
  <2>3. TypeOK'
    BY <1>1, <2>1, <2>2 DEF TypeOK, Maps, BitmapInv
  <2>4. OwnerInv'
    BY <1>1, <2>1 DEF OwnerInv
  <2>5. BitsInv'
    <3> SUFFICES ASSUME NEW d \in DOMAIN subnets', Canonical(d)
                 PROVE  /\ \A p : p \in Taken(subnets', d) <=>
                             \/ \E o \in Owners : held[o].cidr = d /\ IndexAt(o) = p
                             \/ p \in 0 .. (Modulus + ByteBits) /\ <<d, p>> \in lost
                        /\ \A o \in Owners : held[o].cidr = d => <<d, IndexAt(o)>> \notin lost
      BY <1>1 DEF BitsInv, IndexAt
    <3>1. CASE d = c
      <4>1. \A o \in Owners : held[o].cidr # c
        BY <2>1, UseAssumption DEF OwnerInv, Nothing
      <4>2. \A p : <<c, p>> \notin lost
        BY <2>1 DEF OwnerInv
      <4>3. Taken(subnets', c) = {}
        BY <2>1 DEF Taken
      <4> QED BY <3>1, <4>1, <4>2, <4>3
    <3>2. CASE d # c
      <4>1. d \in DOMAIN subnets /\ Taken(subnets', d) = Taken(subnets, d)
        BY <2>1, <3>2 DEF Taken
      <4> QED BY <4>1 DEF BitsInv
    <3> QED BY <3>1, <3>2
  <2>6. HeldOnce' /\ HeldInRoom'
    BY <1>1 DEF HeldOnce, HeldInRoom
  <2> QED BY <2>2, <2>3, <2>4, <2>5, <2>6
<1> QED BY <1>4, <1>5

\* Both ways of asking take a free position, or fail and change nothing.
LEMMA AskFacts ==
    ASSUME NEW s, Maps(s), NEW c \in Cidrs, NEW build \in BOOLEAN,
           NEW out, out = AllocateIp(s, c, build) \/ out = AllocateGateway(s, c, build)
    PROVE  \/ out.st = "err" /\ out.subnets = s
           \/ /\ c \in DOMAIN s
              /\ \E p \in Nat : /\ p < s[c].len /\ p \notin s[c].taken
                                /\ out = Take(s, c, p, build)
<1>1. CASE out = Failed(s)
  BY <1>1 DEF Failed, Outcome
<1>2. CASE out # Failed(s)
  <2> DEFINE free == FreePositions(s[c])
  <2>1. /\ c \in DOMAIN s
        /\ \/ free # {} /\ out = Take(s, c, Min(free), build)
           \/ /\ s[c].len % Modulus # 0 /\ 0 \notin s[c].taken
              /\ out = Take(s, c, 0, build)
    BY <1>2 DEF AllocateIp, AllocateGateway
  <2>2. s[c].len \in Nat /\ (s[c].len % Modulus # 0 => 0 < s[c].len)
    <3>1. s[c].len \in Nat /\ Modulus \in Nat \ {0}
      BY <2>1, IpamAssumption DEF Maps, Bitmaps
    <3>2. 0 % Modulus = 0
      BY <3>1
    <3> QED BY <3>1, <3>2
  <2>3. free \subseteq Nat /\ \A p \in free : p < s[c].len /\ p \notin s[c].taken
    BY <2>2 DEF FreePositions, Positions
  <2>4. free # {} => Min(free) \in free
    <3> HIDE DEF free
    <3> QED BY <2>3, MinFacts
  <2>5. CASE free # {} /\ out = Take(s, c, Min(free), build)
    <3> HIDE DEF free
    <3> QED BY <2>1, <2>3, <2>4, <2>5
  <2>6. CASE s[c].len % Modulus # 0 /\ 0 \notin s[c].taken /\ out = Take(s, c, 0, build)
    <3>1. 0 \in Nat /\ 0 < s[c].len /\ 0 \notin s[c].taken
      BY <2>2, <2>6
    <3> QED BY <2>1, <2>6, <3>1
  <2> QED BY <2>1, <2>5, <2>6
<1> QED BY <1>1, <1>2

\* What a call that took position p of c leaves in the map.
Marked(c, p) ==
    /\ c \in DOMAIN subnets /\ c \in Cidrs /\ c \in UsedCidrs
    /\ p \in Nat /\ p < subnets[c].len /\ p \notin Taken(subnets, c)
    /\ SameButBits(subnets, subnets', c) /\ Maps(subnets')
    /\ Taken(subnets', c) = Taken(subnets, c) \cup {p}

\* Such a position is below the room of its subnet, and not one of those that are
\* held or lost.
LEMMA MarkedFacts ==
    ASSUME Inv, NEW c, NEW p, Marked(c, p)
    PROVE  /\ p \in 0 .. (Modulus - 1) /\ p + 1 \in Nat
           /\ ~CapacityOverflows(c) =>
                /\ p + 1 < Modulus
                /\ p < (IF reloads THEN RoundUp(c.size - 2) ELSE c.size - 2)
           /\ Canonical(c) => /\ <<c, p>> \notin lost
                              /\ \A o \in Owners : held[o].cidr = c => IndexAt(o) # p
           /\ \A d \in DOMAIN subnets : d # c => Taken(subnets', d) = Taken(subnets, d)
           /\ DOMAIN subnets' = DOMAIN subnets
           /\ \A d \in DOMAIN subnets : subnets'[d].len = subnets[d].len
<1> USE DEF Inv
<1>1. /\ c \in DOMAIN subnets /\ c \in Cidrs /\ p \in Nat /\ p < subnets[c].len
      /\ p \notin Taken(subnets, c)
  BY DEF Marked
<1>2. subnets[c].len = Capacity(c) \/ (reloads /\ subnets[c].len = RoundUp(Capacity(c)))
  BY <1>1 DEF BitmapInv
<1>3. /\ Capacity(c) \in 0 .. (Modulus - 1) /\ RoundUp(Capacity(c)) <= Modulus
      /\ RoundUp(Capacity(c)) \in Nat /\ Capacity(c) <= RoundUp(Capacity(c))
  <2>1. Capacity(c) \in 0 .. (Modulus - 1)
    BY <1>1, CapacityFacts, IpamAssumption
  <2>2. Capacity(c) \in Nat
    BY <2>1
  <2> QED BY <1>1, <2>1, <2>2, RoundUpFacts, RoomFacts, IpamAssumption
<1>4. Modulus \in Nat \ {0} /\ ByteBits \in Nat
  BY IpamAssumption DEF IpamAssumption
<1>5. p \in 0 .. (Modulus - 1) /\ p + 1 \in Nat
  BY <1>1, <1>2, <1>3, <1>4
<1>6. ASSUME ~CapacityOverflows(c)
      PROVE  /\ p + 1 < Modulus
             /\ p < (IF reloads THEN RoundUp(c.size - 2) ELSE c.size - 2)
  <2>1. /\ c.size - 2 \in Nat /\ Capacity(c) = c.size - 2
        /\ RoundUp(c.size - 2) < Modulus
    BY <1>1, <1>6, RoomFacts
  <2> DEFINE n == c.size - 2
  <2>2. n \in Nat /\ Capacity(c) = n /\ RoundUp(n) < Modulus /\ RoundUp(n) \in Nat /\ n <= RoundUp(n)
    BY <1>3, <2>1
  <2> HIDE DEF n
  <2>3. p < RoundUp(n) /\ (~reloads => p < n)
    BY <1>1, <1>2, <2>2
  <2>4. p + 1 < Modulus
    BY <1>1, <1>4, <2>2, <2>3
  <2> QED BY <2>3, <2>4 DEF n
<1>7. ASSUME Canonical(c)
      PROVE  /\ <<c, p>> \notin lost
             /\ \A o \in Owners : held[o].cidr = c => IndexAt(o) # p
  <2>1. p \in 0 .. (Modulus + ByteBits)
    BY <1>4, <1>5
  <2> QED BY <1>1, <1>7, <2>1 DEF BitsInv
<1>8. \A d \in DOMAIN subnets : d # c => Taken(subnets', d) = Taken(subnets, d)
  BY DEF Marked, SameButBits, Taken
<1>9. /\ DOMAIN subnets' = DOMAIN subnets
      /\ \A d \in DOMAIN subnets : subnets'[d].len = subnets[d].len
  BY <1>1 DEF Marked, SameButBits
<1> QED BY <1>5, <1>6, <1>7, <1>8, <1>9

\* A call that took a position and answered its address.
LEMMA ReceivedStep ==
    ASSUME Inv, NEW o \in Owners, NEW c, NEW p, Marked(c, p), held[o] = Nothing,
           held' = [held EXCEPT ![o] = [cidr |-> c, ip |-> IpOf(c, p + 1)]],
           UNCHANGED <<checked, reloads, lost>>
    PROVE  Inv'
<1> USE DEF Inv
<1> DEFINE a == IpOf(c, p + 1)
           mine == [cidr |-> c, ip |-> a]
<1>1. /\ c \in DOMAIN subnets /\ c \in Cidrs /\ c \in UsedCidrs /\ Maps(subnets')
      /\ Taken(subnets', c) = Taken(subnets, c) \cup {p}
  BY DEF Marked
<1>2. /\ p \in 0 .. (Modulus - 1) /\ p + 1 \in Nat
      /\ ~CapacityOverflows(c) =>
           /\ p + 1 < Modulus
           /\ p < (IF reloads THEN RoundUp(c.size - 2) ELSE c.size - 2)
      /\ Canonical(c) => /\ <<c, p>> \notin lost
                         /\ \A q \in Owners : held[q].cidr = c => IndexAt(q) # p
      /\ \A d \in DOMAIN subnets : d # c => Taken(subnets', d) = Taken(subnets, d)
      /\ DOMAIN subnets' = DOMAIN subnets
      /\ \A d \in DOMAIN subnets : subnets'[d].len = subnets[d].len
  BY MarkedFacts
<1>3. a \in Addresses
  BY <1>1, <1>2, IpOfFacts, IpamAssumption
<1>4. Canonical(c) => IndexOf(c, a) = p
  BY <1>1, <1>2, IndexOfIp
<1> HIDE DEF a
<1>5. mine.cidr = c /\ mine.ip = a /\ mine # Nothing
  BY <1>1, UseAssumption DEF Nothing
<1>6. mine \in [cidr : UsedCidrs, ip : Addresses]
  BY <1>1, <1>3
<1>7. held' = [held EXCEPT ![o] = mine]
  BY DEF a
<1> HIDE DEF mine
<1>8. /\ held' \in [Owners -> {Nothing} \cup [cidr : UsedCidrs, ip : Addresses]]
      /\ held'[o] = mine /\ \A q \in Owners : q # o => held'[q] = held[q]
  BY <1>6, <1>7 DEF TypeOK
<1>9. TypeOK'
  BY <1>1, <1>2, <1>8 DEF TypeOK, Maps
<1>10. BitmapInv'
  BY <1>1, <1>2 DEF BitmapInv
<1>11. OwnerInv'
  BY <1>1, <1>2, <1>5, <1>8 DEF OwnerInv
<1>12. \A q \in Owners : q # o => IndexAt(q)' = IndexAt(q) /\ held'[q].cidr = held[q].cidr
  BY <1>8 DEF IndexAt
<1>13. Canonical(c) => IndexAt(o)' = p
  BY <1>4, <1>5, <1>8 DEF IndexAt
<1>14. held[o].cidr = NONE /\ \A d \in DOMAIN subnets : d # NONE
  BY UseAssumption DEF Nothing, BitmapInv
<1>15. BitsInv'
  <2> SUFFICES ASSUME NEW d \in DOMAIN subnets, Canonical(d)
               PROVE  /\ \A i : i \in Taken(subnets', d) <=>
                           \/ \E q \in Owners : held'[q].cidr = d /\ IndexAt(q)' = i
                           \/ i \in 0 .. (Modulus + ByteBits) /\ <<d, i>> \in lost
                      /\ \A q \in Owners : held'[q].cidr = d => <<d, IndexAt(q)'>> \notin lost
    BY <1>2 DEF BitsInv
  <2>1. /\ \A i : i \in Taken(subnets, d) <=>
             \/ \E q \in Owners : held[q].cidr = d /\ IndexAt(q) = i
             \/ i \in 0 .. (Modulus + ByteBits) /\ <<d, i>> \in lost
        /\ \A q \in Owners : held[q].cidr = d => <<d, IndexAt(q)>> \notin lost
    BY DEF BitsInv
  <2>2. held[o].cidr # d
    BY <1>14
  <2>3. CASE d = c
    <3>1. held'[o].cidr = d /\ IndexAt(o)' = p
      BY <1>5, <1>8, <1>13, <2>3
    <3>2. \A i : (\E q \in Owners : held'[q].cidr = d /\ IndexAt(q)' = i)
             <=> i = p \/ \E q \in Owners : held[q].cidr = d /\ IndexAt(q) = i
      BY <1>12, <2>2, <3>1
    <3>3. \A q \in Owners : held'[q].cidr = d => <<d, IndexAt(q)'>> \notin lost
      BY <1>2, <1>12, <2>1, <2>3, <3>1
    <3>4. Taken(subnets', d) = Taken(subnets, d) \cup {p}
      BY <1>1, <2>3
    <3> QED BY <2>1, <3>2, <3>3, <3>4
  <2>4. CASE d # c
    <3>1. held'[o].cidr # d
      BY <1>5, <1>8, <2>4
    <3>2. \A i : (\E q \in Owners : held'[q].cidr = d /\ IndexAt(q)' = i)
             <=> \E q \in Owners : held[q].cidr = d /\ IndexAt(q) = i
      BY <1>12, <2>2, <3>1
    <3>3. \A q \in Owners : held'[q].cidr = d => <<d, IndexAt(q)'>> \notin lost
      BY <1>12, <2>1, <3>1
    <3>4. Taken(subnets', d) = Taken(subnets, d)
      BY <1>2, <2>4
    <3> QED BY <2>1, <3>2, <3>3, <3>4
  <2> QED BY <2>3, <2>4
<1>16. HeldOnce'
  <2>1. ASSUME NEW q \in Owners, q # o, held'[q] = mine, Canonical(c) PROVE FALSE
    <3>1. held[q].cidr = c /\ IndexAt(q)' = p
      BY <1>4, <1>5, <1>8, <2>1 DEF IndexAt
    <3> QED BY <1>2, <1>12, <2>1, <3>1
  <2> SUFFICES ASSUME NEW q \in Owners, NEW r \in Owners, q # r, held'[q] = held'[r],
                      held'[q] # Nothing, Canonical(held'[q].cidr)
               PROVE  FALSE
    BY DEF HeldOnce
  <2>2. CASE q = o \/ r = o
    BY <1>5, <1>8, <2>1, <2>2
  <2>3. CASE q # o /\ r # o
    BY <1>8, <2>3 DEF HeldOnce
  <2> QED BY <2>2, <2>3
<1>17. HeldInRoom'
  <2>1. CapacityOverflows(c)
        \/ (a - Min(Block(c))) % Modulus \in 1 .. (IF reloads THEN RoundUp(c.size - 2) ELSE c.size - 2)
    <3> SUFFICES ASSUME ~CapacityOverflows(c)
                 PROVE  (a - Min(Block(c))) % Modulus
                           \in 1 .. (IF reloads THEN RoundUp(c.size - 2) ELSE c.size - 2)
      OBVIOUS
    <3> DEFINE room == IF reloads THEN RoundUp(c.size - 2) ELSE c.size - 2
    <3>1. room \in Nat
      <4>1. c.size - 2 \in Nat
        BY <1>1, RoomFacts
      <4>2. RoundUp(c.size - 2) \in Nat
        BY <4>1, RoundUpFacts, IpamAssumption
      <4> QED BY <4>1, <4>2
    <3>2. p \in Nat /\ p + 1 < Modulus /\ p < room
      BY <1>2
    <3>3. (a - Min(Block(c))) % Modulus = p + 1
      BY <1>1, <3>2, IpInRoom DEF a
    <3> HIDE DEF room
    <3>4. p + 1 \in 1 .. room
      BY <3>1, <3>2
    <3> QED BY <3>3, <3>4 DEF room
  <2>2. ASSUME NEW q \in Owners, held'[q] # Nothing
        PROVE  LET d    == held'[q].cidr
                   room == IF reloads THEN RoundUp(d.size - 2) ELSE d.size - 2
               IN  CapacityOverflows(d) \/ (held'[q].ip - Min(Block(d))) % Modulus \in 1 .. room
    <3>1. CASE q = o
      BY <1>5, <1>8, <2>1, <3>1
    <3>2. CASE q # o
      <4>1. held'[q] = held[q] /\ held[q] # Nothing
        BY <1>8, <2>2, <3>2
      <4> QED BY <4>1 DEF HeldInRoom
    <3> QED BY <3>1, <3>2
  <2> QED BY <2>2 DEF HeldInRoom
<1> QED BY <1>9, <1>10, <1>11, <1>15, <1>16, <1>17

\* A call that took a position and panicked: the position is lost.
LEMMA LostStep ==
    ASSUME Inv, NEW c, NEW p, Marked(c, p), lost' = lost \cup {<<c, p>>},
           UNCHANGED <<checked, held, reloads>>
    PROVE  Inv'
<1> USE DEF Inv
<1>1. /\ c \in DOMAIN subnets /\ c \in UsedCidrs /\ p \in Nat /\ Maps(subnets')
      /\ Taken(subnets', c) = Taken(subnets, c) \cup {p}
  BY DEF Marked
<1>2. /\ p \in 0 .. (Modulus - 1) /\ p + 1 \in Nat
      /\ ~CapacityOverflows(c) =>
           /\ p + 1 < Modulus
           /\ p < (IF reloads THEN RoundUp(c.size - 2) ELSE c.size - 2)
      /\ Canonical(c) => /\ <<c, p>> \notin lost
                         /\ \A q \in Owners : held[q].cidr = c => IndexAt(q) # p
      /\ \A d \in DOMAIN subnets : d # c => Taken(subnets', d) = Taken(subnets, d)
      /\ DOMAIN subnets' = DOMAIN subnets
      /\ \A d \in DOMAIN subnets : subnets'[d].len = subnets[d].len
  BY MarkedFacts
<1>3. p \in 0 .. (Modulus + ByteBits)
  BY <1>2, IpamAssumption DEF IpamAssumption
<1>4. \A q \in Owners : IndexAt(q)' = IndexAt(q)
  BY DEF IndexAt
<1>5. TypeOK'
  BY <1>1, <1>2 DEF TypeOK, Maps
<1>6. BitmapInv' /\ OwnerInv'
  BY <1>1, <1>2 DEF BitmapInv, OwnerInv
<1>7. BitsInv'
  <2> SUFFICES ASSUME NEW d \in DOMAIN subnets, Canonical(d)
               PROVE  /\ \A i : i \in Taken(subnets', d) <=>
                           \/ \E q \in Owners : held[q].cidr = d /\ IndexAt(q) = i
                           \/ i \in 0 .. (Modulus + ByteBits) /\ <<d, i>> \in lost'
                      /\ \A q \in Owners : held[q].cidr = d => <<d, IndexAt(q)>> \notin lost'
    BY <1>2, <1>4 DEF BitsInv
  <2>1. /\ \A i : i \in Taken(subnets, d) <=>
             \/ \E q \in Owners : held[q].cidr = d /\ IndexAt(q) = i
             \/ i \in 0 .. (Modulus + ByteBits) /\ <<d, i>> \in lost
        /\ \A q \in Owners : held[q].cidr = d => <<d, IndexAt(q)>> \notin lost
    BY DEF BitsInv
  <2>2. \A i : <<d, i>> \in lost' <=> <<d, i>> \in lost \/ (d = c /\ i = p)
    OBVIOUS
  <2>3. CASE d = c
    BY <1>1, <1>2, <1>3, <2>1, <2>2, <2>3
  <2>4. CASE d # c
    BY <1>2, <2>1, <2>2, <2>4
  <2> QED BY <2>3, <2>4
<1>8. HeldOnce' /\ HeldInRoom'
  BY DEF HeldOnce, HeldInRoom
<1> QED BY <1>5, <1>6, <1>7, <1>8

LEMMA ReceiveStep ==
    ASSUME Inv, NEW o \in Owners, NEW c \in UsedCidrs, Allocate(o, c) \/ Gateway(o, c)
    PROVE  Inv'
<1> USE DEF Inv
<1>1. PICK out : /\ out = AllocateIp(subnets, c, checked) \/ out = AllocateGateway(subnets, c, checked)
                 /\ Receive(o, c, out)
  BY DEF Allocate, Gateway
<1>2. /\ held[o] = Nothing /\ subnets' = out.subnets
      /\ held' = IF out.st = "ok" THEN [held EXCEPT ![o] = [cidr |-> c, ip |-> out.ip]] ELSE held
      /\ lost' = IF out.st = "panic"
                 THEN lost \cup {<<c, p>> : p \in Taken(subnets', c) \ Taken(subnets, c)}
                 ELSE lost
      /\ UNCHANGED <<checked, reloads>>
  BY <1>1 DEF Receive
<1>3. c \in Cidrs /\ Maps(subnets) /\ checked \in BOOLEAN
  BY UseAssumption DEF BitmapInv, TypeOK
<1>4. \/ out.st = "err" /\ out.subnets = subnets
      \/ /\ c \in DOMAIN subnets
         /\ \E p \in Nat : /\ p < subnets[c].len /\ p \notin subnets[c].taken
                           /\ out = Take(subnets, c, p, checked)
  BY <1>1, <1>3, AskFacts
<1>5. CASE out.st = "err" /\ out.subnets = subnets
  BY <1>2, <1>5, SameStep DEF vars
<1>6. CASE ~(out.st = "err" /\ out.subnets = subnets)
  <2>1. c \in DOMAIN subnets
    BY <1>4, <1>6
  <2>2. PICK p \in Nat : /\ p < subnets[c].len /\ p \notin subnets[c].taken
                         /\ out = Take(subnets, c, p, checked)
    BY <1>4, <1>6
  <2>3. /\ SameButBits(subnets, out.subnets, c) /\ Maps(out.subnets)
        /\ out.subnets[c].taken = subnets[c].taken \cup {p}
        /\ \/ /\ out.st = "ok" /\ out.ip = IpOf(c, p + 1) /\ out.ip \in Addresses
              /\ ~IpPanics(c, p + 1, checked)
           \/ out.st = "panic" /\ out.ip = NONE /\ IpPanics(c, p + 1, checked)
    BY <1>3, <2>1, <2>2, TakeFacts, IpamAssumption
  <2>4. Marked(c, p)
    BY <1>2, <1>3, <2>1, <2>2, <2>3 DEF Marked, Taken
  <2>5. CASE out.st = "ok"
    BY <1>2, <2>3, <2>4, <2>5, ReceivedStep
  <2>6. CASE out.st = "panic"
    <3>1. {<<c, i>> : i \in Taken(subnets', c) \ Taken(subnets, c)} = {<<c, p>>}
      BY <2>4 DEF Marked
    <3> QED BY <1>2, <2>4, <2>6, <3>1, LostStep
  <2> QED BY <2>3, <2>5, <2>6
<1> QED BY <1>5, <1>6

LEMMA ReleaseStep ==
    ASSUME Inv, NEW o \in Owners, Release(o)
    PROVE  Inv'
<1> USE DEF Inv
<1> DEFINE c == held[o].cidr
           a == held[o].ip
           out == ReleaseIp(subnets, c, a, checked)
<1>1. /\ held[o] # Nothing /\ subnets' = out.subnets
      /\ held' = IF out.st = "ok" THEN [held EXCEPT ![o] = Nothing] ELSE held
      /\ UNCHANGED <<checked, reloads, lost>>
  BY DEF Release
<1>2. c \in DOMAIN subnets /\ c \in Cidrs /\ Maps(subnets) /\ checked \in BOOLEAN
  BY <1>1 DEF OwnerInv, BitmapInv, Maps, TypeOK
<1>3. /\ SameButBits(subnets, out.subnets, c) /\ Maps(out.subnets)
      /\ \/ out.st # "ok" /\ out.subnets = subnets
         \/ /\ out.st = "ok" /\ c \in DOMAIN subnets /\ Base(c, c.ip) = Base(c, a)
            /\ IndexOf(c, a) \in subnets[c].taken
            /\ out.subnets[c].taken = subnets[c].taken \ {IndexOf(c, a)}
  <2> HIDE DEF c, a
  <2> QED BY <1>2, ReleaseFacts, IpamAssumption
<1>4. IndexAt(o) = IndexOf(c, a)
  BY DEF IndexAt
<1> HIDE DEF out, c, a
<1>5. CASE out.st # "ok"
  BY <1>1, <1>3, <1>5, SameStep DEF vars
<1>6. CASE out.st = "ok"
  <2>1. /\ held' \in [Owners -> {Nothing} \cup [cidr : UsedCidrs, ip : Addresses]]
        /\ held'[o] = Nothing /\ \A q \in Owners : q # o => held'[q] = held[q]
    BY <1>1, <1>6 DEF TypeOK
  <2>2. /\ Maps(subnets') /\ DOMAIN subnets' = DOMAIN subnets
        /\ \A d \in DOMAIN subnets : d # c => Taken(subnets', d) = Taken(subnets, d)
        /\ Taken(subnets', c) = Taken(subnets, c) \ {IndexAt(o)}
        /\ \A d \in DOMAIN subnets : subnets'[d].len = subnets[d].len
    BY <1>1, <1>2, <1>3, <1>4, <1>6 DEF SameButBits, Taken
  <2>3. TypeOK'
    BY <1>1, <2>1, <2>2 DEF TypeOK, Maps
  <2>4. BitmapInv' /\ OwnerInv'
    BY <1>1, <2>1, <2>2 DEF BitmapInv, OwnerInv
  <2>5. \A q \in Owners : q # o => IndexAt(q)' = IndexAt(q) /\ held'[q].cidr = held[q].cidr
    BY <2>1 DEF IndexAt
  <2>6. held[o].cidr = c /\ held'[o].cidr = NONE /\ \A d \in DOMAIN subnets : d # NONE
    BY <2>1, UseAssumption DEF Nothing, BitmapInv, c
  \* Nobody else has the position that is freed.
  <2>7. ASSUME Canonical(c), NEW q \in Owners, q # o, held[q].cidr = c
        PROVE  IndexAt(q) # IndexAt(o)
    <3>1. held[q] # Nothing /\ held[o] # Nothing
      BY <1>1, <1>2, <2>6, <2>7 DEF Nothing
    <3>2. /\ held[q] \in [cidr : UsedCidrs, ip : Addresses]
          /\ held[o] \in [cidr : UsedCidrs, ip : Addresses]
      BY <3>1 DEF TypeOK
    <3>3. held[q].ip \in Addresses /\ held[o].ip \in Addresses
      BY <3>2
    <3>4. IndexAt(q) = IndexOf(c, held[q].ip) /\ IndexAt(o) = IndexOf(c, held[o].ip)
      BY <2>6, <2>7 DEF IndexAt
    <3>5. IndexAt(q) = IndexAt(o) => held[q].ip = held[o].ip
      BY <1>2, <3>3, <3>4, IndexIsInjective
    <3>6. held[q].ip = held[o].ip => held[q] = held[o]
      BY <2>6, <2>7, <3>2
    <3> QED BY <2>6, <2>7, <3>1, <3>5, <3>6 DEF HeldOnce
  <2>8. BitsInv'
    <3> SUFFICES ASSUME NEW d \in DOMAIN subnets, Canonical(d)
                 PROVE  /\ \A i : i \in Taken(subnets', d) <=>
                             \/ \E q \in Owners : held'[q].cidr = d /\ IndexAt(q)' = i
                             \/ i \in 0 .. (Modulus + ByteBits) /\ <<d, i>> \in lost
                        /\ \A q \in Owners : held'[q].cidr = d => <<d, IndexAt(q)'>> \notin lost
      BY <1>1, <2>2 DEF BitsInv
    <3>1. /\ \A i : i \in Taken(subnets, d) <=>
               \/ \E q \in Owners : held[q].cidr = d /\ IndexAt(q) = i
               \/ i \in 0 .. (Modulus + ByteBits) /\ <<d, i>> \in lost
          /\ \A q \in Owners : held[q].cidr = d => <<d, IndexAt(q)>> \notin lost
      BY DEF BitsInv
    <3>2. \A i : (\E q \in Owners : held'[q].cidr = d /\ IndexAt(q)' = i)
             <=> \E q \in Owners : q # o /\ held[q].cidr = d /\ IndexAt(q) = i
      BY <2>5, <2>6
    <3>3. \A q \in Owners : held'[q].cidr = d => <<d, IndexAt(q)'>> \notin lost
      BY <2>5, <2>6, <3>1
    <3>4. CASE d = c
      <4>1. Taken(subnets', d) = Taken(subnets, d) \ {IndexAt(o)}
        BY <2>2, <3>4
      <4>2. <<d, IndexAt(o)>> \notin lost /\ held[o].cidr = d
        BY <2>6, <3>1, <3>4
      <4>3. \A q \in Owners : q # o /\ held[q].cidr = d => IndexAt(q) # IndexAt(o)
        BY <2>7, <3>4
      <4> QED BY <3>1, <3>2, <3>3, <4>1, <4>2, <4>3
    <3>5. CASE d # c
      <4>1. Taken(subnets', d) = Taken(subnets, d) /\ held[o].cidr # d
        BY <2>2, <2>6, <3>5
      <4> QED BY <3>1, <3>2, <3>3, <4>1
    <3> QED BY <3>4, <3>5
  <2>9. HeldOnce' /\ HeldInRoom'
    <3>1. \A q \in Owners : held'[q] # Nothing => held'[q] = held[q]
      BY <2>1
    <3> QED BY <1>1, <3>1 DEF HeldOnce, HeldInRoom
  <2> QED BY <2>3, <2>4, <2>8, <2>9
<1> QED BY <1>5, <1>6

\* Only the room grows.
LEMMA ReloadStep ==
    ASSUME Inv, SaveAndLoad
    PROVE  Inv'
<1> USE DEF Inv
<1>1. /\ subnets' = Reloaded(subnets) /\ reloads' = TRUE /\ UNCHANGED <<checked, held, lost>>
  BY DEF SaveAndLoad
<1>2. /\ DOMAIN subnets' = DOMAIN subnets /\ Maps(subnets')
      /\ \A c \in DOMAIN subnets : /\ Taken(subnets', c) = Taken(subnets, c)
                                   /\ subnets'[c].len = RoundUp(subnets[c].len)
  BY <1>1, ReloadFacts, IpamAssumption DEF BitmapInv, Taken
<1>3. TypeOK'
  <2>1. reloads' \in BOOLEAN
    BY <1>1
  <2> QED BY <1>1, <1>2, <2>1 DEF TypeOK, Maps
<1>4. BitmapInv'
  <2> SUFFICES ASSUME NEW c \in DOMAIN subnets
               PROVE  subnets'[c].len = RoundUp(Capacity(c))
    BY <1>1, <1>2 DEF BitmapInv
  <2>1. Capacity(c) \in 0 .. (Modulus - 1)
    BY CapacityFacts, IpamAssumption DEF BitmapInv, Maps
  <2>2. RoundUp(RoundUp(Capacity(c))) = RoundUp(Capacity(c))
    <3>1. Capacity(c) \in Nat
      BY <2>1
    <3> QED BY <3>1, RoundUpFacts, IpamAssumption
  <2> QED BY <1>2, <2>2 DEF BitmapInv
<1>5. OwnerInv' /\ HeldOnce'
  BY <1>1, <1>2 DEF OwnerInv, HeldOnce
<1>6. BitsInv'
  BY <1>1, <1>2 DEF BitsInv, IndexAt
<1>7. HeldInRoom'
  <2> SUFFICES ASSUME NEW o \in Owners, held[o] # Nothing, ~CapacityOverflows(held[o].cidr)
               PROVE  (held[o].ip - Min(Block(held[o].cidr))) % Modulus
                         \in 1 .. RoundUp(held[o].cidr.size - 2)
    BY <1>1 DEF HeldInRoom
  <2> DEFINE c == held[o].cidr
             n == c.size - 2
             x == (held[o].ip - Min(Block(c))) % Modulus
  <2>1. c \in Cidrs
    BY DEF OwnerInv, BitmapInv, Maps
  <2>2. n \in Nat
    BY <2>1, RoomFacts
  <2>3. n <= RoundUp(n) /\ RoundUp(n) \in Nat
    BY <2>2, RoundUpFacts, IpamAssumption
  <2>4. x \in 1 .. n \/ x \in 1 .. RoundUp(n)
    BY DEF HeldInRoom
  <2> HIDE DEF n, x
  <2>5. x \in 1 .. RoundUp(n)
    BY <2>2, <2>3, <2>4
  <2> QED BY <2>5 DEF n, x
<1> QED BY <1>3, <1>4, <1>5, <1>6, <1>7

LEMMA InvStep == ASSUME Inv, [Next]_vars PROVE Inv'
<1>1. ASSUME NEW c \in UsedCidrs, Add(c) PROVE Inv'
  BY <1>1, AddStep
<1>2. ASSUME NEW c \in UsedCidrs, NEW o \in Owners, Allocate(o, c) \/ Gateway(o, c) PROVE Inv'
  BY <1>2, ReceiveStep
<1>3. ASSUME NEW o \in Owners, Release(o) PROVE Inv'
  BY <1>3, ReleaseStep
<1>4. CASE SaveAndLoad
  BY <1>4, ReloadStep
<1>5. CASE UNCHANGED vars
  BY <1>5, SameStep
<1> QED BY <1>1, <1>2, <1>3, <1>4, <1>5 DEF Next

LEMMA InvImplies == Inv => TakenIsHeld
<1> SUFFICES ASSUME Inv PROVE TakenIsHeld
  OBVIOUS
<1> USE DEF Inv
<1> SUFFICES ASSUME NEW c \in DOMAIN subnets, Canonical(c)
             PROVE  Taken(subnets, c) = {(held[o].ip - c.ip - 1) % Modulus : o \in Holders(c)}
                       \cup {p \in 0 .. (Modulus + ByteBits) : <<c, p>> \in lost}
  BY DEF TakenIsHeld
<1>1. \A o \in Holders(c) : IndexAt(o) = (held[o].ip - c.ip - 1) % Modulus
  BY DEF Holders, IndexAt, IndexOf
<1>2. \A p : p \in Taken(subnets, c) <=>
         \/ \E o \in Owners : held[o].cidr = c /\ IndexAt(o) = p
         \/ p \in 0 .. (Modulus + ByteBits) /\ <<c, p>> \in lost
  BY DEF BitsInv
<1>3. \A p : p \in Taken(subnets, c) <=>
         \/ p \in {(held[o].ip - c.ip - 1) % Modulus : o \in Holders(c)}
         \/ p \in {i \in 0 .. (Modulus + ByteBits) : <<c, i>> \in lost}
  BY <1>1, <1>2 DEF Holders
<1> QED BY <1>3

\* The inductive invariant: the bits of a subnet, one by one, are those of its owners,
\* and its bitmap is as long as it was made or as a reload makes it.
THEOREM UseInvariant == Spec => []Inv
<1>1. Init => Inv
  BY InitHolds
<1>2. Inv /\ [Next]_vars => Inv'
  BY InvStep
<1> QED BY <1>1, <1>2, PTL DEF Spec

\* Every variable keeps its kind: no bitmap outgrows the address family, and no
\* address leaves it, whatever overflows.
THEOREM UseTypes == Spec => []TypeOK
<1>1. Inv => TypeOK
  BY DEF Inv
<1> QED BY <1>1, UseInvariant, PTL

\* allocate_ip and allocate_specific_ip never give an address of a subnet that is
\* written with its first address to two owners.
THEOREM AddressesAreHeldOnce == Spec => []HeldOnce
<1>1. Inv => HeldOnce
  BY DEF Inv
<1> QED BY <1>1, UseInvariant, PTL

\* No call loses or invents a bit of such a subnet, except one that panics.
THEOREM BitsAreThoseHeld == Spec => []TakenIsHeld
BY UseInvariant, InvImplies, PTL

\* Subnets that were never loaded hand out addresses of their blocks and neither the
\* first nor the last of one: what the test of small subnets says is true as far as it
\* looks.
THEOREM UnloadedSubnetsKeepTheirBlock == Spec => [](~reloads => HeldInBlock)
<1>1. Inv => (~reloads => HeldInBlock)
  BY DEF Inv, HeldInRoom, HeldInBlock
<1> QED BY <1>1, UseInvariant, PTL

\* However often subnets are loaded, their addresses lie in the whole bytes of the
\* bitmap that they were made with.
THEOREM AddressesStayInRoom == Spec => []HeldInRoom
<1>1. Inv => HeldInRoom
  BY DEF Inv
<1> QED BY <1>1, UseInvariant, PTL

=============================================================================
