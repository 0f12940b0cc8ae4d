----------------------------- MODULE IpamProofs -----------------------------
(***************************************************************************)
(* What the operations of the address manager do, for address families,    *)
(* blocks and bitmaps of every size.                                       *)
(***************************************************************************)
EXTENDS Ipam, TLAPS

\* A bitmap that is still of its kind when its length is rounded up.
Reloadable(b) == RoundUp(b.len) <= Modulus + ByteBits

-----------------------------------------------------------------------------
(* Numbers.                                                                *)

LEMMA DivMod ==
    ASSUME NEW a \in Int, NEW m \in Nat \ {0}
    PROVE  /\ a \div m \in Int /\ a % m \in 0 .. (m - 1)
           /\ a = m * (a \div m) + (a % m)
BY SMT

\* A multiple that is above another one is at least one step above it.
LEMMA NextMultiple ==
    ASSUME NEW m \in Nat \ {0}, NEW p \in Int, NEW q \in Int, m * p < m * q
    PROVE  m * p + m <= m * q
<1>1. p < q
  BY Z3
<1>2. p + 1 <= q
  BY <1>1
<1>3. m * (p + 1) <= m * q
  BY <1>2, Z3
<1>4. m * (p + 1) = m * p + m
  BY Z3
<1> QED BY <1>3, <1>4

\* A number below the modulus is its own remainder, and one below twice the modulus
\* is at most once above it.
LEMMA SmallMod ==
    ASSUME NEW m \in Nat \ {0}, NEW a \in Int
    PROVE  /\ a \in 0 .. (m - 1) => a % m = a
           /\ a \in m .. (2 * m - 1) => a % m = a - m
           /\ a \in (-m) .. (-1) => a % m = a + m
<1>1. /\ a \div m \in Int /\ a % m \in 0 .. (m - 1)
      /\ a = m * (a \div m) + (a % m)
  BY DivMod
<1> DEFINE q == a \div m
           r == a % m
<1>2. q \in Int /\ r \in 0 .. (m - 1) /\ a = m * q + r
  BY <1>1
<1> HIDE DEF q, r
<1>3. ASSUME NEW k \in Int, NEW s \in 0 .. (m - 1), a = m * k + s PROVE r = s
  <2>1. CASE m * q < m * k
    <3>1. m * q + m <= m * k
      BY <1>2, <2>1, NextMultiple
    <3> QED BY <1>2, <1>3, <3>1
  <2>2. CASE m * k < m * q
    <3>1. m * k + m <= m * q
      BY <1>2, <2>2, NextMultiple
    <3> QED BY <1>2, <1>3, <3>1
  <2>3. CASE m * k = m * q
    BY <1>2, <1>3, <2>3
  <2> QED BY <1>2, <2>1, <2>2, <2>3
<1>4. m * 0 = 0 /\ m * 1 = m /\ m * (-1) = -m
  BY SMT
<1>5. a \in 0 .. (m - 1) => r = a
  BY <1>3, <1>4
<1>6. a \in m .. (2 * m - 1) => r = a - m
  <2> SUFFICES ASSUME a \in m .. (2 * m - 1) PROVE r = a - m
    OBVIOUS
  <2>1. a - m \in 0 .. (m - 1) /\ a = m * 1 + (a - m)
    BY <1>4
  <2> QED BY <1>3, <2>1
<1>7. a \in (-m) .. (-1) => r = a + m
  <2> SUFFICES ASSUME a \in (-m) .. (-1) PROVE r = a + m
    OBVIOUS
  <2>1. a + m \in 0 .. (m - 1) /\ a = m * (-1) + (a + m)
    BY <1>4
  <2> QED BY <1>3, <2>1
<1> QED BY <1>5, <1>6, <1>7 DEF r

\* The block that an address is in lies among the addresses.
LEMMA BlockFits ==
    ASSUME IpamAssumption, NEW a \in Addresses, NEW n \in Sizes
    PROVE  /\ a % n \in 0 .. (n - 1) /\ a - (a % n) \in Nat
           /\ a - (a % n) + n <= Modulus
<1>1. /\ n \in Nat \ {0} /\ Modulus \in Nat \ {0} /\ Modulus % n = 0 /\ a \in Nat
      /\ a < Modulus
  BY DEF IpamAssumption, Addresses
<1> DEFINE q == a \div n
           m == Modulus \div n
           r == a % n
<1>2. r \in 0 .. (n - 1) /\ a = n * q + r /\ q \in Int
  <2>1. a \in Int
    BY <1>1
  <2> QED BY <1>1, <2>1, DivMod
<1>6. Modulus = n * m /\ m \in Int
  <2>1. Modulus \in Int
    BY <1>1
  <2>2. /\ Modulus \div n \in Int
        /\ Modulus = n * (Modulus \div n) + (Modulus % n)
    BY <1>1, <2>1, DivMod
  <2> QED BY <1>1, <2>2
<1> HIDE DEF q, m, r
<1>3. n * q < n * m /\ a - r = n * q
  BY <1>1, <1>2, <1>6
<1>4. n * q + n <= n * m
  BY <1>1, <1>2, <1>3, <1>6, NextMultiple
<1>5. n * q >= 0
  <2>1. CASE q < 0
    <3>1. n * q + n <= 0
      <4>1. n * q < n * 0
        BY <1>1, <1>2, <2>1, Z3
      <4> QED BY <1>1, <1>2, <4>1, NextMultiple
    <3> QED BY <1>1, <1>2, <3>1
  <2>2. CASE q >= 0
    BY <1>1, <1>2, <2>2, Z3
  <2> QED BY <1>2, <2>1, <2>2
<1>7. r \in 0 .. (n - 1) /\ a - r \in Nat /\ a - r + n <= Modulus
  BY <1>1, <1>2, <1>3, <1>4, <1>5, <1>6
<1> QED BY <1>7 DEF r

LEMMA MaskFacts ==
    ASSUME IpamAssumption, NEW c \in Cidrs
    PROVE  /\ c.ip \in Addresses /\ c.size \in Sizes /\ c.size \in 1 .. Modulus
           /\ MaskSize(c) \in 1 .. Modulus /\ Modulus % MaskSize(c) = 0
           /\ c.size # Modulus => MaskSize(c) = c.size
<1>1. c.ip \in Addresses /\ c.size \in Sizes
  BY DEF Cidrs
<1>2. c.size \in 1 .. Modulus /\ Modulus % c.size = 0 /\ Modulus \in Nat \ {0}
  BY <1>1 DEF IpamAssumption
<1>3. Modulus % 1 = 0
  BY <1>2, DivMod
<1> QED BY <1>1, <1>2, <1>3 DEF MaskSize

\* The address of a block that ip_to_index and calculate_ip mask out.
LEMMA BaseFacts ==
    ASSUME IpamAssumption, NEW c \in Cidrs, NEW a \in Addresses
    PROVE  /\ Base(c, a) \in Nat /\ Base(c, a) <= a /\ a < Base(c, a) + MaskSize(c)
           /\ Base(c, a) + MaskSize(c) <= Modulus
           /\ ~CapacityOverflows(c) => Base(c, c.ip) = c.ip - (c.ip % c.size)
<1>1. MaskSize(c) \in 1 .. Modulus /\ Modulus % MaskSize(c) = 0
  BY MaskFacts
<1> DEFINE n == MaskSize(c)
<1>2. /\ a % n \in 0 .. (n - 1) /\ a - (a % n) \in Nat
      /\ a - (a % n) + n <= Modulus
  <2>1. CASE c.size # Modulus
    <3>1. n \in Sizes
      BY <2>1, MaskFacts
    <3> HIDE DEF n
    <3> QED BY <3>1, BlockFits
  <2>2. CASE c.size = Modulus
    <3>1. n = 1 /\ a \in 0 .. (Modulus - 1) /\ Modulus \in Nat \ {0}
      BY <2>2 DEF MaskSize, Addresses, IpamAssumption
    <3>2. a % 1 = 0
      BY <3>1, DivMod
    <3> HIDE DEF n
    <3> QED BY <3>1, <3>2
  <2> QED BY <2>1, <2>2
<1>3. ~CapacityOverflows(c) => Base(c, c.ip) = c.ip - (c.ip % c.size)
  BY MaskFacts DEF Base, CapacityOverflows
<1> HIDE DEF n
<1>4. Base(c, a) = a - (a % n) /\ a \in Nat
  BY DEF Base, n, Addresses, IpamAssumption
<1>5. n \in 1 .. Modulus
  BY <1>1 DEF n
<1>6. Base(c, a) \in Nat /\ Base(c, a) <= a /\ a < Base(c, a) + n /\ Base(c, a) + n <= Modulus
  BY <1>2, <1>4, <1>5
<1> QED BY <1>3, <1>6 DEF n

\* Inside of a block nothing overflows.
LEMMA IpOfFacts ==
    ASSUME IpamAssumption, NEW c \in Cidrs, NEW index \in Nat
    PROVE  /\ IpOf(c, index) \in Addresses
           /\ ~CapacityOverflows(c) /\ index < c.size =>
                /\ IpOf(c, index) = Base(c, c.ip) + index
                /\ \A checked \in BOOLEAN : ~IpPanics(c, index, checked)
<1>1. /\ Modulus \in Nat \ {0} /\ c.ip \in Addresses /\ Base(c, c.ip) \in Nat
      /\ Base(c, c.ip) + MaskSize(c) <= Modulus
  BY MaskFacts, BaseFacts DEF IpamAssumption
<1> DEFINE sum == Base(c, c.ip) + index
<1>2. sum \in Nat
  BY <1>1
<1>3. IpOf(c, index) = sum % Modulus
  BY DEF IpOf
<1> HIDE DEF sum
<1>4. IpOf(c, index) \in Addresses
  <2>1. sum \in Int
    BY <1>2
  <2>2. sum % Modulus \in 0 .. (Modulus - 1)
    BY <1>1, <2>1, DivMod
  <2> QED BY <1>3, <2>2 DEF Addresses
<1>5. ASSUME ~CapacityOverflows(c), index < c.size
      PROVE  sum < Modulus /\ IpOf(c, index) = sum
  <2>1. MaskSize(c) = c.size /\ c.size \in 1 .. Modulus
    BY <1>5, MaskFacts DEF CapacityOverflows
  <2>2. sum < Modulus
    BY <1>1, <1>5, <2>1 DEF sum
  <2>3. sum % Modulus = sum
    BY <1>1, <1>2, <2>2, SmallMod
  <2> QED BY <1>3, <2>2, <2>3
<1>6. ASSUME ~CapacityOverflows(c), index < c.size, NEW checked \in BOOLEAN
      PROVE  ~IpPanics(c, index, checked)
  BY <1>1, <1>2, <1>5, <1>6 DEF IpPanics, sum, CapacityOverflows
<1> QED BY <1>4, <1>5, <1>6 DEF sum

LEMMA RoundUpFacts ==
    ASSUME IpamAssumption, NEW n \in Nat
    PROVE  /\ RoundUp(n) \in Nat /\ n <= RoundUp(n) /\ RoundUp(n) <= n + ByteBits - 1
           /\ RoundUp(RoundUp(n)) = RoundUp(n)
<1>1. ByteBits \in Nat \ {0}
  BY DEF IpamAssumption
<1> DEFINE B == ByteBits
           q == (n + B - 1) \div B
           p == (B * q + B - 1) \div B
<1>2. /\ q \in Int /\ n + B - 1 = B * q + ((n + B - 1) % B)
      /\ (n + B - 1) % B \in 0 .. (B - 1)
  <2> DEFINE y == n + B - 1
  <2>1. y \in Int /\ B \in Nat \ {0}
    BY <1>1
  <2> HIDE DEF y
  <2>2. y \div B \in Int /\ y = B * (y \div B) + (y % B) /\ y % B \in 0 .. (B - 1)
    BY <2>1, DivMod
  <2> QED BY <2>2 DEF y
<1>3. RoundUp(n) = B * q
  BY <1>1, <1>2 DEF RoundUp
<1> DEFINE x == B * q
<1>4. x \in Int /\ n <= x /\ x <= n + B - 1
  BY <1>1, <1>2
<1> HIDE DEF q
<1>5. /\ p \in Int /\ x + B - 1 = B * p + ((x + B - 1) % B)
      /\ (x + B - 1) % B \in 0 .. (B - 1)
  <2> HIDE DEF x
  <2>1. x + B - 1 \in Int
    BY <1>1, <1>4
  <2> QED BY <1>1, <2>1, DivMod DEF x
<1>6. RoundUp(x) = B * p
  BY <1>1, <1>5 DEF RoundUp
<1> HIDE DEF p
<1>7. B * p = x
  <2>1. CASE B * p < x
    <3>1. B * p + B <= x
      BY <1>1, <1>2, <1>5, <2>1, NextMultiple
    <3> QED BY <1>1, <1>4, <1>5, <3>1
  <2>2. CASE x < B * p
    <3>1. x + B <= B * p
      BY <1>1, <1>2, <1>5, <2>2, NextMultiple
    <3> QED BY <1>1, <1>4, <1>5, <3>1
  <2>3. B * p \in Int
    BY <1>1, <1>5
  <2> QED BY <1>4, <2>1, <2>2, <2>3
<1> QED BY <1>1, <1>3, <1>4, <1>6, <1>7

LEMMA CapacityFacts ==
    ASSUME IpamAssumption, NEW c \in Cidrs
    PROVE  /\ Capacity(c) \in 0 .. (Modulus - 1)
           /\ c.size # 1 => Capacity(c) = c.size - 2
<1>1. c.size \in 1 .. Modulus /\ Modulus \in Nat \ {0}
  BY MaskFacts DEF IpamAssumption
<1>2. (c.size - 2) % Modulus \in 0 .. (Modulus - 1)
  <2>1. c.size - 2 \in Int
    BY <1>1
  <2> QED BY <1>1, <2>1, DivMod
<1>3. ASSUME c.size # 1 PROVE (c.size - 2) % Modulus = c.size - 2
  <2>1. c.size - 2 \in 0 .. (Modulus - 1)
    BY <1>1, <1>3
  <2> QED BY <1>1, <2>1, SmallMod
<1> QED BY <1>2, <1>3 DEF Capacity

-----------------------------------------------------------------------------
(* Operations.                                                             *)

\* A map of subnets of its kind, that is still of it when it was loaded again.
Maps(s) ==
    /\ DOMAIN s \subseteq Cidrs
    /\ \A c \in DOMAIN s : s[c] \in Bitmaps /\ Reloadable(s[c])

\* Only the bitmap of c may differ, and only in its bits.
SameButBits(s, t, c) ==
    /\ DOMAIN t = DOMAIN s
    /\ \A d \in DOMAIN s : d # c => t[d] = s[d]
    /\ c \in DOMAIN s => t[c].len = s[c].len

LEMMA NewBitmap ==
    ASSUME IpamAssumption, NEW c \in Cidrs
    PROVE  /\ [len |-> Capacity(c), taken |-> {}] \in Bitmaps
           /\ Reloadable([len |-> Capacity(c), taken |-> {}])
<1>1. Capacity(c) \in 0 .. (Modulus - 1) /\ Modulus \in Nat \ {0} /\ ByteBits \in Nat \ {0}
  BY CapacityFacts DEF IpamAssumption
<1>2. Capacity(c) \in Nat
  BY <1>1
<1>3. RoundUp(Capacity(c)) <= Capacity(c) + ByteBits - 1 /\ RoundUp(Capacity(c)) \in Nat
  BY <1>2, RoundUpFacts
<1> HIDE DEF Capacity
<1> QED BY <1>1, <1>3 DEF Bitmaps, Reloadable

\* add_subnet enters the subnet with no bit taken, or changes nothing.
LEMMA AddFacts ==
    ASSUME IpamAssumption, NEW s, Maps(s), NEW c \in Cidrs, NEW checked \in BOOLEAN,
           NEW out, out = AddSubnet(s, c, checked)
    PROVE  \/ /\ out.st = "ok" /\ c \notin DOMAIN s
              /\ ~(checked /\ CapacityOverflows(c))
              /\ DOMAIN out.subnets = DOMAIN s \cup {c}
              /\ \A d \in DOMAIN s : out.subnets[d] = s[d]
              /\ out.subnets[c] = [len |-> Capacity(c), taken |-> {}]
              /\ Maps(out.subnets)
           \/ out.st \in {"err", "panic"} /\ out.subnets = s /\ out.ip = NONE
<1>1. CASE c \in DOMAIN s
  BY <1>1 DEF AddSubnet, Failed, Outcome
<1>2. CASE c \notin DOMAIN s /\ checked /\ CapacityOverflows(c)
  BY <1>2 DEF AddSubnet, Panicked, Outcome
<1>3. CASE c \notin DOMAIN s /\ ~(checked /\ CapacityOverflows(c))
  <2> DEFINE b == [len |-> Capacity(c), taken |-> {}]
             t == Put(s, c, b)
  <2>1. out.st = "ok" /\ out.subnets = t
    BY <1>3 DEF AddSubnet, Outcome
  <2>2. b \in Bitmaps /\ Reloadable(b)
    BY NewBitmap
  <2> HIDE DEF b
  <2>3. t = [x \in DOMAIN s \cup {c} |-> IF x = c THEN b ELSE s[x]]
    BY DEF Put
  <2> HIDE DEF t
  <2>4. /\ DOMAIN t = DOMAIN s \cup {c} /\ \A d \in DOMAIN s : t[d] = s[d]
        /\ t[c] = b
    BY <1>3, <2>3
  <2>5. Maps(t)
    BY <2>2, <2>4 DEF Maps
  <2> QED BY <1>3, <2>1, <2>4, <2>5 DEF b
<1> QED BY <1>1, <1>2, <1>3

\* Either way of allocating sets one free bit, and says its address or panics, or
\* changes nothing.
LEMMA TakeFacts ==
    ASSUME IpamAssumption, NEW s, Maps(s), NEW c \in DOMAIN s, NEW checked \in BOOLEAN,
           NEW pos \in Nat, pos < s[c].len,
           NEW out, out = Take(s, c, pos, checked)
    PROVE  /\ SameButBits(s, out.subnets, c) /\ Maps(out.subnets)
           /\ out.subnets[c].taken = s[c].taken \cup {pos}
           /\ \/ /\ out.st = "ok" /\ out.ip = IpOf(c, pos + 1) /\ out.ip \in Addresses
                 /\ ~IpPanics(c, pos + 1, checked)
              \/ out.st = "panic" /\ out.ip = NONE /\ IpPanics(c, pos + 1, checked)
<1>1. /\ c \in Cidrs /\ s[c] \in Bitmaps /\ Reloadable(s[c])
      /\ \A d \in DOMAIN s : s[d] \in Bitmaps /\ Reloadable(s[d])
  BY DEF Maps
<1> DEFINE b == [s[c] EXCEPT !.taken = s[c].taken \cup {pos}]
           t == [s EXCEPT ![c] = b]
<1>2. /\ b \in Bitmaps /\ b.len = s[c].len /\ b.taken = s[c].taken \cup {pos}
  BY <1>1 DEF Bitmaps, IpamAssumption
<1>3. Reloadable(b)
  BY <1>1, <1>2 DEF Reloadable
<1>4. out.subnets = t
  BY DEF Take, Panicked, Outcome
<1> HIDE DEF b
<1>5. /\ DOMAIN t = DOMAIN s /\ t[c] = b /\ \A d \in DOMAIN s : d # c => t[d] = s[d]
  OBVIOUS
<1> HIDE DEF t
<1>6. SameButBits(s, t, c) /\ Maps(t) /\ t[c].taken = s[c].taken \cup {pos}
  BY <1>1, <1>2, <1>3, <1>5 DEF SameButBits, Maps
<1>7. IpOf(c, pos + 1) \in Addresses
  <2>1. pos + 1 \in Nat
    OBVIOUS
  <2> QED BY <1>1, <2>1, IpOfFacts
<1>8. \/ /\ out.st = "ok" /\ out.ip = IpOf(c, pos + 1)
         /\ ~IpPanics(c, pos + 1, checked)
      \/ out.st = "panic" /\ out.ip = NONE /\ IpPanics(c, pos + 1, checked)
  BY DEF Take, Panicked, Outcome
<1> QED BY <1>4, <1>6, <1>7, <1>8

\* release_ip clears one bit, or changes nothing.
LEMMA ReleaseFacts ==
    ASSUME IpamAssumption, NEW s, Maps(s), NEW c \in Cidrs, NEW ip, NEW checked \in BOOLEAN,
           NEW out, out = ReleaseIp(s, c, ip, checked)
    PROVE  /\ SameButBits(s, out.subnets, c) /\ Maps(out.subnets)
           /\ \/ out.st # "ok" /\ out.subnets = s
              \/ /\ out.st = "ok" /\ c \in DOMAIN s /\ Base(c, c.ip) = Base(c, ip)
                 /\ IndexOf(c, ip) \in s[c].taken
                 /\ out.subnets[c].taken = s[c].taken \ {IndexOf(c, ip)}
<1>1. \A d \in DOMAIN s : s[d] \in Bitmaps /\ Reloadable(s[d])
  BY DEF Maps
<1>2. CASE \/ IndexPanics(c, ip, checked)
           \/ Base(c, c.ip) # Base(c, ip)
           \/ c \notin DOMAIN s
           \/ IndexOf(c, ip) \notin Positions(s[c])
           \/ IndexOf(c, ip) \notin s[c].taken
  <2>1. out.st # "ok" /\ out.subnets = s
    BY <1>2 DEF ReleaseIp, Failed, Panicked, Outcome
  <2> QED BY <2>1 DEF SameButBits
<1>3. CASE ~(\/ IndexPanics(c, ip, checked)
             \/ Base(c, c.ip) # Base(c, ip)
             \/ c \notin DOMAIN s
             \/ IndexOf(c, ip) \notin Positions(s[c])
             \/ IndexOf(c, ip) \notin s[c].taken)
  <2> DEFINE i == IndexOf(c, ip)
             b == [s[c] EXCEPT !.taken = s[c].taken \ {i}]
             t == [s EXCEPT ![c] = b]
  <2>1. out.st = "ok" /\ out.subnets = t
    BY <1>3 DEF ReleaseIp, Outcome
  <2>2. c \in DOMAIN s /\ Base(c, c.ip) = Base(c, ip) /\ i \in s[c].taken
    BY <1>3
  <2> HIDE DEF i
  <2>3. b \in Bitmaps /\ b.len = s[c].len /\ b.taken = s[c].taken \ {i}
    BY <1>1, <2>2 DEF Bitmaps
  <2>4. Reloadable(b)
    BY <1>1, <2>2, <2>3 DEF Reloadable
  <2> HIDE DEF b
  <2>5. /\ DOMAIN t = DOMAIN s /\ t[c] = b /\ \A d \in DOMAIN s : d # c => t[d] = s[d]
    BY <2>2
  <2> HIDE DEF t
  <2>6. SameButBits(s, t, c) /\ Maps(t) /\ t[c].taken = s[c].taken \ {i}
    BY <1>1, <2>3, <2>4, <2>5 DEF SameButBits, Maps
  <2> QED BY <2>1, <2>2, <2>6 DEF i
<1> QED BY <1>2, <1>3

\* A reload keeps the bits.
LEMMA ReloadFacts ==
    ASSUME IpamAssumption, NEW s, Maps(s)
    PROVE  /\ DOMAIN Reloaded(s) = DOMAIN s /\ Maps(Reloaded(s))
           /\ \A c \in DOMAIN s : /\ Reloaded(s)[c].taken = s[c].taken
                                  /\ Reloaded(s)[c].len = RoundUp(s[c].len)
<1> DEFINE t == Reloaded(s)
<1>1. DOMAIN t = DOMAIN s
  BY DEF Reloaded
<1>2. ASSUME NEW c \in DOMAIN s
      PROVE  /\ t[c] \in Bitmaps /\ Reloadable(t[c])
             /\ t[c].taken = s[c].taken /\ t[c].len = RoundUp(s[c].len)
  <2>1. s[c] \in Bitmaps /\ Reloadable(s[c])
    BY DEF Maps
  <2>2. t[c] = [s[c] EXCEPT !.len = RoundUp(s[c].len)]
    BY DEF Reloaded
  <2>3. s[c].len \in Nat /\ ByteBits \in Nat /\ Modulus \in Nat
    BY <2>1 DEF Bitmaps, IpamAssumption
  <2>4. RoundUp(s[c].len) \in Nat /\ RoundUp(RoundUp(s[c].len)) = RoundUp(s[c].len)
    BY <2>3, RoundUpFacts
  <2>5. RoundUp(s[c].len) <= Modulus + ByteBits
    BY <2>1 DEF Reloadable
  <2>6. t[c] \in Bitmaps /\ t[c].taken = s[c].taken /\ t[c].len = RoundUp(s[c].len)
    BY <2>1, <2>2, <2>3, <2>4, <2>5 DEF Bitmaps
  <2> QED BY <2>4, <2>5, <2>6 DEF Reloadable
<1> QED BY <1>1, <1>2 DEF Maps

=============================================================================
