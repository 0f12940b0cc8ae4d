------------------------------ MODULE IpamUse ------------------------------
(***************************************************************************)
(* The address manager in use: owners ask for addresses of subnets and     *)
(* give them back, and the manager is saved and loaded now and then.       *)
(*                                                                         *)
(* These are its public operations, as the tests of network/ipam.rs call   *)
(* them; in the daemon create_network calls the first two and the last     *)
(* (module Networks), and nothing allocates addresses for containers yet.  *)
(***************************************************************************)
EXTENDS Ipam

CONSTANTS
    Owners,      \* who may hold an address
    UsedCidrs    \* the subnets that are asked for

ASSUME UseAssumption ==
    /\ UsedCidrs \subseteq Cidrs /\ NONE \notin UsedCidrs
    /\ Modulus % ByteBits = 0 /\ ByteBits < Modulus

VARIABLES
    subnets,     \* IPAM.subnets
    checked,     \* whether this build checks overflows
    held,        \* [o] the address that owner o holds, and of which subnet
    reloads,     \* whether the manager was loaded again after a subnet was added
    lost         \* bits set by an allocation that panicked

vars == <<subnets, checked, held, reloads, lost>>

Nothing == [cidr |-> NONE, ip |-> NONE]

Holders(c) == {o \in Owners : held[o].cidr = c}

Init ==
    /\ subnets = NoSubnets
    /\ checked \in BOOLEAN
    /\ held = [o \in Owners |-> Nothing]
    /\ reloads = FALSE
    /\ lost = {}

Add(c) ==
    /\ subnets' = AddSubnet(subnets, c, checked).subnets
    /\ UNCHANGED <<checked, held, reloads, lost>>

\* Either way of asking: an address, an error, or a panic that keeps the bit.
Receive(o, c, out) ==
    /\ held[o] = Nothing
    /\ subnets' = out.subnets
    /\ held' = IF out.st = "ok" THEN [held EXCEPT ![o] = [cidr |-> c, ip |-> out.ip]] ELSE held
    /\ lost' = IF out.st = "panic"
               THEN lost \cup {<<c, p>> : p \in Taken(subnets', c) \ Taken(subnets, c)}
               ELSE lost
    /\ UNCHANGED <<checked, reloads>>

Allocate(o, c) == Receive(o, c, AllocateIp(subnets, c, checked))

Gateway(o, c) == Receive(o, c, AllocateGateway(subnets, c, checked))

\* A refused release changes nothing, and the owner goes on holding.
Release(o) ==
    /\ held[o] # Nothing
    /\ LET out == ReleaseIp(subnets, held[o].cidr, held[o].ip, checked)
       IN  /\ subnets' = out.subnets
           /\ held' = IF out.st = "ok" THEN [held EXCEPT ![o] = Nothing] ELSE held
    /\ UNCHANGED <<checked, reloads, lost>>

\* Networks::save, then Networks::load by the next daemon.
SaveAndLoad ==
    /\ subnets # NoSubnets
    /\ subnets' = Reloaded(subnets)
    /\ reloads' = TRUE
    /\ UNCHANGED <<checked, held, lost>>

Next ==
    \/ \E c \in UsedCidrs : \/ Add(c)
                            \/ \E o \in Owners : Allocate(o, c) \/ Gateway(o, c)
    \/ \E o \in Owners : Release(o)
    \/ SaveAndLoad

Spec == Init /\ [][Next]_vars

-----------------------------------------------------------------------------
TypeOK ==
    /\ DOMAIN subnets \subseteq UsedCidrs
    /\ \A c \in DOMAIN subnets : subnets[c] \in Bitmaps
    /\ checked \in BOOLEAN /\ reloads \in BOOLEAN
    /\ held \in [Owners -> {Nothing} \cup [cidr : UsedCidrs, ip : Addresses]]
    /\ lost \subseteq UsedCidrs \X Nat

\* No two owners hold one address of a subnet that is written with the first
\* address of its block, in either build, through releases and reloads.  (Of
\* other subnets a release frees the bit of a different address.)
HeldOnce ==
    \A o, p \in Owners :
        /\ o # p /\ held[o] = held[p] /\ held[o] # Nothing
        => ~Canonical(held[o].cidr)

\* The bits taken in such a subnet are those of the addresses held, no more and
\* no less: a released address can be had again, and a refused or failed call
\* loses none, except where the calculation of an address panics.
TakenIsHeld ==
    \A c \in DOMAIN subnets : Canonical(c) =>
        Taken(subnets, c) = {(held[o].ip - c.ip - 1) % Modulus : o \in Holders(c)}
                              \cup {p \in 0 .. (Modulus + ByteBits) : <<c, p>> \in lost}

-----------------------------------------------------------------------------
(* What the code says of itself and does not do.                           *)

\* A subnet hands out addresses that lie in its block and are neither its first nor
\* its last, so that a /30 has two of them, unless it is /32 or /0.  The test of small
\* subnets says so; it never saves one.
HeldInBlock ==
    \A o \in Owners : held[o] # Nothing =>
        LET c == held[o].cidr
        IN  CapacityOverflows(c) \/ (held[o].ip - Min(Block(c))) % Modulus \in 1 .. (c.size - 2)
=============================================================================
