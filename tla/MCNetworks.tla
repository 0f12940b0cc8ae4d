---------------------------- MODULE MCNetworks ----------------------------
(* Instances of Networks for TLC. *)
EXTENDS Networks, TLC

CONSTANTS n1, n2, plain, padded

Plain(i, s) == [ip |-> i, size |-> s, text |-> plain]

Request(n, c) == [name |-> n, driver |-> "bridge", cidr |-> c]

\* A block of four under two names, the same block in another spelling and with
\* another of its addresses, the next block, a /31, a /32 and the /0; a driver that
\* is not there, for a subnet that is none.
MCRequests ==
    {Request(n1, Plain(8, 4)), Request(n2, Plain(8, 4)),
     Request(n2, [Plain(8, 4) EXCEPT !.text = padded]),
     Request(n2, Plain(9, 4)), Request(n1, Plain(12, 4)),
     Request(n2, Plain(2, 2)), Request(n2, Plain(11, 1)),
     Request(n1, Plain(0, 16)), [Request(n1, NoCidr) EXCEPT !.driver = "macvlan"]}

\* Handlers are alike.
HandlerSymmetry == Permutations(Handlers)
=============================================================================
