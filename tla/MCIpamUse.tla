----------------------------- MODULE MCIpamUse -----------------------------
(* Instances of IpamUse for TLC. *)
EXTENDS IpamUse, TLC

CONSTANTS plain, padded

Plain(i, s) == [ip |-> i, size |-> s, text |-> plain]

\* The last block of four, spelt in two ways and written with another of its
\* addresses as well; a /31, a /32 and the /0.
MCCidrs == {Plain(12, 4), [Plain(12, 4) EXCEPT !.text = padded], Plain(13, 4),
            Plain(2, 2), Plain(15, 1), Plain(0, 16)}

\* The /30 of the test of small subnets.
OneSmallSubnet == {Plain(8, 4)}

Symmetry == Permutations(Owners)
=============================================================================
