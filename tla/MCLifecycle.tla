---------------------------- MODULE MCLifecycle ----------------------------
(* Instances of Lifecycle for TLC. *)
EXTENDS Lifecycle

CONSTANTS n1

Request(k, a) == [kind |-> k, name |-> n1, attached |-> a]

\* Every kind of request that changes something, and exec, for one name.
AllCalls == {Request("run", FALSE), Request("start", FALSE), Request("start", TRUE),
             Request("stop", FALSE), Request("rm", FALSE), Request("exec", TRUE)}

\* Without the sessions that a client is attached to, and with what only reads.
DetachedCalls == {c \in AllCalls : ~c.attached}
                   \cup {Request(k, FALSE) : k \in {"ps", "logs", "commit"}}

\* Bound: four requests in which nothing fails, or three in which something does.
FourOrFaults == faults = 0 \/ \E h \in Handlers : pc[h] = "new"

\* Handlers are alike, and so are ids.
Symmetry == Permutations(Handlers) \cup Permutations(Ids)
=============================================================================
