------------------------------ MODULE Registry ------------------------------
(***************************************************************************)
(* What StorageManager promises its callers: one registry that every       *)
(* operation changes at a single instant between its call and its answer,  *)
(* that a lookup reads at a single instant, and that a crash of the daemon *)
(* never takes back.  How it is kept (a queue, a worker, a lock, a log,    *)
(* snapshots) is MetaStorage's business, which implements this module.     *)
(***************************************************************************)
EXTENDS InnerState

CONSTANTS Clients, Ops

VARIABLES
    reg,     \* the registry
    client,  \* what each task that uses the storage is doing
    done     \* the clients whose pending operation has taken effect

vars == <<reg, client, done>>

Idle == [st |-> "idle", op |-> NONE, val |-> NONE]

Waiting(c) == client[c].st \in {"sending", "waiting"}

Init ==
    /\ reg = EmptyState
    /\ client = [c \in Clients |-> Idle]
    /\ done = {}

Invoke(c, op) ==
    /\ ~Waiting(c)
    /\ client' = [client EXCEPT ![c] = [st |-> "sending", op |-> op, val |-> NONE]]
    /\ UNCHANGED <<reg, done>>

\* The operation is on its way; the caller may no longer be held back.
Send(c) ==
    /\ client[c].st = "sending"
    /\ client' = [client EXCEPT ![c].st = "waiting"]
    /\ UNCHANGED <<reg, done>>

\* The operation takes effect, once.
Commit(c) ==
    /\ client[c].st = "waiting"
    /\ c \notin done
    /\ reg' = ApplyOp(reg, client[c].op)
    /\ done' = done \cup {c}
    /\ UNCHANGED client

\* Ok only after the operation took effect, an error only if it never will.
Answer(c) ==
    /\ client[c].st = "waiting"
    /\ client' = [client EXCEPT ![c] =
                    [Idle EXCEPT !.st = IF c \in done THEN "ok" ELSE "err"]]
    /\ done' = done \ {c}
    /\ UNCHANGED reg

\* A lookup by name sees every operation that has been answered.
Read(c, n) ==
    /\ ~Waiting(c)
    /\ client' = [client EXCEPT ![c] =
                    [st |-> "got", op |-> NONE, val |-> Lookup(reg, n)]]
    /\ UNCHANGED <<reg, done>>

\* The callers die with the daemon; the registry does not.
Crash ==
    /\ client' = [c \in Clients |-> Idle]
    /\ done' = {}
    /\ UNCHANGED reg

Next ==
    \/ \E c \in Clients : \/ \E op \in Ops : Invoke(c, op)
                          \/ Send(c)
                          \/ Commit(c)
                          \/ Answer(c)
                          \/ \E n \in Names : Read(c, n)
    \/ Crash

Spec == Init /\ [][Next]_vars
=============================================================================
