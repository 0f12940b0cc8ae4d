--------------------------- MODULE MCMetaStorage ---------------------------
(* Instances of MetaStorage for TLC. *)
EXTENDS MetaStorage

CONSTANTS i1, i2, n1, d1, p1, k1

CreateOp(i, n) == [kind |-> "Create", id |-> i, name |-> n]
DeleteOp(i)    == [kind |-> "Delete", id |-> i]
StatusOp(i, s) == [kind |-> "UpdateStatus", id |-> i, status |-> s]
MountOp(i, d)  == [kind |-> "AddMount", id |-> i, destination |-> d]
BatchOp(ops)   == [kind |-> "Batch", ops |-> ops]

\* A container; another of its name that is created and edited at once, in each way
\* there is; a Delete, which takes the name from both; and a mount, the operation
\* whose effect is not the same done twice.
MCOps ==
    {CreateOp(i1, n1), DeleteOp(i1), MountOp(i1, d1),
     BatchOp(<<CreateOp(i2, n1),
               MountOp(i2, d1),
               [kind |-> "UpdateState", id |-> i2, state |-> [status |-> "Running", pid |-> p1]],
               [kind |-> "Configure", id |-> i2, field |-> "network", value |-> k1],
               [kind |-> "RemoveMount", id |-> i2, destination |-> d1]>>)}

\* Clients are alike.
ClientSymmetry == Permutations(Clients)

\* One container, for the runs that ask about the log or the lock alone.
OneContainer == {CreateOp(i1, n1), StatusOp(i1, "Running")}
=============================================================================
