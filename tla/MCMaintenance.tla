--------------------------- MODULE MCMaintenance ---------------------------
(* Instances of Maintenance for TLC. *)
EXTENDS Maintenance

CONSTANTS i1, i2, n1, d1

CreateOp(i, n) == [kind |-> "Create", id |-> i, name |-> n]
DeleteOp(i)    == [kind |-> "Delete", id |-> i]
StatusOp(i, s) == [kind |-> "UpdateStatus", id |-> i, status |-> s]

\* Two containers of one name, a Delete and a change.
MCOps == {CreateOp(i1, n1), CreateOp(i2, n1), DeleteOp(i1), StatusOp(i1, "Running")}
=============================================================================
