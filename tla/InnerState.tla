---------------------------- MODULE InnerState ----------------------------
(***************************************************************************)
(* The in-memory state of the container registry (metas/meta.rs) and the   *)
(* operations that change it (metas/storage.rs, StorageOperation).         *)
(*                                                                         *)
(* Two maps: by_id, from an id to the record of a container, and by_name,  *)
(* from a name to an id.  Nothing in the code ties the two together but    *)
(* apply_operation itself.                                                 *)
(*                                                                         *)
(* A record keeps its name, its state, its configuration and its mounts.   *)
(* Timestamps, the image and the command never change a decision here and  *)
(* are left out; the mounts, a Vec with duplicates, are counted by         *)
(* destination.                                                            *)
(***************************************************************************)
EXTENDS Naturals, Sequences, SequencesExt

CONSTANTS
    Ids,          \* container ids (32 random hex digits)
    Names,        \* container names, chosen by the user
    Confs,        \* values of an environment, a label map, limits, a network
    Destinations, \* mount points inside a container
    Pids,         \* process ids a record may carry
    NONE          \* Option::None

Statuses == {"Creating", "Running", "Paused", "Restarting", "Removing",
             "Exited", "Dead"}

Fields == {"env", "labels", "resources", "network"}

States == [status : Statuses, pid : Pids \cup {NONE}]

Metas == [name   : Names,
          state  : States,
          conf   : [Fields -> Confs \cup {NONE}],
          mounts : [Destinations -> Nat]]

ASSUME NoneIsNoValue ==
    /\ NONE \notin Ids \cup Names \cup Confs \cup Destinations \cup Pids
    /\ NONE \notin Metas

InnerStates == [by_id   : [Ids -> Metas \cup {NONE}],
                by_name : [Names -> Ids \cup {NONE}]]

EmptyState == [by_id   |-> [i \in Ids |-> NONE],
               by_name |-> [n \in Names |-> NONE]]

\* ContainerMeta::new: every record starts as Creating, without a pid.
NewMeta(n) == [name   |-> n,
               state  |-> [status |-> "Creating", pid |-> NONE],
               conf   |-> [f \in Fields |-> NONE],
               mounts |-> [d \in Destinations |-> 0]]

(***************************************************************************)
(* StorageOperation.  "Configure" stands for UpdateEnvironment,            *)
(* UpdateLabels, UpdateResources, AttachNetwork and, with the value NONE,  *)
(* DetachNetwork: each overwrites one field of the record.                 *)
(***************************************************************************)
CreateOps == [kind : {"Create"}, id : Ids, name : Names]

DeleteOps == [kind : {"Delete"}, id : Ids]

StatusOps == [kind : {"UpdateStatus"}, id : Ids, status : Statuses]

TouchOps ==
    StatusOps
      \cup [kind : {"UpdateState"}, id : Ids, state : States]
      \cup [kind : {"Configure"}, id : Ids, field : Fields,
            value : Confs \cup {NONE}]
      \cup [kind : {"AddMount", "RemoveMount"}, id : Ids,
            destination : Destinations]

BasicOps == CreateOps \cup DeleteOps \cup TouchOps

Operations == BasicOps \cup [kind : {"Batch"}, ops : Seq(BasicOps)]

-----------------------------------------------------------------------------
\* The record m after an operation that edits it in place.
Touched(m, op) ==
    CASE op.kind = "UpdateStatus" -> [m EXCEPT !.state.status = op.status]
      [] op.kind = "UpdateState"  -> [m EXCEPT !.state = op.state]
      [] op.kind = "Configure"    -> [m EXCEPT !.conf[op.field] = op.value]
      [] op.kind = "AddMount"     -> [m EXCEPT !.mounts[op.destination] = @ + 1]
      [] op.kind = "RemoveMount"  -> [m EXCEPT !.mounts[op.destination] = 0]

\* Two inserts; whatever the two keys held before is gone.
Create(st, op) ==
    [by_id   |-> [st.by_id EXCEPT ![op.id] = NewMeta(op.name)],
     by_name |-> [st.by_name EXCEPT ![op.name] = op.id]]

\* Variant: a removal that forgets the second map.
DeleteById(st, op) == [st EXCEPT !.by_id[op.id] = NONE]

\* The name goes with the id, even when it now leads to another container.
Delete(st, op) ==
    IF st.by_id[op.id] = NONE
    THEN st
    ELSE [by_id   |-> [st.by_id EXCEPT ![op.id] = NONE],
          by_name |-> [st.by_name EXCEPT ![st.by_id[op.id].name] = NONE]]

\* get_mut: nothing happens to an id that is not there.
Touch(st, op) ==
    IF st.by_id[op.id] = NONE
    THEN st
    ELSE [st EXCEPT !.by_id[op.id] = Touched(@, op)]

ApplyBasic(st, op) ==
    CASE op.kind = "Create" -> Create(st, op)
      [] op.kind = "Delete" -> Delete(st, op)
      [] OTHER              -> Touch(st, op)

ApplyBatch(st, ops) == FoldLeft(ApplyBasic, st, ops)

\* InnerState::apply_operation
ApplyOp(st, op) ==
    IF op.kind = "Batch" THEN ApplyBatch(st, op.ops) ELSE ApplyBasic(st, op)

-----------------------------------------------------------------------------
\* by_name leads to no record: the unwrap in get_meta_by_name panics.
Dangles(st, n) ==
    st.by_name[n] # NONE /\ st.by_id[st.by_name[n]] = NONE

\* get_meta_by_name, where it does not panic
Lookup(st, n) ==
    IF st.by_name[n] = NONE THEN NONE ELSE st.by_id[st.by_name[n]]

\* The ids an observer of this state may have learnt.
PresentIds(st) == {i \in Ids : st.by_id[i] # NONE}
=============================================================================
