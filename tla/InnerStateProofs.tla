-------------------------- MODULE InnerStateProofs --------------------------
(***************************************************************************)
(* Lemmas about apply_operation, for the operations other than Batch: what *)
(* one operation preserves, and why replaying operations over a state that *)
(* has already seen them ends where it should.                             *)
(***************************************************************************)
EXTENDS InnerState, TLAPS

\* No name leads to a missing record or to the record of another name.
Tidy(st) ==
    \A n \in Names : st.by_name[n] # NONE =>
        st.by_id[st.by_name[n]] # NONE /\ st.by_id[st.by_name[n]].name = n

\* The states a and b are the same for the ids in I and the names in N.
Agree(a, b, I, N) ==
    /\ \A i \in I : a.by_id[i] = b.by_id[i]
    /\ \A n \in N : a.by_name[n] = b.by_name[n]

\* The id, the name that an operation inserts.
NewId(op) == IF op.kind = "Create" THEN {op.id} ELSE {}
NewName(op) == IF op.kind = "Create" THEN {op.name} ELSE {}

\* The three shapes of an operation that is not a Batch.
LEMMA BasicCases ==
  ASSUME NEW op \in BasicOps
  PROVE  /\ op.kind # "Batch"
         /\ op.id \in Ids
         /\ op.kind = "Create" => op.name \in Names
         /\ op.kind \notin {"Create", "Delete"} => op \in TouchOps
  BY DEF BasicOps, CreateOps, DeleteOps, TouchOps, StatusOps

\* ContainerMeta::new makes a record.
LEMMA NewMetaTyped == \A n \in Names : NewMeta(n) \in Metas
  BY DEF NewMeta, Metas, States, Statuses

\* An edit of a record leaves a record, under the same name.
LEMMA TouchedTyped ==
  ASSUME NEW m \in Metas, NEW op \in TouchOps
  PROVE  Touched(m, op) \in Metas /\ Touched(m, op).name = m.name
  <1>1. CASE op.kind = "UpdateStatus"
    BY <1>1 DEF Touched, TouchOps, StatusOps, Metas, States
  <1>2. CASE op.kind = "UpdateState"
    BY <1>2 DEF Touched, TouchOps, StatusOps, Metas, States
  <1>3. CASE op.kind = "Configure"
    BY <1>3 DEF Touched, TouchOps, StatusOps, Metas, States
  <1>4. CASE op.kind = "AddMount"
    BY <1>4 DEF Touched, TouchOps, StatusOps, Metas, States
  <1>5. CASE op.kind = "RemoveMount"
    BY <1>5 DEF Touched, TouchOps, StatusOps, Metas, States
  <1> QED
    BY <1>1, <1>2, <1>3, <1>4, <1>5 DEF TouchOps, StatusOps

\* apply_operation turns a registry into a registry.
LEMMA ApplyOpTyped ==
  ASSUME NEW st \in InnerStates, NEW op \in BasicOps
  PROVE  ApplyOp(st, op) \in InnerStates
  <1>0. op.kind # "Batch" /\ op.id \in Ids
    BY BasicCases
  <1>1. CASE op.kind = "Create"
    <2>1. op.name \in Names /\ NewMeta(op.name) \in Metas
      BY <1>1, BasicCases, NewMetaTyped
    <2> QED
      BY <1>0, <1>1, <2>1 DEF ApplyOp, ApplyBasic, Create, InnerStates
  <1>2. CASE op.kind = "Delete"
    <2>1. st.by_id[op.id] # NONE => st.by_id[op.id].name \in Names
      BY <1>0 DEF InnerStates, Metas
    <2> QED
      BY <1>0, <1>2, <2>1 DEF ApplyOp, ApplyBasic, Delete, InnerStates
  <1>3. CASE op.kind \notin {"Create", "Delete"}
    <2>1. st.by_id[op.id] # NONE => Touched(st.by_id[op.id], op) \in Metas
      BY <1>0, <1>3, BasicCases, TouchedTyped DEF InnerStates
    <2> QED
      BY <1>0, <1>3, <2>1 DEF ApplyOp, ApplyBasic, Touch, InnerStates
  <1> QED
    BY <1>1, <1>2, <1>3

\* The entries of the two maps after a Create,
LEMMA CreateEntries ==
  ASSUME NEW st \in InnerStates, NEW op \in BasicOps, op.kind = "Create",
         NEW s, s = ApplyOp(st, op)
  PROVE  /\ op.name \in Names /\ NewMeta(op.name) \in Metas
         /\ NewMeta(op.name).name = op.name
         /\ \A i \in Ids : s.by_id[i] =
              IF i = op.id THEN NewMeta(op.name) ELSE st.by_id[i]
         /\ \A n \in Names : s.by_name[n] =
              IF n = op.name THEN op.id ELSE st.by_name[n]
  <1>1. s = Create(st, op)
    BY DEF ApplyOp, ApplyBasic
  <1>2. op.id \in Ids /\ op.name \in Names /\ NewMeta(op.name) \in Metas
    BY BasicCases, NewMetaTyped
  <1>3. NewMeta(op.name).name = op.name
    BY DEF NewMeta
  <1> QED
    BY <1>1, <1>2, <1>3 DEF Create, InnerStates

\* after a Delete of a record that is there,
LEMMA DeleteEntries ==
  ASSUME NEW st \in InnerStates, NEW op \in BasicOps, op.kind = "Delete",
         st.by_id[op.id] # NONE, NEW s, s = ApplyOp(st, op)
  PROVE  /\ st.by_id[op.id].name \in Names
         /\ \A i \in Ids : s.by_id[i] = IF i = op.id THEN NONE ELSE st.by_id[i]
         /\ \A n \in Names : s.by_name[n] =
              IF n = st.by_id[op.id].name THEN NONE ELSE st.by_name[n]
  <1>1. s = Delete(st, op)
    BY DEF ApplyOp, ApplyBasic
  <1>2. op.id \in Ids /\ st.by_id[op.id].name \in Names
    BY BasicCases DEF InnerStates, Metas
  <1> QED
    BY <1>1, <1>2 DEF Delete, InnerStates

\* after an edit of a record that is there,
LEMMA TouchEntries ==
  ASSUME NEW st \in InnerStates, NEW op \in BasicOps,
         op.kind \notin {"Create", "Delete"},
         st.by_id[op.id] # NONE, NEW s, s = ApplyOp(st, op)
  PROVE  /\ Touched(st.by_id[op.id], op) \in Metas
         /\ Touched(st.by_id[op.id], op).name = st.by_id[op.id].name
         /\ \A i \in Ids : s.by_id[i] =
              IF i = op.id THEN Touched(st.by_id[op.id], op) ELSE st.by_id[i]
         /\ s.by_name = st.by_name
  <1>0. op.id \in Ids /\ op \in TouchOps
    BY BasicCases
  <1>1. s = Touch(st, op)
    BY <1>0, BasicCases DEF ApplyOp, ApplyBasic
  <1>2. st.by_id[op.id] \in Metas
    BY <1>0 DEF InnerStates
  <1> QED
    BY <1>0, <1>1, <1>2, TouchedTyped DEF Touch, InnerStates

\* and after either of a record that is not: what they were.
LEMMA NoEntries ==
  ASSUME NEW st \in InnerStates, NEW op \in BasicOps, op.kind # "Create",
         st.by_id[op.id] = NONE
  PROVE  ApplyOp(st, op) = st
  BY BasicCases DEF ApplyOp, ApplyBasic, Delete, Touch

\* Nothing gets into the maps but by a Create.
LEMMA ApplyOpAddsNothing ==
  ASSUME NEW st \in InnerStates, NEW op \in BasicOps,
         NEW s, s = ApplyOp(st, op)
  PROVE  /\ \A i \in Ids : s.by_id[i] # NONE => st.by_id[i] # NONE \/ i \in NewId(op)
         /\ \A n \in Names : s.by_name[n] # NONE =>
                               st.by_name[n] # NONE \/ n \in NewName(op)
  <1>1. CASE op.kind = "Create"
    BY <1>1, CreateEntries DEF NewId, NewName
  <1>2. CASE op.kind # "Create" /\ st.by_id[op.id] = NONE
    BY <1>2, NoEntries
  <1>3. CASE op.kind = "Delete" /\ st.by_id[op.id] # NONE
    BY <1>3, DeleteEntries
  <1>4. CASE op.kind \notin {"Create", "Delete"} /\ st.by_id[op.id] # NONE
    BY <1>4, TouchEntries
  <1> QED
    BY <1>1, <1>2, <1>3, <1>4

\* A registry without dangling names keeps none, if a Create brings a new id.
LEMMA ApplyOpTidy ==
  ASSUME NEW st \in InnerStates, NEW op \in BasicOps, Tidy(st),
         op.kind = "Create" => st.by_id[op.id] = NONE
  PROVE  Tidy(ApplyOp(st, op))
  <1> DEFINE s == ApplyOp(st, op)
  <1>0. op.id \in Ids /\ st.by_name \in [Names -> Ids \cup {NONE}]
    BY BasicCases DEF InnerStates
  <1>n. SUFFICES ASSUME NEW n \in Names, s.by_name[n] # NONE
                 PROVE  s.by_id[s.by_name[n]] # NONE /\ s.by_id[s.by_name[n]].name = n
    BY DEF Tidy
  <1>1. CASE op.kind = "Create"
    <2>1. CASE n = op.name
      BY <1>0, <1>1, <2>1, CreateEntries, NoneIsNoValue
    <2>2. CASE n # op.name
      <3>1. s.by_name[n] = st.by_name[n] /\ st.by_name[n] \in Ids
        BY <1>0, <1>1, <1>n, <2>2, CreateEntries
      <3>2. st.by_id[st.by_name[n]] # NONE /\ st.by_id[st.by_name[n]].name = n
        BY <1>n, <3>1 DEF Tidy
      <3>3. s.by_id[st.by_name[n]] = st.by_id[st.by_name[n]]
        BY <1>1, <3>1, <3>2, CreateEntries
      <3> QED
        BY <3>1, <3>2, <3>3
    <2> QED
      BY <2>1, <2>2
  <1>2. CASE op.kind # "Create" /\ st.by_id[op.id] = NONE
    BY <1>2, <1>n, NoEntries DEF Tidy
  <1>3. CASE op.kind = "Delete" /\ st.by_id[op.id] # NONE
    <2>1. s.by_name[n] = st.by_name[n] /\ st.by_name[n] \in Ids
          /\ n # st.by_id[op.id].name
      BY <1>0, <1>3, <1>n, DeleteEntries
    <2>2. st.by_id[st.by_name[n]] # NONE /\ st.by_id[st.by_name[n]].name = n
      BY <1>n, <2>1 DEF Tidy
    <2>3. s.by_id[st.by_name[n]] = st.by_id[st.by_name[n]]
      BY <1>3, <2>1, <2>2, DeleteEntries
    <2> QED
      BY <2>1, <2>2, <2>3
  <1>4. CASE op.kind \notin {"Create", "Delete"} /\ st.by_id[op.id] # NONE
    <2>1. s.by_name[n] = st.by_name[n] /\ st.by_name[n] \in Ids
      BY <1>0, <1>4, <1>n, TouchEntries
    <2>2. st.by_id[st.by_name[n]] # NONE /\ st.by_id[st.by_name[n]].name = n
      BY <1>n, <2>1 DEF Tidy
    <2> QED
      BY <1>4, <2>1, <2>2, TouchEntries, NoneIsNoValue
  <1> QED
    BY <1>1, <1>2, <1>3, <1>4

\* Two registries that agree on the id an operation is about, and on some
\* ids and names, agree on them after it, and on what it inserts.
LEMMA ApplyOpAgrees ==
  ASSUME NEW a \in InnerStates, NEW b \in InnerStates,
         NEW I \in SUBSET Ids, NEW N \in SUBSET Names,
         NEW op \in BasicOps,
         Agree(a, b, I, N),
         op.kind # "Create" => op.id \in I
  PROVE  Agree(ApplyOp(a, op), ApplyOp(b, op), I \cup NewId(op), N \cup NewName(op))
  <1>0. op.id \in Ids
    BY BasicCases
  <1>1. CASE op.kind = "Create"
    BY <1>0, <1>1, CreateEntries DEF Agree, NewId, NewName
  <1>2. CASE op.kind # "Create"
    <2>1. a.by_id[op.id] = b.by_id[op.id]
      BY <1>2 DEF Agree
    <2>2. I \cup NewId(op) = I /\ N \cup NewName(op) = N
      BY <1>2 DEF NewId, NewName
    <2>3. CASE a.by_id[op.id] = NONE
      BY <1>2, <2>1, <2>2, <2>3, NoEntries
    <2>4. CASE a.by_id[op.id] # NONE /\ op.kind = "Delete"
      BY <1>2, <2>1, <2>2, <2>4, DeleteEntries DEF Agree
    <2>5. CASE a.by_id[op.id] # NONE /\ op.kind # "Delete"
      BY <1>2, <2>1, <2>2, <2>5, TouchEntries DEF Agree
    <2> QED
      BY <2>3, <2>4, <2>5
  <1> QED
    BY <1>1, <1>2

\* Registries that agree on every id and every name are one.
LEMMA AgreeEverywhere ==
  ASSUME NEW a \in InnerStates, NEW b \in InnerStates, Agree(a, b, Ids, Names)
  PROVE  a = b
  BY DEF InnerStates, Agree
=============================================================================
