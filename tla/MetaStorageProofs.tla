------------------------- MODULE MetaStorageProofs -------------------------
(***************************************************************************)
(* Safety of MetaStorage, for any number of clients, ids, names and        *)
(* operations, any channel, any number of crashes and failed writes.       *)
(*                                                                         *)
(* Two hypotheses stand in the theorems: Ops \subseteq BasicOps, since no  *)
(* handler of the daemon asks for a Batch, and, where the log matters,     *)
(* ~ArchiveDir, since the program never creates the archive directory.     *)
(***************************************************************************)
EXTENDS MetaStorage, InnerStateProofs, SequenceTheorems

-----------------------------------------------------------------------------
(* Sequences.                                                              *)

LEMMA AppendFacts ==
  ASSUME NEW S, NEW s \in Seq(S), NEW x \in S
  PROVE  /\ Append(s, x) \in Seq(S)
         /\ Append(s, x) # <<>>
         /\ Len(Append(s, x)) = Len(s) + 1
         /\ Append(s, x)[Len(s) + 1] = x
         /\ \A k \in 1 .. Len(s) : Append(s, x)[k] = s[k]
  OBVIOUS

LEMMA RemoveAtFacts ==
  ASSUME NEW S, NEW s \in Seq(S), NEW k \in 1 .. Len(s)
  PROVE  /\ RemoveAt(s, k) \in Seq(S)
         /\ Len(RemoveAt(s, k)) = Len(s) - 1
  <1> DEFINE a == SubSeq(s, 1, k - 1)
             b == SubSeq(s, k + 1, Len(s))
  <1>0. Len(s) \in Nat
    BY LenProperties
  <1>1. a \in Seq(S) /\ Len(a) = k - 1
    BY <1>0, SubSeqProperties, ElementOfSeq
  <1>2. b \in Seq(S) /\ Len(b) = Len(s) - k
    BY <1>0, SubSeqProperties, ElementOfSeq
  <1>3. RemoveAt(s, k) = a \o b
    BY DEF RemoveAt
  <1> HIDE DEF a, b
  <1>4. a \o b \in Seq(S) /\ Len(a \o b) = Len(a) + Len(b)
    BY <1>1, <1>2, ConcatProperties
  <1> QED
    BY <1>0, <1>1, <1>2, <1>3, <1>4

LEMMA Last1Facts ==
  ASSUME NEW S, NEW s \in Seq(S), s # <<>>
  PROVE  Last1(s) \in S /\ Len(s) \in 1 .. Len(s)
  BY EmptySeq, ElementOfSeq DEF Last1

\* What a readable log yields are operations.
LEMMA LoggedOpTyped ==
  ASSUME wal \in Seq(Cells), Parses(wal), NEW k \in 1 .. (Len(wal) \div 2)
  PROVE  LoggedOp(k) \in Ops
  <1>1. Len(wal) \in Nat /\ 2 * k \in 1 .. Len(wal)
    BY LenProperties
  <1>2. wal[2 * k] # LEN
    BY <1>1 DEF Parses, Alternating
  <1> QED
    BY <1>1, <1>2, ElementOfSeq DEF LoggedOp, Cells

-----------------------------------------------------------------------------
(* Types, and who waits for what: every message in the channel or with the *)
(* worker comes from a different client, and that client waits for it.     *)

CallInv ==
    /\ \A c \in Clients : Waiting(c) => client[c].op \in Ops
    /\ worker.pc # "recv" => /\ worker.client \in Clients
                             /\ client[worker.client].st = "waiting"
    /\ \A k \in 1 .. Len(queue) :
         /\ client[queue[k]].st = "waiting"
         /\ worker.pc # "recv" => queue[k] # worker.client
    /\ \A k, l \in 1 .. Len(queue) : k # l => queue[k] # queue[l]

\* A daemon that is not up does nothing but recover.
StageInv ==
    /\ life # "up" => /\ worker.pc = "recv" /\ queue = <<>> /\ inflight = <<>>
                      /\ snapper = "sleep" /\ cleaner = "sleep"
                      /\ \A c \in Clients : ~Waiting(c)
    /\ life = "down" => ri = 0
    /\ life = "replaying" => Parses(wal) /\ ri <= Len(wal) \div 2
    /\ snapper = "rename" => tmp.st = "full"
    /\ tmp.st = "full" => tmp.val \in InnerStates
    /\ past # <<>>

TypeInv == TypeOK /\ CallInv /\ StageInv

LEMMA TypeInit ==
  ASSUME Init
  PROVE  TypeInv
  <1>1. EmptyState \in InnerStates
    BY DEF EmptyState, InnerStates
  <1>2. TypeOK
    BY <1>1 DEF Init, TypeOK, NoFile, NoRequest, Idle, ClientStates
  <1>3. CallInv
    BY DEF Init, CallInv, Waiting, Idle, NoRequest
  <1>4. StageInv
    BY DEF Init, StageInv, Waiting, Idle, NoRequest, NoFile
  <1> QED
    BY <1>2, <1>3, <1>4 DEF TypeInv

\* The operation the worker handles, and the state it leads to.
LEMMA RequestTyped ==
  ASSUME TypeInv, Ops \subseteq BasicOps, worker.pc # "recv"
  PROVE  /\ worker.client \in Clients /\ Waiting(worker.client)
         /\ Request \in Ops
         /\ ApplyOp(mem, Request) \in InnerStates
         /\ ApplyOp(Last1(past), Request) \in InnerStates
  <1>1. worker.client \in Clients /\ Waiting(worker.client)
    BY DEF TypeInv, CallInv, Waiting
  <1>2. Request \in Ops
    BY <1>1 DEF TypeInv, CallInv, Request
  <1>3. mem \in InnerStates /\ Last1(past) \in InnerStates
    BY Last1Facts DEF TypeInv, TypeOK, StageInv
  <1> QED
    BY <1>1, <1>2, <1>3, ApplyOpTyped

\* Every action keeps every variable in its type.
LEMMA TypeStep ==
  ASSUME TypeInv, Ops \subseteq BasicOps, [Next]_vars
  PROVE  TypeOK'
  <1> USE DEF TypeInv, TypeOK, disk, tasks, ghost
  <1>0. NONE \notin Clients \cup Ops
    BY ConfigAssumption
  <1>1. ASSUME NEW c \in Clients, NEW op \in Ops, Execute(c, op)
        PROVE  TypeOK'
    <2>1. Drawn(op) \subseteq Ids
      BY BasicCases DEF Drawn
    <2> QED
      BY <1>1, <2>1 DEF Execute, ClientStates
  <1>2. ASSUME NEW c \in Clients, Send(c)
        PROVE  TypeOK'
    <2>1. queue' \in Seq(Clients)
      BY <1>2, AppendFacts DEF Send
    <2>2. client' \in [Clients -> ClientStates]
      BY <1>2 DEF Send, ClientStates
    <2> QED
      BY <1>2, <2>1, <2>2 DEF Send
  <1>3. ASSUME NEW c \in Clients, NEW n \in Names, GetByName(c, n)
        PROVE  TypeOK'
    <2>1. Lookup(mem, n) \in Metas \cup {NONE}
      BY DEF Lookup, InnerStates
    <2> QED
      BY <1>3, <2>1 DEF GetByName, ClientStates, Idle
  <1>4. CASE Recv
    BY <1>4, HeadTailProperties DEF Recv
  <1>5. CASE LockInner
    BY <1>5 DEF LockInner
  <1>6. CASE WriteHeader
    BY <1>6, AppendFacts DEF WriteHeader, Cells
  <1>7. CASE WritePayload
    <2>1. Request \in Ops /\ ApplyOp(Last1(past), Request) \in InnerStates
      BY <1>7, RequestTyped DEF WritePayload
    <2>2. inflight' \in Seq(Ops) /\ hist' \in Seq(Ops)
      BY <1>7, <2>1, AppendFacts DEF WritePayload
    <2>3. past' \in Seq(InnerStates)
      BY <1>7, <2>1, AppendFacts DEF WritePayload
    <2> QED
      BY <1>7, <2>2, <2>3 DEF WritePayload
  <1>8. CASE ApplyOperation
    <2>1. worker.pc # "recv" /\ worker' \in [pc : {"recv"}, client : {NONE}]
      BY <1>8 DEF ApplyOperation, NoRequest
    <2>2. mem' \in InnerStates
      BY <1>8, <2>1, RequestTyped DEF ApplyOperation
    <2>3. client' \in [Clients -> ClientStates]
      BY <1>8 DEF ApplyOperation, ClientStates, Idle
    <2>4. seen' \in SUBSET Ids
      BY <1>8 DEF ApplyOperation, PresentIds
    <2> QED
      BY <1>8, <2>1, <2>2, <2>3, <2>4 DEF ApplyOperation
  <1>9. CASE WriteFails
    <2>1. wal' \in Seq(Cells)
      BY <1>9, AppendFacts DEF WriteFails, Cells
    <2>2. client' \in [Clients -> ClientStates]
      BY <1>9 DEF WriteFails, ClientStates, Idle
    <2>3. worker' \in [pc : {"recv"}, client : {NONE}] /\ faults' \in Nat
      BY <1>9 DEF WriteFails, NoRequest, Fault
    <2> QED
      BY <1>9, <2>1, <2>2, <2>3 DEF WriteFails
  <1>10. ASSUME NEW k \in 1 .. Len(inflight), PayloadLands(k) \/ PayloadLost(k)
         PROVE  TypeOK'
    <2>1. inflight[k] \in Cells
      BY ElementOfSeq DEF Cells
    <2>2. RemoveAt(inflight, k) \in Seq(Ops)
      BY RemoveAtFacts
    <2>3. CASE PayloadLands(k)
      <3>1. wal' \in Seq(Cells) /\ inflight' \in Seq(Ops)
        BY <2>1, <2>2, <2>3, AppendFacts DEF PayloadLands
      <3> QED
        BY <2>3, <3>1 DEF PayloadLands
    <2>4. CASE PayloadLost(k)
      BY <2>2, <2>4 DEF PayloadLost, Fault
    <2> QED
      BY <1>10, <2>3, <2>4
  <1>11. CASE SnapshotTick \/ SnapshotFails \/ CleanupFails \/ CleanupTick
    <2>1. CASE SnapshotTick
      BY <2>1 DEF SnapshotTick
    <2>2. CASE SnapshotFails
      BY <2>2 DEF SnapshotFails, Fault
    <2>3. CASE CleanupFails
      BY <2>3 DEF CleanupFails, Fault
    <2>4. CASE CleanupTick
      BY <2>4 DEF CleanupTick
    <2> QED
      BY <1>11, <2>1, <2>2, <2>3, <2>4
  <1>12. CASE CreateTmp \/ FillTmp
    BY <1>12 DEF CreateTmp, FillTmp, PartialFile
  <1>13. CASE RenameTmp
    BY <1>13, AppendFacts DEF RenameTmp, NoFile, StageInv
  <1>14. CASE PurgeSnapshot
    <2>1. snaps # <<>>
      BY <1>14, ConfigAssumption DEF PurgeSnapshot, Surplus
    <2> QED
      BY <1>14, <2>1, HeadTailProperties DEF PurgeSnapshot
  <1>15. CASE RotateWal
    <2>1. CASE ArchiveDir /\ wal # <<>>
      <3>1. wal' \in Seq(Cells) /\ inflight' \in Seq(Ops) /\ archives' \in Nat
        BY <1>15, <2>1, EmptySeq DEF RotateWal
      <3> QED
        BY <1>15, <3>1 DEF RotateWal
    <2>2. CASE ~(ArchiveDir /\ wal # <<>>)
      BY <1>15, <2>2 DEF RotateWal
    <2> QED
      BY <2>1, <2>2
  <1>16. CASE Crash
    BY <1>16, TypeInit DEF Crash, Fault, NoRequest, Idle, ClientStates,
                           EmptyState, InnerStates
  <1>17. CASE Restart
    <2>1. tmp.st # "partial" => Newest \in InnerStates
      <3>1. EmptyState \in InnerStates
        BY DEF EmptyState, InnerStates
      <3> QED
        BY <3>1, Last1Facts DEF Newest, StageInv
    <2>2. mem' \in InnerStates /\ life' \in {"replaying", "failed"}
      BY <1>17, <2>1 DEF Restart
    <2> QED
      BY <1>17, <2>2 DEF Restart
  <1>18. CASE ReplayOne
    <2>1. ri + 1 \in 1 .. (Len(wal) \div 2)
      <3>1. Len(wal) \in Nat
        BY LenProperties
      <3>2. ri # Len(wal) \div 2 /\ ri <= Len(wal) \div 2
        BY <1>18 DEF ReplayOne, Replayed, StageInv
      <3> HIDE DEF TypeInv, TypeOK
      <3>3. ri \in Nat
        BY DEF TypeInv, TypeOK
      <3> QED
        BY <3>1, <3>2, <3>3
    <2>2. LoggedOp(ri + 1) \in Ops
      BY <1>18, <2>1, LoggedOpTyped DEF ReplayOne, StageInv
    <2> QED
      BY <1>18, <2>2, ApplyOpTyped DEF ReplayOne
  <1>19. CASE Started
    BY <1>19 DEF Started, PresentIds
  <1>20. CASE UNCHANGED vars
    BY <1>20 DEF vars
  <1> QED
    BY <1>1, <1>2, <1>3, <1>4, <1>5, <1>6, <1>7, <1>8, <1>9, <1>10, <1>11,
       <1>12, <1>13, <1>14, <1>15, <1>16, <1>17, <1>18, <1>19, <1>20
       DEF Next, Serve, Snapshot, Cleanup

\* A message has one sender, and its sender waits, until it is answered.
LEMMA CallStep ==
  ASSUME TypeInv, [Next]_vars
  PROVE  CallInv'
  <1> USE DEF disk, tasks, ghost
  <1>t. /\ queue \in Seq(Clients) /\ client \in [Clients -> ClientStates]
        /\ CallInv
    BY DEF TypeInv, TypeOK
  <1>1. ASSUME NEW c \in Clients, NEW op \in Ops, Execute(c, op)
        PROVE  CallInv'
    BY <1>1, <1>t, ElementOfSeq DEF Execute, CallInv, Waiting
  <1>2. ASSUME NEW c \in Clients, Send(c)
        PROVE  CallInv'
    <2>1. /\ queue' = Append(queue, c) /\ Len(queue') = Len(queue) + 1
          /\ queue'[Len(queue) + 1] = c
          /\ \A k \in 1 .. Len(queue) : queue'[k] = queue[k] /\ queue[k] \in Clients
          /\ Len(queue) \in Nat
      BY <1>2, <1>t, AppendFacts, ElementOfSeq, LenProperties DEF Send
    <2>2. /\ client[c].st = "sending" /\ worker' = worker
          /\ \A d \in Clients : d # c => client'[d] = client[d]
          /\ client'[c].st = "waiting" /\ client'[c].op = client[c].op
      BY <1>2, <1>t DEF Send, ClientStates
    <2>3. \A k \in 1 .. Len(queue) : queue[k] # c
      BY <1>t, <2>2 DEF CallInv
    <2>4. \A d \in Clients : Waiting(d)' => client'[d].op \in Ops
      BY <1>t, <2>2 DEF CallInv, Waiting
    <2>5. worker.pc # "recv" => worker.client # c
      BY <1>t, <2>2 DEF CallInv
    <2>6. \A k \in 1 .. Len(queue') : queue'[k] = IF k <= Len(queue) THEN queue[k] ELSE c
      BY <2>1
    <2> QED
      BY <1>t, <2>1, <2>2, <2>3, <2>4, <2>5, <2>6 DEF CallInv
  <1>3. ASSUME NEW c \in Clients, NEW n \in Names, GetByName(c, n)
        PROVE  CallInv'
    BY <1>3, <1>t, ElementOfSeq DEF GetByName, CallInv, Waiting, Idle
  <1>4. CASE Recv
    <2>1. /\ worker.pc = "recv" /\ worker'.client = queue[1]
          /\ client' = client /\ queue # <<>>
          /\ Len(queue') = Len(queue) - 1
          /\ \A k \in 1 .. Len(queue') : queue'[k] = queue[k + 1]
          /\ Len(queue) \in Nat /\ Len(queue) >= 1
          /\ queue[1] \in Clients
      BY <1>4, <1>t, HeadTailProperties, EmptySeq, ElementOfSeq, LenProperties DEF Recv
    <2>2. \A k \in 1 .. Len(queue') : k + 1 \in 1 .. Len(queue) /\ k + 1 # 1
      BY <2>1
    <2>3. 1 \in 1 .. Len(queue) /\ client[queue[1]].st = "waiting"
      BY <1>t, <2>1 DEF CallInv
    <2>4. \A k \in 1 .. Len(queue') : /\ client'[queue'[k]].st = "waiting"
                                     /\ queue'[k] # worker'.client
      BY <1>t, <2>1, <2>2, <2>3 DEF CallInv
    <2>5. \A k, l \in 1 .. Len(queue') : k # l => queue'[k] # queue'[l]
      <3>1. \A k, l \in 1 .. Len(queue') : k # l => k + 1 # l + 1
        BY <2>1
      <3> QED
        BY <1>t, <2>1, <2>2, <3>1 DEF CallInv
    <2>6. \A c \in Clients : Waiting(c)' => client'[c].op \in Ops
      BY <1>t, <2>1 DEF CallInv, Waiting
    <2> QED
      BY <2>1, <2>3, <2>4, <2>5, <2>6 DEF CallInv
  <1>5. CASE LockInner \/ WriteHeader \/ WritePayload
    <2>1. worker \in [pc : {"recv", "lock", "header", "payload", "apply"},
                      client : Clients \cup {NONE}]
      BY DEF TypeInv, TypeOK
    <2>2. /\ worker'.client = worker.client /\ worker.pc # "recv"
          /\ queue' = queue /\ client' = client
      BY <1>5, <2>1 DEF LockInner, WriteHeader, WritePayload
    <2> QED
      BY <1>t, <2>2 DEF CallInv, Waiting
  <1>6. CASE ApplyOperation \/ WriteFails
    <2>1. /\ worker.pc # "recv" /\ worker'.pc = "recv" /\ queue' = queue
          /\ \A d \in Clients : d # worker.client => client'[d] = client[d]
          /\ worker.client \in Clients
          /\ client'[worker.client].st \in {"ok", "err"}
      BY <1>6, <1>t DEF ApplyOperation, WriteFails, NoRequest, Idle, CallInv
    <2>2. \A c \in Clients : Waiting(c)' => client'[c].op \in Ops
      BY <1>t, <2>1 DEF CallInv, Waiting
    <2>3. \A k \in 1 .. Len(queue) : queue[k] \in Clients
      BY <1>t, ElementOfSeq
    <2> QED
      BY <1>t, <2>1, <2>2, <2>3 DEF CallInv
  <1>7. CASE Crash
    BY <1>7 DEF Crash, CallInv, Waiting, Idle, NoRequest
  <1>8. CASE UNCHANGED <<worker, queue, client>>
    BY <1>8, <1>t DEF CallInv, Waiting
  <1>9. CASE \/ \E k \in 1 .. Len(inflight) : PayloadLands(k) \/ PayloadLost(k)
             \/ SnapshotTick \/ Snapshot \/ SnapshotFails \/ CleanupFails
             \/ CleanupTick \/ Cleanup
             \/ Restart \/ ReplayOne \/ Started \/ UNCHANGED vars
    BY <1>8, <1>9 DEF PayloadLands, PayloadLost, SnapshotTick, Snapshot, CreateTmp,
       FillTmp, RenameTmp, SnapshotFails, CleanupFails, CleanupTick, Cleanup, PurgeSnapshot,
       RotateWal, Restart, ReplayOne, Started, vars
  <1> QED
    BY <1>1, <1>2, <1>3, <1>4, <1>5, <1>6, <1>7, <1>9 DEF Next, Serve

\* Recovery runs alone, and over a log that does not change under it.
LEMMA StageStep ==
  ASSUME TypeInv, Ops \subseteq BasicOps, [Next]_vars
  PROVE  StageInv'
  <1> USE DEF disk, tasks, ghost
  <1>t. StageInv /\ TypeOK /\ TypeOK' /\ CallInv'
    BY TypeStep, CallStep DEF TypeInv
  <1>1. CASE \/ \E c \in Clients : \/ \E op \in Ops : Execute(c, op)
                                   \/ Send(c)
                                   \/ \E n \in Names : GetByName(c, n)
             \/ Recv \/ LockInner \/ WriteHeader \/ ApplyOperation
             \/ WriteFails
    BY <1>1, <1>t DEF Execute, Send, GetByName, Recv, LockInner, WriteHeader,
       ApplyOperation, WriteFails, StageInv
  <1>2. CASE WritePayload
    <2>1. past' # <<>>
      BY <1>2, <1>t, RequestTyped, AppendFacts DEF WritePayload, TypeOK
    <2> QED
      BY <1>2, <1>t, <2>1 DEF WritePayload, StageInv
  <1>3. ASSUME NEW k \in 1 .. Len(inflight), PayloadLands(k) \/ PayloadLost(k)
        PROVE  StageInv'
    <2>1. life = "up"
      BY <1>t DEF StageInv
    <2> QED
      BY <1>3, <1>t, <2>1 DEF PayloadLands, PayloadLost, StageInv
  <1>4. CASE SnapshotTick \/ Snapshot \/ SnapshotFails \/ CleanupFails \/ CleanupTick \/ Cleanup
    <2>1. CASE SnapshotTick \/ Snapshot \/ SnapshotFails
      <3>1. CASE SnapshotTick
        BY <3>1, <1>t DEF SnapshotTick, StageInv
      <3>2. CASE CreateTmp
        BY <3>2, <1>t DEF CreateTmp, StageInv, PartialFile
      <3>3. CASE FillTmp
        BY <3>3, <1>t DEF FillTmp, StageInv, TypeOK
      <3>4. CASE RenameTmp
        BY <3>4, <1>t DEF RenameTmp, StageInv, NoFile
      <3>5. CASE SnapshotFails
        BY <3>5, <1>t DEF SnapshotFails, StageInv
      <3> QED
        BY <2>1, <3>1, <3>2, <3>3, <3>4, <3>5 DEF Snapshot
    <2>2. CASE CleanupFails \/ CleanupTick \/ Cleanup
      <3>1. life = "up" /\ life' = "up"
        BY <2>2 DEF CleanupFails, CleanupTick, Cleanup, PurgeSnapshot, RotateWal
      <3>2. past' = past /\ snapper' = snapper /\ tmp' = tmp
        BY <2>2 DEF CleanupFails, CleanupTick, Cleanup, PurgeSnapshot, RotateWal
      <3>3. /\ snapper = "rename" => tmp.st = "full"
            /\ tmp.st = "full" => tmp.val \in InnerStates
            /\ past # <<>>
        BY <1>t DEF StageInv
      <3> QED
        BY <3>1, <3>2, <3>3 DEF StageInv
    <2> QED
      BY <1>4, <2>1, <2>2
  <1>5. CASE Crash
    BY <1>5, <1>t DEF Crash, StageInv, NoRequest, Idle, Waiting
  <1>6. CASE Restart
    <2>1. 0 <= Len(wal) \div 2
      <3>1. Len(wal) \in Nat
        BY <1>t, LenProperties DEF TypeOK
      <3> QED
        BY <3>1
    <2> QED
      BY <1>6, <1>t, <2>1 DEF Restart, StageInv, Waiting
  <1>7. CASE ReplayOne
    <2>1. ri + 1 <= Len(wal) \div 2
      <3>1. Len(wal) \in Nat /\ ri \in Nat
        BY <1>t, LenProperties DEF TypeOK
      <3>2. ri # Len(wal) \div 2 /\ ri <= Len(wal) \div 2
        BY <1>7, <1>t DEF ReplayOne, Replayed, StageInv
      <3> QED
        BY <3>1, <3>2
    <2> QED
      BY <1>7, <1>t, <2>1 DEF ReplayOne, StageInv, Waiting
  <1>8. CASE Started
    BY <1>8, <1>t DEF Started, StageInv
  <1>9. CASE UNCHANGED vars
    BY <1>9, <1>t DEF vars, StageInv, Waiting, Parses, Alternating
  <1> QED
    BY <1>1, <1>2, <1>3, <1>4, <1>5, <1>6, <1>7, <1>8, <1>9 DEF Next, Serve

\* The types of the storage hold, in every life of the daemon: every variable
\* keeps its kind, every message has one waiting sender.
THEOREM TypeInvariant == ASSUME Ops \subseteq BasicOps
                         PROVE  Spec => []TypeInv
  <1>1. Init => TypeInv
    BY TypeInit
  <1>2. TypeInv /\ [Next]_vars => TypeInv'
    BY TypeStep, CallStep, StageStep DEF TypeInv
  <1> QED
    BY <1>1, <1>2, PTL DEF Spec

\* TypeOK, for any constants.
THEOREM TypeCorrect == ASSUME Ops \subseteq BasicOps
                       PROVE  Spec => []TypeOK
  <1>1. TypeInv => TypeOK
    BY DEF TypeInv
  <1> QED
    BY <1>1, TypeInvariant, PTL

-----------------------------------------------------------------------------
(* The history: the operations logged and the states they lead through.    *)

\* The ids and the names that the first k operations of h insert.
IdsOf(h, k) == {i \in Ids : \E j \in 1 .. k : i \in NewId(h[j])}
NamesOf(h, k) == {n \in Names : \E j \in 1 .. k : n \in NewName(h[j])}

\* In st there is nothing that the first k operations of h did not insert.
Grounded(st, h, k) ==
    /\ \A i \in Ids : st.by_id[i] # NONE => i \in IdsOf(h, k)
    /\ \A n \in Names : st.by_name[n] # NONE => n \in NamesOf(h, k)

\* Each state of past is tidy, and an operation on an id comes after the
\* Create of that id.
HistInv ==
    /\ Len(past) = Len(hist) + 1
    /\ past[1] = EmptyState
    /\ \A k \in 1 .. Len(hist) :
         /\ past[k + 1] = ApplyOp(past[k], hist[k])
         /\ hist[k].kind # "Create" => hist[k].id \in IdsOf(hist, k - 1)
    /\ \A k \in 1 .. Len(past) : Tidy(past[k]) /\ Grounded(past[k], hist, k - 1)

\* No two Creates that wait, or that are logged, share an id, and a client
\* asks only about ids that were created before.
IdInv ==
    /\ seen \subseteq IdsOf(hist, Len(hist))
    /\ IdsOf(hist, Len(hist)) \subseteq used
    /\ \A c \in Clients : Waiting(c) =>
         IF client[c].op.kind = "Create"
         THEN /\ client[c].op.id \in used
              /\ c \notin Committed => client[c].op.id \notin IdsOf(hist, Len(hist))
         ELSE client[c].op.id \in IdsOf(hist, Len(hist))
    /\ \A c, d \in Clients :
         /\ c # d /\ Waiting(c) /\ Waiting(d)
         /\ client[c].op.kind = "Create" /\ client[d].op.kind = "Create"
         => client[c].op.id # client[d].op.id

\* What is in memory, when there is something to look at, and what recovery
\* has made of a snapshot so far: right for all that the replayed operations
\* inserted, and free of anything that was never inserted.
MemInv ==
    /\ life = "up" =>
         /\ worker.pc # "apply" => mem = past[Len(hist) + 1]
         /\ worker.pc = "apply" => /\ hist # <<>> /\ hist[Len(hist)] = Request
                                   /\ mem = past[Len(hist)]
    /\ life = "replaying" =>
         /\ Agree(mem, past[ri + 1], IdsOf(hist, ri), NamesOf(hist, ri))
         /\ Grounded(mem, hist, Len(hist))

\* Every snapshot is a state of past.
SnapInv ==
    /\ \A k \in 1 .. Len(snaps) : \E j \in 1 .. Len(past) : snaps[k] = past[j]
    /\ tmp.st = "full" => \E j \in 1 .. Len(past) : tmp.val = past[j]

\* A log that alternates is the history, but for its last payload, or for a
\* prefix too many; and one payload at most is on its way to such a log.
WalInv ==
    Alternating(wal) =>
        /\ \A k \in 1 .. (Len(wal) \div 2) : k <= Len(hist) /\ wal[2 * k] = hist[k]
        /\ IF worker.pc = "payload"
           THEN Len(wal) = 2 * Len(hist) + 1 /\ inflight = <<>>
           ELSE \/ Len(wal) = 2 * Len(hist) /\ inflight = <<>>
                \/ Len(wal) = 2 * Len(hist) + 1 /\ inflight = <<>>
                \/ /\ Len(wal) = 2 * Len(hist) - 1
                   /\ inflight = <<>> \/ inflight = <<hist[Len(hist)]>>

SafeInv == HistInv /\ IdInv /\ MemInv /\ SnapInv /\ WalInv

LEMMA CreatedFacts ==
  ASSUME NEW h \in Seq(BasicOps), NEW k \in 0 .. Len(h)
  PROVE  /\ IdsOf(h, k) \subseteq Ids /\ NamesOf(h, k) \subseteq Names
         /\ IdsOf(h, 0) = {} /\ NamesOf(h, 0) = {}
         /\ IdsOf(h, k) \subseteq IdsOf(h, Len(h))
         /\ NamesOf(h, k) \subseteq NamesOf(h, Len(h))
  BY LenProperties DEF IdsOf, NamesOf

LEMMA CreatedNext ==
  ASSUME NEW h \in Seq(BasicOps), NEW k \in Nat, k + 1 \in 1 .. Len(h)
  PROVE  /\ IdsOf(h, k + 1) = IdsOf(h, k) \cup NewId(h[k + 1])
         /\ NamesOf(h, k + 1) = NamesOf(h, k) \cup NewName(h[k + 1])
  <1>1. h[k + 1] \in BasicOps
    BY ElementOfSeq
  <1>2. NewId(h[k + 1]) \subseteq Ids /\ NewName(h[k + 1]) \subseteq Names
    BY <1>1, BasicCases DEF NewId, NewName
  <1>3. \A j : j \in 1 .. k + 1 <=> j \in 1 .. k \/ j = k + 1
    OBVIOUS
  <1> QED
    BY <1>2, <1>3 DEF IdsOf, NamesOf

LEMMA CreatedAppend ==
  ASSUME NEW h \in Seq(BasicOps), NEW op \in BasicOps
  PROVE  /\ \A k \in 0 .. Len(h) : /\ IdsOf(Append(h, op), k) = IdsOf(h, k)
                                   /\ NamesOf(Append(h, op), k) = NamesOf(h, k)
         /\ IdsOf(Append(h, op), Len(h) + 1) = IdsOf(h, Len(h)) \cup NewId(op)
         /\ NamesOf(Append(h, op), Len(h) + 1) = NamesOf(h, Len(h)) \cup NewName(op)
  <1> DEFINE g == Append(h, op)
  <1>1. /\ g \in Seq(BasicOps) /\ Len(g) = Len(h) + 1 /\ g[Len(h) + 1] = op
        /\ \A j \in 1 .. Len(h) : g[j] = h[j]
    BY AppendFacts
  <1>2. Len(h) \in Nat
    BY LenProperties
  <1> HIDE DEF g
  <1>3. \A k \in 0 .. Len(h) : IdsOf(g, k) = IdsOf(h, k) /\ NamesOf(g, k) = NamesOf(h, k)
    <2> SUFFICES ASSUME NEW k \in 0 .. Len(h)
                 PROVE  IdsOf(g, k) = IdsOf(h, k) /\ NamesOf(g, k) = NamesOf(h, k)
      OBVIOUS
    <2>1. \A j \in 1 .. k : g[j] = h[j]
      BY <1>1, <1>2
    <2> QED
      BY <2>1 DEF IdsOf, NamesOf
  <1>4. /\ IdsOf(g, Len(h) + 1) = IdsOf(g, Len(h)) \cup NewId(op)
        /\ NamesOf(g, Len(h) + 1) = NamesOf(g, Len(h)) \cup NewName(op)
    BY <1>1, <1>2, CreatedNext
  <1> QED
    BY <1>2, <1>3, <1>4 DEF g

LEMMA SafeInit ==
  ASSUME Init
  PROVE  SafeInv
  <1>0. hist = <<>> /\ past = <<EmptyState>> /\ Len(hist) = 0 /\ Len(past) = 1
    BY DEF Init
  <1>1. Tidy(EmptyState) /\ Grounded(EmptyState, hist, 0)
    BY DEF EmptyState, Tidy, Grounded
  <1>2. HistInv
    BY <1>0, <1>1 DEF HistInv
  <1>3. IdsOf(hist, 0) = {}
    BY <1>0 DEF IdsOf
  <1>4. IdInv
    BY <1>0, <1>3 DEF Init, IdInv, Waiting, Idle
  <1>5. MemInv
    BY DEF Init, MemInv
  <1>6. SnapInv
    BY DEF Init, SnapInv, NoFile
  <1>7. WalInv
    BY <1>0 DEF Init, WalInv, NoRequest, Alternating
  <1> QED
    BY <1>2, <1>4, <1>5, <1>6, <1>7 DEF SafeInv

\* The facts about types that the steps below use.
LEMMA HistTyped ==
  ASSUME TypeInv, HistInv, Ops \subseteq BasicOps
  PROVE  /\ hist \in Seq(BasicOps) /\ Len(hist) \in Nat
         /\ past \in Seq(InnerStates) /\ mem \in InnerStates
         /\ \A k \in 1 .. Len(hist) : hist[k] \in BasicOps
         /\ \A k \in 1 .. Len(hist) + 1 : past[k] \in InnerStates
         /\ Last1(past) = past[Len(hist) + 1]
  <1>1. hist \in Seq(BasicOps)
    BY SeqMonotonic DEF TypeInv, TypeOK
  <1>2. past \in Seq(InnerStates) /\ mem \in InnerStates /\ Len(past) = Len(hist) + 1
    BY DEF TypeInv, TypeOK, HistInv
  <1> QED
    BY <1>1, <1>2, ElementOfSeq, LenProperties DEF Last1

\* Only WritePayload makes history.
LEMMA HistStays ==
  ASSUME [Next]_vars, ~WritePayload
  PROVE  hist' = hist /\ past' = past
  BY DEF Next, Serve, Snapshot, Cleanup, Execute, Send, GetByName, Recv, LockInner,
     WriteHeader, ApplyOperation, WriteFails, PayloadLands, PayloadLost,
     SnapshotTick, CreateTmp, FillTmp, RenameTmp, SnapshotFails, CleanupFails, CleanupTick,
     PurgeSnapshot, RotateWal, Crash, Restart, ReplayOne, Started, vars, ghost

\* What WritePayload makes of it.
LEMMA HistGrows ==
  ASSUME TypeInv, HistInv, Ops \subseteq BasicOps, WritePayload
  PROVE  /\ Request \in BasicOps
         /\ hist' = Append(hist, Request) /\ Len(hist') = Len(hist) + 1
         /\ hist'[Len(hist) + 1] = Request
         /\ \A k \in 1 .. Len(hist) : hist'[k] = hist[k]
         /\ Len(past') = Len(hist) + 2
         /\ past'[Len(hist) + 2] = ApplyOp(past[Len(hist) + 1], Request)
         /\ \A k \in 1 .. Len(hist) + 1 : past'[k] = past[k]
  <1>1. Request \in BasicOps
    BY RequestTyped DEF WritePayload
  <1>2. /\ hist \in Seq(BasicOps) /\ past \in Seq(InnerStates)
        /\ Len(hist) \in Nat /\ Len(past) = Len(hist) + 1
        /\ Last1(past) = past[Len(hist) + 1] /\ past[Len(hist) + 1] \in InnerStates
    BY HistTyped DEF HistInv
  <1>3. hist' = Append(hist, Request)
    BY DEF WritePayload
  <1>4. past' = Append(past, ApplyOp(past[Len(hist) + 1], Request))
    BY <1>2 DEF WritePayload
  <1>5. ApplyOp(past[Len(hist) + 1], Request) \in InnerStates
    BY <1>1, <1>2, ApplyOpTyped
  <1>6. /\ Len(hist') = Len(hist) + 1 /\ hist'[Len(hist) + 1] = Request
        /\ \A k \in 1 .. Len(hist) : hist'[k] = hist[k]
    BY <1>1, <1>2, <1>3, AppendFacts
  <1>7. /\ Len(past') = Len(past) + 1
        /\ past'[Len(past) + 1] = ApplyOp(past[Len(hist) + 1], Request)
        /\ \A k \in 1 .. Len(past) : past'[k] = past[k]
    BY <1>2, <1>4, <1>5, AppendFacts
  <1> QED
    BY <1>1, <1>2, <1>3, <1>6, <1>7

\* History stays well-founded: a Create brings an id that no state of the past
\* knows, and every other operation is about an id of the past.
LEMMA HistStep ==
  ASSUME TypeInv, SafeInv, Ops \subseteq BasicOps, [Next]_vars
  PROVE  HistInv'
  <1>0. HistInv /\ IdInv
    BY DEF SafeInv
  <1>1. CASE ~WritePayload
    BY <1>0, <1>1, HistStays DEF HistInv, Grounded, IdsOf, NamesOf
  <1>2. CASE WritePayload
    <2> DEFINE n == Len(hist)
               op == Request
               st == past[n + 1]
               new == ApplyOp(st, op)
    <2>1. /\ n \in Nat /\ hist \in Seq(BasicOps) /\ st \in InnerStates
          /\ Tidy(st) /\ Grounded(st, hist, n)
      BY <1>0, HistTyped DEF HistInv
    <2>2. /\ op \in BasicOps /\ hist' = Append(hist, op) /\ Len(hist') = n + 1
          /\ hist'[n + 1] = op /\ \A k \in 1 .. n : hist'[k] = hist[k]
          /\ Len(past') = n + 2 /\ past'[n + 2] = new
          /\ \A k \in 1 .. n + 1 : past'[k] = past[k]
      BY <1>0, <1>2, HistGrows
    <2>3. /\ worker.client \in Clients /\ Waiting(worker.client)
          /\ worker.client \notin Committed
      BY <1>2, RequestTyped DEF WritePayload, Committed
    <2>4. IF op.kind = "Create" THEN op.id \notin IdsOf(hist, n) ELSE op.id \in IdsOf(hist, n)
      BY <1>0, <2>3 DEF IdInv, Request
    <2>5. /\ \A k \in 0 .. n : /\ IdsOf(hist', k) = IdsOf(hist, k)
                              /\ NamesOf(hist', k) = NamesOf(hist, k)
          /\ IdsOf(hist', n + 1) = IdsOf(hist, n) \cup NewId(op)
          /\ NamesOf(hist', n + 1) = NamesOf(hist, n) \cup NewName(op)
      BY <2>1, <2>2, CreatedAppend
    <2>6. op.kind = "Create" => st.by_id[op.id] = NONE
      BY <2>1, <2>2, <2>4, BasicCases DEF Grounded
    <2>7. Tidy(new)
      BY <2>1, <2>2, <2>6, ApplyOpTidy
    <2>8. Grounded(new, hist', n + 1)
      BY <2>1, <2>2, <2>5, ApplyOpAddsNothing DEF Grounded
    <2>9. \A k \in 1 .. n + 1 : Grounded(past[k], hist', k - 1) /\ Tidy(past[k])
      <3> TAKE k \in 1 .. n + 1
      <3>1. Grounded(past[k], hist, k - 1) /\ Tidy(past[k]) /\ k - 1 \in 0 .. n
        BY <1>0, <2>1 DEF HistInv
      <3> QED
        BY <2>5, <3>1 DEF Grounded
    <2> HIDE DEF n, op, st, new
    <2>10. \A k \in 1 .. n + 2 : Tidy(past'[k]) /\ Grounded(past'[k], hist', k - 1)
      BY <2>1, <2>2, <2>7, <2>8, <2>9
    <2>11. \A k \in 1 .. n + 1 :
             /\ past'[k + 1] = ApplyOp(past'[k], hist'[k])
             /\ hist'[k].kind # "Create" => hist'[k].id \in IdsOf(hist', k - 1)
      <3> TAKE k \in 1 .. n + 1
      <3>1. CASE k = n + 1
        BY <2>1, <2>2, <2>4, <2>5, <3>1 DEF new, st
      <3>2. CASE k \in 1 .. n
        <4>1. /\ past[k + 1] = ApplyOp(past[k], hist[k])
              /\ hist[k].kind # "Create" => hist[k].id \in IdsOf(hist, k - 1)
          BY <1>0, <3>2 DEF HistInv, n
        <4>2. k - 1 \in 0 .. n /\ k + 1 \in 1 .. n + 1
          BY <2>1, <3>2
        <4> QED
          BY <2>2, <2>5, <3>2, <4>1, <4>2
      <3> QED
        BY <2>1, <3>1, <3>2
    <2>12. past'[1] = EmptyState
      BY <1>0, <2>1, <2>2 DEF HistInv
    <2>13. /\ Len(past') = Len(hist') + 1 /\ n \in Nat
           /\ Len(hist') = n + 1 /\ Len(past') = n + 2
      BY <2>1, <2>2
    <2> QED
      BY <2>10, <2>11, <2>12, <2>13 DEF HistInv
  <1> QED
    BY <1>1, <1>2

\* The client whose operation the worker handles does nothing meanwhile.
LEMMA RequestStays ==
  ASSUME TypeInv, worker.pc # "recv",
         NEW c \in Clients,
         \/ \E op \in Ops : Execute(c, op)
         \/ Send(c)
         \/ \E n \in Names : GetByName(c, n)
  PROVE  Request' = Request /\ worker' = worker /\ c # worker.client
  <1>1. worker.client \in Clients /\ client[worker.client].st = "waiting"
    BY DEF TypeInv, CallInv
  <1>2. c # worker.client
    BY <1>1 DEF Execute, Send, GetByName, Waiting
  <1>3. client \in [Clients -> ClientStates]
    BY DEF TypeInv, TypeOK
  <1>4. worker' = worker /\ client'[worker.client] = client[worker.client]
    BY <1>1, <1>2, <1>3 DEF Execute, Send, GetByName, tasks
  <1> QED
    BY <1>2, <1>4 DEF Request

\* A newest file that can be read is a state of the past, and so a start for
\* the replay.
LEMMA NewestIsPast ==
  ASSUME TypeInv, SafeInv, tmp.st # "partial"
  PROVE  \E j \in 1 .. Len(past) : Newest = past[j]
  <1>0. /\ snaps \in Seq(InnerStates) /\ tmp.st \in {"absent", "partial", "full"}
        /\ SnapInv /\ HistInv /\ Len(hist) \in Nat
    BY LenProperties DEF TypeInv, TypeOK, SafeInv
  <1>1. CASE tmp.st = "full"
    BY <1>0, <1>1 DEF Newest, SnapInv
  <1>2. CASE tmp.st = "absent" /\ snaps = <<>>
    BY <1>0, <1>2 DEF Newest, HistInv
  <1>3. CASE tmp.st = "absent" /\ snaps # <<>>
    BY <1>0, <1>3, Last1Facts DEF Newest, SnapInv, Last1
  <1> QED
    BY <1>0, <1>1, <1>2, <1>3

\* A log that can be read, with no payload on its way, is the history.
LEMMA ReadableLog ==
  ASSUME TypeInv, SafeInv, Parses(wal)
  PROVE  /\ Len(wal) = 2 * Len(hist)
         /\ Len(wal) \div 2 = Len(hist)
         /\ \A k \in 1 .. Len(hist) : LoggedOp(k) = hist[k]
  <1>1. Len(wal) \in Nat /\ Len(hist) \in Nat
    BY LenProperties DEF TypeInv, TypeOK
  <1>2. Len(wal) % 2 = 0 /\ Alternating(wal)
    BY DEF Parses
  <1>3. Len(wal) = 2 * Len(hist)
    BY <1>1, <1>2 DEF SafeInv, WalInv
  <1> QED
    BY <1>1, <1>2, <1>3 DEF SafeInv, WalInv, LoggedOp

\* Memory follows history; a replay ends at the last state of the past.
LEMMA MemStep ==
  ASSUME TypeInv, SafeInv, Ops \subseteq BasicOps, [Next]_vars
  PROVE  MemInv'
  <1> DEFINE n == Len(hist)
  <1>0. /\ HistInv /\ MemInv /\ n \in Nat /\ hist \in Seq(BasicOps)
        /\ Len(past) = n + 1
        /\ mem \in InnerStates
        /\ \A k \in 1 .. n : hist[k] \in BasicOps
        /\ \A k \in 1 .. n + 1 : past[k] \in InnerStates
    BY HistTyped DEF SafeInv, HistInv
  <1>1. CASE WritePayload
    <2>1. /\ life' = "up" /\ worker'.pc = "apply" /\ mem' = mem /\ Request' = Request
          /\ mem = past[n + 1]
      <3>1. worker \in [pc : {"recv", "lock", "header", "payload", "apply"},
                        client : Clients \cup {NONE}]
        BY DEF TypeInv, TypeOK
      <3> QED
        BY <1>0, <1>1, <3>1 DEF WritePayload, MemInv, Request
    <2>2. /\ Len(hist') = n + 1 /\ hist'[n + 1] = Request /\ past'[n + 1] = past[n + 1]
      BY <1>0, <1>1, HistGrows
    <2>3. hist' # <<>>
      BY <1>0, <2>2
    <2> QED
      BY <2>1, <2>2, <2>3 DEF MemInv
  <1>2. CASE ApplyOperation
    <2>1. /\ life' = "up" /\ worker'.pc = "recv" /\ hist' = hist /\ past' = past
          /\ mem' = ApplyOp(past[n], hist[n]) /\ hist # <<>>
      BY <1>0, <1>2, HistStays DEF ApplyOperation, MemInv, NoRequest
    <2>2. n \in 1 .. n
      BY <1>0, <2>1, EmptySeq
    <2>3. mem' = past[n + 1]
      BY <1>0, <2>1, <2>2 DEF HistInv
    <2> QED
      BY <2>1, <2>3 DEF MemInv
  <1>3. CASE Crash
    BY <1>3 DEF Crash, MemInv
  <1>4. CASE Restart
    <2>1. hist' = hist /\ past' = past /\ ri' = ri /\ ri = 0
      BY <1>4 DEF Restart, ghost, TypeInv, StageInv
    <2>2. CASE tmp.st = "partial" \/ ~Parses(wal)
      BY <1>4, <2>2 DEF Restart, MemInv
    <2>3. CASE tmp.st # "partial" /\ Parses(wal)
      <3>1. PICK j \in 1 .. n + 1 : Newest = past[j]
        BY <1>0, <2>3, NewestIsPast
      <3>2. mem' = past[j] /\ life' = "replaying"
        BY <1>4, <2>3, <3>1 DEF Restart
      <3>3. Grounded(past[j], hist, j - 1) /\ j - 1 \in 0 .. n
        BY <1>0, <3>1 DEF HistInv
      <3>4. Grounded(past[j], hist, n)
        BY <1>0, <3>3, CreatedFacts DEF Grounded
      <3>5. IdsOf(hist, 0) = {} /\ NamesOf(hist, 0) = {}
        BY <1>0, CreatedFacts
      <3>6. Agree(past[j], past[1], {}, {})
        BY DEF Agree
      <3>7. ri' = 0 /\ past'[ri' + 1] = past[1] /\ IdsOf(hist', ri') = {}
            /\ NamesOf(hist', ri') = {}
        BY <2>1, <3>5
      <3>8. Agree(mem', past'[ri' + 1], IdsOf(hist', ri'), NamesOf(hist', ri'))
        BY <3>2, <3>6, <3>7 DEF Agree
      <3>9. Grounded(mem', hist', Len(hist'))
        BY <2>1, <3>2, <3>4
      <3> QED
        BY <3>2, <3>8, <3>9 DEF MemInv
    <2> QED
      BY <2>2, <2>3
  <1>5. CASE ReplayOne
    <2> DEFINE op == LoggedOp(ri + 1)
    <2>1. /\ life = "replaying" /\ life' = "replaying" /\ ri' = ri + 1
          /\ mem' = ApplyOp(mem, op) /\ hist' = hist /\ past' = past
          /\ Parses(wal) /\ ri \in Nat /\ ri # Len(wal) \div 2
          /\ ri <= Len(wal) \div 2
      BY <1>5 DEF ReplayOne, Replayed, ghost, TypeInv, TypeOK, StageInv
    <2>2. Len(wal) \div 2 = n /\ \A k \in 1 .. n : LoggedOp(k) = hist[k]
      BY <2>1, ReadableLog
    <2>3. ri + 1 \in 1 .. n /\ ri \in 0 .. n /\ ri + 1 \in 0 .. n
      BY <1>0, <2>1, <2>2
    <2>4. op = hist[ri + 1] /\ op \in BasicOps
      BY <1>0, <2>2, <2>3
    <2>5. /\ past[ri + 2] = ApplyOp(past[ri + 1], op)
          /\ op.kind # "Create" => op.id \in IdsOf(hist, ri)
      <3>1. (ri + 1) + 1 = ri + 2 /\ (ri + 1) - 1 = ri
        BY <2>1
      <3> QED
        BY <1>0, <2>3, <2>4, <3>1 DEF HistInv
    <2>6. /\ Agree(mem, past[ri + 1], IdsOf(hist, ri), NamesOf(hist, ri))
          /\ Grounded(mem, hist, n)
      BY <1>0, <2>1 DEF MemInv
    <2>7. /\ IdsOf(hist, ri + 1) = IdsOf(hist, ri) \cup NewId(op)
          /\ NamesOf(hist, ri + 1) = NamesOf(hist, ri) \cup NewName(op)
          /\ IdsOf(hist, ri) \subseteq Ids /\ NamesOf(hist, ri) \subseteq Names
          /\ IdsOf(hist, ri + 1) \subseteq IdsOf(hist, n)
          /\ NamesOf(hist, ri + 1) \subseteq NamesOf(hist, n)
      BY <1>0, <2>1, <2>3, <2>4, CreatedNext, CreatedFacts
    <2>8. past[ri + 1] \in InnerStates
      BY <1>0, <2>3
    <2> HIDE DEF op, n
    <2>9. Agree(mem', past[ri + 2], IdsOf(hist, ri + 1), NamesOf(hist, ri + 1))
      <3>1. mem \in InnerStates
        BY <1>0
      <3>2. Agree(ApplyOp(mem, op), ApplyOp(past[ri + 1], op),
                  IdsOf(hist, ri) \cup NewId(op), NamesOf(hist, ri) \cup NewName(op))
        BY <2>4, <2>5, <2>6, <2>7, <2>8, <3>1, ApplyOpAgrees
      <3> QED
        BY <2>1, <2>5, <2>7, <3>2
    <2>10. Grounded(mem', hist, n)
      BY <1>0, <2>1, <2>4, <2>6, <2>7, ApplyOpAddsNothing DEF Grounded
    <2>11. ri' + 1 = ri + 2
      BY <2>1
    <2> QED
      BY <2>1, <2>9, <2>10, <2>11 DEF MemInv, n
  <1>6. CASE Started
    <2>1. /\ life = "replaying" /\ life' = "up" /\ mem' = mem /\ worker' = worker
          /\ hist' = hist /\ past' = past /\ Parses(wal) /\ ri = Len(wal) \div 2
          /\ worker.pc = "recv"
      BY <1>6 DEF Started, Replayed, tasks, TypeInv, StageInv
    <2>2. ri = n
      BY <2>1, ReadableLog
    <2>3. /\ Agree(mem, past[n + 1], IdsOf(hist, n), NamesOf(hist, n))
          /\ Grounded(mem, hist, n)
      BY <1>0, <2>1, <2>2 DEF MemInv
    <2>4. Grounded(past[n + 1], hist, n) /\ past[n + 1] \in InnerStates
      <3>1. (n + 1) - 1 = n /\ n + 1 \in 1 .. n + 1
        BY <1>0
      <3> QED
        BY <1>0, <3>1 DEF HistInv
    <2>5. Agree(mem, past[n + 1], Ids, Names)
      BY <2>3, <2>4 DEF Agree, Grounded
    <2>6. mem = past[n + 1]
      BY <1>0, <2>4, <2>5, AgreeEverywhere
    <2> QED
      BY <2>1, <2>6 DEF MemInv
  <1>7. ASSUME NEW c \in Clients,
               \/ \E op \in Ops : Execute(c, op)
               \/ Send(c)
               \/ \E m \in Names : GetByName(c, m)
        PROVE  MemInv'
    <2>1. /\ life = "up" /\ life' = life /\ mem' = mem /\ worker' = worker
          /\ hist' = hist /\ past' = past
      BY <1>7 DEF Execute, Send, GetByName, tasks, ghost
    <2>2. worker.pc = "apply" => Request' = Request
      BY <1>7, RequestStays
    <2> QED
      BY <1>0, <2>1, <2>2 DEF MemInv
  <1>8. CASE Recv \/ LockInner \/ WriteHeader \/ WriteFails
    <2>1. /\ life = "up" /\ life' = life /\ mem' = mem
          /\ worker.pc # "apply" /\ worker'.pc # "apply"
          /\ hist' = hist /\ past' = past
      <3>1. worker \in [pc : {"recv", "lock", "header", "payload", "apply"},
                        client : Clients \cup {NONE}]
        BY DEF TypeInv, TypeOK
      <3> QED
        BY <1>8, <3>1 DEF Recv, LockInner, WriteHeader, WriteFails, ghost, NoRequest
    <2> QED
      BY <1>0, <2>1 DEF MemInv
  <1>9. CASE UNCHANGED <<life, mem, ri, worker, client, hist, past>>
    BY <1>0, <1>9 DEF MemInv, Request
  <1>10. CASE \/ \E k \in 1 .. Len(inflight) : PayloadLands(k) \/ PayloadLost(k)
              \/ SnapshotTick \/ Snapshot \/ SnapshotFails \/ CleanupFails
              \/ CleanupTick \/ Cleanup \/ UNCHANGED vars
    BY <1>9, <1>10 DEF PayloadLands, PayloadLost, SnapshotTick, Snapshot, CreateTmp,
       FillTmp, RenameTmp, SnapshotFails, CleanupFails, CleanupTick, Cleanup, PurgeSnapshot,
       RotateWal, vars, tasks, ghost
  <1> QED
    BY <1>1, <1>2, <1>3, <1>4, <1>5, <1>6, <1>7, <1>8, <1>10 DEF Next, Serve

\* Ids stay unique among what waits and what is logged.
LEMMA IdStep ==
  ASSUME TypeInv, SafeInv, Ops \subseteq BasicOps, [Next]_vars, HistInv', MemInv'
  PROVE  IdInv'
  <1> DEFINE n == Len(hist)
             H == IdsOf(hist, n)
  <1>0. /\ IdInv /\ HistInv /\ CallInv /\ n \in Nat /\ hist \in Seq(BasicOps)
        /\ client \in [Clients -> ClientStates]
        /\ worker \in [pc : {"recv", "lock", "header", "payload", "apply"},
                       client : Clients \cup {NONE}]
    BY HistTyped DEF SafeInv, TypeInv, TypeOK
  <1>1. ASSUME NEW c \in Clients, NEW op \in Ops, Execute(c, op)
        PROVE  IdInv'
    <2>1. /\ hist' = hist /\ seen' = seen /\ used' = used \cup Drawn(op)
          /\ Committed' = Committed /\ ~Waiting(c)
          /\ client'[c].op = op
          /\ \A d \in Clients : d # c => client'[d] = client[d]
      BY <1>0, <1>1 DEF Execute, tasks, Committed
    <2>2. op.kind # "Batch"
      BY BasicCases
    <2>3. IF op.kind = "Create" THEN op.id \notin used /\ op.id \in used'
                                ELSE op.id \in seen
      BY <1>1, <2>1, <2>2 DEF Execute, Admissible, Drawn
    <2>4. seen \subseteq H /\ H \subseteq used
      BY <1>0 DEF IdInv
    <2> HIDE DEF H, n
    <2>5. \A d \in Clients : d # c /\ Waiting(d)' => Waiting(d)
      BY <2>1 DEF Waiting
    <2>6. \A d \in Clients : Waiting(d)' =>
            IF client'[d].op.kind = "Create"
            THEN /\ client'[d].op.id \in used'
                 /\ d \notin Committed' => client'[d].op.id \notin H
            ELSE client'[d].op.id \in H
      BY <1>0, <2>1, <2>3, <2>4, <2>5 DEF IdInv, H, n
    <2>7. \A d, e \in Clients :
            /\ d # e /\ Waiting(d)' /\ Waiting(e)'
            /\ client'[d].op.kind = "Create" /\ client'[e].op.kind = "Create"
            => client'[d].op.id # client'[e].op.id
      BY <1>0, <2>1, <2>3, <2>5 DEF IdInv
    <2>8. IdsOf(hist', Len(hist')) = H
      BY <2>1 DEF H, n
    <2> QED
      BY <2>1, <2>4, <2>6, <2>7, <2>8 DEF IdInv
  <1>2. CASE WritePayload
    <2> DEFINE op == Request
               w == worker.client
    <2>1. /\ client' = client /\ used' = used /\ seen' = seen
          /\ Committed = {} /\ Committed' = {w}
          /\ w \in Clients /\ Waiting(w) /\ op = client[w].op
      BY <1>0, <1>2, RequestTyped DEF WritePayload, Committed, Request
    <2>2. hist' = Append(hist, op) /\ Len(hist') = n + 1 /\ op \in BasicOps
      BY <1>0, <1>2, HistGrows
    <2>3. IdsOf(hist', n + 1) = H \cup NewId(op)
      BY <1>0, <2>2, CreatedAppend
    <2>4. NewId(op) = IF op.kind = "Create" THEN {op.id} ELSE {}
      BY DEF NewId
    <2>5. /\ op.kind = "Create" => op.id \in used
          /\ seen \subseteq H /\ H \subseteq used
      BY <1>0, <2>1 DEF IdInv
    <2> HIDE DEF H, n, op, w
    <2>6. \A d \in Clients : Waiting(d) =>
            IF client[d].op.kind = "Create"
            THEN /\ client[d].op.id \in used
                 /\ d # w => client[d].op.id \notin H \cup NewId(op)
            ELSE client[d].op.id \in H
      BY <1>0, <2>1, <2>4 DEF IdInv, H, n
    <2>7. IdsOf(hist', Len(hist')) = H \cup NewId(op)
      BY <2>2, <2>3
    <2>8. \A d \in Clients : Waiting(d)' <=> Waiting(d)
      BY <2>1 DEF Waiting
    <2>9. \A d, e \in Clients :
            /\ d # e /\ Waiting(d) /\ Waiting(e)
            /\ client[d].op.kind = "Create" /\ client[e].op.kind = "Create"
            => client[d].op.id # client[e].op.id
      BY <1>0 DEF IdInv
    <2> QED
      BY <2>1, <2>4, <2>5, <2>6, <2>7, <2>8, <2>9 DEF IdInv
  <1>3. CASE ApplyOperation
    <2>1. /\ hist' = hist /\ used' = used /\ Committed = {worker.client}
          /\ Committed' = {} /\ worker.client \in Clients
          /\ client'[worker.client].st = "ok"
          /\ \A d \in Clients : d # worker.client => client'[d] = client[d]
          /\ seen' = seen \cup PresentIds(mem') /\ life' = "up" /\ worker'.pc = "recv"
      BY <1>0, <1>3 DEF ApplyOperation, Committed, NoRequest, Idle, CallInv
    <2>2. mem' = past'[n + 1] /\ Grounded(past'[n + 1], hist', n)
      <3>1. n + 1 \in 1 .. Len(past') /\ (n + 1) - 1 = n /\ Len(hist') = n
        BY <1>0, <2>1 DEF HistInv
      <3> QED
        BY <2>1, <3>1 DEF MemInv, HistInv
    <2>3. PresentIds(mem') \subseteq H
      BY <2>1, <2>2 DEF Grounded, PresentIds
    <2> QED
      BY <1>0, <2>1, <2>3 DEF IdInv, Waiting
  <1>4. CASE Started
    <2>1. /\ hist' = hist /\ used' = used /\ client' = client /\ worker' = worker
          /\ seen' = seen \cup PresentIds(mem') /\ life' = "up"
          /\ Committed' = Committed /\ worker'.pc = "recv"
      BY <1>4 DEF Started, tasks, Committed, TypeInv, StageInv
    <2>2. mem' = past'[n + 1] /\ Grounded(past'[n + 1], hist', n)
      <3>1. n + 1 \in 1 .. Len(past') /\ (n + 1) - 1 = n /\ Len(hist') = n
        BY <1>0, <2>1 DEF HistInv
      <3> QED
        BY <2>1, <3>1 DEF MemInv, HistInv
    <2>3. PresentIds(mem') \subseteq H
      BY <2>1, <2>2 DEF Grounded, PresentIds
    <2> QED
      BY <1>0, <2>1, <2>3 DEF IdInv, Waiting
  <1>5. ASSUME NEW c \in Clients, Send(c) \/ \E m \in Names : GetByName(c, m)
        PROVE  IdInv'
    <2>1. /\ hist' = hist /\ used' = used /\ seen' = seen /\ worker' = worker
          /\ Committed' = Committed
          /\ \A d \in Clients : Waiting(d)' => Waiting(d) /\ client'[d].op = client[d].op
      BY <1>0, <1>5 DEF Send, GetByName, tasks, ghost, Committed, Waiting, Idle, ClientStates
    <2> QED
      BY <1>0, <2>1 DEF IdInv
  <1>6. CASE Recv \/ LockInner \/ WriteHeader
    <2>1. /\ hist' = hist /\ used' = used /\ seen' = seen /\ client' = client
          /\ Committed' = {} /\ Committed = {}
      BY <1>0, <1>6 DEF Recv, LockInner, WriteHeader, ghost, Committed
    <2> QED
      BY <1>0, <2>1 DEF IdInv, Waiting
  <1>7. CASE WriteFails
    <2>1. /\ hist' = hist /\ used' = used /\ seen' = seen
          /\ Committed' = {} /\ Committed = {}
          /\ \A d \in Clients : Waiting(d)' => Waiting(d) /\ client'[d].op = client[d].op
      BY <1>0, <1>7 DEF WriteFails, NoRequest, Committed, Waiting, Idle, CallInv
    <2> QED
      BY <1>0, <2>1 DEF IdInv
  <1>8. CASE Crash
    BY <1>0, <1>8 DEF Crash, IdInv, Waiting, Idle
  <1>9. CASE UNCHANGED <<worker, client, hist, used, seen>>
    BY <1>0, <1>9 DEF IdInv, Waiting, Committed
  <1>10. CASE \/ \E k \in 1 .. Len(inflight) : PayloadLands(k) \/ PayloadLost(k)
              \/ SnapshotTick \/ Snapshot \/ SnapshotFails \/ CleanupFails
              \/ CleanupTick \/ Cleanup \/ Restart \/ ReplayOne \/ UNCHANGED vars
    BY <1>9, <1>10 DEF PayloadLands, PayloadLost, SnapshotTick, Snapshot, CreateTmp,
       FillTmp, RenameTmp, SnapshotFails, CleanupFails, CleanupTick, Cleanup, PurgeSnapshot,
       RotateWal, Restart, ReplayOne, vars, tasks, ghost
  <1> QED
    BY <1>1, <1>2, <1>3, <1>4, <1>5, <1>6, <1>7, <1>8, <1>10 DEF Next, Serve

\* A snapshot is taken of memory, which is a state of the past even while an
\* operation waits to be applied.
LEMMA SnapStep ==
  ASSUME TypeInv, SafeInv, Ops \subseteq BasicOps, [Next]_vars
  PROVE  SnapInv'
  <1>0. /\ SnapInv /\ HistInv /\ Len(hist) \in Nat /\ Len(past) = Len(hist) + 1
        /\ snaps \in Seq(InnerStates)
    BY HistTyped DEF SafeInv, HistInv, TypeInv, TypeOK
  <1>1. CASE WritePayload
    <2>1. /\ Len(past') = Len(past) + 1 /\ snaps' = snaps /\ tmp' = tmp
          /\ \A k \in 1 .. Len(past) : past'[k] = past[k]
      BY <1>0, <1>1, HistGrows DEF WritePayload
    <2>2. \A k \in 1 .. Len(past) : k \in 1 .. Len(past') /\ past'[k] = past[k]
      BY <1>0, <2>1
    <2>3. \A k \in 1 .. Len(snaps') : \E j \in 1 .. Len(past') : snaps'[k] = past'[j]
      BY <1>0, <2>1, <2>2 DEF SnapInv
    <2>4. tmp'.st = "full" => \E j \in 1 .. Len(past') : tmp'.val = past'[j]
      BY <1>0, <2>1, <2>2 DEF SnapInv
    <2> QED
      BY <2>3, <2>4 DEF SnapInv
  <1>2. CASE FillTmp
    <2>1. \E j \in 1 .. Len(past) : mem = past[j]
      <3>1. CASE worker.pc = "apply"
        <4>1. mem = past[Len(hist)] /\ hist # <<>>
          BY <1>2, <3>1 DEF FillTmp, SafeInv, MemInv
        <4>2. Len(hist) \in 1 .. Len(past)
          BY <1>0, <4>1, EmptySeq DEF TypeInv, TypeOK
        <4> QED
          BY <4>1, <4>2
      <3>2. CASE worker.pc # "apply"
        BY <1>0, <1>2, <3>2 DEF FillTmp, SafeInv, MemInv
      <3> QED
        BY <3>1, <3>2
    <2>2. snaps' = snaps /\ past' = past /\ tmp'.val = mem
      BY <1>2 DEF FillTmp, ghost
    <2> QED
      BY <1>0, <2>1, <2>2 DEF SnapInv
  <1>3. CASE RenameTmp
    <2>1. \E j \in 1 .. Len(past) : tmp.val = past[j]
      BY <1>0, <1>3 DEF RenameTmp, TypeInv, StageInv, SnapInv
    <2>2. tmp.val \in InnerStates
      BY <1>3 DEF RenameTmp, TypeInv, StageInv
    <2>3. /\ past' = past /\ tmp' = NoFile
          /\ Len(snaps') = Len(snaps) + 1 /\ snaps'[Len(snaps) + 1] = tmp.val
          /\ \A k \in 1 .. Len(snaps) : snaps'[k] = snaps[k]
          /\ Len(snaps) \in Nat
      BY <1>0, <1>3, <2>2, AppendFacts, LenProperties DEF RenameTmp, ghost
    <2> QED
      BY <1>0, <2>1, <2>3 DEF SnapInv, NoFile
  <1>4. CASE PurgeSnapshot
    <2>1. snaps # <<>>
      BY <1>4, ConfigAssumption DEF PurgeSnapshot, Surplus
    <2>2. /\ past' = past /\ tmp' = tmp /\ Len(snaps') = Len(snaps) - 1
          /\ \A k \in 1 .. Len(snaps') : snaps'[k] = snaps[k + 1]
          /\ Len(snaps) \in Nat
      BY <1>0, <1>4, <2>1, HeadTailProperties, LenProperties DEF PurgeSnapshot, ghost
    <2>3. \A k \in 1 .. Len(snaps') : k + 1 \in 1 .. Len(snaps)
      BY <2>2
    <2>4. \A k \in 1 .. Len(snaps') : \E j \in 1 .. Len(past) : snaps'[k] = past[j]
      BY <1>0, <2>2, <2>3 DEF SnapInv
    <2> QED
      BY <1>0, <2>2, <2>4 DEF SnapInv
  <1>5. CASE CreateTmp
    BY <1>0, <1>5 DEF CreateTmp, SnapInv, PartialFile, ghost
  <1>6. CASE UNCHANGED <<snaps, tmp, past>>
    BY <1>0, <1>6 DEF SnapInv
  <1>7. CASE \/ \E c \in Clients : \/ \E op \in Ops : Execute(c, op)
                                   \/ Send(c)
                                   \/ \E n \in Names : GetByName(c, n)
             \/ Recv \/ LockInner \/ WriteHeader \/ ApplyOperation \/ WriteFails
             \/ \E k \in 1 .. Len(inflight) : PayloadLands(k) \/ PayloadLost(k)
             \/ SnapshotTick \/ SnapshotFails \/ CleanupFails \/ CleanupTick \/ RotateWal
             \/ Crash \/ Restart \/ ReplayOne \/ Started \/ UNCHANGED vars
    BY <1>6, <1>7 DEF Execute, Send, GetByName, Recv, LockInner, WriteHeader,
       ApplyOperation, WriteFails, PayloadLands, PayloadLost, SnapshotTick,
       SnapshotFails, CleanupFails, CleanupTick, RotateWal, Crash, Restart, ReplayOne, Started,
       vars, disk, ghost
  <1> QED
    BY <1>1, <1>2, <1>3, <1>4, <1>5, <1>7 DEF Next, Serve, Snapshot, Cleanup

\* One more cell: the log before it alternated, and which cell it may be.
LEMMA AlternatingAppend ==
  ASSUME NEW w \in Seq(Cells), NEW x \in Cells, Alternating(Append(w, x))
  PROVE  Alternating(w) /\ (x = LEN <=> Len(w) % 2 = 0)
  <1>1. /\ Len(w) \in Nat /\ Len(Append(w, x)) = Len(w) + 1
        /\ Append(w, x)[Len(w) + 1] = x
        /\ \A k \in 1 .. Len(w) : Append(w, x)[k] = w[k]
    BY AppendFacts, LenProperties
  <1>2. Alternating(w)
    BY <1>1 DEF Alternating
  <1>3. x = LEN <=> (Len(w) + 1) % 2 = 1
    BY <1>1 DEF Alternating
  <1> QED
    BY <1>1, <1>2, <1>3

\* A prefix fits only on a log that is whole, and leaves the payloads alone.
LEMMA PrefixFits ==
  ASSUME TypeInv, SafeInv, worker.pc # "payload", Alternating(Append(wal, LEN))
  PROVE  /\ Alternating(wal) /\ inflight = <<>>
         /\ Len(Append(wal, LEN)) = 2 * Len(hist) + 1
         /\ \A k \in 1 .. (Len(Append(wal, LEN)) \div 2) :
              k <= Len(hist) /\ Append(wal, LEN)[2 * k] = hist[k]
  <1>0. wal \in Seq(Cells) /\ LEN \in Cells /\ Len(wal) \in Nat /\ Len(hist) \in Nat
    BY LenProperties DEF TypeInv, TypeOK, Cells
  <1>1. Alternating(wal) /\ Len(wal) % 2 = 0
    BY <1>0, AlternatingAppend
  <1>2. Len(wal) = 2 * Len(hist) /\ inflight = <<>>
    BY <1>0, <1>1 DEF SafeInv, WalInv
  <1>3. \A k \in 1 .. Len(hist) : wal[2 * k] = hist[k]
    BY <1>0, <1>1, <1>2 DEF SafeInv, WalInv
  <1>4. /\ Len(Append(wal, LEN)) = 2 * Len(hist) + 1
        /\ \A k \in 1 .. 2 * Len(hist) : Append(wal, LEN)[k] = wal[k]
    BY <1>0, <1>2, AppendFacts
  <1> QED
    BY <1>0, <1>1, <1>2, <1>3, <1>4

\* The log and the history keep step, as long as the log can be read.
LEMMA WalStep ==
  ASSUME TypeInv, SafeInv, Ops \subseteq BasicOps, ~ArchiveDir, [Next]_vars
  PROVE  WalInv'
  <1> DEFINE n == Len(hist)
  <1>0. /\ WalInv /\ n \in Nat /\ Len(wal) \in Nat
        /\ wal \in Seq(Cells) /\ inflight \in Seq(Ops) /\ HistInv
        /\ worker \in [pc : {"recv", "lock", "header", "payload", "apply"},
                       client : Clients \cup {NONE}]
    BY LenProperties DEF SafeInv, TypeInv, TypeOK
  <1>1. CASE WriteHeader
    <2>1. /\ wal' = Append(wal, LEN) /\ inflight' = inflight /\ hist' = hist
          /\ worker.pc = "header" /\ worker'.pc = "payload"
      BY <1>0, <1>1 DEF WriteHeader, ghost
    <2> SUFFICES ASSUME Alternating(wal')
                 PROVE  /\ \A k \in 1 .. (Len(wal') \div 2) : k <= n /\ wal'[2 * k] = hist[k]
                        /\ Len(wal') = 2 * n + 1 /\ inflight' = <<>>
      BY <2>1 DEF WalInv
    <2> QED
      BY <2>1, PrefixFits
  <1>2. CASE WriteFails
    <2>1. /\ inflight' = inflight /\ hist' = hist
          /\ worker.pc = "header" /\ worker'.pc = "recv"
          /\ wal' = wal \/ wal' = Append(wal, LEN)
      BY <1>2 DEF WriteFails, NoRequest
    <2>2. CASE wal' = wal
      BY <1>0, <2>1, <2>2 DEF WalInv
    <2>3. CASE wal' = Append(wal, LEN)
      <3> SUFFICES ASSUME Alternating(wal')
                   PROVE  /\ \A k \in 1 .. (Len(wal') \div 2) :
                               k <= n /\ wal'[2 * k] = hist[k]
                          /\ Len(wal') = 2 * n + 1 /\ inflight' = <<>>
        BY <2>1 DEF WalInv
      <3> QED
        BY <2>1, <2>3, PrefixFits
    <2> QED
      BY <2>1, <2>2, <2>3
  <1>3. CASE WritePayload
    <2>1. /\ wal' = wal /\ inflight' = Append(inflight, Request)
          /\ worker.pc = "payload" /\ worker'.pc = "apply"
      BY <1>0, <1>3 DEF WritePayload
    <2>2. /\ Len(hist') = n + 1 /\ hist'[n + 1] = Request
          /\ \A k \in 1 .. n : hist'[k] = hist[k]
      BY <1>0, <1>3, HistGrows
    <2> SUFFICES ASSUME Alternating(wal)
                 PROVE  /\ \A k \in 1 .. (Len(wal) \div 2) : k <= n + 1 /\ wal[2 * k] = hist'[k]
                        /\ Len(wal) = 2 * (n + 1) - 1
                        /\ inflight' = <<hist'[n + 1]>>
      BY <2>1, <2>2 DEF WalInv
    <2>3. /\ Len(wal) = 2 * n + 1 /\ inflight = <<>>
          /\ \A k \in 1 .. (Len(wal) \div 2) : k <= n /\ wal[2 * k] = hist[k]
      BY <1>0, <2>1 DEF WalInv
    <2>4. \A k \in 1 .. (Len(wal) \div 2) : k \in 1 .. n
      BY <1>0, <2>3
    <2> QED
      BY <1>0, <2>1, <2>2, <2>3, <2>4
  <1>4. ASSUME NEW k \in 1 .. Len(inflight), PayloadLands(k) \/ PayloadLost(k)
        PROVE  WalInv'
    <2>1. /\ hist' = hist /\ worker' = worker /\ inflight' = RemoveAt(inflight, k)
          /\ wal' = wal \/ wal' = Append(wal, inflight[k])
      BY <1>4 DEF PayloadLands, PayloadLost, tasks, ghost
    <2>2. inflight[k] \in Ops /\ inflight[k] \in Cells
      BY <1>0, ElementOfSeq DEF Cells
    <2>3. Alternating(wal') => Alternating(wal)
      BY <1>0, <2>1, <2>2, AlternatingAppend
    <2> SUFFICES ASSUME Alternating(wal')
                 PROVE  WalInv'
      BY DEF WalInv
    <2>4. inflight # <<>>
      BY <1>0
    <2>5. /\ worker.pc # "payload" /\ Len(wal) = 2 * n - 1 /\ inflight = <<hist[n]>>
          /\ \A j \in 1 .. (Len(wal) \div 2) : j <= n /\ wal[2 * j] = hist[j]
      BY <1>0, <2>3, <2>4 DEF WalInv
    <2>6. k = 1 /\ inflight[k] = hist[n] /\ Len(inflight) = 1
      BY <2>5
    <2>7. inflight' = <<>>
      <3>1. inflight' \in Seq(Ops) /\ Len(inflight') = Len(inflight) - 1
        BY <1>0, <2>1, RemoveAtFacts
      <3>2. Len(inflight') = 0
        BY <2>6, <3>1
      <3> QED
        BY <3>1, <3>2, EmptySeq
    <2>8. CASE wal' = wal
      BY <1>0, <2>1, <2>5, <2>7, <2>8 DEF WalInv
    <2>9. CASE wal' = Append(wal, inflight[k])
      <3>1. /\ Len(wal') = 2 * n /\ wal'[2 * n] = hist[n]
            /\ \A j \in 1 .. 2 * n - 1 : wal'[j] = wal[j]
        BY <1>0, <2>2, <2>5, <2>6, <2>9, AppendFacts
      <3>2. \A j \in 1 .. n : wal'[2 * j] = hist[j]
        <4> TAKE j \in 1 .. n
        <4>1. CASE j = n
          BY <3>1, <4>1
        <4>2. CASE j # n
          <5>1. 2 * j \in 1 .. 2 * n - 1 /\ j \in 1 .. ((2 * n - 1) \div 2)
            BY <1>0, <4>2
          <5> QED
            BY <2>5, <3>1, <5>1
        <4> QED
          BY <4>1, <4>2
      <3>3. Len(wal') \div 2 = n
        BY <1>0, <3>1
      <3> QED
        BY <1>0, <2>1, <2>5, <2>7, <3>1, <3>2, <3>3 DEF WalInv
    <2> QED
      BY <2>1, <2>8, <2>9
  <1>5. CASE Crash
    <2>1. wal' = wal /\ inflight' = <<>> /\ hist' = hist /\ worker'.pc = "recv"
      BY <1>5 DEF Crash, NoRequest
    <2> QED
      BY <1>0, <2>1 DEF WalInv
  <1>6. CASE Recv \/ LockInner \/ ApplyOperation
    <2>1. /\ wal' = wal /\ inflight' = inflight /\ hist' = hist
          /\ worker.pc # "payload" /\ worker'.pc # "payload"
      BY <1>0, <1>6 DEF Recv, LockInner, ApplyOperation, NoRequest, disk, ghost
    <2> QED
      BY <1>0, <2>1 DEF WalInv
  <1>7. CASE UNCHANGED <<wal, inflight, hist, worker>>
    BY <1>0, <1>7 DEF WalInv, Alternating
  <1>8. CASE \/ \E c \in Clients : \/ \E op \in Ops : Execute(c, op)
                                   \/ Send(c)
                                   \/ \E m \in Names : GetByName(c, m)
             \/ SnapshotTick \/ Snapshot \/ SnapshotFails \/ CleanupFails
             \/ CleanupTick \/ Cleanup
             \/ Restart \/ ReplayOne \/ Started \/ UNCHANGED vars
    BY <1>7, <1>8 DEF Execute, Send, GetByName, SnapshotTick, Snapshot, CreateTmp,
       FillTmp, RenameTmp, SnapshotFails, CleanupFails, CleanupTick, Cleanup, PurgeSnapshot,
       RotateWal, Restart, ReplayOne, Started, vars, disk, tasks, ghost
  <1> QED
    BY <1>1, <1>2, <1>3, <1>4, <1>5, <1>6, <1>8 DEF Next, Serve

\* The invariant the theorems below come from.  It is inductive only with all
\* of its parts: memory is right because snapshots and the log are, the log is
\* because of where the worker is, and the replay because ids are unique.
THEOREM SafeInvariant == ASSUME Ops \subseteq BasicOps, ~ArchiveDir
                         PROVE  Spec => [](TypeInv /\ SafeInv)
  <1>1. Init => TypeInv /\ SafeInv
    BY TypeInit, SafeInit
  <1>2. TypeInv /\ SafeInv /\ [Next]_vars => (TypeInv /\ SafeInv)'
    <2> SUFFICES ASSUME TypeInv, SafeInv, [Next]_vars
                 PROVE  (TypeInv /\ SafeInv)'
      OBVIOUS
    <2>1. TypeInv'
      BY TypeStep, CallStep, StageStep DEF TypeInv
    <2>2. HistInv' /\ MemInv'
      BY HistStep, MemStep
    <2>3. IdInv'
      BY <2>2, IdStep
    <2>4. SnapInv' /\ WalInv'
      BY SnapStep, WalStep
    <2> QED
      BY <2>1, <2>2, <2>3, <2>4 DEF SafeInv
  <1> QED
    BY <1>1, <1>2, PTL DEF Spec

\* What the daemon serves once it has applied what it logged.
LEMMA SafeMemory ==
  ASSUME TypeInv, SafeInv
  PROVE  MemoryIsHistory
  <1>1. HistInv /\ MemInv /\ Len(hist) \in Nat /\ Len(past) = Len(hist) + 1
    BY HistTyped DEF SafeInv, HistInv
  <1> QED
    BY <1>1 DEF MemInv, MemoryIsHistory, Last1

\* Past states are tidy, and memory is one of them.
LEMMA SafeNames ==
  ASSUME TypeInv, SafeInv
  PROVE  NoDanglingName
  <1>0. HistInv /\ MemInv /\ Len(hist) \in Nat /\ Len(past) = Len(hist) + 1
    BY HistTyped DEF SafeInv, HistInv
  <1>1. \A k \in 1 .. Len(hist) + 1 : Tidy(past[k])
    BY <1>0 DEF HistInv
  <1>2. ASSUME life = "up" PROVE Tidy(mem)
    <2>1. CASE worker.pc # "apply"
      BY <1>0, <1>1, <1>2, <2>1 DEF MemInv
    <2>2. CASE worker.pc = "apply"
      <3>1. mem = past[Len(hist)] /\ Len(hist) \in 1 .. Len(hist) + 1
        BY <1>0, <1>2, <2>2, EmptySeq DEF MemInv, TypeInv, TypeOK
      <3> QED
        BY <1>1, <3>1
    <2> QED
      BY <2>1, <2>2
  <1> QED
    BY <1>2 DEF NoDanglingName, Tidy

\* What a daemon serves is all it ever logged, whatever it was started from
\* (recover_state, the worker's loop).
THEOREM ServesItsHistory == ASSUME Ops \subseteq BasicOps, ~ArchiveDir
                            PROVE  Spec => []MemoryIsHistory
  BY SafeMemory, SafeInvariant, PTL

\* The unwrap in get_meta_by_name never meets None.
THEOREM NamesLeadToRecords == ASSUME Ops \subseteq BasicOps, ~ArchiveDir
                              PROVE  Spec => []NoDanglingName
  BY SafeNames, SafeInvariant, PTL

\* Recovery is all or nothing: a log that read_operations accepts lacks no
\* operation that was answered, and has none twice.
THEOREM ReadableLogIsComplete == ASSUME Ops \subseteq BasicOps, ~ArchiveDir
                                 PROVE  Spec => []ReadableLogIsHistory
  <1>1. TypeInv /\ SafeInv => ReadableLogIsHistory
    BY ReadableLog DEF ReadableLogIsHistory
  <1> QED
    BY <1>1, SafeInvariant, PTL

\* A complete snapshot file is the state after a prefix of the history.
THEOREM SnapshotsFollowHistory == ASSUME Ops \subseteq BasicOps, ~ArchiveDir
                                  PROVE  Spec => []SnapshotsArePrefixes
  <1>1. TypeInv /\ SafeInv => SnapshotsArePrefixes
    BY DEF SafeInv, SnapInv, SnapshotsArePrefixes
  <1> QED
    BY <1>1, SafeInvariant, PTL

-----------------------------------------------------------------------------
(* MetaStorage implements Registry: to its callers the storage is one      *)
(* registry that every operation changes at one instant.  An operation     *)
(* takes effect in WritePayload; the answers, the lookups and the death of *)
(* the daemon are steps of the registry as well, and every other action is *)
(* a stutter.                                                              *)

\* The registry's copy of apply_operation is the one of the storage.
LEMMA SameApplyOp ==
  ASSUME NEW st, NEW op \in BasicOps
  PROVE  R!ApplyOp(st, op) = ApplyOp(st, op)
  <1>1. op.kind # "Batch"
    BY BasicCases
  <1>2. R!Touch(st, op) = Touch(st, op)
    BY DEF R!Touch, Touch, R!Touched, Touched
  <1>3. R!Create(st, op) = Create(st, op)
    BY DEF R!Create, Create, R!NewMeta, NewMeta, R!Fields, Fields
  <1>4. R!Delete(st, op) = Delete(st, op)
    BY DEF R!Delete, Delete
  <1> QED
    BY <1>1, <1>2, <1>3, <1>4 DEF R!ApplyOp, ApplyOp, R!ApplyBasic, ApplyBasic
-----------------------------------------------------------------------------
\* The mutex has one holder: whoever is at work on the registry is it.
LockInv ==
    /\ worker.pc \in {"header", "payload", "apply"} => lock = "worker"
    /\ snapper # "sleep" => lock = "snapshot"
    /\ cleaner # "sleep" => lock = "cleanup"

LEMMA LockStep ==
  ASSUME TypeOK, LockInv, [Next]_vars
  PROVE  LockInv'
  <1> USE DEF LockInv, TypeOK
  <1>1. CASE UNCHANGED <<lock, worker, snapper, cleaner>>
    BY <1>1
  <1>2. CASE \/ \E c \in Clients : \/ \E op \in Ops : Execute(c, op)
                                   \/ Send(c)
                                   \/ \E n \in Names : GetByName(c, n)
             \/ \E k \in 1 .. Len(inflight) : PayloadLands(k) \/ PayloadLost(k)
             \/ Restart \/ ReplayOne \/ Started \/ PurgeSnapshot \/ UNCHANGED vars
    BY <1>1, <1>2 DEF Execute, Send, GetByName, PayloadLands, PayloadLost, Restart,
       ReplayOne, Started, PurgeSnapshot, vars, tasks
  <1>3. CASE Recv \/ LockInner \/ WriteHeader \/ WritePayload
    BY <1>3 DEF Recv, LockInner, WriteHeader, WritePayload
  <1>4. CASE ApplyOperation \/ WriteFails
    BY <1>4 DEF ApplyOperation, WriteFails, NoRequest
  <1>5. CASE SnapshotTick \/ CreateTmp \/ FillTmp \/ RenameTmp \/ SnapshotFails
    BY <1>5 DEF SnapshotTick, CreateTmp, FillTmp, RenameTmp, SnapshotFails
  <1>6. CASE CleanupTick \/ RotateWal \/ CleanupFails
    BY <1>6 DEF CleanupTick, RotateWal, CleanupFails
  <1>7. CASE Crash
    BY <1>7 DEF Crash, NoRequest
  <1> QED
    BY <1>2, <1>3, <1>4, <1>5, <1>6, <1>7 DEF Next, Serve, Snapshot, Cleanup

\* Nobody reads the registry between the commit of an operation and its effect in
\* memory: a lookup that gets the mutex sees what was committed last.
LEMMA LookupSeesPresent ==
  ASSUME TypeInv, SafeInv, LockInv, life = "up", lock = "free", NEW n \in Names
  PROVE  ~Dangles(mem, n) /\ mem = Last1(past)
  <1>1. NoDanglingName /\ MemoryIsHistory
    BY SafeNames, SafeMemory
  <1>2. worker.pc # "apply"
    BY DEF LockInv
  <1> QED
    BY <1>1, <1>2 DEF NoDanglingName, MemoryIsHistory, Dangles

LEMMA RefinementInit ==
  ASSUME Init
  PROVE  R!Init
  <1>1. Last1(past) = R!EmptyState
    BY DEF Init, Last1, EmptyState, R!EmptyState
  <1>2. Committed = {}
    BY DEF Init, Committed, NoRequest
  <1> QED
    BY <1>1, <1>2 DEF Init, R!Init, Idle, R!Idle

LEMMA RefinementStep ==
  ASSUME TypeInv, SafeInv, LockInv, Ops \subseteq BasicOps, ~ArchiveDir, [Next]_vars
  PROVE  [R!Next]_<<Last1(past), client, Committed>>
  <1> USE DEF disk, tasks, ghost
  <1>0. /\ client \in [Clients -> ClientStates]
        /\ worker \in [pc : {"recv", "lock", "header", "payload", "apply"},
                       client : Clients \cup {NONE}]
        /\ past \in Seq(InnerStates) /\ past # <<>>
    BY DEF TypeInv, TypeOK, StageInv
  <1>s. CASE UNCHANGED <<past, client, worker>>
    BY <1>s DEF Last1, Committed
  <1>1. ASSUME NEW c \in Clients, NEW op \in Ops, Execute(c, op)
        PROVE  R!Next
    <2>1. UNCHANGED <<Last1(past), Committed>>
      BY <1>1 DEF Execute, Last1, Committed
    <2>2. R!Invoke(c, op)
      BY <1>1, <2>1 DEF Execute, R!Invoke, Waiting, R!Waiting
    <2> QED
      BY <2>2 DEF R!Next
  <1>2. ASSUME NEW c \in Clients, Send(c)
        PROVE  R!Next
    <2>1. UNCHANGED <<Last1(past), Committed>>
      BY <1>2 DEF Send, Last1, Committed
    <2>2. R!Send(c)
      BY <1>2, <2>1 DEF Send, R!Send
    <2> QED
      BY <2>2 DEF R!Next
  <1>3. ASSUME NEW c \in Clients, NEW n \in Names, GetByName(c, n)
        PROVE  R!Next
    <2>1. UNCHANGED <<Last1(past), Committed>>
      BY <1>3 DEF GetByName, Last1, Committed
    <2>2. ~Dangles(mem, n) /\ mem = Last1(past)
      BY <1>3, LookupSeesPresent DEF GetByName
    <2>3. Lookup(mem, n) = R!Lookup(Last1(past), n)
      BY <2>2 DEF Lookup, R!Lookup
    <2>4. R!Read(c, n)
      BY <1>3, <2>1, <2>2, <2>3 DEF GetByName, R!Read, Waiting, R!Waiting
    <2> QED
      BY <2>4 DEF R!Next
  <1>4. CASE Recv \/ LockInner \/ WriteHeader
    <2>1. worker.pc # "apply" /\ worker'.pc # "apply" /\ UNCHANGED <<past, client>>
      BY <1>0, <1>4 DEF Recv, LockInner, WriteHeader
    <2>2. UNCHANGED <<Last1(past), Committed>>
      BY <2>1 DEF Last1, Committed
    <2> QED
      BY <2>1, <2>2
  <1>5. CASE WritePayload
    <2> DEFINE c == worker.client
    <2>1. /\ c \in Clients /\ client[c].st = "waiting" /\ Request \in BasicOps
          /\ ApplyOp(Last1(past), Request) \in InnerStates
      BY <1>0, <1>5, RequestTyped DEF WritePayload, TypeInv, CallInv
    <2>2. Last1(past)' = R!ApplyOp(Last1(past), client[c].op)
      <3>1. Last1(past') = ApplyOp(Last1(past), Request)
        BY <1>0, <1>5, <2>1, AppendFacts DEF WritePayload, Last1
      <3> QED
        BY <2>1, <3>1, SameApplyOp DEF Last1, Request
    <2>3. c \notin Committed /\ Committed' = Committed \cup {c}
      BY <1>0, <1>5, <2>1 DEF WritePayload, Committed
    <2>4. R!Commit(c)
      BY <1>5, <2>1, <2>2, <2>3 DEF WritePayload, R!Commit
    <2> QED
      BY <2>1, <2>4 DEF R!Next
  <1>6. CASE ApplyOperation \/ WriteFails
    <2> DEFINE c == worker.client
    <2>1. c \in Clients /\ client[c].st = "waiting" /\ UNCHANGED Last1(past)
      BY <1>0, <1>6 DEF ApplyOperation, WriteFails, TypeInv, CallInv, Last1
    <2>2. Committed' = Committed \ {c}
      BY <1>0, <1>6 DEF ApplyOperation, WriteFails, Committed, NoRequest
    <2>3. client' = [client EXCEPT ![c] =
                       [R!Idle EXCEPT !.st = IF c \in Committed THEN "ok" ELSE "err"]]
      BY <1>6, <2>1 DEF ApplyOperation, WriteFails, Committed, Idle, R!Idle
    <2>4. R!Answer(c)
      BY <2>1, <2>2, <2>3 DEF R!Answer
    <2> QED
      BY <2>1, <2>4 DEF R!Next
  <1>7. CASE Crash
    <2>1. UNCHANGED Last1(past) /\ Committed' = {}
      BY <1>7 DEF Crash, Last1, Committed, NoRequest
    <2>2. R!Crash
      BY <1>7, <2>1 DEF Crash, R!Crash, Idle, R!Idle
    <2> QED
      BY <2>2 DEF R!Next
  <1>8. CASE \/ \E k \in 1 .. Len(inflight) : PayloadLands(k) \/ PayloadLost(k)
             \/ SnapshotTick \/ Snapshot \/ SnapshotFails
             \/ CleanupTick \/ Cleanup \/ CleanupFails
             \/ Restart \/ ReplayOne \/ Started \/ UNCHANGED vars
    BY <1>s, <1>8 DEF PayloadLands, PayloadLost, SnapshotTick, Snapshot, CreateTmp, FillTmp,
       RenameTmp, SnapshotFails, CleanupTick, Cleanup, PurgeSnapshot, RotateWal,
       CleanupFails, Restart, ReplayOne, Started, vars
  <1> QED
    BY <1>1, <1>2, <1>3, <1>4, <1>5, <1>6, <1>7, <1>8 DEF Next, Serve

\* The storage keeps its promise: calls and lookups take effect at one instant each,
\* an error means no effect, and no crash takes back what was committed (execute,
\* get_meta_by_name, recover_state).
THEOREM ImplementsRegistry == ASSUME Ops \subseteq BasicOps, ~ArchiveDir
                              PROVE  Spec => RefinesRegistry
  <1>1. Init => R!Init /\ LockInv
    BY RefinementInit DEF Init, LockInv, NoRequest
  <1>2. TypeInv /\ SafeInv /\ LockInv /\ [Next]_vars => LockInv'
    BY LockStep DEF TypeInv
  <1>3. TypeInv /\ SafeInv /\ LockInv /\ [Next]_vars
          => [R!Next]_<<Last1(past), client, Committed>>
    BY RefinementStep
  <1> QED
    BY <1>1, <1>2, <1>3, SafeInvariant, PTL DEF Spec, RefinesRegistry, R!Spec, R!vars
=============================================================================
