------------------------- MODULE MaintenanceProofs -------------------------
(***************************************************************************)
(* Safety of the storage with its log compacted, verified and rotated, for *)
(* any number of clients, ids, names and operations, any number and index  *)
(* of compactions, and with or without the archive directory.              *)
(*                                                                         *)
(* One hypothesis stands in the theorems, Ops \subseteq BasicOps, for the  *)
(* reason that MetaStorageProofs gives.                                    *)
(***************************************************************************)
EXTENDS Maintenance, MetaStorageProofs

-----------------------------------------------------------------------------
(* The upkeep.                                                             *)

UpkeepTypes ==
    /\ compactor \in [pc : {"rest", "compact", "verify", "rename"},
                      kept : Seq(Cells), count : Nat]
    /\ tail \in [at : Nat, op : Cells \cup {NONE}]
    /\ compactions \in Nat /\ dropped \in Nat
    /\ covered \in BOOLEAN /\ overtaken \in BOOLEAN

\* Upkeep holds the mutex from its first look at the log to the last, and both it and
\* the tail end with the daemon.
UpkeepLock ==
    /\ compactor.pc # "rest" => lock = "upkeep" /\ life = "up"
    /\ life # "up" => tail = NoTail

\* The place of the tail is in the log or at its end.
TailPlace ==
    tail # NoTail => tail.op \in Cells /\ tail.at \in Nat \ {0} /\ tail.at <= Len(wal) + 1

\* The states of past follow each other.
PastInv ==
    /\ Len(past) = Len(hist) + 1
    /\ \A k \in 1 .. Len(hist) : past[k + 1] = ApplyOp(past[k], hist[k])

\* The operations that the log should hold.
Due == Len(hist) - dropped

\* A log that alternates holds what is due, but for the last payload, which is on
\* its way or lost, or for a prefix too many.
TailInv ==
    Alternating(wal) =>
        /\ dropped <= Len(hist)
        /\ \A k \in 1 .. (Len(wal) \div 2) : k <= Due /\ wal[2 * k] = hist[dropped + k]
        /\ \/ /\ Len(wal) \in {2 * Due, 2 * Due + 1}
              /\ inflight = <<>> /\ tail = NoTail
              /\ worker.pc = "payload" => Len(wal) = 2 * Due + 1
           \/ /\ Len(wal) = 2 * Due - 1 /\ worker.pc # "payload"
              /\ \/ tail = NoTail /\ inflight = <<>>
                 \/ tail = NoTail /\ inflight = <<hist[Len(hist)]>>
                 \/ tail = [at |-> 2 * Due, op |-> hist[Len(hist)]] /\ inflight = <<>>

\* Where the tail will land there is something already, or the end of a log that
\* alternates.
PlaceInv == tail # NoTail => Alternating(wal) \/ Len(wal) >= tail.at

\* A compaction renames what it has read.
ReadInv ==
    compactor.pc = "rename" =>
        /\ Parses(wal)
        /\ \E k \in Nat : /\ compactor.kept = Kept(k)
                          /\ compactor.count = Min({k + 1, Len(wal) \div 2})

LogInv == ~overtaken => dropped <= Len(hist) /\ TailInv /\ PlaceInv /\ ReadInv

Kinds == TypeInv /\ LockInv /\ UpkeepTypes /\ UpkeepLock /\ TailPlace

MaintInv == Kinds /\ PastInv /\ LogInv

-----------------------------------------------------------------------------
(* Types and the mutex.                                                    *)

\* Ordinary steps, rotations and deaths are steps of the storage.
LEMMA StorageSteps == Ordinary \/ Rotation \/ Death => Next
  BY DEF Ordinary, Rotation, Death, Next, Cleanup

LEMMA KindsInit ==
  ASSUME MaintInit
  PROVE  TypeInv /\ LockInv /\ UpkeepTypes /\ UpkeepLock
  <1>1. TypeInv
    BY TypeInit DEF MaintInit
  <1>2. LockInv
    BY DEF MaintInit, Init, LockInv, NoRequest
  <1>3. UpkeepTypes
    BY EmptySeq DEF MaintInit, UpkeepTypes, Resting, NoTail
  <1>4. UpkeepLock
    BY DEF MaintInit, UpkeepLock, Resting
  <1> QED
    BY <1>1, <1>2, <1>3, <1>4

\* Who takes the mutex finds it free, and who lets go of it had it.
LEMMA OrdinaryLock ==
  ASSUME TypeInv, LockInv, UpkeepLock, Ordinary, UNCHANGED upkeep
  PROVE  UpkeepLock'
  <1> USE DEF UpkeepLock, upkeep
  <1>1. CASE lock' = lock /\ life' = life
    BY <1>1
  <1>2. CASE LockInner \/ SnapshotTick \/ CleanupTick
    BY <1>2 DEF LockInner, SnapshotTick, CleanupTick
  <1>3. CASE ApplyOperation \/ WriteFails
    BY <1>3 DEF ApplyOperation, WriteFails, LockInv
  <1>4. CASE RenameTmp \/ SnapshotFails \/ CleanupFails
    BY <1>4 DEF RenameTmp, SnapshotFails, CleanupFails, LockInv
  <1>5. CASE Restart \/ Started
    BY <1>5 DEF Restart, Started
  <1>6. CASE \/ \E c \in Clients : Send(c) \/ \E op \in Ops : Execute(c, op)
             \/ Recv \/ WriteHeader \/ WritePayload
             \/ \E k \in 1 .. Len(inflight) : PayloadLands(k) \/ PayloadLost(k)
             \/ CreateTmp \/ FillTmp \/ PurgeSnapshot \/ ReplayOne
    BY <1>1, <1>6 DEF Send, Execute, Recv, WriteHeader, WritePayload, PayloadLands,
       PayloadLost, CreateTmp, FillTmp, PurgeSnapshot, ReplayOne, tasks
  <1> QED
    BY <1>2, <1>3, <1>4, <1>5, <1>6 DEF Ordinary, Serve, Snapshot

\* The smaller of two numbers.
LEMMA TwoMin ==
  ASSUME NEW a \in Nat, NEW b \in Nat
  PROVE  Min({a, b}) = IF a <= b THEN a ELSE b
  BY DEF Min

\* A sequence without its last element.
LEMMA FrontFacts ==
  ASSUME NEW S, NEW s \in Seq(S), s # <<>>
  PROVE  /\ Front(s) \in Seq(S) /\ Last(s) \in S /\ Last(s) = s[Len(s)]
         /\ Len(Front(s)) = Len(s) - 1
         /\ \A j \in 1 .. Len(s) - 1 : Front(s)[j] = s[j]
  <1>1. Len(s) \in Nat \ {0} /\ \A j \in 1 .. Len(s) : s[j] \in S
    BY EmptySeq, LenProperties, ElementOfSeq
  <1>2. PICK m \in Nat : Len(s) = m + 1
    <2>1. Len(s) - 1 \in Nat /\ Len(s) = (Len(s) - 1) + 1
      BY <1>1
    <2> QED
      BY <2>1
  <1>3. Len(s) - 1 = m /\ \A j \in 1 .. m : s[j] \in S
    BY <1>1, <1>2
  <1>4. /\ SubSeq(s, 1, m) \in Seq(S)
        /\ Len(SubSeq(s, 1, m)) = IF 1 <= m THEN m - 1 + 1 ELSE 0
        /\ \A j \in 1 .. m - 1 + 1 : SubSeq(s, 1, m)[j] = s[1 + j - 1]
    BY <1>3, SubSeqProperties
  <1>5. Len(SubSeq(s, 1, m)) = m /\ \A j \in 1 .. m : SubSeq(s, 1, m)[j] = s[j]
    BY <1>4
  <1> QED
    BY <1>1, <1>3, <1>4, <1>5 DEF Front, Last

LEMMA WholeSeq == ASSUME NEW S, NEW s \in Seq(S) PROVE SubSeq(s, 1, Len(s)) = s
  OBVIOUS

\* What a compaction with index k leaves.
LEMMA KeptFacts ==
  ASSUME wal \in Seq(Cells), NEW k \in Nat
  PROVE  /\ Kept(k) \in Seq(Cells)
         /\ Len(Kept(k)) = IF 2 * k + 2 < Len(wal) THEN Len(wal) - 2 * k - 2 ELSE 0
         /\ \A j \in 1 .. Len(Kept(k)) : Kept(k)[j] = wal[2 * k + 2 + j]
  <1>0. Len(wal) \in Nat /\ 2 * k + 3 \in Int /\ Len(wal) \in Int
    BY LenProperties
  <1>1. \A j \in 2 * k + 3 .. Len(wal) : wal[j] \in Cells
    BY <1>0, ElementOfSeq
  <1>2. /\ SubSeq(wal, 2 * k + 3, Len(wal)) \in Seq(Cells)
        /\ Len(SubSeq(wal, 2 * k + 3, Len(wal))) =
             IF 2 * k + 3 <= Len(wal) THEN Len(wal) - (2 * k + 3) + 1 ELSE 0
        /\ \A j \in 1 .. Len(wal) - (2 * k + 3) + 1 :
             SubSeq(wal, 2 * k + 3, Len(wal))[j] = wal[2 * k + 3 + j - 1]
    BY <1>0, <1>1, SubSeqProperties
  <1> QED
    BY <1>0, <1>2 DEF Kept

\* The log after its tail has landed: at its end, if that is its place.
LEMMA LandedFacts ==
  ASSUME wal \in Seq(Cells), TailPlace, TailLands
  PROVE  /\ wal' \in Seq(Cells)
         /\ Len(wal) < tail.at => wal' = Append(wal, tail.op)
  <1>0. /\ Len(wal) \in Nat /\ tail.op \in Cells /\ tail.at \in Nat \ {0}
        /\ tail.at <= Len(wal) + 1
    BY LenProperties DEF TailPlace, TailLands
  <1>1. PICK last \in (IF Len(wal) < tail.at THEN {Len(wal)} ELSE tail.at .. Len(wal)) :
           wal' = SubSeq(wal, 1, tail.at - 1) \o <<tail.op>> \o SubSeq(wal, last + 1, Len(wal))
    BY DEF TailLands
  <1>2. last \in Nat /\ last <= Len(wal)
    BY <1>0
  <1> DEFINE a == SubSeq(wal, 1, tail.at - 1)
             b == SubSeq(wal, last + 1, Len(wal))
  <1>3. a \in Seq(Cells)
    <2>1. \A j \in 1 .. tail.at - 1 : wal[j] \in Cells
      BY <1>0, ElementOfSeq
    <2> QED
      BY <1>0, <2>1, SubSeqProperties
  <1>4. b \in Seq(Cells)
    <2>1. \A j \in last + 1 .. Len(wal) : wal[j] \in Cells
      BY <1>0, <1>2, ElementOfSeq
    <2> QED
      BY <1>0, <1>2, <2>1, SubSeqProperties
  <1>5. ASSUME Len(wal) < tail.at
        PROVE  a = wal /\ b = <<>>
    <2>1. last = Len(wal) /\ tail.at - 1 = Len(wal)
      BY <1>0, <1>5
    <2>2. b = <<>>
      BY <1>0, <2>1, SubSeqEmpty
    <2>3. a = wal
      BY <2>1, WholeSeq
    <2> QED
      BY <2>2, <2>3
  <1> HIDE DEF a, b
  <1>6. <<tail.op>> \in Seq(Cells)
    BY <1>0
  <1>7. wal' = a \o <<tail.op>> \o b
    BY <1>1 DEF a, b
  <1>8. wal' \in Seq(Cells)
    BY <1>3, <1>4, <1>6, <1>7, ConcatProperties
  <1>9. ASSUME Len(wal) < tail.at
        PROVE  wal' = Append(wal, tail.op)
    BY <1>0, <1>5, <1>6, <1>7, <1>9
  <1> QED
    BY <1>8, <1>9

\* What upkeep does to the rest of the storage: to its log, its mutex, its faults.
LEMMA UpkeepStep ==
  ASSUME TypeInv, LockInv, UpkeepTypes, UpkeepLock, life = "up",
         wal' \in Seq(Cells), inflight' \in Seq(Ops), faults' \in Nat,
         \/ lock' = lock
         \/ lock = "free" /\ lock' = "upkeep"
         \/ lock = "upkeep" /\ lock' = "free",
         UNCHANGED <<archives, snaps, tmp, life, mem, queue, worker, snapper, cleaner, ri,
                     client, hist, past, used, seen, asked>>
  PROVE  TypeInv' /\ LockInv'
  <1>1. TypeOK'
    BY DEF TypeInv, TypeOK
  <1>2. CallInv'
    BY DEF TypeInv, CallInv, Waiting
  <1>3. StageInv'
    BY DEF TypeInv, StageInv
  <1>4. LockInv'
    BY DEF LockInv
  <1> QED
    BY <1>1, <1>2, <1>3, <1>4 DEF TypeInv

LEMMA KindsStep ==
  ASSUME MaintInv, Ops \subseteq BasicOps, [MaintNext]_maintVars
  PROVE  (TypeInv /\ LockInv /\ UpkeepTypes /\ UpkeepLock)'
  <1> USE DEF disk, tasks, ghost
  <1>0. /\ TypeInv /\ TypeOK /\ LockInv /\ UpkeepTypes /\ UpkeepLock /\ TailPlace
        /\ wal \in Seq(Cells) /\ inflight \in Seq(Ops) /\ faults \in Nat
    BY DEF MaintInv, Kinds, TypeInv, TypeOK
  <1>s. ASSUME [Next]_vars
        PROVE  TypeInv' /\ LockInv'
    BY <1>0, <1>s, TypeStep, CallStep, StageStep, LockStep DEF TypeInv
  <1>1. CASE Ordinary /\ UNCHANGED upkeep
    <2>1. TypeInv' /\ LockInv'
      BY <1>s, <1>1, StorageSteps
    <2>2. UpkeepTypes'
      BY <1>0, <1>1 DEF UpkeepTypes, upkeep
    <2> QED
      BY <1>0, <1>1, <2>1, <2>2, OrdinaryLock
  <1>2. CASE Rotation
    <2>1. TypeInv' /\ LockInv'
      BY <1>s, <1>2, StorageSteps
    <2>2. Len(hist) \in Nat
      BY <1>0, LenProperties DEF TypeOK
    <2>c. covered' \in BOOLEAN
      BY <1>0, <1>2 DEF Rotation, Forget, UpkeepTypes
    <2>3. UpkeepTypes'
      BY <1>0, <1>2, <2>2, <2>c DEF Rotation, UpkeepTypes, Forget, NoTail
    <2>4. UpkeepLock'
      BY <1>0, <1>2 DEF Rotation, RotateWal, UpkeepLock, LockInv
    <2> QED
      BY <2>1, <2>3, <2>4
  <1>3. CASE Death
    <2>1. TypeInv' /\ LockInv'
      BY <1>s, <1>3, StorageSteps
    <2>2. UpkeepTypes'
      BY <1>0, <1>3, EmptySeq DEF Death, UpkeepTypes, Resting, NoTail
    <2>3. UpkeepLock'
      BY <1>3 DEF Death, UpkeepLock, Resting
    <2> QED
      BY <2>1, <2>2, <2>3
  <1>4. ASSUME NEW step \in {"compact", "verify"}, LockForUpkeep(step)
        PROVE  (TypeInv /\ LockInv /\ UpkeepTypes /\ UpkeepLock)'
    <2>1. TypeInv' /\ LockInv'
      BY <1>0, <1>4, UpkeepStep DEF LockForUpkeep
    <2>2. UpkeepTypes'
      BY <1>0, <1>4 DEF LockForUpkeep, UpkeepTypes
    <2>3. UpkeepLock'
      BY <1>0, <1>4 DEF LockForUpkeep, UpkeepLock
    <2> QED
      BY <2>1, <2>2, <2>3
  <1>5. ASSUME NEW k \in 0 .. MaxOps, Rewrite(k)
        PROVE  (TypeInv /\ LockInv /\ UpkeepTypes /\ UpkeepLock)'
    <2>1. life = "up"
      BY <1>0, <1>5 DEF Rewrite, UpkeepLock
    <2>2. TypeInv' /\ LockInv'
      BY <1>0, <1>5, <2>1, UpkeepStep DEF Rewrite, vars
    <2>3. k \in Nat /\ Kept(k) \in Seq(Cells)
      BY <1>0, KeptFacts, ConfigAssumption
    <2>4. Min({k + 1, Len(wal) \div 2}) \in Nat
      BY <1>0, <2>3, TwoMin, LenProperties
    <2>5. UpkeepTypes'
      BY <1>0, <1>5, <2>3, <2>4 DEF Rewrite, UpkeepTypes
    <2>6. UpkeepLock'
      BY <1>0, <1>5, <2>1 DEF Rewrite, UpkeepLock, vars
    <2> QED
      BY <2>2, <2>5, <2>6
  <1>6. CASE ReadOnly \/ UpkeepFails
    <2>1. life = "up" /\ lock = "upkeep"
      BY <1>0, <1>6 DEF ReadOnly, UpkeepFails, UpkeepLock
    <2>2. TypeInv' /\ LockInv'
      BY <1>0, <1>6, <2>1, UpkeepStep DEF ReadOnly, UpkeepFails, Release, Fault
    <2>3. UpkeepTypes'
      <3>1. compactor' = Resting /\ UNCHANGED <<tail, compactions, dropped, covered, overtaken>>
        BY <1>6 DEF ReadOnly, UpkeepFails
      <3> QED
        BY <1>0, <3>1, EmptySeq DEF UpkeepTypes, Resting
    <2>4. UpkeepLock'
      BY <1>0, <1>6, <2>1 DEF ReadOnly, UpkeepFails, UpkeepLock, Resting
    <2> QED
      BY <2>2, <2>3, <2>4
  <1>7. CASE RenameCompacted
    <2>1. life = "up" /\ lock = "upkeep"
      BY <1>0, <1>7 DEF RenameCompacted, UpkeepLock
    <2>2. /\ wal' \in Seq(Cells) /\ inflight' = <<>>
          /\ tail' \in [at : Nat, op : Cells \cup {NONE}]
      <3>1. CASE compactor.kept = <<>>
        BY <1>7, <3>1, EmptySeq DEF RenameCompacted, NoTail
      <3>2. CASE compactor.kept # <<>>
        <4>1. compactor.kept \in Seq(Cells)
          BY <1>0 DEF UpkeepTypes
        <4>2. /\ Front(compactor.kept) \in Seq(Cells) /\ Last(compactor.kept) \in Cells
              /\ Len(compactor.kept) \in Nat
          BY <3>2, <4>1, FrontFacts, LenProperties
        <4> QED
          BY <1>7, <3>2, <4>2 DEF RenameCompacted
      <3> QED
        BY <3>1, <3>2
    <2>3. TypeInv' /\ LockInv'
      <3>1. inflight' \in Seq(Ops)
        BY <2>2, EmptySeq
      <3> QED
        BY <1>0, <1>7, <2>1, <2>2, <3>1, UpkeepStep DEF RenameCompacted, Release
    <2>c. covered' \in BOOLEAN
      BY <1>0, <1>7 DEF RenameCompacted, Forget, UpkeepTypes
    <2>4. UpkeepTypes'
      BY <1>0, <1>7, <2>2, <2>c, EmptySeq DEF RenameCompacted, UpkeepTypes, Resting, Forget
    <2>5. UpkeepLock'
      BY <1>7, <2>1 DEF RenameCompacted, UpkeepLock, Resting
    <2> QED
      BY <2>3, <2>4, <2>5
  <1>8. CASE TailLands \/ TailLost
    <2>1. life = "up"
      BY <1>0, <1>8 DEF TailLands, TailLost, UpkeepLock
    <2>2. wal' \in Seq(Cells)
      <3>1. CASE TailLost
        BY <1>0, <3>1 DEF TailLost
      <3>2. CASE TailLands
        BY <1>0, <3>2, LandedFacts
      <3> QED
        BY <1>8, <3>1, <3>2
    <2>3. TypeInv' /\ LockInv'
      BY <1>0, <1>8, <2>1, <2>2, UpkeepStep DEF TailLands, TailLost, Fault
    <2>o. overtaken' \in BOOLEAN
      BY <1>0, <1>8 DEF TailLands, TailLost, UpkeepTypes
    <2>4. UpkeepTypes'
      BY <1>0, <1>8, <2>o DEF TailLands, TailLost, UpkeepTypes, NoTail
    <2>5. UpkeepLock'
      BY <1>0, <1>8 DEF TailLands, TailLost, UpkeepLock
    <2> QED
      BY <2>3, <2>4, <2>5
  <1>9. CASE UNCHANGED maintVars
    <2>1. TypeInv' /\ LockInv'
      BY <1>s, <1>9 DEF maintVars
    <2> QED
      BY <1>0, <1>9, <2>1 DEF maintVars, vars, upkeep, UpkeepTypes, UpkeepLock
  <1> QED
    BY <1>1, <1>2, <1>3, <1>4, <1>5, <1>6, <1>7, <1>8, <1>9 DEF MaintNext

-----------------------------------------------------------------------------
(* The place of the tail, and the past.                                    *)

\* The steps of the storage that leave the log and what is on its way to it alone.
Silent == /\ UNCHANGED <<wal, inflight, hist>>
          /\ worker'.pc = "payload" => worker.pc = "payload"

Writing == \/ WriteHeader \/ WriteFails \/ WritePayload
           \/ \E k \in 1 .. Len(inflight) : PayloadLands(k) \/ PayloadLost(k)

LEMMA OrdinaryWrites ==
  ASSUME TypeOK, Ordinary
  PROVE  Silent \/ Writing
  <1> USE DEF disk, tasks, ghost
  <1>1. CASE \/ \E c \in Clients : Send(c) \/ \E op \in Ops : Execute(c, op)
             \/ SnapshotTick \/ Snapshot \/ SnapshotFails
             \/ CleanupTick \/ PurgeSnapshot \/ CleanupFails
             \/ Restart \/ ReplayOne \/ Started
    BY <1>1 DEF Silent, Send, Execute, SnapshotTick, Snapshot, CreateTmp, FillTmp, RenameTmp,
       SnapshotFails, CleanupTick, PurgeSnapshot, CleanupFails, Restart, ReplayOne, Started
  <1>2. CASE Recv \/ LockInner \/ ApplyOperation
    <2>1. worker'.pc # "payload"
      BY <1>2 DEF TypeOK, Recv, LockInner, ApplyOperation, NoRequest
    <2> QED
      BY <1>2, <2>1 DEF Silent, Recv, LockInner, ApplyOperation
  <1> QED
    BY <1>1, <1>2 DEF Ordinary, Serve, Writing

\* The log grows, and its tail keeps its place, until both are replaced.
LEMMA PlaceStep ==
  ASSUME MaintInv, [MaintNext]_maintVars
  PROVE  TailPlace'
  <1> USE DEF disk, tasks, ghost, vars, maintVars, upkeep
  <1>0. /\ TypeOK /\ TailPlace /\ wal \in Seq(Cells) /\ inflight \in Seq(Ops)
        /\ Len(wal) \in Nat /\ LEN \in Cells
    BY LenProperties DEF MaintInv, Kinds, TypeInv, TypeOK, Cells
  <1>g. ASSUME tail' = tail, wal' = wal \/ \E x \in Cells : wal' = Append(wal, x)
        PROVE  TailPlace'
    <2>1. Len(wal') \in {Len(wal), Len(wal) + 1}
      BY <1>0, <1>g, AppendFacts
    <2> QED
      BY <1>0, <1>g, <2>1 DEF TailPlace
  <1>1. CASE Ordinary /\ UNCHANGED upkeep
    <2>1. CASE Silent
      BY <1>1, <1>g, <2>1 DEF Silent
    <2>2. CASE WriteHeader \/ WriteFails \/ WritePayload
      BY <1>0, <1>1, <1>g, <2>2 DEF WriteHeader, WriteFails, WritePayload
    <2>3. ASSUME NEW k \in 1 .. Len(inflight), PayloadLands(k) \/ PayloadLost(k)
          PROVE  TailPlace'
      <3>1. inflight[k] \in Cells
        BY <1>0, ElementOfSeq DEF Cells
      <3> QED
        BY <1>1, <1>g, <2>3, <3>1 DEF PayloadLands, PayloadLost
    <2> QED
      BY <1>0, <1>1, <2>1, <2>2, <2>3, OrdinaryWrites DEF Writing
  <1>2. CASE tail' = NoTail
    BY <1>2 DEF TailPlace
  <1>3. CASE wal' = wal /\ tail' = tail
    BY <1>3, <1>g
  <1>4. CASE Rotation
    <2>1. (wal' = wal /\ tail' = tail) \/ tail' = NoTail
      BY <1>4 DEF Rotation, RotateWal
    <2> QED
      BY <1>2, <1>3, <2>1
  <1>5. CASE RenameCompacted
    <2>1. compactor.kept \in Seq(Cells)
      BY DEF MaintInv, Kinds, UpkeepTypes
    <2>2. CASE compactor.kept # <<>>
      <3>1. /\ wal' = Front(compactor.kept)
            /\ tail' = [at |-> Len(compactor.kept), op |-> Last(compactor.kept)]
        BY <1>5, <2>2 DEF RenameCompacted
      <3>2. /\ Last(compactor.kept) \in Cells
            /\ Len(Front(compactor.kept)) = Len(compactor.kept) - 1
            /\ Len(compactor.kept) \in Nat \ {0}
        BY <2>1, <2>2, FrontFacts, EmptySeq
      <3> QED
        BY <3>1, <3>2 DEF TailPlace
    <2> QED
      BY <1>2, <1>5, <2>2 DEF RenameCompacted
  <1>6. CASE \/ \E step \in {"compact", "verify"} : LockForUpkeep(step)
             \/ \E k \in 0 .. MaxOps : Rewrite(k)
             \/ ReadOnly \/ UpkeepFails
    BY <1>3, <1>6 DEF LockForUpkeep, Rewrite, ReadOnly, UpkeepFails
  <1> QED
    BY <1>1, <1>2, <1>3, <1>4, <1>5, <1>6 DEF MaintNext, Death, TailLands, TailLost

\* Only WritePayload makes history.
LEMMA PastStays ==
  ASSUME [MaintNext]_maintVars, ~WritePayload
  PROVE  UNCHANGED <<hist, past>>
  <1> USE DEF disk, tasks, ghost, vars, maintVars
  <1>1. [Next]_vars => UNCHANGED <<hist, past>>
    BY HistStays
  <1>2. CASE Ordinary \/ Rotation \/ Death \/ UNCHANGED maintVars
    BY <1>1, <1>2, StorageSteps
  <1>3. CASE \/ \E step \in {"compact", "verify"} : LockForUpkeep(step)
             \/ \E k \in 0 .. MaxOps : Rewrite(k)
             \/ ReadOnly \/ RenameCompacted \/ UpkeepFails \/ TailLands \/ TailLost
    BY <1>3 DEF LockForUpkeep, Rewrite, ReadOnly, RenameCompacted, UpkeepFails, TailLands,
       TailLost
  <1> QED
    BY <1>2, <1>3 DEF MaintNext

\* The past is the fold of the history.
LEMMA PastStep ==
  ASSUME TypeInv, PastInv, Ops \subseteq BasicOps, [MaintNext]_maintVars
  PROVE  PastInv'
  <1>0. /\ hist \in Seq(Ops) /\ past \in Seq(InnerStates) /\ Len(hist) \in Nat
        /\ Len(past) = Len(hist) + 1
        /\ \A k \in 1 .. Len(hist) : past[k + 1] = ApplyOp(past[k], hist[k])
    BY LenProperties DEF TypeInv, TypeOK, PastInv
  <1>1. CASE WritePayload
    <2>1. /\ hist' = Append(hist, Request) /\ past' = Append(past, ApplyOp(Last1(past), Request))
          /\ Request \in Ops /\ ApplyOp(Last1(past), Request) \in InnerStates
      BY <1>1, RequestTyped DEF WritePayload
    <2>2. /\ Len(hist') = Len(hist) + 1 /\ hist'[Len(hist) + 1] = Request
          /\ \A k \in 1 .. Len(hist) : hist'[k] = hist[k]
      BY <1>0, <2>1, AppendFacts
    <2>3. /\ Len(past') = Len(past) + 1
          /\ past'[Len(past) + 1] = ApplyOp(past[Len(past)], Request)
          /\ \A k \in 1 .. Len(past) : past'[k] = past[k]
      BY <1>0, <2>1, AppendFacts DEF Last1
    <2>4. ASSUME NEW k \in 1 .. Len(hist')
          PROVE  past'[k + 1] = ApplyOp(past'[k], hist'[k])
      <3>1. CASE k \in 1 .. Len(hist)
        <4>1. k \in 1 .. Len(past) /\ k + 1 \in 1 .. Len(past)
          BY <1>0, <3>1
        <4> QED
          BY <1>0, <2>2, <2>3, <3>1, <4>1
      <3>2. CASE k = Len(past)
        <4>1. k \in 1 .. Len(past) /\ k = Len(hist) + 1
          BY <1>0, <3>2
        <4> QED
          BY <2>2, <2>3, <3>2, <4>1
      <3> QED
        BY <1>0, <2>2, <3>1, <3>2
    <2> QED
      BY <1>0, <2>2, <2>3, <2>4 DEF PastInv
  <1>2. CASE UNCHANGED <<hist, past>>
    BY <1>2 DEF PastInv
  <1> QED
    BY <1>1, <1>2, PastStays

-----------------------------------------------------------------------------
(* The log.                                                                *)

LEMMA Halves ==
  ASSUME NEW n \in Nat, NEW d \in Int
  PROVE  /\ n = 2 * d => n \div 2 = d /\ n % 2 = 0
         /\ n = 2 * d + 1 => n \div 2 = d /\ n % 2 = 1
         /\ n = 2 * d - 1 => n \div 2 = d - 1 /\ n % 2 = 1
  OBVIOUS

\* The facts about types that the steps below use.
LEMMA LogFacts ==
  ASSUME MaintInv
  PROVE  /\ TypeInv /\ TypeOK /\ LockInv /\ UpkeepTypes /\ UpkeepLock /\ TailPlace /\ LogInv
         /\ wal \in Seq(Cells) /\ inflight \in Seq(Ops) /\ hist \in Seq(Ops)
         /\ Len(wal) \in Nat /\ Len(hist) \in Nat /\ dropped \in Nat /\ Due \in Int
         /\ LEN \in Cells /\ Len(inflight) \in Nat
         /\ worker \in [pc : {"recv", "lock", "header", "payload", "apply"},
                        client : Clients \cup {NONE}]
         /\ overtaken \in BOOLEAN
  <1>1. Len(hist) \in Nat /\ dropped \in Nat
    BY LenProperties DEF MaintInv, Kinds, TypeInv, TypeOK, UpkeepTypes
  <1> QED
    BY <1>1, LenProperties DEF MaintInv, Kinds, TypeInv, TypeOK, Cells, UpkeepTypes, Due

\* A step that leaves the log, the history and the tail alone.
LEMMA SilentStep ==
  ASSUME MaintInv, ~overtaken, Silent, UNCHANGED <<dropped, tail>>
  PROVE  dropped' <= Len(hist') /\ TailInv' /\ PlaceInv'
  <1>1. dropped <= Len(hist) /\ TailInv /\ PlaceInv
    BY LogFacts DEF LogInv
  <1>2. PlaceInv'
    BY <1>1 DEF Silent, PlaceInv, Alternating
  <1>3. Alternating(wal)' => Alternating(wal)
    BY DEF Silent, Alternating
  <1>4. Due' = Due
    BY DEF Silent, Due
  <1>5. TailInv'
    BY <1>1, <1>3, <1>4 DEF Silent, TailInv
  <1> QED
    BY <1>1, <1>2, <1>5 DEF Silent

\* Nobody writes while a compaction is between its reading and its renaming.
LEMMA RenamingAlone ==
  ASSUME MaintInv, ~overtaken, compactor.pc = "rename"
  PROVE  /\ inflight = <<>> /\ tail = NoTail /\ Len(wal) = 2 * Due /\ TailInv
         /\ lock = "upkeep" /\ worker.pc \notin {"header", "payload", "apply"}
         /\ cleaner = "sleep" /\ snapper = "sleep" /\ life = "up"
  <1>0. TailInv /\ ReadInv /\ UpkeepLock /\ LockInv
    BY LogFacts DEF LogInv
  <1>1. Alternating(wal) /\ Len(wal) % 2 = 0
    BY <1>0 DEF ReadInv, Parses
  <1>2. Len(wal) \in Nat /\ Due \in Int
    BY LogFacts
  <1>3. Len(wal) # 2 * Due + 1 /\ Len(wal) # 2 * Due - 1
    BY <1>1, <1>2, Halves
  <1>4. inflight = <<>> /\ tail = NoTail /\ Len(wal) = 2 * Due
    BY <1>0, <1>1, <1>3 DEF TailInv
  <1>5. lock = "upkeep" /\ life = "up"
    BY <1>0 DEF UpkeepLock
  <1> QED
    BY <1>0, <1>4, <1>5 DEF LockInv

\* The steps that write.
LEMMA WritingStep ==
  ASSUME MaintInv, Ops \subseteq BasicOps, ~overtaken, Writing, UNCHANGED <<dropped, tail>>
  PROVE  dropped' <= Len(hist') /\ TailInv' /\ PlaceInv'
  <1>0. /\ dropped <= Len(hist) /\ TailInv /\ PlaceInv /\ TailPlace
        /\ wal \in Seq(Cells) /\ inflight \in Seq(Ops) /\ hist \in Seq(Ops)
        /\ Len(wal) \in Nat /\ Len(hist) \in Nat /\ dropped \in Nat /\ Due \in Nat
        /\ LEN \in Cells /\ Len(inflight) \in Nat
        /\ worker \in [pc : {"recv", "lock", "header", "payload", "apply"},
                       client : Clients \cup {NONE}]
        /\ TypeInv
    BY LogFacts DEF LogInv, Due
  <1>g. ASSUME NEW x \in Cells, wal' = Append(wal, x)
        PROVE  /\ Len(wal') = Len(wal) + 1 /\ wal'[Len(wal) + 1] = x
               /\ \A k \in 1 .. Len(wal) : wal'[k] = wal[k]
               /\ PlaceInv'
               /\ Alternating(wal)' => Alternating(wal) /\ (x = LEN <=> Len(wal) % 2 = 0)
    <2>1. /\ Len(wal') = Len(wal) + 1 /\ wal'[Len(wal) + 1] = x
          /\ \A k \in 1 .. Len(wal) : wal'[k] = wal[k]
      BY <1>0, <1>g, AppendFacts
    <2>2. PlaceInv'
      BY <1>0, <2>1 DEF PlaceInv, TailPlace
    <2>3. Alternating(wal)' => Alternating(wal) /\ (x = LEN <=> Len(wal) % 2 = 0)
      BY <1>0, <1>g, AlternatingAppend
    <2> QED
      BY <2>1, <2>2, <2>3
  <1>1. ASSUME wal' = Append(wal, LEN), UNCHANGED <<inflight, hist>>, worker.pc # "payload"
        PROVE  TailInv' /\ PlaceInv'
    <2>1. ASSUME Alternating(wal)'
          PROVE  TailInv'
      <3>1. Alternating(wal) /\ Len(wal) % 2 = 0
        BY <1>0, <1>1, <1>g, <2>1
      <3>2. Len(wal) = 2 * Due /\ inflight = <<>> /\ tail = NoTail
        BY <1>0, <3>1, Halves DEF TailInv
      <3>3. \A k \in 1 .. Due : wal[2 * k] = hist[dropped + k]
        BY <1>0, <3>1, <3>2, Halves DEF TailInv
      <3>4. Len(wal') = 2 * Due + 1 /\ Len(wal') \div 2 = Due /\ Due' = Due
        <4>1. Len(wal') = 2 * Due + 1 /\ Len(wal') \in Nat
          BY <1>0, <1>1, <1>g, <3>2
        <4>2. Due' = Due
          BY <1>1 DEF Due
        <4> QED
          BY <1>0, <4>1, <4>2, Halves
      <3>5. \A k \in 1 .. Due : 2 * k \in 1 .. Len(wal) /\ k <= Due
        BY <1>0, <3>2
      <3>6. \A k \in 1 .. Due : wal'[2 * k] = hist[dropped + k]
        BY <1>0, <1>1, <1>g, <3>3, <3>5
      <3> QED
        BY <1>0, <1>1, <3>2, <3>4, <3>5, <3>6 DEF TailInv
    <2> QED
      BY <1>0, <1>1, <1>g, <2>1 DEF TailInv
  <1>2. CASE WriteHeader
    BY <1>0, <1>1, <1>2 DEF WriteHeader, ghost
  <1>3. CASE WriteFails
    <2>1. CASE wal' = Append(wal, LEN)
      BY <1>0, <1>1, <1>3, <2>1 DEF WriteFails
    <2>2. CASE wal' = wal
      BY <1>3, <2>2, SilentStep DEF WriteFails, Silent, NoRequest
    <2> QED
      BY <1>3, <2>1, <2>2 DEF WriteFails
  <1>4. CASE WritePayload
    <2>1. /\ wal' = wal /\ inflight' = Append(inflight, Request)
          /\ hist' = Append(hist, Request) /\ worker.pc = "payload" /\ worker'.pc = "apply"
          /\ Request \in Ops
      BY <1>0, <1>4, RequestTyped DEF WritePayload
    <2>2. /\ Len(hist') = Len(hist) + 1 /\ hist'[Len(hist) + 1] = Request
          /\ \A k \in 1 .. Len(hist) : hist'[k] = hist[k]
      BY <1>0, <2>1, AppendFacts
    <2>3. PlaceInv' /\ dropped' <= Len(hist')
      BY <1>0, <2>1, <2>2 DEF PlaceInv, Alternating
    <2>4. ASSUME Alternating(wal)'
          PROVE  TailInv'
      <3>1. Alternating(wal)
        BY <2>1, <2>4 DEF Alternating
      <3>2. Len(wal) = 2 * Due + 1 /\ inflight = <<>> /\ tail = NoTail
        BY <1>0, <2>1, <3>1 DEF TailInv
      <3>3. Len(wal) \div 2 = Due
        BY <1>0, <3>2, Halves
      <3>4. \A k \in 1 .. Due : wal[2 * k] = hist[dropped + k]
        BY <1>0, <3>1, <3>3 DEF TailInv
      <3>5. Due' = Due + 1
        BY <1>0, <2>2 DEF Due
      <3>6. \A k \in 1 .. Due : /\ dropped + k \in 1 .. Len(hist)
                                /\ wal'[2 * k] = hist'[dropped' + k] /\ k <= Due'
        <4>1. \A k \in 1 .. Due : dropped + k \in 1 .. Len(hist)
          BY <1>0 DEF Due
        <4>2. \A k \in 1 .. Due : hist'[dropped + k] = hist[dropped + k]
          BY <2>2, <4>1
        <4>3. \A k \in 1 .. Due : k <= Due'
          BY <1>0, <3>5
        <4> QED
          BY <2>1, <3>4, <4>1, <4>2, <4>3
      <3>7. inflight' = <<hist'[Len(hist')]>>
        BY <1>0, <2>1, <2>2, <3>2
      <3>8. Len(wal') = 2 * Due' - 1 /\ Len(wal') \div 2 = Due
        BY <1>0, <2>1, <3>2, <3>3, <3>5
      <3> QED
        BY <1>0, <2>1, <2>3, <3>2, <3>6, <3>7, <3>8 DEF TailInv
    <2> QED
      BY <2>3, <2>4 DEF TailInv
  <1>5. ASSUME NEW k \in 1 .. Len(inflight), PayloadLands(k) \/ PayloadLost(k)
        PROVE  dropped' <= Len(hist') /\ TailInv' /\ PlaceInv'
    <2>1. /\ UNCHANGED <<hist, worker>> /\ inflight' = RemoveAt(inflight, k)
          /\ Due' = Due
      BY <1>5 DEF PayloadLands, PayloadLost, ghost, tasks, Due
    <2>2. inflight[k] \in Cells /\ inflight[k] # LEN
      BY <1>0, ElementOfSeq, BasicCases DEF Cells, LEN, BasicOps, CreateOps, DeleteOps,
         TouchOps, StatusOps
    <2>3. ASSUME Alternating(wal)
          PROVE  /\ Len(wal) = 2 * Due - 1 /\ worker.pc # "payload" /\ tail = NoTail
                 /\ inflight = <<hist[Len(hist)]>> /\ inflight' = <<>>
                 /\ inflight[k] = hist[Len(hist)]
                 /\ Due >= 1
                 /\ \A j \in 1 .. Due - 1 : wal[2 * j] = hist[dropped + j]
      <3>1. inflight # <<>>
        BY <1>0
      <3>2. /\ Len(wal) = 2 * Due - 1 /\ worker.pc # "payload" /\ tail = NoTail
            /\ inflight = <<hist[Len(hist)]>>
        BY <1>0, <2>3, <3>1 DEF TailInv
      <3>3. k = 1 /\ Len(inflight) = 1 /\ Due >= 1
        BY <1>0, <3>2
      <3>4. inflight' = <<>>
        <4>1. RemoveAt(inflight, k) \in Seq(Ops) /\ Len(RemoveAt(inflight, k)) = 0
          <5>1. /\ RemoveAt(inflight, k) \in Seq(Ops)
                /\ Len(RemoveAt(inflight, k)) = Len(inflight) - 1
            BY <1>0, RemoveAtFacts
          <5> QED
            BY <3>3, <5>1
        <4> QED
          BY <2>1, <4>1, EmptySeq
      <3>5. \A j \in 1 .. Due - 1 : wal[2 * j] = hist[dropped + j]
        <4>1. Len(wal) \div 2 = Due - 1
          BY <1>0, <3>2, Halves
        <4> QED
          BY <1>0, <2>3, <4>1 DEF TailInv
      <3> QED
        BY <3>2, <3>3, <3>4, <3>5
    <2>4. CASE PayloadLost(k)
      <3>1. wal' = wal
        BY <2>4 DEF PayloadLost
      <3>2. PlaceInv'
        BY <1>0, <3>1 DEF PlaceInv, Alternating
      <3>3. TailInv'
        <4>1. Alternating(wal)' => Alternating(wal)
          BY <3>1 DEF Alternating
        <4> QED
          BY <1>0, <2>1, <2>3, <3>1, <4>1 DEF TailInv
      <3> QED
        BY <1>0, <2>1, <3>2, <3>3
    <2>5. CASE PayloadLands(k)
      <3>1. wal' = Append(wal, inflight[k])
        BY <2>5 DEF PayloadLands
      <3>2. /\ Len(wal') = Len(wal) + 1 /\ wal'[Len(wal) + 1] = inflight[k]
            /\ \A j \in 1 .. Len(wal) : wal'[j] = wal[j]
            /\ PlaceInv'
            /\ Alternating(wal)' => Alternating(wal)
        BY <1>g, <2>2, <3>1
      <3>3. ASSUME Alternating(wal)'
            PROVE  TailInv'
        <4>1. Alternating(wal)
          BY <3>2, <3>3
        <4>2. Len(wal') = 2 * Due /\ Len(wal') \div 2 = Due
          <5>1. Len(wal') = 2 * Due /\ Len(wal') \in Nat
            BY <1>0, <2>3, <3>2, <4>1
          <5> QED
            BY <1>0, <5>1, Halves
        <4>3. ASSUME NEW j \in 1 .. Due
              PROVE  wal'[2 * j] = hist[dropped + j]
          <5>1. CASE j \in 1 .. Due - 1
            <6>1. 2 * j \in 1 .. Len(wal)
              BY <1>0, <2>3, <4>1, <5>1
            <6> QED
              BY <2>3, <3>2, <4>1, <5>1, <6>1
          <5>2. CASE j = Due
            <6>1. 2 * j = Len(wal) + 1 /\ dropped + j = Len(hist)
              BY <1>0, <2>3, <4>1, <5>2 DEF Due
            <6> QED
              BY <2>3, <3>2, <4>1, <6>1
          <5> QED
            BY <1>0, <5>1, <5>2
        <4> QED
          BY <1>0, <2>1, <2>3, <4>1, <4>2, <4>3 DEF TailInv
      <3> QED
        BY <1>0, <2>1, <3>2, <3>3 DEF TailInv
    <2> QED
      BY <1>5, <2>4, <2>5
  <1>6. dropped' <= Len(hist') \/ WritePayload \/ \E k \in 1 .. Len(inflight) : PayloadLands(k) \/ PayloadLost(k)
    BY <1>0 DEF Writing, WriteHeader, WriteFails, ghost
  <1> QED
    BY <1>2, <1>3, <1>4, <1>5, <1>6 DEF Writing

\* A compacted log is what is due from then on, but for its tail.
LEMMA RenameStep ==
  ASSUME MaintInv, ~overtaken, RenameCompacted
  PROVE  dropped' <= Len(hist') /\ TailInv' /\ PlaceInv'
  <1>0. /\ ReadInv /\ dropped <= Len(hist) /\ wal \in Seq(Cells)
        /\ Len(wal) \in Nat /\ Len(hist) \in Nat /\ dropped \in Nat /\ Due \in Nat
    BY LogFacts DEF LogInv, Due
  <1>1. /\ inflight = <<>> /\ tail = NoTail /\ Len(wal) = 2 * Due /\ TailInv
        /\ worker.pc # "payload" /\ worker' = worker /\ hist' = hist
        /\ compactor.pc = "rename"
    BY RenamingAlone DEF RenameCompacted, Release, ghost
  <1>2. PICK m \in Nat : /\ compactor.kept = Kept(m)
                         /\ compactor.count = Min({m + 1, Len(wal) \div 2})
    BY <1>0, <1>1 DEF ReadInv
  <1>3. /\ Len(Kept(m)) = IF 2 * m + 2 < Len(wal) THEN Len(wal) - 2 * m - 2 ELSE 0
        /\ \A j \in 1 .. Len(Kept(m)) : Kept(m)[j] = wal[2 * m + 2 + j]
        /\ Kept(m) \in Seq(Cells)
    BY <1>0, KeptFacts
  <1>4. Len(wal) \div 2 = Due /\ compactor.count = IF m + 1 <= Due THEN m + 1 ELSE Due
    BY <1>0, <1>1, <1>2, Halves, TwoMin
  <1>5. inflight' = <<>> /\ dropped' = dropped + compactor.count
    BY DEF RenameCompacted, Forget
  <1>6. Alternating(wal) /\ \A j \in 1 .. Due : wal[2 * j] = hist[dropped + j]
    BY <1>0, <1>1, <1>4 DEF ReadInv, Parses, TailInv
  <1>7. CASE m + 1 >= Due
    <2>1. Len(Kept(m)) = 0 /\ compactor.count = Due
      BY <1>0, <1>1, <1>3, <1>4, <1>7
    <2>2. wal' = <<>> /\ tail' = NoTail
      BY <1>2, <1>3, <2>1, EmptySeq DEF RenameCompacted
    <2>3. dropped' = Len(hist) /\ Due' = 0
      BY <1>0, <1>1, <1>5, <2>1 DEF Due
    <2>4. Len(wal') = 0 /\ Len(wal') \div 2 = 0
      BY <2>2
    <2> QED
      BY <1>0, <1>1, <1>5, <2>2, <2>3, <2>4 DEF TailInv, PlaceInv
  <1>8. CASE m + 1 < Due
    <2> DEFINE n == Due - m - 1
    <2>1. n \in Nat \ {0} /\ compactor.count = m + 1 /\ Len(Kept(m)) = 2 * n
      BY <1>0, <1>1, <1>3, <1>4, <1>8
    <2>2. Kept(m) # <<>>
      <3> HIDE DEF n
      <3>1. Len(Kept(m)) # 0
        BY <2>1
      <3> QED
        BY <3>1
    <2>3. /\ wal' = Front(Kept(m)) /\ tail' = [at |-> 2 * n, op |-> Last(Kept(m))]
      BY <1>2, <2>1, <2>2 DEF RenameCompacted
    <2>4. /\ Last(Kept(m)) = Kept(m)[2 * n] /\ Len(wal') = 2 * n - 1
          /\ \A j \in 1 .. 2 * n - 1 : wal'[j] = Kept(m)[j]
      BY <1>3, <2>1, <2>2, <2>3, FrontFacts
    <2>5. Due' = n /\ dropped' = dropped + m + 1 /\ dropped' <= Len(hist')
      BY <1>0, <1>1, <1>5, <1>8, <2>1 DEF Due
    <2> HIDE DEF n
    <2>6. \A j \in 1 .. 2 * n : Kept(m)[j] = wal[2 * m + 2 + j] /\ 2 * m + 2 + j \in 1 .. Len(wal)
      BY <1>1, <1>3, <2>1, <1>0, <1>8 DEF n
    <2>7. Kept(m)[2 * n] = hist[Len(hist)]
      <3>1. 2 * m + 2 + 2 * n = 2 * Due /\ Due \in 1 .. Due /\ dropped + Due = Len(hist)
        BY <1>0, <1>8 DEF n, Due
      <3>2. 2 * n \in 1 .. 2 * n
        BY <2>1
      <3> QED
        BY <1>6, <2>6, <3>1, <3>2
    <2>8. \A j \in 1 .. n - 1 : wal'[2 * j] = hist[dropped' + j]
      <3> SUFFICES ASSUME NEW j \in 1 .. n - 1
                   PROVE  wal'[2 * j] = hist[dropped' + j]
        OBVIOUS
      <3>1. 2 * j \in 1 .. 2 * n - 1 /\ 2 * j \in 1 .. 2 * n
        BY <2>1
      <3>2. 2 * m + 2 + 2 * j = 2 * (m + 1 + j) /\ m + 1 + j \in 1 .. Due
        BY <1>0, <1>8, <2>1 DEF n
      <3>3. wal'[2 * j] = wal[2 * (m + 1 + j)]
        BY <2>4, <2>6, <3>1, <3>2
      <3>4. dropped' + j = dropped + (m + 1 + j)
        BY <1>0, <2>1, <2>5
      <3> QED
        BY <1>6, <3>2, <3>3, <3>4
    <2>9. Alternating(wal)'
      <3> SUFFICES ASSUME NEW j \in 1 .. 2 * n - 1
                   PROVE  (wal'[j] = LEN) <=> (j % 2 = 1)
        BY <2>4 DEF Alternating
      <3>1. j \in 1 .. 2 * n
        BY <2>1
      <3>2. wal'[j] = wal[2 * m + 2 + j] /\ 2 * m + 2 + j \in 1 .. Len(wal)
        BY <2>4, <2>6, <3>1
      <3>3. (2 * m + 2 + j) % 2 = j % 2
        BY <2>1
      <3> QED
        BY <1>6, <3>2, <3>3 DEF Alternating
    <2>10. Len(wal') \div 2 = n - 1
      BY <2>1, <2>4, Halves
    <2>11. \A j \in 1 .. n - 1 : j <= n
      BY <2>1
    <2>12. PlaceInv'
      BY <2>9 DEF PlaceInv
    <2> QED
      BY <1>1, <1>5, <2>3, <2>4, <2>5, <2>7, <2>8, <2>10, <2>11, <2>12 DEF TailInv
  <1> QED
    BY <1>0, <1>7, <1>8

\* The log is what is due, as long as no tail has landed too late.
LEMMA LogStep ==
  ASSUME MaintInv, Ops \subseteq BasicOps, [MaintNext]_maintVars
  PROVE  LogInv'
  <1> SUFFICES ASSUME ~overtaken'
               PROVE  (dropped <= Len(hist) /\ TailInv /\ PlaceInv /\ ReadInv)'
    BY DEF LogInv
  <1> USE DEF disk, tasks, ghost, vars, maintVars, upkeep
  <1>0. /\ TypeOK /\ TypeInv /\ LockInv /\ UpkeepLock /\ TailPlace /\ UpkeepTypes
        /\ wal \in Seq(Cells) /\ Len(wal) \in Nat /\ Len(hist) \in Nat /\ Due \in Int
        /\ worker \in [pc : {"recv", "lock", "header", "payload", "apply"},
                       client : Clients \cup {NONE}]
    BY LogFacts
  <1>o. ~overtaken
    BY DEF MaintNext, Rotation, Death, LockForUpkeep, Rewrite, ReadOnly, RenameCompacted,
       UpkeepFails, TailLands, TailLost
  <1>i. dropped <= Len(hist) /\ TailInv /\ PlaceInv /\ ReadInv
    BY <1>o, LogFacts DEF LogInv
  <1>r. ASSUME compactor' = compactor, wal' = wal
        PROVE  ReadInv'
    BY <1>i, <1>r DEF ReadInv, Parses, Alternating, Kept
  <1>n. ASSUME compactor'.pc # "rename"
        PROVE  ReadInv'
    BY <1>n DEF ReadInv
  <1>1. CASE Ordinary /\ UNCHANGED upkeep
    <2>1. (dropped <= Len(hist) /\ TailInv /\ PlaceInv)'
      <3>1. CASE Silent
        BY <1>o, <1>1, <3>1, SilentStep
      <3>2. CASE Writing
        BY <1>o, <1>1, <3>2, WritingStep
      <3> QED
        BY <1>0, <1>1, <3>1, <3>2, OrdinaryWrites
    <2>2. ReadInv'
      <3>1. CASE compactor.pc = "rename"
        <4>1. inflight = <<>> /\ worker.pc \notin {"header", "payload", "apply"}
          BY <1>o, <3>1, RenamingAlone
        <4>2. ~ \E k \in 1 .. Len(inflight) : TRUE
          BY <4>1
        <4>3. wal' = wal
          BY <1>0, <1>1, <4>1, <4>2, OrdinaryWrites DEF Silent, Writing, WriteHeader, WriteFails,
             WritePayload
        <4> QED
          BY <1>1, <1>r, <4>3
      <3>2. CASE compactor.pc # "rename"
        BY <1>1, <1>n, <3>2
      <3> QED
        BY <3>1, <3>2
    <2> QED
      BY <2>1, <2>2
  <1>2. CASE Rotation
    <2>1. cleaner = "purge" /\ worker.pc # "payload" /\ worker' = worker /\ hist' = hist
          /\ lock = "cleanup"
      BY <1>0, <1>2 DEF Rotation, RotateWal, LockInv
    <2>2. ReadInv'
      BY <1>0, <1>2, <1>n, <2>1 DEF Rotation, UpkeepLock
    <2>3. CASE ArchiveDir /\ wal # <<>>
      <3>1. wal' = <<>> /\ inflight' = <<>> /\ tail' = NoTail /\ dropped' = Len(hist)
        BY <1>2, <2>3 DEF Rotation, RotateWal, Forget
      <3>2. Len(wal') = 0 /\ Len(wal') \div 2 = 0 /\ Due' = 0
        BY <1>0, <2>1, <3>1 DEF Due
      <3>3. TailInv' /\ PlaceInv' /\ dropped' <= Len(hist')
        BY <1>0, <2>1, <3>1, <3>2 DEF TailInv, PlaceInv
      <3> QED
        BY <2>2, <3>3
    <2>4. CASE ~(ArchiveDir /\ wal # <<>>)
      <3>1. Silent /\ UNCHANGED <<dropped, tail>>
        BY <1>2, <2>4 DEF Rotation, RotateWal, Silent
      <3> QED
        BY <1>o, <2>2, <3>1, SilentStep
    <2> QED
      BY <2>3, <2>4
  <1>3. CASE Death
    <2>1. /\ wal' = wal /\ hist' = hist /\ dropped' = dropped /\ inflight' = <<>>
          /\ tail' = NoTail /\ worker'.pc = "recv" /\ compactor'.pc = "rest"
      BY <1>3 DEF Death, Crash, NoRequest, Resting
    <2>2. Due' = Due /\ (Alternating(wal)' => Alternating(wal))
      BY <2>1 DEF Due, Alternating
    <2>3. TailInv'
      BY <1>i, <2>1, <2>2 DEF TailInv
    <2> QED
      BY <1>i, <1>n, <2>1, <2>3 DEF PlaceInv
  <1>4. ASSUME NEW step \in {"compact", "verify"}, LockForUpkeep(step)
        PROVE  (dropped <= Len(hist) /\ TailInv /\ PlaceInv /\ ReadInv)'
    <2>1. Silent /\ UNCHANGED <<dropped, tail>>
      BY <1>4 DEF LockForUpkeep, Silent
    <2>2. compactor'.pc # "rename"
      BY <1>0, <1>4 DEF LockForUpkeep, UpkeepTypes
    <2> QED
      BY <1>o, <1>n, <2>1, <2>2, SilentStep
  <1>5. ASSUME NEW k \in 0 .. MaxOps, Rewrite(k)
        PROVE  (dropped <= Len(hist) /\ TailInv /\ PlaceInv /\ ReadInv)'
    <2>1. Silent /\ UNCHANGED <<dropped, tail>>
      BY <1>5 DEF Rewrite, Silent
    <2>2. ReadInv'
      <3>1. k \in Nat /\ wal' = wal /\ Parses(wal)
        BY <1>5, ConfigAssumption DEF Rewrite
      <3>2. compactor'.kept = Kept(k) /\ compactor'.count = Min({k + 1, Len(wal) \div 2})
        BY <1>5 DEF Rewrite
      <3> QED
        BY <3>1, <3>2 DEF ReadInv, Parses, Alternating, Kept
    <2> QED
      BY <1>o, <2>1, <2>2, SilentStep
  <1>6. CASE ReadOnly \/ UpkeepFails
    <2>1. Silent /\ UNCHANGED <<dropped, tail>> /\ compactor'.pc = "rest"
      BY <1>6 DEF ReadOnly, UpkeepFails, Release, Silent, Resting
    <2> QED
      BY <1>o, <1>n, <2>1, SilentStep
  <1>7. CASE RenameCompacted
    <2>1. compactor'.pc = "rest"
      BY <1>7 DEF RenameCompacted, Resting
    <2> QED
      BY <1>o, <1>7, <1>n, <2>1, RenameStep
  <1>8. CASE TailLost
    <2>1. /\ UNCHANGED <<wal, inflight, hist, worker, dropped, compactor>>
          /\ tail' = NoTail
      BY <1>8 DEF TailLost
    <2>2. Due' = Due /\ (Alternating(wal)' => Alternating(wal))
      BY <2>1 DEF Due, Alternating
    <2>3. TailInv'
      BY <1>i, <2>1, <2>2 DEF TailInv
    <2> QED
      BY <1>i, <1>r, <2>1, <2>3 DEF PlaceInv
  <1>9. CASE TailLands
    <2>1. /\ UNCHANGED <<inflight, hist, worker, dropped, compactor>>
          /\ tail # NoTail /\ tail' = NoTail /\ Len(wal) < tail.at
      <3>1. tail # NoTail /\ ~(Len(wal) >= tail.at)
        BY <1>9 DEF TailLands
      <3>2. tail.at \in Nat
        BY <1>0, <3>1 DEF TailPlace
      <3>3. Len(wal) < tail.at
        BY <1>0, <3>1, <3>2
      <3> QED
        BY <1>9, <3>3 DEF TailLands
    <2>2. Alternating(wal)
      BY <1>0, <1>i, <2>1 DEF PlaceInv, TailPlace
    <2>3. /\ Len(wal) = 2 * Due - 1 /\ worker.pc # "payload" /\ inflight = <<>>
          /\ tail = [at |-> 2 * Due, op |-> hist[Len(hist)]]
      BY <1>i, <2>1, <2>2 DEF TailInv
    <2>4. wal' = Append(wal, hist[Len(hist)]) /\ hist[Len(hist)] \in Cells
      BY <1>0, <1>9, <2>1, <2>3, LandedFacts DEF TailPlace
    <2>5. /\ Len(wal') = 2 * Due /\ wal'[2 * Due] = hist[Len(hist)]
          /\ \A j \in 1 .. Len(wal) : wal'[j] = wal[j]
      BY <1>0, <2>3, <2>4, AppendFacts
    <2>6. Due' = Due /\ Len(wal') \div 2 = Due /\ Due >= 1
      BY <1>0, <2>1, <2>3, <2>5, Halves DEF Due
    <2>7. \A j \in 1 .. Due : wal'[2 * j] = hist[dropped + j]
      <3> SUFFICES ASSUME NEW j \in 1 .. Due
                   PROVE  wal'[2 * j] = hist[dropped + j]
        OBVIOUS
      <3>1. CASE j <= Due - 1
        <4>1. 2 * j \in 1 .. Len(wal) /\ j \in 1 .. Due - 1
          BY <1>0, <2>3, <3>1
        <4>2. Len(wal) \div 2 = Due - 1
          BY <1>0, <2>3, Halves
        <4> QED
          BY <1>i, <2>2, <2>5, <4>1, <4>2 DEF TailInv
      <3>2. CASE j = Due
        <4>1. dropped + j = Len(hist)
          BY <1>0, <3>2 DEF Due, UpkeepTypes
        <4> QED
          BY <2>5, <3>2, <4>1
      <3> QED
        BY <1>0, <3>1, <3>2
    <2>8. TailInv'
      <3>1. \A j \in 1 .. Due : j <= Due
        BY <1>0
      <3> QED
        BY <1>i, <2>1, <2>3, <2>5, <2>6, <2>7, <3>1 DEF TailInv
    <2>9. ReadInv'
      <3>1. compactor.pc # "rename"
        BY <1>o, <2>1, RenamingAlone
      <3> QED
        BY <1>n, <2>1, <3>1
    <2> QED
      BY <1>i, <2>1, <2>8, <2>9 DEF PlaceInv
  <1>10. CASE UNCHANGED maintVars
    <2>1. Silent /\ UNCHANGED <<dropped, tail>>
      BY <1>10 DEF Silent
    <2> QED
      BY <1>o, <1>10, <1>r, <2>1, SilentStep
  <1> QED
    BY <1>1, <1>2, <1>3, <1>4, <1>5, <1>6, <1>7, <1>8, <1>9, <1>10 DEF MaintNext

\* The invariant of the first theorems: the log is what is due only with where its
\* last payload may be, and where the tail will land, and a compaction leaves what is
\* due only because what it has read is still all of it when it renames.
THEOREM MaintInvariant == ASSUME Ops \subseteq BasicOps
                          PROVE  MaintSpec => []MaintInv
  <1>1. MaintInit => MaintInv
    <2> SUFFICES ASSUME MaintInit
                 PROVE  MaintInv
      OBVIOUS
    <2>0. /\ wal = <<>> /\ inflight = <<>> /\ hist = <<>> /\ past = <<EmptyState>>
          /\ tail = NoTail /\ dropped = 0 /\ compactor.pc = "rest" /\ worker.pc = "recv"
      BY DEF MaintInit, Init, Resting, NoRequest
    <2>1. TailPlace
      BY <2>0 DEF TailPlace
    <2>2. PastInv
      BY <2>0 DEF PastInv
    <2>3. LogInv
      <3>1. Len(wal) = 0 /\ Len(hist) = 0 /\ Due = 0 /\ Len(wal) \div 2 = 0
        BY <2>0 DEF Due
      <3>2. TailInv
        BY <2>0, <3>1 DEF TailInv
      <3> QED
        BY <2>0, <3>1, <3>2 DEF LogInv, PlaceInv, ReadInv
    <2> QED
      BY <2>1, <2>2, <2>3, KindsInit DEF MaintInv, Kinds
  <1>2. MaintInv /\ [MaintNext]_maintVars => MaintInv'
    <2> SUFFICES ASSUME MaintInv, [MaintNext]_maintVars
                 PROVE  MaintInv'
      OBVIOUS
    <2>1. PastInv'
      BY PastStep DEF MaintInv, Kinds
    <2> QED
      BY <2>1, KindsStep, PlaceStep, LogStep DEF MaintInv, Kinds
  <1> QED
    BY <1>1, <1>2, PTL DEF MaintSpec

\* A log that read_operations accepts is the history from the first operation that no
\* compaction and no rotation took out of it, unless a tail landed too late.
THEOREM CompactionKeepsHistory == ASSUME Ops \subseteq BasicOps
                                  PROVE  MaintSpec => []CompactedLogIsHistory
  <1>1. MaintInv => CompactedLogIsHistory
    <2> SUFFICES ASSUME MaintInv, Parses(wal), ~overtaken
                 PROVE  /\ Len(wal) = 2 * (Len(hist) - dropped)
                        /\ \A k \in 1 .. (Len(wal) \div 2) : LoggedOp(k) = hist[dropped + k]
      BY DEF CompactedLogIsHistory
    <2>1. TailInv /\ Len(wal) \in Nat /\ Due \in Int
      BY LogFacts DEF LogInv
    <2>2. Alternating(wal) /\ Len(wal) % 2 = 0
      BY DEF Parses
    <2>3. Len(wal) # 2 * Due + 1 /\ Len(wal) # 2 * Due - 1
      BY <2>1, <2>2, Halves
    <2>4. Len(wal) = 2 * Due
      BY <2>1, <2>2, <2>3 DEF TailInv
    <2> QED
      BY <2>1, <2>2, <2>4 DEF TailInv, LoggedOp, Due
  <1> QED
    BY <1>1, MaintInvariant, PTL

\* A compaction that has read the log has seen every payload: none is on its way to
\* the file that it is going to replace.
THEOREM CompactionLeavesNothing == ASSUME Ops \subseteq BasicOps
                                   PROVE  MaintSpec => []NothingLeftBehind
  <1>1. MaintInv => NothingLeftBehind
    BY RenamingAlone DEF NothingLeftBehind
  <1> QED
    BY <1>1, MaintInvariant, PTL

-----------------------------------------------------------------------------
(* Records that differ where they will be written again.                   *)

\* What a record says, its mounts apart.
Aspects == {"name", "status", "pid"} \cup Fields

Aspect(m, x) == IF x = "name" THEN m.name
                ELSE IF x = "status" THEN m.state.status
                ELSE IF x = "pid" THEN m.state.pid
                ELSE m.conf[x]

\* An edit overwrites x.
Writes(op, x) == \/ op.kind = "UpdateStatus" /\ x = "status"
                 \/ op.kind = "UpdateState" /\ x \in {"status", "pid"}
                 \/ op.kind = "Configure" /\ x = op.field

\* Among the operations after the first j and up to the k-th of h there is one that
\* makes or removes the container i, or one that overwrites x of it.
Remade(h, i, j, k) == \E m \in j + 1 .. k : h[m].id = i /\ h[m].kind \in {"Create", "Delete"}
Edited(h, i, x, j, k) == \E m \in j + 1 .. k : h[m].id = i /\ Writes(h[m], x)

\* Two states differ in nothing that the operations after j and up to k leave alone.
Near(h, s, t, j, k) ==
    \A i \in Ids :
        \/ Remade(h, i, j, k)
        \/ s.by_id[i] = NONE /\ t.by_id[i] = NONE
        \/ /\ s.by_id[i] # NONE /\ t.by_id[i] # NONE
           /\ \A x \in Aspects : \/ Aspect(s.by_id[i], x) = Aspect(t.by_id[i], x)
                                \/ Edited(h, i, x, j, k)

\* Two states with the same records, but for mounts.
Same(s, t) ==
    \A i \in Ids :
        \/ s.by_id[i] = NONE /\ t.by_id[i] = NONE
        \/ /\ s.by_id[i] # NONE /\ t.by_id[i] # NONE
           /\ \A x \in Aspects : Aspect(s.by_id[i], x) = Aspect(t.by_id[i], x)

\* A later state of past differs from an earlier one by what was done in between.
NearInv ==
    \A a, b \in 0 .. Len(hist) : a <= b => Near(hist, past[b + 1], past[a + 1], a, b)

\* The newest snapshot holds what has left the log.
NewestInv ==
    tmp.st # "partial" => \E k \in dropped .. Len(hist) : Same(Newest, past[k + 1])

\* The registry that is up has the records of the past; the one that is replaying
\* differs from it in what is still to be replayed, up to where the snapshot was.
RecordInv ==
    /\ life = "up" => /\ worker.pc # "apply" => Same(mem, Last1(past))
                      /\ worker.pc = "apply" => Same(ApplyOp(mem, Request), Last1(past))
    /\ life = "replaying" =>
          \E k \in 0 .. Len(hist) : Near(hist, mem, past[dropped + ri + 1], dropped + ri, k)

CoverInv == covered /\ ~overtaken => NewestInv /\ RecordInv

RecoveryInv == MaintInv /\ NearInv /\ CoverInv

\* What an edit writes, it writes over anything; the rest it leaves.
LEMMA TouchedAspects ==
  ASSUME NEW m \in Metas, NEW l \in Metas, NEW op \in TouchOps, NEW x \in Aspects
  PROVE  /\ Writes(op, x) => Aspect(Touched(m, op), x) = Aspect(Touched(l, op), x)
         /\ ~Writes(op, x) => Aspect(Touched(m, op), x) = Aspect(m, x)
  <1> USE DEF Touched, Writes, Aspect, Aspects, TouchOps, StatusOps, Metas, States, Fields
  <1>1. CASE op.kind = "UpdateStatus"
    BY <1>1
  <1>2. CASE op.kind = "UpdateState"
    BY <1>2
  <1>3. CASE op.kind = "Configure"
    BY <1>3
  <1>4. CASE op.kind = "AddMount"
    BY <1>4
  <1>5. CASE op.kind = "RemoveMount"
    BY <1>5
  <1> QED
    BY <1>1, <1>2, <1>3, <1>4, <1>5

\* Records that say the same are the same, but for mounts.
LEMMA SameIsBare ==
  ASSUME NEW s \in InnerStates, NEW t \in InnerStates, Same(s, t), NEW i \in Ids
  PROVE  Bare(s.by_id[i]) = Bare(t.by_id[i])
  <1>1. CASE s.by_id[i] = NONE
    BY <1>1 DEF Same, Bare
  <1>2. CASE s.by_id[i] # NONE
    <2> DEFINE a == s.by_id[i]
               b == t.by_id[i]
    <2>1. a \in Metas /\ b \in Metas /\ b # NONE
      BY <1>2 DEF InnerStates, Same
    <2>2. \A x \in Aspects : Aspect(a, x) = Aspect(b, x)
      BY <1>2 DEF Same
    <2> HIDE DEF a, b
    <2>3. a.name = b.name /\ a.state.status = b.state.status /\ a.state.pid = b.state.pid
      BY <2>2 DEF Aspects, Aspect
    <2>4. \A x \in Fields : a.conf[x] = b.conf[x]
      BY <2>2 DEF Aspects, Aspect, Fields
    <2>5. a.state = b.state /\ a.conf = b.conf
      BY <2>1, <2>3, <2>4 DEF Metas, States
    <2>6. [a EXCEPT !.mounts = NONE] = [b EXCEPT !.mounts = NONE]
      BY <2>1, <2>3, <2>5 DEF Metas
    <2> QED
      BY <1>2, <2>1, <2>6 DEF Bare, a, b
  <1> QED
    BY <1>1, <1>2

\* The same operation on two states that differ in what is still to come: they differ
\* in what comes after it.
LEMMA NearReplay ==
  ASSUME NEW s \in InnerStates, NEW t \in InnerStates, NEW j \in Nat, NEW k \in Nat,
         NEW h, NEW op \in BasicOps, h[j + 1] = op, Near(h, s, t, j, k)
  PROVE  Near(h, ApplyOp(s, op), ApplyOp(t, op), j + 1, k)
  <1> DEFINE u == ApplyOp(s, op)
             v == ApplyOp(t, op)
  <1>0. op.id \in Ids
    BY BasicCases
  <1>1. SUFFICES ASSUME NEW i \in Ids, ~Remade(h, i, j + 1, k)
                 PROVE  \/ u.by_id[i] = NONE /\ v.by_id[i] = NONE
                        \/ /\ u.by_id[i] # NONE /\ v.by_id[i] # NONE
                           /\ \A x \in Aspects : \/ Aspect(u.by_id[i], x) = Aspect(v.by_id[i], x)
                                                \/ Edited(h, i, x, j + 1, k)
    BY DEF Near
  <1>2. \A m \in j + 1 .. k : m = j + 1 \/ m \in j + 1 + 1 .. k
    OBVIOUS
  <1>3. /\ s.by_id[i] \in Metas \cup {NONE} /\ t.by_id[i] \in Metas \cup {NONE}
        /\ s.by_id[op.id] \in Metas \cup {NONE} /\ t.by_id[op.id] \in Metas \cup {NONE}
    BY <1>0 DEF InnerStates
  <1>4. CASE op.kind = "Create" /\ op.id = i
    <2>1. u.by_id[i] = NewMeta(op.name) /\ v.by_id[i] = NewMeta(op.name)
          /\ NewMeta(op.name) \in Metas
      BY <1>0, <1>4, CreateEntries
    <2> QED
      BY <2>1, NoneIsNoValue
  <1>5. CASE op.kind = "Delete" /\ op.id = i
    <2>1. u.by_id[i] = NONE
      BY <1>0, <1>5, NoEntries, DeleteEntries
    <2>2. v.by_id[i] = NONE
      BY <1>0, <1>5, NoEntries, DeleteEntries
    <2> QED
      BY <2>1, <2>2
  <1>6. CASE op.id # i
    <2>1. u.by_id[i] = s.by_id[i]
      BY <1>6, CreateEntries, DeleteEntries, TouchEntries, NoEntries
    <2>2. v.by_id[i] = t.by_id[i]
      BY <1>6, CreateEntries, DeleteEntries, TouchEntries, NoEntries
    <2>3. ~Remade(h, i, j, k)
      BY <1>1, <1>2, <1>6 DEF Remade
    <2>4. \A x \in Aspects : Edited(h, i, x, j, k) => Edited(h, i, x, j + 1, k)
      BY <1>2, <1>6 DEF Edited
    <2> QED
      BY <2>1, <2>2, <2>3, <2>4 DEF Near
  <1>7. CASE op.id = i /\ op.kind \notin {"Create", "Delete"}
    <2>1. op \in TouchOps
      BY <1>7, BasicCases
    <2>2. ~Remade(h, i, j, k)
      BY <1>1, <1>2, <1>7 DEF Remade
    <2>3. CASE s.by_id[i] = NONE /\ t.by_id[i] = NONE
      <3>1. u = s /\ v = t
        BY <1>7, <2>3, NoEntries
      <3> QED
        BY <2>3, <3>1
    <2>4. CASE s.by_id[i] # NONE /\ t.by_id[i] # NONE
      <3>1. /\ u.by_id[i] = Touched(s.by_id[i], op) /\ u.by_id[i] \in Metas
            /\ s.by_id[i] \in Metas
        BY <1>3, <1>7, <2>4, TouchEntries
      <3>2. /\ v.by_id[i] = Touched(t.by_id[i], op) /\ v.by_id[i] \in Metas
            /\ t.by_id[i] \in Metas
        BY <1>3, <1>7, <2>4, TouchEntries
      <3>3. ASSUME NEW x \in Aspects
            PROVE  Aspect(u.by_id[i], x) = Aspect(v.by_id[i], x) \/ Edited(h, i, x, j + 1, k)
        <4>1. CASE Writes(op, x)
          BY <2>1, <3>1, <3>2, <4>1, TouchedAspects
        <4>2. CASE ~Writes(op, x)
          <5>1. /\ Aspect(u.by_id[i], x) = Aspect(s.by_id[i], x)
                /\ Aspect(v.by_id[i], x) = Aspect(t.by_id[i], x)
            BY <2>1, <3>1, <3>2, <4>2, TouchedAspects
          <5>2. Edited(h, i, x, j, k) => Edited(h, i, x, j + 1, k)
            BY <1>2, <4>2 DEF Edited
          <5>3. Aspect(s.by_id[i], x) = Aspect(t.by_id[i], x) \/ Edited(h, i, x, j, k)
            BY <2>2, <2>4 DEF Near
          <5> QED
            BY <5>1, <5>2, <5>3
        <4> QED
          BY <4>1, <4>2
      <3> QED
        BY <3>1, <3>2, <3>3, NoneIsNoValue
    <2> QED
      BY <2>2, <2>3, <2>4 DEF Near
  <1> QED
    BY <1>4, <1>5, <1>6, <1>7

\* A state one operation further differs in what that operation did, too.
LEMMA NearFurther ==
  ASSUME NEW s \in InnerStates, NEW t \in InnerStates, NEW j \in Nat, NEW k \in Nat, j <= k,
         NEW h, NEW op \in BasicOps, h[k + 1] = op, Near(h, s, t, j, k)
  PROVE  Near(h, ApplyOp(s, op), t, j, k + 1)
  <1> DEFINE u == ApplyOp(s, op)
  <1>0. op.id \in Ids
    BY BasicCases
  <1>1. SUFFICES ASSUME NEW i \in Ids, ~Remade(h, i, j, k + 1)
                 PROVE  \/ u.by_id[i] = NONE /\ t.by_id[i] = NONE
                        \/ /\ u.by_id[i] # NONE /\ t.by_id[i] # NONE
                           /\ \A x \in Aspects : \/ Aspect(u.by_id[i], x) = Aspect(t.by_id[i], x)
                                                \/ Edited(h, i, x, j, k + 1)
    BY DEF Near
  <1>2. k + 1 \in j + 1 .. k + 1 /\ \A m \in j + 1 .. k : m \in j + 1 .. k + 1
    OBVIOUS
  <1>3. ~Remade(h, i, j, k)
    BY <1>1, <1>2 DEF Remade
  <1>4. \A x \in Aspects : Edited(h, i, x, j, k) => Edited(h, i, x, j, k + 1)
    BY <1>2 DEF Edited
  <1>5. CASE op.id # i
    <2>1. u.by_id[i] = s.by_id[i]
      BY <1>5, CreateEntries, DeleteEntries, TouchEntries, NoEntries
    <2> QED
      BY <1>3, <1>4, <2>1 DEF Near
  <1>6. CASE op.id = i
    <2>1. op.kind \notin {"Create", "Delete"}
      BY <1>1, <1>2, <1>6 DEF Remade
    <2>2. CASE s.by_id[i] = NONE
      <3>1. u = s
        BY <1>6, <2>1, <2>2, NoEntries
      <3> QED
        BY <1>3, <1>4, <3>1 DEF Near
    <2>3. CASE s.by_id[i] # NONE
      <3>1. /\ u.by_id[i] = Touched(s.by_id[i], op) /\ u.by_id[i] \in Metas
            /\ s.by_id[i] \in Metas /\ op \in TouchOps
        BY <1>6, <2>1, <2>3, TouchEntries, BasicCases DEF InnerStates
      <3>2. t.by_id[i] # NONE
        BY <1>3, <2>3 DEF Near
      <3>3. ASSUME NEW x \in Aspects
            PROVE  Aspect(u.by_id[i], x) = Aspect(t.by_id[i], x) \/ Edited(h, i, x, j, k + 1)
        <4>1. CASE Writes(op, x)
          BY <1>2, <1>6, <4>1 DEF Edited
        <4>2. CASE ~Writes(op, x)
          <5>1. Aspect(u.by_id[i], x) = Aspect(s.by_id[i], x)
            BY <3>1, <4>2, TouchedAspects
          <5>2. Aspect(s.by_id[i], x) = Aspect(t.by_id[i], x) \/ Edited(h, i, x, j, k)
            BY <1>3, <2>3 DEF Near
          <5> QED
            BY <1>4, <5>1, <5>2
        <4> QED
          BY <4>1, <4>2
      <3> QED
        BY <3>1, <3>2, <3>3, NoneIsNoValue
    <2> QED
      BY <2>2, <2>3
  <1> QED
    BY <1>5, <1>6

\* What has been appended to a history says nothing about the part before.
LEMMA NearStays ==
  ASSUME NEW h, NEW g, NEW s, NEW t, NEW j \in Nat, NEW k \in Nat,
         \A m \in 1 .. k : g[m] = h[m], Near(h, s, t, j, k)
  PROVE  Near(g, s, t, j, k)
  <1>1. \A m \in j + 1 .. k : g[m] = h[m]
    OBVIOUS
  <1>2. \A i \in Ids : Remade(h, i, j, k) => Remade(g, i, j, k)
    BY <1>1 DEF Remade
  <1>3. \A i \in Ids, x \in Aspects : Edited(h, i, x, j, k) => Edited(g, i, x, j, k)
    BY <1>1 DEF Edited
  <1> QED
    BY <1>2, <1>3 DEF Near

\* What says the same differs in nothing, whatever is to come;
LEMMA SameIsNear ==
  ASSUME NEW h, NEW s, NEW t, NEW j, NEW k, Same(s, t)
  PROVE  Near(h, s, t, j, k)
  BY DEF Same, Near

\* what differs in nothing but what is to come, when nothing is, says the same;
LEMMA NearIsSame ==
  ASSUME NEW h, NEW s, NEW t, NEW j \in Nat, NEW k \in Nat, k <= j, Near(h, s, t, j, k)
  PROVE  Same(s, t)
  <1>1. j + 1 .. k = {}
    OBVIOUS
  <1>2. \A i \in Ids : ~Remade(h, i, j, k) /\ \A x \in Aspects : ~Edited(h, i, x, j, k)
    BY <1>1 DEF Remade, Edited
  <1> QED
    BY <1>2 DEF Same, Near

\* and what says the same as a state differs from others as it does.
LEMMA SameThenNear ==
  ASSUME NEW h, NEW s, NEW t, NEW r, NEW j, NEW k, Same(s, t), Near(h, t, r, j, k)
  PROVE  Near(h, s, r, j, k)
  BY DEF Same, Near

\* States that say the same do so after the same operation.
LEMMA SameAfter ==
  ASSUME NEW s \in InnerStates, NEW t \in InnerStates, NEW op \in BasicOps, Same(s, t)
  PROVE  Same(ApplyOp(s, op), ApplyOp(t, op))
  <1>1. <<op>>[0 + 1] = op
    OBVIOUS
  <1>2. Near(<<op>>, s, t, 0, 0)
    BY SameIsNear
  <1>3. Near(<<op>>, ApplyOp(s, op), ApplyOp(t, op), 0 + 1, 0)
    BY <1>1, <1>2, NearReplay
  <1> QED
    BY <1>3, NearIsSame

-----------------------------------------------------------------------------
(* What a restart recovers.                                                *)

\* The past and the newest snapshot hold registries.
LEMMA PastFacts ==
  ASSUME MaintInv, Ops \subseteq BasicOps
  PROVE  /\ Len(hist) \in Nat /\ hist \in Seq(Ops) /\ past \in Seq(InnerStates)
         /\ Len(past) = Len(hist) + 1 /\ Last1(past) = past[Len(hist) + 1]
         /\ \A k \in 0 .. Len(hist) : past[k + 1] \in InnerStates
         /\ \A k \in 1 .. Len(hist) : hist[k] \in BasicOps /\ past[k + 1] = ApplyOp(past[k], hist[k])
         /\ mem \in InnerStates /\ dropped \in Nat /\ ri \in Nat
         /\ snaps \in Seq(InnerStates) /\ tmp.st \in {"absent", "partial", "full"}
         /\ tmp.st # "partial" => Newest \in InnerStates
  <1>1. /\ TypeInv /\ hist \in Seq(Ops) /\ past \in Seq(InnerStates) /\ PastInv
        /\ mem \in InnerStates /\ dropped \in Nat /\ ri \in Nat
        /\ snaps \in Seq(InnerStates) /\ tmp.st \in {"absent", "partial", "full"}
        /\ tmp.st = "full" => tmp.val \in InnerStates
    BY LogFacts DEF TypeInv, TypeOK, StageInv, MaintInv
  <1>2. Len(hist) \in Nat /\ Len(past) = Len(hist) + 1
    BY <1>1, LenProperties DEF PastInv
  <1>3. \A k \in 0 .. Len(hist) : past[k + 1] \in InnerStates
    BY <1>1, <1>2, ElementOfSeq
  <1>4. \A k \in 1 .. Len(hist) : hist[k] \in BasicOps /\ past[k + 1] = ApplyOp(past[k], hist[k])
    BY <1>1, ElementOfSeq DEF PastInv
  <1>5. tmp.st # "partial" => Newest \in InnerStates
    <2>1. EmptyState \in InnerStates
      BY DEF EmptyState, InnerStates
    <2>2. snaps # <<>> => Last1(snaps) \in InnerStates
      BY <1>1, Last1Facts
    <2> QED
      BY <1>1, <2>1, <2>2 DEF Newest
  <1> QED
    BY <1>1, <1>2, <1>3, <1>4, <1>5 DEF Last1

\* What WritePayload adds to the history and to the past.
LEMMA PastGrows ==
  ASSUME MaintInv, Ops \subseteq BasicOps, WritePayload
  PROVE  /\ Request \in BasicOps /\ Len(hist') = Len(hist) + 1
         /\ hist'[Len(hist) + 1] = Request
         /\ \A k \in 1 .. Len(hist) : hist'[k] = hist[k]
         /\ \A k \in 0 .. Len(hist) : past'[k + 1] = past[k + 1]
         /\ past'[Len(hist) + 2] = ApplyOp(past[Len(hist) + 1], Request)
         /\ Last1(past') = ApplyOp(Last1(past), Request)
  <1>0. /\ Len(hist) \in Nat /\ hist \in Seq(Ops) /\ past \in Seq(InnerStates)
        /\ Len(past) = Len(hist) + 1 /\ Last1(past) = past[Len(hist) + 1]
        /\ past[Len(hist) + 1] \in InnerStates
    BY PastFacts
  <1>1. /\ hist' = Append(hist, Request) /\ past' = Append(past, ApplyOp(Last1(past), Request))
        /\ Request \in Ops
    BY LogFacts, RequestTyped DEF WritePayload
  <1>2. ApplyOp(Last1(past), Request) \in InnerStates
    BY <1>0, <1>1, ApplyOpTyped
  <1>3. /\ Len(hist') = Len(hist) + 1 /\ hist'[Len(hist) + 1] = Request
        /\ \A k \in 1 .. Len(hist) : hist'[k] = hist[k]
    BY <1>0, <1>1, AppendFacts
  <1>4. /\ Len(past') = Len(past) + 1
        /\ past'[Len(past) + 1] = ApplyOp(Last1(past), Request)
        /\ \A k \in 1 .. Len(past) : past'[k] = past[k]
    BY <1>0, <1>1, <1>2, AppendFacts
  <1>5. Last1(past') = ApplyOp(Last1(past), Request)
    BY <1>4 DEF Last1
  <1> QED
    BY <1>0, <1>1, <1>3, <1>4, <1>5

\* The past stays near to itself.
LEMMA NearStep ==
  ASSUME MaintInv, NearInv, Ops \subseteq BasicOps, [MaintNext]_maintVars
  PROVE  NearInv'
  <1>1. CASE ~WritePayload
    BY <1>1, PastStays DEF NearInv, Near, Remade, Edited
  <1>2. CASE WritePayload
    <2> DEFINE n == Len(hist)
    <2>0. /\ n \in Nat /\ \A k \in 0 .. n : past[k + 1] \in InnerStates
      BY PastFacts
    <2>1. /\ Request \in BasicOps /\ Len(hist') = n + 1 /\ hist'[n + 1] = Request
          /\ \A k \in 1 .. n : hist'[k] = hist[k]
          /\ \A k \in 0 .. n : past'[k + 1] = past[k + 1]
          /\ past'[n + 2] = ApplyOp(past[n + 1], Request)
      BY <1>2, PastGrows
    <2>2. \A a, b \in 0 .. n : a <= b => Near(hist, past[b + 1], past[a + 1], a, b)
      BY DEF NearInv
    <2> HIDE DEF n
    <2>3. SUFFICES ASSUME NEW a \in 0 .. n + 1, NEW b \in 0 .. n + 1, a <= b
                   PROVE  Near(hist', past'[b + 1], past'[a + 1], a, b)
      BY <2>1 DEF NearInv
    <2>4. ASSUME NEW l \in 0 .. n, a <= l
          PROVE  Near(hist', past[l + 1], past[a + 1], a, l)
      <3>1. a \in 0 .. n /\ l \in Nat /\ \A m \in 1 .. l : hist'[m] = hist[m]
        BY <2>0, <2>1, <2>4
      <3> QED
        BY <2>2, <2>4, <3>1, NearStays
    <2>5. CASE b \in 0 .. n
      <3>1. a \in 0 .. n
        BY <2>0, <2>3, <2>5
      <3> QED
        BY <2>1, <2>3, <2>4, <2>5, <3>1
    <2>6. CASE b = n + 1 /\ a \in 0 .. n
      <3>1. /\ Near(hist', past[n + 1], past[a + 1], a, n)
            /\ n \in 0 .. n /\ a <= n /\ past'[b + 1] = ApplyOp(past[n + 1], Request)
        BY <2>0, <2>1, <2>4, <2>6
      <3>2. Near(hist', ApplyOp(past[n + 1], Request), past[a + 1], a, n + 1)
        BY <2>0, <2>1, <2>6, <3>1, NearFurther
      <3> QED
        BY <2>1, <2>6, <3>1, <3>2
    <2>7. CASE b = n + 1 /\ a = n + 1
      BY <2>7, SameIsNear DEF Same
    <2> QED
      BY <2>0, <2>3, <2>5, <2>6, <2>7
  <1> QED
    BY <1>1, <1>2

\* The newest snapshot is at least as new as what has left the log: a new one is of
\* the registry that is up, the cleanup leaves the newest, and what leaves while it is
\* held there is what the observer covered watches for.
LEMMA NewestStep ==
  ASSUME MaintInv, CoverInv, Ops \subseteq BasicOps, [MaintNext]_maintVars,
         covered, ~overtaken, covered', ~overtaken'
  PROVE  NewestInv'
  <1> USE DEF disk, tasks, ghost, vars, maintVars, upkeep
  <1>0. /\ NewestInv /\ RecordInv /\ dropped <= Len(hist) /\ LockInv /\ StageInv /\ TypeOK
    BY LogFacts DEF CoverInv, LogInv, TypeInv
  <1>p. /\ Len(hist) \in Nat /\ Len(past) = Len(hist) + 1 /\ Last1(past) = past[Len(hist) + 1]
        /\ dropped \in Nat /\ snaps \in Seq(InnerStates)
        /\ tmp.st \in {"absent", "partial", "full"}
    BY PastFacts
  <1>k. ASSUME tmp'.st # "partial" => tmp.st # "partial",
               tmp'.st # "partial" => Newest' = Newest,
               dropped' = dropped, UNCHANGED <<hist, past>>
        PROVE  NewestInv'
    BY <1>0, <1>k DEF NewestInv
  <1>s. ASSUME UNCHANGED <<tmp, snaps, dropped, hist, past>>
        PROVE  NewestInv'
    BY <1>k, <1>s DEF Newest
  <1>f. ASSUME NEW n \in Nat, Forget(n), UNCHANGED <<tmp, snaps, hist, past>>
        PROVE  NewestInv'
    <2>1. dropped' = n /\ Newest' = Newest
      BY <1>f DEF Forget, Newest
    <2>2. PICK k \in n .. Len(hist) : Newest = past[k + 1]
      BY <1>f DEF Forget, Holds
    <2>3. Same(Newest', past'[k + 1]) /\ k \in dropped' .. Len(hist')
      BY <1>f, <2>1, <2>2 DEF Same
    <2> QED
      BY <2>3 DEF NewestInv
  <1>1. CASE WritePayload /\ UNCHANGED upkeep
    <2>1. /\ Len(hist') = Len(hist) + 1
          /\ \A k \in 0 .. Len(hist) : past'[k + 1] = past[k + 1]
      BY <1>1, PastGrows
    <2>2. UNCHANGED <<tmp, snaps, dropped>> /\ Newest' = Newest
      BY <1>1 DEF WritePayload, Newest
    <2>3. SUFFICES ASSUME tmp.st # "partial"
                   PROVE  \E k \in dropped' .. Len(hist') : Same(Newest', past'[k + 1])
      BY <2>2 DEF NewestInv
    <2>4. PICK k \in dropped .. Len(hist) : Same(Newest, past[k + 1])
      BY <1>0, <2>3 DEF NewestInv
    <2>5. k \in 0 .. Len(hist) /\ k \in dropped' .. Len(hist')
      BY <1>p, <2>1, <2>2, <2>4
    <2> QED
      BY <2>1, <2>2, <2>4, <2>5
  <1>2. CASE CreateTmp
    BY <1>2 DEF CreateTmp, PartialFile, NewestInv
  <1>3. CASE FillTmp /\ UNCHANGED upkeep
    <2>1. worker.pc # "apply" /\ life = "up"
      BY <1>0, <1>3 DEF FillTmp, LockInv
    <2>2. Same(mem, past[Len(hist) + 1])
      BY <1>0, <1>p, <2>1 DEF RecordInv
    <2>3. Newest' = mem /\ UNCHANGED <<hist, past, dropped>>
      BY <1>3 DEF FillTmp, Newest
    <2>4. Len(hist) \in dropped .. Len(hist)
      BY <1>0, <1>p
    <2> QED
      BY <2>2, <2>3, <2>4 DEF NewestInv
  <1>4. CASE RenameTmp /\ UNCHANGED upkeep
    <2>1. tmp.st = "full" /\ tmp.val \in InnerStates
      BY <1>0, <1>4 DEF RenameTmp, StageInv
    <2>2. /\ snaps' = Append(snaps, tmp.val) /\ tmp'.st = "absent"
          /\ UNCHANGED <<hist, past, dropped>>
      BY <1>4 DEF RenameTmp, NoFile
    <2>3. Last1(snaps') = tmp.val /\ snaps' # <<>>
      BY <1>p, <2>1, <2>2, AppendFacts DEF Last1
    <2>4. Newest' = Newest
      BY <2>1, <2>2, <2>3 DEF Newest
    <2> QED
      BY <1>k, <2>1, <2>2, <2>4
  <1>5. CASE PurgeSnapshot /\ UNCHANGED upkeep
    <2>1. UNCHANGED <<tmp, hist, past, dropped>> /\ snaps' = Tail(snaps) /\ Surplus
      BY <1>5 DEF PurgeSnapshot
    <2>2. CASE tmp.st # "absent"
      BY <1>k, <2>1, <2>2 DEF Newest
    <2>3. CASE tmp.st = "absent"
      <3>1. Len(snaps) \in Nat /\ Len(snaps) > 1
        BY <1>p, <2>1, <2>3, LenProperties, ConfigAssumption DEF Surplus
      <3>2. /\ Len(Tail(snaps)) = Len(snaps) - 1
            /\ \A l \in 1 .. Len(snaps) - 1 : Tail(snaps)[l] = snaps[l + 1]
        BY <1>p, <3>1, EmptySeq, HeadTailProperties
      <3>3. Last1(snaps') = Last1(snaps) /\ snaps' # <<>> /\ snaps # <<>>
        <4>1. /\ Len(snaps) - 1 \in 1 .. Len(snaps) - 1 /\ (Len(snaps) - 1) + 1 = Len(snaps)
          BY <3>1
        <4>2. Len(snaps') = Len(snaps) - 1 /\ snaps'[Len(snaps) - 1] = snaps[Len(snaps)]
          BY <2>1, <3>2, <4>1
        <4>3. Len(<<>>) = 0 /\ Len(snaps') # 0 /\ Len(snaps) # 0
          BY <3>1, <4>2
        <4> QED
          BY <4>2, <4>3 DEF Last1
      <3> QED
        BY <1>k, <2>1, <2>3, <3>3 DEF Newest
    <2> QED
      BY <2>2, <2>3
  <1>6. CASE Rotation
    <2>1. UNCHANGED <<tmp, snaps, hist, past>>
      BY <1>6 DEF Rotation, RotateWal
    <2>2. Forget(Len(hist)) \/ dropped' = dropped
      BY <1>6 DEF Rotation
    <2> QED
      BY <1>p, <1>f, <1>s, <2>1, <2>2
  <1>7. CASE RenameCompacted
    <2>1. UNCHANGED <<tmp, snaps, hist, past>> /\ Forget(dropped + compactor.count)
      BY <1>7 DEF RenameCompacted
    <2>2. dropped + compactor.count \in Nat
      BY <1>p, LogFacts DEF UpkeepTypes
    <2> QED
      BY <1>f, <2>1, <2>2
  <1>8. CASE \/ Death \/ TailLands \/ TailLost \/ ReadOnly \/ UpkeepFails
             \/ \E step \in {"compact", "verify"} : LockForUpkeep(step)
             \/ \E k \in 0 .. MaxOps : Rewrite(k)
             \/ UNCHANGED maintVars
    BY <1>s, <1>8 DEF Death, Crash, TailLands, TailLost, ReadOnly, UpkeepFails, LockForUpkeep,
       Rewrite
  <1>9. CASE /\ UNCHANGED upkeep
             /\ \/ \E c \in Clients : Send(c) \/ \E op \in Ops : Execute(c, op)
                \/ Recv \/ LockInner \/ WriteHeader \/ ApplyOperation \/ WriteFails
                \/ \E k \in 1 .. Len(inflight) : PayloadLands(k) \/ PayloadLost(k)
                \/ SnapshotTick \/ SnapshotFails \/ CleanupTick \/ CleanupFails
                \/ Restart \/ ReplayOne \/ Started
    BY <1>s, <1>9 DEF Send, Execute, Recv, LockInner, WriteHeader, ApplyOperation, WriteFails,
       PayloadLands, PayloadLost, SnapshotTick, SnapshotFails, CleanupTick, CleanupFails,
       Restart, ReplayOne, Started
  <1> QED
    BY <1>1, <1>2, <1>3, <1>4, <1>5, <1>6, <1>7, <1>8, <1>9
       DEF MaintNext, Ordinary, Serve, Snapshot

\* The records are those of the past, from the snapshot that a restart loads to the
\* last operation that it replays and on.
LEMMA RecordStep ==
  ASSUME MaintInv, NearInv, CoverInv, Ops \subseteq BasicOps, [MaintNext]_maintVars,
         covered, ~overtaken
  PROVE  RecordInv'
  <1> USE DEF disk, tasks, ghost, vars, maintVars, upkeep
  <1>0. /\ NewestInv /\ RecordInv /\ dropped <= Len(hist) /\ LockInv /\ UpkeepLock
        /\ TypeOK /\ TypeInv /\ StageInv /\ TailInv
    BY LogFacts DEF CoverInv, LogInv, TypeInv
  <1>p. /\ Len(hist) \in Nat /\ Last1(past) = past[Len(hist) + 1]
        /\ \A k \in 0 .. Len(hist) : past[k + 1] \in InnerStates
        /\ \A k \in 1 .. Len(hist) : hist[k] \in BasicOps /\ past[k + 1] = ApplyOp(past[k], hist[k])
        /\ mem \in InnerStates /\ dropped \in Nat /\ ri \in Nat
        /\ tmp.st # "partial" => Newest \in InnerStates
    BY PastFacts
  <1>u. ASSUME life = "up", UNCHANGED <<life, mem, past>>,
               \/ worker.pc # "apply" /\ worker'.pc # "apply"
               \/ worker' = worker /\ Request' = Request
        PROVE  RecordInv'
    BY <1>0, <1>u DEF RecordInv
  <1>d. ASSUME life' \notin {"up", "replaying"}
        PROVE  RecordInv'
    BY <1>d DEF RecordInv
  <1>l. ASSUME life = "replaying"
        PROVE  /\ Len(wal) \div 2 = Due /\ Due \in Nat /\ ri <= Due /\ dropped + Due = Len(hist)
               /\ \A k \in 1 .. Due : LoggedOp(k) = hist[dropped + k]
    <2>1. /\ Parses(wal) /\ ri <= Len(wal) \div 2 /\ Alternating(wal) /\ Len(wal) % 2 = 0
          /\ Len(wal) \in Nat
      BY <1>0, <1>l, LogFacts DEF StageInv, Parses
    <2>2. Due \in Nat /\ dropped + Due = Len(hist)
      BY <1>0, <1>p DEF Due
    <2>3. Len(wal) # 2 * Due + 1 /\ Len(wal) # 2 * Due - 1
      BY <2>1, <2>2, Halves
    <2>4. Len(wal) = 2 * Due
      BY <1>0, <2>1, <2>3 DEF TailInv
    <2>5. Len(wal) \div 2 = Due
      BY <2>1, <2>2, <2>4, Halves
    <2> QED
      BY <1>0, <2>1, <2>2, <2>5 DEF TailInv, LoggedOp
  <1>1. CASE WritePayload
    <2>1. /\ Request \in BasicOps /\ Last1(past') = ApplyOp(Last1(past), Request)
          /\ Last1(past) \in InnerStates
      BY <1>1, <1>p, PastGrows
    <2>2. /\ life = "up" /\ UNCHANGED <<life, mem>> /\ worker.pc = "payload"
          /\ worker'.pc = "apply" /\ Request' = Request
      BY <1>0, <1>1 DEF WritePayload, Request, TypeOK
    <2>3. Same(mem, Last1(past))
      BY <1>0, <2>2 DEF RecordInv
    <2>4. Same(ApplyOp(mem, Request), ApplyOp(Last1(past), Request))
      BY <1>p, <2>1, <2>3, SameAfter
    <2> QED
      BY <2>1, <2>2, <2>4 DEF RecordInv
  <1>2. CASE ApplyOperation
    <2>1. /\ life = "up" /\ life' = life /\ mem' = ApplyOp(mem, Request) /\ past' = past
          /\ worker.pc = "apply" /\ worker'.pc = "recv"
      BY <1>2 DEF ApplyOperation, NoRequest
    <2> QED
      BY <1>0, <2>1 DEF RecordInv
  <1>3. CASE \E c \in Clients : Send(c) \/ \E op \in Ops : Execute(c, op)
    <2>1. PICK c \in Clients : Send(c) \/ \E op \in Ops : Execute(c, op)
      BY <1>3
    <2>2. life = "up" /\ UNCHANGED <<life, mem, past, worker>>
      BY <2>1 DEF Send, Execute
    <2>3. worker.pc = "apply" => Request' = Request
      BY <1>0, <2>1, RequestStays
    <2> QED
      BY <1>u, <2>2, <2>3
  <1>4. CASE Recv \/ LockInner \/ WriteHeader \/ WriteFails
    <2>1. /\ life = "up" /\ UNCHANGED <<life, mem, past>>
          /\ worker.pc # "apply" /\ worker'.pc # "apply"
      BY <1>0, <1>4 DEF Recv, LockInner, WriteHeader, WriteFails, NoRequest, TypeOK
    <2> QED
      BY <1>u, <2>1
  <1>5. CASE \/ SnapshotTick \/ Snapshot \/ SnapshotFails
             \/ CleanupTick \/ PurgeSnapshot \/ CleanupFails \/ Rotation
             \/ \E step \in {"compact", "verify"} : LockForUpkeep(step)
             \/ \E k \in 0 .. MaxOps : Rewrite(k)
             \/ ReadOnly \/ RenameCompacted \/ UpkeepFails \/ TailLands \/ TailLost
             \/ \E k \in 1 .. Len(inflight) : PayloadLands(k) \/ PayloadLost(k)
    <2>1. life = "up"
      <3>1. CASE \E k \in 1 .. Len(inflight) : PayloadLands(k) \/ PayloadLost(k)
        <4>1. life # "up" => Len(inflight) = 0
          BY <1>0 DEF StageInv
        <4>2. Len(inflight) # 0
          BY <3>1
        <4> QED
          BY <4>1, <4>2
      <3>2. CASE \/ \E k \in 0 .. MaxOps : Rewrite(k)
                 \/ ReadOnly \/ RenameCompacted \/ UpkeepFails \/ TailLands \/ TailLost
        BY <1>0, <3>2 DEF Rewrite, ReadOnly, RenameCompacted, UpkeepFails, TailLands, TailLost,
           UpkeepLock
      <3> QED
        BY <1>5, <3>1, <3>2 DEF SnapshotTick, Snapshot, CreateTmp, FillTmp, RenameTmp,
           SnapshotFails, CleanupTick, PurgeSnapshot, CleanupFails, Rotation, RotateWal,
           LockForUpkeep
    <2>2. UNCHANGED <<life, mem, past, worker, client>>
      BY <1>5 DEF SnapshotTick, Snapshot, CreateTmp, FillTmp, RenameTmp, SnapshotFails,
         CleanupTick, PurgeSnapshot, CleanupFails, Rotation, RotateWal, LockForUpkeep, Rewrite,
         ReadOnly, RenameCompacted, UpkeepFails, TailLands, TailLost, Release,
         PayloadLands, PayloadLost
    <2> QED
      BY <1>u, <2>1, <2>2 DEF Request
  <1>6. CASE Death
    BY <1>6, <1>d DEF Death, Crash
  <1>7. CASE Restart /\ UNCHANGED upkeep
    <2>1. CASE life' = "failed"
      BY <1>d, <2>1
    <2>2. CASE life' # "failed"
      <3>1. /\ life = "down" /\ life' = "replaying" /\ mem' = Newest /\ tmp.st # "partial"
            /\ UNCHANGED <<hist, past, dropped, ri>> /\ ri = 0
        BY <1>0, <1>7, <2>2 DEF Restart, StageInv
      <3>2. PICK k \in dropped .. Len(hist) : Same(Newest, past[k + 1])
        BY <1>0, <3>1 DEF NewestInv
      <3>3. /\ k \in 0 .. Len(hist) /\ dropped \in 0 .. Len(hist) /\ dropped <= k
            /\ dropped + ri = dropped
        BY <1>0, <1>p, <3>1, <3>2
      <3>4. Near(hist, past[k + 1], past[dropped + 1], dropped, k)
        BY <3>3 DEF NearInv
      <3>5. Near(hist, Newest, past[dropped + 1], dropped, k)
        BY <3>2, <3>4, SameThenNear
      <3> QED
        BY <3>1, <3>3, <3>5 DEF RecordInv
    <2> QED
      BY <2>1, <2>2
  <1>8. CASE ReplayOne /\ UNCHANGED upkeep
    <2> DEFINE j == dropped + ri
    <2>1. /\ life = "replaying" /\ life' = life /\ mem' = ApplyOp(mem, LoggedOp(ri + 1))
          /\ UNCHANGED <<hist, past, dropped>> /\ ri' = ri + 1 /\ ri # Len(wal) \div 2
      BY <1>8 DEF ReplayOne, Replayed
    <2>2. PICK k \in 0 .. Len(hist) : Near(hist, mem, past[j + 1], j, k)
      BY <1>0, <2>1 DEF RecordInv
    <2>3. ri + 1 \in 1 .. Due /\ j \in Nat /\ j \in 0 .. Len(hist) /\ j + 1 \in 1 .. Len(hist)
      BY <1>l, <1>p, <2>1
    <2>4. LoggedOp(ri + 1) = hist[j + 1]
      <3>1. LoggedOp(ri + 1) = hist[dropped + (ri + 1)] /\ dropped + (ri + 1) = j + 1
        BY <1>l, <1>p, <2>1, <2>3
      <3> QED
        BY <3>1
    <2>5. dropped' + ri' = j + 1
      BY <1>p, <2>1
    <2> HIDE DEF j
    <2>6. /\ hist[j + 1] \in BasicOps /\ past[j + 1] \in InnerStates
          /\ past[j + 1 + 1] = ApplyOp(past[j + 1], hist[j + 1])
      BY <1>p, <2>3
    <2>7. Near(hist, mem', past[j + 1 + 1], j + 1, k)
      BY <1>p, <2>1, <2>2, <2>3, <2>4, <2>6, NearReplay
    <2> QED
      BY <2>1, <2>2, <2>5, <2>7 DEF RecordInv
  <1>9. CASE Started
    <2>1. /\ life = "replaying" /\ life' = "up" /\ UNCHANGED <<mem, worker, past>>
          /\ ri = Len(wal) \div 2
      BY <1>9 DEF Started, Replayed
    <2>2. PICK k \in 0 .. Len(hist) : Near(hist, mem, past[dropped + ri + 1], dropped + ri, k)
      BY <1>0, <2>1 DEF RecordInv
    <2>3. dropped + ri = Len(hist)
      BY <1>l, <2>1
    <2>4. Same(mem, past[Len(hist) + 1])
      BY <1>p, <2>2, <2>3, NearIsSame
    <2>5. worker.pc = "recv"
      BY <1>0, <2>1 DEF StageInv
    <2> QED
      BY <1>p, <2>1, <2>4, <2>5 DEF RecordInv
  <1>10. CASE UNCHANGED maintVars
    BY <1>0, <1>10 DEF RecordInv, Request
  <1> QED
    BY <1>1, <1>2, <1>3, <1>4, <1>5, <1>6, <1>7, <1>8, <1>9, <1>10
       DEF MaintNext, Ordinary, Serve

\* The records survive only with what every snapshot and every replay in progress
\* still lacks or repeats, and with the log's invariant, which says what is replayed.
THEOREM RecoveryInvariant == ASSUME Ops \subseteq BasicOps
                             PROVE  MaintSpec => []RecoveryInv
  <1>1. MaintInit /\ MaintInv => RecoveryInv
    <2> SUFFICES ASSUME MaintInit, MaintInv
                 PROVE  NearInv /\ CoverInv
      BY DEF RecoveryInv
    <2>0. /\ hist = <<>> /\ past = <<EmptyState>> /\ dropped = 0 /\ life = "down"
          /\ tmp = NoFile /\ snaps = <<>>
      BY DEF MaintInit, Init
    <2>1. Len(hist) = 0 /\ past[0 + 1] = EmptyState /\ Newest = EmptyState
      BY <2>0 DEF Newest, NoFile
    <2>2. Same(EmptyState, EmptyState)
      BY DEF Same
    <2>3. NearInv
      <3> SUFFICES ASSUME NEW a \in 0 .. 0, NEW b \in 0 .. 0
                   PROVE  Near(hist, past[b + 1], past[a + 1], a, b)
        BY <2>1 DEF NearInv
      <3>1. a = 0 /\ b = 0
        OBVIOUS
      <3> QED
        BY <2>1, <2>2, <3>1, SameIsNear
    <2>4. NewestInv
      BY <2>0, <2>1, <2>2 DEF NewestInv
    <2> QED
      BY <2>0, <2>3, <2>4 DEF CoverInv, RecordInv
  <1>2. RecoveryInv /\ MaintInv' /\ [MaintNext]_maintVars => RecoveryInv'
    <2> SUFFICES ASSUME RecoveryInv, MaintInv', [MaintNext]_maintVars, covered', ~overtaken'
                 PROVE  NearInv' /\ NewestInv' /\ RecordInv'
      BY NearStep DEF RecoveryInv, CoverInv
    <2>1. covered
      <3>1. CASE \E n : Forget(n)
        BY <3>1 DEF Forget
      <3>2. CASE covered' = covered
        BY <3>2
      <3>3. CASE Rotation
        BY <3>1, <3>2, <3>3 DEF Rotation
      <3>4. CASE RenameCompacted
        BY <3>1, <3>4 DEF RenameCompacted
      <3>5. ASSUME ~Rotation, ~RenameCompacted
            PROVE  covered' = covered
        BY <3>5 DEF MaintNext, upkeep, maintVars, Death, LockForUpkeep, Rewrite, ReadOnly,
           UpkeepFails, TailLands, TailLost
      <3> QED
        BY <3>2, <3>3, <3>4, <3>5
    <2>2. ~overtaken
      BY DEF MaintNext, upkeep, maintVars, Rotation, Death, LockForUpkeep, Rewrite,
         ReadOnly, RenameCompacted, UpkeepFails, TailLands, TailLost
    <2> QED
      BY <2>1, <2>2, NearStep, NewestStep, RecordStep DEF RecoveryInv
  <1> QED
    BY <1>1, <1>2, MaintInvariant, PTL DEF MaintSpec

\* A daemon that is up knows the containers that its whole history leads to, each with
\* its name, status and configuration: whatever was compacted and rotated, as long as
\* the newest snapshot held what left the log, and whichever snapshot was replayed over.
THEOREM RecordsAreRecovered == ASSUME Ops \subseteq BasicOps
                               PROVE  MaintSpec => []RecordsSurvive
  <1>1. RecoveryInv => RecordsSurvive
    <2> SUFFICES ASSUME RecoveryInv, life = "up", worker.pc # "apply", covered, ~overtaken,
                        NEW i \in Ids
                 PROVE  Bare(mem.by_id[i]) = Bare(Last1(past).by_id[i])
      BY DEF RecordsSurvive
    <2>1. Same(mem, Last1(past))
      BY DEF RecoveryInv, CoverInv, RecordInv
    <2>2. mem \in InnerStates /\ Last1(past) \in InnerStates
      BY PastFacts DEF RecoveryInv
    <2> QED
      BY <2>1, <2>2, SameIsBare
  <1> QED
    BY <1>1, RecoveryInvariant, PTL
=============================================================================
