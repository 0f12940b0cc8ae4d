---------------------------- MODULE MetaStorage ----------------------------
(***************************************************************************)
(* StorageManager (metas/storage.rs) with its write-ahead log (wal.rs) and *)
(* its snapshots (snapshot.rs).                                            *)
(*                                                                         *)
(* Tasks that need the registry send an operation over a bounded channel   *)
(* to one worker and wait for its answer.  The worker, the snapshot task,  *)
(* the cleanup task and the lookups share one mutex.  Each operation is    *)
(* logged, then applied to the state in memory, then answered.  A restart  *)
(* loads the newest file of the snapshot directory and replays the log.    *)
(*                                                                         *)
(* Two facts about files shape the log.  write_operation opens the file    *)
(* anew for every operation and hands its buffers to a tokio File, which   *)
(* writes them on another thread: the second write waits for the first,    *)
(* but nothing waits for the second.  So the length prefix is in the file  *)
(* when write_operation returns and the payload may still be in flight,    *)
(* and two payloads in flight may land in either order.  And rotate moves  *)
(* the log into a directory that the program never creates: ArchiveDir     *)
(* says whether somebody else did.                                         *)
(***************************************************************************)
EXTENDS InnerState

CONSTANTS
    Clients,       \* tasks of the daemon that call execute or look up
    Ops,           \* the operations they may ask for
    ChanCap,       \* capacity of the channel (128)
    ArchiveDir,    \* wal/archive exists
    MaxSnapshots,  \* config.max_snapshots (10)
    MaxWals,       \* config.max_wals (10)
    MaxOps,        \* bound: operations asked for over all lives of the daemon
    MaxFaults      \* bound: crashes and failed writes

ASSUME ConfigAssumption ==
    /\ Ops \subseteq Operations
    /\ ChanCap \in Nat \ {0}
    /\ ArchiveDir \in BOOLEAN
    /\ MaxSnapshots \in Nat \ {0}
    /\ MaxWals \in Nat
    /\ MaxOps \in Nat
    /\ MaxFaults \in Nat
    /\ NONE \notin Clients \cup Ops

VARIABLES
    (* the disk *)
    wal,       \* current.wal, a sequence of cells
    inflight,  \* payloads handed to the writer thread and not yet in the file
    archives,  \* number of rotated logs
    snaps,     \* snapshot-*.bin, oldest first
    tmp,       \* tmp.snapshot
    (* the daemon *)
    life,      \* the stage the daemon is in
    mem,       \* StorageInner.state
    lock,      \* holder of the mutex around StorageInner ("upkeep" in Maintenance only)
    queue,     \* the channel: a message is known by the client it came from
    worker,    \* the worker's place and the client whose message it handles
    snapper,   \* the snapshot task's place
    cleaner,   \* the cleanup task's place
    ri,        \* operations replayed since this start
    client,    \* [c] what c is doing, with what operation, and what it read
    (* observers: no action's guard reads them but as inputs *)
    hist,      \* the operations logged, over all lives of the daemon
    past,      \* past[k + 1] is the state after the first k of them
    used,      \* ids drawn by random_id for a Create so far
    seen,      \* ids that have been in memory, which a client may know
    asked,     \* operations asked for
    faults     \* crashes and failed writes

disk  == <<wal, inflight, archives, snaps, tmp>>
tasks == <<lock, queue, worker, snapper, cleaner>>
ghost == <<hist, past, used, seen, asked, faults>>
vars  == <<disk, life, mem, tasks, ri, client, ghost>>

-----------------------------------------------------------------------------
(* What the log holds.  A length prefix is a cell of its own.              *)
LEN == [kind |-> "Length"]
Cells == Ops \cup {LEN}

Last1(s) == s[Len(s)]

\* read_operations succeeds: prefix, payload, prefix, payload, to the end.
\* Anything else makes it slice past the end, or take a length for an
\* operation, whose variant no StorageOperation has.
Alternating(w) == \A k \in 1 .. Len(w) : (w[k] = LEN) <=> (k % 2 = 1)

\* Variant: a reader that forgives a prefix without its payload at the end.
ParsesLeniently(w) == Alternating(w)
Parses(w) == Alternating(w) /\ Len(w) % 2 = 0

\* Variant: a replay that takes the newest operation first.
LoggedOpFromEnd(k) == wal[Len(wal) + 2 - 2 * k]
LoggedOp(k) == wal[2 * k]

\* Variant: a replay that stops before the last operation.
ReplayedAllButLast == ri + 1 >= Len(wal) \div 2
Replayed == ri = Len(wal) \div 2

NoFile == [st |-> "absent", val |-> NONE]
PartialFile == [st |-> "partial", val |-> NONE]

\* load_latest: the newest file, tmp.snapshot when a snapshot left it behind.
\* Variant: one that forgets the state a daemon without any snapshot starts from.
NewestOrNothing == IF tmp.st # "absent" THEN tmp.val
                   ELSE IF snaps = <<>> THEN NONE ELSE Last1(snaps)
Newest == IF tmp.st # "absent" THEN tmp.val
          ELSE IF snaps = <<>> THEN EmptyState
          ELSE Last1(snaps)

Idle == [st |-> "idle", op |-> NONE, val |-> NONE]
NoRequest == [pc |-> "recv", client |-> NONE]

Waiting(c) == client[c].st \in {"sending", "waiting"}
\* Variant: an off-by-one that leaves the last place of the channel empty.
RoomButOne == Len(queue) + 1 < ChanCap
Room == Len(queue) < ChanCap

Request == client[worker.client].op

\* The ids that a sequence of operations inserts.
CreatedIn(ops) == {ops[k].id : k \in {j \in DOMAIN ops : ops[j].kind = "Create"}}

\* Ids come from random_id, so a Create never names an id used before; the other
\* calls take the id from a record that somebody looked up, or that the same Batch
\* has created.
Admissible(op) ==
    CASE op.kind = "Create" -> op.id \notin used
      [] op.kind = "Batch"  ->
            \A k \in 1 .. Len(op.ops) :
                LET earlier == CreatedIn(SubSeq(op.ops, 1, k - 1))
                IN  IF op.ops[k].kind = "Create"
                    THEN op.ops[k].id \notin used \cup earlier
                    ELSE op.ops[k].id \in seen \cup earlier
      [] OTHER              -> op.id \in seen

Drawn(op) ==
    CASE op.kind = "Create" -> {op.id}
      [] op.kind = "Batch"  -> CreatedIn(op.ops)
      [] OTHER              -> {}

\* One more crash or failed write.
Fault == faults < MaxFaults /\ faults' = faults + 1

Init ==
    /\ wal = <<>> /\ inflight = <<>> /\ archives = 0
    /\ snaps = <<>> /\ tmp = NoFile
    /\ life = "down" /\ mem = EmptyState
    /\ lock = "free" /\ queue = <<>> /\ worker = NoRequest
    /\ snapper = "sleep" /\ cleaner = "sleep"
    /\ ri = 0
    /\ client = [c \in Clients |-> Idle]
    /\ hist = <<>> /\ past = <<EmptyState>>
    /\ used = {} /\ seen = {} /\ asked = 0 /\ faults = 0

-----------------------------------------------------------------------------
(* The callers.                                                            *)

\* execute: register, updates, deregister and the other ContainerManager calls
Execute(c, op) ==
    /\ life = "up"
    /\ ~Waiting(c)
    /\ asked < MaxOps
    /\ Admissible(op)
    /\ client' = [client EXCEPT ![c] = [st |-> "sending", op |-> op, val |-> NONE]]
    /\ used' = used \cup Drawn(op)
    /\ asked' = asked + 1
    /\ UNCHANGED <<disk, life, mem, tasks, ri, hist, past, seen, faults>>

\* op_sender.lock().await.send(...): waits while the channel is full.
Send(c) ==
    /\ life = "up"
    /\ client[c].st = "sending"
    /\ Room
    /\ queue' = Append(queue, c)
    /\ client' = [client EXCEPT ![c].st = "waiting"]
    /\ UNCHANGED <<disk, life, mem, lock, worker, snapper, cleaner, ri, ghost>>

\* get_meta_by_name: one look under the mutex, with its unwrap
GetByName(c, n) ==
    /\ life = "up"
    /\ ~Waiting(c)
    /\ lock = "free"
    /\ client' = [client EXCEPT ![c] =
                    IF Dangles(mem, n)
                    THEN [Idle EXCEPT !.st = "panic"]
                    ELSE [st |-> "got", op |-> NONE, val |-> Lookup(mem, n)]]
    /\ UNCHANGED <<disk, life, mem, tasks, ri, ghost>>

-----------------------------------------------------------------------------
(* The worker.                                                             *)

Recv ==
    /\ life = "up"
    /\ worker.pc = "recv"
    /\ queue # <<>>
    /\ worker' = [pc |-> "lock", client |-> Head(queue)]
    /\ queue' = Tail(queue)
    /\ UNCHANGED <<disk, life, mem, lock, snapper, cleaner, ri, client, ghost>>

LockInner ==
    /\ life = "up"
    /\ worker.pc = "lock"
    /\ lock = "free"
    /\ lock' = "worker"
    /\ worker' = [worker EXCEPT !.pc = "header"]
    /\ UNCHANGED <<disk, life, mem, queue, snapper, cleaner, ri, client, ghost>>

\* The length prefix: the write of the payload waits until it is in the file.
WriteHeader ==
    /\ life = "up"
    /\ worker.pc = "header"
    /\ wal' = Append(wal, LEN)
    /\ worker' = [worker EXCEPT !.pc = "payload"]
    /\ UNCHANGED <<inflight, archives, snaps, tmp, life, mem, lock, queue,
                   snapper, cleaner, ri, client, ghost>>

\* The open or the prefix fails.  A prefix cut short stays in the file, where
\* it reads as a prefix without a payload does: not at all.
WriteFails ==
    /\ life = "up"
    /\ worker.pc = "header"
    /\ Fault
    /\ \E torn \in BOOLEAN : wal' = IF torn THEN Append(wal, LEN) ELSE wal
    /\ client' = [client EXCEPT ![worker.client] = [Idle EXCEPT !.st = "err"]]
    /\ worker' = NoRequest
    /\ lock' = "free"
    /\ UNCHANGED <<inflight, archives, snaps, tmp, life, mem, queue, snapper,
                   cleaner, ri, hist, past, used, seen, asked>>

\* The payload is handed over and write_operation returns Ok.
WritePayload ==
    /\ life = "up"
    /\ worker.pc = "payload"
    /\ inflight' = Append(inflight, Request)
    /\ hist' = Append(hist, Request)
    /\ past' = Append(past, ApplyOp(Last1(past), Request))
    /\ worker' = [worker EXCEPT !.pc = "apply"]
    /\ UNCHANGED <<wal, archives, snaps, tmp, life, mem, lock, queue, snapper,
                   cleaner, ri, client, used, seen, asked, faults>>

\* The rest of the arm: apply, answer Ok, and the guard goes out of scope.
ApplyOperation ==
    /\ life = "up"
    /\ worker.pc = "apply"
    /\ mem' = ApplyOp(mem, Request)
    /\ seen' = seen \cup PresentIds(mem')
    /\ client' = [client EXCEPT ![worker.client] = [Idle EXCEPT !.st = "ok"]]
    /\ worker' = NoRequest
    /\ lock' = "free"
    /\ UNCHANGED <<disk, life, queue, snapper, cleaner, ri, hist, past, used,
                   asked, faults>>

-----------------------------------------------------------------------------
(* The writer threads, in no order, and their errors, which nobody reads.  *)
PayloadLands(k) ==
    /\ k \in 1 .. Len(inflight)
    /\ wal' = Append(wal, inflight[k])
    /\ inflight' = RemoveAt(inflight, k)
    /\ UNCHANGED <<archives, snaps, tmp, life, mem, tasks, ri, client, ghost>>

PayloadLost(k) ==
    /\ k \in 1 .. Len(inflight)
    /\ Fault
    /\ inflight' = RemoveAt(inflight, k)
    /\ UNCHANGED <<wal, archives, snaps, tmp, life, mem, tasks, ri, client,
                   hist, past, used, seen, asked>>

-----------------------------------------------------------------------------
(* The snapshot task: take_snapshot, under the mutex from tick to rename.  *)
(* Files beyond the one that purge_old_snapshots will remove are bounded.  *)

SnapshotTick ==
    /\ life = "up"
    /\ snapper = "sleep"
    /\ lock = "free"
    /\ Len(snaps) <= MaxSnapshots
    /\ lock' = "snapshot"
    /\ snapper' = "create"
    /\ UNCHANGED <<disk, life, mem, queue, worker, cleaner, ri, client, ghost>>

\* fs::write creates or truncates the file, then fills it.
CreateTmp ==
    /\ life = "up"
    /\ snapper = "create"
    /\ tmp' = PartialFile
    /\ snapper' = "fill"
    /\ UNCHANGED <<wal, inflight, archives, snaps, life, mem, lock, queue,
                   worker, cleaner, ri, client, ghost>>

FillTmp ==
    /\ life = "up"
    /\ snapper = "fill"
    /\ tmp' = [st |-> "full", val |-> mem]
    /\ snapper' = "rename"
    /\ UNCHANGED <<wal, inflight, archives, snaps, life, mem, lock, queue,
                   worker, cleaner, ri, client, ghost>>

RenameTmp ==
    /\ life = "up"
    /\ snapper = "rename"
    /\ snaps' = Append(snaps, tmp.val)
    /\ tmp' = NoFile
    /\ snapper' = "sleep"
    /\ lock' = "free"
    /\ UNCHANGED <<wal, inflight, archives, life, mem, queue, worker, cleaner,
                   ri, client, ghost>>

\* Any of the three fails: logged, and tmp.snapshot stays as it is.
SnapshotFails ==
    /\ life = "up"
    /\ snapper # "sleep"
    /\ Fault
    /\ snapper' = "sleep"
    /\ lock' = "free"
    /\ UNCHANGED <<disk, life, mem, queue, worker, cleaner, ri, client, hist,
                   past, used, seen, asked>>

-----------------------------------------------------------------------------
(* The cleanup task.                                                       *)

CleanupTick ==
    /\ life = "up"
    /\ cleaner = "sleep"
    /\ lock = "free"
    /\ lock' = "cleanup"
    /\ cleaner' = "purge"
    /\ UNCHANGED <<disk, life, mem, queue, worker, snapper, ri, client, ghost>>

\* purge_old_snapshots: the oldest file first.  tmp.snapshot counts as a file
\* and is the newest one.
Surplus == Len(snaps) + (IF tmp.st = "absent" THEN 0 ELSE 1) > MaxSnapshots

PurgeSnapshot ==
    /\ life = "up"
    /\ cleaner = "purge"
    /\ Surplus
    /\ snaps' = Tail(snaps)
    /\ UNCHANGED <<wal, inflight, archives, tmp, life, mem, tasks, ri, client,
                   ghost>>

\* rotate and purge_old_archives.  Without the archive directory the rename
\* fails and the log stays; with it, payloads in flight follow the file.
RotateWal ==
    /\ life = "up"
    /\ cleaner = "purge"
    /\ ~Surplus
    /\ IF ArchiveDir /\ wal # <<>>
       THEN /\ wal' = <<>>
            /\ inflight' = <<>>
            /\ archives' = IF archives < MaxWals THEN archives + 1 ELSE archives
       ELSE UNCHANGED <<wal, inflight, archives>>
    /\ cleaner' = "sleep"
    /\ lock' = "free"
    /\ UNCHANGED <<snaps, tmp, life, mem, queue, worker, snapper, ri, client,
                   ghost>>

\* A directory cannot be read, a file not removed: logged, and the rest is left.
CleanupFails ==
    /\ life = "up"
    /\ cleaner = "purge"
    /\ Fault
    /\ cleaner' = "sleep"
    /\ lock' = "free"
    /\ UNCHANGED <<disk, life, mem, queue, worker, snapper, ri, client, hist,
                   past, used, seen, asked>>

-----------------------------------------------------------------------------
(* The daemon's lives.                                                     *)

\* The process dies: memory and payloads in flight are gone.
Crash ==
    /\ life \in {"up", "replaying"}
    /\ Fault
    /\ life' = "down"
    /\ mem' = EmptyState
    /\ inflight' = <<>>
    /\ lock' = "free"
    /\ queue' = <<>>
    /\ worker' = NoRequest
    /\ snapper' = "sleep"
    /\ cleaner' = "sleep"
    /\ ri' = 0
    /\ client' = [c \in Clients |-> Idle]
    /\ UNCHANGED <<wal, archives, snaps, tmp, hist, past, used, seen, asked>>

\* recover_state reads both before it replays; an unreadable file is fatal.
Restart ==
    /\ life = "down"
    /\ IF tmp.st # "partial" /\ Parses(wal)
       THEN life' = "replaying" /\ mem' = Newest
       ELSE life' = "failed" /\ UNCHANGED mem
    /\ UNCHANGED <<disk, tasks, ri, client, ghost>>

ReplayOne ==
    /\ life = "replaying"
    /\ ~Replayed
    /\ mem' = ApplyOp(mem, LoggedOp(ri + 1))
    /\ ri' = ri + 1
    /\ UNCHANGED <<disk, life, tasks, client, ghost>>

Started ==
    /\ life = "replaying"
    /\ Replayed
    /\ life' = "up"
    /\ seen' = seen \cup PresentIds(mem)
    /\ UNCHANGED <<disk, mem, tasks, ri, client, hist, past, used, asked, faults>>

-----------------------------------------------------------------------------
Serve == Recv \/ LockInner \/ WriteHeader \/ WritePayload \/ ApplyOperation

Snapshot == CreateTmp \/ FillTmp \/ RenameTmp

Cleanup == PurgeSnapshot \/ RotateWal

Next ==
    \/ \E c \in Clients : \/ \E op \in Ops : Execute(c, op)
                          \/ Send(c)
                          \/ \E n \in Names : GetByName(c, n)
    \/ Serve \/ WriteFails
    \/ \E k \in 1 .. Len(inflight) : PayloadLands(k) \/ PayloadLost(k)
    \/ SnapshotTick \/ Snapshot \/ SnapshotFails
    \/ CleanupTick \/ Cleanup \/ CleanupFails
    \/ Crash \/ Restart \/ ReplayOne \/ Started

Spec == Init /\ [][Next]_vars

(***************************************************************************)
(* tokio polls a task that is ready, and its mutex and its channel serve   *)
(* those who wait in order of arrival: a task that is again and again able *)
(* to take the lock, or a place in the channel, gets it.  Nothing forces a *)
(* call, a tick, a crash or a failure; a daemon that is down is started.   *)
(***************************************************************************)
Fairness ==
    /\ WF_vars(Recv) /\ WF_vars(WriteHeader) /\ WF_vars(WritePayload)
    /\ WF_vars(ApplyOperation)
    /\ SF_vars(LockInner)
    /\ \A c \in Clients : SF_vars(Send(c))
    /\ WF_vars(Snapshot) /\ WF_vars(Cleanup)
    /\ WF_vars(Restart) /\ WF_vars(ReplayOne) /\ WF_vars(Started)

FairSpec == Spec /\ Fairness

-----------------------------------------------------------------------------
(* Types.                                                                  *)

ClientStates == [st  : {"idle", "sending", "waiting", "ok", "err", "got", "panic"},
                 op  : Ops \cup {NONE},
                 val : Metas \cup {NONE}]

\* Every variable holds a value of its kind (all of the code's declarations).
TypeOK ==
    /\ wal \in Seq(Cells) /\ inflight \in Seq(Ops) /\ archives \in Nat
    /\ snaps \in Seq(InnerStates)
    /\ tmp \in [st : {"absent", "partial", "full"}, val : InnerStates \cup {NONE}]
    /\ life \in {"down", "replaying", "up", "failed"}
    /\ mem \in InnerStates
    /\ lock \in {"free", "worker", "snapshot", "cleanup", "upkeep"}
    /\ queue \in Seq(Clients)
    /\ worker \in [pc : {"recv", "lock", "header", "payload", "apply"},
                   client : Clients \cup {NONE}]
    /\ snapper \in {"sleep", "create", "fill", "rename"}
    /\ cleaner \in {"sleep", "purge"}
    /\ ri \in Nat
    /\ client \in [Clients -> ClientStates]
    /\ hist \in Seq(Ops) /\ past \in Seq(InnerStates)
    /\ used \in SUBSET Ids /\ seen \in SUBSET Ids
    /\ asked \in Nat /\ faults \in Nat

-----------------------------------------------------------------------------
(* What the storage keeps true.                                            *)

\* A lookup never meets a name that leads to no record, or to the record of
\* another name: the unwrap of get_meta_by_name cannot panic.  It takes fresh
\* ids, and a Delete that removes both entries, through any number of restarts
\* over snapshots of any age.
NoDanglingName ==
    life = "up" =>
        \A n \in Names : mem.by_name[n] # NONE =>
            /\ mem.by_id[mem.by_name[n]] # NONE
            /\ mem.by_id[mem.by_name[n]].name = n

\* What the daemon serves is every operation it ever logged, in order, and
\* nothing else, whatever snapshot it started from and however often it died:
\* replaying a whole log over a snapshot of any of its prefixes converges.
MemoryIsHistory ==
    life = "up" /\ worker.pc # "apply" => mem = Last1(past)

\* A log that read_operations accepts is the whole history: a payload that was
\* lost, cut short or overtaken leaves a log that cannot be read at all, so a
\* restart never serves a registry that lacks an operation it answered.
ReadableLogIsHistory ==
    Parses(wal) =>
        /\ Len(wal) = 2 * Len(hist)
        /\ \A k \in 1 .. Len(hist) : LoggedOp(k) = hist[k]

\* Every complete snapshot file is the state after some prefix of the history:
\* none is taken halfway through an operation, or of a registry in recovery.
SnapshotsArePrefixes ==
    LET Pasts == {past[k] : k \in 1 .. Len(past)}
    IN  /\ \A k \in 1 .. Len(snaps) : snaps[k] \in Pasts
        /\ tmp.st = "full" => tmp.val \in Pasts

\* The storage implements the registry its callers see.  An operation takes
\* effect when its payload is handed to the log.
Committed == {c \in Clients : worker.pc = "apply" /\ worker.client = c}

R == INSTANCE Registry WITH reg <- Last1(past), done <- Committed

\* Calls and lookups are linearizable, an error means no effect, and a crash
\* loses nothing that a later life of the daemon could miss.
RefinesRegistry == R!Spec

\* Every call is answered (or dies with the daemon), although the worker, the
\* snapshot task, the cleanup task and the lookups compete for one mutex and
\* the channel may be full.
EveryCallAnswered == \A c \in Clients : Waiting(c) ~> ~Waiting(c)

-----------------------------------------------------------------------------
(* What the code says of itself and does not do.                           *)

\* A daemon that is started serves: "Fatal, failed to init container metas"
\* never happens.
RestartSucceeds == life # "failed"
=============================================================================
