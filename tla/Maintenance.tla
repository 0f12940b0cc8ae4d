---------------------------- MODULE Maintenance ----------------------------
(***************************************************************************)
(* The storage with its log maintained: compaction (compact_wal and        *)
(* WalManager::compact, which example.rs calls and the daemon does not     *)
(* yet), verification, and rotation where the archive directory exists.    *)
(*                                                                         *)
(* A compaction reads the log under the mutex, leaves out the operations   *)
(* up to an index of the caller's, writes the others into a file of its    *)
(* own and renames that over the log.  Like every tokio File this one is   *)
(* dropped with its last write under way; but it was not opened to append, *)
(* so the payload lands at its place in the file, on top of anything that  *)
(* was appended since.                                                     *)
(***************************************************************************)
EXTENDS MetaStorage

CONSTANTS
    MaxCompactions   \* bound: logs rewritten

ASSUME MaintenanceAssumption == MaxCompactions \in Nat

VARIABLES
    compactor,     \* the call's place, and the log it is going to leave
    tail,          \* the last payload of a rewritten log, and its place there
    compactions,   \* logs rewritten so far
    (* observers *)
    dropped,       \* operations at the start of hist that left the log
    covered,       \* whether the newest snapshot held them whenever some left
    overtaken      \* whether a tail ever landed on what was appended after it

upkeep    == <<compactor, tail, compactions, dropped, covered, overtaken>>
maintVars == <<vars, upkeep>>

Resting == [pc |-> "rest", kept |-> <<>>, count |-> 0]
NoTail  == [at |-> 0, op |-> NONE]

MaintInit ==
    /\ Init
    /\ compactor = Resting /\ tail = NoTail /\ compactions = 0
    /\ dropped = 0 /\ covered = TRUE /\ overtaken = FALSE

\* The newest snapshot is the state after the first n operations, or after more.
Holds(n) == \E k \in n .. Len(hist) : Newest = past[k + 1]

\* The first n operations of the history are in the log no more.
Forget(n) == dropped' = n /\ covered' = (covered /\ Holds(n))

-----------------------------------------------------------------------------
Release == lock' = "free" /\ UNCHANGED <<queue, worker, snapper, cleaner>>

\* compact_wal, or verify_wal_integrity, which only reads
LockForUpkeep(step) ==
    /\ life = "up"
    /\ compactor.pc = "rest"
    /\ lock = "free"
    /\ step = "compact" => compactions < MaxCompactions
    /\ lock' = "upkeep"
    /\ compactor' = [compactor EXCEPT !.pc = step]
    /\ UNCHANGED <<disk, life, mem, queue, worker, snapper, cleaner, ri, client,
                   ghost, tail, compactions, dropped, covered, overtaken>>

\* Variant: the operations before the index alone.
KeptFromIndex(k) == SubSeq(wal, 2 * k + 1, Len(wal))

\* skip_while(index <= snapshot_index)
Kept(k) == SubSeq(wal, 2 * k + 3, Len(wal))

\* read_all_operations, and the temporary file all but its last payload
Rewrite(k) ==
    /\ compactor.pc = "compact"
    /\ Parses(wal)
    /\ compactor' = [pc |-> "rename", kept |-> Kept(k),
                     count |-> Min({k + 1, Len(wal) \div 2})]
    /\ compactions' = compactions + 1
    /\ UNCHANGED <<vars, tail, dropped, covered, overtaken>>

\* The log does not read, where the reader panics or fails; or, for verification,
\* it does.  The mutex is let go of.
ReadOnly ==
    /\ \/ compactor.pc = "compact" /\ ~Parses(wal)
       \/ compactor.pc = "verify"
    /\ compactor' = Resting
    /\ Release
    /\ UNCHANGED <<disk, life, mem, ri, client, ghost, tail, compactions, dropped,
                   covered, overtaken>>

\* A payload that was on its way to the old file goes with it.
RenameCompacted ==
    /\ compactor.pc = "rename"
    /\ IF compactor.kept = <<>>
       THEN wal' = <<>> /\ tail' = NoTail
       ELSE /\ wal' = Front(compactor.kept)
            /\ tail' = [at |-> Len(compactor.kept), op |-> Last(compactor.kept)]
    /\ inflight' = <<>>
    /\ Forget(dropped + compactor.count)
    /\ compactor' = Resting
    /\ Release
    /\ UNCHANGED <<archives, snaps, tmp, life, mem, ri, client, ghost, compactions,
                   overtaken>>

\* A file cannot be read, written or renamed: the log is as it was.
UpkeepFails ==
    /\ compactor.pc # "rest"
    /\ Fault
    /\ compactor' = Resting
    /\ Release
    /\ UNCHANGED <<disk, life, mem, ri, client, hist, past, used, seen, asked, tail,
                   compactions, dropped, covered, overtaken>>

-----------------------------------------------------------------------------
\* The tail lands at its place, over the first cells that were appended since.
TailLands ==
    /\ tail # NoTail
    /\ \E last \in (IF Len(wal) < tail.at THEN {Len(wal)} ELSE tail.at .. Len(wal)) :
          wal' = SubSeq(wal, 1, tail.at - 1) \o <<tail.op>> \o SubSeq(wal, last + 1, Len(wal))
    /\ tail' = NoTail
    /\ overtaken' = (overtaken \/ Len(wal) >= tail.at)
    /\ UNCHANGED <<inflight, archives, snaps, tmp, life, mem, tasks, ri, client, ghost,
                   compactor, compactions, dropped, covered>>

TailLost ==
    /\ tail # NoTail
    /\ Fault
    /\ tail' = NoTail
    /\ UNCHANGED <<disk, life, mem, tasks, ri, client, hist, past, used, seen, asked,
                   compactor, compactions, dropped, covered, overtaken>>

-----------------------------------------------------------------------------
(* The steps of MetaStorage; lookups, which change nothing, are left out.  *)

Ordinary ==
    \/ \E c \in Clients : Send(c) \/ \E op \in Ops : Execute(c, op)
    \/ Serve \/ WriteFails
    \/ \E k \in 1 .. Len(inflight) : PayloadLands(k) \/ PayloadLost(k)
    \/ SnapshotTick \/ Snapshot \/ SnapshotFails
    \/ CleanupTick \/ PurgeSnapshot \/ CleanupFails
    \/ Restart \/ ReplayOne \/ Started

\* The tail follows the file into the archive.
Rotation ==
    /\ RotateWal
    /\ IF ArchiveDir /\ wal # <<>>
       THEN Forget(Len(hist)) /\ tail' = NoTail
       ELSE UNCHANGED <<dropped, covered, tail>>
    /\ UNCHANGED <<compactor, compactions, overtaken>>

Death ==
    /\ Crash
    /\ compactor' = Resting /\ tail' = NoTail
    /\ UNCHANGED <<compactions, dropped, covered, overtaken>>

MaintNext ==
    \/ Ordinary /\ UNCHANGED upkeep
    \/ Rotation \/ Death
    \/ \E step \in {"compact", "verify"} : LockForUpkeep(step)
    \/ \E k \in 0 .. MaxOps : Rewrite(k)
    \/ ReadOnly \/ RenameCompacted \/ UpkeepFails
    \/ TailLands \/ TailLost

MaintSpec == MaintInit /\ [][MaintNext]_maintVars

-----------------------------------------------------------------------------
\* A log that reads, after compactions with any index and after rotations, is the
\* history without its first operations: nothing answered leaves it from the end
\* or from the middle, whatever writes are lost or late, but for the one race in
\* which the tail of a compaction lands on what was appended after it.
CompactedLogIsHistory ==
    Parses(wal) /\ ~overtaken =>
        /\ Len(wal) = 2 * (Len(hist) - dropped)
        /\ \A k \in 1 .. Len(wal) \div 2 : LoggedOp(k) = hist[dropped + k]

\* A record but for its mounts.
Bare(m) == IF m = NONE THEN NONE ELSE [m EXCEPT !.mounts = NONE]

\* As long as only operations leave the log that the newest snapshot holds, the
\* daemon knows after every restart the containers it knew, each with its name,
\* its status and its configuration, although it replays operations over a state
\* that holds them already and their Create is gone.  (Mounts are added twice, and
\* a name may lead to a container that had lost it.)
RecordsSurvive ==
    life = "up" /\ worker.pc # "apply" /\ covered /\ ~overtaken =>
        \A i \in Ids : Bare(mem.by_id[i]) = Bare(Last1(past).by_id[i])

\* A compaction that has read the log leaves no payload behind on its way to the
\* file that it replaces, although write_operation never waits for one: a log with
\* a payload under way does not read.
NothingLeftBehind ==
    compactor.pc = "rename" /\ ~overtaken => inflight = <<>> /\ tail = NoTail
=============================================================================
