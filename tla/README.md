# Rtain, specified

TLA+ models of the container manager in this repository: what its metadata
storage promises and how it keeps it, what its request handlers do to containers
when they run side by side, what a session does with a container's output, and how
it hands out addresses and makes networks.
TLC checks small instances; TLAPS proves the safety of the storage, the maintenance of
its log, the handlers, the sessions, the address manager and the networks for every
value of the constants, and that the storage keeps its abstract promise.

    tlc -config Storage.cfg MCMetaStorage.tla
    tlc -config Maintenance.cfg MCMaintenance.tla
    tlc -config Lifecycle.cfg MCLifecycle.tla
    tlc -config Session.cfg Session.tla
    tlc -config Ipam.cfg MCIpamUse.tla
    tlc -config Networks.cfg MCNetworks.tla
    tlapm MetaStorageProofs.tla
    tlapm MaintenanceProofs.tla
    tlapm LifecycleProofs.tla
    tlapm SessionProofs.tla
    tlapm IpamUseProofs.tla
    tlapm NetworksProofs.tla

## 1. The system

| Component | Code (under `src/core/`) | State | Operations |
|---|---|---|---|
| Registry | `metas/meta.rs` | `by_id`, `by_name` | `apply_operation`: create, delete, status, state, configuration, mounts, batch |
| Storage | `metas/storage.rs`, `wal.rs`, `snapshot.rs` | channel, mutex, worker, log, snapshots, archives | `execute`, lookups, snapshot and cleanup ticks, recovery |
| Lifecycle | `container/init.rs`, `start.rs`, `stop.rs`, `rm.rs` | processes, cgroups, workspaces, sessions | `run`, `start`, `stop`, `rm` |
| Session | `container/init.rs` (`do_run`), `../front/ops.rs` | pty, pipe, socket, log file, four tasks | copy, watch, report, stop |
| Other requests | `container/exec.rs`, `list.rs`, `commit.rs` | none | `exec`, `ps`, `logs`, `commit` |
| Workspaces | `container/image.rs` | directories, overlay mounts | create, delete |
| Log maintenance | `metas/storage.rs`, `wal.rs` | the log | `compact_wal`, `verify_wal_integrity`, rotation |
| IPAM | `network/ipam.rs` | subnets as bitmaps | `add_subnet`, `allocate_ip`, `allocate_gateway`, `release_ip`, serialisation |
| Networks | `network/network.rs`, `bridge.rs` | networks, their file, bridges | `network create`, load, save |
| Daemon | `mod.rs` | socket, one handler per connection | start, dispatch |
| Protocol, client | `msg.rs`, `../front/*.rs` | none | requests, answers, attached streams |

How they interact. The daemon opens the storage (recovery included) and the
networks, then spawns a tokio task, a *handler*, per connection. Handlers call
the storage, which serialises all operations through one worker, and otherwise
change the world by system calls: `clone`, cgroup files, `tar` and `mount`. A
handler and the process it cloned talk over a socket pair (`WAIT`, then `CONT` or
`EXIT`). An attached handler stays for the length of the session, copies bytes
and listens for SIGCHLD; a detached one sits in `waitpid`. Nothing keeps two
handlers off one container: each works from a copy of the record that it looked
up once.

What is hard here:

* *Files.* `write_operation` opens the log for every operation and does not
  flush: tokio's `File` writes on another thread, the second write waits for the
  first one only. `take_snapshot` leaves `tmp.snapshot` behind when it dies or
  fails, and `load_latest` takes any newest file. A restart replays the whole log
  over whatever snapshot it found.
* *Interleavings.* Handlers race between lookup and act. Worker, two periodic
  tasks and lookups race for one mutex.
* *Partial failure.* `run`, `rm` and `network create` are sequences of fallible
  steps with best-effort undoing; many results are ignored or unwrapped.
* *Threads.* The read from a process's socket and the `waitpid` of a detached
  session block a thread of tokio each.
* *Widths.* Addresses and capacities are `u32`: /0, /31 and /32 are at its edges, and
  a bitmap is saved in whole bytes.
* *Notification.* SIGCHLD listeners hear only later signals.
* *Streams.* Output goes through four bounded buffers in a row; the task that copies
  it holds the lock that the report of the exit needs; an abort takes effect at the
  task's next await.

What makes each component correct:

* Registry: a name leads to a record of that name.
* Storage: calls are linearizable, errors have no effect, nothing answered is
  lost by a restart that succeeds; every call is answered.
* Lifecycle: a record that says Running has somebody who will reset it; a
  process that runs can be stopped; failed calls leave nothing behind that waits;
  a removed container does not run; exits are noticed.
* Session: output arrives whole and in order, the report after it; the exit of the
  command ends the session, and no task of it stays.
* Networks: an address is handed out once and lies in its subnet; a failed
  creation leaves no bridge; a network that is listed is complete.

`PROJECT.json` lists the hazards behind these at their lines.

## 2. The modules

| Module | Models |
|---|---|
| `InnerState` | the registry as a value, and `apply_operation` as operators |
| `Registry` | abstract: the storage as its callers see it |
| `MetaStorage` | the storage in detail; implements `Registry` |
| `MCMetaStorage` | instances of `MetaStorage` |
| `InnerStateProofs` | lemmas about the operators |
| `MetaStorageProofs` | the inductive invariant of `MetaStorage`, its theorems, and that it implements `Registry` |
| `Maintenance`, `MCMaintenance` | `MetaStorage` with its log compacted, verified and rotated |
| `MaintenanceProofs` | the inductive invariants of `Maintenance` and its theorems |
| `Lifecycle` | handlers and cloned processes over the registry |
| `MCLifecycle` | instances of `Lifecycle` |
| `LifecycleProofs` | the inductive invariant of `Lifecycle` and its theorems |
| `Session` | the tasks of one session and its client |
| `SessionProofs` | sequences of consecutive bytes; the inductive invariant of `Session` and its theorems |
| `Ipam` | the address manager as a value, its operations as operators |
| `IpamProofs` | lemmas about the arithmetic and the operators of `Ipam` |
| `IpamUse`, `MCIpamUse` | owners who ask for addresses and release them; saves and loads |
| `IpamUseProofs` | the inductive invariant of `IpamUse` and its theorems |
| `Networks`, `MCNetworks` | `create_network` over `Ipam`, a bridge and a file |
| `NetworksProofs` | the inductive invariant of `Networks` and its theorems |

### InnerState

A state is a record of two functions. `Configure` stands for the five operations
that overwrite one field (environment, labels, resources, attach and detach
network); mounts are counted by destination, since `AddMount` pushes without
looking and `RemoveMount` retains the others. Timestamps, image and command
decide nothing here. A `Batch` is a fold over basic operations, as in the code,
and not nested. It may insert containers and edit them, as `test_batch_operations` does:
an id that it uses was seen before or is created earlier in the same batch, and one
that it creates is new (`Admissible`).

### MetaStorage

| Variable | Code |
|---|---|
| `wal`, `inflight` | `current.wal` as cells (a length prefix is a cell); payloads still on a writer thread |
| `snaps`, `tmp` | `snapshot-*.bin`, `tmp.snapshot` (absent, partial, full) |
| `archives` | files in `wal/archive` |
| `mem`, `lock` | `StorageInner.state` and the mutex around it (`upkeep` holds it in `Maintenance` only) |
| `queue`, `worker` | the mpsc channel; the place of the loop at `storage.rs:206-234` |
| `snapper`, `cleaner` | the two spawned tasks |
| `life`, `ri` | recovery: down, replaying (at operation `ri`), up, failed |
| `client` | per caller: the call, and the answer or what it looked up |
| `hist`, `past`, `used`, `seen`, `asked`, `faults` | observers |

Each `await` that another task can use is a step boundary: `Execute`, `Send`,
`Recv`, `LockInner`, `WriteHeader`, `WritePayload` and `ApplyOperation` are one
call's way through the code; `CreateTmp`, `FillTmp`, `RenameTmp` a snapshot's;
`PurgeSnapshot`, `RotateWal` a cleanup's. `PayloadLands` and `PayloadLost` are the
writer threads. `Crash` may happen at any moment, recovery included. The
snapshots' names and times are abstracted to their order.

`rotate` renames into `wal/archive`, which no code creates: `ArchiveDir` is FALSE
in the runs of `MetaStorage` and in the theorems that speak of the log. It is TRUE
in the run of `Maintenance` (somebody made the directory) and arbitrary in its theorems.

`Registry` is the promise: an operation takes effect once, between call and
answer; an error means no effect; lookups see the present; a crash takes nothing
back. The mapping is `reg <- Last1(past)` (the state after all logged operations)
and `done <-` the client whose operation is logged and not yet answered, so the
commit point is `WritePayload`.

### Maintenance

It extends `MetaStorage` with `compactor` (the call at work), `tail` (the last payload
of a rewritten log, still on a writer thread) and observers of what left the log
(`dropped`), of whether the newest snapshot held it (`covered`), and of whether a tail
ever landed on something else (`overtaken`). A compaction takes the mutex, reads
(`Rewrite`), renames (`RenameCompacted`). Its file was not opened to append: what is
appended after the rename may be overwritten when the tail lands (`TailLands`), in
the one place where its offset says. `Ordinary` is every step of `MetaStorage` but
the lookups.

Three things that the run showed on the way, each a conjunct that the properties
cannot do without:

* A compaction whose index is beyond the newest snapshot (`~covered`) loses
  containers at the next restart. Nothing in `compact_wal` asks for the snapshot; it is
  up to the caller.
* Where the snapshot does hold what left, mounts are still added twice (without a
  compaction the Create of the container resets them at each replay), and a name may
  lead to a container that it had left. `RecordsSurvive` is about the rest.
* A tail that lands late (`overtaken`) can leave a log that reads and lacks an answered
  operation: the only way to such a log.

### Lifecycle

| Variable | Code |
|---|---|
| `pc`, `call`, `id`, `reply` | a handler task: its place, request, container and answer |
| `child` | the process it cloned: `setup`, `blocked` on the socket, `running` the command, `dying`, `exited`; `said` and `told` are the socket pair |
| `reg` | the storage, as the abstract `Registry` has it: calls are atomic or fail without effect |
| `workspaces`, `cgroups` | directories and cgroups that exist |
| `gone`, `watch` | clients that left; the SIGCHLD listener (`off`, `on`, `woken`) |
| `threads` | tokio's worker threads; `Blocking` handlers hold one each, others need one free to step |

One action per step between awaits, with its error branch as an action of its
own (`JoinCgroup`/`JoinFails`, `OpenLog`/`OpenLogFails`, ...). An early return or an
unwrap that skips `do_stop`, and the run that finds no pid, end in `lost`, the death
of the daemon in `killed`, everything else in `over`. External and modelled from
their use: a cgroup with live members cannot be removed; `cg.kill` dooms all
members, which die a little later; a process that was cloned holds a copy of its
parent's end of the socket, so a handler that says nothing leaves it blocked.
Using the atomic `reg` here is what `RefinesRegistry` justifies. `ps`, `logs` and `commit`
change no state of these, but need threads, and the `tar` of a commit is a child whose
exit wakes the listeners. A `setup_cgroup` that fails may fail to delete what it built
(`JoinFails`). The end of a socket's stream may come late, while a process of another
container that was cloned meanwhile has a copy of it: `ReadExit` is then delayed, which a
step may be at any time, and the run of the liveness properties has no fault that would
bring such an end about. `logs` reads `stdout.log`, which nothing writes (a session
writes `log.log`), so `ShowLogs` always answers with an error.

Nothing checks that a name is free. A second `run` of it takes `by_name` over, and the
older container, which `ps` lists, cannot be reached by it; after a removal of the newer
one, neither can. `ReachableByName` says that this is the only way to such a container.

### Session

A session is one step of its handler in `Lifecycle`. Here it is taken apart, from the
moment after the word `CONT` and the first answer, whose unwraps (`init.rs:129-137`) are in
`Lifecycle`, to the end of `do_run`. Output is bytes numbered in the order written.

| Variable | Code |
|---|---|
| `main` | the place of `do_run`: `wait` (select, waitpid), `report`, `shutdown`, `stop`, `over`, `lost` |
| `command`, `produced`, `pty`, `inherited` | the process, its terminal, and whether another container's process has a copy of that |
| `reader`, `rest` | `read_from_pty` and what it has still to write of its buffer |
| `pipe` | `simplex(1)` |
| `copier`, `chunk` | `pty_to_client` or `pty_to_log` and the byte it has read |
| `input`, `watch` | `client_to_pty`; `check_child_exit` and its listener |
| `sock`, `shut`, `client`, `stdin`, `shown`, `threads` | the stream to the client, the client, what it printed, the threads of its runtime |
| `log`, `offset`, `landing`, `broken` | the log file, the write on its way, whether one failed |
| `foreign`, `disturbed` | the offset of another session of the container that writes this log; whether one opened or wrote it |

A task that is aborted is `aborting` until its next await and may copy until then;
one that was never polled is gone at once. `Report` is the lock and the write that
`select!` reaches after the abort, `ReportPanics` the unwrap when the client has left,
`ReportDropped` the arm that only logs, which is reached when the watch itself failed
(`CheckFails`). Other sessions of the container truncate the log whenever they start
(`Truncate`) and write it at an offset of their own (`OtherWrites`), from the start or
from where one before was.
`Stop` is `do_stop`, which kills the command or fails to. The two halves of a tokio
`simplex` are those of `split`: a half that is dropped tells the other nothing.

Four exceptions in the properties are how the code is, and each can be reached:

* `ListensTooLate`: the listener for SIGCHLD is registered in a task spawned after `CONT`,
  and waits for a signal before its first `waitpid`. A command that exits before that is
  noticed only when another child of the daemon exits.
* `threads = 1`: the client reads stdin with a blocking call in an async task. If its
  runtime has one thread (one CPU), it prints nothing while stdin is open; the socket
  fills, and a session whose command exits waits for room to report it.
* `broken`: a write to the log that fails ends the copying task of a detached session,
  and the command is stuck once the pty is full.
* `Stranded`, `inherited`: `select!` aborts the copying task and not the reader, which then
  waits for a pipe nobody reads; another container that was started meanwhile inherits
  the slave of the pty, so that the reader hears of no hangup.

What the run also shows: output that is in the buffers when the command exits is not
shown, since both branches abort the copying task. `OutputIsConserved` speaks of the
time before that, `ShownInOrder` of all of it.

### Ipam and IpamUse

A CIDR is an address, a block size and a spelling: nothing makes users write the first
address of a block, and the text is the key (`10.0.0.0/8` and `10.0.0.0/08` are two subnets
of one block). A bitmap is its length and the taken
positions. Every operation is an operator that returns the subnets it leaves, `ok`,
`err` or `panic`, and an address; arithmetic is modulo `Modulus`, and `checked` says whether
the build checks overflows (`panic`) or wraps. `Reloaded` is a save and a load: a
bitmap comes back rounded up to `ByteBits`. `allocate_gateway` compares with the length of the
bitmap as `u32`, which is 0 for one of 2^32 bits. `IpamUse` adds owners who hold what they
were given; a panic in the calculation of an address comes after the bit was set
(`lost`).

That a subnet keeps to its block, `HeldInBlock`, is what the test at `ipam.rs:249` says of a
/30 ("only 2 usable IPs"), and is false after a reload, which gives the /30 eight bits: run
`small_subnet` shows it, and the theorem `UnloadedSubnetsKeepTheirBlock` that the reload is
the cause. Beyond that: with another address of the block in the CIDR, a release frees
a different bit or none; a /32 has 2^32 - 1 addresses without overflow checks and panics
with them.

### Networks

| Variable | Code |
|---|---|
| `subnets`, `networks`, `holder` | the fields of `Networks` and the mutex around it |
| `file` | the saved table: absent, torn, full |
| `links`, `rules` | kernel: bridges with address and state; what iptables was told |
| `pc`, `req`, `gateway`, `reply` | a handler in `create_network` |
| `life`, `saved` | the daemon; which names were ever in a complete file |

`Reserve` is the code up to the driver, in which nothing is awaited; then one action
per call of `create_bridge`, with `SetUpFails` for the three that are undone; `GiveUp` is
the release of the gateway after an error; `Reply`, `Insert`, `WriteFile` come in this
order, so a client may read `Ok` of a network that is never saved. `fs::write` is two
steps, and a death between them leaves a file that every later daemon refuses
(`life = "failed"`). An error leaves the subnet in the address manager, so the same
creation is refused from then on (`StraySubnets` says that this is the only way).

## 3. The runs

| Run | Instance | Shows |
|---|---|---|
| `storage` | 2 clients, 2 ids, 1 name, channel of 1, 3 operations of 4, one of them a batch, 2 faults, 1 snapshot kept | 5 invariants and the refinement |
| `storage_liveness` | the same with one container and 1 fault | `EveryCallAnswered` |
| `storage_restart` | 1 fault | *violation*: the daemon always starts |
| `maintenance` | 1 client, 2 ids, 1 name, 3 operations, 2 compactions, 2 faults | 3 invariants of a log that is compacted and rotated |
| `ipam` | 4 owners, 6 CIDRs in 4-bit addresses, 2 spellings, both builds | 3 invariants |
| `small_subnet` | 3 owners, one /30, bytes of 8 bits | *violation*: a /30 has two addresses |
| `networks` | 3 requests of 9, 2 names, 3 faults | 7 invariants |
| `lifecycle` | 4 requests of any kind without faults, or 3 with 2 faults; 2 ids, 1 name | 6 invariants under races and failures |
| `lifecycle_liveness` | 3 requests without clients, 3 ids, 1 or 3 threads | `RequestsEnd`, `ExitIsRecorded` |
| `run_runs` | 2 requests | *violation*: `run` runs the container |
| `session` | attached or detached, 6 bytes through a pty of 2, 1 or 2 client threads, 1 byte of another session, 1 fault | 4 invariants, 4 liveness properties |
| `rm_spares` | 3 requests | *violation*: `rm` removes stopped containers only |

Why the bounds are enough. The interesting histories of the storage are short: a
Create, a mount (not idempotent) or a second Create of the name, and a Delete,
replayed over a snapshot of any prefix; three operations give all orders of them.
Two faults allow a fault during the recovery from the first. One place in the
channel makes it full with two clients, one snapshot kept makes every cleanup
purge. One of the operations is a batch that inserts the second container and edits it in
each way that the others do not. `Len(snaps) <= MaxSnapshots` in `SnapshotTick` bounds the files between two
cleanups (one more than is kept). `MaxOps` and `MaxFaults` bound operations and
faults, `MaxWals` the count of archives. In `Lifecycle` a run and three more
requests suffice for the races of the code, all of which are between one handler's
lookup and act and one or two others' acts; a handler serves one request, so the
number of handlers bounds the model (`FourOrFaults` keeps the fourth for histories
without faults). One thread is the least that can be exhausted; with three none of
three handlers waits.

In `Session` the pty has room for two bytes, so that a read may bring more than the pipe
takes, and the socket for one; six bytes fill all five places that they pass before the client (pty,
buffer, pipe, chunk, socket), which is when everybody waits for it; `MaxOutput` bounds what the command writes, `MaxFaults` the failed calls (a write to the
log, to the pty, a kill, the watch). `MaxForeign` bounds how far another session writes
before it is truncated in turn: one byte is enough to overwrite this session's, to land
before it does, and to lie before a hole. A client's runtime has one thread or more, and two is more.

`Modulus` 16 with blocks of 16, 4, 2 and 1 has every edge of the widths: /0, the last
block (sums that leave the width), /31 (no address) and /32 (one below zero). `ByteBits` 4
makes a bitmap of 2 bits grow at a load, as 8 does for a /30. One block is there in two
spellings, as two subnets that know nothing of each other. Four owners fill a block
and hold what a reload adds. Three creations are one that succeeds or fails halfway, one
that meets what it left, and one in a later daemon; `MaxFaults` 3 allows a failed step, a
failed undoing and a death. `MaxCompactions` 2 lets a compaction come while the tail of
another is on its way, with the index before, at and after what a snapshot holds. `CHECK_DEADLOCK FALSE`: a daemon with nothing
to do, one that failed to start, and a model out of operations really stop.
Symmetry permutes clients, or handlers and ids, none of which the specifications
tell apart, and is used for safety only.

Fairness. In `MetaStorage` weak fairness for the steps of a running task (tokio polls
what is ready), strong fairness for the mutex and the channel (tokio's are FIFO),
none for calls, ticks, faults; a daemon that is down is started. In `Lifecycle` weak
fairness for each handler whenever it has a thread or one is free, and for each process;
commands end, clients need not leave. That commands end is what lets requests end when
blocking handlers hold every thread: a detached command that never ends keeps its
thread, and as many of them as there are threads stop the daemon. The code offers no
way out of that; the run shows that it is the only way in. In `Session` weak fairness for
each task, for the thread that writes the file and for what the client does by itself;
none for the command, faults, the other containers, or the user: stdin may stay open and
the command may run for ever.

What the properties are aimed at:

* `NoDanglingName`: the `unwrap` of `get_meta_by_name`.
* `MemoryIsHistory`: replay over a newer snapshot converges.
* `ReadableLogIsHistory`: torn, lost and overtaken payloads make a log unreadable,
  never a shorter history.
* `SnapshotsArePrefixes`: no snapshot of half an operation.
* `RefinesRegistry`, `EveryCallAnswered`: the promise to callers.
* `RunningIsSupervised`: the list of ways to a record stuck at Running is complete.
* `RunningIsInCgroup`: `rm` deletes cgroups while `start` joins them.
* `RecordHasWorkspace`, `NobodyWaitsInVain`: the error paths undo enough.
* `ReachableByName`: the two maps after any order of `run`, `rm` and failed calls.
* `RequestsEnd`, `ExitIsRecorded`: nobody waits for each other; exits are recorded.
* `ShownInOrder`, `OutputIsConserved`: two writers of one socket, one of which is aborted
  in the middle of what it does.
* `LogKeepsPlaces`: a log that other sessions truncate and write.
* `ExitEndsSession`, `ExitIsReported`, `CommandIsNotStuck`: a chain of bounded buffers and a
  lock do not stop the session, but in the cases listed above.
* `NothingLeftRunning`: each task hears of the end.
* `CompactedLogIsHistory`, `NothingLeftBehind`: a log replaced under writers that nobody
  waits for, with payloads of either file on their way.
* `RecordsSurvive`: replay of a log that no longer starts at the beginning.
* `HeldOnce`, `TakenIsHeld`: `ip_to_index` and `calculate_ip` are inverses where they
  must be, through panics, refusals and reloads.
* `NetworksAreComplete`, `CreatedIsListed`, `SavedIsKept`: the mutex covers creations
  through all awaits; the undoing after an error takes nothing from a network that is
  there; what was saved is in each later daemon.
* `StrayBridges`, `StraySubnets`: the list of what failed creations leave is complete.
* `GatewaysDiffer`: disjoint networks do not share a gateway.

The violations are disagreements with what the repository says of itself; each is
quoted with its line in `PROJECT.json`, "findings".

Several of the other properties state an exception for a failure that the code has. They
say that nothing else goes wrong, not that the failure does not happen. It does, in the
model as in the code:

* A compaction's late tail leaves a log that reads and lacks an operation (`overtaken`);
  one beyond the newest snapshot loses containers at a restart (`~covered`).
* Two starts of a container both pass the test of its status, and its command runs twice.
* A start that joins the cgroup after a stop's kill runs on in a container that is recorded
  as Exited; one that joins before it panics at `init.rs:129` and leaves a record that says
  Running (`Abandoned`), as do the early return at `init.rs:95`, a client that leaves before
  the report, and the death of the daemon.
* A listener for SIGCHLD that comes too late leaves an attached client waiting for ever
  (`ListensTooLate`); so does a client of one thread (`threads = 1`).
* A daemon that dies while it saves the networks leaves a file that no later one loads; a
  save that fails after the `Ok` is told to nobody (`CreatedIsListed` is about the table).
* A failed creation keeps its subnet, an `rm` that fails halfway goes on, and a second run
  of a name takes it over.

The notes at the hazards in `PROJECT.json` say which.

## 4. The proofs

Assumptions. The constants are arbitrary but for the named `ASSUME`s, which TLC
evaluates in the runs:

* `NoneIsNoValue`, `ConfigAssumption`, `CallsAssumption`, `SessionAssumption`,
  `RequestsAssumption`: the kinds of the constants; values that stand for "nothing" are
  none of the others.
* `IpamAssumption`: blocks divide the address family, as powers of two do.
* `UseAssumption`: so does a byte of a bitmap, and it is smaller than the family (8
  and 2^32). Without it a bitmap that is rounded up could reach around the family and
  meet its own first address: `HeldOnce` and `HeldInRoom` would be false.

The theorems about `MetaStorage` have two hypotheses of their own: `Ops \subseteq
BasicOps` (a `Batch` is a fold over data, whose induction the provers cannot do) and,
where they speak of the log, `~ArchiveDir` (no code makes that directory). Those about
`Maintenance` need the first only.

| Theorem | Property |
|---|---|
| `TypeCorrect` | `TypeOK` of `MetaStorage` |
| `ServesItsHistory` | `MemoryIsHistory` |
| `NamesLeadToRecords` | `NoDanglingName` |
| `ReadableLogIsComplete` | `ReadableLogIsHistory` |
| `SnapshotsFollowHistory` | `SnapshotsArePrefixes` |
| `ImplementsRegistry` | `RefinesRegistry` |
| `CompactionKeepsHistory` | `CompactedLogIsHistory` |
| `CompactionLeavesNothing` | `NothingLeftBehind` |
| `RecordsAreRecovered` | `RecordsSurvive` |
| `LifeTypes` | `TypeOK` of `Lifecycle` |
| `RunningProcessesCanBeKilled` | `RunningIsInCgroup` |
| `RunningRecordsAreSupervised` | `RunningIsSupervised` |
| `RecordsHaveWorkspaces` | `RecordHasWorkspace` |
| `NoProcessIsForgotten` | `NobodyWaitsInVain` |
| `NamesLeadToContainers` | `ReachableByName` |
| `SessionTypes` | `TypeOK` of `Session` |
| `ClientSeesTheOutput` | `ShownInOrder` |
| `NoByteIsLost` | `OutputIsConserved` |
| `LogBytesKeepPlaces` | `LogKeepsPlaces` |
| `UseTypes` | `TypeOK` of `IpamUse` |
| `AddressesAreHeldOnce` | `HeldOnce` |
| `BitsAreThoseHeld` | `TakenIsHeld` |
| `NetworksTypes` | `TypeOK` of `Networks` |
| `CreatedNetworksAreComplete` | `NetworksAreComplete` |
| `SavedNetworksAreKept` | `SavedIsKept` |
| `AnsweredNetworksAreListed` | `CreatedIsListed` |
| `StrayBridgesHaveACause` | `StrayBridges` |
| `StraySubnetsHaveACause` | `StraySubnets` |
| `GatewaysAreDistinct` | `GatewaysDiffer` |

Two more are about what run `small_subnet` shows: `UnloadedSubnetsKeepTheirBlock` (until the
first reload `HeldInBlock` holds) and `AddressesStayInRoom` (after any number of them an
address lies within the block's usable part rounded up to whole bytes).

Each follows from an inductive invariant, which is a theorem as well: `TypeInvariant`
and `SafeInvariant`, `MaintInvariant` and `RecoveryInvariant`, `LifeInvariant`,
`StreamInvariant`, `UseInvariant`, `NetworksInvariant`.

### MetaStorage

`TypeInvariant` strengthens `TypeOK` with who waits for whom: a client is in the
queue or at the worker iff it waits, once; and with what a stage of `life` implies.
`SafeInvariant` adds five parts, none inductive alone:

* `HistInv`: `past` is the fold of `hist`; each past state is *tidy* (names lead to
  records of theirs) and *grounded* (it holds only what the prefix of `hist` before it
  inserted); an operation other than a Create comes after the Create of its id.
* `IdInv`: the ids clients have seen were created in `hist`, and those were drawn
  (`used`); no two waiting Creates share an id, and the id of a waiting Create is not
  in `hist` until that Create is committed.
* `SnapInv`: every snapshot, and a complete `tmp`, is a past state.
* `WalInv`: if the log alternates, its payloads are a prefix of `hist` and at most
  the last payload of `hist` is in flight, when the worker is where that can be. A
  log that has gone wrong stays wrong, since it only grows.
* `MemInv`: when the daemon is up, memory is the last past state, or the one before
  while the worker has still to apply the last operation. During a replay, memory
  *agrees* with past state `ri + 1` on all ids and names that the first `ri`
  operations created, and is grounded in all of `hist`. When the replay ends that is
  agreement everywhere, and `AgreeEverywhere` makes it equality.

`MemInv` is where convergence is proved: `ApplyOpAgrees` (in `InnerStateProofs`) says
that an operation applied on both sides preserves agreement and extends it to the
ids and names it writes, whichever prefix the snapshot holds.

The refinement needs one more part, `LockInv`: whoever is at work on the registry holds
the mutex. A lookup that gets it therefore comes at no moment between the commit of an
operation and its effect in memory, and by `MemInv` reads what the abstract registry
has. `RefinementStep` then has one case per action; `WritePayload` is the commit,
`Crash` takes back nothing, what neither a caller nor the history sees is a stutter.

### Maintenance

Types and the mutex come from the lemmas of `MetaStorage`, whose steps the ordinary ones
are (`StorageSteps`); upkeep holds the mutex from its first look at the log to the last.
`LogInv` then speaks of what is *due*, the history without what left the log, as long as
no tail landed too late:

* `TailInv`: a log that alternates holds a beginning of what is due. Either nothing is on
  its way, or one payload is missing, the last: in flight, or as the tail, or lost. A
  lost one leaves a log that never reads again.
* `PlaceInv`: a tail that is on its way has its place at the end of a log that alternates;
  one that does not alternate has something there already, and then the tail that lands
  is late.
* `ReadInv`: what a compaction is going to leave is cut from the log as it still is.

A log that reads has an even length, which excludes the payload on its way
(`RenamingAlone`): hence both theorems about it, and `RenameStep`.

`RecordsSurvive` cannot go through agreement of whole states, as in `MemInv`: the Create
of a container may have left the log, and a replay applies edits to a record that has
seen them and later ones. So records are taken apart into what operations overwrite
(`Aspects`). Two states are `Near` at `j` and `k` if, for each container, an operation
after the first `j` and up to the `k`-th makes or removes it, or both have it or neither
has, and they differ only in aspects that one of those operations overwrites.

* `NearInv`: the state after `b` operations is near the one after `a`, for what was done
  in between (`NearFurther` adds an operation).
* `NewestInv`: the newest snapshot has the records of a past state not older than what has
  left the log. This is where `covered` is needed, and that a cleanup leaves the newest.
* `RecordInv`: a replay that has come to operation `j` is near the past state there, up to
  where its snapshot was. The next operation settles what it writes and leaves the
  rest to those that follow (`NearReplay`); at the end nothing is left to differ
  (`NearIsSame`).

Mounts are no aspect, since `AddMount` does not overwrite: there `RecordsSurvive` would be
false.

### Lifecycle

`LifeInv` is the checked invariants with four more parts:

* `CallInv`: which requests reach which step.
* `OwnerInv`: an id has one run, which drew it; a container, a name and every other
  handler that works on an id lead back to a run that registered it. This is what
  keeps the workspace and the cgroup of a run that is not done out of other hands.
* `ChildInv`: what a process has heard and whether it is in its cgroup follows from the
  step of its handler: nobody says `CONT` before the process has joined.
* `CgroupInv`, `WorkspaceInv`: the cgroup of a live member is there, since only an empty
  one can be removed; a run has its workspace until it registers or undoes.

`RunningIsSupervised` is inductive with these: only `RecordRunning` makes a record
Running, by a start that is then supervising, and a start stops doing so by resetting
the record, by losing it (`Abandoned`), or by dying.

### Session

`StreamInv` says where each byte is. `Line(s, n)`: the bytes of `s` are those after the
first `n`. In `FlowInv` the five buffers after the copying task are lines, each beginning
where the one before ends, counted from what the task has written; the last ends with
what the command has written as long as the reader is there. `SentInv`: what was sent
is a line from 0, or one with the report behind it, which takes `AbortInv` (`do_run`
reports only when the copying task is gone). `LogInv` ties a write on its way to the
offset of its byte. Each step that moves bytes takes them from the head of one line to
the end of the next: the lemmas `LineAppend`, `LineTail` and `LineConcat` carry all of the cases.

### IpamUse

`IpamProofs` has the arithmetic (`%` and `\div` as the provers can use them), and for each
operator what it does to the bits: `allocate_ip` takes the smallest free one. The
invariant then speaks of single bits:

* `BitmapInv`: a bitmap is as long as it was made, or as that rounded up.
* `OwnerInv`: who holds an address has its subnet in the map.
* `BitsInv`: a bit of a canonical subnet is taken iff it is that of somebody's address, or
  lost by a panic, and never both. With `HeldOnce` it goes through every step, since the
  index of an address and the address of an index are inverse (`IndexOfIp`,
  `IndexIsInjective`).
* `HeldInRoom`: where an address lies after reloads, which needs that rounding stays below `Modulus` (`RoomFacts`).

### Networks

Who holds the mutex is alone at work (`TypeOK`, `AloneAtWork`). `OwnInv` and `LinkInv` are
what it has by each step: a subnet of its own with the gateway taken, from the second call
on a bridge, from the fourth a bridge that is complete. So `Insert` enters a complete
network, and undoing takes only what no network has. `FileInv`: the file is a beginning of
the table, or nothing, or torn; with the copies of the parts for the file, a load brings
all of them back. `StrayLinkInv` and `StraySubnetInv` say who is behind each stray, `MakerInv`
that there was somebody for each network that an earlier daemon did not save.

### Model-checked only

* Liveness, as fairness and ENABLED are out of the prover's reach: `EveryCallAnswered`,
  `RequestsEnd`, `ExitIsRecorded`, `ExitEndsSession`, `ExitIsReported`,
  `CommandIsNotStuck`, `NothingLeftRunning`.
* Batches, whose fold would take induction over data: run `storage` has one.
* The violations, which are counterexamples.

## 5. Not modelled, and the plan

Not modelled:

* bytes, formats and wording; the parsing of arguments and of CIDR texts (a text that
  parses is a CIDR, one that does not is `NoCidr`);
* layers and mounts inside a workspace, raw mode and resizing of the pty, what a
  client types (only when its input ends matters to the daemon);
* events and filters of the metadata (`metas/meta.rs`), which nothing in the daemon
  uses, and `example.rs`, which nothing calls;
* the parts of `bridge.rs` that nothing calls: attaching a container, deleting a
  network, veth pairs. `delete_bridge` is modelled where `create_bridge` undoes itself;
* rules of iptables that a failed creation leaves: `rules` records them, no property
  asks for them.

The plan: what is left are the liveness properties, which stay with TLC, and what their
runs rest on and could be theorems: that the waits of `Lifecycle` and `Session` form no
circle but those listed, as invariants of states in which nobody can step.
