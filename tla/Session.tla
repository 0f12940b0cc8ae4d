------------------------------ MODULE Session ------------------------------
(***************************************************************************)
(* A session of a container (do_run in container/init.rs) from the moment  *)
(* its command may run, and its client (front/ops.rs).  Module Lifecycle   *)
(* has the session as a step of its handler; here are the tasks in it.     *)
(*                                                                         *)
(* The output of the command goes from a pty into the buffer of            *)
(* read_from_pty, through a pipe of one byte to the task that copies it,   *)
(* and from there over the socket to the client, or into the log when the  *)
(* session is detached.  The copying task holds the lock of the socket's   *)
(* writer for all its life, so that do_run has to abort it before it can   *)
(* report the exit.  An abort takes effect at the task's next await.       *)
(*                                                                         *)
(* The bytes of the output are numbered; only their order matters.         *)
(***************************************************************************)
EXTENDS Integers, Sequences

CONSTANTS
    PtyCap, SockCap,  \* bytes that fit into the pty and into the socket
    Modes,            \* ways to start: "attached", "detached"
    ClientThreads,    \* numbers of threads that the client's runtime may have
    MaxOutput,        \* bound: bytes that the command writes
    MaxFaults,        \* bound: failed calls
    MaxForeign,       \* bound: bytes that another session of the container writes
    HOLE, REPORT,     \* a byte of a file nobody wrote; the report of the exit
    FOREIGN             \* a byte of the output of another session

ASSUME SessionAssumption ==
    /\ PtyCap \in Nat \ {0} /\ SockCap \in Nat \ {0} /\ MaxOutput \in Nat
    /\ Modes \subseteq {"attached", "detached"} /\ MaxFaults \in Nat
    /\ ClientThreads \subseteq Nat \ {0}
    /\ MaxForeign \in 0 .. MaxOutput
    /\ {HOLE, REPORT, FOREIGN} \cap Nat = {} /\ HOLE # REPORT

VARIABLES
    mode,        \* detach or not
    main,        \* do_run's place
    command,     \* the process: running or exited
    produced,    \* bytes it wrote
    pty,         \* bytes the pty holds
    inherited,   \* whether the process of another container has a copy of it
    reader,      \* read_from_pty
    rest,        \* what it has still to write of its buffer
    pipe,        \* tokio::io::simplex(1)
    copier,      \* pty_to_client or pty_to_log
    chunk,       \* what it has read and not written
    input,       \* client_to_pty
    watch,       \* check_child_exit and its listener
    sock, shut,  \* bytes on their way to the client; whether the end is, too
    client,      \* the client: here, done with the stream, or gone before its end
    stdin,       \* its input: open or closed
    shown,       \* what it printed
    threads,     \* threads of its runtime
    log,         \* the log file
    offset,      \* how far pty_to_log has written
    landing,     \* a write on its way to the file: its byte and place, or none
    foreign,     \* how far another session of the container has written
    disturbed,   \* whether that one opened or wrote the file since
    broken,      \* whether a write to the file failed
    faults

world    == <<command, produced, pty, inherited>>
copying  == <<reader, rest, pipe, copier, chunk>>
watching == <<input, watch>>
remote   == <<sock, shut, client, stdin, shown, threads>>
file     == <<log, offset, landing, foreign, disturbed, broken>>
vars     == <<mode, main, world, copying, watching, remote, file, faults>>

Attached == mode = "attached"

\* do_run has returned or panicked: what it held is dropped.
Ended == main \in {"over", "lost"}

Bytes(n) == [k \in 1 .. n |-> k]

Fault   == faults < MaxFaults /\ faults' = faults + 1
NoFault == UNCHANGED faults

Init ==
    /\ mode \in Modes
    /\ main = "wait"
    /\ command = "running" /\ produced = 0 /\ pty = <<>> /\ inherited = FALSE
    /\ reader = "on" /\ rest = <<>> /\ pipe = <<>>
    /\ copier = "new" /\ chunk = <<>>
    /\ input = (IF Attached THEN "on" ELSE "gone")
    /\ watch = (IF Attached THEN "off" ELSE "gone")
    /\ sock = <<>> /\ shut = FALSE
    /\ client = (IF Attached THEN "here" ELSE "gone") /\ stdin = "open" /\ shown = <<>>
    /\ threads \in ClientThreads
    /\ Attached \/ \A n \in ClientThreads : n <= threads   \* any will do for no client
    /\ log = <<>> /\ offset = 0 /\ landing = <<>> /\ broken = FALSE
    /\ foreign \in (IF Attached THEN {0} ELSE 0 .. MaxForeign) /\ disturbed = FALSE
    /\ faults = 0

-----------------------------------------------------------------------------
(* The command.                                                            *)

Output ==
    /\ command = "running"
    /\ produced < MaxOutput /\ Len(pty) < PtyCap
    /\ produced' = produced + 1
    /\ pty' = Append(pty, produced + 1)
    /\ UNCHANGED <<mode, main, command, inherited, copying, watching, remote, file, faults>>

\* A child of the daemon exits: the listener, if there is one, is woken.
Woken == IF watch = "on" THEN "woken" ELSE watch

CommandExits ==
    /\ command = "running"
    /\ command' = "exited"
    /\ watch' = Woken
    /\ UNCHANGED <<mode, main, produced, pty, inherited, copying, input, remote, file, faults>>

OtherChildExits ==
    /\ watch' = Woken
    /\ UNCHANGED <<mode, main, world, copying, input, remote, file, faults>>

\* new_container_process for another container, while do_run has the pty: the
\* process inherits it, as the command that it executes does.
OtherStarts ==
    /\ ~Ended
    /\ inherited' = TRUE
    /\ UNCHANGED <<mode, main, command, produced, pty, copying, watching, remote, file, faults>>

OtherEnds ==
    /\ inherited
    /\ inherited' = FALSE
    /\ UNCHANGED <<mode, main, command, produced, pty, copying, watching, remote, file, faults>>

-----------------------------------------------------------------------------
(* From the pty to the client or the log.                                  *)

\* A task that was aborted in the middle of a poll goes on to its next await.
Reading == reader \in {"on", "aborting"}
Copying == copier \in {"on", "aborting"}

\* Variant: the rest of the last buffer is not waited for.
ReadPtyOver ==
    /\ Reading /\ pty # <<>>
    /\ rest' = pty /\ pty' = <<>>
    /\ UNCHANGED <<mode, main, command, produced, inherited, reader, pipe, copier, chunk,
                   watching, remote, file, faults>>

ReadPty ==
    /\ Reading /\ rest = <<>> /\ pty # <<>>
    /\ rest' = pty /\ pty' = <<>>
    /\ UNCHANGED <<mode, main, command, produced, inherited, reader, pipe, copier, chunk,
                   watching, remote, file, faults>>

\* Variants: a pipe without a limit; a write that waits for room for all of it.
PushAll ==
    /\ Reading /\ rest # <<>>
    /\ pipe' = pipe \o rest /\ rest' = <<>>
    /\ UNCHANGED <<mode, main, world, reader, copier, chunk, watching, remote, file, faults>>
PushWhole ==
    /\ Reading /\ Len(rest) = 1 /\ pipe = <<>>
    /\ pipe' = rest /\ rest' = <<>>
    /\ UNCHANGED <<mode, main, world, reader, copier, chunk, watching, remote, file, faults>>

\* write_all, a byte at a time.  The halves of a simplex are those of tokio's
\* split: neither of them hears that the other was dropped, so that a write never
\* fails, and waits for ever when nobody reads.
Push ==
    /\ Reading /\ rest # <<>> /\ pipe = <<>>
    /\ pipe' = <<Head(rest)>> /\ rest' = Tail(rest)
    /\ UNCHANGED <<mode, main, world, reader, copier, chunk, watching, remote, file, faults>>

\* Variant: the daemon's end of the pty stays open.
SlaveKept == FALSE

\* Nobody has the other side of the pty any more.
HungUp == Ended /\ command = "exited" /\ ~inherited

\* The pty is hung up, or do_run aborted the task.
ReaderEnds ==
    /\ \/ reader = "on" /\ rest = <<>> /\ pty = <<>> /\ HungUp
       \/ reader = "aborting"
    /\ reader' = "gone" /\ rest' = <<>>
    /\ UNCHANGED <<mode, main, world, pipe, copier, chunk, watching, remote, file, faults>>

\* The first poll: the locks, of the socket's writer among them.
StartCopy ==
    /\ copier = "new"
    /\ copier' = "on"
    /\ UNCHANGED <<mode, main, world, reader, rest, pipe, chunk, watching, remote, file, faults>>

CopyRead ==
    /\ Copying /\ chunk = <<>> /\ pipe # <<>>
    /\ chunk' = pipe /\ pipe' = <<>>
    /\ UNCHANGED <<mode, main, world, reader, rest, copier, watching, remote, file, faults>>

CopyToClient ==
    /\ Attached /\ Copying /\ chunk # <<>>
    /\ client = "here" /\ Len(sock) < SockCap
    /\ sock' = sock \o chunk /\ chunk' = <<>>
    /\ UNCHANGED <<mode, main, world, reader, rest, pipe, copier, watching, shut, client,
                   stdin, shown, threads, file, faults>>

\* A tokio File takes a copy and writes it on another thread.
CopyToLog ==
    /\ ~Attached /\ Copying /\ chunk # <<>>
    /\ landing = <<>> /\ ~broken
    /\ offset' = offset + 1
    /\ landing' = <<chunk[1], offset + 1>> /\ chunk' = <<>>
    /\ UNCHANGED <<mode, main, world, reader, rest, pipe, copier, watching, remote, log,
                   foreign, disturbed, broken, faults>>

\* Variant: a file that was opened to append.
LandAtEnd ==
    /\ landing # <<>>
    /\ log' = Append(log, landing[1])
    /\ landing' = <<>>
    /\ UNCHANGED <<mode, main, world, copying, watching, remote, offset, foreign, disturbed,
                   broken, faults>>

\* A write at a place of a file that was not opened to append.
Put(place, byte) ==
    [k \in 1 .. (IF Len(log) < place THEN place ELSE Len(log)) |->
        IF k = place THEN byte ELSE IF k <= Len(log) THEN log[k] ELSE HOLE]

Land ==
    /\ landing # <<>>
    /\ log' = Put(landing[2], landing[1])
    /\ landing' = <<>>
    /\ UNCHANGED <<mode, main, world, copying, watching, remote, offset, foreign, disturbed,
                   broken, faults>>

\* The next write_all will hear of it.
LandFails ==
    /\ landing # <<>>
    /\ Fault
    /\ landing' = <<>> /\ broken' = TRUE
    /\ UNCHANGED <<mode, main, world, copying, watching, remote, log, offset, foreign, disturbed>>

\* An error of the socket; the unwrap of an error of the file; an abort.  It does
\* not hear that the writer of the pipe is gone.
CopyEnds ==
    /\ \/ Copying /\ chunk # <<>> /\ Attached /\ client # "here"
       \/ Copying /\ chunk # <<>> /\ broken /\ landing = <<>>
       \/ copier = "aborting"
    /\ copier' = "gone" /\ chunk' = <<>>
    /\ UNCHANGED <<mode, main, world, reader, rest, pipe, watching, remote, file, faults>>

\* do_run of another session of the container opens the log to truncate it.  The
\* one that writes from now on is that one, from the start, or still an earlier one.
Truncate ==
    /\ ~Attached
    /\ log' = <<>> /\ disturbed' = TRUE
    /\ foreign' \in {foreign, 0}
    /\ UNCHANGED <<mode, main, world, copying, watching, remote, offset, landing, broken, faults>>

\* Its pty_to_log writes where its own offset is.
OtherWrites ==
    /\ ~Attached /\ foreign < MaxForeign
    /\ foreign' = foreign + 1
    /\ log' = Put(foreign + 1, FOREIGN) /\ disturbed' = TRUE
    /\ UNCHANGED <<mode, main, world, copying, watching, remote, offset, landing, broken, faults>>

-----------------------------------------------------------------------------
(* The end of the session.                                                 *)

\* client_to_pty: the client's input has ended.
InputEnds ==
    /\ input = "on"
    /\ client # "here" \/ stdin = "closed"
    /\ input' = "gone"
    /\ UNCHANGED <<mode, main, world, copying, watch, remote, file, faults>>

\* The pty takes no more of it, which the task unwraps.
InputPanics ==
    /\ input = "on"
    /\ Fault
    /\ input' = "gone"
    /\ UNCHANGED <<mode, main, world, copying, watch, remote, file>>

\* signal_driven_wait hears the signals that come after it.
Listen ==
    /\ watch = "off"
    /\ watch' = "on"
    /\ UNCHANGED <<mode, main, world, copying, input, remote, file, faults>>

Check ==
    /\ watch = "woken"
    /\ watch' = IF command = "exited" THEN "gone" ELSE "on"
    /\ UNCHANGED <<mode, main, world, copying, input, remote, file, faults>>

\* signal or waitpid fails.
CheckFails ==
    /\ watch \in {"off", "woken"}
    /\ Fault
    /\ watch' = "failed"
    /\ UNCHANGED <<mode, main, world, copying, input, remote, file>>

\* A task that was never polled is dropped at once.
Abort == copier' = IF copier = "on" THEN "aborting" ELSE "gone"

\* The branch of select! in which the client's input has ended.
ClientWins ==
    /\ Attached /\ main = "wait" /\ input = "gone"
    /\ main' = "stop" /\ Abort
    /\ UNCHANGED <<mode, world, reader, rest, pipe, chunk, watching, remote, file, faults>>

\* Variant: the branch that waits for the copying task without an abort.
ExitWinsAndWaits ==
    /\ Attached /\ main = "wait" /\ watch \in {"gone", "failed"}
    /\ main' = "report"
    /\ UNCHANGED <<mode, world, copying, watching, remote, file, faults>>

\* The branch in which the command has exited, or the watch over it failed.
ExitWins ==
    /\ Attached /\ main = "wait" /\ watch \in {"gone", "failed"}
    /\ main' = "report" /\ Abort
    /\ UNCHANGED <<mode, world, reader, rest, pipe, chunk, watching, remote, file, faults>>

\* Variant: a writer of its own, without the lock.
ReportUnlocked ==
    /\ main = "report"
    /\ client = "here" /\ Len(sock) < SockCap
    /\ sock' = Append(sock, REPORT)
    /\ main' = "shutdown"
    /\ UNCHANGED <<mode, world, copying, watching, shut, client, stdin, shown, threads, file, faults>>

\* Variant: a lock that is only tried.
ReportIfFree ==
    /\ main = "report"
    /\ client = "here" /\ Len(sock) < SockCap
    /\ sock' = IF copier = "gone" THEN Append(sock, REPORT) ELSE sock
    /\ main' = "shutdown"
    /\ UNCHANGED <<mode, world, copying, watching, shut, client, stdin, shown, threads, file, faults>>

\* stream_writer.lock() and write_all
Report ==
    /\ main = "report" /\ copier = "gone"
    /\ client = "here" /\ Len(sock) < SockCap
    /\ sock' = Append(sock, REPORT)
    /\ main' = "shutdown"
    /\ UNCHANGED <<mode, world, copying, watching, shut, client, stdin, shown, threads, file, faults>>

\* write_all(...).unwrap() panics, and do_stop is not called.
ReportPanics ==
    /\ main = "report" /\ copier = "gone" /\ client # "here" /\ watch = "gone"
    /\ main' = "lost"
    /\ UNCHANGED <<mode, world, copying, watching, remote, file, faults>>

\* The error of the watch is reported without an unwrap.
ReportDropped ==
    /\ main = "report" /\ copier = "gone" /\ client # "here" /\ watch = "failed"
    /\ main' = "shutdown"
    /\ UNCHANGED <<mode, world, copying, watching, remote, file, faults>>

ShutDown ==
    /\ main = "shutdown"
    /\ shut' = TRUE
    /\ main' = "stop"
    /\ UNCHANGED <<mode, world, copying, watching, sock, client, stdin, shown, threads, file, faults>>

\* waitpid, and the aborts of both tasks
Waitpid ==
    /\ ~Attached /\ main = "wait" /\ command = "exited"
    /\ main' = "stop" /\ Abort
    /\ reader' = IF reader = "gone" THEN "gone" ELSE "aborting"
    /\ UNCHANGED <<mode, world, rest, pipe, chunk, watching, remote, file, faults>>

\* do_stop kills what is left of the container, or fails to.
Stop ==
    /\ main = "stop"
    /\ \/ NoFault /\ command' = "exited" /\ watch' = IF command = "running" THEN Woken ELSE watch
       \/ Fault /\ UNCHANGED <<command, watch>>
    /\ main' = "over"
    /\ UNCHANGED <<mode, produced, pty, inherited, copying, input, remote, file>>

-----------------------------------------------------------------------------
(* The client: write_to_daemon sits in a read of stdin that blocks its     *)
(* thread, so that a client of one thread prints nothing while stdin is    *)
(* open.                                                                   *)

Reads == client = "here" /\ (threads > 1 \/ stdin = "closed")

Show ==
    /\ Reads /\ sock # <<>>
    /\ shown' = Append(shown, Head(sock)) /\ sock' = Tail(sock)
    /\ UNCHANGED <<mode, main, world, copying, watching, shut, client, stdin, threads, file, faults>>

\* The writer is shut down, or dropped by all who had it.
AtEnd == sock = <<>> /\ (shut \/ (Ended /\ copier = "gone"))

Leave(how) == client' = how /\ sock' = <<>>

ClientEnds ==
    /\ Reads /\ AtEnd
    /\ Leave("done")
    /\ UNCHANGED <<mode, main, world, copying, watching, shut, stdin, shown, threads, file, faults>>

\* Its terminal is closed, or it is killed.
ClientDies ==
    /\ client = "here"
    /\ Leave("gone")
    /\ UNCHANGED <<mode, main, world, copying, watching, shut, stdin, shown, threads, file, faults>>

CloseStdin ==
    /\ client = "here" /\ stdin = "open"
    /\ stdin' = "closed"
    /\ UNCHANGED <<mode, main, world, copying, watching, sock, shut, client, shown, threads,
                   file, faults>>

-----------------------------------------------------------------------------
ReaderTask == ReadPty \/ Push \/ ReaderEnds
CopierTask == StartCopy \/ CopyRead \/ CopyToClient \/ CopyToLog \/ CopyEnds
WatchTask  == Listen \/ Check \/ CheckFails
DoRun      == ClientWins \/ ExitWins \/ Report \/ ReportPanics \/ ReportDropped \/ ShutDown
                \/ Waitpid \/ Stop
ClientTask == Show \/ ClientEnds
FileThread == Land \/ LandFails

Next ==
    \/ Output \/ CommandExits \/ OtherChildExits \/ OtherStarts \/ OtherEnds
    \/ ReaderTask \/ CopierTask \/ InputEnds \/ InputPanics \/ WatchTask \/ DoRun
    \/ ClientTask \/ ClientDies \/ CloseStdin
    \/ FileThread \/ Truncate \/ OtherWrites

\* Both runtimes poll the tasks that can go on.  Nothing makes the command write
\* or exit, and nothing makes the client leave before the daemon ends the stream.
Fairness ==
    /\ WF_vars(ReaderTask) /\ WF_vars(CopierTask) /\ WF_vars(InputEnds)
    /\ WF_vars(WatchTask) /\ WF_vars(DoRun) /\ WF_vars(ClientTask) /\ WF_vars(FileThread)

Spec == Init /\ [][Next]_vars /\ Fairness

-----------------------------------------------------------------------------
\* Every variable holds a value of its kind, and no buffer more than it has room
\* for (the declarations of do_run and client_do_run).
TypeOK ==
    /\ mode \in Modes
    /\ main \in {"wait", "report", "shutdown", "stop", "over", "lost"}
    /\ command \in {"running", "exited"} /\ produced \in 0 .. MaxOutput
    /\ reader \in {"on", "aborting", "gone"}
    /\ copier \in {"new", "on", "aborting", "gone"}
    /\ inherited \in BOOLEAN /\ Len(pty) <= PtyCap
    /\ Len(rest) <= PtyCap /\ Len(pipe) <= 1 /\ Len(chunk) <= 1
    /\ input \in {"on", "gone"} /\ watch \in {"off", "on", "woken", "gone", "failed"}
    /\ Len(sock) <= SockCap /\ shut \in BOOLEAN
    /\ client \in {"here", "done", "gone"} /\ stdin \in {"open", "closed"}
    /\ threads \in ClientThreads
    /\ offset \in 0 .. MaxOutput /\ Len(log) <= MaxOutput
    /\ landing = <<>> \/ landing \in (1 .. MaxOutput) \X (1 .. MaxOutput)
    /\ foreign \in 0 .. MaxForeign /\ disturbed \in BOOLEAN
    /\ broken \in BOOLEAN /\ faults \in 0 .. MaxFaults

\* The client prints the output in order and without gaps, and the report of the
\* exit after it, although do_run writes the report into the same socket while the
\* copying task may still be at work.
ShownInOrder ==
    \E n \in 0 .. produced : shown \o sock \in {Bytes(n), Append(Bytes(n), REPORT)}

\* As long as nobody was aborted and nobody left, each byte is in exactly one of
\* the six places between the command and the client, or the log.
OutputIsConserved ==
    LET out == IF Attached THEN shown \o sock
               ELSE log \o (IF landing = <<>> THEN <<>> ELSE <<landing[1]>>)
    IN  /\ copier \in {"new", "on"} /\ reader = "on"
        /\ Attached => client = "here"
        /\ ~disturbed /\ ~broken
        => out \o chunk \o pipe \o rest \o pty = Bytes(produced)

\* No byte of the log is at another place than its own, whatever the copying task
\* left unwritten and however another session truncates the file and writes at
\* offsets of its own: what that one did is all that can be there instead.
LogKeepsPlaces ==
    \A k \in 1 .. Len(log) : log[k] = k \/ (log[k] \in {HOLE, FOREIGN} /\ disturbed)

-----------------------------------------------------------------------------
\* The listener came after the exit.
ListensTooLate == watch = "on" /\ command = "exited"

\* An attached session ends when its command has exited: do_run gets the writer
\* from the copying task, even one that waits for the client or for the pipe.  It
\* does not when the listener for SIGCHLD came too late, or when a client of one
\* thread does not read.
ExitEndsSession ==
    (Attached /\ command = "exited") ~> (Ended \/ ListensTooLate \/ threads = 1)

\* A client that stays to the end of the stream is told of the exit that do_run
\* noticed.
ExitIsReported ==
    (main = "report") ~> (client = "gone" \/ threads = 1
                            \/ \E k \in 1 .. Len(shown) : shown[k] = REPORT)

\* A command that cannot write because the pty is full can write again, or its
\* session ends: the client or the log takes what it wrote, through all the
\* buffers.  It cannot when a client of one thread does not read, or when a write
\* to the log failed.
CommandIsNotStuck ==
    (command = "running" /\ Len(pty) = PtyCap)
        ~> (Len(pty) < PtyCap \/ command = "exited" \/ Ended \/ threads = 1 \/ broken)

AllGone ==
    reader = "gone" /\ copier = "gone" /\ input = "gone" /\ watch \in {"gone", "failed"}

\* The reader of the pty has more than the pipe takes, and nobody reads it: the
\* select! of an attached session aborts the copying task and not the reader.
Stranded == reader = "on" /\ copier = "gone" /\ rest # <<>> /\ pipe # <<>>

\* No task of a session outlives it for ever, once its command has exited: each of
\* them hears of the end in its own way, by an abort, by the hangup of its pty, by
\* its socket, or by a signal.  The reader of the pty does not while another
\* container, started meanwhile, has a copy of it, or when it is stranded.
NothingLeftRunning ==
    (Ended /\ command = "exited")
        ~> (AllGone \/ ListensTooLate \/ threads = 1 \/ inherited \/ (Attached /\ Stranded))
=============================================================================
