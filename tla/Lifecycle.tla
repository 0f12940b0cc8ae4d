----------------------------- MODULE Lifecycle -----------------------------
(***************************************************************************)
(* The life of a container: the handlers of the requests (container/ with  *)
(* init.rs, start.rs, stop.rs, rm.rs, exec.rs, list.rs and commit.rs), the *)
(* processes they clone, and the workspaces and cgroups they make and      *)
(* remove.                                                                 *)
(*                                                                         *)
(* The daemon spawns one handler for each connection.  A handler looks a   *)
(* record up once and then works from its copy, one system call or storage *)
(* call after the other; nothing keeps two handlers off one container.     *)
(*                                                                         *)
(* The storage is the registry of module Registry: a call takes effect at  *)
(* one instant, or fails without effect.  The kernel is external: a cgroup *)
(* with live members cannot be removed, and killing one dooms its members. *)
(*                                                                         *)
(* A process cloned by a handler inherits a copy of the handler's end of   *)
(* their socket pair.  So a handler that goes away without a word leaves   *)
(* its process waiting: the socket never reports the end of the stream.    *)
(***************************************************************************)
EXTENDS InnerState

CONSTANTS
    Handlers,    \* connections: each serves one request
    Calls,       \* the requests: [kind, name, attached]
    ThreadCounts, \* numbers of threads that the runtime may have
    MaxFaults    \* bound: failed calls, killed processes, deaths of the daemon

Kinds == {"run", "start", "stop", "rm", "exec", "ps", "logs", "commit"}

ASSUME CallsAssumption ==
    /\ Calls \subseteq [kind : Kinds, name : Names, attached : BOOLEAN]
    /\ ThreadCounts \subseteq Nat \ {0}
    /\ MaxFaults \in Nat

VARIABLES
    reg,         \* the registry
    workspaces,  \* ids whose directory exists
    cgroups,     \* ids whose cgroup exists
    child,       \* [h] the process that handler h cloned
    pc,          \* [h] the step h is at
    call,        \* [h] the request h serves
    id,          \* [h] the container it works on
    reply,       \* [h] what it answered
    gone,        \* attached clients that have closed the connection
    watch,       \* [h] its listener for SIGCHLD
    threads,     \* threads of the runtime, which all handlers share
    faults       \* failures so far

os    == <<workspaces, cgroups>>
given == <<call, threads>>
vars  == <<reg, os, child, pc, given, id, reply, gone, watch, faults>>

NoCall  == [kind |-> "none", name |-> NONE, attached |-> FALSE]

ChildStates ==
    [st     : {"none", "setup", "blocked", "running", "dying", "exited"},
     joined : BOOLEAN,                        \* the cgroup of its container
     said   : {"nothing", "WAIT", "EXIT"},    \* written by the process, and
     told   : {"nothing", "CONT", "EXIT"}]    \* by the handler
NoChild == [st |-> "none", joined |-> FALSE, said |-> "nothing", told |-> "nothing"]

\* Requests that are over: served, or left before the work was done ("lost"),
\* or cut off by the death of the daemon ("killed").
Ended == {"over", "lost", "killed"}

Alive(h) == child[h].st \in {"setup", "blocked", "running", "dying"}

\* The processes in the cgroup of container i, a dying one among them.
Members(i) == {h \in Handlers : id[h] = i /\ child[h].joined /\ Alive(h)}

StatusOf(i) == IF reg.by_id[i] = NONE THEN "None" ELSE reg.by_id[i].state.status

SetStatus(i, s) == ApplyOp(reg, [kind |-> "UpdateStatus", id |-> i, status |-> s])

Fault == faults < MaxFaults /\ faults' = faults + 1
NoFault == UNCHANGED faults

Goto(h, step) == pc' = [pc EXCEPT ![h] = step] /\ UNCHANGED reply

End(h, step, answer) ==
    pc' = [pc EXCEPT ![h] = step] /\ reply' = [reply EXCEPT ![h] = answer]

Is(h, kind) == call[h].kind = kind

\* Write into the socket of h's process; nobody reads it once it has exited.
Tell(h, word) == child' = [child EXCEPT ![h].told = word]

\* A child of the daemon exits, one of a helper command included: SIGCHLD
\* wakes the listeners there are at this moment.
WakeWatchers ==
    watch' = [h \in Handlers |-> IF watch[h] = "on" THEN "woken" ELSE watch[h]]

\* cg.kill: every member is as good as dead, but not yet gone.
Doomed(i) ==
    [h \in Handlers |->
        IF h \in Members(i) THEN [child[h] EXCEPT !.st = "dying"] ELSE child[h]]

Init ==
    /\ reg = EmptyState /\ workspaces = {} /\ cgroups = {}
    /\ child = [h \in Handlers |-> NoChild]
    /\ pc = [h \in Handlers |-> "new"]
    /\ call = [h \in Handlers |-> NoCall]
    /\ id = [h \in Handlers |-> NONE]
    /\ reply = [h \in Handlers |-> "none"]
    /\ gone = {} /\ watch = [h \in Handlers |-> "off"]
    /\ threads \in ThreadCounts /\ faults = 0

\* Handlers whose task blocks a thread: in the read from the socket pair, which
\* is the one of std, and in the waitpid of a detached session.
Blocking == {h \in Handlers : pc[h] \in {"ready", "detached"}}

\* h has a thread or finds one.
HasThread(h) == h \in Blocking \/ Cardinality(Blocking) < threads

-----------------------------------------------------------------------------
(* The daemon.                                                             *)

\* handler: a request arrives and its kind decides who serves it.
FirstStep(c) == CASE c.kind = "run" -> "workspace"
                  [] c.kind = "ps"  -> "list"
                  [] OTHER          -> "lookup"

Accept(h, c) ==
    /\ pc[h] = "new"
    /\ call' = [call EXCEPT ![h] = c]
    /\ Goto(h, FirstStep(c))
    /\ UNCHANGED <<threads, reg, os, child, id, gone, watch, faults>>

\* Every handler dies; processes, directories and cgroups do not, and the
\* next daemon finds the registry as it was.
DaemonDies ==
    /\ Fault
    /\ pc' = [h \in Handlers |-> IF pc[h] \in {"new"} \cup Ended THEN pc[h] ELSE "killed"]
    /\ watch' = [h \in Handlers |-> "off"]
    /\ UNCHANGED <<reg, os, child, given, id, reply, gone>>

\* The client of an attached session closes its end.
ClientLeaves(h) ==
    /\ pc[h] \notin {"new"} \cup Ended
    /\ call[h].attached /\ h \notin gone
    /\ gone' = gone \cup {h}
    /\ UNCHANGED <<reg, os, child, pc, given, id, reply, watch, faults>>

\* get_meta_by_name, with the test of the status that follows at once
Found(h) == reg.by_name[call[h].name]
Running(i) == StatusOf(i) = "Running"

\* What the lookup makes h do: the step it goes to, or the answer it ends with.
\* Variant: a lookup whose caller takes the record for granted.
RefusedIfFound(h) ==
    \/ Found(h) # NONE /\ (Is(h, "start") \/ Is(h, "rm")) /\ Running(Found(h))
    \/ Is(h, "exec")
Refused(h) ==
    \/ Found(h) = NONE
    \/ Is(h, "start") /\ Running(Found(h))
    \/ Is(h, "rm") /\ Running(Found(h))
    \/ Is(h, "exec")   \* not running, or no pid: no record ever has one

NextStep(h) == CASE Is(h, "start") -> "clone"
                 [] Is(h, "stop")  -> "kill"
                 [] Is(h, "rm")    -> "rmcgroup"
                 [] OTHER          -> "read"

LookUp(h) ==
    /\ pc[h] = "lookup"
    /\ IF Refused(h)
       THEN /\ End(h, "over", IF Is(h, "rm") THEN "none" ELSE "err")
            /\ UNCHANGED id
       ELSE /\ id' = [id EXCEPT ![h] = Found(h)]
            /\ Goto(h, NextStep(h))
    /\ UNCHANGED <<reg, os, child, given, gone, watch, faults>>

\* ps: get_all_metas, and a table of them
ListContainers(h) ==
    /\ pc[h] = "list"
    /\ End(h, "over", "ok")
    /\ UNCHANGED <<reg, os, child, given, id, gone, watch, faults>>

\* logs reads stdout.log, which nothing writes: do_run writes log.log.
ShowLogs(h) ==
    /\ pc[h] = "read" /\ Is(h, "logs")
    /\ End(h, "over", "err")
    /\ UNCHANGED <<reg, os, child, given, id, gone, watch, faults>>

\* commit has a tar made of the workspace, whose exit is a SIGCHLD as any other.
Commit(h) ==
    /\ pc[h] = "read" /\ Is(h, "commit")
    /\ \/ NoFault /\ End(h, "over", IF id[h] \in workspaces THEN "ok" ELSE "err")
       \/ Fault /\ End(h, "over", "err")
    /\ WakeWatchers
    /\ UNCHANGED <<reg, os, child, given, id, gone>>

-----------------------------------------------------------------------------
(* run_prepare, then run_container, which asks the record for a pid.       *)

\* random_id and new_workspace, which runs tar and mount.
MakeWorkspace(h) ==
    /\ pc[h] = "workspace"
    /\ \E i \in Ids \ {id[g] : g \in Handlers} :
          /\ id' = [id EXCEPT ![h] = i]
          /\ workspaces' = workspaces \cup {i}
    /\ Goto(h, "clone")
    /\ WakeWatchers
    /\ UNCHANGED <<reg, cgroups, child, given, gone, faults>>

\* An image that does not unpack leaves its directory; later steps clean up.
WorkspaceFails(h) ==
    /\ pc[h] = "workspace"
    /\ Fault
    /\ \E i \in Ids \ {id[g] : g \in Handlers}, left \in BOOLEAN :
          /\ id' = [id EXCEPT ![h] = i]
          /\ workspaces' = IF left THEN workspaces \cup {i} ELSE workspaces
    /\ End(h, "over", "err")
    /\ WakeWatchers
    /\ UNCHANGED <<reg, cgroups, child, given, gone>>

\* Variant: an error path that start and run share.
UndoAnyWorkspace(h) == workspaces' = workspaces \ {id[h]} /\ WakeWatchers

\* delete_workspace after a failed step of run: it may fail, unnoticed.  Its
\* umount wakes the watchers.  start has nothing to undo.
UndoWorkspace(h) ==
    IF Is(h, "run")
    THEN /\ \E done \in BOOLEAN :
               workspaces' = IF done THEN workspaces \ {id[h]} ELSE workspaces
         /\ WakeWatchers
    ELSE UNCHANGED <<workspaces, watch>>

\* new_container_process
Clone(h) ==
    /\ pc[h] = "clone"
    /\ child' = [child EXCEPT ![h] = [NoChild EXCEPT !.st = "setup"]]
    /\ Goto(h, "ready")
    /\ UNCHANGED <<reg, os, given, id, gone, watch, faults>>

CloneFails(h) ==
    /\ pc[h] = "clone"
    /\ Fault
    /\ UndoWorkspace(h)
    /\ End(h, "over", "err")
    /\ UNCHANGED <<reg, cgroups, child, given, id, gone>>

\* read_exact finds WAIT.
ReadWait(h) ==
    /\ pc[h] = "ready"
    /\ child[h].said = "WAIT"
    /\ Goto(h, "cgroup")
    /\ UNCHANGED <<reg, os, child, given, id, gone, watch, faults>>

\* It finds EXIT, or the end of the stream, where start unwraps.  A process of
\* another container that was cloned meanwhile may have a copy of the stream and
\* delay its end, for as long as it waits itself.
ReadExit(h) ==
    /\ pc[h] = "ready"
    /\ child[h].st = "exited" /\ child[h].said # "WAIT"
    /\ UndoWorkspace(h)
    /\ End(h, "over", IF Is(h, "start") /\ child[h].said = "nothing"
                      THEN "panic" ELSE "err")
    /\ UNCHANGED <<reg, cgroups, child, given, id, gone, faults>>

\* Variant: a failure to join the cgroup that is only logged.
JoinIfPossible(h) ==
    /\ pc[h] = "cgroup"
    /\ cgroups' = IF Is(h, "run") THEN cgroups \cup {id[h]} ELSE cgroups
    /\ child' = [child EXCEPT ![h].joined = id[h] \in cgroups']
    /\ Goto(h, IF Is(h, "run") THEN "register" ELSE "record")
    /\ UNCHANGED <<reg, workspaces, given, id, gone, watch, faults>>

\* setup_cgroup builds the cgroup; start loads the one there is, or is not.
JoinCgroup(h) ==
    /\ pc[h] = "cgroup"
    /\ Is(h, "run") \/ id[h] \in cgroups
    /\ cgroups' = cgroups \cup {id[h]}
    /\ child' = [child EXCEPT ![h].joined = TRUE]
    /\ Goto(h, IF Is(h, "run") THEN "register" ELSE "record")
    /\ UNCHANGED <<reg, workspaces, given, id, gone, watch, faults>>

\* start unwraps the write of EXIT, which fails when the process is gone.
AnswerOfFailure(h) ==
    IF Is(h, "start") /\ child[h].st = "exited" THEN "panic" ELSE "err"

\* setup_cgroup deletes the cgroup it built, or fails to.
JoinFails(h) ==
    /\ pc[h] = "cgroup"
    /\ \/ NoFault /\ Is(h, "start") /\ id[h] \notin cgroups
       \/ NoFault /\ child[h].st = "exited"
       \/ Fault
    /\ \E left \in BOOLEAN :
          cgroups' = IF Is(h, "run") /\ left THEN cgroups \cup {id[h]} ELSE cgroups
    /\ Tell(h, "EXIT")
    /\ UndoWorkspace(h)
    /\ End(h, "over", AnswerOfFailure(h))
    /\ UNCHANGED <<reg, given, id, gone>>

\* register; the new record has no pid, so run answers with an error and
\* drops its end of the socket without a word to the process.
Register(h) ==
    /\ pc[h] = "register"
    /\ reg' = ApplyOp(reg, [kind |-> "Create", id |-> id[h], name |-> call[h].name])
    /\ End(h, "lost", "err")
    /\ UNCHANGED <<os, child, given, id, gone, watch, faults>>

RegisterFails(h) ==
    /\ pc[h] = "register"
    /\ Fault
    /\ Tell(h, "EXIT")
    /\ UndoWorkspace(h)
    /\ Goto(h, "undo")
    /\ UNCHANGED <<reg, cgroups, given, id, gone>>

\* let _ = cg.delete(): the process was told to leave a moment ago, and the
\* cgroup is empty or not.
UndoCgroup(h) ==
    /\ pc[h] = "undo"
    /\ cgroups' = IF Members(id[h]) = {} THEN cgroups \ {id[h]} ELSE cgroups
    /\ End(h, "over", "err")
    /\ UNCHANGED <<reg, workspaces, child, given, id, gone, watch, faults>>

-----------------------------------------------------------------------------
(* start_prepare's last step, and do_run.                                  *)

RecordRunning(h) ==
    /\ pc[h] = "record"
    /\ reg' = SetStatus(id[h], "Running")
    /\ Goto(h, "log")
    /\ UNCHANGED <<os, child, given, id, gone, watch, faults>>

\* EXIT, then cg.kill, whose result nobody reads.
RecordFails(h) ==
    /\ pc[h] = "record"
    /\ Fault
    /\ IF child[h].st = "exited"
       THEN UNCHANGED child
       ELSE \E c \in {child, Doomed(id[h])} : child' = [c EXCEPT ![h].told = "EXIT"]
    /\ End(h, "over", AnswerOfFailure(h))
    /\ UNCHANGED <<reg, os, given, id, gone, watch>>

\* The log file is in the workspace.
OpenLog(h) ==
    /\ pc[h] = "log"
    /\ id[h] \in workspaces
    /\ Goto(h, "continue")
    /\ UNCHANGED <<reg, os, child, given, id, gone, watch, faults>>

\* Variant: the early return forgets the process.
OpenLogFailsSilently(h) ==
    /\ pc[h] = "log"
    /\ (NoFault /\ id[h] \notin workspaces) \/ Fault
    /\ End(h, "lost", "none")
    /\ UNCHANGED <<reg, os, child, given, id, gone, watch>>

\* do_run returns; the record still says Running, and no answer is sent.
OpenLogFails(h) ==
    /\ pc[h] = "log"
    /\ (NoFault /\ id[h] \notin workspaces) \/ Fault
    /\ Tell(h, "EXIT")
    /\ End(h, "lost", IF child[h].st = "exited" THEN "panic" ELSE "none")
    /\ UNCHANGED <<reg, os, given, id, gone, watch>>

\* Variant: the session is set up, and the process left waiting.
ContinueUnsaid(h) ==
    /\ pc[h] = "continue"
    /\ Goto(h, IF call[h].attached THEN "attach" ELSE "detached")
    /\ UNCHANGED <<reg, os, child, given, id, gone, watch, faults>>

\* p_sock.write(b"CONT").unwrap()
Continue(h) ==
    /\ pc[h] = "continue"
    /\ IF child[h].st = "exited"
       THEN End(h, "lost", "panic") /\ UNCHANGED child
       ELSE /\ Tell(h, "CONT")
            /\ Goto(h, IF call[h].attached THEN "attach" ELSE "detached")
    /\ UNCHANGED <<reg, os, given, id, gone, watch, faults>>

\* Msg::Continue ... unwrap(), then the tasks of the session are spawned.
Attach(h) ==
    /\ pc[h] = "attach"
    /\ IF h \in gone THEN End(h, "lost", "panic") ELSE End(h, "session", "continue")
    /\ UNCHANGED <<reg, os, child, given, id, gone, watch, faults>>

\* signal_driven_wait: the listener hears the signals that come after it.
Listen(h) ==
    /\ pc[h] = "session" /\ watch[h] = "off"
    /\ watch' = [watch EXCEPT ![h] = "on"]
    /\ UNCHANGED <<reg, os, child, pc, given, id, reply, gone, faults>>

\* A signal, and waitpid with WNOHANG.  The last message to the client is
\* unwrapped as well.
CheckChild(h) ==
    /\ pc[h] = "session" /\ watch[h] = "woken"
    /\ IF child[h].st # "exited"
       THEN watch' = [watch EXCEPT ![h] = "on"] /\ UNCHANGED <<pc, reply>>
       ELSE /\ watch' = [watch EXCEPT ![h] = "off"]
            /\ IF h \in gone THEN End(h, "lost", "panic") ELSE Goto(h, "kill")
    /\ UNCHANGED <<reg, os, child, given, id, gone, faults>>

\* The client's input ends, or the pty takes no more of it (an unwrap in the
\* copying task): both end the session, and the container with it.
InputEnds(h) ==
    /\ pc[h] = "session"
    /\ (NoFault /\ h \in gone) \/ Fault
    /\ Goto(h, "kill")
    /\ UNCHANGED <<reg, os, child, given, id, gone, watch>>

\* Variant: the session of a detached container ends without do_stop.
WaitpidOnly(h) ==
    /\ pc[h] = "detached"
    /\ child[h].st = "exited"
    /\ Goto(h, "over")
    /\ UNCHANGED <<reg, os, child, given, id, gone, watch, faults>>

\* waitpid without WNOHANG
Waitpid(h) ==
    /\ pc[h] = "detached"
    /\ child[h].st = "exited"
    /\ Goto(h, "kill")
    /\ UNCHANGED <<reg, os, child, given, id, gone, watch, faults>>

-----------------------------------------------------------------------------
(* do_stop, at the end of a session and for stop.                          *)

KillCgroup(h) ==
    /\ pc[h] = "kill"
    /\ id[h] \in cgroups
    /\ child' = Doomed(id[h])
    /\ Goto(h, "exited")
    /\ UNCHANGED <<reg, os, given, id, gone, watch, faults>>

\* What do_stop's caller does when it returns: stop answers Ok in any case.
Return(h, left) ==
    IF Is(h, "stop") THEN End(h, "over", "ok") ELSE Goto(h, left)

\* No cgroup, or no way to kill one: do_stop returns before the record.
KillFails(h) ==
    /\ pc[h] = "kill"
    /\ (NoFault /\ id[h] \notin cgroups) \/ Fault
    /\ Return(h, "lost")
    /\ UNCHANGED <<reg, os, child, given, id, gone, watch>>

RecordExited(h) ==
    /\ pc[h] = "exited"
    /\ reg' = SetStatus(id[h], "Exited")
    /\ Return(h, "over")
    /\ UNCHANGED <<os, child, given, id, gone, watch, faults>>

\* let _ = updates(...)
RecordExitedFails(h) ==
    /\ pc[h] = "exited"
    /\ Fault
    /\ Return(h, "lost")
    /\ UNCHANGED <<reg, os, child, given, id, gone, watch>>

-----------------------------------------------------------------------------
(* remove_container: each of three steps may fail, and the next one runs.  *)

DeleteCgroup(h) ==
    /\ pc[h] = "rmcgroup"
    /\ \/ NoFault /\ cgroups' = IF Members(id[h]) = {} THEN cgroups \ {id[h]} ELSE cgroups
       \/ Fault /\ UNCHANGED cgroups
    /\ Goto(h, "rmworkspace")
    /\ UNCHANGED <<reg, workspaces, child, given, id, gone, watch>>

DeleteWorkspace(h) ==
    /\ pc[h] = "rmworkspace"
    /\ \/ NoFault /\ workspaces' = workspaces \ {id[h]}
       \/ Fault /\ UNCHANGED workspaces
    /\ WakeWatchers
    /\ Goto(h, "deregister")
    /\ UNCHANGED <<reg, cgroups, child, given, id, gone>>

\* Variant: the name goes first, whatever becomes of the record.
DeregisterNameFirst(h) ==
    /\ pc[h] = "deregister"
    /\ \/ NoFault /\ reg' = ApplyOp(reg, [kind |-> "Delete", id |-> id[h]])
       \/ Fault /\ reg' = [reg EXCEPT !.by_name[call[h].name] = NONE]
    /\ End(h, "over", "ok")
    /\ UNCHANGED <<os, child, given, id, gone, watch>>

Deregister(h) ==
    /\ pc[h] = "deregister"
    /\ \/ NoFault /\ reg' = ApplyOp(reg, [kind |-> "Delete", id |-> id[h]])
       \/ Fault /\ UNCHANGED reg
    /\ End(h, "over", "ok")
    /\ UNCHANGED <<os, child, given, id, gone, watch>>

-----------------------------------------------------------------------------
(* The cloned process.                                                     *)

\* setup_stdio and setup_mount, which needs the workspace; then WAIT.
ChildReady(h) ==
    /\ child[h].st = "setup" /\ id[h] \in workspaces
    /\ child' = [child EXCEPT ![h].st = "blocked", ![h].said = "WAIT"]
    /\ UNCHANGED <<reg, os, pc, given, id, reply, gone, watch, faults>>

ChildFails(h) ==
    /\ child[h].st = "setup"
    /\ (NoFault /\ id[h] \notin workspaces) \/ Fault
    /\ child' = [child EXCEPT ![h].st = "exited", ![h].said = "EXIT"]
    /\ WakeWatchers
    /\ UNCHANGED <<reg, os, pc, given, id, reply, gone>>

\* read_exact returns: execvp for CONT, the end for EXIT.
ChildObeys(h) ==
    /\ child[h].st = "blocked"
    /\ \/ /\ child[h].told = "CONT"
          /\ child' = [child EXCEPT ![h].st = "running"]
          /\ UNCHANGED watch
       \/ /\ child[h].told = "EXIT"
          /\ child' = [child EXCEPT ![h].st = "exited"]
          /\ WakeWatchers
    /\ UNCHANGED <<reg, os, pc, given, id, reply, gone, faults>>

\* The command ends, the kill arrives, or something else kills the process.
ChildExits(h) ==
    /\ \/ NoFault /\ child[h].st \in {"running", "dying"}
       \/ Fault /\ child[h].st \in {"setup", "blocked"}
    /\ child' = [child EXCEPT ![h].st = "exited"]
    /\ WakeWatchers
    /\ UNCHANGED <<reg, os, pc, given, id, reply, gone>>

-----------------------------------------------------------------------------
Run(h) == MakeWorkspace(h) \/ Register(h) \/ UndoCgroup(h)

Prepare(h) == LookUp(h) \/ Clone(h) \/ ReadWait(h) \/ ReadExit(h) \/ JoinCgroup(h)

Session(h) == RecordRunning(h) \/ OpenLog(h) \/ Continue(h) \/ Attach(h)
                \/ CheckChild(h) \/ Waitpid(h)

Stop(h) == KillCgroup(h) \/ RecordExited(h)

Inspect(h) == ListContainers(h) \/ ShowLogs(h) \/ Commit(h)

Clear(h) == DeleteCgroup(h) \/ DeleteWorkspace(h) \/ Deregister(h)

\* What the code does next, and what may go wrong or come from outside.
Step(h) == Run(h) \/ Prepare(h) \/ JoinFails(h) \/ Session(h) \/ OpenLogFails(h)
             \/ Listen(h) \/ InputEnds(h) \/ Stop(h) \/ KillFails(h) \/ Clear(h) \/ Inspect(h)

Failure(h) == WorkspaceFails(h) \/ CloneFails(h) \/ RegisterFails(h)
                \/ RecordFails(h) \/ RecordExitedFails(h)

Work(h) == HasThread(h) /\ (Step(h) \/ Failure(h))

Child(h) == ChildReady(h) \/ ChildFails(h) \/ ChildObeys(h) \/ ChildExits(h)

Next ==
    \/ \E h \in Handlers : \/ \E c \in Calls : Accept(h, c)
                           \/ ClientLeaves(h)
                           \/ Work(h)
                           \/ Child(h)
    \/ DaemonDies

Spec == Init /\ [][Next]_vars

(***************************************************************************)
(* tokio runs what can run, the kernel schedules processes, and the        *)
(* commands are ones that end.  Requests, departures and failures need not *)
(* happen.                                                                 *)
(***************************************************************************)
Fairness == \A h \in Handlers : WF_vars(HasThread(h) /\ Step(h)) /\ WF_vars(Child(h))

FairSpec == Spec /\ Fairness

-----------------------------------------------------------------------------
Steps == {"new", "lookup", "list", "read", "workspace", "clone", "ready", "cgroup",
          "register", "undo", "record", "log", "continue", "attach", "session",
          "detached", "kill", "exited", "rmcgroup", "rmworkspace", "deregister"}
            \cup Ended

\* Every variable holds a value of its kind (the declarations of the handlers).
TypeOK ==
    /\ reg \in InnerStates
    /\ workspaces \in SUBSET Ids /\ cgroups \in SUBSET Ids
    /\ child \in [Handlers -> ChildStates]
    /\ pc \in [Handlers -> Steps]
    /\ call \in [Handlers -> Calls \cup {NoCall}]
    /\ id \in [Handlers -> Ids \cup {NONE}]
    /\ \A h \in Handlers : pc[h] \notin {"new", "lookup", "list", "workspace"} \cup Ended =>
          id[h] \in Ids
    /\ reply \in [Handlers -> {"none", "ok", "err", "continue", "panic"}]
    /\ gone \in SUBSET Handlers
    /\ watch \in [Handlers -> {"off", "on", "woken"}]
    /\ threads \in ThreadCounts
    /\ faults \in Nat

\* A session of container i was left early or died with the daemon.
Abandoned(i) ==
    \E h \in Handlers : id[h] = i /\ Is(h, "start") /\ pc[h] \in {"lost", "killed"}

Supervising == {"log", "continue", "attach", "session", "detached", "kill", "exited"}

\* A record that says Running has a session that will reset it, whatever stops,
\* starts and removals interleave; or a session that do_run left early, by a
\* return or an unwrap, or that died with the daemon.  No other way leads to a
\* record that says Running for good.
RunningIsSupervised ==
    \A i \in Ids : Running(i) =>
        \/ Abandoned(i)
        \/ \E h \in Handlers : /\ id[h] = i /\ Is(h, "start")
                               /\ pc[h] \in Supervising

\* A process that executes a command can be stopped: its cgroup exists and it
\* is a member, although rm may delete cgroups while start adds to them.
RunningIsInCgroup ==
    \A h \in Handlers : child[h].st = "running" =>
        child[h].joined /\ id[h] \in cgroups

\* A record lacks its workspace only when an rm got that far: a run puts the
\* record last, and an rm that fails or dies halfway takes the record last.
RecordHasWorkspace ==
    \A i \in PresentIds(reg) \ workspaces :
        \E h \in Handlers : /\ id[h] = i /\ Is(h, "rm")
                            /\ pc[h] \in {"deregister", "over", "killed"}

\* A registered container is found by its name, whatever removals fail halfway,
\* unless another run registered a container of that name, which takes the name
\* over and takes it along when it is removed.
ReachableByName ==
    \A i \in PresentIds(reg) :
        LET name == reg.by_id[i].name
        IN  \/ reg.by_name[name] = i
            \/ \E h \in Handlers : /\ Is(h, "run") /\ pc[h] = "lost"
                                  /\ id[h] # i /\ call[h].name = name

\* A handler that ends leaves no process waiting for a word from it, whatever
\* failed, unless the daemon died or it is a run that registered its record.
NobodyWaitsInVain ==
    \A h \in Handlers : child[h].st = "blocked" /\ child[h].told = "nothing" =>
        \/ pc[h] \notin Ended
        \/ pc[h] = "killed"
        \/ Is(h, "run") /\ pc[h] = "lost"

HasProcess(i) == \E h \in Handlers : id[h] = i /\ Alive(h)

\* A request that no client is attached to ends, once the commands do: no handler
\* and process wait for each other, even when handlers that block hold all the
\* threads that the others need.
RequestsEnd ==
    \A h \in Handlers : (pc[h] # "new" /\ ~call[h].attached) ~> pc[h] \in Ended

\* The exit of a detached container is recorded: a record does not say Running
\* for ever when no process of the container is left, unless a session was
\* lost.
ExitIsRecorded ==
    \A i \in Ids : (Running(i) /\ ~HasProcess(i))
                      ~> (~Running(i) \/ HasProcess(i) \/ Abandoned(i))

-----------------------------------------------------------------------------
(* What the code says of itself and does not do.                           *)

\* "Running a container from images.": a run in which nothing fails and that
\* has ended has had its process execute the command.
RunRunsTheCommand ==
    \A h \in Handlers : faults = 0 /\ Is(h, "run") /\ pc[h] \in Ended =>
        child[h].told = "CONT"

\* "Remove a stopped container.": no record goes while a process of its
\* container executes the command.
RemovesOnlyStopped ==
    [][\A i \in PresentIds(reg) \ PresentIds(reg') :
          \A h \in Members(i) : child[h].st # "running"]_vars
=============================================================================
