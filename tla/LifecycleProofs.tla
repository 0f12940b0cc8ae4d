-------------------------- MODULE LifecycleProofs --------------------------
(***************************************************************************)
(* Theorems about the life of containers, for any number of handlers,      *)
(* requests, names, ids and failures: every safety invariant of module     *)
(* Lifecycle.  Not a step of it is a single handler's: the invariant below *)
(* says what the handlers owe each other through the ids they work on.     *)
(***************************************************************************)
EXTENDS Lifecycle, InnerStateProofs

\* Steps before a handler has a process, and the steps of one kind of request.
Childless == {"new", "lookup", "list", "read", "workspace", "clone"}
RunSteps  == {"workspace", "register", "undo"}
Preparing == {"clone", "ready", "cgroup"}
InSession == {"record", "log", "continue", "attach", "session", "detached"}
StopSteps == {"kill", "exited"}
RmSteps   == {"rmcgroup", "rmworkspace", "deregister"}

\* Who can be where: the kinds of request that reach a step.
CallInv ==
    \A h \in Handlers :
        /\ pc[h] = "new" => call[h] = NoCall /\ id[h] = NONE
        /\ pc[h] # "new" => call[h] \in Calls
        /\ pc[h] \in RunSteps => Is(h, "run")
        /\ pc[h] \in Preparing => Is(h, "run") \/ Is(h, "start")
        /\ pc[h] \in InSession => Is(h, "start")
        /\ pc[h] \in StopSteps => Is(h, "start") \/ Is(h, "stop")
        /\ pc[h] \in RmSteps => Is(h, "rm")
        /\ pc[h] = "lookup" => ~Is(h, "run")
        /\ pc[h] = "lost" => Is(h, "run") \/ Is(h, "start")

\* h is the run that put the container id[h] into the registry.
Registered(h) == Is(h, "run") /\ pc[h] = "lost"

\* An id has one run, which chose it; whoever else works on the id found it in
\* the registry, where the run put it.
OwnerInv ==
    /\ \A h, g \in Handlers :
          Is(h, "run") /\ Is(g, "run") /\ id[h] = id[g] /\ id[h] # NONE => h = g
    /\ \A i \in PresentIds(reg) :
          \E h \in Handlers : /\ Registered(h) /\ id[h] = i
                              /\ call[h].name = reg.by_id[i].name
    /\ \A n \in Names : reg.by_name[n] # NONE =>
          \E h \in Handlers : Registered(h) /\ id[h] = reg.by_name[n]
    /\ \A h \in Handlers : id[h] # NONE /\ ~Is(h, "run") =>
          \E g \in Handlers : Registered(g) /\ id[g] = id[h]

\* What a handler has done for its process by the step it is at.
ChildInv ==
    \A h \in Handlers :
        /\ pc[h] \in Childless => child[h].st = "none"
        /\ ~Is(h, "run") /\ ~Is(h, "start") => child[h].st = "none"
        /\ child[h].st = "setup" => /\ pc[h] \in {"ready", "killed"}
                                    /\ child[h].said = "nothing"
        /\ pc[h] \in {"register", "record", "log", "continue"} => child[h].joined
        /\ child[h].told = "CONT" \/ child[h].st = "running" => child[h].joined
        /\ pc[h] \in {"undo", "attach", "session", "detached"} => child[h].told # "nothing"
        /\ pc[h] \in StopSteps /\ Is(h, "start") => child[h].told # "nothing"

\* The cgroup of a live process stays: only empty ones can be removed.
CgroupInv ==
    \A h \in Handlers : child[h].joined /\ Alive(h) => id[h] \in cgroups

\* A run has its workspace until it registers the container.
WorkspaceInv ==
    \A h \in Handlers : Is(h, "run") /\ pc[h] \in Preparing \cup {"register"} =>
        id[h] \in workspaces

LifeInv ==
    /\ CallInv /\ OwnerInv /\ ChildInv /\ CgroupInv
    /\ WorkspaceInv /\ RecordHasWorkspace
    /\ NobodyWaitsInVain /\ RunningIsSupervised /\ ReachableByName

-----------------------------------------------------------------------------
\* The steps, one by one.
LEMMA Cases ==
  ASSUME [Next]_vars
  PROVE  \/ \E h \in Handlers :
               \/ \E c \in Calls : Accept(h, c)
               \/ ClientLeaves(h)
               \/ LookUp(h) \/ ListContainers(h) \/ ShowLogs(h) \/ Commit(h)
               \/ MakeWorkspace(h) \/ WorkspaceFails(h) \/ Clone(h) \/ CloneFails(h)
               \/ ReadWait(h) \/ ReadExit(h) \/ JoinCgroup(h) \/ JoinFails(h)
               \/ Register(h) \/ RegisterFails(h) \/ UndoCgroup(h)
               \/ RecordRunning(h) \/ RecordFails(h) \/ OpenLog(h) \/ OpenLogFails(h)
               \/ Continue(h) \/ Attach(h) \/ Listen(h) \/ CheckChild(h)
               \/ InputEnds(h) \/ Waitpid(h)
               \/ KillCgroup(h) \/ KillFails(h) \/ RecordExited(h) \/ RecordExitedFails(h)
               \/ DeleteCgroup(h) \/ DeleteWorkspace(h) \/ Deregister(h)
               \/ ChildReady(h) \/ ChildFails(h) \/ ChildObeys(h) \/ ChildExits(h)
         \/ DaemonDies
         \/ UNCHANGED vars
  BY DEF Next, Work, Step, Failure, Child, Run, Prepare, Session, Stop, Inspect, Clear

\* What a lookup finds, when it is not refused.
LEMMA FoundTyped ==
  ASSUME TypeOK, CallInv, NEW h \in Handlers, pc[h] = "lookup"
  PROVE  /\ call[h] \in Calls /\ call[h].name \in Names
         /\ Found(h) \in Ids \cup {NONE}
         /\ ~Refused(h) => Found(h) \in Ids
  BY CallsAssumption DEF TypeOK, CallInv, Found, Refused, InnerStates

\* The operations that handlers ask for are operations of the registry.
LEMMA OpsTyped ==
  ASSUME TypeOK, CallInv, NEW h \in Handlers
  PROVE  /\ pc[h] = "register" =>
              [kind |-> "Create", id |-> id[h], name |-> call[h].name] \in BasicOps
         /\ id[h] \in Ids =>
              /\ [kind |-> "Delete", id |-> id[h]] \in BasicOps
              /\ [kind |-> "UpdateStatus", id |-> id[h], status |-> "Running"] \in BasicOps
              /\ [kind |-> "UpdateStatus", id |-> id[h], status |-> "Exited"] \in BasicOps
  <1>1. pc[h] = "register" => id[h] \in Ids /\ call[h].name \in Names
    BY CallsAssumption DEF TypeOK, CallInv, Ended
  <1> QED
    BY <1>1 DEF BasicOps, CreateOps, DeleteOps, TouchOps, StatusOps, Statuses

\* What the edits of one process change.
LEMMA TellFacts ==
  ASSUME TypeOK, NEW h \in Handlers, NEW w \in {"CONT", "EXIT"}, Tell(h, w)
  PROVE  /\ child' \in [Handlers -> ChildStates]
         /\ \A g \in Handlers :
               /\ child'[g].st = child[g].st
               /\ child'[g].joined = child[g].joined
               /\ child'[g].said = child[g].said
               /\ child'[g].told = IF g = h THEN w ELSE child[g].told
  BY DEF TypeOK, Tell, ChildStates

LEMMA JoinFacts ==
  ASSUME TypeOK, NEW h \in Handlers, child' = [child EXCEPT ![h].joined = TRUE]
  PROVE  /\ child' \in [Handlers -> ChildStates]
         /\ \A g \in Handlers :
               /\ child'[g].st = child[g].st
               /\ child'[g].said = child[g].said
               /\ child'[g].told = child[g].told
         /\ \A g \in Handlers \ {h} : child'[g] = child[g]
         /\ child'[h].joined
  <1>1. child \in [Handlers -> ChildStates] /\ child[h] \in ChildStates
    BY DEF TypeOK
  <1>2. child' = [child EXCEPT ![h] = [child[h] EXCEPT !.joined = TRUE]]
    OBVIOUS
  <1>3. /\ [child[h] EXCEPT !.joined = TRUE] \in ChildStates
        /\ [child[h] EXCEPT !.joined = TRUE].joined
        /\ [child[h] EXCEPT !.joined = TRUE].st = child[h].st
        /\ [child[h] EXCEPT !.joined = TRUE].said = child[h].said
        /\ [child[h] EXCEPT !.joined = TRUE].told = child[h].told
    BY <1>1 DEF ChildStates
  <1> QED
    BY <1>1, <1>2, <1>3

LEMMA MoveFacts ==
  ASSUME TypeOK, NEW h \in Handlers, NEW s \in {"running", "exited"},
         child' = [child EXCEPT ![h].st = s]
  PROVE  /\ child' \in [Handlers -> ChildStates]
         /\ \A g \in Handlers :
               /\ child'[g].st = IF g = h THEN s ELSE child[g].st
               /\ child'[g].joined = child[g].joined
               /\ child'[g].said = child[g].said
               /\ child'[g].told = child[g].told
  BY DEF TypeOK, ChildStates

Says(h, s, w) == child' = [child EXCEPT ![h].st = s, ![h].said = w]

LEMMA SayFacts ==
  ASSUME TypeOK, NEW h \in Handlers, NEW s \in {"blocked", "exited"}, NEW w \in {"WAIT", "EXIT"},
         Says(h, s, w)
  PROVE  /\ child' \in [Handlers -> ChildStates]
         /\ \A g \in Handlers :
               /\ child'[g].st = IF g = h THEN s ELSE child[g].st
               /\ child'[g].joined = child[g].joined
               /\ child'[g].said = IF g = h THEN w ELSE child[g].said
               /\ child'[g].told = child[g].told
  <1> DEFINE c == [child[h] EXCEPT !.st = s, !.said = w]
  <1>1. child \in [Handlers -> ChildStates] /\ child[h] \in ChildStates
    BY DEF TypeOK
  <1>2. child' = [child EXCEPT ![h] = c]
    BY <1>1 DEF Says
  <1>3. c \in ChildStates /\ c.joined = child[h].joined /\ c.told = child[h].told
        /\ c.st = s /\ c.said = w
    BY <1>1 DEF ChildStates
  <1> HIDE DEF c
  <1> QED
    BY <1>1, <1>2, <1>3

LEMMA CloneFacts ==
  ASSUME TypeOK, NEW h \in Handlers, Clone(h)
  PROVE  /\ child' \in [Handlers -> ChildStates]
         /\ \A g \in Handlers : g # h => child'[g] = child[g]
         /\ child'[h].st = "setup" /\ ~child'[h].joined
         /\ child'[h].said = "nothing" /\ child'[h].told = "nothing"
  BY DEF TypeOK, Clone, NoChild, ChildStates

\* Dooming the members of a cgroup.
LEMMA DoomedFacts ==
  ASSUME TypeOK, NEW h \in Handlers
  PROVE  /\ Doomed(id[h]) \in [Handlers -> ChildStates]
         /\ \A g \in Handlers :
               /\ Doomed(id[h])[g].joined = child[g].joined
               /\ Doomed(id[h])[g].said = child[g].said
               /\ Doomed(id[h])[g].told = child[g].told
               /\ Doomed(id[h])[g].st = IF g \in Members(id[h]) THEN "dying" ELSE child[g].st
  <1>1. child \in [Handlers -> ChildStates]
    BY DEF TypeOK
  <1>2. \A c \in ChildStates :
           /\ [c EXCEPT !.st = "dying"] \in ChildStates
           /\ [c EXCEPT !.st = "dying"].joined = c.joined
           /\ [c EXCEPT !.st = "dying"].said = c.said
           /\ [c EXCEPT !.st = "dying"].told = c.told
           /\ [c EXCEPT !.st = "dying"].st = "dying"
    BY DEF ChildStates
  <1> QED
    BY <1>1, <1>2 DEF Doomed

\* EXIT for the process of h, and perhaps the end for the members of the cgroup.
LEMMA RecordFailsFacts ==
  ASSUME TypeOK, NEW h \in Handlers, RecordFails(h)
  PROVE  /\ child' \in [Handlers -> ChildStates]
         /\ \A g \in Handlers :
               /\ child'[g].st = child[g].st \/ (child'[g].st = "dying" /\ g \in Members(id[h]))
               /\ child'[g].joined = child[g].joined
               /\ child'[g].said = child[g].said
               /\ g # h => child'[g].told = child[g].told
         /\ child[h].st = "exited" \/ child'[h].told = "EXIT"
  <1>0. child \in [Handlers -> ChildStates]
    BY DEF TypeOK
  <1>1. CASE child[h].st = "exited"
    <2>1. child' = child
      BY <1>1 DEF RecordFails
    <2> QED
      BY <1>0, <1>1, <2>1
  <1>2. CASE child[h].st # "exited"
    <2>1. PICK c \in {child, Doomed(id[h])} : child' = [c EXCEPT ![h].told = "EXIT"]
      BY <1>2 DEF RecordFails
    <2>2. /\ c \in [Handlers -> ChildStates]
          /\ \A g \in Handlers :
                /\ c[g].st = child[g].st \/ (c[g].st = "dying" /\ g \in Members(id[h]))
                /\ c[g].joined = child[g].joined
                /\ c[g].said = child[g].said
                /\ c[g].told = child[g].told
      <3>1. CASE c = child
        BY <1>0, <3>1
      <3>2. CASE c = Doomed(id[h])
        BY <3>2, DoomedFacts
      <3> QED
        BY <3>1, <3>2
    <2>3. /\ child' \in [Handlers -> ChildStates]
          /\ \A g \in Handlers :
                /\ child'[g].st = c[g].st
                /\ child'[g].joined = c[g].joined
                /\ child'[g].said = c[g].said
                /\ g # h => child'[g].told = c[g].told
          /\ child'[h].told = "EXIT"
      <3>1. /\ [c[h] EXCEPT !.told = "EXIT"] \in ChildStates
            /\ [c[h] EXCEPT !.told = "EXIT"].st = c[h].st
            /\ [c[h] EXCEPT !.told = "EXIT"].joined = c[h].joined
            /\ [c[h] EXCEPT !.told = "EXIT"].said = c[h].said
            /\ [c[h] EXCEPT !.told = "EXIT"].told = "EXIT"
        BY <2>2 DEF ChildStates
      <3>2. child' = [c EXCEPT ![h] = [c[h] EXCEPT !.told = "EXIT"]]
        BY <2>1
      <3> QED
        BY <2>2, <3>1, <3>2
    <2> QED
      BY <2>2, <2>3
  <1> QED
    BY <1>1, <1>2

\* Where a request and a lookup lead.
LEMMA StepsTyped ==
  ASSUME NEW h
  PROVE  /\ \A c : FirstStep(c) \in {"workspace", "list", "lookup"}
         /\ \A c : FirstStep(c) = "workspace" => c.kind = "run"
         /\ \A c : FirstStep(c) = "lookup" => c.kind # "run"
         /\ NextStep(h) \in {"clone", "kill", "rmcgroup", "read"}
         /\ NextStep(h) = "clone" => Is(h, "start")
         /\ NextStep(h) = "kill" => Is(h, "stop")
         /\ NextStep(h) = "rmcgroup" => Is(h, "rm")
  BY DEF FirstStep, NextStep

LEMMA TypeInit == Init => TypeOK
  <1>1. EmptyState \in InnerStates /\ NoChild \in ChildStates
    BY DEF EmptyState, InnerStates, NoChild, ChildStates
  <1> QED
    BY <1>1, CallsAssumption DEF Init, TypeOK, Steps, Ended

\* A step keeps the types.
LEMMA TypeStep ==
  ASSUME TypeOK, CallInv, [Next]_vars
  PROVE  TypeOK'
  <1> USE DEF os, given, Goto, End, NoFault, Fault, Steps, Ended
  <1>w. ASSUME watch' = watch \/ WakeWatchers
        PROVE  watch' \in [Handlers -> {"off", "on", "woken"}]
    BY <1>w DEF WakeWatchers, TypeOK
  <1>1. ASSUME NEW h \in Handlers,
               \/ \E c \in Calls : Accept(h, c)
               \/ ClientLeaves(h) \/ ListContainers(h) \/ ShowLogs(h)
        PROVE  TypeOK'
    BY <1>1, StepsTyped DEF Accept, ClientLeaves, ListContainers, ShowLogs, TypeOK
  <1>2. ASSUME NEW h \in Handlers, LookUp(h)
        PROVE  TypeOK'
    BY <1>2, FoundTyped, StepsTyped DEF LookUp, TypeOK
  <1>3. ASSUME NEW h \in Handlers, MakeWorkspace(h) \/ WorkspaceFails(h)
        PROVE  TypeOK'
    BY <1>w, <1>3 DEF MakeWorkspace, WorkspaceFails, TypeOK
  <1>4. ASSUME NEW h \in Handlers, Commit(h) \/ CloneFails(h) \/ ReadExit(h)
        PROVE  TypeOK'
    BY <1>w, <1>4 DEF Commit, CloneFails, ReadExit, UndoWorkspace, TypeOK
  <1>5. ASSUME NEW h \in Handlers, Clone(h) \/ ReadWait(h) \/ JoinCgroup(h)
        PROVE  TypeOK'
    <2>1. child' \in [Handlers -> ChildStates]
      BY <1>5, CloneFacts, JoinFacts DEF ReadWait, JoinCgroup, TypeOK
    <2> QED
      BY <1>5, <2>1 DEF Clone, ReadWait, JoinCgroup, TypeOK
  <1>6. ASSUME NEW h \in Handlers, JoinFails(h) \/ RegisterFails(h)
        PROVE  TypeOK'
    <2>1. child' \in [Handlers -> ChildStates]
      BY <1>6, TellFacts DEF JoinFails, RegisterFails
    <2> QED
      BY <1>w, <1>6, <2>1 DEF JoinFails, RegisterFails, UndoWorkspace, AnswerOfFailure, TypeOK
  <1>7. ASSUME NEW h \in Handlers,
               Register(h) \/ RecordRunning(h) \/ RecordExited(h) \/ Deregister(h)
        PROVE  TypeOK'
    <2>1. reg' \in InnerStates
      <3>1. pc[h] # "register" => id[h] \in Ids
        BY <1>7 DEF Register, RecordRunning, RecordExited, Deregister, TypeOK
      <3> QED
        BY <1>7, <3>1, OpsTyped, ApplyOpTyped
           DEF Register, RecordRunning, RecordExited, Deregister, SetStatus, TypeOK
    <2> QED
      BY <1>7, <2>1 DEF Register, RecordRunning, RecordExited, Deregister, Return, TypeOK
  <1>8. ASSUME NEW h \in Handlers, RecordFails(h) \/ KillCgroup(h)
        PROVE  TypeOK'
    <2>1. child' \in [Handlers -> ChildStates]
      BY <1>8, DoomedFacts, RecordFailsFacts DEF KillCgroup
    <2> QED
      BY <1>8, <2>1 DEF RecordFails, KillCgroup, AnswerOfFailure, TypeOK
  <1>9. ASSUME NEW h \in Handlers,
               \/ UndoCgroup(h) \/ OpenLog(h) \/ OpenLogFails(h) \/ Continue(h)
               \/ Attach(h) \/ Listen(h) \/ CheckChild(h) \/ InputEnds(h) \/ Waitpid(h)
        PROVE  TypeOK'
    <2>1. child' \in [Handlers -> ChildStates]
      BY <1>9, TellFacts DEF UndoCgroup, OpenLog, OpenLogFails, Continue, Attach, Listen,
         CheckChild, InputEnds, Waitpid, TypeOK
    <2> QED
      BY <1>9, <2>1 DEF UndoCgroup, OpenLog, OpenLogFails, Continue, Attach, Listen,
         CheckChild, InputEnds, Waitpid, TypeOK
  <1>10. ASSUME NEW h \in Handlers,
                KillFails(h) \/ RecordExitedFails(h) \/ DeleteCgroup(h) \/ DeleteWorkspace(h)
         PROVE  TypeOK'
    BY <1>w, <1>10 DEF KillFails, RecordExitedFails, DeleteCgroup, DeleteWorkspace, Return,
                       TypeOK
  <1>11. ASSUME NEW h \in Handlers,
                ChildReady(h) \/ ChildFails(h) \/ ChildObeys(h) \/ ChildExits(h)
         PROVE  TypeOK'
    <2>1. child' \in [Handlers -> ChildStates]
      BY <1>11, SayFacts, MoveFacts DEF ChildReady, ChildFails, ChildObeys, ChildExits, Says
    <2> QED
      BY <1>w, <1>11, <2>1 DEF ChildReady, ChildFails, ChildObeys, ChildExits, TypeOK
  <1>12. ASSUME DaemonDies
         PROVE  TypeOK'
    BY <1>12 DEF DaemonDies, TypeOK
  <1>13. ASSUME UNCHANGED vars
         PROVE  TypeOK'
    BY <1>13 DEF vars, TypeOK
  <1> QED
    BY Cases, <1>1, <1>2, <1>3, <1>4, <1>5, <1>6, <1>7, <1>8, <1>9, <1>10, <1>11, <1>12, <1>13

\* Nobody gets to a step of another kind of request.
LEMMA CallStep ==
  ASSUME TypeOK, CallInv, [Next]_vars
  PROVE  CallInv'
  <1> USE DEF os, given, Goto, End, RunSteps, Preparing, InSession, StopSteps, RmSteps, Is
  <1>0. /\ pc \in [Handlers -> Steps] /\ id \in [Handlers -> Ids \cup {NONE}]
        /\ call \in [Handlers -> Calls \cup {NoCall}]
    BY DEF TypeOK
  <1>1. ASSUME NEW h \in Handlers, NEW c \in Calls, Accept(h, c)
        PROVE  CallInv'
    BY <1>0, <1>1, StepsTyped DEF Accept, CallInv
  <1>2. ASSUME NEW h \in Handlers, LookUp(h)
        PROVE  CallInv'
    BY <1>0, <1>2, StepsTyped DEF LookUp, CallInv
  <1>3. ASSUME NEW h \in Handlers,
               \/ MakeWorkspace(h) \/ WorkspaceFails(h) \/ ListContainers(h) \/ ShowLogs(h)
               \/ Commit(h)
        PROVE  CallInv'
    BY <1>0, <1>3 DEF MakeWorkspace, WorkspaceFails, ListContainers, ShowLogs, Commit, CallInv
  <1>4. ASSUME NEW h \in Handlers,
               \/ Clone(h) \/ CloneFails(h) \/ ReadWait(h) \/ ReadExit(h) \/ JoinCgroup(h)
               \/ JoinFails(h) \/ Register(h) \/ RegisterFails(h) \/ UndoCgroup(h)
        PROVE  CallInv'
    BY <1>0, <1>4 DEF Clone, CloneFails, ReadWait, ReadExit, JoinCgroup, JoinFails, Register,
                      RegisterFails, UndoCgroup, CallInv
  <1>5. ASSUME NEW h \in Handlers,
               \/ RecordRunning(h) \/ RecordFails(h) \/ OpenLog(h) \/ OpenLogFails(h)
               \/ Continue(h) \/ Attach(h) \/ CheckChild(h) \/ InputEnds(h) \/ Waitpid(h)
        PROVE  CallInv'
    BY <1>0, <1>5 DEF RecordRunning, RecordFails, OpenLog, OpenLogFails, Continue, Attach,
                      CheckChild, InputEnds, Waitpid, CallInv
  <1>6. ASSUME NEW h \in Handlers,
               \/ KillCgroup(h) \/ KillFails(h) \/ RecordExited(h) \/ RecordExitedFails(h)
               \/ DeleteCgroup(h) \/ DeleteWorkspace(h) \/ Deregister(h)
        PROVE  CallInv'
    BY <1>0, <1>6 DEF KillCgroup, KillFails, RecordExited, RecordExitedFails, Return,
                      DeleteCgroup, DeleteWorkspace, Deregister, CallInv
  <1>7. ASSUME DaemonDies
        PROVE  CallInv'
    BY <1>0, <1>7 DEF DaemonDies, Ended, CallInv
  <1>8. ASSUME UNCHANGED <<pc, call, id>>
        PROVE  CallInv'
    BY <1>8 DEF CallInv
  <1>9. ASSUME \/ UNCHANGED vars
               \/ \E h \in Handlers :
                     \/ ClientLeaves(h) \/ Listen(h) \/ ChildReady(h) \/ ChildFails(h)
                     \/ ChildObeys(h) \/ ChildExits(h)
        PROVE  CallInv'
    BY <1>8, <1>9 DEF ClientLeaves, Listen, ChildReady, ChildFails, ChildObeys, ChildExits, vars
  <1> QED
    BY Cases, <1>1, <1>2, <1>3, <1>4, <1>5, <1>6, <1>7, <1>9

-----------------------------------------------------------------------------
\* Who changes what: requests and the ids they work on,
LEMMA IdCases ==
  ASSUME [Next]_vars
  PROVE  \/ \E h \in Handlers, c \in Calls : Accept(h, c)
         \/ \E h \in Handlers : LookUp(h) \/ MakeWorkspace(h) \/ WorkspaceFails(h)
         \/ UNCHANGED <<call, id>>
  <1> USE DEF os, given
  <1>1. ASSUME NEW h \in Handlers,
               \/ ClientLeaves(h) \/ ListContainers(h) \/ ShowLogs(h) \/ Commit(h)
               \/ Clone(h) \/ CloneFails(h)
               \/ ReadWait(h) \/ ReadExit(h) \/ JoinCgroup(h) \/ JoinFails(h)
               \/ Register(h) \/ RegisterFails(h) \/ UndoCgroup(h)
        PROVE  UNCHANGED <<call, id>>
    BY <1>1 DEF ClientLeaves, ListContainers, ShowLogs, Commit, Clone, CloneFails, ReadWait,
       ReadExit, JoinCgroup, JoinFails, Register, RegisterFails, UndoCgroup
  <1>2. ASSUME NEW h \in Handlers,
               \/ RecordRunning(h) \/ RecordFails(h) \/ OpenLog(h) \/ OpenLogFails(h)
               \/ Continue(h) \/ Attach(h) \/ Listen(h) \/ CheckChild(h)
               \/ InputEnds(h) \/ Waitpid(h)
        PROVE  UNCHANGED <<call, id>>
    BY <1>2 DEF RecordRunning, RecordFails, OpenLog, OpenLogFails, Continue, Attach, Listen,
       CheckChild, InputEnds, Waitpid
  <1>3. ASSUME NEW h \in Handlers,
               \/ KillCgroup(h) \/ KillFails(h) \/ RecordExited(h) \/ RecordExitedFails(h)
               \/ DeleteCgroup(h) \/ DeleteWorkspace(h) \/ Deregister(h)
               \/ ChildReady(h) \/ ChildFails(h) \/ ChildObeys(h) \/ ChildExits(h)
        PROVE  UNCHANGED <<call, id>>
    BY <1>3 DEF KillCgroup, KillFails, RecordExited, RecordExitedFails, DeleteCgroup,
       DeleteWorkspace, Deregister, ChildReady, ChildFails, ChildObeys, ChildExits
  <1>4. ASSUME DaemonDies \/ UNCHANGED vars
        PROVE  UNCHANGED <<call, id>>
    BY <1>4 DEF DaemonDies, vars
  <1> QED
    BY Cases, <1>1, <1>2, <1>3, <1>4

\* the registry,
LEMMA RegSteps ==
  ASSUME [Next]_vars
  PROVE  \/ \E h \in Handlers : \/ Register(h) \/ RecordRunning(h)
                               \/ RecordExited(h) \/ Deregister(h)
         \/ UNCHANGED reg
  <1> USE DEF os, given
  <1>1. ASSUME NEW h \in Handlers,
               \/ \E c \in Calls : Accept(h, c)
               \/ LookUp(h) \/ MakeWorkspace(h) \/ WorkspaceFails(h)
               \/ ClientLeaves(h) \/ ListContainers(h) \/ ShowLogs(h) \/ Commit(h)
               \/ Clone(h) \/ CloneFails(h)
               \/ ReadWait(h) \/ ReadExit(h) \/ JoinCgroup(h) \/ JoinFails(h)
               \/ RegisterFails(h) \/ UndoCgroup(h)
        PROVE  UNCHANGED reg
    BY <1>1 DEF Accept, LookUp, MakeWorkspace, WorkspaceFails, ClientLeaves, ListContainers,
       ShowLogs, Commit, Clone, CloneFails, ReadWait, ReadExit, JoinCgroup, JoinFails,
       RegisterFails, UndoCgroup
  <1>2. ASSUME NEW h \in Handlers,
               \/ RecordFails(h) \/ OpenLog(h) \/ OpenLogFails(h)
               \/ Continue(h) \/ Attach(h) \/ Listen(h) \/ CheckChild(h)
               \/ InputEnds(h) \/ Waitpid(h)
               \/ KillCgroup(h) \/ KillFails(h) \/ RecordExitedFails(h)
               \/ DeleteCgroup(h) \/ DeleteWorkspace(h)
               \/ ChildReady(h) \/ ChildFails(h) \/ ChildObeys(h) \/ ChildExits(h)
        PROVE  UNCHANGED reg
    BY <1>2 DEF RecordFails, OpenLog, OpenLogFails, Continue, Attach, Listen,
       CheckChild, InputEnds, Waitpid, KillCgroup, KillFails, RecordExitedFails, DeleteCgroup,
       DeleteWorkspace, ChildReady, ChildFails, ChildObeys, ChildExits
  <1>3. ASSUME DaemonDies \/ UNCHANGED vars
        PROVE  UNCHANGED reg
    BY <1>3 DEF DaemonDies, vars
  <1> QED
    BY Cases, <1>1, <1>2, <1>3

Touching(op) == op.kind \in {"Delete", "UpdateStatus"} /\ reg' = ApplyOp(reg, op)

LEMMA RegCases ==
  ASSUME TypeOK, CallInv, [Next]_vars
  PROVE  \/ \E h \in Handlers : Register(h)
         \/ \E op \in BasicOps : Touching(op)
         \/ UNCHANGED reg
  <1>1. ASSUME NEW h \in Handlers, RecordRunning(h) \/ RecordExited(h) \/ Deregister(h)
        PROVE  UNCHANGED reg \/ \E op \in BasicOps : Touching(op)
    <2>1. id[h] \in Ids
      BY <1>1 DEF RecordRunning, RecordExited, Deregister, TypeOK, Ended
    <2>2. /\ [kind |-> "Delete", id |-> id[h]] \in BasicOps
          /\ [kind |-> "UpdateStatus", id |-> id[h], status |-> "Running"] \in BasicOps
          /\ [kind |-> "UpdateStatus", id |-> id[h], status |-> "Exited"] \in BasicOps
      BY <2>1, OpsTyped
    <2>3. CASE RecordRunning(h)
      BY <2>2, <2>3 DEF RecordRunning, SetStatus, Touching
    <2>4. CASE RecordExited(h)
      BY <2>2, <2>4 DEF RecordExited, SetStatus, Touching
    <2>5. CASE Deregister(h)
      BY <2>2, <2>5 DEF Deregister, Touching
    <2> QED
      BY <1>1, <2>3, <2>4, <2>5
  <1> QED
    BY RegSteps, <1>1

\* and where a handler that has ended is, for good.
LEMMA LostStays ==
  ASSUME TypeOK, CallInv, [Next]_vars, NEW h \in Handlers, pc[h] \in Ended
  PROVE  pc'[h] = pc[h] /\ call'[h] = call[h] /\ id'[h] = id[h]
  <1> USE DEF os, given, Goto, End, Ended
  <1>0. /\ pc \in [Handlers -> Steps] /\ id \in [Handlers -> Ids \cup {NONE}]
        /\ call \in [Handlers -> Calls \cup {NoCall}]
    BY DEF TypeOK
  <1>1. call'[h] = call[h] /\ id'[h] = id[h]
    BY <1>0, IdCases DEF Accept, LookUp, MakeWorkspace, WorkspaceFails
  <1>2. ASSUME NEW g \in Handlers,
               \/ \E c \in Calls : Accept(g, c)
               \/ LookUp(g) \/ MakeWorkspace(g) \/ WorkspaceFails(g)
               \/ ClientLeaves(g) \/ ListContainers(g) \/ ShowLogs(g) \/ Commit(g)
               \/ Clone(g) \/ CloneFails(g)
               \/ ReadWait(g) \/ ReadExit(g) \/ JoinCgroup(g) \/ JoinFails(g)
               \/ Register(g) \/ RegisterFails(g) \/ UndoCgroup(g)
        PROVE  pc'[h] = pc[h]
    BY <1>0, <1>2 DEF Accept, LookUp, MakeWorkspace, WorkspaceFails, ClientLeaves,
       ListContainers, ShowLogs, Commit, Clone, CloneFails, ReadWait, ReadExit, JoinCgroup,
       JoinFails, Register, RegisterFails, UndoCgroup
  <1>3. ASSUME NEW g \in Handlers,
               \/ RecordRunning(g) \/ RecordFails(g) \/ OpenLog(g) \/ OpenLogFails(g)
               \/ Continue(g) \/ Attach(g) \/ Listen(g) \/ CheckChild(g)
               \/ InputEnds(g) \/ Waitpid(g)
               \/ KillCgroup(g) \/ KillFails(g) \/ RecordExited(g) \/ RecordExitedFails(g)
               \/ DeleteCgroup(g) \/ DeleteWorkspace(g) \/ Deregister(g)
               \/ ChildReady(g) \/ ChildFails(g) \/ ChildObeys(g) \/ ChildExits(g)
        PROVE  pc'[h] = pc[h]
    BY <1>0, <1>3 DEF RecordRunning, RecordFails, OpenLog, OpenLogFails, Continue, Attach,
       Listen, CheckChild, InputEnds, Waitpid, KillCgroup, KillFails, RecordExited,
       RecordExitedFails, Return, DeleteCgroup, DeleteWorkspace, Deregister, ChildReady,
       ChildFails, ChildObeys, ChildExits
  <1>4. ASSUME DaemonDies \/ UNCHANGED vars
        PROVE  pc'[h] = pc[h]
    BY <1>4 DEF DaemonDies, vars
  <1> QED
    BY Cases, <1>1, <1>2, <1>3, <1>4

\* A run that registered its container stays the one that did.
LEMMA RegisteredStays ==
  ASSUME TypeOK, CallInv, [Next]_vars, NEW h \in Handlers, Registered(h)
  PROVE  Registered(h)' /\ id'[h] = id[h] /\ call'[h] = call[h]
  BY LostStays DEF Registered, Is, Ended

\* What a registration changes.
LEMMA RegisterFacts ==
  ASSUME TypeOK, CallInv, NEW h \in Handlers, Register(h)
  PROVE  /\ pc[h] = "register" /\ Is(h, "run") /\ Registered(h)'
         /\ id' = id /\ call' = call /\ id[h] \in Ids /\ call[h].name \in Names
         /\ NewMeta(call[h].name).name = call[h].name
         /\ NewMeta(call[h].name).state.status = "Creating"
         /\ \A i \in Ids : reg'.by_id[i] =
              IF i = id[h] THEN NewMeta(call[h].name) ELSE reg.by_id[i]
         /\ \A n \in Names : reg'.by_name[n] =
              IF n = call[h].name THEN id[h] ELSE reg.by_name[n]
  <1> DEFINE op == [kind |-> "Create", id |-> id[h], name |-> call[h].name]
  <1>1. /\ pc[h] = "register" /\ Is(h, "run") /\ pc'[h] = "lost"
        /\ id' = id /\ call' = call
    BY DEF Register, End, given, TypeOK, CallInv, RunSteps
  <1>2. /\ op \in BasicOps /\ op.kind = "Create" /\ op.id = id[h] /\ op.name = call[h].name
        /\ op.id \in Ids /\ op.name \in Names
    BY <1>1, OpsTyped, BasicCases
  <1>3. reg' = ApplyOp(reg, op) /\ reg \in InnerStates
    BY DEF Register, TypeOK
  <1>4. NewMeta(call[h].name).state.status = "Creating"
    BY DEF NewMeta
  <1> HIDE DEF op
  <1> QED
    BY <1>1, <1>2, <1>3, <1>4, CreateEntries DEF Registered, Is

\* An id belongs to the run that chose it.
LEMMA OwnerInit == Init => OwnerInv
  BY DEF Init, OwnerInv, EmptyState, PresentIds, NoCall, Is

LEMMA OwnerStep ==
  ASSUME TypeOK, CallInv, OwnerInv, [Next]_vars
  PROVE  OwnerInv'
  <1>0. /\ pc \in [Handlers -> Steps] /\ id \in [Handlers -> Ids \cup {NONE}]
        /\ call \in [Handlers -> Calls \cup {NoCall}] /\ reg \in InnerStates
    BY DEF TypeOK
  <1>1. \A h, g \in Handlers :
           Is(h, "run")' /\ Is(g, "run")' /\ id'[h] = id'[g] /\ id'[h] # NONE => h = g
    <2>1. \A h, g \in Handlers :
             Is(h, "run") /\ Is(g, "run") /\ id[h] = id[g] /\ id[h] # NONE => h = g
      BY DEF OwnerInv
    <2>2. ASSUME NEW h \in Handlers, NEW c \in Calls, Accept(h, c)
          PROVE  \A g \in Handlers : /\ id'[g] = id[g]
                                     /\ id'[g] # NONE => call'[g] = call[g]
      BY <1>0, <2>2 DEF Accept, CallInv
    <2>3. ASSUME NEW h \in Handlers, LookUp(h)
          PROVE  /\ call' = call /\ ~Is(h, "run")
                 /\ \A g \in Handlers \ {h} : id'[g] = id[g]
      BY <1>0, <2>3 DEF LookUp, CallInv, given
    <2>4. ASSUME NEW h \in Handlers, MakeWorkspace(h) \/ WorkspaceFails(h)
          PROVE  /\ call' = call
                 /\ \A g \in Handlers \ {h} : id'[g] = id[g] /\ id'[h] # id[g]
      BY <1>0, <2>4 DEF MakeWorkspace, WorkspaceFails, given
    <2> QED
      BY <2>1, <2>2, <2>3, <2>4, IdCases DEF Is
  <1>2. \A i \in PresentIds(reg') :
           \E h \in Handlers : /\ Registered(h)' /\ id'[h] = i
                               /\ call'[h].name = reg'.by_id[i].name
    <2>1. ASSUME NEW i \in Ids, reg.by_id[i] # NONE, reg'.by_id[i].name = reg.by_id[i].name
          PROVE  \E h \in Handlers : /\ Registered(h)' /\ id'[h] = i
                                     /\ call'[h].name = reg'.by_id[i].name
      BY <2>1, RegisteredStays DEF OwnerInv, PresentIds
    <2>2. ASSUME NEW h \in Handlers, Register(h), NEW i \in PresentIds(reg')
          PROVE  \/ /\ Registered(h)' /\ id'[h] = i /\ call'[h].name = reg'.by_id[i].name
                 \/ i \in Ids /\ reg.by_id[i] # NONE /\ reg'.by_id[i] = reg.by_id[i]
      <3>1. i \in Ids /\ reg'.by_id[i] # NONE
        BY <2>2 DEF PresentIds
      <3> QED
        BY <2>2, <3>1, RegisterFacts
    <2>3. ASSUME NEW op \in BasicOps, Touching(op), NEW i \in PresentIds(reg')
          PROVE  /\ i \in Ids /\ reg.by_id[i] # NONE
                 /\ reg'.by_id[i].name = reg.by_id[i].name
      BY <1>0, <2>3, DeleteEntries, TouchEntries, NoEntries DEF Touching, PresentIds
    <2> QED
      <3> SUFFICES ASSUME NEW i \in PresentIds(reg')
                   PROVE  \E h \in Handlers : /\ Registered(h)' /\ id'[h] = i
                                              /\ call'[h].name = reg'.by_id[i].name
        OBVIOUS
      <3>1. CASE UNCHANGED reg
        BY <2>1, <3>1 DEF PresentIds
      <3>2. CASE \E h \in Handlers : Register(h)
        BY <2>1, <2>2, <3>2
      <3>3. CASE \E op \in BasicOps : Touching(op)
        BY <2>1, <2>3, <3>3
      <3> QED
        BY <3>1, <3>2, <3>3, RegCases
  <1>3. \A n \in Names : reg'.by_name[n] # NONE =>
           \E h \in Handlers : Registered(h)' /\ id'[h] = reg'.by_name[n]
    <2>1. ASSUME NEW n \in Names, reg'.by_name[n] # NONE, reg'.by_name[n] = reg.by_name[n]
          PROVE  \E h \in Handlers : Registered(h)' /\ id'[h] = reg'.by_name[n]
      BY <2>1, RegisteredStays DEF OwnerInv
    <2>2. ASSUME NEW h \in Handlers, Register(h), NEW n \in Names
          PROVE  \/ Registered(h)' /\ id'[h] = reg'.by_name[n]
                 \/ reg'.by_name[n] = reg.by_name[n]
      BY <2>2, RegisterFacts
    <2>3. ASSUME NEW op \in BasicOps, Touching(op), NEW n \in Names
          PROVE  reg'.by_name[n] = NONE \/ reg'.by_name[n] = reg.by_name[n]
      BY <1>0, <2>3, DeleteEntries, TouchEntries, NoEntries DEF Touching
    <2> QED
      BY <2>1, <2>2, <2>3, RegCases
  <1>4. \A h \in Handlers : id'[h] # NONE /\ ~Is(h, "run")' =>
           \E g \in Handlers : Registered(g)' /\ id'[g] = id'[h]
    <2> SUFFICES ASSUME NEW h \in Handlers, id'[h] # NONE, ~Is(h, "run")'
                 PROVE  \E g \in Handlers : Registered(g)' /\ id'[g] = id'[h]
      OBVIOUS
    <2>1. CASE id'[h] = id[h] /\ call'[h] = call[h]
      <3>1. PICK g \in Handlers : Registered(g) /\ id[g] = id[h]
        BY <2>1 DEF OwnerInv, Is
      <3> QED
        BY <2>1, <3>1, RegisteredStays
    <2>2. ASSUME LookUp(h), ~Refused(h)
          PROVE  \E g \in Handlers : Registered(g)' /\ id'[g] = id'[h]
      <3>1. id'[h] = Found(h) /\ Found(h) # NONE /\ call[h].name \in Names
        BY <1>0, <2>2, FoundTyped DEF LookUp, Refused
      <3>2. PICK g \in Handlers : Registered(g) /\ id[g] = Found(h)
        BY <3>1 DEF OwnerInv, Found
      <3> QED
        BY <3>1, <3>2, RegisteredStays
    <2>3. ASSUME NEW g \in Handlers, NEW c \in Calls, Accept(g, c)
          PROVE  id'[h] = id[h] /\ call'[h] = call[h]
      BY <1>0, <2>3 DEF Accept, CallInv
    <2>4. ASSUME NEW g \in Handlers, LookUp(g)
          PROVE  \/ id'[h] = id[h] /\ call'[h] = call[h]
                 \/ h = g /\ ~Refused(h)
      BY <1>0, <2>4 DEF LookUp, given
    <2>5. ASSUME NEW g \in Handlers, MakeWorkspace(g) \/ WorkspaceFails(g)
          PROVE  id'[h] = id[h] /\ call'[h] = call[h]
      BY <1>0, <2>5 DEF MakeWorkspace, WorkspaceFails, given, CallInv, RunSteps, Is
    <2> QED
      BY <2>1, <2>2, <2>3, <2>4, <2>5, IdCases
  <1> QED
    BY <1>1, <1>2, <1>3, <1>4 DEF OwnerInv

-----------------------------------------------------------------------------
\* What a handler owes its process.
LEMMA ChildInit == Init => ChildInv
  BY DEF Init, ChildInv, NoChild, Childless, StopSteps

LEMMA ChildStep ==
  ASSUME TypeOK, CallInv, ChildInv, [Next]_vars
  PROVE  ChildInv'
  <1> USE DEF os, given, Goto, End, RunSteps, Preparing, InSession, StopSteps, RmSteps,
              Childless, Is
  <1>0. /\ pc \in [Handlers -> Steps] /\ child \in [Handlers -> ChildStates]
        /\ call \in [Handlers -> Calls \cup {NoCall}]
    BY DEF TypeOK
  <1>1. ASSUME NEW h \in Handlers, NEW c \in Calls, Accept(h, c)
        PROVE  ChildInv'
    BY <1>0, <1>1, StepsTyped DEF Accept, ChildInv
  <1>2. ASSUME NEW h \in Handlers, LookUp(h)
        PROVE  ChildInv'
    BY <1>0, <1>2, StepsTyped DEF LookUp, ChildInv
  <1>3. ASSUME NEW h \in Handlers,
               \/ MakeWorkspace(h) \/ WorkspaceFails(h) \/ ListContainers(h) \/ ShowLogs(h)
               \/ Commit(h) \/ CloneFails(h) \/ ReadWait(h) \/ ReadExit(h)
               \/ Register(h) \/ UndoCgroup(h)
        PROVE  ChildInv'
    BY <1>0, <1>3 DEF MakeWorkspace, WorkspaceFails, ListContainers, ShowLogs, Commit, CloneFails,
       ReadWait, ReadExit, Register, UndoCgroup, CallInv, ChildInv
  <1>4. ASSUME NEW h \in Handlers,
               \/ RecordRunning(h) \/ OpenLog(h) \/ Attach(h) \/ CheckChild(h) \/ InputEnds(h)
               \/ Waitpid(h)
               \/ KillFails(h) \/ RecordExited(h) \/ RecordExitedFails(h)
               \/ DeleteCgroup(h) \/ DeleteWorkspace(h) \/ Deregister(h)
        PROVE  ChildInv'
    BY <1>0, <1>4 DEF RecordRunning, OpenLog, Attach, CheckChild, InputEnds, Waitpid, KillFails,
       RecordExited, RecordExitedFails, Return, DeleteCgroup, DeleteWorkspace, Deregister,
       CallInv, ChildInv
  <1>5. ASSUME NEW h \in Handlers, Clone(h)
        PROVE  ChildInv'
    <2>1. pc[h] = "clone" /\ pc' = [pc EXCEPT ![h] = "ready"] /\ call' = call
      BY <1>5 DEF Clone
    <2>2. call[h].kind \in {"run", "start"}
      BY <2>1 DEF CallInv
    <2> QED
      BY <1>0, <1>5, <2>1, <2>2, CloneFacts DEF ChildInv
  <1>6. ASSUME NEW h \in Handlers, JoinCgroup(h)
        PROVE  ChildInv'
    BY <1>0, <1>6, JoinFacts DEF JoinCgroup, CallInv, ChildInv
  <1>7. ASSUME NEW h \in Handlers, JoinFails(h) \/ RegisterFails(h) \/ OpenLogFails(h)
        PROVE  ChildInv'
    <2>1. Tell(h, "EXIT") /\ call' = call
      BY <1>7 DEF JoinFails, RegisterFails, OpenLogFails
    <2>2. \/ pc[h] = "cgroup" /\ pc' = [pc EXCEPT ![h] = "over"]
          \/ pc[h] = "register" /\ pc' = [pc EXCEPT ![h] = "undo"]
          \/ pc[h] = "log" /\ pc' = [pc EXCEPT ![h] = "lost"]
      BY <1>7 DEF JoinFails, RegisterFails, OpenLogFails
    <2> QED
      BY <1>0, <2>1, <2>2, TellFacts DEF CallInv, ChildInv
  <1>8. ASSUME NEW h \in Handlers, Continue(h)
        PROVE  ChildInv'
    BY <1>0, <1>8, TellFacts DEF Continue, CallInv, ChildInv
  <1>9. ASSUME NEW h \in Handlers, RecordFails(h)
        PROVE  ChildInv'
    <2>1. pc[h] = "record" /\ pc' = [pc EXCEPT ![h] = "over"] /\ call' = call
      BY <1>9 DEF RecordFails
    <2> QED
      BY <1>0, <1>9, <2>1, RecordFailsFacts DEF CallInv, ChildInv, Members, Alive
  <1>10. ASSUME NEW h \in Handlers, KillCgroup(h)
         PROVE  ChildInv'
    <2>1. pc[h] = "kill" /\ pc' = [pc EXCEPT ![h] = "exited"] /\ call' = call
          /\ child' = Doomed(id[h])
      BY <1>10 DEF KillCgroup
    <2>2. \A g \in Handlers : /\ child'[g].joined = child[g].joined
                              /\ child'[g].told = child[g].told
                              /\ child'[g].said = child[g].said
                              /\ \/ child'[g].st = child[g].st
                                 \/ child'[g].st = "dying" /\ child[g].st # "none"
      BY <1>0, <2>1, DoomedFacts DEF Members, Alive
    <2>3. \A g \in Handlers : \/ pc'[g] = pc[g]
                              \/ pc[g] = "kill" /\ pc'[g] = "exited"
      BY <1>0, <2>1
    <2> QED
      BY <2>1, <2>2, <2>3 DEF ChildInv
  <1>11. ASSUME NEW h \in Handlers, ChildReady(h) \/ ChildFails(h)
         PROVE  ChildInv'
    <2>1. PICK s \in {"blocked", "exited"}, w \in {"WAIT", "EXIT"} :
             Says(h, s, w)
      BY <1>11 DEF ChildReady, ChildFails, Says
    <2>2. pc' = pc /\ call' = call /\ child[h].st = "setup"
      BY <1>11 DEF ChildReady, ChildFails
    <2>3. \A g \in Handlers : /\ child'[g].joined = child[g].joined
                              /\ child'[g].told = child[g].told
                              /\ g # h => child'[g].said = child[g].said
                              /\ child'[g].st = IF g = h THEN s ELSE child[g].st
      BY <2>1, SayFacts
    <2>4. pc[h] \in {"ready", "killed"} /\ call[h].kind \in {"run", "start"}
      BY <2>2 DEF ChildInv
    <2> QED
      BY <2>2, <2>3, <2>4 DEF ChildInv
  <1>12. ASSUME NEW h \in Handlers, ChildObeys(h) \/ ChildExits(h)
         PROVE  ChildInv'
    <2>1. PICK s \in {"running", "exited"} :
             /\ child' = [child EXCEPT ![h].st = s]
             /\ s = "running" => child[h].told = "CONT"
             /\ child[h].st # "none"
      BY <1>12 DEF ChildObeys, ChildExits
    <2>2. pc' = pc /\ call' = call
      BY <1>12 DEF ChildObeys, ChildExits
    <2>3. s = "running" => child[h].joined
      BY <2>1 DEF ChildInv
    <2>4. \A g \in Handlers : /\ child'[g].joined = child[g].joined
                              /\ child'[g].told = child[g].told
                              /\ child'[g].said = child[g].said
                              /\ child'[g].st = IF g = h THEN s ELSE child[g].st
      BY <2>1, MoveFacts
    <2> QED
      BY <2>1, <2>2, <2>3, <2>4 DEF ChildInv
  <1>13. ASSUME DaemonDies
         PROVE  ChildInv'
    <2>1. /\ child' = child /\ call' = call
          /\ \A h \in Handlers : pc'[h] = pc[h] \/ pc'[h] = "killed"
      BY <1>0, <1>13 DEF DaemonDies
    <2> QED
      BY <2>1 DEF ChildInv
  <1>14. ASSUME UNCHANGED <<pc, call, child>>
         PROVE  ChildInv'
    BY <1>14 DEF ChildInv
  <1>15. ASSUME UNCHANGED vars \/ \E h \in Handlers : ClientLeaves(h) \/ Listen(h)
         PROVE  ChildInv'
    BY <1>14, <1>15 DEF ClientLeaves, Listen, vars
  <1> QED
    BY Cases, <1>1, <1>2, <1>3, <1>4, <1>5, <1>6, <1>7, <1>8, <1>9, <1>10, <1>11, <1>12, <1>13,
       <1>15

\* The cgroup of a live member is there.
LEMMA CgroupInit == Init => CgroupInv
  BY DEF Init, CgroupInv, NoChild

LEMMA CgroupStep ==
  ASSUME TypeOK, CallInv, ChildInv, CgroupInv, [Next]_vars
  PROVE  CgroupInv'
  <1> USE DEF os, given, Goto, End
  <1>0. /\ pc \in [Handlers -> Steps] /\ child \in [Handlers -> ChildStates]
        /\ id \in [Handlers -> Ids \cup {NONE}] /\ cgroups \in SUBSET Ids
    BY DEF TypeOK
  <1>1. ASSUME UNCHANGED <<id, cgroups>>,
               \A g \in Handlers :
                  child'[g].joined /\ Alive(g)' => child[g].joined /\ Alive(g)
        PROVE  CgroupInv'
    <2> SUFFICES ASSUME NEW g \in Handlers, child'[g].joined, Alive(g)'
                 PROVE  id'[g] \in cgroups'
      BY DEF CgroupInv
    <2>1. child[g].joined /\ Alive(g)
      BY <1>1
    <2> QED
      BY <1>1, <2>1 DEF CgroupInv
  <1>2. ASSUME NEW h \in Handlers,
               \/ LookUp(h) \/ MakeWorkspace(h) \/ WorkspaceFails(h)
        PROVE  CgroupInv'
    <2>1. /\ child' = child /\ cgroups' = cgroups /\ pc[h] \in Childless
          /\ \A g \in Handlers \ {h} : id'[g] = id[g]
      BY <1>0, <1>2 DEF LookUp, MakeWorkspace, WorkspaceFails, Childless
    <2>2. ~Alive(h)
      BY <2>1 DEF ChildInv, Alive
    <2> QED
      BY <2>1, <2>2 DEF CgroupInv, Alive
  <1>3. ASSUME NEW h \in Handlers,
               \/ \E c \in Calls : Accept(h, c)
               \/ ClientLeaves(h) \/ ListContainers(h) \/ ShowLogs(h)
               \/ Commit(h) \/ CloneFails(h) \/ ReadWait(h) \/ ReadExit(h)
               \/ Register(h) \/ RecordRunning(h) \/ OpenLog(h)
               \/ Attach(h) \/ CheckChild(h) \/ InputEnds(h) \/ Waitpid(h) \/ Listen(h)
               \/ KillFails(h) \/ RecordExited(h) \/ RecordExitedFails(h)
               \/ DeleteWorkspace(h) \/ Deregister(h)
        PROVE  UNCHANGED <<id, child, cgroups>>
    BY <1>3 DEF Accept, ClientLeaves, ListContainers, ShowLogs, Commit, CloneFails, ReadWait,
       ReadExit, Register, RecordRunning, OpenLog, Attach, CheckChild, InputEnds, Waitpid, Listen,
       KillFails, RecordExited, RecordExitedFails, DeleteWorkspace, Deregister
  <1>4. ASSUME UNCHANGED <<id, child, cgroups>>
        PROVE  CgroupInv'
    BY <1>4 DEF CgroupInv, Alive
  <1>5. ASSUME NEW h \in Handlers, Clone(h)
        PROVE  CgroupInv'
    <2>1. UNCHANGED <<id, cgroups>>
      BY <1>5 DEF Clone
    <2> QED
      BY <1>5, <2>1, CloneFacts DEF CgroupInv, Alive
  <1>6. ASSUME NEW h \in Handlers, JoinCgroup(h)
        PROVE  CgroupInv'
    <2>1. id' = id /\ cgroups' = cgroups \cup {id[h]}
          /\ \A g \in Handlers \ {h} : child'[g] = child[g]
      BY <1>6, JoinFacts DEF JoinCgroup
    <2> QED
      BY <2>1 DEF CgroupInv, Alive
  <1>7. ASSUME NEW h \in Handlers,
               JoinFails(h) \/ RegisterFails(h) \/ OpenLogFails(h) \/ Continue(h)
        PROVE  CgroupInv'
    <2>1. /\ id' = id /\ cgroups \subseteq cgroups'
          /\ Tell(h, "EXIT") \/ Tell(h, "CONT") \/ child' = child
      BY <1>7 DEF JoinFails, RegisterFails, OpenLogFails, Continue
    <2>2. \A g \in Handlers : /\ child'[g].joined = child[g].joined
                              /\ child'[g].st = child[g].st
      BY <2>1, TellFacts
    <2> QED
      BY <2>1, <2>2 DEF CgroupInv, Alive
  <1>8. ASSUME NEW h \in Handlers, UndoCgroup(h) \/ DeleteCgroup(h)
        PROVE  CgroupInv'
    <2>1. /\ UNCHANGED <<id, child>>
          /\ cgroups' = cgroups \/ (Members(id[h]) = {} /\ cgroups' = cgroups \ {id[h]})
      BY <1>8 DEF UndoCgroup, DeleteCgroup
    <2> QED
      BY <2>1 DEF CgroupInv, Alive, Members
  <1>9. ASSUME NEW h \in Handlers, RecordFails(h)
        PROVE  CgroupInv'
    <2>1. UNCHANGED <<id, cgroups>>
      BY <1>9 DEF RecordFails
    <2> QED
      BY <1>1, <1>9, <2>1, RecordFailsFacts DEF Alive, Members
  <1>10. ASSUME NEW h \in Handlers, KillCgroup(h)
         PROVE  CgroupInv'
    <2>1. UNCHANGED <<id, cgroups>> /\ child' = Doomed(id[h])
      BY <1>10 DEF KillCgroup
    <2>2. \A g \in Handlers : /\ child'[g].joined = child[g].joined
                              /\ \/ child'[g].st = child[g].st
                                 \/ Alive(g)
      BY <2>1, DoomedFacts DEF Members
    <2> QED
      BY <1>1, <2>1, <2>2 DEF Alive
  <1>11. ASSUME NEW h \in Handlers, ChildReady(h) \/ ChildFails(h)
         PROVE  CgroupInv'
    <2>1. PICK s \in {"blocked", "exited"}, w \in {"WAIT", "EXIT"} : Says(h, s, w)
      BY <1>11 DEF ChildReady, ChildFails, Says
    <2>2. UNCHANGED <<id, cgroups>> /\ Alive(h)
      BY <1>11 DEF ChildReady, ChildFails, Alive
    <2>3. \A g \in Handlers : /\ child'[g].joined = child[g].joined
                              /\ g # h => child'[g].st = child[g].st
      BY <2>1, SayFacts
    <2> QED
      BY <1>1, <2>2, <2>3 DEF Alive
  <1>12. ASSUME NEW h \in Handlers, ChildObeys(h) \/ ChildExits(h)
         PROVE  CgroupInv'
    <2>1. PICK s \in {"running", "exited"} : child' = [child EXCEPT ![h].st = s]
      BY <1>12 DEF ChildObeys, ChildExits
    <2>2. UNCHANGED <<id, cgroups>> /\ Alive(h)
      BY <1>12 DEF ChildObeys, ChildExits, Alive
    <2>3. \A g \in Handlers : /\ child'[g].joined = child[g].joined
                              /\ g # h => child'[g].st = child[g].st
      BY <2>1, MoveFacts
    <2> QED
      BY <1>1, <2>2, <2>3 DEF Alive
  <1>13. ASSUME DaemonDies \/ UNCHANGED vars
         PROVE  CgroupInv'
    BY <1>4, <1>13 DEF DaemonDies, vars
  <1> QED
    BY Cases, <1>2, <1>3, <1>4, <1>5, <1>6, <1>7, <1>8, <1>9, <1>10, <1>11, <1>12, <1>13

\* The word that a process waits for is sent before its handler ends.
LEMMA WaitInit == Init => NobodyWaitsInVain
  BY DEF Init, NobodyWaitsInVain, NoChild

LEMMA WaitStep ==
  ASSUME TypeOK, CallInv, ChildInv, NobodyWaitsInVain, [Next]_vars
  PROVE  NobodyWaitsInVain'
  <1> USE DEF os, given, Goto, End, RunSteps, Preparing, InSession, StopSteps, RmSteps,
              Childless, Is, Ended
  <1>0. /\ pc \in [Handlers -> Steps] /\ child \in [Handlers -> ChildStates]
        /\ call \in [Handlers -> Calls \cup {NoCall}]
    BY DEF TypeOK
  <1>1. ASSUME NEW h \in Handlers,
               \/ \E c \in Calls : Accept(h, c)
               \/ LookUp(h)
        PROVE  NobodyWaitsInVain'
    BY <1>0, <1>1, StepsTyped DEF Accept, LookUp, ChildInv, NobodyWaitsInVain
  <1>2. ASSUME NEW h \in Handlers,
               \/ MakeWorkspace(h) \/ WorkspaceFails(h) \/ ListContainers(h) \/ ShowLogs(h)
               \/ Commit(h) \/ CloneFails(h) \/ ReadWait(h) \/ ReadExit(h)
               \/ Register(h) \/ UndoCgroup(h)
        PROVE  NobodyWaitsInVain'
    BY <1>0, <1>2 DEF MakeWorkspace, WorkspaceFails, ListContainers, ShowLogs, Commit, CloneFails,
       ReadWait, ReadExit, Register, UndoCgroup, CallInv, ChildInv, NobodyWaitsInVain
  <1>3. ASSUME NEW h \in Handlers,
               \/ RecordRunning(h) \/ OpenLog(h) \/ Attach(h) \/ CheckChild(h) \/ InputEnds(h)
               \/ Waitpid(h)
               \/ KillFails(h) \/ RecordExited(h) \/ RecordExitedFails(h)
               \/ DeleteCgroup(h) \/ DeleteWorkspace(h) \/ Deregister(h)
        PROVE  NobodyWaitsInVain'
    BY <1>0, <1>3 DEF RecordRunning, OpenLog, Attach, CheckChild, InputEnds, Waitpid, KillFails,
       RecordExited, RecordExitedFails, Return, DeleteCgroup, DeleteWorkspace, Deregister,
       CallInv, ChildInv, NobodyWaitsInVain
  <1>4. ASSUME NEW h \in Handlers, Clone(h)
        PROVE  NobodyWaitsInVain'
    <2>1. pc[h] = "clone" /\ pc' = [pc EXCEPT ![h] = "ready"] /\ call' = call
      BY <1>4 DEF Clone
    <2> QED
      BY <1>0, <1>4, <2>1, CloneFacts DEF NobodyWaitsInVain
  <1>5. ASSUME NEW h \in Handlers, JoinCgroup(h)
        PROVE  NobodyWaitsInVain'
    BY <1>0, <1>5, JoinFacts DEF JoinCgroup, NobodyWaitsInVain
  <1>6. ASSUME NEW h \in Handlers, JoinFails(h) \/ RegisterFails(h) \/ OpenLogFails(h)
        PROVE  NobodyWaitsInVain'
    <2>1. Tell(h, "EXIT") /\ call' = call
      BY <1>6 DEF JoinFails, RegisterFails, OpenLogFails
    <2>2. \A g \in Handlers \ {h} : pc'[g] = pc[g]
      BY <1>0, <1>6 DEF JoinFails, RegisterFails, OpenLogFails
    <2> QED
      BY <1>0, <2>1, <2>2, TellFacts DEF NobodyWaitsInVain
  <1>7. ASSUME NEW h \in Handlers, Continue(h)
        PROVE  NobodyWaitsInVain'
    <2>1. /\ child' = child \/ Tell(h, "CONT")
          /\ child[h].st # "exited" => Tell(h, "CONT")
          /\ call' = call
          /\ \A g \in Handlers \ {h} : pc'[g] = pc[g]
      BY <1>0, <1>7 DEF Continue
    <2> QED
      BY <1>0, <2>1, TellFacts DEF NobodyWaitsInVain
  <1>8. ASSUME NEW h \in Handlers, RecordFails(h)
        PROVE  NobodyWaitsInVain'
    <2>1. /\ pc[h] = "record" /\ pc' = [pc EXCEPT ![h] = "over"] /\ call' = call
          /\ child[h].st = "exited" => child' = child
      BY <1>8 DEF RecordFails
    <2> QED
      <3>1. \A g \in Handlers \ {h} :
               /\ pc'[g] = pc[g] /\ child'[g].told = child[g].told
               /\ child'[g].st = child[g].st \/ child'[g].st = "dying"
        BY <1>0, <1>8, <2>1, RecordFailsFacts
      <3>2. child'[h].st # "blocked" \/ child'[h].told # "nothing"
        BY <1>8, <2>1, RecordFailsFacts
      <3> QED
        BY <2>1, <3>1, <3>2 DEF NobodyWaitsInVain
  <1>9. ASSUME NEW h \in Handlers, KillCgroup(h)
         PROVE  NobodyWaitsInVain'
    <2>1. pc' = [pc EXCEPT ![h] = "exited"] /\ call' = call /\ child' = Doomed(id[h])
      BY <1>9 DEF KillCgroup
    <2>2. \A g \in Handlers : /\ child'[g].told = child[g].told
                              /\ child'[g].st = child[g].st \/ child'[g].st = "dying"
      BY <2>1, DoomedFacts
    <2> QED
      BY <1>0, <2>1, <2>2 DEF NobodyWaitsInVain
  <1>10. ASSUME NEW h \in Handlers, ChildReady(h) \/ ChildFails(h)
         PROVE  NobodyWaitsInVain'
    <2>1. PICK s \in {"blocked", "exited"}, w \in {"WAIT", "EXIT"} : Says(h, s, w)
      BY <1>10 DEF ChildReady, ChildFails, Says
    <2>2. pc' = pc /\ call' = call /\ child[h].st = "setup"
      BY <1>10 DEF ChildReady, ChildFails
    <2>3. \A g \in Handlers : /\ child'[g].told = child[g].told
                              /\ g # h => child'[g].st = child[g].st
      BY <2>1, SayFacts
    <2>4. pc[h] \in {"ready", "killed"}
      BY <2>2 DEF ChildInv
    <2> QED
      BY <2>2, <2>3, <2>4 DEF NobodyWaitsInVain
  <1>11. ASSUME NEW h \in Handlers, ChildObeys(h) \/ ChildExits(h)
         PROVE  NobodyWaitsInVain'
    <2>1. PICK s \in {"running", "exited"} : child' = [child EXCEPT ![h].st = s]
      BY <1>11 DEF ChildObeys, ChildExits
    <2>2. pc' = pc /\ call' = call
      BY <1>11 DEF ChildObeys, ChildExits
    <2>3. \A g \in Handlers : /\ child'[g].told = child[g].told
                              /\ child'[g].st = IF g = h THEN s ELSE child[g].st
      BY <2>1, MoveFacts
    <2> QED
      BY <2>2, <2>3 DEF NobodyWaitsInVain
  <1>12. ASSUME DaemonDies
         PROVE  NobodyWaitsInVain'
    <2>1. /\ child' = child /\ call' = call
          /\ \A h \in Handlers : pc'[h] = pc[h] \/ pc'[h] = "killed"
      BY <1>0, <1>12 DEF DaemonDies
    <2> QED
      BY <2>1 DEF NobodyWaitsInVain
  <1>13. ASSUME UNCHANGED <<pc, call, child>>
         PROVE  NobodyWaitsInVain'
    BY <1>13 DEF NobodyWaitsInVain
  <1>14. ASSUME UNCHANGED vars \/ \E h \in Handlers : ClientLeaves(h) \/ Listen(h)
         PROVE  NobodyWaitsInVain'
    BY <1>13, <1>14 DEF ClientLeaves, Listen, vars
  <1> QED
    BY Cases, <1>1, <1>2, <1>3, <1>4, <1>5, <1>6, <1>7, <1>8, <1>9, <1>10, <1>11, <1>12,
       <1>14

-----------------------------------------------------------------------------
\* Where a handler can go from some steps, and come from to some.
Making == Preparing \cup {"register"}

LEMMA Moves ==
  ASSUME TypeOK, CallInv, [Next]_vars, NEW h \in Handlers
  PROVE  /\ pc[h] = "deregister" => pc'[h] \in {"deregister", "over", "killed"}
         /\ pc'[h] \in Making => pc[h] \in Making \/ MakeWorkspace(h) \/ LookUp(h)
         /\ pc[h] \in Supervising /\ Is(h, "start") =>
              pc'[h] \in Supervising \cup {"lost", "killed"} \/ RecordExited(h)
  <1> USE DEF os, given, Goto, End, Ended, Making, Preparing, Supervising, Is
  <1>0. pc \in [Handlers -> Steps]
    BY DEF TypeOK
  <1>1. ASSUME NEW g \in Handlers,
               \/ \E c \in Calls : Accept(g, c)
               \/ LookUp(g) \/ MakeWorkspace(g) \/ WorkspaceFails(g)
               \/ ClientLeaves(g) \/ ListContainers(g) \/ ShowLogs(g) \/ Commit(g)
        PROVE  /\ pc[h] \in Supervising \cup Making \cup {"deregister"} => pc'[h] = pc[h]
               /\ \/ pc'[h] \notin Making \/ pc[h] \in Making
                  \/ MakeWorkspace(h) \/ LookUp(h)
    BY <1>0, <1>1, StepsTyped DEF Accept, LookUp, MakeWorkspace, WorkspaceFails, ClientLeaves,
       ListContainers, ShowLogs, Commit
  <1>2. ASSUME NEW g \in Handlers,
               \/ Clone(g) \/ CloneFails(g)
               \/ ReadWait(g) \/ ReadExit(g) \/ JoinCgroup(g) \/ JoinFails(g)
               \/ Register(g) \/ RegisterFails(g) \/ UndoCgroup(g)
        PROVE  /\ pc[h] \in Supervising \cup {"deregister"} => pc'[h] = pc[h]
               /\ pc'[h] \notin Making \/ pc[h] \in Making
    BY <1>0, <1>2 DEF Clone, CloneFails, ReadWait, ReadExit, JoinCgroup, JoinFails, Register,
       RegisterFails, UndoCgroup
  <1>3. ASSUME NEW g \in Handlers,
               \/ RecordRunning(g) \/ RecordFails(g) \/ OpenLog(g) \/ OpenLogFails(g)
               \/ Continue(g) \/ Attach(g) \/ Listen(g) \/ CheckChild(g)
               \/ InputEnds(g) \/ Waitpid(g)
        PROVE  /\ pc[h] \in Supervising => pc'[h] \in Supervising \cup {"lost"}
               /\ pc[h] = "deregister" => pc'[h] = pc[h]
               /\ pc'[h] \notin Making \/ pc[h] \in Making
    BY <1>0, <1>3 DEF RecordRunning, RecordFails, OpenLog, OpenLogFails, Continue, Attach,
       Listen, CheckChild, InputEnds, Waitpid
  <1>4. ASSUME NEW g \in Handlers,
               KillCgroup(g) \/ KillFails(g) \/ RecordExited(g) \/ RecordExitedFails(g)
        PROVE  /\ pc[h] \in Supervising /\ Is(h, "start") =>
                    pc'[h] \in Supervising \cup {"lost"} \/ RecordExited(h)
               /\ pc[h] = "deregister" => pc'[h] = pc[h]
               /\ pc'[h] \notin Making \/ pc[h] \in Making
    BY <1>0, <1>4 DEF KillCgroup, KillFails, RecordExited, RecordExitedFails, Return
  <1>5. ASSUME NEW g \in Handlers,
               DeleteCgroup(g) \/ DeleteWorkspace(g) \/ Deregister(g)
        PROVE  /\ pc[h] \in Supervising => pc'[h] = pc[h]
               /\ pc[h] = "deregister" => pc'[h] \in {"deregister", "over"}
               /\ pc'[h] \notin Making \/ pc[h] \in Making
    BY <1>0, <1>5 DEF DeleteCgroup, DeleteWorkspace, Deregister
  <1>6. ASSUME NEW g \in Handlers,
               ChildReady(g) \/ ChildFails(g) \/ ChildObeys(g) \/ ChildExits(g)
        PROVE  pc'[h] = pc[h]
    BY <1>6 DEF ChildReady, ChildFails, ChildObeys, ChildExits
  <1>7. ASSUME DaemonDies \/ UNCHANGED vars
        PROVE  pc'[h] = pc[h] \/ pc'[h] = "killed"
    BY <1>0, <1>7 DEF DaemonDies, vars
  <1> QED
    BY Cases, <1>1, <1>2, <1>3, <1>4, <1>5, <1>6, <1>7

\* Only a handler that begins its work gets another request or another id.
LEMMA WorksOn ==
  ASSUME TypeOK, [Next]_vars, NEW h \in Handlers, pc[h] \notin {"new", "lookup", "workspace"}
  PROVE  call'[h] = call[h] /\ id'[h] = id[h]
  <1>1. /\ id \in [Handlers -> Ids \cup {NONE}] /\ call \in [Handlers -> Calls \cup {NoCall}]
    BY DEF TypeOK
  <1> QED
    BY <1>1, IdCases DEF Accept, LookUp, MakeWorkspace, WorkspaceFails, given

\* The steps that take a workspace away.
Undoes(h) ==
    /\ Is(h, "run") /\ pc[h] \in Making /\ pc'[h] \notin Making
    /\ workspaces' = workspaces \ {id[h]}
    /\ UNCHANGED reg

LEMMA WorkspaceCases ==
  ASSUME TypeOK, [Next]_vars
  PROVE  \/ workspaces \subseteq workspaces'
         \/ \E h \in Handlers : Undoes(h) \/ DeleteWorkspace(h)
  <1> USE DEF os, given, Goto, End
  <1>1. ASSUME NEW h \in Handlers,
               CloneFails(h) \/ ReadExit(h) \/ JoinFails(h) \/ RegisterFails(h)
        PROVE  workspaces' = workspaces \/ Undoes(h)
    <2>1. /\ UNCHANGED reg /\ UndoWorkspace(h)
          /\ pc[h] \in Making /\ pc'[h] \notin Making
      BY <1>1 DEF CloneFails, ReadExit, JoinFails, RegisterFails, Making, Preparing, TypeOK
    <2> QED
      BY <2>1 DEF UndoWorkspace, Undoes
  <1>2. ASSUME NEW h \in Handlers,
               \/ \E c \in Calls : Accept(h, c)
               \/ LookUp(h) \/ MakeWorkspace(h) \/ WorkspaceFails(h)
               \/ ClientLeaves(h) \/ ListContainers(h) \/ ShowLogs(h) \/ Commit(h)
               \/ Clone(h) \/ ReadWait(h) \/ JoinCgroup(h) \/ Register(h) \/ UndoCgroup(h)
        PROVE  workspaces \subseteq workspaces'
    BY <1>2 DEF Accept, LookUp, MakeWorkspace, WorkspaceFails, ClientLeaves, ListContainers,
       ShowLogs, Commit, Clone, ReadWait, JoinCgroup, Register, UndoCgroup
  <1>3. ASSUME NEW h \in Handlers,
               \/ RecordRunning(h) \/ RecordFails(h) \/ OpenLog(h) \/ OpenLogFails(h)
               \/ Continue(h) \/ Attach(h) \/ Listen(h) \/ CheckChild(h)
               \/ InputEnds(h) \/ Waitpid(h)
               \/ KillCgroup(h) \/ KillFails(h) \/ RecordExited(h) \/ RecordExitedFails(h)
               \/ DeleteCgroup(h) \/ Deregister(h)
               \/ ChildReady(h) \/ ChildFails(h) \/ ChildObeys(h) \/ ChildExits(h)
        PROVE  workspaces' = workspaces
    BY <1>3 DEF RecordRunning, RecordFails, OpenLog, OpenLogFails, Continue, Attach, Listen,
       CheckChild, InputEnds, Waitpid, KillCgroup, KillFails, RecordExited, RecordExitedFails,
       DeleteCgroup, Deregister, ChildReady, ChildFails, ChildObeys, ChildExits
  <1>4. ASSUME DaemonDies \/ UNCHANGED vars
        PROVE  workspaces' = workspaces
    BY <1>4 DEF DaemonDies, vars
  <1> QED
    BY Cases, <1>1, <1>2, <1>3, <1>4

\* A run has its workspace until it registers,
LEMMA WorkspaceInit == Init => WorkspaceInv /\ RecordHasWorkspace
  BY DEF Init, WorkspaceInv, RecordHasWorkspace, PresentIds, EmptyState, NoCall, Is, Preparing

LEMMA WorkspaceStep ==
  ASSUME TypeOK, CallInv, OwnerInv, WorkspaceInv, [Next]_vars
  PROVE  WorkspaceInv'
  <1> SUFFICES ASSUME NEW h \in Handlers, Is(h, "run")', pc'[h] \in Making
               PROVE  id'[h] \in workspaces'
    BY DEF WorkspaceInv, Making
  <1>1. CASE MakeWorkspace(h)
    BY <1>1 DEF MakeWorkspace, TypeOK
  <1>2. CASE ~MakeWorkspace(h)
    <2>1. ~LookUp(h)
      BY DEF LookUp, CallInv, Is, given
    <2>2. pc[h] \in Making
      BY <1>2, <2>1, Moves
    <2>3. Is(h, "run") /\ id'[h] = id[h] /\ id[h] \in Ids
      BY <2>2, WorksOn DEF Is, Making, Preparing, TypeOK, Ended
    <2>4. id[h] \in workspaces /\ id[h] # NONE
      BY <2>2, <2>3, NoneIsNoValue DEF WorkspaceInv, Making
    <2>5. ASSUME NEW g \in Handlers, Undoes(g), id[g] = id[h]
          PROVE  FALSE
      <3>1. g = h
        BY <2>3, <2>4, <2>5 DEF OwnerInv, Undoes
      <3> QED
        BY <2>5, <3>1 DEF Undoes
    <2>6. ASSUME NEW g \in Handlers, DeleteWorkspace(g), id[g] = id[h]
          PROVE  FALSE
      <3>1. ~Is(g, "run")
        BY <2>6 DEF DeleteWorkspace, CallInv, RmSteps, Is
      <3>2. PICK r \in Handlers : Registered(r) /\ id[r] = id[g]
        BY <2>4, <2>6, <3>1 DEF OwnerInv
      <3>3. r = h
        BY <2>3, <2>4, <2>6, <3>2 DEF OwnerInv, Registered
      <3> QED
        BY <2>2, <3>2, <3>3 DEF Registered, Making, Preparing
    <2>7. ASSUME NEW g \in Handlers, Undoes(g) \/ DeleteWorkspace(g), id[g] # id[h]
          PROVE  id[h] \in workspaces'
      BY <2>4, <2>7 DEF Undoes, DeleteWorkspace
    <2> QED
      BY <2>3, <2>4, <2>5, <2>6, <2>7, WorkspaceCases
  <1> QED
    BY <1>1, <1>2

\* and a record has its own until an rm has removed it.
LEMMA RecordStep ==
  ASSUME TypeOK, CallInv, OwnerInv, WorkspaceInv, RecordHasWorkspace, [Next]_vars
  PROVE  RecordHasWorkspace'
  <1> DEFINE Removed(i) == \E h \in Handlers : /\ id[h] = i /\ Is(h, "rm")
                                               /\ pc[h] \in {"deregister", "over", "killed"}
  <1> SUFFICES ASSUME NEW i \in PresentIds(reg'), i \notin workspaces'
               PROVE  Removed(i)'
    BY DEF RecordHasWorkspace
  <1>0. i \in Ids /\ i # NONE /\ reg'.by_id[i] # NONE
    BY NoneIsNoValue DEF PresentIds
  <1>1. CASE Removed(i)
    <2>1. PICK h \in Handlers : /\ id[h] = i /\ Is(h, "rm")
                                /\ pc[h] \in {"deregister", "over", "killed"}
      BY <1>1
    <2>2. /\ id'[h] = id[h] /\ call'[h] = call[h]
          /\ pc'[h] \in {"deregister", "over", "killed"}
      BY <2>1, WorksOn, Moves, LostStays DEF Ended
    <2> QED
      BY <2>1, <2>2 DEF Is
  <1>2. CASE reg.by_id[i] = NONE
    <2>1. PICK h \in Handlers : Register(h)
      BY <1>0, <1>2, RegCases, ApplyOpAddsNothing DEF Touching, NewId, TypeOK
    <2>2. i = id[h] /\ workspaces' = workspaces
      BY <1>0, <1>2, <2>1, RegisterFacts DEF Register, os
    <2>3. i \in workspaces
      BY <2>1, <2>2, RegisterFacts DEF WorkspaceInv
    <2> QED
      BY <2>2, <2>3
  <1>3. CASE reg.by_id[i] # NONE /\ i \in workspaces
    <2>1. PICK g \in Handlers : Undoes(g) \/ DeleteWorkspace(g)
      BY <1>3, WorkspaceCases
    <2>2. id[g] = i
      BY <1>3, <2>1 DEF Undoes, DeleteWorkspace
    <2>3. CASE Undoes(g)
      <3>1. PICK r \in Handlers : Registered(r) /\ id[r] = i
        BY <1>0, <1>3 DEF OwnerInv, PresentIds
      <3>2. r = g
        BY <1>0, <2>2, <2>3, <3>1 DEF OwnerInv, Registered, Undoes
      <3> QED
        BY <2>3, <3>1, <3>2 DEF Registered, Undoes, Making, Preparing
    <2>4. CASE DeleteWorkspace(g)
      <3>1. Is(g, "rm") /\ pc'[g] = "deregister" /\ id'[g] = i /\ call'[g] = call[g]
        BY <2>2, <2>4 DEF DeleteWorkspace, CallInv, RmSteps, Is, Goto, given, TypeOK
      <3> QED
        BY <3>1 DEF Is
    <2> QED
      BY <2>1, <2>3, <2>4
  <1> QED
    BY <1>0, <1>1, <1>2, <1>3 DEF RecordHasWorkspace, PresentIds

-----------------------------------------------------------------------------
\* What setting a status does to the statuses.
LEMMA SetStatusFacts ==
  ASSUME TypeOK, CallInv, NEW h \in Handlers, id[h] \in Ids,
         NEW s \in {"Running", "Exited"}, reg' = SetStatus(id[h], s)
  PROVE  /\ \A i \in Ids \ {id[h]} : reg'.by_id[i] = reg.by_id[i]
         /\ reg'.by_id[id[h]] # NONE => reg'.by_id[id[h]].state.status = s
  <1> DEFINE op == [kind |-> "UpdateStatus", id |-> id[h], status |-> s]
  <1>1. /\ op \in BasicOps /\ op.kind = "UpdateStatus" /\ op.id = id[h] /\ op.status = s
        /\ reg \in InnerStates
    BY OpsTyped DEF TypeOK
  <1>2. reg' = ApplyOp(reg, op)
    BY DEF SetStatus
  <1> HIDE DEF op
  <1>3. CASE reg.by_id[op.id] = NONE
    BY <1>1, <1>2, <1>3, NoEntries
  <1>4. CASE reg.by_id[op.id] # NONE
    <2>1. reg.by_id[op.id] \in Metas
      BY <1>1, <1>4 DEF InnerStates
    <2>2. Touched(reg.by_id[op.id], op).state.status = s
      BY <1>1, <2>1 DEF Touched, Metas, States
    <2> QED
      BY <1>1, <1>2, <1>4, <2>2, TouchEntries
  <1> QED
    BY <1>3, <1>4

\* A container starts running when a start records it.
LEMMA RunningCases ==
  ASSUME TypeOK, CallInv, [Next]_vars, NEW i \in Ids, Running(i)'
  PROVE  \/ \E h \in Handlers : RecordRunning(h) /\ id[h] = i
         \/ Running(i) /\ \A h \in Handlers : RecordExited(h) => id[h] # i
  <1> USE DEF os, given
  <1>0. reg'.by_id[i] # NONE /\ reg'.by_id[i].state.status = "Running"
    BY DEF Running, StatusOf
  <1>1. ASSUME NEW h \in Handlers, RecordRunning(h), id[h] # i
        PROVE  reg'.by_id[i] = reg.by_id[i]
    <2>1. id[h] \in Ids /\ reg' = SetStatus(id[h], "Running")
      BY <1>1 DEF RecordRunning, TypeOK, Ended
    <2> QED
      BY <1>1, <2>1, SetStatusFacts
  <1>2. ASSUME NEW h \in Handlers, RecordExited(h)
        PROVE  reg'.by_id[i] = reg.by_id[i] /\ id[h] # i
    <2>1. id[h] \in Ids /\ reg' = SetStatus(id[h], "Exited")
      BY <1>2 DEF RecordExited, TypeOK, Ended
    <2> QED
      BY <1>0, <2>1, SetStatusFacts
  <1>3. ASSUME NEW h \in Handlers, Register(h)
        PROVE  reg'.by_id[i] = reg.by_id[i]
    BY <1>0, <1>3, RegisterFacts
  <1>4. ASSUME NEW h \in Handlers, Deregister(h)
        PROVE  reg'.by_id[i] = reg.by_id[i]
    <2> DEFINE op == [kind |-> "Delete", id |-> id[h]]
    <2>1. id[h] \in Ids /\ (reg' = reg \/ reg' = ApplyOp(reg, op))
      BY <1>4 DEF Deregister, TypeOK, Ended
    <2>2. op \in BasicOps /\ op.kind = "Delete" /\ op.id = id[h] /\ reg \in InnerStates
      BY <2>1, OpsTyped DEF TypeOK
    <2> HIDE DEF op
    <2> QED
      BY <1>0, <2>1, <2>2, DeleteEntries, NoEntries
  <1>5. reg'.by_id[i] = reg.by_id[i] => Running(i)
    BY <1>0 DEF Running, StatusOf
  <1> QED
    BY <1>1, <1>2, <1>3, <1>4, <1>5, RegSteps

\* A session that resets the record, or one that was lost: there is one for
\* every record that says Running.
LEMMA SupervisedInit == Init => RunningIsSupervised
  BY DEF Init, RunningIsSupervised, Running, StatusOf, EmptyState

LEMMA SupervisedStep ==
  ASSUME TypeOK, CallInv, RunningIsSupervised, [Next]_vars
  PROVE  RunningIsSupervised'
  <1> SUFFICES ASSUME NEW i \in Ids, Running(i)'
               PROVE  \E h \in Handlers :
                         /\ id'[h] = i /\ Is(h, "start")'
                         /\ pc'[h] \in Supervising \cup {"lost", "killed"}
    BY DEF RunningIsSupervised, Abandoned
  <1>1. ASSUME NEW h \in Handlers, RecordRunning(h), id[h] = i
        PROVE  id'[h] = i /\ Is(h, "start")' /\ pc'[h] = "log"
    BY <1>1 DEF RecordRunning, Goto, given, Is, TypeOK, CallInv, InSession
  <1>2. ASSUME Running(i), \A h \in Handlers : RecordExited(h) => id[h] # i
        PROVE  \E h \in Handlers :
                  /\ id'[h] = i /\ Is(h, "start")'
                  /\ pc'[h] \in Supervising \cup {"lost", "killed"}
    <2>1. PICK h \in Handlers : /\ id[h] = i /\ Is(h, "start")
                               /\ pc[h] \in Supervising \cup {"lost", "killed"}
      BY <1>2 DEF RunningIsSupervised, Abandoned
    <2>2. pc'[h] \in Supervising \cup {"lost", "killed"}
      BY <1>2, <2>1, Moves, LostStays DEF Ended
    <2>3. id'[h] = i /\ call'[h] = call[h]
      BY <2>1, WorksOn DEF Supervising
    <2> QED
      BY <2>1, <2>2, <2>3 DEF Is
  <1> QED
    BY <1>1, <1>2, RunningCases DEF Supervising

\* A name is taken over by another run, or leads to its container.
LEMMA NameInit == Init => ReachableByName
  BY DEF Init, ReachableByName, PresentIds, EmptyState

LEMMA NameStep ==
  ASSUME TypeOK, CallInv, OwnerInv, ReachableByName, [Next]_vars
  PROVE  ReachableByName'
  <1> DEFINE Taken(i, n) ==
        \E h \in Handlers : /\ Is(h, "run") /\ pc[h] = "lost"
                            /\ id[h] # i /\ call[h].name = n
  <1>0. /\ reg \in InnerStates
        /\ \A i \in Ids : reg.by_id[i] # NONE => reg.by_id[i].name \in Names
    BY DEF TypeOK, InnerStates, Metas
  <1>t. reg' \in InnerStates
    BY TypeStep DEF TypeOK
  <1> SUFFICES ASSUME NEW i \in Ids, reg'.by_id[i] # NONE,
                      NEW n \in Names, n = reg'.by_id[i].name
               PROVE  reg'.by_name[n] = i \/ Taken(i, n)'
    BY <1>t DEF ReachableByName, PresentIds, InnerStates, Metas
  <1>1. Taken(i, n) => Taken(i, n)'
    <2>1. ASSUME NEW h \in Handlers, Registered(h), id[h] # i, call[h].name = n
          PROVE  Taken(i, n)'
      BY <2>1, RegisteredStays DEF Registered
    <2> QED
      BY <2>1 DEF Registered
  <1>3. reg.by_id[i] # NONE /\ reg.by_id[i].name = n => reg.by_name[n] = i \/ Taken(i, n)
    BY DEF ReachableByName, PresentIds
  <1> HIDE DEF Taken
  <1>4. ASSUME NEW h \in Handlers, Register(h)
        PROVE  reg'.by_name[n] = i \/ Taken(i, n)'
    <2>1. CASE i = id[h]
      BY <1>4, <2>1, RegisterFacts
    <2>2. CASE i # id[h]
      <3>1. reg'.by_id[i] = reg.by_id[i]
        BY <1>4, <2>2, RegisterFacts
      <3>2. CASE n = call[h].name
        BY <1>4, <2>2, <3>2, RegisterFacts DEF Taken, Registered
      <3>3. CASE n # call[h].name
        <4>1. reg'.by_name[n] = reg.by_name[n]
          BY <1>4, <3>3, RegisterFacts
        <4> QED
          BY <1>1, <1>3, <3>1, <4>1
      <3> QED
        BY <3>2, <3>3
    <2> QED
      BY <2>1, <2>2
  <1>5. ASSUME NEW op \in BasicOps, Touching(op)
        PROVE  reg'.by_name[n] = i \/ Taken(i, n)'
    <2>0. op.kind \in {"Delete", "UpdateStatus"} /\ reg' = ApplyOp(reg, op) /\ op.id \in Ids
      BY <1>5, BasicCases DEF Touching
    <2>1. CASE reg.by_id[op.id] = NONE
      <3>1. reg' = reg
        BY <1>0, <2>0, <2>1, NoEntries
      <3> QED
        BY <1>1, <1>3, <3>1
    <2>2. CASE reg.by_id[op.id] # NONE /\ op.kind = "UpdateStatus"
      <3>1. reg.by_id[i] # NONE /\ reg.by_id[i].name = n /\ reg'.by_name = reg.by_name
        BY <1>0, <2>0, <2>2, TouchEntries
      <3> QED
        BY <1>1, <1>3, <3>1
    <2>3. CASE reg.by_id[op.id] # NONE /\ op.kind = "Delete"
      <3>1. /\ i # op.id /\ reg.by_id[i] # NONE /\ reg.by_id[i].name = n
            /\ n # reg.by_id[op.id].name => reg'.by_name[n] = reg.by_name[n]
        BY <1>0, <2>0, <2>3, DeleteEntries
      <3>2. CASE n = reg.by_id[op.id].name
        <4>1. PICK r \in Handlers : /\ Registered(r) /\ id[r] = op.id
                                   /\ call[r].name = reg.by_id[op.id].name
          BY <2>0, <2>3 DEF OwnerInv, PresentIds
        <4>2. Taken(i, n)
          BY <3>1, <3>2, <4>1 DEF Taken, Registered
        <4> QED
          BY <1>1, <4>2
      <3>3. CASE n # reg.by_id[op.id].name
        BY <1>1, <1>3, <3>1, <3>3
      <3> QED
        BY <3>2, <3>3
    <2> QED
      BY <2>0, <2>1, <2>2, <2>3
  <1>6. ASSUME UNCHANGED reg
        PROVE  reg'.by_name[n] = i \/ Taken(i, n)'
    BY <1>1, <1>3, <1>6
  <1> QED
    BY <1>4, <1>5, <1>6, RegCases

-----------------------------------------------------------------------------
\* What all the theorems come from.  Its parts need each other: the workspace of
\* a run is safe from others because ids have owners, and a word is sent in time
\* because of the step a handler is at.
THEOREM LifeInvariant == Spec => [](TypeOK /\ LifeInv)
  <1>1. Init => TypeOK /\ LifeInv
    <2>1. Init => CallInv
      BY DEF Init, CallInv, RunSteps, Preparing, InSession, StopSteps, RmSteps
    <2> QED
      BY <2>1, TypeInit, OwnerInit, ChildInit, CgroupInit, WorkspaceInit, WaitInit,
         SupervisedInit, NameInit DEF LifeInv
  <1>2. TypeOK /\ LifeInv /\ [Next]_vars => (TypeOK /\ LifeInv)'
    BY TypeStep, CallStep, OwnerStep, ChildStep, CgroupStep, WorkspaceStep, RecordStep, WaitStep,
       SupervisedStep, NameStep DEF LifeInv
  <1> QED
    BY <1>1, <1>2, PTL DEF Spec

\* Every variable of the daemon, its handlers and their processes keeps its type:
\* among others, no handler works on a container it did not find (the ? after
\* get_meta_by_name).
THEOREM LifeTypes == Spec => []TypeOK
  BY LifeInvariant, PTL

\* A process that executes a command is a member of a cgroup that exists, so that
\* cg.kill reaches it (setup_cgroup, load_cgroup, cg.delete).
THEOREM RunningProcessesCanBeKilled == Spec => []RunningIsInCgroup
  <1>1. TypeOK /\ LifeInv => RunningIsInCgroup
    BY DEF LifeInv, ChildInv, CgroupInv, RunningIsInCgroup, Alive
  <1> QED
    BY <1>1, LifeInvariant, PTL

\* A record that says Running has a session that will reset it, or one that was
\* left by a return or an unwrap of do_run or died with the daemon.
THEOREM RunningRecordsAreSupervised == Spec => []RunningIsSupervised
  BY LifeInvariant, PTL DEF LifeInv

\* A record lacks its workspace only when an rm got that far (remove_container).
THEOREM RecordsHaveWorkspaces == Spec => []RecordHasWorkspace
  BY LifeInvariant, PTL DEF LifeInv

\* A handler that ends leaves no process waiting for CONT or EXIT.
THEOREM NoProcessIsForgotten == Spec => []NobodyWaitsInVain
  BY LifeInvariant, PTL DEF LifeInv

\* A registered container is found by its name, unless another run took the name.
THEOREM NamesLeadToContainers == Spec => []ReachableByName
  BY LifeInvariant, PTL DEF LifeInv
=============================================================================
