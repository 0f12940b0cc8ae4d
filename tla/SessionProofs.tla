--------------------------- MODULE SessionProofs ---------------------------
(***************************************************************************)
(* Theorems about a session, for buffers of every size and any number of   *)
(* bytes and failures: no byte of the output is lost, doubled or out of    *)
(* order on its way to the client or the log.                              *)
(***************************************************************************)
EXTENDS Session, SequenceTheorems, TLAPS

\* The bytes of s are the ones after the first n.
Line(s, n) == \A k \in 1 .. Len(s) : s[k] = n + k

\* What a cell of the log may hold.
LogCells == Nat \cup {HOLE, FOREIGN}

\* The buffers hold bytes; the report and holes are only at the two ends.
SeqInv ==
    /\ pty \in Seq(Nat) /\ rest \in Seq(Nat) /\ pipe \in Seq(Nat) /\ chunk \in Seq(Nat)
    /\ sock \in Seq(Nat \cup {REPORT}) /\ shown \in Seq(Nat \cup {REPORT})
    /\ log \in Seq(LogCells)

\* What has left the copying task, and whether anybody still takes it.
Written == IF Attached THEN Len(shown) + Len(sock) ELSE offset

Delivers == copier # "gone" /\ (Attached => client = "here")

\* do_run goes on when it has aborted the copying task, and reports when the
\* writer's lock is free.
AbortInv ==
    /\ Attached /\ main # "wait" => copier \in {"aborting", "gone"}
    /\ main = "shutdown" => copier = "gone"
    /\ ~Attached => main \notin {"report", "shutdown"}

\* The bytes in the buffers follow each other and those that were written.
Flow ==
    /\ Line(chunk, Written)
    /\ Line(pipe, Written + Len(chunk))
    /\ Line(rest, Written + Len(chunk) + Len(pipe))
    /\ Written + Len(chunk) + Len(pipe) + Len(rest) + Len(pty) <= produced
    /\ reader # "gone" =>
          Written + Len(chunk) + Len(pipe) + Len(rest) + Len(pty) = produced

FlowInv ==
    /\ Line(pty, produced - Len(pty)) /\ Len(pty) <= produced
    /\ reader = "gone" => rest = <<>>
    /\ Delivers => Flow

\* What was sent is a beginning of the output, and perhaps the report after it.
Sent == shown \o sock

Begins == Line(Sent, 0) /\ Len(Sent) <= produced

Reported ==
    /\ copier = "gone" /\ main \notin {"wait", "report"} /\ Len(Sent) >= 1
    /\ \A k \in 1 .. Len(Sent) - 1 : Sent[k] = k
    /\ Sent[Len(Sent)] = REPORT /\ Len(Sent) <= produced + 1

SentInv == Begins \/ Reported

\* The write on its way goes to the place of its byte, which is the end of the log
\* unless another session did something to it.
LogInv ==
    /\ LogKeepsPlaces
    /\ offset \in Nat /\ offset <= produced /\ Len(log) <= MaxOutput
    /\ foreign \in 0 .. MaxForeign
    /\ landing # <<>> => landing = <<offset, offset>> /\ offset >= 1 /\ ~broken
    /\ ~disturbed => /\ landing # <<>> => Len(log) = offset - 1
                     /\ landing = <<>> /\ ~broken => Len(log) = offset
                     /\ Len(log) <= offset

StreamInv == SeqInv /\ AbortInv /\ FlowInv /\ SentInv /\ LogInv

-----------------------------------------------------------------------------
(* Sequences of consecutive bytes.                                         *)

LEMMA NoneFacts ==
    ASSUME NEW S, NEW s \in Seq(S)
    PROVE  /\ Len(s) \in Nat /\ (s = <<>> <=> Len(s) = 0)
           /\ <<>> \in Seq(S) /\ Len(<<>>) = 0
           /\ \A k \in 1 .. Len(s) : s[k] \in S
BY SMT

LEMMA WiderSeq ==
    ASSUME NEW S, NEW T, S \subseteq T, NEW s \in Seq(S)
    PROVE  s \in Seq(T)
<1>1. Len(s) \in Nat /\ \A k \in 1 .. Len(s) : s[k] \in T
  BY NoneFacts
<1>2. s = [k \in 1 .. Len(s) |-> s[k]]
  BY <1>1
<1> QED BY <1>1, <1>2

LEMMA NoLine == ASSUME NEW n PROVE Line(<<>>, n)
BY DEF Line

LEMMA LineAppend ==
    ASSUME NEW s \in Seq(Nat), NEW n \in Int, Line(s, n),
           NEW e \in Nat, e = n + Len(s) + 1
    PROVE  /\ Append(s, e) \in Seq(Nat) /\ Len(Append(s, e)) = Len(s) + 1
           /\ Line(Append(s, e), n)
BY DEF Line

LEMMA LineTail ==
    ASSUME NEW s \in Seq(Nat), s # <<>>, NEW n \in Int, Line(s, n)
    PROVE  /\ Tail(s) \in Seq(Nat) /\ Len(Tail(s)) = Len(s) - 1
           /\ Line(Tail(s), n + 1)
           /\ <<Head(s)>> \in Seq(Nat) /\ Len(<<Head(s)>>) = 1
           /\ Line(<<Head(s)>>, n)
<1>1. /\ Len(s) \in Nat \ {0} /\ Head(s) = s[1] /\ s[1] \in Nat
  BY NoneFacts
<1>2. /\ Tail(s) \in Seq(Nat) /\ Len(Tail(s)) = Len(s) - 1
      /\ \A k \in 1 .. Len(s) - 1 : Tail(s)[k] = s[k + 1]
  BY <1>1
<1>3. Line(Tail(s), n + 1)
  BY <1>1, <1>2 DEF Line
<1>4. Line(<<Head(s)>>, n)
  BY <1>1 DEF Line
<1> QED BY <1>1, <1>2, <1>3, <1>4

LEMMA ConcatFacts ==
    ASSUME NEW S, NEW s \in Seq(S), NEW t \in Seq(S)
    PROVE  /\ s \o t \in Seq(S) /\ Len(s \o t) = Len(s) + Len(t)
           /\ \A k \in 1 .. Len(s) : (s \o t)[k] = s[k]
           /\ \A k \in 1 .. Len(t) : (s \o t)[Len(s) + k] = t[k]
BY ConcatProperties, NoneFacts

LEMMA LineConcat ==
    ASSUME NEW S, NEW s \in Seq(S), NEW t \in Seq(S), NEW n \in Int,
           Line(s, n), Line(t, n + Len(s))
    PROVE  /\ s \o t \in Seq(S) /\ Len(s \o t) = Len(s) + Len(t)
           /\ Line(s \o t, n)
<1> DEFINE st == s \o t
<1>1. /\ st \in Seq(S) /\ Len(st) = Len(s) + Len(t)
      /\ \A k \in 1 .. Len(s) : st[k] = s[k]
      /\ \A k \in 1 .. Len(t) : st[Len(s) + k] = t[k]
      /\ Len(s) \in Nat /\ Len(t) \in Nat
  BY ConcatFacts, NoneFacts
<1> HIDE DEF st
<1>2. ASSUME NEW k \in 1 .. Len(st) PROVE st[k] = n + k
  <2>1. CASE k <= Len(s)
    BY <1>1, <2>1 DEF Line
  <2>2. CASE k > Len(s)
    <3>1. k - Len(s) \in 1 .. Len(t) /\ k = Len(s) + (k - Len(s))
      BY <1>1, <2>2
    <3>2. st[k] = t[k - Len(s)] /\ t[k - Len(s)] = n + Len(s) + (k - Len(s))
      BY <1>1, <3>1 DEF Line
    <3> QED BY <1>1, <3>2
  <2> QED BY <1>1, <2>1, <2>2
<1>3. Line(st, n)
  BY <1>2 DEF Line
<1> QED BY <1>1, <1>3 DEF st

LEMMA LineGrows ==
    ASSUME NEW S, NEW s \in Seq(S), NEW t \in Seq(S), Line(s, 0), Line(t, Len(s))
    PROVE  /\ s \o t \in Seq(S) /\ Len(s \o t) = Len(s) + Len(t)
           /\ Line(s \o t, 0)
<1>1. 0 \in Int /\ 0 + Len(s) = Len(s)
  BY NoneFacts
<1>2. Line(t, 0 + Len(s))
  BY <1>1
<1> QED BY <1>1, <1>2, LineConcat

LEMMA LineIsBytes ==
    ASSUME NEW S, NEW s \in Seq(S), Line(s, 0)
    PROVE  s = Bytes(Len(s))
<1>1. Len(s) \in Nat /\ \A k \in 1 .. Len(s) : s[k] = k
  BY NoneFacts DEF Line
<1>2. s = [k \in 1 .. Len(s) |-> s[k]]
  BY <1>1
<1> QED BY <1>1, <1>2 DEF Bytes

LEMMA ShowMovesOne ==
    ASSUME NEW S, NEW s \in Seq(S), NEW t \in Seq(S), t # <<>>
    PROVE  /\ Append(s, Head(t)) \in Seq(S) /\ Tail(t) \in Seq(S)
           /\ Len(Append(s, Head(t))) = Len(s) + 1 /\ Len(Tail(t)) = Len(t) - 1
           /\ Append(s, Head(t)) \o Tail(t) = s \o t
<1>1. /\ Head(t) \in S /\ <<Head(t)>> \in Seq(S) /\ Tail(t) \in Seq(S)
      /\ Len(Tail(t)) = Len(t) - 1
  BY HeadTailProperties
<1>2. /\ Append(s, Head(t)) = s \o <<Head(t)>>
      /\ Append(s, Head(t)) \in Seq(S) /\ Len(Append(s, Head(t))) = Len(s) + 1
  BY <1>1, AppendProperties, AppendIsConcat
<1>3. (s \o <<Head(t)>>) \o Tail(t) = s \o (<<Head(t)>> \o Tail(t))
  BY <1>1, ConcatAssociative
<1>4. <<Head(t)>> \o Tail(t) = t
  <2> DEFINE h == <<Head(t)>>
  <2>1. /\ h \in Seq(S) /\ Len(h) = 1 /\ h[1] = t[1]
        /\ Len(t) \in Nat \ {0} /\ \A k \in 1 .. Len(Tail(t)) : Tail(t)[k] = t[k + 1]
    BY <1>1, HeadTailProperties, NoneFacts
  <2> HIDE DEF h
  <2> DEFINE tl == Tail(t)
  <2>a. /\ tl \in Seq(S) /\ Len(tl) = Len(t) - 1
        /\ \A k \in 1 .. Len(tl) : tl[k] = t[k + 1]
    BY <1>1, <2>1
  <2> HIDE DEF tl
  <2> DEFINE u == h \o tl
  <2>2. /\ u \in Seq(S) /\ Len(u) = 1 + Len(tl)
        /\ u[1] = h[1]
        /\ \A k \in 1 .. Len(tl) : u[1 + k] = tl[k]
    <3>0. h \in Seq(S) /\ tl \in Seq(S)
      BY <2>1, <2>a
    <3>1. /\ u \in Seq(S) /\ Len(u) = Len(h) + Len(tl)
          /\ \A k \in 1 .. Len(h) : u[k] = h[k]
          /\ \A k \in 1 .. Len(tl) : u[Len(h) + k] = tl[k]
      BY <3>0, ConcatFacts
    <3> HIDE DEF u
    <3> QED BY <2>1, <3>1
  <2> HIDE DEF u
  <2>3. ASSUME NEW k \in 1 .. Len(u) PROVE u[k] = t[k]
    <3>1. CASE k = 1
      BY <2>1, <2>2, <3>1
    <3>2. CASE k # 1
      <4>1. PICK j \in 1 .. Len(tl) : k = 1 + j
        BY <2>a, <2>1, <2>2, <3>2
      <4>2. u[1 + j] = tl[j] /\ tl[j] = t[j + 1] /\ 1 + j = j + 1
        BY <2>a, <2>2
      <4> QED BY <4>1, <4>2
    <3> QED BY <3>1, <3>2
  <2>4. Len(u) = Len(t)
    BY <2>a, <2>1, <2>2
  <2>5. u = t
    BY <2>2, <2>3, <2>4, SeqEqual
  <2> QED BY <2>5 DEF u, h, tl
<1> QED BY <1>1, <1>2, <1>3, <1>4

-----------------------------------------------------------------------------
(* The invariant, a part at a time.                                        *)

Inv == TypeOK /\ StreamInv

LEMMA InitHolds == ASSUME SessionAssumption, Init PROVE Inv
<1> USE DEF Init, Attached
<1>1. TypeOK
  <2>1. /\ mode \in Modes /\ main = "wait" /\ command = "running" /\ produced \in 0 .. MaxOutput
        /\ reader = "on" /\ copier = "new" /\ inherited = FALSE
        /\ input \in {"on", "gone"} /\ watch \in {"off", "on", "woken", "gone", "failed"}
        /\ shut = FALSE /\ client \in {"here", "done", "gone"} /\ stdin = "open"
        /\ threads \in ClientThreads /\ offset \in 0 .. MaxOutput
        /\ landing = <<>> /\ disturbed = FALSE /\ broken = FALSE /\ faults \in 0 .. MaxFaults
        /\ foreign \in 0 .. MaxForeign
    BY DEF SessionAssumption
  <2>2. /\ Len(pty) <= PtyCap /\ Len(rest) <= PtyCap /\ Len(pipe) <= 1 /\ Len(chunk) <= 1
        /\ Len(sock) <= SockCap /\ Len(log) <= MaxOutput
    BY DEF SessionAssumption
  <2> QED BY <2>1, <2>2 DEF TypeOK
<1>2. SeqInv /\ AbortInv
  BY DEF SeqInv, AbortInv
<1>3. FlowInv
  BY NoLine DEF FlowInv, Flow, Written, Delivers
<1>4. <<>> \o <<>> = <<>>
  OBVIOUS
<1>5. SentInv
  BY <1>4, NoLine DEF SentInv, Begins, Sent
<1>6. LogInv
  BY DEF LogInv, LogKeepsPlaces, SessionAssumption
<1> QED BY <1>1, <1>2, <1>3, <1>5, <1>6 DEF Inv, StreamInv

\* Lengths are numbers, and the buffers that hold nothing are the ones without bytes.
Lengths ==
    /\ Len(pty) \in Nat /\ (pty = <<>> <=> Len(pty) = 0)
    /\ Len(rest) \in Nat /\ (rest = <<>> <=> Len(rest) = 0)
    /\ Len(pipe) \in Nat /\ (pipe = <<>> <=> Len(pipe) = 0)
    /\ Len(chunk) \in Nat /\ (chunk = <<>> <=> Len(chunk) = 0)
    /\ Len(sock) \in Nat /\ (sock = <<>> <=> Len(sock) = 0)
    /\ Len(shown) \in Nat /\ (shown = <<>> <=> Len(shown) = 0)
    /\ Len(log) \in Nat
    /\ produced \in Nat /\ offset \in Nat /\ PtyCap \in Nat \ {0} /\ SockCap \in Nat \ {0}
    /\ MaxOutput \in Nat /\ produced <= MaxOutput

LEMMA LengthFacts == ASSUME SessionAssumption, Inv PROVE Lengths
<1>1. SeqInv /\ produced \in Nat /\ offset \in Nat /\ produced <= MaxOutput
  BY DEF Inv, TypeOK, StreamInv, SessionAssumption
<1>2. /\ Len(pty) \in Nat /\ (pty = <<>> <=> Len(pty) = 0)
      /\ Len(rest) \in Nat /\ (rest = <<>> <=> Len(rest) = 0)
      /\ Len(pipe) \in Nat /\ (pipe = <<>> <=> Len(pipe) = 0)
      /\ Len(chunk) \in Nat /\ (chunk = <<>> <=> Len(chunk) = 0)
  BY <1>1, NoneFacts DEF SeqInv
<1>3. /\ Len(sock) \in Nat /\ (sock = <<>> <=> Len(sock) = 0)
      /\ Len(shown) \in Nat /\ (shown = <<>> <=> Len(shown) = 0)
      /\ Len(log) \in Nat
  BY <1>1, NoneFacts DEF SeqInv
<1> QED BY <1>1, <1>2, <1>3 DEF Lengths, SessionAssumption

LEMMA AbortStep ==
    ASSUME Inv, [Next]_vars
    PROVE  AbortInv'
<1> USE DEF Attached, Abort
<1>1. AbortInv
  BY DEF Inv, StreamInv
<1>2. CASE UNCHANGED vars
  BY <1>1, <1>2 DEF vars, AbortInv, copying
<1>3. CASE ClientWins \/ ExitWins \/ Report \/ ReportPanics \/ ReportDropped \/ ShutDown
           \/ Waitpid \/ Stop
  BY <1>1, <1>3 DEF AbortInv, ClientWins, ExitWins, Report, ReportPanics, ReportDropped, ShutDown,
                    Waitpid, Stop, copying
<1>4. CASE StartCopy \/ CopyRead \/ CopyToClient \/ CopyToLog \/ CopyEnds
  BY <1>1, <1>4 DEF AbortInv, StartCopy, CopyRead, CopyToClient, CopyToLog, CopyEnds
<1>5. CASE ReadPty \/ Push \/ ReaderEnds
  BY <1>1, <1>5 DEF AbortInv, ReadPty, Push, ReaderEnds
<1>6. CASE \/ Output \/ CommandExits \/ OtherChildExits \/ OtherStarts \/ OtherEnds
           \/ InputEnds \/ InputPanics \/ Listen \/ Check \/ CheckFails
  BY <1>1, <1>6 DEF AbortInv, Output, CommandExits, OtherChildExits, OtherStarts, OtherEnds,
                    InputEnds, InputPanics, Listen, Check, CheckFails, copying
<1>7. CASE \/ Show \/ ClientEnds \/ ClientDies \/ CloseStdin
           \/ Land \/ LandFails \/ Truncate \/ OtherWrites
  BY <1>1, <1>7 DEF AbortInv, Show, ClientEnds, ClientDies, CloseStdin, Land, LandFails,
                    Truncate, OtherWrites, copying
<1> QED BY <1>2, <1>3, <1>4, <1>5, <1>6, <1>7
        DEF Next, ReaderTask, CopierTask, WatchTask, DoRun, ClientTask, FileThread

\* The steps that move no byte.
Quiet ==
    \/ CommandExits \/ OtherChildExits \/ OtherStarts \/ OtherEnds
    \/ InputEnds \/ InputPanics \/ Listen \/ Check \/ CheckFails
    \/ ClientWins \/ ExitWins \/ ReportPanics \/ ReportDropped \/ ShutDown \/ Waitpid \/ Stop
    \/ StartCopy \/ CloseStdin \/ UNCHANGED vars

bytes == <<mode, produced, pty, rest, pipe, chunk, sock, shown, client, log, offset, landing,
           foreign, disturbed, broken>>

LEMMA QuietFacts ==
    ASSUME Inv, Quiet
    PROVE  /\ UNCHANGED bytes
           /\ reader' = "gone" <=> reader = "gone"
           /\ copier = "gone" => copier' = "gone"
           /\ main \notin {"wait", "report"} => main' \notin {"wait", "report"}
<1> USE DEF bytes, world, copying, watching, remote, file
<1>1. CASE CommandExits \/ OtherChildExits \/ OtherStarts \/ OtherEnds
  BY <1>1 DEF CommandExits, OtherChildExits, OtherStarts, OtherEnds
<1>2. CASE InputEnds \/ InputPanics \/ Listen \/ Check \/ CheckFails
  BY <1>2 DEF InputEnds, InputPanics, Listen, Check, CheckFails
<1>3. CASE ClientWins \/ ExitWins
  BY <1>3 DEF ClientWins, ExitWins, Abort
<1>4. CASE ReportPanics \/ ReportDropped \/ ShutDown
  BY <1>4 DEF ReportPanics, ReportDropped, ShutDown
<1>5. CASE Waitpid \/ Stop
  BY <1>5 DEF Waitpid, Stop, Abort
<1>6. CASE StartCopy \/ CloseStdin
  BY <1>6 DEF StartCopy, CloseStdin
<1>7. CASE UNCHANGED vars
  BY <1>7 DEF vars
<1> QED BY <1>1, <1>2, <1>3, <1>4, <1>5, <1>6, <1>7 DEF Quiet

\* Every step is quiet or one of those that move bytes.
LEMMA Steps ==
    ASSUME [Next]_vars
    PROVE  \/ Quiet \/ Output
           \/ ReadPty \/ Push \/ ReaderEnds
           \/ CopyRead \/ CopyToClient \/ CopyToLog \/ CopyEnds
           \/ Report \/ Show \/ ClientEnds \/ ClientDies
           \/ Land \/ LandFails \/ Truncate \/ OtherWrites
BY DEF Next, ReaderTask, CopierTask, WatchTask, DoRun, ClientTask, FileThread, Quiet

\* What a write does to the file.
LEMMA PutFacts ==
    ASSUME log \in Seq(LogCells), NEW byte \in LogCells, NEW place \in Nat, place >= 1
    PROVE  /\ Put(place, byte) \in Seq(LogCells)
           /\ Len(Put(place, byte)) = IF Len(log) < place THEN place ELSE Len(log)
           /\ \A k \in 1 .. Len(Put(place, byte)) :
                 /\ k = place => Put(place, byte)[k] = byte
                 /\ k # place /\ k <= Len(log) => Put(place, byte)[k] = log[k]
                 /\ k # place /\ k > Len(log) => Put(place, byte)[k] = HOLE
<1> DEFINE size == IF Len(log) < place THEN place ELSE Len(log)
           f == [k \in 1 .. size |->
                    IF k = place THEN byte ELSE IF k <= Len(log) THEN log[k] ELSE HOLE]
<1>1. Len(log) \in Nat /\ \A k \in 1 .. Len(log) : log[k] \in LogCells
  BY NoneFacts
<1>2. size \in Nat
  BY <1>1
<1> HIDE DEF size
<1>3. \A k \in 1 .. size : f[k] \in LogCells
  BY <1>1 DEF LogCells
<1>4. f \in Seq(LogCells) /\ Len(f) = size
  BY <1>2, <1>3
<1>5. \A k \in 1 .. size :
         /\ k = place => f[k] = byte
         /\ k # place /\ k <= Len(log) => f[k] = log[k]
         /\ k # place /\ k > Len(log) => f[k] = HOLE
  BY <1>1
<1>6. Put(place, byte) = f
  BY DEF Put, size
<1> HIDE DEF f
<1>7. Len(f) = IF Len(log) < place THEN place ELSE Len(log)
  BY <1>4 DEF size
<1>8. \A k \in 1 .. Len(f) :
         /\ k = place => f[k] = byte
         /\ k # place /\ k <= Len(log) => f[k] = log[k]
         /\ k # place /\ k > Len(log) => f[k] = HOLE
  BY <1>4, <1>5
<1> QED BY <1>4, <1>6, <1>7, <1>8

\* A write leaves the bytes of the log at their places if its own is there, and if a
\* hole before it has another session to answer for it.
LEMMA PutKeepsPlaces ==
    ASSUME SessionAssumption, SeqInv, LogKeepsPlaces, disturbed \in BOOLEAN,
           NEW byte \in Nat \cup {FOREIGN}, NEW place \in 1 .. MaxOutput, Len(log) <= MaxOutput,
           log' = Put(place, byte),
           byte = place \/ (byte = FOREIGN /\ disturbed'),
           disturbed => disturbed',
           Len(log) + 1 >= place \/ disturbed'
    PROVE  /\ LogKeepsPlaces' /\ log' \in Seq(LogCells)
           /\ Len(log') = (IF Len(log) < place THEN place ELSE Len(log))
           /\ Len(log') <= MaxOutput
<1>1. /\ Len(log) \in Nat /\ place \in Nat /\ place >= 1 /\ place <= MaxOutput
      /\ log \in Seq(LogCells)
  BY NoneFacts DEF SeqInv, SessionAssumption
<1>2. /\ log' \in Seq(LogCells)
      /\ Len(log') = (IF Len(log) < place THEN place ELSE Len(log))
      /\ \A k \in 1 .. Len(log') :
            /\ k = place => log'[k] = byte
            /\ k # place /\ k <= Len(log) => log'[k] = log[k]
            /\ k # place /\ k > Len(log) => log'[k] = HOLE
  <2>1. byte \in LogCells
    BY DEF LogCells
  <2> QED BY <1>1, <2>1, PutFacts
<1>3. LogKeepsPlaces'
  <2> SUFFICES ASSUME NEW k \in 1 .. Len(log')
               PROVE  log'[k] = k \/ (log'[k] \in {HOLE, FOREIGN} /\ disturbed')
    BY DEF LogKeepsPlaces
  <2>1. CASE k = place
    BY <1>2, <2>1
  <2>2. CASE k # place /\ k <= Len(log)
    <3>1. log'[k] = log[k] /\ k \in 1 .. Len(log)
      BY <1>1, <1>2, <2>2
    <3>2. log[k] = k \/ (log[k] \in {HOLE, FOREIGN} /\ disturbed)
      BY <3>1 DEF LogKeepsPlaces
    <3> QED BY <3>1, <3>2
  <2>3. CASE k # place /\ k > Len(log)
    <3>1. log'[k] = HOLE
      BY <1>2, <2>3
    <3>2. Len(log) + 1 < place
      BY <1>1, <1>2, <2>3
    <3>3. disturbed'
      BY <1>1, <3>2
    <3> QED BY <3>1, <3>3
  <2> QED BY <1>1, <1>2, <2>1, <2>2, <2>3
<1>4. Len(log') <= MaxOutput
  BY <1>1, <1>2
<1> QED BY <1>2, <1>3, <1>4

\* Where and what the two kinds of writes are.
LEMMA LandFacts ==
    ASSUME SessionAssumption, Inv, Land
    PROVE  /\ LogKeepsPlaces' /\ log' \in Seq(LogCells) /\ Len(log') <= MaxOutput
           /\ ~disturbed => Len(log') = offset
           /\ landing' = <<>> /\ UNCHANGED <<produced, offset, foreign, disturbed, broken>>
<1>1. /\ SeqInv /\ LogInv /\ Lengths /\ disturbed \in BOOLEAN
  BY LengthFacts DEF Inv, StreamInv, TypeOK
<1>2. landing # <<>> /\ landing = <<offset, offset>> /\ offset >= 1
  BY <1>1 DEF Land, LogInv
<1>3. /\ log' = Put(landing[2], landing[1]) /\ landing' = <<>>
      /\ UNCHANGED <<produced, offset, foreign, disturbed, broken>>
  BY DEF Land, world
<1>4. log' = Put(offset, offset)
  BY <1>2, <1>3
<1>5. offset \in Nat /\ offset <= MaxOutput
  BY <1>1 DEF LogInv, Lengths
<1>6. offset \in 1 .. MaxOutput /\ Len(log) <= MaxOutput /\ LogKeepsPlaces
  BY <1>1, <1>2, <1>5 DEF LogInv, Lengths
<1>7. ~disturbed => Len(log) = offset - 1
  BY <1>1, <1>2 DEF LogInv
<1>8. Len(log) + 1 >= offset \/ disturbed'
  BY <1>1, <1>3, <1>5, <1>7 DEF Lengths
<1>9. /\ LogKeepsPlaces' /\ log' \in Seq(LogCells)
      /\ Len(log') = (IF Len(log) < offset THEN offset ELSE Len(log))
      /\ Len(log') <= MaxOutput
  BY <1>1, <1>3, <1>4, <1>5, <1>6, <1>8, PutKeepsPlaces
<1>10. ~disturbed => Len(log') = offset
  BY <1>1, <1>5, <1>7, <1>9 DEF Lengths
<1> QED BY <1>3, <1>9, <1>10

LEMMA OtherWritesFacts ==
    ASSUME SessionAssumption, Inv, OtherWrites
    PROVE  /\ LogKeepsPlaces' /\ log' \in Seq(LogCells) /\ Len(log') <= MaxOutput
           /\ foreign' \in 0 .. MaxForeign /\ disturbed'
           /\ UNCHANGED <<produced, offset, landing, broken>>
<1>1. /\ SeqInv /\ LogInv /\ disturbed \in BOOLEAN /\ foreign \in 0 .. MaxForeign
      /\ MaxForeign \in 0 .. MaxOutput /\ MaxOutput \in Nat
  BY DEF Inv, StreamInv, TypeOK, SessionAssumption
<1>2. /\ foreign < MaxForeign /\ foreign' = foreign + 1
      /\ log' = Put(foreign + 1, FOREIGN) /\ disturbed'
      /\ UNCHANGED <<produced, offset, landing, broken>>
  BY DEF OtherWrites, world
<1>3. foreign + 1 \in 1 .. MaxOutput /\ foreign + 1 \in 0 .. MaxForeign
  BY <1>1, <1>2
<1>4. /\ LogKeepsPlaces' /\ log' \in Seq(LogCells) /\ Len(log') <= MaxOutput
  <2>1. Len(log) <= MaxOutput /\ LogKeepsPlaces
    BY <1>1 DEF LogInv
  <2> QED BY <1>1, <1>2, <1>3, <2>1, PutKeepsPlaces
<1> QED BY <1>2, <1>3, <1>4

LEMMA SeqStep ==
    ASSUME SessionAssumption, Inv, [Next]_vars
    PROVE  SeqInv'
<1>1. SeqInv /\ Lengths
  BY LengthFacts DEF Inv, StreamInv
<1> USE DEF SeqInv, world, copying, watching, remote, file
<1>2. CASE Quiet
  <2>1. UNCHANGED bytes
    BY <1>2, QuietFacts
  <2> QED BY <1>1, <2>1 DEF bytes
<1>3. CASE Output
  <2>1. produced + 1 \in Nat
    BY <1>1 DEF Lengths
  <2>2. pty' \in Seq(Nat)
    BY <1>1, <1>3, <2>1, AppendProperties DEF Output
  <2> QED BY <1>1, <1>3, <2>2 DEF Output
<1>0. <<>> \in Seq(Nat) /\ <<>> \in Seq(Nat \cup {REPORT}) /\ <<>> \in Seq(LogCells)
  BY EmptySeq
<1>4. CASE ReadPty \/ ReaderEnds \/ CopyRead
  BY <1>0, <1>1, <1>4 DEF ReadPty, ReaderEnds, CopyRead
<1>12. CASE CopyEnds \/ LandFails \/ Truncate
  BY <1>0, <1>1, <1>12 DEF CopyEnds, LandFails, Truncate
<1>5. CASE Push
  <2>1. <<Head(rest)>> \in Seq(Nat) /\ Tail(rest) \in Seq(Nat)
    BY <1>1, <1>5, HeadTailProperties DEF Push
  <2> QED BY <1>1, <1>5, <2>1 DEF Push
<1>6. CASE CopyToClient
  <2>1. chunk \in Seq(Nat \cup {REPORT})
    BY <1>1, WiderSeq
  <2>2. sock' \in Seq(Nat \cup {REPORT})
    BY <1>1, <1>6, <2>1, ConcatProperties DEF CopyToClient
  <2> QED BY <1>1, <1>6, <2>2 DEF CopyToClient
<1>7. CASE CopyToLog
  BY <1>0, <1>1, <1>7 DEF CopyToLog
<1>8. CASE Report
  <2>1. sock' \in Seq(Nat \cup {REPORT})
    BY <1>1, <1>8, AppendProperties DEF Report
  <2> QED BY <1>1, <1>8, <2>1 DEF Report
<1>9. CASE Show
  <2>1. shown' \in Seq(Nat \cup {REPORT}) /\ sock' \in Seq(Nat \cup {REPORT})
    BY <1>1, <1>9, ShowMovesOne DEF Show
  <2> QED BY <1>1, <1>9, <2>1 DEF Show
<1>10. CASE ClientEnds \/ ClientDies
  BY <1>0, <1>1, <1>10 DEF ClientEnds, ClientDies, Leave
<1>11. CASE Land
  BY <1>1, <1>11, LandFacts DEF Land
<1>13. CASE OtherWrites
  BY <1>1, <1>13, OtherWritesFacts DEF OtherWrites
<1> QED BY <1>2, <1>3, <1>4, <1>5, <1>6, <1>7, <1>8, <1>9, <1>10, <1>11, <1>12, <1>13, Steps

LEMMA WrittenIsNat == ASSUME Lengths PROVE Written \in Nat
BY DEF Lengths, Written

LEMMA FlowStep ==
    ASSUME SessionAssumption, Inv, [Next]_vars
    PROVE  FlowInv'
<1>1. /\ SeqInv /\ FlowInv /\ Lengths /\ Written \in Nat
      /\ mode \in Modes /\ Len(chunk) <= 1
  BY LengthFacts, WrittenIsNat DEF Inv, StreamInv, TypeOK
<1> USE DEF world, copying, watching, remote, file
<1>2. CASE Quiet
  <2>1. /\ UNCHANGED bytes
        /\ reader' = "gone" <=> reader = "gone"
        /\ copier = "gone" => copier' = "gone"
    BY <1>2, QuietFacts
  <2>2. (Delivers' => Delivers) /\ Written' = Written
    BY <2>1 DEF Delivers, Written, bytes, Attached
  <2> QED BY <1>1, <2>1, <2>2 DEF FlowInv, Flow, bytes, Line
<1>3. CASE Output
  <2>1. /\ produced' = produced + 1 /\ pty' = Append(pty, produced + 1)
        /\ UNCHANGED <<reader, rest, pipe, chunk>>
    BY <1>3 DEF Output
  <2>2. (Delivers' <=> Delivers) /\ Written' = Written
    BY <1>3 DEF Output, Delivers, Written, Attached
  <2>3. /\ Line(pty, produced - Len(pty)) /\ Len(pty) <= produced
        /\ produced + 1 \in Nat /\ produced - Len(pty) \in Int
        /\ produced + 1 = (produced - Len(pty)) + Len(pty) + 1
    BY <1>1 DEF FlowInv, Lengths
  <2>4. Len(pty') = Len(pty) + 1 /\ Line(pty', produced - Len(pty))
    BY <1>1, <2>1, <2>3, LineAppend DEF SeqInv
  <2>5. /\ produced' - Len(pty') = produced - Len(pty) /\ Len(pty') <= produced'
    BY <1>1, <2>1, <2>3, <2>4 DEF Lengths
  <2>6. Flow => Flow'
    BY <1>1, <2>1, <2>2, <2>4 DEF Flow, Lengths, Line
  <2>7. Line(pty', produced' - Len(pty'))
    BY <2>4, <2>5
  <2> QED BY <1>1, <2>1, <2>2, <2>5, <2>6, <2>7 DEF FlowInv
<1>4. CASE ReadPty
  <2>1. /\ rest = <<>> /\ rest' = pty /\ pty' = <<>> /\ reader # "gone"
        /\ UNCHANGED <<produced, reader, pipe, chunk>>
    BY <1>4 DEF ReadPty, Reading
  <2>2. (Delivers' <=> Delivers) /\ Written' = Written
    BY <1>4 DEF ReadPty, Delivers, Written, Attached
  <2>3. Len(rest) = 0 /\ Len(pty') = 0 /\ Len(rest') = Len(pty) /\ Line(pty', produced')
    BY <2>1, NoLine
  <2>4. Flow => Flow'
    <3> HAVE Flow
    <3>1. Written + Len(chunk) + Len(pipe) = produced - Len(pty)
      BY <1>1, <2>1, <2>3 DEF Flow, Lengths
    <3>2. Line(rest', Written + Len(chunk) + Len(pipe))
      BY <1>1, <2>1, <3>1 DEF FlowInv
    <3> QED BY <1>1, <2>1, <2>2, <2>3, <3>2 DEF Flow, Lengths, Line
  <2>5. produced' - Len(pty') = produced' /\ Len(pty') <= produced'
    BY <1>1, <2>1, <2>3 DEF Lengths
  <2> QED BY <1>1, <2>1, <2>2, <2>3, <2>4, <2>5 DEF FlowInv
<1>5. CASE Push
  <2>1. /\ rest # <<>> /\ pipe = <<>> /\ reader # "gone"
        /\ pipe' = <<Head(rest)>> /\ rest' = Tail(rest)
        /\ UNCHANGED <<produced, pty, reader, chunk>>
    BY <1>5 DEF Push, Reading
  <2>2. (Delivers' <=> Delivers) /\ Written' = Written
    BY <1>5 DEF Push, Delivers, Written, Attached
  <2>3. Flow => Flow'
    <3> HAVE Flow
    <3>1. /\ Written + Len(chunk) \in Int
          /\ Line(rest, Written + Len(chunk)) /\ Len(pipe) = 0
      BY <1>1, <2>1 DEF Flow, Lengths
    <3>2. /\ Len(rest') = Len(rest) - 1 /\ Len(pipe') = 1
          /\ Line(pipe', Written + Len(chunk)) /\ Line(rest', Written + Len(chunk) + 1)
      BY <1>1, <2>1, <3>1, LineTail DEF SeqInv
    <3>3. /\ Written' + Len(chunk') = Written + Len(chunk)
          /\ Written' + Len(chunk') + Len(pipe') = Written + Len(chunk) + 1
          /\ Len(pipe') + Len(rest') = Len(pipe) + Len(rest)
      BY <1>1, <2>1, <2>2, <3>1, <3>2 DEF Lengths
    <3>4. /\ Line(chunk', Written') /\ Line(pipe', Written' + Len(chunk'))
          /\ Line(rest', Written' + Len(chunk') + Len(pipe'))
      BY <2>1, <2>2, <3>2, <3>3 DEF Flow
    <3>5. /\ Written' + Len(chunk') + Len(pipe') + Len(rest') + Len(pty')
             = Written + Len(chunk) + Len(pipe) + Len(rest) + Len(pty)
      BY <1>1, <2>1, <2>2, <3>1, <3>2, <3>3 DEF Lengths
    <3> QED BY <2>1, <3>4, <3>5 DEF Flow
  <2> QED BY <1>1, <2>1, <2>2, <2>3 DEF FlowInv, Line
<1>6. CASE ReaderEnds
  <2>1. /\ reader' = "gone" /\ rest' = <<>> /\ Len(rest') = 0
        /\ UNCHANGED <<produced, pty, pipe, chunk>>
    BY <1>6 DEF ReaderEnds
  <2>2. (Delivers' <=> Delivers) /\ Written' = Written
    BY <1>6 DEF ReaderEnds, Delivers, Written, Attached
  <2>3. Flow => Flow'
    BY <1>1, <2>1, <2>2, NoLine DEF Flow, Lengths, Line
  <2> QED BY <1>1, <2>1, <2>2, <2>3 DEF FlowInv, Line
<1>7. CASE CopyRead
  <2>1. /\ chunk = <<>> /\ chunk' = pipe /\ pipe' = <<>> /\ Len(pipe') = 0
        /\ UNCHANGED <<produced, pty, reader, rest>>
    BY <1>7 DEF CopyRead
  <2>2. (Delivers' <=> Delivers) /\ Written' = Written
    BY <1>7 DEF CopyRead, Delivers, Written, Attached
  <2>3. Flow => Flow'
    <3> HAVE Flow
    <3>1. /\ Len(chunk) = 0 /\ Line(chunk', Written) /\ Len(chunk') = Len(pipe)
          /\ Line(rest, Written + Len(chunk'))
      BY <1>1, <2>1 DEF Flow, Lengths
    <3> QED BY <1>1, <2>1, <2>2, <3>1, NoLine DEF Flow, Lengths, Line
  <2> QED BY <1>1, <2>1, <2>2, <2>3 DEF FlowInv, Line
<1>8. CASE CopyToClient \/ CopyToLog
  <2>1. /\ chunk # <<>> /\ chunk' = <<>> /\ Len(chunk') = 0
        /\ UNCHANGED <<produced, pty, reader, rest, pipe>>
        /\ Delivers' <=> Delivers
    BY <1>8 DEF CopyToClient, CopyToLog, Delivers, Attached
  <2>2. Written' = Written + Len(chunk)
    <3>1. CASE CopyToClient
      <4>1. Len(sock') = Len(sock) + Len(chunk)
        BY <1>1, <3>1, WiderSeq, ConcatProperties DEF CopyToClient, SeqInv
      <4>2. Attached /\ Attached' /\ shown' = shown
        BY <3>1 DEF CopyToClient, Attached
      <4> QED BY <1>1, <4>1, <4>2 DEF Written, Lengths
    <3>2. CASE CopyToLog
      <4>1. /\ Len(chunk) \in Nat /\ Len(chunk) # 0
        BY <1>1, <2>1 DEF Lengths
      <4>2. Len(chunk) <= 1
        BY <1>1
      <4>3. Len(chunk) = 1
        <5>1. \A n \in Nat : n # 0 /\ n <= 1 => n = 1
          OBVIOUS
        <5> QED BY <4>1, <4>2, <5>1
      <4>4. ~Attached /\ ~Attached' /\ offset' = offset + 1
        BY <3>2 DEF CopyToLog, Attached
      <4> QED BY <4>3, <4>4 DEF Written
    <3> QED BY <1>8, <3>1, <3>2
  <2>3. Flow => Flow'
    <3> HAVE Flow
    <3>1. Written' + Len(chunk') = Written + Len(chunk)
      BY <1>1, <2>1, <2>2 DEF Lengths
    <3>2. /\ Line(chunk', Written') /\ Line(pipe', Written' + Len(chunk'))
          /\ Line(rest', Written' + Len(chunk') + Len(pipe'))
      BY <2>1, <3>1, NoLine DEF Flow
    <3> QED BY <2>1, <3>1, <3>2 DEF Flow
  <2> QED BY <1>1, <2>1, <2>2, <2>3 DEF FlowInv, Line
<1>9. CASE CopyEnds \/ Report
  <2>1. /\ copier' = "gone" /\ UNCHANGED <<produced, pty, reader, rest>>
    BY <1>9 DEF CopyEnds, Report
  <2> QED BY <1>1, <2>1 DEF FlowInv, Line, Delivers
<1>10. CASE Show
  <2>1. Len(shown') = Len(shown) + 1 /\ Len(sock') = Len(sock) - 1
    BY <1>1, <1>10, ShowMovesOne DEF Show, SeqInv
  <2>2. /\ UNCHANGED <<produced, pty, reader, rest, pipe, chunk>>
        /\ (Delivers' <=> Delivers) /\ Written' = Written
    BY <1>1, <1>10, <2>1 DEF Show, Delivers, Written, Attached, Lengths
  <2> QED BY <1>1, <2>2 DEF FlowInv, Flow, Line
<1>11. CASE ClientEnds \/ ClientDies
  <2>1. /\ UNCHANGED <<mode, produced, pty, reader, rest, pipe, chunk, copier, offset>>
        /\ client' # "here"
    BY <1>11 DEF ClientEnds, ClientDies, Leave
  <2>2. Delivers' => Delivers /\ Written' = Written
    BY <2>1 DEF Delivers, Written, Attached
  <2> QED BY <1>1, <2>1, <2>2 DEF FlowInv, Flow, Line
<1>12. CASE Land \/ LandFails \/ Truncate \/ OtherWrites
  <2>1. /\ UNCHANGED <<mode, produced, pty, reader, rest, pipe, chunk, copier, offset, client,
                       sock, shown>>
    BY <1>12 DEF Land, LandFails, Truncate, OtherWrites
  <2>2. (Delivers' <=> Delivers) /\ Written' = Written
    BY <2>1 DEF Delivers, Written, Attached
  <2> QED BY <1>1, <2>1, <2>2 DEF FlowInv, Flow, Line
<1> QED BY <1>2, <1>3, <1>4, <1>5, <1>6, <1>7, <1>8, <1>9, <1>10, <1>11, <1>12, Steps

LEMMA SentFacts ==
    ASSUME SeqInv
    PROVE  /\ Sent \in Seq(Nat \cup {REPORT}) /\ Len(Sent) = Len(shown) + Len(sock)
           /\ \A k \in 1 .. Len(shown) : Sent[k] = shown[k]
BY ConcatFacts DEF SeqInv, Sent

LEMMA SentStep ==
    ASSUME SessionAssumption, Inv, [Next]_vars
    PROVE  SentInv'
<1>1. /\ SeqInv /\ SeqInv' /\ FlowInv /\ SentInv /\ Lengths
      /\ Sent \in Seq(Nat \cup {REPORT}) /\ Len(Sent) = Len(shown) + Len(sock)
      /\ Len(Sent) \in Nat
  <2>1. SeqInv /\ SeqInv' /\ FlowInv /\ SentInv /\ Lengths
    BY SeqStep, LengthFacts DEF Inv, StreamInv
  <2>2. Sent \in Seq(Nat \cup {REPORT}) /\ Len(Sent) = Len(shown) + Len(sock)
    BY <2>1, SentFacts
  <2> QED BY <2>1, <2>2 DEF Lengths
<1> DEFINE T == Nat \cup {REPORT}
<1>T. /\ Sent \in Seq(T) /\ shown \in Seq(T) /\ sock \in Seq(T) /\ chunk \in Seq(T)
      /\ REPORT \in T /\ <<REPORT>> \in Seq(T)
  <2>1. Sent \in Seq(T) /\ shown \in Seq(T) /\ sock \in Seq(T)
    BY <1>1 DEF SeqInv
  <2>2. Nat \subseteq T /\ REPORT \in T
    OBVIOUS
  <2> HIDE DEF T
  <2>3. chunk \in Seq(T)
    BY <1>1, <2>2, WiderSeq DEF SeqInv
  <2>4. <<REPORT>> \in Seq(T)
    BY <2>2
  <2> QED BY <2>1, <2>2, <2>3, <2>4
<1> HIDE DEF T
<1> USE DEF world, copying, watching, remote, file
\* The steps that send nothing and write no more of the output.
<1>2. ASSUME Sent' = Sent, produced' \in Nat, produced' >= produced,
             copier = "gone" => copier' = "gone",
             main \notin {"wait", "report"} => main' \notin {"wait", "report"}
      PROVE  SentInv'
  <2>1. CASE Begins
    <3>1. Len(Sent') <= produced'
      BY <1>1, <1>2, <2>1 DEF Begins, Lengths
    <3> QED BY <1>2, <2>1, <3>1 DEF SentInv, Begins, Line
  <2>2. CASE Reported
    <3>1. Len(Sent') <= produced' + 1
      BY <1>1, <1>2, <2>2 DEF Reported, Lengths
    <3> QED BY <1>2, <2>2, <3>1 DEF SentInv, Reported
  <2> QED BY <1>1, <2>1, <2>2 DEF SentInv
<1>3. produced \in Nat /\ produced + 1 \in Nat
  BY <1>1 DEF Lengths
<1>4. CASE Quiet
  <2>1. /\ UNCHANGED bytes
        /\ copier = "gone" => copier' = "gone"
        /\ main \notin {"wait", "report"} => main' \notin {"wait", "report"}
    BY <1>4, QuietFacts
  <2>2. Sent' = Sent /\ produced' = produced
    BY <2>1 DEF Sent, bytes
  <2> QED BY <1>2, <1>3, <2>1, <2>2
<1>5. CASE Output
  <2>1. /\ Sent' = Sent /\ produced' = produced + 1 /\ UNCHANGED <<main, copier>>
    BY <1>5 DEF Output, Sent
  <2> QED BY <1>2, <1>3, <2>1
<1>6. CASE ReadPty \/ Push \/ ReaderEnds
  <2>1. Sent' = Sent /\ UNCHANGED <<main, copier, produced>>
    BY <1>6 DEF ReadPty, Push, ReaderEnds, Sent
  <2> QED BY <1>2, <1>3, <2>1
<1>7. CASE CopyRead \/ CopyToLog \/ CopyEnds
  <2>1. /\ Sent' = Sent /\ UNCHANGED <<main, produced>>
        /\ copier = "gone" => copier' = "gone"
    BY <1>7 DEF CopyRead, CopyToLog, CopyEnds, Sent
  <2> QED BY <1>2, <1>3, <2>1
<1>8. CASE Land \/ LandFails \/ Truncate \/ OtherWrites
  <2>1. Sent' = Sent /\ UNCHANGED <<main, copier, produced>>
    BY <1>8 DEF Land, LandFails, Truncate, OtherWrites, Sent
  <2> QED BY <1>2, <1>3, <2>1
<1>9. CASE Show
  <2>1. Append(shown, Head(sock)) \o Tail(sock) = shown \o sock
    BY <1>T, <1>9, ShowMovesOne DEF Show
  <2>2. Sent' = Sent /\ UNCHANGED <<main, copier, produced>>
    BY <1>9, <2>1 DEF Show, Sent
  <2> QED BY <1>2, <1>3, <2>2
<1>10. CASE CopyToClient
  <2>1. /\ Attached /\ copier # "gone" /\ client = "here"
        /\ sock' = sock \o chunk /\ UNCHANGED <<shown, produced>>
    BY <1>10 DEF CopyToClient, Copying
  <2>2. Begins /\ Flow /\ Written = Len(Sent)
    BY <1>1, <2>1 DEF SentInv, Reported, FlowInv, Delivers, Written
  <2>3. Line(Sent, 0) /\ Line(chunk, 0 + Len(Sent)) /\ Len(Sent) + Len(chunk) <= produced
    BY <1>1, <2>2 DEF Begins, Flow, Lengths
  <2>4. Line(Sent \o chunk, 0) /\ Len(Sent \o chunk) = Len(Sent) + Len(chunk)
    BY <1>T, <2>3, LineConcat
  <2>5. shown \o (sock \o chunk) = (shown \o sock) \o chunk
    BY <1>T, ConcatAssociative
  <2>6. Sent' = Sent \o chunk
    BY <2>1, <2>5 DEF Sent
  <2> QED BY <2>1, <2>3, <2>4, <2>6 DEF SentInv, Begins
<1>11. CASE Report
  <2>1. /\ main = "report" /\ main' = "shutdown" /\ copier = "gone" /\ copier' = "gone"
        /\ sock' = Append(sock, REPORT) /\ UNCHANGED <<shown, produced>>
    BY <1>11 DEF Report
  <2>2. Begins
    BY <1>1, <2>1 DEF SentInv, Reported
  <2>3. Sent' = Append(Sent, REPORT)
    <3>1. /\ Append(sock, REPORT) = sock \o <<REPORT>>
          /\ Append(Sent, REPORT) = Sent \o <<REPORT>>
      BY <1>T, AppendIsConcat
    <3>2. shown \o (sock \o <<REPORT>>) = (shown \o sock) \o <<REPORT>>
      BY <1>T, ConcatAssociative
    <3> QED BY <2>1, <3>1, <3>2 DEF Sent
  <2>4. /\ Len(Append(Sent, REPORT)) = Len(Sent) + 1
        /\ \A k \in 1 .. Len(Sent) : Append(Sent, REPORT)[k] = Sent[k]
        /\ Append(Sent, REPORT)[Len(Sent) + 1] = REPORT
    BY <1>T, AppendProperties
  <2>5. /\ \A k \in 1 .. Len(Sent) : Sent[k] = k
        /\ Len(Sent) <= produced
    BY <1>1, <2>2 DEF Begins, Line
  <2>6. /\ Len(Sent') = Len(Sent) + 1 /\ Sent'[Len(Sent) + 1] = REPORT
        /\ \A k \in 1 .. Len(Sent) : Sent'[k] = k
    BY <2>3, <2>4, <2>5
  <2>7. /\ Len(Sent') >= 1 /\ Len(Sent') - 1 = Len(Sent) /\ Len(Sent') <= produced' + 1
    BY <1>1, <2>1, <2>5, <2>6 DEF Lengths
  <2>8. Reported'
    BY <2>1, <2>6, <2>7 DEF Reported
  <2> QED BY <2>8 DEF SentInv
<1>12. CASE ClientEnds \/ ClientDies
  <2>1. sock' = <<>> /\ UNCHANGED <<main, copier, produced, shown>>
    BY <1>12 DEF ClientEnds, ClientDies, Leave
  <2>2. Sent' = shown
    BY <1>1, <2>1, ConcatEmptySeq DEF Sent, SeqInv
  <2>3. CASE sock = <<>>
    <3>1. Sent' = Sent
      BY <1>1, <2>2, <2>3, ConcatEmptySeq DEF Sent, SeqInv
    <3> QED BY <1>2, <1>3, <2>1, <3>1
  <2>4. CASE sock # <<>>
    <3>1. /\ \A k \in 1 .. Len(shown) : Sent[k] = shown[k]
          /\ Len(shown) <= Len(Sent) - 1 /\ Len(shown) \in Nat
      BY <1>1, <2>4, SentFacts DEF Lengths
    <3>2. Line(shown, 0) /\ Len(shown) <= produced
      BY <1>1, <3>1 DEF SentInv, Begins, Reported, Line, Lengths
    <3> QED BY <2>1, <2>2, <3>2 DEF SentInv, Begins
  <2> QED BY <2>3, <2>4
<1> QED BY <1>4, <1>5, <1>6, <1>7, <1>8, <1>9, <1>10, <1>11, <1>12, Steps

LEMMA LogStep ==
    ASSUME SessionAssumption, Inv, [Next]_vars
    PROVE  LogInv'
<1>1. /\ SeqInv /\ FlowInv /\ LogInv /\ Lengths /\ Len(chunk) <= 1
      /\ disturbed \in BOOLEAN /\ broken \in BOOLEAN
  BY LengthFacts DEF Inv, StreamInv, TypeOK
<1> USE DEF world, copying, watching, remote, file
<1>2. CASE Quiet
  <2>1. UNCHANGED bytes
    BY <1>2, QuietFacts
  <2> QED BY <1>1, <2>1 DEF LogInv, LogKeepsPlaces, bytes
<1>3. CASE Output
  <2>1. /\ produced' = produced + 1
        /\ UNCHANGED <<log, offset, landing, foreign, disturbed, broken>>
    BY <1>3 DEF Output
  <2>2. offset <= produced'
    BY <1>1, <2>1 DEF LogInv, Lengths
  <2> QED BY <1>1, <2>1, <2>2 DEF LogInv, LogKeepsPlaces
<1>4. CASE ReadPty \/ Push \/ ReaderEnds \/ CopyRead \/ CopyToClient \/ CopyEnds
  <2>1. UNCHANGED <<produced, log, offset, landing, foreign, disturbed, broken>>
    BY <1>4 DEF ReadPty, Push, ReaderEnds, CopyRead, CopyToClient, CopyEnds
  <2> QED BY <1>1, <2>1 DEF LogInv, LogKeepsPlaces
<1>5. CASE Report \/ Show \/ ClientEnds \/ ClientDies
  <2>1. UNCHANGED <<produced, log, offset, landing, foreign, disturbed, broken>>
    BY <1>5 DEF Report, Show, ClientEnds, ClientDies, Leave
  <2> QED BY <1>1, <2>1 DEF LogInv, LogKeepsPlaces
<1>6. CASE CopyToLog
  <2>1. /\ ~Attached /\ copier # "gone" /\ chunk # <<>> /\ landing = <<>> /\ ~broken
        /\ offset' = offset + 1 /\ landing' = <<chunk[1], offset + 1>>
        /\ UNCHANGED <<produced, log, foreign, disturbed, broken>>
    BY <1>6 DEF CopyToLog, Copying
  <2>2. Flow /\ Written = offset
    BY <1>1, <2>1 DEF FlowInv, Delivers, Written
  <2>3. Len(chunk) \in Nat /\ Len(chunk) >= 1
    <3>1. Len(chunk) \in Nat /\ Len(chunk) # 0
      BY <1>1, <2>1 DEF Lengths
    <3>2. \A n \in Nat : n # 0 => n >= 1
      OBVIOUS
    <3> QED BY <3>1, <3>2
  <2>4. chunk[1] = offset + 1
    <3>1. Line(chunk, offset) /\ 1 \in 1 .. Len(chunk)
      BY <2>2, <2>3 DEF Flow
    <3> QED BY <3>1 DEF Line
  <2>5. offset + 1 <= produced
    <3>1. offset + Len(chunk) + Len(pipe) + Len(rest) + Len(pty) <= produced
      BY <2>2 DEF Flow
    <3> QED BY <1>1, <2>3, <3>1 DEF Lengths
  <2>6. /\ landing' = <<offset', offset'>> /\ offset' >= 1 /\ offset' <= produced'
        /\ offset' \in Nat
    BY <1>1, <2>1, <2>4, <2>5 DEF Lengths
  <2>7. ~disturbed' => Len(log') = offset' - 1 /\ Len(log') <= offset'
    BY <1>1, <2>1 DEF LogInv, Lengths
  <2>8. landing' # <<>>
    BY <2>6
  <2> QED BY <1>1, <2>1, <2>6, <2>7, <2>8 DEF LogInv, LogKeepsPlaces
<1>7. CASE Land
  <2>1. /\ LogKeepsPlaces' /\ Len(log') <= MaxOutput /\ landing' = <<>>
        /\ ~disturbed => Len(log') = offset
        /\ UNCHANGED <<produced, offset, foreign, disturbed, broken>>
    BY <1>7, LandFacts
  <2> QED BY <1>1, <2>1 DEF LogInv
<1>8. CASE LandFails
  <2>1. /\ landing' = <<>> /\ broken' = TRUE
        /\ UNCHANGED <<produced, log, offset, foreign, disturbed>>
    BY <1>8 DEF LandFails
  <2> QED BY <1>1, <2>1 DEF LogInv, LogKeepsPlaces
<1>9. CASE Truncate
  <2>1. /\ log' = <<>> /\ disturbed' = TRUE /\ UNCHANGED <<produced, offset, landing, broken>>
        /\ Len(log') = 0 /\ foreign' \in {foreign, 0}
    BY <1>9 DEF Truncate
  <2>2. LogKeepsPlaces' /\ Len(log') <= MaxOutput
    BY <1>1, <2>1 DEF LogKeepsPlaces, Lengths
  <2>3. foreign' \in 0 .. MaxForeign
    BY <1>1, <2>1 DEF LogInv, SessionAssumption
  <2> QED BY <1>1, <2>1, <2>2, <2>3 DEF LogInv
<1>10. CASE OtherWrites
  <2>1. /\ LogKeepsPlaces' /\ Len(log') <= MaxOutput
        /\ foreign' \in 0 .. MaxForeign /\ disturbed'
        /\ UNCHANGED <<produced, offset, landing, broken>>
    BY <1>10, OtherWritesFacts
  <2> QED BY <1>1, <2>1 DEF LogInv
<1> QED BY <1>2, <1>3, <1>4, <1>5, <1>6, <1>7, <1>8, <1>9, <1>10, Steps

\* The two halves of TypeOK: where everyone is, and how much there is.
Places ==
    /\ mode \in Modes
    /\ main \in {"wait", "report", "shutdown", "stop", "over", "lost"}
    /\ command \in {"running", "exited"}
    /\ reader \in {"on", "aborting", "gone"}
    /\ copier \in {"new", "on", "aborting", "gone"}
    /\ inherited \in BOOLEAN
    /\ input \in {"on", "gone"} /\ watch \in {"off", "on", "woken", "gone", "failed"}
    /\ shut \in BOOLEAN
    /\ client \in {"here", "done", "gone"} /\ stdin \in {"open", "closed"}
    /\ threads \in ClientThreads
    /\ disturbed \in BOOLEAN /\ broken \in BOOLEAN /\ faults \in 0 .. MaxFaults

Sizes ==
    /\ produced \in 0 .. MaxOutput
    /\ Len(pty) <= PtyCap /\ Len(rest) <= PtyCap /\ Len(pipe) <= 1 /\ Len(chunk) <= 1
    /\ Len(sock) <= SockCap

LEMMA PlacesStep ==
    ASSUME SessionAssumption, Places, [Next]_vars
    PROVE  Places'
<1> USE DEF Places, world, copying, watching, remote, file
<1>0. Woken \in {"off", "on", "woken", "gone", "failed"}
  BY DEF Woken
<1>1. CASE Output \/ OtherStarts \/ OtherEnds
  <2>1. inherited' \in BOOLEAN
    BY <1>1 DEF Output, OtherStarts, OtherEnds
  <2>2. UNCHANGED <<mode, main, command, copying, watching, remote, file, faults>>
    BY <1>1 DEF Output, OtherStarts, OtherEnds
  <2> QED BY <2>1, <2>2
<1>11. CASE CommandExits \/ OtherChildExits
  <2>1. watch' \in {"off", "on", "woken", "gone", "failed"} /\ command' \in {"running", "exited"}
    BY <1>0, <1>11 DEF CommandExits, OtherChildExits
  <2>2. UNCHANGED <<mode, main, inherited, copying, input, remote, file, faults>>
    BY <1>11 DEF CommandExits, OtherChildExits
  <2> QED BY <2>1, <2>2
<1>2. CASE ReadPty \/ Push \/ ReaderEnds
  BY <1>2 DEF ReadPty, Push, ReaderEnds
<1>3. CASE StartCopy \/ CopyRead \/ CopyToClient \/ CopyToLog \/ CopyEnds
  BY <1>3 DEF StartCopy, CopyRead, CopyToClient, CopyToLog, CopyEnds
<1>4. ASSUME Fault PROVE faults' \in 0 .. MaxFaults
  BY <1>4 DEF Fault, SessionAssumption
<1>5. CASE InputEnds \/ InputPanics
  BY <1>4, <1>5 DEF InputEnds, InputPanics
<1>15. CASE CheckFails
  <2>1. watch' = "failed" /\ faults' \in 0 .. MaxFaults
    BY <1>4, <1>15 DEF CheckFails
  <2>2. UNCHANGED <<mode, main, world, copying, input, remote, file>>
    BY <1>15 DEF CheckFails
  <2> QED BY <2>1, <2>2
<1>12. CASE Listen \/ Check
  <2>1. watch' \in {"off", "on", "woken", "gone", "failed"}
    BY <1>12 DEF Listen, Check
  <2>2. UNCHANGED <<mode, main, world, copying, input, remote, file, faults>>
    BY <1>12 DEF Listen, Check
  <2> QED BY <2>1, <2>2
<1>6. CASE ClientWins \/ ExitWins \/ Report \/ ReportPanics \/ ReportDropped
  BY <1>6 DEF ClientWins, ExitWins, Report, ReportPanics, ReportDropped, Abort
<1>14. CASE ShutDown
  <2>1. shut' \in BOOLEAN /\ main' = "stop"
    BY <1>14 DEF ShutDown
  <2>2. UNCHANGED <<mode, world, copying, watching, client, stdin, threads, file, faults>>
    BY <1>14 DEF ShutDown
  <2> QED BY <2>1, <2>2
<1>7. CASE Waitpid
  BY <1>7 DEF Waitpid, Abort
<1>13. CASE Stop
  <2>1. /\ watch' \in {"off", "on", "woken", "gone", "failed"} /\ command' \in {"running", "exited"}
        /\ faults' \in 0 .. MaxFaults
    <3>1. CASE /\ NoFault /\ command' = "exited"
               /\ watch' = IF command = "running" THEN Woken ELSE watch
      BY <1>0, <3>1 DEF NoFault
    <3>2. CASE Fault /\ UNCHANGED <<command, watch>>
      BY <1>4, <3>2
    <3> QED BY <1>13, <3>1, <3>2 DEF Stop
  <2>2. /\ main' = "over"
        /\ UNCHANGED <<mode, produced, pty, inherited, copying, input, remote, file>>
    BY <1>13 DEF Stop
  <2> QED BY <2>1, <2>2
<1>8. CASE Show \/ ClientEnds \/ ClientDies \/ CloseStdin
  BY <1>8 DEF Show, ClientEnds, ClientDies, CloseStdin, Leave
<1>9. CASE Land \/ LandFails \/ Truncate \/ OtherWrites
  <2>1. disturbed' \in BOOLEAN /\ broken' \in BOOLEAN
    BY <1>9 DEF Land, LandFails, Truncate, OtherWrites
  <2>2. faults' \in 0 .. MaxFaults
    BY <1>4, <1>9 DEF Land, LandFails, Truncate, OtherWrites
  <2>3. UNCHANGED <<mode, main, world, copying, watching, remote>>
    BY <1>9 DEF Land, LandFails, Truncate, OtherWrites
  <2> QED BY <2>1, <2>2, <2>3
<1>10. CASE UNCHANGED vars
  BY <1>10 DEF vars
<1> QED BY <1>1, <1>2, <1>3, <1>5, <1>6, <1>7, <1>8, <1>9, <1>10, <1>11,
           <1>12, <1>13, <1>14, <1>15
        DEF Next, ReaderTask, CopierTask, WatchTask, DoRun, ClientTask, FileThread

LEMMA SizesStep ==
    ASSUME SessionAssumption, Inv, [Next]_vars
    PROVE  Sizes'
<1>1. SeqInv /\ Sizes /\ Lengths
  BY LengthFacts DEF Inv, StreamInv, TypeOK, Sizes
<1>2. Len(<<>>) = 0 /\ 0 <= PtyCap /\ 0 <= SockCap
  BY <1>1 DEF Lengths
<1> USE DEF Sizes, world, copying, watching, remote, file
<1>3. CASE Quiet
  <2>1. UNCHANGED bytes
    BY <1>3, QuietFacts
  <2> QED BY <1>1, <2>1 DEF bytes
<1>4. CASE Output
  <2>1. Len(pty') = Len(pty) + 1 /\ Len(pty) < PtyCap
    BY <1>1, <1>4, AppendProperties DEF Output, SeqInv, Lengths
  <2>2. Len(pty') <= PtyCap
    BY <1>1, <2>1 DEF Lengths
  <2>3. produced' \in 0 .. MaxOutput
    BY <1>1, <1>4 DEF Output
  <2> QED BY <1>1, <1>4, <2>2, <2>3 DEF Output
<1>5. CASE ReadPty \/ ReaderEnds \/ CopyRead \/ CopyEnds
  BY <1>1, <1>2, <1>5 DEF ReadPty, ReaderEnds, CopyRead, CopyEnds
<1>6. CASE Push
  <2>1. Len(rest') = Len(rest) - 1 /\ Len(pipe') = 1
    BY <1>1, <1>6, HeadTailProperties DEF Push, SeqInv
  <2>2. Len(rest') <= PtyCap
    BY <1>1, <2>1 DEF Lengths
  <2> QED BY <1>1, <1>6, <2>1, <2>2 DEF Push
<1>7. CASE CopyToClient
  <2>1. Len(sock') = Len(sock) + Len(chunk) /\ Len(sock) < SockCap
    BY <1>1, <1>7, WiderSeq, ConcatProperties DEF CopyToClient, SeqInv
  <2>2. Len(sock') <= SockCap
    BY <1>1, <2>1 DEF Lengths
  <2> QED BY <1>1, <1>2, <1>7, <2>2 DEF CopyToClient
<1>8. CASE CopyToLog
  BY <1>1, <1>2, <1>8 DEF CopyToLog
<1>9. CASE Report
  <2>1. Len(sock') = Len(sock) + 1 /\ Len(sock) < SockCap
    BY <1>1, <1>9, AppendProperties DEF Report, SeqInv
  <2>2. Len(sock') <= SockCap
    BY <1>1, <2>1 DEF Lengths
  <2> QED BY <1>1, <1>9, <2>2 DEF Report
<1>10. CASE Show
  <2>1. Len(sock') = Len(sock) - 1
    BY <1>1, <1>10, HeadTailProperties DEF Show, SeqInv
  <2>2. Len(sock') <= SockCap
    BY <1>1, <2>1 DEF Lengths
  <2> QED BY <1>1, <1>10, <2>2 DEF Show
<1>11. CASE ClientEnds \/ ClientDies
  BY <1>1, <1>2, <1>11 DEF ClientEnds, ClientDies, Leave
<1>12. CASE Land \/ LandFails \/ Truncate \/ OtherWrites
  BY <1>1, <1>12 DEF Land, LandFails, Truncate, OtherWrites
<1> QED BY <1>3, <1>4, <1>5, <1>6, <1>7, <1>8, <1>9, <1>10, <1>11, <1>12, Steps

LEMMA InvStep ==
    ASSUME SessionAssumption, Inv, [Next]_vars
    PROVE  Inv'
<1>1. StreamInv'
  BY AbortStep, SeqStep, FlowStep, SentStep, LogStep DEF StreamInv
<1>2. Places' /\ Sizes'
  BY PlacesStep, SizesStep DEF Inv, TypeOK, Places
<1>3. /\ offset' \in 0 .. MaxOutput /\ Len(log') <= MaxOutput
      /\ foreign' \in 0 .. MaxForeign
  <2>1. /\ offset' \in Nat /\ offset' <= produced' /\ produced' \in 0 .. MaxOutput
    BY <1>1, <1>2 DEF StreamInv, LogInv, Sizes
  <2> QED BY <1>1, <2>1 DEF StreamInv, LogInv, SessionAssumption
<1>4. landing' = <<>> \/ landing' \in (1 .. MaxOutput) \X (1 .. MaxOutput)
  BY <1>1, <1>3 DEF StreamInv, LogInv
<1>5. TypeOK'
  BY <1>2, <1>3, <1>4 DEF TypeOK, Places, Sizes
<1> QED BY <1>1, <1>5 DEF Inv

-----------------------------------------------------------------------------
(* What the invariant implies.                                             *)

LEMMA BytesFacts ==
    ASSUME NEW n \in Nat
    PROVE  /\ Bytes(n) \in Seq(Nat) /\ Len(Bytes(n)) = n
           /\ \A k \in 1 .. n : Bytes(n)[k] = k
BY DEF Bytes

LEMMA SentIsShown == ASSUME SessionAssumption, Inv PROVE ShownInOrder
<1>1. /\ SeqInv /\ SentInv /\ Lengths
  BY LengthFacts DEF Inv, StreamInv
<1> DEFINE T == Nat \cup {REPORT}
<1>2. Sent \in Seq(T) /\ Len(Sent) \in Nat
  BY <1>1, SentFacts DEF Lengths
<1>3. CASE Begins
  <2>1. Len(Sent) \in 0 .. produced
    BY <1>1, <1>2, <1>3 DEF Begins, Lengths
  <2>2. Sent = Bytes(Len(Sent))
    <3> HIDE DEF T
    <3> QED BY <1>2, <1>3, LineIsBytes DEF Begins
  <2> QED BY <2>1, <2>2 DEF ShownInOrder, Sent
<1>4. CASE Reported
  <2> DEFINE n == Len(Sent) - 1
             b == Append(Bytes(n), REPORT)
  <2>1. n \in Nat /\ n \in 0 .. produced /\ Len(Sent) = n + 1
    BY <1>1, <1>2, <1>4 DEF Reported, Lengths
  <2> HIDE DEF n
  <2>2. Bytes(n) \in Seq(Nat) /\ Len(Bytes(n)) = n /\ \A k \in 1 .. n : Bytes(n)[k] = k
    BY <2>1, BytesFacts
  <2>3. Bytes(n) \in Seq(T) /\ REPORT \in T
    BY <2>2, WiderSeq
  <2> HIDE DEF T
  <2>4. /\ b \in Seq(T) /\ Len(b) = n + 1 /\ b[n + 1] = REPORT
        /\ \A k \in 1 .. n : b[k] = k
    BY <2>2, <2>3, AppendProperties
  <2>5. Sent[n + 1] = REPORT /\ \A k \in 1 .. n : Sent[k] = k
    BY <1>4, <2>1 DEF Reported, n
  <2> HIDE DEF b
  <2>6. Sent = b
    <3>1. ASSUME NEW k \in 1 .. Len(Sent) PROVE Sent[k] = b[k]
      <4>1. k = n + 1 \/ k \in 1 .. n
        BY <2>1
      <4> QED BY <2>4, <2>5, <4>1
    <3> QED BY <1>2, <2>1, <2>4, <3>1, SeqEqual
  <2> QED BY <2>1, <2>6 DEF ShownInOrder, Sent, b
<1> QED BY <1>1, <1>3, <1>4 DEF SentInv

\* Bytes that follow each other through the buffers are one line.
LEMMA BuffersConcat ==
    ASSUME NEW S, NEW out, out \in Seq(S), chunk \in Seq(S), pipe \in Seq(S), rest \in Seq(S),
           pty \in Seq(S), Line(out, 0), Line(chunk, Len(out)), Line(pipe, Len(out) + Len(chunk)),
           Line(rest, Len(out) + Len(chunk) + Len(pipe)),
           Line(pty, Len(out) + Len(chunk) + Len(pipe) + Len(rest))
    PROVE  out \o chunk \o pipe \o rest \o pty =
             Bytes(Len(out) + Len(chunk) + Len(pipe) + Len(rest) + Len(pty))
<1>0. /\ Len(out) \in Nat /\ Len(chunk) \in Nat /\ Len(pipe) \in Nat /\ Len(rest) \in Nat
      /\ Len(pty) \in Nat
  BY NoneFacts
<1> DEFINE p == out \o chunk
           q == p \o pipe
           r == q \o rest
           s == r \o pty
<1>1. p \in Seq(S) /\ Len(p) = Len(out) + Len(chunk) /\ Line(p, 0)
  BY LineGrows
<1> HIDE DEF p
<1>2. q \in Seq(S) /\ Len(q) = Len(out) + Len(chunk) + Len(pipe) /\ Line(q, 0)
  <2>1. Line(pipe, Len(p))
    BY <1>1
  <2>2. q \in Seq(S) /\ Len(q) = Len(p) + Len(pipe) /\ Line(q, 0)
    BY <1>1, <2>1, LineGrows
  <2> HIDE DEF q
  <2> QED BY <1>1, <2>2
<1> HIDE DEF q
<1>3. r \in Seq(S) /\ Len(r) = Len(out) + Len(chunk) + Len(pipe) + Len(rest) /\ Line(r, 0)
  <2>1. Line(rest, Len(q))
    BY <1>2
  <2>2. r \in Seq(S) /\ Len(r) = Len(q) + Len(rest) /\ Line(r, 0)
    BY <1>2, <2>1, LineGrows
  <2> HIDE DEF r
  <2> QED BY <1>2, <2>2
<1> HIDE DEF r
<1>4. /\ s \in Seq(S) /\ Len(s) = Len(out) + Len(chunk) + Len(pipe) + Len(rest) + Len(pty)
      /\ Line(s, 0)
  <2>1. Line(pty, Len(r))
    BY <1>3
  <2>2. s \in Seq(S) /\ Len(s) = Len(r) + Len(pty) /\ Line(s, 0)
    BY <1>3, <2>1, LineGrows
  <2> HIDE DEF s
  <2> QED BY <1>3, <2>2
<1> HIDE DEF s
<1>5. s = Bytes(Len(s))
  BY <1>4, LineIsBytes
<1> QED BY <1>4, <1>5 DEF p, q, r, s

LEMMA FlowConserves == ASSUME SessionAssumption, Inv PROVE OutputIsConserved
<1> DEFINE out == IF Attached THEN shown \o sock
                  ELSE log \o (IF landing = <<>> THEN <<>> ELSE <<landing[1]>>)
<1> SUFFICES ASSUME copier \in {"new", "on"}, reader = "on", Attached => client = "here",
                    ~disturbed, ~broken
             PROVE  out \o chunk \o pipe \o rest \o pty = Bytes(produced)
  BY DEF OutputIsConserved
<1>1. /\ SeqInv /\ FlowInv /\ SentInv /\ LogInv /\ Lengths
  BY LengthFacts DEF Inv, StreamInv
<1>2. Flow
  BY <1>1 DEF FlowInv, Delivers
<1>3. /\ Line(pty, produced - Len(pty))
      /\ Written + Len(chunk) + Len(pipe) + Len(rest) + Len(pty) = produced
  BY <1>1, <1>2 DEF FlowInv, Flow
<1> DEFINE T == Nat \cup {REPORT, HOLE, FOREIGN}
<1>4. /\ pty \in Seq(T) /\ rest \in Seq(T) /\ pipe \in Seq(T) /\ chunk \in Seq(T)
  <2>1. Nat \subseteq T
    OBVIOUS
  <2> HIDE DEF T
  <2> QED BY <1>1, <2>1, WiderSeq DEF SeqInv
<1>5. out \in Seq(T) /\ Len(out) = Written /\ Line(out, 0)
  <2>1. CASE Attached
    <3>1. Begins /\ Len(Sent) = Len(shown) + Len(sock) /\ Sent \in Seq(Nat \cup {REPORT})
      BY <1>1, SentFacts DEF SentInv, Reported
    <3>2. Sent \in Seq(T)
      <4>1. (Nat \cup {REPORT}) \subseteq T
        OBVIOUS
      <4> HIDE DEF T
      <4> QED BY <3>1, <4>1, WiderSeq
    <3>3. out = Sent
      BY <2>1 DEF Sent
    <3> QED BY <2>1, <3>1, <3>2, <3>3 DEF Begins, Written
  <2>2. CASE ~Attached
    <3>1. Line(log, 0)
      BY <1>1 DEF LogInv, LogKeepsPlaces, Line
    <3>2. log \in Seq(T)
      <4>1. LogCells \subseteq T
        BY DEF LogCells
      <4> HIDE DEF T
      <4> QED BY <1>1, <4>1, WiderSeq DEF SeqInv
    <3>3. CASE landing = <<>>
      <4>1. Len(log) = offset
        BY <1>1, <3>3 DEF LogInv
      <4>2. out = log
        <5> HIDE DEF T
        <5>1. out = log \o <<>>
          BY <2>2, <3>3
        <5> QED BY <3>2, <5>1, ConcatEmptySeq
      <4> QED BY <2>2, <3>1, <3>2, <4>1, <4>2 DEF Written
    <3>4. CASE landing # <<>>
      <4> DEFINE w == <<offset>>
      <4>1. landing = <<offset, offset>> /\ offset >= 1 /\ Len(log) = offset - 1
        BY <1>1, <3>4 DEF LogInv
      <4>2. out = log \o w
        BY <2>2, <3>4, <4>1
      <4>3. w \in Seq(T) /\ Len(w) = 1 /\ Line(w, Len(log))
        BY <1>1, <4>1 DEF Lengths, Line
      <4> HIDE DEF w, T
      <4>4. log \o w \in Seq(T) /\ Len(log \o w) = Len(log) + 1 /\ Line(log \o w, 0)
        BY <3>1, <3>2, <4>3, LineGrows
      <4>5. Len(log \o w) = offset
        BY <1>1, <4>1, <4>4 DEF Lengths
      <4> QED BY <2>2, <4>2, <4>4, <4>5 DEF Written
    <3> QED BY <3>3, <3>4
  <2> QED BY <2>1, <2>2
<1> HIDE DEF out, T
<1>6. /\ Line(chunk, Len(out)) /\ Line(pipe, Len(out) + Len(chunk))
      /\ Line(rest, Len(out) + Len(chunk) + Len(pipe))
  BY <1>2, <1>5 DEF Flow
<1>7. Line(pty, Len(out) + Len(chunk) + Len(pipe) + Len(rest))
  <2>1. Written \in Nat
    BY <1>1, WrittenIsNat
  <2>2. produced - Len(pty) = Len(out) + Len(chunk) + Len(pipe) + Len(rest)
    BY <1>1, <1>3, <1>5, <2>1 DEF Lengths
  <2> QED BY <1>3, <2>2
<1>8. out \o chunk \o pipe \o rest \o pty =
        Bytes(Len(out) + Len(chunk) + Len(pipe) + Len(rest) + Len(pty))
  BY <1>4, <1>5, <1>6, <1>7, BuffersConcat
<1> QED BY <1>3, <1>5, <1>8

-----------------------------------------------------------------------------
(* The theorems.                                                           *)

\* The flow of the bytes through the buffers, as an invariant of every session.
THEOREM StreamInvariant == Spec => []Inv
<1>1. Init => Inv
  BY InitHolds, SessionAssumption
<1>2. Inv /\ [Next]_vars => Inv'
  BY InvStep, SessionAssumption
<1> QED BY <1>1, <1>2, PTL DEF Spec

\* Every variable holds a value of its kind, and no buffer more than it has room
\* for: the pty, the pipe of one byte, the socket, and the buffers of the two tasks.
THEOREM SessionTypes == Spec => []TypeOK
<1>1. Inv => TypeOK
  BY DEF Inv
<1> QED BY <1>1, StreamInvariant, PTL

\* The client prints the output from its first byte on, in order and without gaps,
\* and the report of the exit only after the last byte it will get: do_run writes
\* the report into the socket of the copying task when that task is gone.
THEOREM ClientSeesTheOutput == Spec => []ShownInOrder
<1>1. Inv => ShownInOrder
  BY SentIsShown, SessionAssumption
<1> QED BY <1>1, StreamInvariant, PTL

\* While nobody is aborted and nobody leaves, no byte is lost or doubled on its way
\* from the command through read_from_pty, the pipe and the copying task.
THEOREM NoByteIsLost == Spec => []OutputIsConserved
<1>1. Inv => OutputIsConserved
  BY FlowConserves, SessionAssumption
<1> QED BY <1>1, StreamInvariant, PTL

\* A byte in the log is at its place, whatever was aborted, failed or was disturbed
\* by another session of the container.
THEOREM LogBytesKeepPlaces == Spec => []LogKeepsPlaces
<1>1. Inv => LogKeepsPlaces
  BY DEF Inv, StreamInv, LogInv
<1> QED BY <1>1, StreamInvariant, PTL
=============================================================================
