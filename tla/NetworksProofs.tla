--------------------------- MODULE NetworksProofs ---------------------------
(***************************************************************************)
(* Theorems about the creation of networks, for any number of handlers,    *)
(* requests and failures, and address families of any size.                *)
(***************************************************************************)
EXTENDS Networks, IpamProofs

\* Where a handler may be: without a daemon, and with a bridge that it has made.
Places   == {"new", "lock"} \cup Working \cup Ended
Fresh    == {"new", "killed", "past", "stray"}
Answered == {"insert", "write"}
Linked   == {"forward", "masquerade", "answer", "insert", "write"}

\* The bitmaps keep their kind however often they are loaded.
BitmapInv == Maps(subnets) /\ Maps(file.subnets)

\* Without a daemon there is no table and nobody is at work.
DownInv ==
    life # "up" => /\ subnets = NoSubnets /\ networks = <<>>
                   /\ \A h \in Handlers : pc[h] \in Fresh

\* What a handler asked for and answered follows from its step.
AskInv ==
    \A h \in Handlers :
        /\ pc[h] # "new" => req[h] \in Requests
        /\ pc[h] \in ({"new", "lock"} \cup Working) \ Answered => reply[h] = "none"
        /\ pc[h] \in Answered => reply[h] = "ok"

\* Who works has a subnet of its own with the gateway taken, and enters it in the
\* table before it writes.
OwnInv ==
    \A h \in Handlers : pc[h] \in Working =>
        /\ Cidr(h) \in DOMAIN subnets /\ 0 \in Taken(subnets, Cidr(h))
        /\ gateway[h] = IpOf(Cidr(h), 1)
        /\ pc[h] # "write" => /\ Name(h) \notin DOMAIN networks
                              /\ \A n \in DOMAIN networks : networks[n].cidr # Cidr(h)
        /\ pc[h] = "write" => /\ Name(h) \in DOMAIN networks
                              /\ networks[Name(h)] = [cidr |-> Cidr(h), gateway |-> gateway[h]]
                              /\ file = TornFile

\* Its bridge is there from the second call on, and done after the third.
LinkInv ==
    \A h \in Handlers :
        /\ pc[h] \in {"address", "up", "unbridge"} => Name(h) \in DOMAIN links
        /\ pc[h] = "up" => links[Name(h)].ip = gateway[h]
        /\ pc[h] \in Linked => /\ Name(h) \in DOMAIN links
                               /\ links[Name(h)] = [ip |-> gateway[h], up |-> TRUE]

\* The file has a beginning of the table, or nothing.
FileInv ==
    /\ file.st # "full" => file = NoFile \/ file = TornFile
    /\ file.st # "torn" => saved \subseteq DOMAIN file.networks
    /\ life = "up" => /\ saved \subseteq DOMAIN networks
                      /\ \A n \in DOMAIN file.networks :
                            n \in DOMAIN networks /\ networks[n] = file.networks[n]

\* The two halves of Complete: the subnets of a table, and its bridges.
Reserved(s, t) ==
    \A n \in DOMAIN t :
        /\ t[n].cidr \in DOMAIN s /\ 0 \in Taken(s, t[n].cidr)
        /\ \A m \in DOMAIN t \ {n} : t[m].cidr # t[n].cidr

Bridged(t) ==
    \A n \in DOMAIN t : n \in DOMAIN links /\ links[n] = [ip |-> t[n].gateway, up |-> TRUE]

ReservedInv == Reserved(subnets, networks) /\ Reserved(file.subnets, file.networks)
BridgedInv  == Bridged(networks) /\ Bridged(file.networks)

\* Each network was made by somebody who answered so.
MakerInv ==
    /\ \A n \in DOMAIN networks : \E h \in Handlers :
          Name(h) = n /\ reply[h] = "ok" /\ pc[h] \in {"write", "over", "past"}
    /\ \A n \in DOMAIN file.networks : \E h \in Handlers :
          Name(h) = n /\ reply[h] = "ok" /\ pc[h] \in {"over", "past"}

\* Those that may have left a bridge without a network.
Astray(h) == \/ pc[h] \in (Working \ {"bridge", "giveup"}) \cup {"killed", "stray"}
             \/ pc[h] = "past" /\ reply[h] = "ok"

\* The table that this daemon has or the next one will load.
Current == IF life = "up" THEN networks ELSE file.networks

StrayLinkInv ==
    \A n \in DOMAIN links \ DOMAIN Current : \E h \in Handlers : Name(h) = n /\ Astray(h)

StraySubnetInv ==
    /\ \A c \in DOMAIN subnets :
          \/ \E n \in DOMAIN networks : networks[n].cidr = c
          \/ \E h \in Handlers : Cidr(h) = c /\ (pc[h] \in Working \/ reply[h] = "err")
    /\ \A c \in DOMAIN file.subnets :
          \/ \E n \in DOMAIN file.networks : file.networks[n].cidr = c
          \/ \E h \in Handlers : Cidr(h) = c /\ reply[h] = "err"

GatewayInv ==
    /\ \A n \in DOMAIN networks : networks[n].gateway = IpOf(networks[n].cidr, 1)
    /\ \A n \in DOMAIN file.networks :
          file.networks[n].gateway = IpOf(file.networks[n].cidr, 1)

Inv == /\ TypeOK /\ BitmapInv /\ DownInv /\ AskInv /\ OwnInv /\ LinkInv /\ FileInv
       /\ ReservedInv /\ BridgedInv /\ MakerInv /\ StrayLinkInv /\ StraySubnetInv
       /\ GatewayInv /\ CreatedIsListed

-----------------------------------------------------------------------------
(* Facts that the cases share.                                             *)

LEMMA FileFacts ==
    /\ NoFile.st = "absent" /\ NoFile.subnets = NoSubnets /\ NoFile.networks = <<>>
    /\ TornFile.st = "torn" /\ TornFile.subnets = NoSubnets /\ TornFile.networks = <<>>
    /\ DOMAIN NoSubnets = {} /\ Maps(NoSubnets)
BY DEF NoFile, TornFile, NoSubnets, Maps

LEMMA GotoFacts ==
    ASSUME TypeOK, NEW h \in Handlers, NEW step \in Places, Goto(h, step)
    PROVE  /\ pc' \in [Handlers -> Places] /\ pc'[h] = step
           /\ \A g \in Handlers : g # h => pc'[g] = pc[g]
BY DEF TypeOK, Goto, Places

LEMMA AnswerFacts ==
    ASSUME TypeOK, NEW h \in Handlers, NEW word \in {"ok", "err", "panic"}, Answer(h, word)
    PROVE  /\ reply' \in [Handlers -> {"none", "ok", "err", "panic"}] /\ reply'[h] = word
           /\ \A g \in Handlers : g # h => reply'[g] = reply[g]
BY DEF TypeOK, Answer

LEMMA FaultFacts ==
    ASSUME TypeOK
    PROVE  /\ Fault => faults' \in 0 .. MaxFaults
           /\ NoFault => faults' \in 0 .. MaxFaults
BY RequestsAssumption DEF TypeOK, Fault, NoFault

\* Who works is alone, in a daemon that is up, with a request of the right kind.
LEMMA AloneAtWork ==
    ASSUME Inv, NEW h \in Handlers, pc[h] \in Working
    PROVE  /\ life = "up" /\ holder = h
           /\ \A g \in Handlers : g # h => pc[g] \notin Working
           /\ req[h] \in Requests /\ Cidr(h) \in Cidrs
<1>1. life = "up"
  BY DEF Inv, DownInv, Fresh, Working
<1>2. holder = h /\ \A g \in Handlers : g # h => pc[g] \notin Working
  BY DEF Inv, TypeOK
<1>3. req[h] \in Requests
  BY DEF Inv, AskInv, Working
<1>4. Cidr(h) \in Cidrs
  BY DEF Inv, OwnInv, BitmapInv, Maps
<1> QED BY <1>1, <1>2, <1>3, <1>4

LEMMA InitHolds == ASSUME Init PROVE Inv
<1> USE FileFacts DEF Init
<1>1. \A h \in Handlers : pc[h] = "new" /\ reply[h] = "none" /\ holder # h
  BY RequestsAssumption
<1>2. TypeOK
  <2>1. /\ Subnets(subnets) /\ Table(networks) /\ Subnets(file.subnets) /\ Table(file.networks)
    BY DEF Subnets, Table
  <2>2. /\ pc \in [Handlers -> {"new", "lock"} \cup Working \cup Ended]
        /\ req \in [Handlers -> Requests \cup {NoRequest}]
        /\ gateway \in [Handlers -> Addresses \cup {NONE}]
        /\ reply \in [Handlers -> {"none", "ok", "err", "panic"}]
    OBVIOUS
  <2>3. \A h \in Handlers : pc[h] \in Working <=> holder = h
    BY <1>1 DEF Working
  <2>4. DOMAIN links = {}
    OBVIOUS
  <2> QED BY <2>1, <2>2, <2>3, <2>4, RequestsAssumption DEF TypeOK
<1>3. BitmapInv /\ DownInv /\ AskInv
  BY <1>1 DEF BitmapInv, DownInv, AskInv, Fresh, Answered
<1>4. OwnInv /\ LinkInv /\ FileInv
  BY <1>1 DEF OwnInv, LinkInv, FileInv, Working, Linked
<1>5. ReservedInv /\ BridgedInv /\ MakerInv /\ StrayLinkInv /\ StraySubnetInv /\ GatewayInv
  BY DEF ReservedInv, BridgedInv, Reserved, Bridged, MakerInv, StrayLinkInv, StraySubnetInv,
         GatewayInv
<1>6. CreatedIsListed
  BY <1>1 DEF CreatedIsListed
<1> QED BY <1>2, <1>3, <1>4, <1>5, <1>6 DEF Inv

-----------------------------------------------------------------------------
(* The daemon.                                                             *)

LEMMA StartStep == ASSUME Inv, Start PROVE Inv'
<1> USE DEF Inv, table, kernel, task
<1>1. life = "down" /\ \A h \in Handlers : pc[h] \in Fresh
  BY DEF Start, DownInv
<1>2. /\ UNCHANGED <<file, holder, links, rules, pc, req, gateway, reply, checked, faults, saved>>
  BY DEF Start
<1>3. AskInv' /\ LinkInv'
  BY <1>2 DEF AskInv, LinkInv, Name
<1>4. OwnInv'
  BY <1>1, <1>2 DEF OwnInv, Fresh, Working
<1>5. CASE file.st = "torn"
  <2>1. life' = "failed" /\ UNCHANGED <<subnets, networks>>
    BY <1>5 DEF Start
  <2>2. TypeOK'
    BY <1>2, <2>1 DEF TypeOK, Subnets, Table
  <2>3. BitmapInv' /\ DownInv' /\ FileInv'
    BY <1>1, <1>2, <2>1 DEF BitmapInv, DownInv, FileInv, Maps
  <2>4. ReservedInv' /\ BridgedInv' /\ GatewayInv'
    BY <1>2, <2>1 DEF ReservedInv, BridgedInv, Reserved, Bridged, Taken, GatewayInv
  <2>7. MakerInv'
    BY <1>2, <2>1 DEF MakerInv, Name
  <2>8. StraySubnetInv'
    BY <1>2, <2>1 DEF StraySubnetInv, Cidr
  <2>5. StrayLinkInv'
    BY <1>1, <1>2, <2>1 DEF StrayLinkInv, Current, Astray, Name
  <2>6. CreatedIsListed'
    BY <1>1, <1>2 DEF CreatedIsListed, Fresh
  <2> QED BY <1>3, <1>4, <2>2, <2>3, <2>4, <2>5, <2>6, <2>7, <2>8
<1>6. CASE file.st # "torn"
  <2>1. life' = "up" /\ subnets' = Reloaded(file.subnets) /\ networks' = file.networks
    BY <1>6 DEF Start
  <2>2. /\ DOMAIN subnets' = DOMAIN file.subnets /\ Maps(subnets')
        /\ \A c \in DOMAIN file.subnets : subnets'[c].taken = file.subnets[c].taken
    BY <2>1, ReloadFacts, IpamAssumption DEF BitmapInv
  <2>3. BitmapInv' /\ DownInv'
    BY <1>2, <2>1, <2>2 DEF BitmapInv, DownInv, Maps
  <2>4. TypeOK'
    <3>1. Subnets(subnets)'
      BY <2>2 DEF Maps, Subnets
    <3> QED BY <1>2, <2>1, <3>1 DEF TypeOK, Subnets, Table
  <2>5. FileInv'
    BY <1>2, <1>6, <2>1 DEF FileInv
  <2>6. ReservedInv'
    BY <1>2, <2>1, <2>2 DEF ReservedInv, Reserved, Taken
  <2>7. BridgedInv' /\ GatewayInv'
    BY <1>2, <2>1 DEF BridgedInv, Bridged, GatewayInv
  <2>8. MakerInv'
    BY <1>2, <2>1 DEF MakerInv, Name
  <2>9. StrayLinkInv'
    BY <1>1, <1>2, <2>1 DEF StrayLinkInv, Current, Astray, Name
  <2>10. StraySubnetInv'
    BY <1>2, <2>1, <2>2 DEF StraySubnetInv, Cidr
  <2>11. CreatedIsListed'
    BY <1>1, <1>2 DEF CreatedIsListed, Fresh
  <2> QED BY <1>3, <1>4, <2>3, <2>4, <2>5, <2>6, <2>7, <2>8, <2>9, <2>10, <2>11
<1> QED BY <1>5, <1>6

LEMMA DieStep == ASSUME Inv, Die PROVE Inv'
<1> USE DEF Inv, table, kernel, task
<1>1. /\ life = "up" /\ life' = "down" /\ subnets' = NoSubnets /\ networks' = <<>>
      /\ holder' = NONE
      /\ UNCHANGED <<file, links, rules, req, gateway, reply, checked, saved>>
  BY DEF Die
<1>2. \A h \in Handlers :
        /\ pc[h] \in {"lock"} \cup Working => pc'[h] = "killed"
        /\ pc[h] = "over" => pc'[h] = "past"
        /\ pc[h] \in Fresh => pc'[h] = pc[h]
        /\ pc[h] \in {"lock"} \cup Working \cup {"over"} \cup Fresh
  <2> SUFFICES ASSUME NEW h \in Handlers
               PROVE  /\ pc[h] \in {"lock"} \cup Working => pc'[h] = "killed"
                      /\ pc[h] = "over" => pc'[h] = "past"
                      /\ pc[h] \in Fresh => pc'[h] = pc[h]
                      /\ pc[h] \in {"lock"} \cup Working \cup {"over"} \cup Fresh
    OBVIOUS
  <2>1. pc'[h] = CASE pc[h] \in {"lock"} \cup Working -> "killed"
                   [] pc[h] = "over" -> "past"
                   [] OTHER -> pc[h]
    BY DEF Die
  <2>2. pc[h] \in {"lock"} \cup Working \cup {"over"} \cup Fresh
    BY DEF TypeOK, Ended, Fresh
  <2>3. CASE pc[h] \in {"lock"} \cup Working
    BY <2>1, <2>3 DEF Working, Fresh
  <2>4. CASE pc[h] = "over"
    BY <2>1, <2>4 DEF Working, Fresh
  <2>5. CASE pc[h] \in Fresh
    BY <2>1, <2>5 DEF Working, Fresh
  <2> QED BY <2>2, <2>3, <2>4, <2>5
<1>3. \A h \in Handlers : pc'[h] \in Fresh
  BY <1>2 DEF Fresh
<1>4. DOMAIN pc' = Handlers /\ pc' = [h \in DOMAIN pc' |-> pc'[h]]
  BY DEF Die
<1>5. TypeOK'
  <2>1. pc' \in [Handlers -> {"new", "lock"} \cup Working \cup Ended]
    BY <1>3, <1>4 DEF Fresh, Ended
  <2>2. \A h \in Handlers : pc'[h] \in Working <=> holder' = h
    BY <1>1, <1>3, RequestsAssumption DEF Fresh, Working
  <2>3. Subnets(subnets)' /\ Table(networks)'
    BY <1>1, FileFacts DEF Subnets, Table
  <2>4. faults' \in 0 .. MaxFaults
    BY FaultFacts DEF Die
  <2> QED BY <1>1, <2>1, <2>2, <2>3, <2>4 DEF TypeOK, Subnets, Table
<1>6. BitmapInv' /\ DownInv'
  BY <1>1, <1>3, FileFacts DEF BitmapInv, DownInv, Maps
<1>7. AskInv'
  <2>1. \A h \in Handlers : pc'[h] = "new" => pc[h] = "new"
    BY <1>2 DEF Fresh
  <2>2. \A h \in Handlers : pc'[h] # "new" => pc[h] # "new"
    BY <1>2 DEF Fresh
  <2> QED BY <1>1, <1>3, <2>1, <2>2 DEF AskInv, Fresh, Working, Answered
<1>8. OwnInv' /\ LinkInv'
  BY <1>3 DEF OwnInv, LinkInv, Fresh, Working, Linked
<1>9. FileInv'
  BY <1>1 DEF FileInv
<1>10. ReservedInv' /\ BridgedInv' /\ GatewayInv'
  <2>1. DOMAIN networks' = {}
    BY <1>1
  <2>2. ReservedInv'
    <3>1. Reserved(file.subnets, file.networks)
      BY DEF ReservedInv
    <3>2. Reserved(subnets, networks)'
      BY <2>1 DEF Reserved
    <3> QED BY <1>1, <3>1, <3>2 DEF ReservedInv, Reserved, Taken
  <2>3. BridgedInv'
    BY <1>1, <2>1 DEF BridgedInv, Bridged
  <2>4. GatewayInv'
    BY <1>1, <2>1 DEF GatewayInv
  <2> QED BY <2>2, <2>3, <2>4
<1>11. MakerInv'
  BY <1>1, <1>2, <1>3 DEF MakerInv, Name, Fresh, Working
<1>12. StrayLinkInv'
  <2> SUFFICES ASSUME NEW n \in DOMAIN links, n \notin DOMAIN file.networks
               PROVE  \E h \in Handlers : Name(h) = n /\ Astray(h)'
    BY <1>1 DEF StrayLinkInv, Current, Name
  <2>1. CASE n \in DOMAIN networks
    <3>1. PICK h \in Handlers :
             Name(h) = n /\ reply[h] = "ok" /\ pc[h] \in {"write", "over", "past"}
      BY <2>1 DEF MakerInv
    <3>2. pc'[h] = "killed" \/ pc'[h] = "past"
      BY <1>2, <3>1 DEF Working, Fresh
    <3> QED BY <1>1, <3>1, <3>2 DEF Astray
  <2>2. CASE n \notin DOMAIN networks
    <3>1. PICK h \in Handlers : Name(h) = n /\ Astray(h)
      BY <1>1, <2>2 DEF StrayLinkInv, Current
    <3>2. CASE pc[h] \in Working
      BY <1>2, <3>1, <3>2 DEF Astray
    <3>3. CASE pc[h] \in {"killed", "stray", "past"}
      BY <1>1, <1>2, <3>1, <3>3 DEF Astray, Fresh, Working
    <3> QED BY <3>1, <3>2, <3>3 DEF Astray
  <2> QED BY <2>1, <2>2
<1>13. StraySubnetInv'
  BY <1>1, FileFacts DEF StraySubnetInv, Cidr
<1>14. CreatedIsListed'
  BY <1>3 DEF CreatedIsListed, Fresh
<1> QED BY <1>5, <1>6, <1>7, <1>8, <1>9, <1>10, <1>11, <1>12, <1>13, <1>14

LEMMA StutterStep == ASSUME Inv, UNCHANGED vars PROVE Inv'
<1> USE DEF Inv, vars, table, kernel, task
<1>1. TypeOK'
  BY DEF TypeOK, Subnets, Table
<1>2. BitmapInv' /\ DownInv' /\ AskInv'
  BY DEF BitmapInv, Maps, DownInv, AskInv
<1>3. OwnInv' /\ LinkInv'
  BY DEF OwnInv, LinkInv, Cidr, Name, Taken
<1>4. FileInv' /\ ReservedInv' /\ BridgedInv' /\ GatewayInv'
  BY DEF FileInv, ReservedInv, Reserved, Taken, BridgedInv, Bridged, GatewayInv
<1>5. MakerInv' /\ StrayLinkInv'
  BY DEF MakerInv, StrayLinkInv, Current, Astray, Name
<1>6. StraySubnetInv' /\ CreatedIsListed'
  BY DEF StraySubnetInv, CreatedIsListed, Cidr, Name
<1> QED BY <1>1, <1>2, <1>3, <1>4, <1>5, <1>6

-----------------------------------------------------------------------------
(* A creation: its request, and the subnet it takes.                       *)

LEMMA AcceptStep ==
    ASSUME Inv, NEW h \in Handlers, NEW r \in Requests, Accept(h, r)
    PROVE  Inv'
<1> USE DEF Inv, table, kernel, task
<1>1. /\ pc[h] = "new" /\ life = "up"
      /\ UNCHANGED <<life, subnets, networks, file, holder, links, rules, gateway, reply,
                     checked, faults, saved>>
  BY DEF Accept
<1>2. /\ pc' \in [Handlers -> Places] /\ pc'[h] = "lock"
      /\ \A g \in Handlers : g # h => pc'[g] = pc[g]
  BY GotoFacts DEF Accept, Places
<1>3. /\ req' \in [Handlers -> Requests \cup {NoRequest}] /\ req'[h] = r
      /\ \A g \in Handlers : g # h => req'[g] = req[g]
  BY DEF Accept, TypeOK
<1>4. \A g \in Handlers : pc'[g] \in Working \/ pc'[g] \in {"over", "past", "killed", "stray"} =>
        pc'[g] = pc[g] /\ req'[g] = req[g] /\ g # h
  BY <1>2, <1>3 DEF Working
<1>5. \A g \in Handlers : pc[g] \in Working => pc'[g] = pc[g]
  BY <1>1, <1>2 DEF Working
<1>6. TypeOK'
  <2>1. \A g \in Handlers : pc'[g] \in Working <=> holder' = g
    BY <1>1, <1>4, <1>5 DEF TypeOK
  <2> QED BY <1>1, <1>2, <1>3, <2>1 DEF TypeOK, Places, Subnets, Table
<1>7. BitmapInv' /\ DownInv' /\ FileInv'
  BY <1>1 DEF BitmapInv, Maps, DownInv, FileInv
<1>8. AskInv'
  <2>1. reply[h] = "none"
    BY <1>1 DEF AskInv, Answered
  <2> QED BY <1>1, <1>2, <1>3, <2>1 DEF AskInv, Answered
<1>9. OwnInv'
  BY <1>1, <1>4 DEF OwnInv, Cidr, Name, Taken
<1>10. LinkInv'
  BY <1>1, <1>4 DEF LinkInv, Linked, Name, Working
<1>11. ReservedInv' /\ BridgedInv' /\ GatewayInv'
  BY <1>1 DEF ReservedInv, Reserved, Taken, BridgedInv, Bridged, GatewayInv
<1>12. \A g \in Handlers : pc[g] \in Working \cup {"over", "past", "killed", "stray"} =>
         pc'[g] = pc[g] /\ Name(g)' = Name(g)
  BY <1>1, <1>2, <1>3 DEF Working, Name
<1>13. MakerInv'
  BY <1>1, <1>12 DEF MakerInv, Working
<1>14. StrayLinkInv'
  <2>1. \A g \in Handlers : Astray(g) => Astray(g)' /\ Name(g)' = Name(g)
    BY <1>1, <1>12 DEF Astray
  <2> QED BY <1>1, <2>1 DEF StrayLinkInv, Current
<1>15. StraySubnetInv'
  <2>1. reply[h] # "err" /\ pc[h] \notin Working
    BY <1>1 DEF AskInv, Answered, Working
  <2>2. \A g \in Handlers : g # h => Cidr(g)' = Cidr(g) /\ pc'[g] = pc[g]
    BY <1>2, <1>3 DEF Cidr
  <2> QED BY <1>1, <2>1, <2>2 DEF StraySubnetInv
<1>16. CreatedIsListed'
  BY <1>1, <1>4 DEF CreatedIsListed, Name, Cidr
<1> QED BY <1>6, <1>7, <1>8, <1>9, <1>10, <1>11, <1>13, <1>14, <1>15, <1>16

\* A subnet that is not there yet is entered, with the gateway taken or, in an
\* answer of "err", without; or nothing changes.
Entered(s, t, c) ==
    /\ c \notin DOMAIN s /\ DOMAIN t = DOMAIN s \cup {c}
    /\ \A d \in DOMAIN s : t[d] = s[d]

LEMMA ReservationFacts ==
    ASSUME Inv, NEW h \in Handlers, Cidr(h) \in Cidrs
    PROVE  LET out == Reservation(h)
           IN  /\ Maps(out.subnets)
               /\ \/ /\ out.st = "ok" /\ Entered(subnets, out.subnets, Cidr(h))
                     /\ 0 \in out.subnets[Cidr(h)].taken
                     /\ out.ip = IpOf(Cidr(h), 1) /\ out.ip \in Addresses
                  \/ out.st = "err" /\ Entered(subnets, out.subnets, Cidr(h))
                  \/ out.st \in {"err", "panic"} /\ out.subnets = subnets
<1> DEFINE c == Cidr(h)
           added == AddSubnet(subnets, c, checked)
           out == Reservation(h)
<1>1. Maps(subnets) /\ checked \in BOOLEAN
  BY DEF Inv, BitmapInv, TypeOK
<1>2. \/ /\ added.st = "ok" /\ c \notin DOMAIN subnets
         /\ ~(checked /\ CapacityOverflows(c))
         /\ DOMAIN added.subnets = DOMAIN subnets \cup {c}
         /\ \A d \in DOMAIN subnets : added.subnets[d] = subnets[d]
         /\ added.subnets[c] = [len |-> Capacity(c), taken |-> {}]
         /\ Maps(added.subnets)
      \/ added.st \in {"err", "panic"} /\ added.subnets = subnets /\ added.ip = NONE
  <2> HIDE DEF c
  <2>1. c \in Cidrs
    BY DEF c
  <2> QED BY <1>1, <2>1, AddFacts, IpamAssumption
<1>3. CASE added.st # "ok"
  <2>1. out = added
    BY <1>3 DEF Reservation
  <2> QED BY <1>1, <1>2, <1>3, <2>1
<1>4. CASE added.st = "ok"
  <2> DEFINE s == added.subnets
  <2>1. /\ Maps(s) /\ c \in DOMAIN s /\ s[c] = [len |-> Capacity(c), taken |-> {}]
        /\ Entered(subnets, s, c) /\ ~(checked /\ CapacityOverflows(c))
    BY <1>2, <1>4 DEF Entered
  <2>2. out = AllocateGateway(s, c, checked)
    BY <1>4 DEF Reservation
  <2>3. c \in Cidrs
    OBVIOUS
  <2> HIDE DEF added, s, c, out
  <2>4. CASE s[c].len % Modulus = 0 \/ 0 \in s[c].taken
    <3>1. out.st = "err" /\ out.subnets = s
      BY <2>2, <2>4 DEF AllocateGateway, Failed, Outcome
    <3> QED BY <2>1, <3>1 DEF c, out
  <2>5. CASE s[c].len % Modulus # 0 /\ 0 \notin s[c].taken
    <3>1. out = Take(s, c, 0, checked)
      BY <2>1, <2>2, <2>5 DEF AllocateGateway
    <3>2. 0 < s[c].len /\ s[c].len = Capacity(c)
      <4>1. Capacity(c) \in 0 .. (Modulus - 1)
        BY <2>3, CapacityFacts, IpamAssumption
      <4>2. 0 % Modulus = 0
        BY IpamAssumption DEF IpamAssumption
      <4> QED BY <2>1, <2>5, <4>1, <4>2, IpamAssumption
    <3>3. /\ SameButBits(s, out.subnets, c) /\ Maps(out.subnets)
          /\ out.subnets[c].taken = s[c].taken \cup {0}
          /\ \/ out.st = "ok" /\ out.ip = IpOf(c, 0 + 1) /\ out.ip \in Addresses
             \/ out.st = "panic" /\ out.ip = NONE /\ IpPanics(c, 0 + 1, checked)
      BY <1>1, <2>1, <3>1, <3>2, TakeFacts, IpamAssumption
    <3>4. ~IpPanics(c, 1, checked)
      <4>1. CASE checked
        <5>1. ~CapacityOverflows(c) /\ c.size # 1 /\ c.size \in 1 .. Modulus
          BY <2>1, <2>3, <4>1, MaskFacts, IpamAssumption DEF CapacityOverflows
        <5>2. 1 < c.size
          BY <5>1, IpamAssumption
        <5> QED BY <1>1, <2>3, <5>1, <5>2, IpOfFacts, IpamAssumption
      <4>2. CASE ~checked
        BY <4>2 DEF IpPanics
      <4> QED BY <4>1, <4>2
    <3>5. out.st = "ok" /\ out.ip = IpOf(c, 1) /\ out.ip \in Addresses
      BY <3>3, <3>4
    <3>6. Entered(subnets, out.subnets, c)
      BY <2>1, <3>3 DEF Entered, SameButBits
    <3> QED BY <3>3, <3>5, <3>6 DEF c, out
  <2> QED BY <2>4, <2>5
<1> QED BY <1>3, <1>4

LEMMA ReserveStep ==
    ASSUME Inv, NEW h \in Handlers, Reserve(h)
    PROVE  Inv'
<1> USE DEF Inv, table, kernel, task
<1>1. /\ pc[h] = "lock" /\ holder = NONE /\ life = "up" /\ life' = "up"
      /\ UNCHANGED <<networks, file, links, rules, req, checked, faults, saved>>
  BY DEF Reserve, DownInv, Fresh
<1>2. /\ req[h] \in Requests /\ reply[h] = "none"
      /\ \A g \in Handlers : pc[g] \notin Working
  BY <1>1, RequestsAssumption DEF AskInv, TypeOK, Answered
\* The parts that no case can disturb.
<1>3. ASSUME NEW step \in Places \ {"new", "lock"}, Goto(h, step),
             Maps(subnets'), reply' \in [Handlers -> {"none", "ok", "err", "panic"}],
             \A g \in Handlers : g # h => reply'[g] = reply[g],
             \A c \in DOMAIN subnets : c \in DOMAIN subnets' /\ subnets'[c] = subnets[c],
             \A c \in DOMAIN subnets' \ DOMAIN subnets :
                c = Cidr(h) /\ (step \in Working \/ reply'[h] = "err"),
             step \in {"bridge", "over"}, step = "over" => reply'[h] \in {"err", "panic"},
             step = "bridge" => reply'[h] = "none" /\ holder' = h /\ gateway'[h] \in Addresses,
             step = "over" => holder' = NONE,
             gateway' \in [Handlers -> Addresses \cup {NONE}],
             step = "bridge" => /\ Cidr(h) \in DOMAIN subnets' \ DOMAIN subnets
                                /\ 0 \in Taken(subnets', Cidr(h))
                                /\ gateway'[h] = IpOf(Cidr(h), 1)
                                /\ Name(h) \notin DOMAIN networks
      PROVE  Inv'
  <2>1. /\ pc' \in [Handlers -> Places] /\ pc'[h] = step
        /\ \A g \in Handlers : g # h => pc'[g] = pc[g]
    BY <1>3, GotoFacts
  <2>2. \A g \in Handlers : g # h => pc'[g] \notin Working
    BY <1>2, <2>1
  <2>3. TypeOK'
    <3>1. \A g \in Handlers : pc'[g] \in Working <=> holder' = g
      BY <1>3, <2>1, <2>2, RequestsAssumption DEF Working
    <3>2. Subnets(subnets)'
      BY <1>3 DEF Maps, Subnets
    <3>3. holder' \in Handlers \cup {NONE}
      BY <1>3
    <3> QED BY <1>1, <1>3, <2>1, <3>1, <3>2, <3>3 DEF TypeOK, Places, Subnets, Table
  <2>4. BitmapInv' /\ DownInv' /\ FileInv'
    BY <1>1, <1>3 DEF BitmapInv, Maps, DownInv, FileInv
  <2>5. AskInv'
    BY <1>1, <1>2, <1>3, <2>1 DEF AskInv, Working, Answered
  <2>6. OwnInv'
    <3> SUFFICES ASSUME step = "bridge"
                 PROVE  /\ Cidr(h)' \in DOMAIN subnets' /\ 0 \in Taken(subnets', Cidr(h)')
                        /\ gateway'[h] = IpOf(Cidr(h)', 1)
                        /\ Name(h)' \notin DOMAIN networks'
                        /\ \A n \in DOMAIN networks' : networks'[n].cidr # Cidr(h)'
      BY <1>3, <2>1, <2>2 DEF OwnInv, Working
    <3>1. \A n \in DOMAIN networks : networks[n].cidr # Cidr(h)
      BY <1>3 DEF ReservedInv, Reserved
    <3> QED BY <1>1, <1>3, <3>1 DEF Cidr, Name
  <2>7. LinkInv'
    BY <1>3, <2>1, <2>2 DEF LinkInv, Linked, Working
  <2>8. ReservedInv'
    BY <1>1, <1>3 DEF ReservedInv, Reserved, Taken
  <2>9. BridgedInv' /\ GatewayInv'
    BY <1>1 DEF BridgedInv, Bridged, GatewayInv
  <2>10. \A g \in Handlers : /\ Name(g)' = Name(g) /\ Cidr(g)' = Cidr(g)
                             /\ g # h => pc'[g] = pc[g] /\ reply'[g] = reply[g]
    BY <1>1, <1>3, <2>1 DEF Name, Cidr
  <2>11. MakerInv'
    BY <1>1, <2>10 DEF MakerInv
  <2>12. StrayLinkInv'
    <3>1. \A g \in Handlers : Astray(g) => Astray(g)'
      BY <1>1, <2>10 DEF Astray, Working
    <3> QED BY <1>1, <2>10, <3>1 DEF StrayLinkInv, Current
  <2>13. StraySubnetInv'
    <3>1. ASSUME NEW c \in DOMAIN subnets'
          PROVE  \/ \E n \in DOMAIN networks : networks[n].cidr = c
                 \/ \E g \in Handlers : Cidr(g) = c /\ (pc'[g] \in Working \/ reply'[g] = "err")
      <4>1. CASE c \in DOMAIN subnets
        BY <1>2, <2>10, <4>1 DEF StraySubnetInv
      <4>2. CASE c \notin DOMAIN subnets
        BY <1>3, <2>1, <4>2
      <4> QED BY <4>1, <4>2
    <3>2. \A c \in DOMAIN file.subnets :
             \/ \E n \in DOMAIN file.networks : file.networks[n].cidr = c
             \/ \E g \in Handlers : Cidr(g) = c /\ reply'[g] = "err"
      BY <1>2, <2>10 DEF StraySubnetInv
    <3> QED BY <1>1, <2>10, <3>1, <3>2 DEF StraySubnetInv
  <2>14. CreatedIsListed'
    BY <1>1, <1>3, <2>1, <2>10 DEF CreatedIsListed
  <2> QED BY <2>3, <2>4, <2>5, <2>6, <2>7, <2>8, <2>9, <2>11, <2>12, <2>13, <2>14
<1>4. CASE Refused(h)
  <2>1. Goto(h, "over") /\ Answer(h, "err") /\ UNCHANGED <<subnets, holder, gateway>>
    BY <1>4 DEF Reserve
  <2>2. /\ reply' \in [Handlers -> {"none", "ok", "err", "panic"}] /\ reply'[h] = "err"
        /\ \A g \in Handlers : g # h => reply'[g] = reply[g]
    BY <2>1, AnswerFacts
  <2>3. Maps(subnets') /\ gateway' \in [Handlers -> Addresses \cup {NONE}]
    BY <2>1 DEF BitmapInv, Maps, TypeOK
  <2> QED BY <1>1, <1>3, <2>1, <2>2, <2>3 DEF Places, Ended, Working
<1>5. CASE ~Refused(h)
  <2> DEFINE out == Reservation(h)
  <2>1. Cidr(h) \in Cidrs /\ Name(h) \notin DOMAIN networks
    BY <1>2, <1>5, RequestsAssumption DEF Refused, Cidr
  <2>2. /\ Maps(out.subnets)
        /\ \/ /\ out.st = "ok" /\ Entered(subnets, out.subnets, Cidr(h))
              /\ 0 \in out.subnets[Cidr(h)].taken
              /\ out.ip = IpOf(Cidr(h), 1) /\ out.ip \in Addresses
           \/ out.st = "err" /\ Entered(subnets, out.subnets, Cidr(h))
           \/ out.st \in {"err", "panic"} /\ out.subnets = subnets
    BY <2>1, ReservationFacts
  <2>3. /\ subnets' = out.subnets
        /\ \/ /\ out.st = "ok" /\ Goto(h, "bridge") /\ holder' = h
              /\ gateway' = [gateway EXCEPT ![h] = out.ip] /\ UNCHANGED reply
           \/ /\ out.st # "ok" /\ Goto(h, "over") /\ Answer(h, out.st)
              /\ UNCHANGED <<holder, gateway>>
    BY <1>5 DEF Reserve
  <2> HIDE DEF out
  <2>4. CASE out.st = "ok"
    <3>1. /\ Goto(h, "bridge") /\ holder' = h /\ UNCHANGED reply
          /\ gateway' = [gateway EXCEPT ![h] = out.ip]
      BY <2>3, <2>4
    <3>2. /\ gateway' \in [Handlers -> Addresses \cup {NONE}] /\ gateway'[h] = out.ip
      BY <2>2, <2>4, <3>1 DEF TypeOK
    <3>3. reply' \in [Handlers -> {"none", "ok", "err", "panic"}] /\ reply' = reply
      BY <3>1 DEF TypeOK
    <3>4. /\ Maps(subnets') /\ Entered(subnets, subnets', Cidr(h))
          /\ 0 \in Taken(subnets', Cidr(h)) /\ gateway'[h] = IpOf(Cidr(h), 1)
          /\ gateway'[h] \in Addresses
      BY <2>2, <2>3, <2>4, <3>2 DEF Taken
    <3> QED BY <1>2, <1>3, <2>1, <3>1, <3>2, <3>3, <3>4 DEF Places, Working, Entered
  <2>5. CASE out.st # "ok"
    <3>1. /\ Goto(h, "over") /\ Answer(h, out.st) /\ UNCHANGED <<holder, gateway>>
          /\ out.st \in {"err", "panic"}
      BY <2>2, <2>3, <2>5
    <3>2. /\ reply' \in [Handlers -> {"none", "ok", "err", "panic"}] /\ reply'[h] = out.st
          /\ \A g \in Handlers : g # h => reply'[g] = reply[g]
      BY <3>1, AnswerFacts
    <3>3. /\ Maps(subnets')
          /\ \/ out.st = "err" /\ Entered(subnets, subnets', Cidr(h))
             \/ subnets' = subnets
      BY <2>2, <2>3, <2>5
    <3>4. gateway' \in [Handlers -> Addresses \cup {NONE}] /\ holder' = NONE
      BY <1>1, <3>1 DEF TypeOK
    <3> QED BY <1>3, <3>1, <3>2, <3>3, <3>4 DEF Places, Ended, Entered
  <2> QED BY <2>4, <2>5
<1> QED BY <1>4, <1>5

-----------------------------------------------------------------------------
(* The calls for the bridge.  They change only the link of a name that is  *)
(* in no table.                                                            *)

LEMMA BuildFacts ==
    ASSUME Inv, NEW h \in Handlers, NEW step \in Working \ Answered, Goto(h, step),
           pc[h] \in Working \ Answered,
           UNCHANGED <<life, subnets, networks, file, holder, req, gateway, reply, checked, saved>>,
           faults' \in 0 .. MaxFaults,
           \A n : n # Name(h) => /\ n \in DOMAIN links' <=> n \in DOMAIN links
                                 /\ n \in DOMAIN links => links'[n] = links[n],
           Name(h) \in DOMAIN links' =>
              links'[Name(h)] \in [ip : Addresses \cup {NONE}, up : BOOLEAN],
           step \in {"address", "up", "unbridge"} => Name(h) \in DOMAIN links',
           step = "up" => links'[Name(h)].ip = gateway[h],
           step \in Linked => /\ Name(h) \in DOMAIN links'
                              /\ links'[Name(h)] = [ip |-> gateway[h], up |-> TRUE],
           Name(h) \in DOMAIN links' =>
              \/ step \notin {"bridge", "giveup"}
              \/ \E g \in Handlers : g # h /\ Name(g) = Name(h) /\ Astray(g)
    PROVE  Inv'
<1> USE DEF Inv
<1>1. /\ pc' \in [Handlers -> Places] /\ pc'[h] = step
      /\ \A g \in Handlers : g # h => pc'[g] = pc[g]
  BY GotoFacts DEF Places
<1>2. /\ life = "up" /\ holder = h
      /\ \A g \in Handlers : g # h => pc[g] \notin Working
  BY AloneAtWork
<1>3. pc[h] # "write" /\ step # "write"
  BY DEF Answered
<1>4. Name(h) \notin DOMAIN networks /\ Name(h) \notin DOMAIN file.networks
  BY <1>2, <1>3 DEF OwnInv, FileInv
<1>5. \A g \in Handlers : Name(g)' = Name(g) /\ Cidr(g)' = Cidr(g)
  BY DEF Name, Cidr
<1>6. TypeOK'
  <2>1. \A g \in Handlers : pc'[g] \in Working <=> holder' = g
    BY <1>1, <1>2, RequestsAssumption DEF TypeOK
  <2>2. \A n \in DOMAIN links' : links'[n] \in [ip : Addresses \cup {NONE}, up : BOOLEAN]
    BY DEF TypeOK
  <2> QED BY <1>1, <2>1, <2>2 DEF TypeOK, Places, Subnets, Table
<1>7. BitmapInv' /\ DownInv' /\ FileInv'
  BY <1>2 DEF BitmapInv, Maps, DownInv, FileInv
<1>8. AskInv'
  BY <1>1 DEF AskInv, Working, Answered
<1>9. OwnInv'
  <2>1. \A g \in Handlers : pc'[g] \in Working => g = h
    BY <1>1, <1>2
  <2> QED BY <1>1, <1>3, <1>5, <2>1 DEF OwnInv, Taken
<1>10. LinkInv'
  <2>1. \A g \in Handlers : g # h => pc'[g] \notin Linked \cup {"address", "up", "unbridge"}
    BY <1>1, <1>2 DEF Linked, Working
  <2>2. /\ pc'[h] \in {"address", "up", "unbridge"} => Name(h)' \in DOMAIN links'
        /\ pc'[h] = "up" => links'[Name(h)'].ip = gateway'[h]
        /\ pc'[h] \in Linked => /\ Name(h)' \in DOMAIN links'
                                /\ links'[Name(h)'] = [ip |-> gateway'[h], up |-> TRUE]
    BY <1>1, <1>5
  <2> QED BY <2>1, <2>2 DEF LinkInv
<1>11. ReservedInv' /\ GatewayInv'
  BY DEF ReservedInv, Reserved, Taken, GatewayInv
<1>12. BridgedInv'
  BY <1>4 DEF BridgedInv, Bridged
<1>13. MakerInv'
  <2>1. \A g \in Handlers : pc[g] \in {"write", "over", "past"} => pc'[g] = pc[g]
    BY <1>1, <1>3 DEF Working
  <2> QED BY <1>5, <2>1 DEF MakerInv
<1>14. StrayLinkInv'
  <2>1. \A g \in Handlers : g # h /\ Astray(g) => Astray(g)'
    BY <1>1 DEF Astray
  <2>2. step \notin {"bridge", "giveup"} => Astray(h)'
    BY <1>1 DEF Astray
  <2> SUFFICES ASSUME NEW n \in DOMAIN links' \ DOMAIN networks
               PROVE  \E g \in Handlers : Name(g) = n /\ Astray(g)'
    BY <1>2, <1>5 DEF StrayLinkInv, Current
  <2>3. CASE n = Name(h)
    BY <2>1, <2>2, <2>3
  <2>4. CASE n # Name(h)
    <3>1. PICK g \in Handlers : Name(g) = n /\ Astray(g)
      BY <1>2, <2>4 DEF StrayLinkInv, Current
    <3> QED BY <2>1, <2>4, <3>1
  <2> QED BY <2>3, <2>4
<1>15. StraySubnetInv'
  <2>1. \A g \in Handlers : pc[g] \in Working => pc'[g] \in Working
    BY <1>1
  <2> QED BY <1>5, <2>1 DEF StraySubnetInv
<1>16. CreatedIsListed'
  <2>1. \A g \in Handlers : pc'[g] = "over" => pc[g] = "over"
    BY <1>1 DEF Working
  <2> QED BY <1>5, <2>1 DEF CreatedIsListed
<1> QED BY <1>6, <1>7, <1>8, <1>9, <1>10, <1>11, <1>12, <1>13, <1>14, <1>15, <1>16

LEMMA BuildStep ==
    ASSUME Inv, NEW h \in Handlers,
           \/ CreateBridge(h) \/ CreateBridgeFails(h) \/ SetBridgeIp(h) \/ SetLinkUp(h)
           \/ SetForward(h) \/ SetMasquerade(h) \/ SetUpFails(h) \/ DeleteBridge(h)
    PROVE  Inv'
<1> USE DEF table, kernel, task
<1>1. TypeOK /\ LinkInv /\ StrayLinkInv
  BY DEF Inv
<1>2. Name(h) \in DOMAIN links => links[Name(h)] \in [ip : Addresses \cup {NONE}, up : BOOLEAN]
  BY <1>1 DEF TypeOK
<1>3. gateway[h] \in Addresses \cup {NONE} /\ faults \in 0 .. MaxFaults
  BY <1>1 DEF TypeOK
<1>4. pc[h] \in Linked => /\ Name(h) \in DOMAIN links
                          /\ links[Name(h)] = [ip |-> gateway[h], up |-> TRUE]
  BY <1>1 DEF LinkInv
<1>5. pc[h] \in {"address", "up", "unbridge"} => Name(h) \in DOMAIN links
  BY <1>1 DEF LinkInv
<1>6. CASE CreateBridge(h)
  <2>1. /\ pc[h] = "bridge" /\ Goto(h, "address") /\ faults' = faults
        /\ UNCHANGED <<life, subnets, networks, file, holder, req, gateway, reply, checked, saved>>
    BY <1>6 DEF CreateBridge
  <2> DEFINE link == [ip |-> NONE, up |-> FALSE]
  <2>2. links' = Put(links, Name(h), link)
    BY <1>6 DEF CreateBridge
  <2>3. link \in [ip : Addresses \cup {NONE}, up : BOOLEAN]
    OBVIOUS
  <2> HIDE DEF link
  <2>4. /\ DOMAIN links' = DOMAIN links \cup {Name(h)} /\ links'[Name(h)] = link
        /\ \A n \in DOMAIN links : n # Name(h) => links'[n] = links[n]
    BY <2>2 DEF Put
  <2> QED BY <1>3, <2>1, <2>3, <2>4, BuildFacts DEF Working, Answered, Linked
<1>7. CASE CreateBridgeFails(h)
  <2>1. /\ pc[h] = "bridge" /\ Goto(h, "giveup") /\ UNCHANGED links
        /\ UNCHANGED <<life, subnets, networks, file, holder, req, gateway, reply, checked, saved>>
    BY <1>7 DEF CreateBridgeFails
  <2>2. faults' \in 0 .. MaxFaults
    BY <1>1, <1>7, FaultFacts DEF CreateBridgeFails
  <2>3. ASSUME Name(h) \in DOMAIN links
        PROVE  \E g \in Handlers : g # h /\ Name(g) = Name(h) /\ Astray(g)
    <3>1. life = "up" /\ Name(h) \notin DOMAIN networks
      BY <2>1, AloneAtWork DEF Working, Inv, OwnInv
    <3>2. PICK g \in Handlers : Name(g) = Name(h) /\ Astray(g)
      BY <1>1, <2>3, <3>1 DEF StrayLinkInv, Current
    <3>3. g # h
      BY <2>1, <3>2 DEF Astray
    <3> QED BY <3>2, <3>3
  <2> QED BY <1>2, <2>1, <2>2, <2>3, BuildFacts DEF Working, Answered, Linked
<1>8. CASE SetBridgeIp(h)
  <2>1. /\ pc[h] = "address" /\ Goto(h, "up") /\ faults' = faults
        /\ UNCHANGED <<life, subnets, networks, file, holder, req, gateway, reply, checked, saved>>
    BY <1>8 DEF SetBridgeIp
  <2>2. links' = [links EXCEPT ![Name(h)] = [links[Name(h)] EXCEPT !.ip = gateway[h]]]
    BY <1>8 DEF SetBridgeIp
  <2>3. /\ DOMAIN links' = DOMAIN links
        /\ links'[Name(h)] = [links[Name(h)] EXCEPT !.ip = gateway[h]]
        /\ \A n \in DOMAIN links : n # Name(h) => links'[n] = links[n]
    BY <1>5, <2>1, <2>2
  <2>4. /\ links'[Name(h)] \in [ip : Addresses \cup {NONE}, up : BOOLEAN]
        /\ links'[Name(h)].ip = gateway[h]
    BY <1>2, <1>3, <1>5, <2>1, <2>3
  <2> QED BY <1>3, <1>5, <2>1, <2>3, <2>4, BuildFacts DEF Working, Answered, Linked
<1>9. CASE SetLinkUp(h)
  <2>1. /\ pc[h] = "up" /\ Goto(h, "forward") /\ faults' = faults
        /\ UNCHANGED <<life, subnets, networks, file, holder, req, gateway, reply, checked, saved>>
    BY <1>9 DEF SetLinkUp
  <2>2. links' = [links EXCEPT ![Name(h)] = [links[Name(h)] EXCEPT !.up = TRUE]]
    BY <1>9 DEF SetLinkUp
  <2>3. /\ DOMAIN links' = DOMAIN links
        /\ links'[Name(h)] = [links[Name(h)] EXCEPT !.up = TRUE]
        /\ \A n \in DOMAIN links : n # Name(h) => links'[n] = links[n]
    BY <1>5, <2>1, <2>2
  <2>4. links[Name(h)].ip = gateway[h]
    BY <1>1, <2>1 DEF LinkInv
  <2>5. links'[Name(h)] = [ip |-> gateway[h], up |-> TRUE]
    BY <1>2, <1>5, <2>1, <2>3, <2>4
  <2>6. links'[Name(h)] \in [ip : Addresses \cup {NONE}, up : BOOLEAN]
    BY <1>3, <2>5
  <2> QED BY <1>3, <1>5, <2>1, <2>3, <2>5, <2>6, BuildFacts DEF Working, Answered, Linked
<1>10. CASE SetForward(h) \/ SetMasquerade(h)
  <2>1. /\ UNCHANGED <<life, subnets, networks, file, holder, links, req, gateway, reply, checked,
                       saved>>
        /\ faults' = faults /\ pc[h] \in Linked \ Answered
    BY <1>10 DEF SetForward, SetMasquerade, Linked, Answered
  <2>2. Goto(h, "masquerade") \/ Goto(h, "answer")
    BY <1>10 DEF SetForward, SetMasquerade
  <2>3. pc[h] \in Working
    BY <2>1 DEF Working, Linked
  <2> QED BY <1>2, <1>3, <1>4, <2>1, <2>2, <2>3, BuildFacts DEF Working, Answered, Linked
<1>11. CASE SetUpFails(h)
  <2>1. /\ UNCHANGED <<life, subnets, networks, file, holder, links, req, gateway, reply, checked,
                       saved>>
        /\ pc[h] \in {"address", "up", "forward", "masquerade"} /\ Goto(h, "unbridge")
    BY <1>11 DEF SetUpFails
  <2>2. faults' \in 0 .. MaxFaults
    BY <1>1, <1>11, FaultFacts DEF SetUpFails
  <2>3. Name(h) \in DOMAIN links
    BY <1>4, <1>5, <2>1 DEF Linked
  <2> QED BY <1>2, <2>1, <2>2, <2>3, BuildFacts DEF Working, Answered, Linked
<1>12. CASE DeleteBridge(h)
  <2>1. /\ pc[h] = "unbridge" /\ Goto(h, "giveup") /\ faults' = faults
        /\ links' = [n \in DOMAIN links \ {Name(h)} |-> links[n]]
        /\ UNCHANGED <<life, subnets, networks, file, holder, req, gateway, reply, checked, saved>>
    BY <1>12 DEF DeleteBridge
  <2> QED BY <1>3, <2>1, BuildFacts DEF Working, Answered, Linked
<1> QED BY <1>6, <1>7, <1>8, <1>9, <1>10, <1>11, <1>12

-----------------------------------------------------------------------------
(* The end of a creation that failed: the address is given back, if it is  *)
(* found, and nothing else of the table changes.                           *)

LEMMA FreeFacts ==
    ASSUME Inv, NEW h \in Handlers, pc[h] \in {"giveup", "unbridge"},
           NEW step \in {"over", "stray"}, step = "over" => pc[h] = "giveup",
           subnets' = Released(h), Answer(h, "err"), Leave(h, step),
           UNCHANGED <<life, networks, file, links, rules, req, gateway, checked, saved>>,
           faults' \in 0 .. MaxFaults
    PROVE  Inv'
<1> USE DEF Inv
<1>1. /\ pc' \in [Handlers -> Places] /\ pc'[h] = step /\ holder' = NONE
      /\ \A g \in Handlers : g # h => pc'[g] = pc[g]
  BY GotoFacts DEF Places, Ended, Leave
<1>2. /\ reply' \in [Handlers -> {"none", "ok", "err", "panic"}] /\ reply'[h] = "err"
      /\ \A g \in Handlers : g # h => reply'[g] = reply[g]
  BY AnswerFacts
<1>3. /\ life = "up" /\ holder = h /\ Cidr(h) \in Cidrs
      /\ \A g \in Handlers : g # h => pc[g] \notin Working
  BY AloneAtWork DEF Working
<1>4. \A g \in Handlers : pc'[g] \notin Working
  BY <1>1, <1>3 DEF Working
<1>5. \A g \in Handlers : Name(g)' = Name(g) /\ Cidr(g)' = Cidr(g)
  BY DEF Name, Cidr
<1>6. /\ Maps(subnets') /\ DOMAIN subnets' = DOMAIN subnets
      /\ \A c \in DOMAIN subnets : c # Cidr(h) => subnets'[c] = subnets[c]
  <2>1. /\ SameButBits(subnets, subnets', Cidr(h)) /\ Maps(subnets')
    <3> DEFINE c == Cidr(h)
               out == ReleaseIp(subnets, c, gateway[h], checked)
    <3>1. c \in Cidrs /\ Maps(subnets) /\ checked \in BOOLEAN
      BY <1>3 DEF BitmapInv, TypeOK
    <3>2. subnets' = out.subnets
      BY DEF Released
    <3>3. SameButBits(subnets, out.subnets, c) /\ Maps(out.subnets)
      <4> HIDE DEF c
      <4> QED BY <3>1, ReleaseFacts, IpamAssumption
    <3> QED BY <3>2, <3>3
  <2> QED BY <2>1 DEF SameButBits
<1>7. /\ Name(h) \notin DOMAIN networks
      /\ \A n \in DOMAIN networks : networks[n].cidr # Cidr(h)
  BY DEF OwnInv, Working
<1>8. TypeOK'
  <2>1. \A g \in Handlers : pc'[g] \in Working <=> holder' = g
    BY <1>1, <1>4, RequestsAssumption
  <2>2. Subnets(subnets)'
    BY <1>6 DEF Maps, Subnets
  <2> QED BY <1>1, <1>2, <2>1, <2>2 DEF TypeOK, Places, Subnets, Table
<1>9. BitmapInv' /\ DownInv' /\ FileInv'
  BY <1>3, <1>6 DEF BitmapInv, Maps, DownInv, FileInv
<1>10. AskInv'
  <2>1. pc'[h] \notin {"new", "lock"} \cup Working /\ pc[h] # "new" /\ pc'[h] \notin Answered
    BY <1>1 DEF Working, Answered
  <2> QED BY <1>1, <1>2, <2>1 DEF AskInv, Answered
<1>11. OwnInv' /\ LinkInv'
  BY <1>4 DEF OwnInv, LinkInv, Linked, Working
<1>12. ReservedInv'
  <2>1. \A n \in DOMAIN networks : /\ networks[n].cidr \in DOMAIN subnets'
                                   /\ subnets'[networks[n].cidr] = subnets[networks[n].cidr]
    BY <1>6, <1>7 DEF ReservedInv, Reserved
  <2> QED BY <2>1 DEF ReservedInv, Reserved, Taken
<1>13. BridgedInv' /\ GatewayInv'
  BY DEF BridgedInv, Bridged, GatewayInv
<1>14. MakerInv'
  <2>1. \A g \in Handlers : pc[g] \in {"write", "over", "past"} =>
           pc'[g] = pc[g] /\ reply'[g] = reply[g]
    BY <1>1, <1>2
  <2> QED BY <1>5, <2>1 DEF MakerInv
<1>15. StrayLinkInv'
  <2>1. \A g \in Handlers : Astray(g) => Astray(g)'
    BY <1>1, <1>2 DEF Astray
  <2> QED BY <1>5, <2>1 DEF StrayLinkInv, Current
<1>16. StraySubnetInv'
  <2>1. \A g \in Handlers : pc[g] \in Working \/ reply[g] = "err" => reply'[g] = "err"
    BY <1>2, <1>3
  <2> QED BY <1>5, <1>6, <2>1 DEF StraySubnetInv
<1>17. CreatedIsListed'
  BY <1>1, <1>2, <1>5 DEF CreatedIsListed
<1> QED BY <1>8, <1>9, <1>10, <1>11, <1>12, <1>13, <1>14, <1>15, <1>16, <1>17

LEMMA FreeStep ==
    ASSUME Inv, NEW h \in Handlers, GiveUp(h) \/ DeleteBridgeFails(h)
    PROVE  Inv'
<1> USE DEF table, kernel, task
<1>1. TypeOK /\ faults \in 0 .. MaxFaults
  BY DEF Inv, TypeOK
<1>2. CASE GiveUp(h)
  <2>1. /\ pc[h] = "giveup" /\ subnets' = Released(h) /\ Answer(h, "err") /\ Leave(h, "over")
        /\ UNCHANGED <<life, networks, file, links, rules, req, gateway, checked, saved, faults>>
    BY <1>2 DEF GiveUp
  <2> QED BY <1>1, <2>1, FreeFacts
<1>3. CASE DeleteBridgeFails(h)
  <2>1. /\ pc[h] = "unbridge" /\ subnets' = Released(h) /\ Answer(h, "err") /\ Leave(h, "stray")
        /\ UNCHANGED <<life, networks, file, links, rules, req, gateway, checked, saved>>
    BY <1>3 DEF DeleteBridgeFails
  <2>2. faults' \in 0 .. MaxFaults
    BY <1>1, <1>3, FaultFacts DEF DeleteBridgeFails
  <2> QED BY <2>1, <2>2, FreeFacts
<1> QED BY <1>2, <1>3

-----------------------------------------------------------------------------
(* The end of a creation that succeeded: the answer, the table, the file.  *)

LEMMA ReplyStep ==
    ASSUME Inv, NEW h \in Handlers, Reply(h)
    PROVE  Inv'
<1> USE DEF Inv, table, kernel, task
<1>1. /\ pc[h] = "answer"
      /\ UNCHANGED <<life, subnets, networks, file, holder, links, rules, req, gateway, checked,
                     faults, saved>>
  BY DEF Reply
<1>2. /\ pc' \in [Handlers -> Places] /\ pc'[h] = "insert"
      /\ \A g \in Handlers : g # h => pc'[g] = pc[g]
  BY GotoFacts DEF Reply, Places, Working
<1>3. /\ reply' \in [Handlers -> {"none", "ok", "err", "panic"}] /\ reply'[h] = "ok"
      /\ \A g \in Handlers : g # h => reply'[g] = reply[g]
  BY AnswerFacts DEF Reply
<1>4. reply[h] = "none"
  BY <1>1 DEF AskInv, Working, Answered
<1>5. \A g \in Handlers : /\ Name(g)' = Name(g) /\ Cidr(g)' = Cidr(g)
                          /\ pc'[g] \in Working <=> pc[g] \in Working
                          /\ pc'[g] = "write" <=> pc[g] = "write"
                          /\ pc'[g] \in Linked <=> pc[g] \in Linked
  BY <1>1, <1>2 DEF Name, Cidr, Working, Linked
<1>6. TypeOK'
  <2>1. \A g \in Handlers : pc'[g] \in Working <=> holder' = g
    BY <1>1, <1>5 DEF TypeOK
  <2> QED BY <1>1, <1>2, <1>3, <2>1 DEF TypeOK, Places, Subnets, Table
<1>7. BitmapInv' /\ FileInv' /\ ReservedInv' /\ BridgedInv' /\ GatewayInv'
  BY <1>1 DEF BitmapInv, Maps, FileInv, ReservedInv, Reserved, Taken, BridgedInv, Bridged,
              GatewayInv
<1>8. DownInv'
  BY <1>1, <1>2 DEF DownInv, Fresh
<1>9. AskInv'
  BY <1>1, <1>2, <1>3 DEF AskInv, Working, Answered
<1>10. OwnInv'
  BY <1>1, <1>5 DEF OwnInv, Taken
<1>11. LinkInv'
  BY <1>1, <1>2, <1>5 DEF LinkInv
<1>12. MakerInv'
  <2>1. \A g \in Handlers : pc[g] \in {"write", "over", "past"} =>
           pc'[g] = pc[g] /\ reply'[g] = reply[g]
    BY <1>1, <1>2, <1>3
  <2> QED BY <1>1, <1>5, <2>1 DEF MakerInv
<1>13. StrayLinkInv'
  <2>1. \A g \in Handlers : Astray(g) => Astray(g)'
    BY <1>1, <1>2, <1>3 DEF Astray, Working
  <2> QED BY <1>1, <1>5, <2>1 DEF StrayLinkInv, Current
<1>14. StraySubnetInv'
  <2>1. \A g \in Handlers : reply[g] = "err" => reply'[g] = "err"
    BY <1>3, <1>4
  <2> QED BY <1>1, <1>5, <2>1 DEF StraySubnetInv
<1>15. CreatedIsListed'
  BY <1>1, <1>2, <1>3, <1>5 DEF CreatedIsListed
<1> QED BY <1>6, <1>7, <1>8, <1>9, <1>10, <1>11, <1>12, <1>13, <1>14, <1>15

LEMMA InsertStep ==
    ASSUME Inv, NEW h \in Handlers, Insert(h)
    PROVE  Inv'
<1> USE DEF Inv, table, kernel, task
<1> DEFINE net == [cidr |-> Cidr(h), gateway |-> gateway[h]]
<1>1. /\ pc[h] = "insert" /\ networks' = Put(networks, Name(h), net)
      /\ UNCHANGED <<life, subnets, links, rules, req, gateway, reply, checked, saved>>
  BY DEF Insert
<1>2. PICK step \in {"write", "over"} :
        /\ Goto(h, step) /\ faults' \in 0 .. MaxFaults
        /\ step = "write" => file' = TornFile /\ holder' = holder
        /\ step = "over" => file' = file /\ holder' = NONE
  BY FaultFacts DEF Insert, Leave
<1>3. /\ pc' \in [Handlers -> Places] /\ pc'[h] = step
      /\ \A g \in Handlers : g # h => pc'[g] = pc[g]
  BY <1>2, GotoFacts DEF Places, Working, Ended
<1>4. /\ life = "up" /\ holder = h /\ Cidr(h) \in Cidrs
      /\ \A g \in Handlers : g # h => pc[g] \notin Working
  BY <1>1, AloneAtWork DEF Working
<1>5. /\ Cidr(h) \in DOMAIN subnets /\ 0 \in Taken(subnets, Cidr(h))
      /\ gateway[h] = IpOf(Cidr(h), 1) /\ reply[h] = "ok"
      /\ Name(h) \notin DOMAIN networks
      /\ \A n \in DOMAIN networks : networks[n].cidr # Cidr(h)
  BY <1>1 DEF OwnInv, AskInv, Working, Answered
<1>6. \A g \in Handlers : Name(g)' = Name(g) /\ Cidr(g)' = Cidr(g)
  BY <1>1 DEF Name, Cidr
<1>7. net \in [cidr : Cidrs, gateway : Addresses]
  <2>1. IpOf(Cidr(h), 1) \in Addresses
    BY <1>4, IpOfFacts, IpamAssumption
  <2> QED BY <1>4, <1>5, <2>1
<1>8. net.cidr = Cidr(h) /\ net.gateway = gateway[h]
  OBVIOUS
<1>9. links[Name(h)] = [ip |-> net.gateway, up |-> TRUE] /\ Name(h) \in DOMAIN links
  BY <1>1 DEF LinkInv, Linked
<1>10. net' = net
  BY <1>1, <1>6
<1>11. /\ DOMAIN networks' = DOMAIN networks \cup {Name(h)} /\ networks'[Name(h)] = net
       /\ \A n \in DOMAIN networks : n # Name(h) /\ networks'[n] = networks[n]
  <2> HIDE DEF net
  <2> QED BY <1>1, <1>5 DEF Put
<1> HIDE DEF net
<1>12. file' = file \/ file' = TornFile
  BY <1>2
<1>13. \A g \in Handlers : pc'[g] \in Working => g = h /\ step = "write"
  BY <1>3, <1>4 DEF Working
<1>14. TypeOK'
  <2>1. \A g \in Handlers : pc'[g] \in Working <=> holder' = g
    BY <1>2, <1>3, <1>4, <1>13, RequestsAssumption DEF Working
  <2>2. Table(networks)'
    BY <1>7, <1>11 DEF TypeOK, Table
  <2>3. /\ file'.st \in {"absent", "torn", "full"}
        /\ Subnets(file.subnets)' /\ Table(file.networks)'
    BY <1>12, FileFacts DEF TypeOK, Subnets, Table
  <2>4. holder' \in Handlers \cup {NONE}
    BY <1>2, <1>4
  <2> QED BY <1>1, <1>2, <1>3, <2>1, <2>2, <2>3, <2>4 DEF TypeOK, Places, Subnets
<1>15. BitmapInv' /\ DownInv'
  BY <1>1, <1>4, <1>12, FileFacts DEF BitmapInv, Maps, DownInv
<1>16. AskInv'
  BY <1>1, <1>3, <1>5 DEF AskInv, Working, Answered
<1>17. OwnInv'
  <2> SUFFICES ASSUME step = "write"
               PROVE  /\ Cidr(h)' \in DOMAIN subnets' /\ 0 \in Taken(subnets', Cidr(h)')
                      /\ gateway'[h] = IpOf(Cidr(h)', 1)
                      /\ Name(h)' \in DOMAIN networks'
                      /\ networks'[Name(h)'] = [cidr |-> Cidr(h)', gateway |-> gateway'[h]]
                      /\ file' = TornFile
    BY <1>3, <1>13 DEF OwnInv
  <2> QED BY <1>1, <1>2, <1>5, <1>6, <1>11 DEF Taken, net
<1>18. LinkInv'
  <2>1. \A g \in Handlers : pc'[g] \in {"address", "up", "unbridge"} \cup Linked =>
           g = h /\ step = "write"
    BY <1>13 DEF Working, Linked
  <2> QED BY <1>1, <1>3, <1>6, <1>8, <1>9, <2>1 DEF LinkInv
<1>19. FileInv'
  BY <1>1, <1>4, <1>11, <1>12, FileFacts DEF FileInv
<1>20. ReservedInv'
  <2>1. Reserved(subnets', networks')
    BY <1>1, <1>5, <1>8, <1>11 DEF ReservedInv, Reserved, Taken
  <2>2. Reserved(file.subnets', file.networks')
    BY <1>12, FileFacts DEF ReservedInv, Reserved
  <2> QED BY <2>1, <2>2 DEF ReservedInv, Reserved, Taken
<1>21. BridgedInv'
  <2>1. Bridged(networks)'
    BY <1>1, <1>9, <1>11 DEF BridgedInv, Bridged
  <2>2. Bridged(file.networks)'
    BY <1>1, <1>12, FileFacts DEF BridgedInv, Bridged
  <2> QED BY <2>1, <2>2 DEF BridgedInv
<1>22. GatewayInv'
  BY <1>5, <1>8, <1>11, <1>12, FileFacts DEF GatewayInv
<1>23. MakerInv'
  <2>1. \A g \in Handlers : pc[g] \in {"write", "over", "past"} => pc'[g] = pc[g]
    BY <1>1, <1>3
  <2>2. \A n \in DOMAIN networks' : \E g \in Handlers :
           Name(g) = n /\ reply[g] = "ok" /\ pc'[g] \in {"write", "over", "past"}
    BY <1>3, <1>5, <1>11, <2>1 DEF MakerInv
  <2>3. \A n \in DOMAIN file'.networks : \E g \in Handlers :
           Name(g) = n /\ reply[g] = "ok" /\ pc'[g] \in {"over", "past"}
    BY <1>12, <2>1, FileFacts DEF MakerInv
  <2> QED BY <1>1, <1>6, <2>2, <2>3 DEF MakerInv
<1>24. StrayLinkInv'
  <2>1. \A g \in Handlers : g # h /\ Astray(g) => Astray(g)'
    BY <1>1, <1>3 DEF Astray
  <2> QED BY <1>1, <1>4, <1>6, <1>11, <2>1 DEF StrayLinkInv, Current
<1>25. StraySubnetInv'
  <2>1. ASSUME NEW c \in DOMAIN subnets
        PROVE  \/ \E n \in DOMAIN networks' : networks'[n].cidr = c
               \/ \E g \in Handlers : Cidr(g) = c /\ (pc'[g] \in Working \/ reply[g] = "err")
    <3>1. CASE c = Cidr(h)
      BY <1>8, <1>11, <3>1
    <3>2. CASE c # Cidr(h)
      <4>1. \A g \in Handlers : g # h => pc'[g] = pc[g]
        BY <1>3
      <4> QED BY <1>11, <3>2, <4>1 DEF StraySubnetInv
    <3> QED BY <3>1, <3>2
  <2>2. \A c \in DOMAIN file'.subnets :
           \/ \E n \in DOMAIN file'.networks : file'.networks[n].cidr = c
           \/ \E g \in Handlers : Cidr(g) = c /\ reply[g] = "err"
    BY <1>12, FileFacts DEF StraySubnetInv
  <2> QED BY <1>1, <1>6, <2>1, <2>2 DEF StraySubnetInv
<1>26. CreatedIsListed'
  <2> SUFFICES ASSUME NEW g \in Handlers, pc'[g] = "over", reply[g] = "ok"
               PROVE  Name(g) \in DOMAIN networks' /\ networks'[Name(g)].cidr = Cidr(g)
    BY <1>1, <1>6 DEF CreatedIsListed
  <2>1. CASE g = h
    BY <1>8, <1>11, <2>1
  <2>2. CASE g # h
    BY <1>3, <1>11, <2>2 DEF CreatedIsListed
  <2> QED BY <2>1, <2>2
<1> QED BY <1>14, <1>15, <1>16, <1>17, <1>18, <1>19, <1>20, <1>21, <1>22, <1>23, <1>24, <1>25,
           <1>26

LEMMA WriteStep ==
    ASSUME Inv, NEW h \in Handlers, WriteFile(h) \/ WriteFileFails(h)
    PROVE  Inv'
<1> USE DEF Inv, table, kernel, task
<1>1. /\ pc[h] = "write" /\ Goto(h, "over") /\ holder' = NONE
      /\ UNCHANGED <<life, subnets, networks, links, rules, req, gateway, reply, checked>>
  BY DEF WriteFile, WriteFileFails, Leave
<1>2. faults' \in 0 .. MaxFaults
  BY FaultFacts DEF WriteFile, WriteFileFails, TypeOK
<1>3. /\ pc' \in [Handlers -> Places] /\ pc'[h] = "over"
      /\ \A g \in Handlers : g # h => pc'[g] = pc[g]
  BY <1>1, GotoFacts DEF Places, Ended
<1>4. /\ life = "up" /\ \A g \in Handlers : g # h => pc[g] \notin Working
  BY <1>1, AloneAtWork DEF Working
<1>5. /\ Name(h) \in DOMAIN networks /\ networks[Name(h)].cidr = Cidr(h)
      /\ file = TornFile /\ reply[h] = "ok"
  <2>1. /\ Name(h) \in DOMAIN networks /\ file = TornFile
        /\ networks[Name(h)] = [cidr |-> Cidr(h), gateway |-> gateway[h]]
    BY <1>1 DEF OwnInv, Working
  <2>2. reply[h] = "ok"
    BY <1>1 DEF AskInv, Answered
  <2> QED BY <2>1, <2>2
<1>6. \A g \in Handlers : Name(g)' = Name(g) /\ Cidr(g)' = Cidr(g)
  BY <1>1 DEF Name, Cidr
<1>7. \A g \in Handlers : pc'[g] \notin Working
  BY <1>3, <1>4 DEF Working
<1>8. \/ /\ file'.st = "full" /\ file'.subnets = subnets /\ file'.networks = networks
         /\ saved' = saved \cup DOMAIN networks
      \/ file' = TornFile /\ saved' = saved
  BY <1>5 DEF WriteFile, WriteFileFails
<1>9. TypeOK'
  <2>1. \A g \in Handlers : pc'[g] \in Working <=> holder' = g
    BY <1>1, <1>7, RequestsAssumption
  <2>2. /\ file'.st \in {"absent", "torn", "full"}
        /\ Subnets(file.subnets)' /\ Table(file.networks)'
    BY <1>8, FileFacts DEF TypeOK, Subnets, Table
  <2> QED BY <1>1, <1>2, <1>3, <2>1, <2>2 DEF TypeOK, Places, Subnets, Table
<1>10. BitmapInv' /\ DownInv'
  BY <1>1, <1>4, <1>8, FileFacts DEF BitmapInv, Maps, DownInv
<1>11. AskInv'
  BY <1>1, <1>3 DEF AskInv, Working, Answered
<1>12. OwnInv' /\ LinkInv'
  BY <1>7 DEF OwnInv, LinkInv, Linked, Working
<1>13. FileInv'
  BY <1>1, <1>4, <1>8, FileFacts DEF FileInv
<1>14. ReservedInv'
  <2>1. Reserved(file.subnets, file.networks)'
    BY <1>8, FileFacts DEF ReservedInv, Reserved, Taken
  <2> QED BY <1>1, <2>1 DEF ReservedInv, Reserved, Taken
<1>15. BridgedInv' /\ GatewayInv'
  BY <1>1, <1>8, FileFacts DEF BridgedInv, Bridged, GatewayInv
<1>16. MakerInv'
  <2>1. \A g \in Handlers : pc[g] \in {"write", "over", "past"} => pc'[g] \in {"over", "past"}
    BY <1>3, <1>4 DEF Working
  <2>2. \A n \in DOMAIN networks : \E g \in Handlers :
           Name(g) = n /\ reply[g] = "ok" /\ pc'[g] \in {"over", "past"}
    BY <2>1 DEF MakerInv
  <2>3. \A n \in DOMAIN file'.networks : n \in DOMAIN networks
    BY <1>8, FileFacts
  <2> QED BY <1>1, <1>6, <2>2, <2>3 DEF MakerInv
<1>17. StrayLinkInv'
  <2>1. \A g \in Handlers : g # h /\ Astray(g) => Astray(g)'
    BY <1>1, <1>3 DEF Astray
  <2> QED BY <1>1, <1>4, <1>5, <1>6, <2>1 DEF StrayLinkInv, Current
<1>18. StraySubnetInv'
  <2>1. \A c \in DOMAIN subnets :
           \/ \E n \in DOMAIN networks : networks[n].cidr = c
           \/ \E g \in Handlers : Cidr(g) = c /\ reply[g] = "err"
    BY <1>4, <1>5 DEF StraySubnetInv
  <2>2. \A c \in DOMAIN file'.subnets :
           \/ \E n \in DOMAIN file'.networks : file'.networks[n].cidr = c
           \/ \E g \in Handlers : Cidr(g) = c /\ reply[g] = "err"
    BY <1>8, <2>1, FileFacts
  <2> QED BY <1>1, <1>6, <2>1, <2>2 DEF StraySubnetInv
<1>19. CreatedIsListed'
  BY <1>1, <1>3, <1>5, <1>6 DEF CreatedIsListed
<1> QED BY <1>9, <1>10, <1>11, <1>12, <1>13, <1>14, <1>15, <1>16, <1>17, <1>18, <1>19

-----------------------------------------------------------------------------
LEMMA InvStep == ASSUME Inv, [Next]_vars PROVE Inv'
<1>1. CASE Start
  BY <1>1, StartStep
<1>2. CASE Die
  BY <1>2, DieStep
<1>3. ASSUME NEW h \in Handlers, NEW r \in Requests, Accept(h, r) PROVE Inv'
  BY <1>3, AcceptStep
<1>4. ASSUME NEW h \in Handlers, Reserve(h) PROVE Inv'
  BY <1>4, ReserveStep
<1>5. ASSUME NEW h \in Handlers, Step(h) \/ Failure(h) PROVE Inv'
  <2>1. CASE Bridge(h) \/ SetUpFails(h)
    BY <2>1, BuildStep DEF Bridge
  <2>2. CASE GiveUp(h) \/ DeleteBridgeFails(h)
    BY <2>2, FreeStep
  <2>3. CASE Reply(h)
    BY <2>3, ReplyStep
  <2>4. CASE Insert(h)
    BY <2>4, InsertStep
  <2>5. CASE WriteFile(h) \/ WriteFileFails(h)
    BY <2>5, WriteStep
  <2> QED BY <1>5, <2>1, <2>2, <2>3, <2>4, <2>5 DEF Step, Failure
<1>6. CASE UNCHANGED vars
  BY <1>6, StutterStep
<1> QED BY <1>1, <1>2, <1>3, <1>4, <1>5, <1>6 DEF Next

\* The gateway of a block with room for one is in it, and is that of no other
\* block, a /32 and a /0 included, unless they meet.
LEMMA GatewayFacts ==
    ASSUME NEW c \in Cidrs, NEW d \in Cidrs, ~CapacityOverflows(c)
    PROVE  /\ IpOf(c, 1) \in Block(c)
           /\ Block(d) \cap Block(c) = {} => IpOf(d, 1) # IpOf(c, 1)
<1> DEFINE first == c.ip - (c.ip % c.size)
<1>1. /\ c.size \in 2 .. Modulus /\ c.ip \in Addresses /\ d.size \in 1 .. Modulus
      /\ d.ip \in Addresses /\ Modulus \in Nat \ {0}
  BY MaskFacts, IpamAssumption DEF CapacityOverflows
<1>2. /\ Base(c, c.ip) = first /\ first \in Nat
  BY <1>1, BaseFacts, IpamAssumption
<1>3. IpOf(c, 1) = first + 1
  BY <1>1, <1>2, IpOfFacts, IpamAssumption
<1>4. Block(c) = first .. (first + c.size - 1)
  BY DEF Block
<1>5. first \in Block(c) /\ first + 1 \in Block(c)
  <2> HIDE DEF first
  <2> QED BY <1>1, <1>2, <1>4
<1>6. CASE ~CapacityOverflows(d)
  <2> DEFINE start == d.ip - (d.ip % d.size)
  <2>1. Base(d, d.ip) = start /\ start \in Nat
    BY <1>1, <1>6, BaseFacts, IpamAssumption
  <2>2. d.size \in 2 .. Modulus
    BY <1>1, <1>6 DEF CapacityOverflows
  <2>3. IpOf(d, 1) = start + 1
    BY <1>6, <2>1, <2>2, IpOfFacts, IpamAssumption
  <2>4. Block(d) = start .. (start + d.size - 1)
    BY DEF Block
  <2>5. IpOf(d, 1) \in Block(d)
    <3> HIDE DEF start
    <3> QED BY <2>1, <2>2, <2>3, <2>4
  <2> QED BY <1>3, <1>5, <2>5
<1>7. CASE d.size = 1
  <2>1. Base(d, d.ip) = d.ip /\ d.ip % d.size = 0
    <3>1. MaskSize(d) = 1
      BY <1>7 DEF MaskSize
    <3>2. d.ip % 1 = 0
      <4>1. d.ip \in Int /\ 1 \in Nat \ {0}
        BY <1>1 DEF Addresses
      <4>2. d.ip % 1 \in 0 .. (1 - 1)
        BY <4>1, DivMod
      <4> QED BY <4>2
    <3> QED BY <1>1, <1>7, <3>1, <3>2 DEF Base, Addresses
  <2>2. d.ip \in Block(d)
    BY <1>1, <1>7, <2>1 DEF Block, Addresses
  <2>3. d.ip + 1 \in 0 .. (Modulus - 1) => (d.ip + 1) % Modulus = d.ip + 1
    BY <1>1, SmallMod DEF Addresses
  <2>4. d.ip + 1 = Modulus => (d.ip + 1) % Modulus = 0
    <3>1. d.ip + 1 = Modulus => d.ip + 1 \in Modulus .. (2 * Modulus - 1)
      BY <1>1 DEF Addresses
    <3>2. d.ip + 1 \in Int
      BY <1>1 DEF Addresses
    <3> QED BY <1>1, <3>1, <3>2, SmallMod
  <2>6. IpOf(d, 1) = (d.ip + 1) % Modulus
    BY <2>1 DEF IpOf
  <2>5. IpOf(d, 1) = first + 1 => d.ip = first
    <3> HIDE DEF first
    <3> QED BY <1>1, <1>2, <2>3, <2>4, <2>6 DEF Addresses
  <2> QED BY <1>3, <1>5, <2>2, <2>5
<1>8. CASE d.size = Modulus
  <2>1. d.ip % d.size = d.ip
    <3>1. d.ip \in Int /\ d.ip \in 0 .. (Modulus - 1)
      BY <1>1 DEF Addresses
    <3>2. d.ip % Modulus = d.ip
      BY <1>1, <3>1, SmallMod
    <3> QED BY <1>8, <3>2
  <2>2. Block(d) = 0 .. (Modulus - 1)
    BY <1>1, <1>8, <2>1 DEF Block, Addresses
  <2>3. first \in Block(d)
    <3>1. first <= c.ip
      BY <1>1, <1>2, BaseFacts, IpamAssumption
    <3> HIDE DEF first
    <3> QED BY <1>1, <1>2, <2>2, <3>1 DEF Addresses
  <2>4. Block(d) \cap Block(c) # {}
    <3> HIDE DEF first
    <3> QED BY <1>5, <2>3
  <2>5. IpOf(c, 1) \in Block(c)
    BY <1>3, <1>5
  <2> QED BY <2>4, <2>5
<1> QED BY <1>3, <1>5, <1>6, <1>7, <1>8 DEF CapacityOverflows

LEMMA InvImplies ==
    Inv => NetworksAreComplete /\ SavedIsKept /\ StrayBridges /\ StraySubnets /\ GatewaysDiffer
<1> SUFFICES ASSUME Inv
             PROVE  NetworksAreComplete /\ SavedIsKept /\ StrayBridges /\ StraySubnets /\ GatewaysDiffer
  OBVIOUS
<1>1. NetworksAreComplete
  BY DEF Inv, ReservedInv, Reserved, BridgedInv, Bridged, NetworksAreComplete, Complete
<1>2. SavedIsKept
  BY DEF Inv, FileInv, SavedIsKept
<1>3. StrayBridges
  BY DEF Inv, StrayLinkInv, Current, Astray, StrayBridges
<1>4. StraySubnets
  BY DEF Inv, StraySubnetInv, StraySubnets
<1>5. GatewaysDiffer
  <2>1. \A n \in DOMAIN networks : networks[n].cidr \in Cidrs
    BY DEF Inv, TypeOK, Table
  <2>2. \A n \in DOMAIN networks : networks[n].gateway = IpOf(networks[n].cidr, 1)
    BY DEF Inv, GatewayInv
  <2> SUFFICES ASSUME NEW n \in DOMAIN networks, ~CapacityOverflows(networks[n].cidr)
               PROVE  /\ networks[n].gateway \in Block(networks[n].cidr)
                      /\ \A m \in DOMAIN networks \ {n} :
                            Block(networks[m].cidr) \cap Block(networks[n].cidr) = {}
                              => networks[m].gateway # networks[n].gateway
    BY DEF GatewaysDiffer
  <2> QED BY <2>1, <2>2, GatewayFacts
<1> QED BY <1>1, <1>2, <1>3, <1>4, <1>5

\* The inductive invariant: what each step of a creation has, while its handler
\* holds the mutex and after the daemon died.
THEOREM NetworksInvariant == Spec => []Inv
<1>1. Init => Inv
  BY InitHolds
<1>2. Inv /\ [Next]_vars => Inv'
  BY InvStep
<1> QED BY <1>1, <1>2, PTL DEF Spec

\* Every variable keeps its kind, and one handler at most is at work: the one that
\* holds the mutex.
THEOREM NetworksTypes == Spec => []TypeOK
<1>1. Inv => TypeOK
  BY DEF Inv
<1> QED BY <1>1, NetworksInvariant, PTL

\* create_network leaves a network in the table, or in the file, only with its
\* subnet, its gateway and its bridge, whatever fails and whenever the daemon dies.
THEOREM CreatedNetworksAreComplete == Spec => []NetworksAreComplete
BY NetworksInvariant, InvImplies, PTL

\* What a save has completed no later daemon is without.
THEOREM SavedNetworksAreKept == Spec => []SavedIsKept
BY NetworksInvariant, InvImplies, PTL

\* A client that was answered OkContent finds its network once the handler is done.
THEOREM AnsweredNetworksAreListed == Spec => []CreatedIsListed
<1>1. Inv => CreatedIsListed
  BY DEF Inv
<1> QED BY <1>1, NetworksInvariant, PTL

\* A bridge that is left without a network has one of four causes.
THEOREM StrayBridgesHaveACause == Spec => []StrayBridges
BY NetworksInvariant, InvImplies, PTL

\* A subnet that is left without a network was asked for by a client that was
\* answered with an error, or is just being used.
THEOREM StraySubnetsHaveACause == Spec => []StraySubnets
BY NetworksInvariant, InvImplies, PTL

\* calculate_ip gives networks with disjoint blocks different gateways.
THEOREM GatewaysAreDistinct == Spec => []GatewaysDiffer
BY NetworksInvariant, InvImplies, PTL

=============================================================================
