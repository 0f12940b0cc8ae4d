----------------------------- MODULE Networks -----------------------------
(***************************************************************************)
(* The creation of networks (network/network.rs) over the address manager  *)
(* of module Ipam and a bridge in the kernel (network/bridge.rs).          *)
(*                                                                         *)
(* A handler holds the mutex around the table of networks from its first   *)
(* test to the end of its save, through every await.  It takes a subnet    *)
(* and the gateway, makes the bridge in five calls that may fail, answers, *)
(* enters the network in the table and saves the table, whose result it    *)
(* ignores.  Links and rules of the kernel outlive the daemon, as the file *)
(* does; a file that was cut short keeps every later daemon from starting. *)
(***************************************************************************)
EXTENDS Ipam

CONSTANTS
    Handlers,    \* connections: each asks for one network
    Requests,    \* [name, driver, cidr]
    NoCidr,      \* a subnet that parse_cidr refuses
    MaxFaults    \* bound: failed calls and deaths of the daemon

ASSUME RequestsAssumption ==
    /\ \A r \in Requests : r.cidr \in Cidrs \cup {NoCidr}
    /\ NoCidr \notin Cidrs /\ MaxFaults \in Nat
    /\ NONE \notin Handlers

VARIABLES
    life,        \* the daemon: up, down, or refused to start
    subnets,     \* Networks.ipam
    networks,    \* Networks.networks: by name, [cidr, gateway]
    file,        \* the saved table: absent, torn or full
    holder,      \* who holds the mutex
    links,       \* bridges in the kernel: by name, [ip, up]
    rules,       \* what iptables was told to forward and to masquerade
    pc,          \* [h] the step h is at
    req,         \* [h] what it asks for
    gateway,     \* [h] the address it took
    reply,       \* [h] what it answered
    checked,     \* whether this build checks overflows
    faults,      \* failures so far
    saved        \* names in any file that was ever complete

table  == <<subnets, networks>>
kernel == <<links, rules>>
task   == <<req, gateway>>
vars   == <<life, table, file, holder, kernel, pc, task, reply, checked, faults, saved>>

NoRequest == [name |-> NONE, driver |-> NONE, cidr |-> NONE]
NoFile    == [st |-> "absent", subnets |-> NoSubnets, networks |-> <<>>]
TornFile  == [NoFile EXCEPT !.st = "torn"]

\* Steps at which a handler holds the mutex, and those at which it is done:
\* over, over but with the bridge left, killed, or served by an earlier daemon.
Working == {"bridge", "address", "up", "forward", "masquerade", "unbridge",
            "giveup", "answer", "insert", "write"}
Ended   == {"over", "stray", "killed", "past"}

Name(h) == req[h].name
Cidr(h) == req[h].cidr

Fault   == faults < MaxFaults /\ faults' = faults + 1
NoFault == UNCHANGED faults

Goto(h, step) == pc' = [pc EXCEPT ![h] = step]
Answer(h, word) == reply' = [reply EXCEPT ![h] = word]

\* h is done and its guard goes out of scope.
Leave(h, step) == Goto(h, step) /\ holder' = NONE

Init ==
    /\ life = "down"
    /\ subnets = NoSubnets /\ networks = <<>> /\ file = NoFile /\ holder = NONE
    /\ links = <<>> /\ rules = {}
    /\ pc = [h \in Handlers |-> "new"]
    /\ req = [h \in Handlers |-> NoRequest]
    /\ gateway = [h \in Handlers |-> NONE]
    /\ reply = [h \in Handlers |-> "none"]
    /\ checked \in BOOLEAN
    /\ faults = 0 /\ saved = {}

-----------------------------------------------------------------------------
(* The daemon.                                                             *)

\* Variant: a file that cannot be read counts as none.
StartAfresh ==
    /\ life = "down"
    /\ life' = "up"
    /\ subnets' = Reloaded(file.subnets)
    /\ networks' = file.networks
    /\ UNCHANGED <<file, holder, kernel, pc, task, reply, checked, faults, saved>>

\* Networks::load: a file that cannot be read is fatal.
Start ==
    /\ life = "down"
    /\ IF file.st = "torn"
       THEN life' = "failed" /\ UNCHANGED table
       ELSE /\ life' = "up"
            /\ subnets' = Reloaded(file.subnets)
            /\ networks' = file.networks
    /\ UNCHANGED <<file, holder, kernel, pc, task, reply, checked, faults, saved>>

\* Memory, handlers and the mutex go; the kernel and the file stay.
Die ==
    /\ life = "up"
    /\ Fault
    /\ life' = "down"
    /\ subnets' = NoSubnets /\ networks' = <<>> /\ holder' = NONE
    /\ pc' = [h \in Handlers |-> CASE pc[h] \in {"lock"} \cup Working -> "killed"
                                   [] pc[h] = "over" -> "past"
                                   [] OTHER -> pc[h]]
    /\ UNCHANGED <<file, kernel, task, reply, checked, saved>>

Accept(h, r) ==
    /\ life = "up"
    /\ pc[h] = "new"
    /\ req' = [req EXCEPT ![h] = r]
    /\ Goto(h, "lock")
    /\ UNCHANGED <<life, table, file, holder, kernel, gateway, reply, checked, faults, saved>>

-----------------------------------------------------------------------------
(* create_network.                                                         *)

\* The tests before anything is changed.
Refused(h) ==
    \/ Name(h) \in DOMAIN networks
    \/ req[h].driver # "bridge"
    \/ Cidr(h) = NoCidr

\* add_subnet, then allocate_gateway: a subnet without room for a gateway stays.
Reservation(h) ==
    LET added == AddSubnet(subnets, Cidr(h), checked)
    IN  IF added.st = "ok" THEN AllocateGateway(added.subnets, Cidr(h), checked) ELSE added

\* Variant: the guard is dropped before the driver is called.
ReserveUnlocked(h) ==
    /\ pc[h] = "lock" /\ holder = NONE
    /\ ~Refused(h)
    /\ subnets' = Reservation(h).subnets
    /\ gateway' = [gateway EXCEPT ![h] = Reservation(h).ip]
    /\ Goto(h, "bridge")
    /\ UNCHANGED <<life, networks, file, holder, kernel, req, reply, checked, faults, saved>>

Reserve(h) ==
    /\ pc[h] = "lock" /\ holder = NONE
    /\ IF Refused(h)
       THEN /\ Goto(h, "over") /\ Answer(h, "err")
            /\ UNCHANGED <<subnets, holder, gateway>>
       ELSE LET out == Reservation(h)
            IN  /\ subnets' = out.subnets
                /\ IF out.st = "ok"
                   THEN /\ Goto(h, "bridge") /\ holder' = h
                        /\ gateway' = [gateway EXCEPT ![h] = out.ip]
                        /\ UNCHANGED reply
                   ELSE /\ Goto(h, "over") /\ Answer(h, out.st)
                        /\ UNCHANGED <<holder, gateway>>
    /\ UNCHANGED <<life, networks, file, kernel, req, checked, faults, saved>>

CreateBridge(h) ==
    /\ pc[h] = "bridge"
    /\ Name(h) \notin DOMAIN links
    /\ links' = Put(links, Name(h), [ip |-> NONE, up |-> FALSE])
    /\ Goto(h, "address")
    /\ UNCHANGED <<life, table, file, holder, rules, task, reply, checked, faults, saved>>

\* A link of that name exists, or the kernel refuses: nothing to delete.
CreateBridgeFails(h) ==
    /\ pc[h] = "bridge"
    /\ (NoFault /\ Name(h) \in DOMAIN links) \/ Fault
    /\ Goto(h, "giveup")
    /\ UNCHANGED <<life, table, file, holder, kernel, task, reply, checked, saved>>

SetBridgeIp(h) ==
    /\ pc[h] = "address"
    /\ links' = [links EXCEPT ![Name(h)].ip = gateway[h]]
    /\ Goto(h, "up")
    /\ UNCHANGED <<life, table, file, holder, rules, task, reply, checked, faults, saved>>

SetLinkUp(h) ==
    /\ pc[h] = "up"
    /\ links' = [links EXCEPT ![Name(h)].up = TRUE]
    /\ Goto(h, "forward")
    /\ UNCHANGED <<life, table, file, holder, rules, task, reply, checked, faults, saved>>

\* set_basic_iptables: two commands
SetForward(h) ==
    /\ pc[h] = "forward"
    /\ rules' = rules \cup {<<"FORWARD", Name(h)>>}
    /\ Goto(h, "masquerade")
    /\ UNCHANGED <<life, table, file, holder, links, task, reply, checked, faults, saved>>

SetMasquerade(h) ==
    /\ pc[h] = "masquerade"
    /\ rules' = rules \cup {<<"MASQUERADE", Cidr(h)>>}
    /\ Goto(h, "answer")
    /\ UNCHANGED <<life, table, file, holder, links, task, reply, checked, faults, saved>>

\* Variant: the bridge is not deleted.
SetUpFailsForGood(h) ==
    /\ pc[h] \in {"address", "up", "forward", "masquerade"}
    /\ Fault
    /\ Goto(h, "giveup")
    /\ UNCHANGED <<life, table, file, holder, kernel, task, reply, checked, saved>>

SetUpFails(h) ==
    /\ pc[h] \in {"address", "up", "forward", "masquerade"}
    /\ Fault
    /\ Goto(h, "unbridge")
    /\ UNCHANGED <<life, table, file, holder, kernel, task, reply, checked, saved>>

\* let _ = self.delete_bridge(name): the rules stay.
DeleteBridge(h) ==
    /\ pc[h] = "unbridge"
    /\ links' = [n \in DOMAIN links \ {Name(h)} |-> links[n]]
    /\ Goto(h, "giveup")
    /\ UNCHANGED <<life, table, file, holder, rules, task, reply, checked, faults, saved>>

\* Err to the client and release_ip, whose result is ignored: it leaves the
\* subnet, and in a CIDR written with another address the gateway as well.
Released(h) == ReleaseIp(subnets, Cidr(h), gateway[h], checked).subnets

GiveUp(h) ==
    /\ pc[h] = "giveup"
    /\ subnets' = Released(h)
    /\ Answer(h, "err")
    /\ Leave(h, "over")
    /\ UNCHANGED <<life, networks, file, kernel, task, checked, faults, saved>>

DeleteBridgeFails(h) ==
    /\ pc[h] = "unbridge"
    /\ Fault
    /\ subnets' = Released(h)
    /\ Answer(h, "err")
    /\ Leave(h, "stray")
    /\ UNCHANGED <<life, networks, file, kernel, task, checked, saved>>

\* OkContent, before the network is in the table
Reply(h) ==
    /\ pc[h] = "answer"
    /\ Answer(h, "ok")
    /\ Goto(h, "insert")
    /\ UNCHANGED <<life, table, file, holder, kernel, task, checked, faults, saved>>

\* Variant: the network is listed only if the file can be opened.
InsertIfSaved(h) ==
    /\ pc[h] = "insert"
    /\ \/ /\ NoFault /\ file' = TornFile /\ Goto(h, "write") /\ UNCHANGED holder
          /\ networks' = Put(networks, Name(h), [cidr |-> Cidr(h), gateway |-> gateway[h]])
       \/ Fault /\ Leave(h, "over") /\ UNCHANGED <<file, networks>>
    /\ UNCHANGED <<life, subnets, kernel, task, reply, checked, saved>>

\* networks.insert, and the open of save, which truncates the file.
Insert(h) ==
    /\ pc[h] = "insert"
    /\ networks' = Put(networks, Name(h), [cidr |-> Cidr(h), gateway |-> gateway[h]])
    /\ \/ NoFault /\ file' = TornFile /\ Goto(h, "write") /\ UNCHANGED holder
       \/ Fault /\ Leave(h, "over") /\ UNCHANGED file
    /\ UNCHANGED <<life, subnets, kernel, task, reply, checked, saved>>

WriteFile(h) ==
    /\ pc[h] = "write"
    /\ file' = [st |-> "full", subnets |-> subnets, networks |-> networks]
    /\ saved' = saved \cup DOMAIN networks
    /\ Leave(h, "over")
    /\ UNCHANGED <<life, table, kernel, task, reply, checked, faults>>

WriteFileFails(h) ==
    /\ pc[h] = "write"
    /\ Fault
    /\ Leave(h, "over")
    /\ UNCHANGED <<life, table, file, kernel, task, reply, checked, saved>>

-----------------------------------------------------------------------------
Bridge(h) == CreateBridge(h) \/ CreateBridgeFails(h) \/ SetBridgeIp(h) \/ SetLinkUp(h)
               \/ SetForward(h) \/ SetMasquerade(h) \/ DeleteBridge(h)

Step(h) == Bridge(h) \/ GiveUp(h) \/ Reply(h) \/ Insert(h) \/ WriteFile(h)

Failure(h) == SetUpFails(h) \/ DeleteBridgeFails(h) \/ WriteFileFails(h)

Next ==
    \/ Start \/ Die
    \/ \E h \in Handlers : \/ \E r \in Requests : Accept(h, r)
                           \/ Reserve(h) \/ Step(h) \/ Failure(h)

Spec == Init /\ [][Next]_vars

-----------------------------------------------------------------------------
Subnets(s) == DOMAIN s \subseteq Cidrs /\ \A c \in DOMAIN s : s[c] \in Bitmaps

Table(t) ==
    \A n \in DOMAIN t : t[n] \in [cidr : Cidrs, gateway : Addresses]

\* Every variable holds a value of its kind (the declarations of Networks).
TypeOK ==
    /\ life \in {"down", "up", "failed"}
    /\ Subnets(subnets) /\ Table(networks)
    /\ file.st \in {"absent", "torn", "full"}
    /\ Subnets(file.subnets) /\ Table(file.networks)
    /\ holder \in Handlers \cup {NONE}
    /\ \A n \in DOMAIN links : links[n] \in [ip : Addresses \cup {NONE}, up : BOOLEAN]
    /\ pc \in [Handlers -> {"new", "lock"} \cup Working \cup Ended]
    /\ \A h \in Handlers : pc[h] \in Working <=> holder = h
    /\ req \in [Handlers -> Requests \cup {NoRequest}]
    /\ gateway \in [Handlers -> Addresses \cup {NONE}]
    /\ reply \in [Handlers -> {"none", "ok", "err", "panic"}]
    /\ checked \in BOOLEAN /\ faults \in 0 .. MaxFaults

\* The networks of a table: each one's subnet is in the address manager with the
\* gateway taken, it is no other network's, and the bridge is there, up and with
\* that address.
Complete(s, t) ==
    \A n \in DOMAIN t :
        /\ t[n].cidr \in DOMAIN s /\ 0 \in Taken(s, t[n].cidr)
        /\ \A m \in DOMAIN t \ {n} : t[m].cidr # t[n].cidr
        /\ n \in DOMAIN links /\ links[n] = [ip |-> t[n].gateway, up |-> TRUE]

\* It is so in memory and in the file, whatever creations fail at whatever step,
\* undo what they did, and whenever the daemon dies and starts again.
NetworksAreComplete == Complete(subnets, networks) /\ Complete(file.subnets, file.networks)

\* A network that was once saved is in the table of every later daemon.
SavedIsKept == life = "up" => saved \subseteq DOMAIN networks

\* Whoever was told that a network was created finds it in the table of that
\* daemon, with the subnet that was asked for.
CreatedIsListed ==
    \A h \in Handlers : pc[h] = "over" /\ reply[h] = "ok" =>
        Name(h) \in DOMAIN networks /\ networks[Name(h)].cidr = Cidr(h)

\* A bridge without a network is one that is being made, that could not be
\* deleted, whose daemon died, or whose network an earlier daemon did not save.
StrayBridges ==
    life = "up" => \A n \in DOMAIN links \ DOMAIN networks :
        \E h \in Handlers : Name(h) = n /\ (\/ pc[h] \in Working \cup {"killed", "stray"}
                                            \/ pc[h] = "past" /\ reply[h] = "ok")

\* A subnet that is taken without a network is being made, or is what is left
\* of a creation that was answered with an error.
StraySubnets ==
    life = "up" => \A c \in DOMAIN subnets \ {networks[n].cidr : n \in DOMAIN networks} :
        \E h \in Handlers : Cidr(h) = c /\ (pc[h] \in Working \/ reply[h] = "err")

\* Networks whose blocks are disjoint have different gateways, each in its block,
\* in this daemon or saved, unless the block is a /32 or a /0.
GatewaysDiffer ==
    \A n \in DOMAIN networks : ~CapacityOverflows(networks[n].cidr) =>
        /\ networks[n].gateway \in Block(networks[n].cidr)
        /\ \A m \in DOMAIN networks \ {n} :
              Block(networks[m].cidr) \cap Block(networks[n].cidr) = {}
                => networks[m].gateway # networks[n].gateway
=============================================================================
