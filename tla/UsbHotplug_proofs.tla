-------------------------- MODULE UsbHotplug_proofs --------------------------
(***************************************************************************)
(* Enumeration and hotplug, for any number of ports, slots and devices and *)
(* any bounds.  The inductive invariant is built in layers, each proved    *)
(* from the ones above it: types; what the port scans know; the one        *)
(* command under way; what slots and registry say of each other; which     *)
(* slot each driver serves; and the reports under way.                     *)
(***************************************************************************)
EXTENDS UsbHotplug, FiniteSetTheorems, SequenceTheorems, TLAPS

-----------------------------------------------------------------------------
(* Types.                                                                   *)

EndpointState == [st : {"off", "running", "halted"}, trbs : Nat]
SlotState     == [st : {"disabled", "enabled", "addressed"}, port : 0 .. NumPorts,
                  dev : Devices \cup {NoDevice}, alive : BOOLEAN, ep0halted : BOOLEAN,
                  ep : [Dcis -> EndpointState]]
Found    == [kind : Kinds, dci : Dcis]
Command  == {c \in [op : {"enable", "address", "configure", "disable"}, slot : 0 .. MaxSlots,
                    port : 0 .. NumPorts, dci : Dcis \cup {0}, mine : BOOLEAN] :
                /\ c.op # "enable" => c.slot \in Slots
                /\ c.op = "address" => c.port \in Ports
                /\ c.op = "configure" => c.dci \in Dcis}
Transfer == [req : {"device", "config", "set_configuration", "set_protocol"}, slot : Slots,
             ring : Slots, mine : BOOLEAN]
Message  == {e \in [type : {"port", "command", "transfer"}, slot : 0 .. MaxSlots,
                    dci : Dcis \cup {0, Ep0Dci}, ok : BOOLEAN, mine : BOOLEAN] :
                e.type = "command" /\ e.ok => e.slot \in Slots}
Driver   == {v \in [dci : Dcis \cup {0}, slot : 0 .. MaxSlots] : v.dci # 0 => v.slot \in Slots}
Member   == [port : Ports, slot : Slots, keyboard : BOOLEAN, mouse : BOOLEAN]

(* Where main is within init_one_device: the slot has an EP0 ring; an        *)
(* endpoint is being configured; for a driver.                               *)
WithDriver   == {"set_protocol", "set_protocol_wait", "init_driver", "arm_first_report"}
WithEndpoint == WithDriver \cup {"configure_endpoint", "configure_endpoint_wait"}
Described    == HidSetup \cup
                {"get_device_descriptor", "get_device_descriptor_wait", "get_configuration",
                 "get_configuration_wait", "set_configuration", "set_configuration_wait"}
Disabling    == {"disable_slot", "disable_slot_wait"}
Enumerating  == Described \cup {"enable_slot", "enable_slot_wait", "address_device",
                                "address_device_wait"}

QueueTypes ==
    /\ cmds \in Seq(Command) /\ xfers \in Seq(Transfer) /\ events \in Seq(Message)
    /\ PORT_CHANGE_PENDING \in BOOLEAN /\ COMPLETION \in Static /\ TRANSFER \in Static
    /\ COMPLETION.pending /\ COMPLETION.ok => COMPLETION.slot \in Slots

HwTypes ==
    /\ attached \in [Ports -> Devices \cup {NoDevice}]
    /\ hw \in [Slots -> SlotState]
    /\ \A s \in Slots : hw[s].st = "addressed" => hw[s].dev # NoDevice
    /\ \A s \in Slots : hw[s].st # "addressed" =>
          /\ hw[s].port = 0 /\ hw[s].dev = NoDevice /\ ~ hw[s].alive
          /\ \A d \in Dcis : hw[s].ep[d] = NoEndpoint

MainTypes ==
    /\ drv \in [HidKinds -> Driver]
    /\ dcbaa \subseteq Slots /\ ep0 \in 0 .. MaxSlots
    /\ buf \in Seq(Found) /\ eps \in Seq(Found)
    /\ active \in Seq(Member) /\ cur \in Entry
    /\ pc \in Pcs /\ snap \subseteq Ports /\ refused \subseteq Ports
    /\ i \in 1 .. Len(active) + 1
    /\ plugs \in Nat /\ reports \in Nat /\ faults \in Nat /\ late \in Nat
    /\ pc \in Handling => cur.slot \in Slots
    /\ pc \in Enumerating => cur.port \in Ports
    /\ pc \in Described \cup {"address_device_wait"} => ep0 = cur.slot
    /\ pc \in WithEndpoint => eps # <<>>
    /\ pc \in WithDriver => Head(eps).kind \in HidKinds

(* No port is twice in the registry, and the one that is enumerated is not. *)
PortsOnce ==
    /\ \A j, l \in DOMAIN active : active[j].port = active[l].port => j = l
    /\ pc \in Enumerating => \A j \in DOMAIN active : active[j].port # cur.port

Types == QueueTypes /\ HwTypes /\ MainTypes /\ PortsOnce

-----------------------------------------------------------------------------
(* The ports.                                                               *)

Unseen    == PORT_CHANGE_PENDING \/ \E j \in DOMAIN events : events[j].type = "port"

(* X and Y agree on every port but those whose change brought no event. *)
Agree(X, Y) == X \ missed = Y \ missed

(* Unless an event of a port is still to be noticed, a scan that has begun   *)
(* works on the ports as they are, those that changed without an event       *)
(* aside, and each port is accounted for: registered, refused, still to      *)
(* come, or being enumerated.                                                *)
ScanTrue ==
    ~ Unseen =>
      /\ pc \in {"hlt", "halted", "poll_hotplug"} => Agree(Connected, ActivePorts \cup refused)
      /\ pc \in Disabling \cup {"disconnect"} =>
            /\ Agree(Connected, snap) /\ refused = {}
            /\ \A j \in DOMAIN active : j < i => active[j].port \in snap
      /\ pc = "connect" => Agree(Connected, ActivePorts \cup refused \cup snap)
      /\ pc \in Enumerating =>
            Agree(Connected, ActivePorts \cup refused \cup snap \cup {cur.port})

(* What is recorded of the ports. *)
LatchTrue == changed \subseteq Ports /\ missed \subseteq changed

-----------------------------------------------------------------------------
(* The command under way.                                                   *)

OpOf(w) == CASE w = "enable_slot_wait" -> "enable" [] w = "address_device_wait" -> "address"
             [] w = "configure_endpoint_wait" -> "configure" [] OTHER -> "disable"

CommandEvent(j) == events[j].type = "command"

(* There is one command while main waits for its answer, on the command      *)
(* ring, on the event ring or in COMPLETION, and none while it does not.     *)
OneCommand ==
    /\ \A j \in DOMAIN cmds :
          /\ j = 1 /\ cmds[j].mine /\ pc \in CommandWaits /\ ~ COMPLETION.pending
          /\ cmds[j].op = OpOf(pc) /\ cmds[j].slot = cur.slot /\ cmds[j].port = cur.port
          /\ cmds[j].op = "configure" => cmds[j].dci = Head(eps).dci
    /\ \A j \in DOMAIN events : CommandEvent(j) =>
          /\ events[j].mine /\ pc \in CommandWaits /\ cmds = <<>> /\ ~ COMPLETION.pending
          /\ \A l \in DOMAIN events : CommandEvent(l) => l = j
    /\ pc \in CommandWaits =>
          /\ COMPLETION.pending => COMPLETION.mine
          /\ cmds # <<>> \/ COMPLETION.pending \/ \E j \in DOMAIN events : CommandEvent(j)

-----------------------------------------------------------------------------
(* Slots and registry.                                                      *)

(* An answer, on its way or read, says what the controller has done. *)
AnswerTrue(ok, slot) ==
    /\ pc = "enable_slot_wait" /\ ok => hw[slot].st = "enabled"
    /\ pc = "address_device_wait" =>
          IF ok THEN hw[cur.slot].st = "addressed" /\ hw[cur.slot].port = cur.port
          ELSE hw[cur.slot].st = "enabled"
    /\ pc = "disable_slot_wait" => ok /\ hw[cur.slot].st = "disabled"

AnswersTrue ==
    /\ \A j \in DOMAIN events : CommandEvent(j) => AnswerTrue(events[j].ok, events[j].slot)
    /\ pc \in CommandWaits /\ COMPLETION.pending => AnswerTrue(COMPLETION.ok, COMPLETION.slot)

(* The slot main is at work on, before and after its command is executed. *)
CurrentSlot ==
    /\ pc = "address_device" => hw[cur.slot].st = "enabled"
    /\ pc = "address_device_wait" /\ cmds # <<>> => hw[cur.slot].st = "enabled"
    /\ pc \in Described => hw[cur.slot].st = "addressed" /\ hw[cur.slot].port = cur.port
    /\ pc = "disable_slot" \/ (pc = "disable_slot_wait" /\ cmds # <<>>) =>
          hw[cur.slot].st = "addressed"
    /\ pc \in Handling => \A j \in DOMAIN active : active[j].slot # cur.slot
    /\ pc \in Handling \ {"address_device"} => cur.slot \in dcbaa

(* Every entry of the registry is true, and every slot that is addressed is  *)
(* in it or at hand.                                                         *)
SlotsTrue ==
    /\ \A j \in DOMAIN active :
          LET s == active[j].slot IN
          s \in dcbaa /\ hw[s].st = "addressed" /\ hw[s].port = active[j].port
    /\ \A j, l \in DOMAIN active : active[j].slot = active[l].slot => j = l
    /\ \A s \in Slots : hw[s].st = "addressed" =>
          \/ \E j \in DOMAIN active : active[j].slot = s
          \/ s = cur.slot /\ pc \in Handling \ {"address_device"}
    /\ \A j \in DOMAIN xfers : xfers[j].ring = xfers[j].slot

SlotInv == SlotsTrue /\ CurrentSlot /\ AnswersTrue

-----------------------------------------------------------------------------
(* Drivers.                                                                 *)

(* The driver of kind k has been given its endpoint and not yet a TRB. *)
Arming(k) == pc = "arm_first_report" /\ Head(eps).kind = k

(* An entry of the registry through which shutdown_* will find driver k. *)
Findable(k) == \E j \in DOMAIN active : active[j].slot = drv[k].slot /\ active[j][k]

(* The entry that main is about to register names the drivers it has set up, *)
(* unless an older entry for the same slot does.                             *)
DriverInv ==
    /\ DriverOwned
    /\ pc \in HidSetup =>
          \A k \in HidKinds :
             drv[k].dci # 0 /\ drv[k].slot = cur.slot => cur[k] \/ Arming(k) \/ Findable(k)

-----------------------------------------------------------------------------
(* One keyboard and one mouse.                                              *)

(* The driver serves one endpoint of its kind, so a device has no more. *)
OneOfEachKind ==
    \A d \in Devices : \A a, b \in DOMAIN Interfaces[d] :
        Interfaces[d][a] = Interfaces[d][b] /\ Interfaces[d][a] \in HidKinds => a = b

(* No two ports, no two slots, and no slot and the port of another, have a   *)
(* keyboard or mouse each.                                                   *)
HidApart ==
    /\ \A p, q \in Ports : p # q => HidOf(attached[p]) \cap HidOf(attached[q]) = {}
    /\ \A s, t \in Slots : s # t => HidOf(hw[s].dev) \cap HidOf(hw[t].dev) = {}
    /\ \A s \in Slots, p \in Ports :
          hw[s].port # p => HidOf(hw[s].dev) \cap HidOf(attached[p]) = {}

(* The endpoints that main has still to dispatch are those of the device. *)
EndpointsTrue ==
    /\ pc = "get_configuration_wait" => buf = <<>> \/ buf = Endpoints(hw[cur.slot].dev)
    /\ pc \in {"set_configuration", "set_configuration_wait"} \cup HidSetup =>
          /\ \A a \in DOMAIN eps : eps[a].kind \in HidKinds =>
                eps[a].kind \in HidOf(hw[cur.slot].dev)
          /\ \A a, b \in DOMAIN eps :
                \/ a = b
                \/ /\ eps[a].dci # eps[b].dci
                   /\ eps[a].kind = eps[b].kind => eps[a].kind \notin HidKinds
    /\ pc \in HidSetup => \A k \in HidKinds : cur[k] =>
          /\ k \in HidOf(hw[cur.slot].dev) /\ drv[k].dci # 0 /\ drv[k].slot = cur.slot
          /\ \A a \in DOMAIN eps : eps[a].kind # k
    /\ pc \in HidSetup => \A k \in HidKinds : drv[k].dci # 0 /\ drv[k].slot = cur.slot =>
          \A a \in DOMAIN eps : eps[a].dci = drv[k].dci => a = 1 /\ Arming(k)
    /\ pc = "arm_first_report" =>
          LET k == Head(eps).kind IN drv[k] = [dci |-> Head(eps).dci, slot |-> cur.slot]
    /\ pc \in Enumerating \ HidSetup => ~ cur["keyboard"] /\ ~ cur["mouse"]

Driven ==
    /\ \A j \in DOMAIN active : \A k \in HidKinds : active[j][k] =>
          /\ drv[k].dci # 0 /\ drv[k].slot = active[j].slot
          /\ k \in HidOf(hw[active[j].slot].dev)
    /\ drv["keyboard"].dci # 0 => drv["keyboard"] # drv["mouse"]

ReportOf(j, s, d) == events[j].type = "transfer" /\ events[j].slot = s /\ events[j].dci = d
IsReport(j)       == events[j].type = "transfer" /\ events[j].dci # Ep0Dci
Served(s, d)      == \E k \in HidKinds : drv[k].dci # 0 /\ drv[k].slot = s /\ drv[k].dci = d

(* Endpoints that may still report, and reports under way, belong to a       *)
(* driver, or to the slot that is being disabled; in that case the reports   *)
(* are ahead of the answer to disable_slot on the event ring.                *)
EndpointsServed ==
    \A s \in Slots, d \in Dcis : hw[s].ep[d].trbs > 0 =>
        Served(s, d) \/ (pc \in Disabling /\ s = cur.slot)
MessagesServed ==
    \A j \in DOMAIN events : IsReport(j) =>
        \/ Served(events[j].slot, events[j].dci)
        \/ /\ pc \in Disabling /\ events[j].slot = cur.slot
           /\ pc = "disable_slot_wait" /\ cmds = <<>> =>
                 \E l \in DOMAIN events : CommandEvent(l) /\ l > j
ReportsServed == EndpointsServed /\ MessagesServed

(* The TRB of a driver's endpoint is armed or on its way back. *)
InFlight(s, d) ==
    \/ hw[s].ep[d].trbs = 1 /\ \A j \in DOMAIN events : ~ ReportOf(j, s, d)
    \/ /\ hw[s].ep[d].trbs = 0
       /\ \E j \in DOMAIN events : ReportOf(j, s, d)
       /\ \A j, l \in DOMAIN events : ReportOf(j, s, d) /\ ReportOf(l, s, d) => j = l

DriverArmed(k, s, d) ==
    /\ hw[s].ep[d].st # "off"
    /\ IF Arming(k)
         THEN hw[s].ep[d].trbs = 0 /\ \A j \in DOMAIN events : ~ ReportOf(j, s, d)
         ELSE InFlight(s, d)
DriversArmed == \A k \in HidKinds : drv[k].dci # 0 => DriverArmed(k, drv[k].slot, drv[k].dci)

(* A driver is set up for an endpoint that the controller has. *)
EndpointOn ==
    /\ pc \in WithDriver => hw[cur.slot].ep[Head(eps).dci].st # "off"
    /\ pc = "configure_endpoint_wait" =>
          /\ \A j \in DOMAIN events : CommandEvent(j) /\ events[j].ok =>
                hw[cur.slot].ep[Head(eps).dci].st # "off"
          /\ COMPLETION.pending /\ COMPLETION.ok => hw[cur.slot].ep[Head(eps).dci].st # "off"

(* The control transfer under way: at most one, of the current slot. *)
Ep0Event(j) == events[j].type = "transfer" /\ events[j].dci = Ep0Dci
OneTransfer ==
    /\ \A j \in DOMAIN xfers :
          /\ j = 1 /\ xfers[j].mine /\ pc \in TransferWaits /\ ~ TRANSFER.pending
          /\ xfers[j].slot = cur.slot
    /\ \A j \in DOMAIN events : Ep0Event(j) =>
          /\ events[j].mine /\ pc \in TransferWaits /\ xfers = <<>> /\ ~ TRANSFER.pending
          /\ \A l \in DOMAIN events : Ep0Event(l) => l = j
    /\ pc \in TransferWaits /\ TRANSFER.pending => TRANSFER.mine

CarefulInv ==
    /\ HidApart /\ EndpointsTrue /\ Driven /\ ReportsServed /\ DriversArmed /\ EndpointOn
    /\ OneTransfer

-----------------------------------------------------------------------------
(* Lemmas about queues.                                                     *)

(* Append, the only way a queue of the controller grows. *)
LEMMA Appended ==
    ASSUME NEW S, NEW q \in Seq(S), NEW x \in S
    PROVE  /\ Append(q, x) \in Seq(S) /\ Append(q, x) # <<>>
           /\ Len(q) \in Nat /\ DOMAIN q = 1 .. Len(q)
           /\ DOMAIN Append(q, x) = 1 .. Len(q) + 1
           /\ \A j \in DOMAIN q : Append(q, x)[j] = q[j]
           /\ Append(q, x)[Len(q) + 1] = x
<1>1. /\ Append(q, x) \in Seq(S) /\ Append(q, x) # <<>> /\ Len(Append(q, x)) = Len(q) + 1
      /\ \A j \in 1 .. Len(q) : Append(q, x)[j] = q[j]
      /\ Append(q, x)[Len(q) + 1] = x
  BY AppendProperties
<1> QED BY <1>1, LenProperties

(* Head and Tail, the only way it shrinks. *)
LEMMA Consumed ==
    ASSUME NEW S, NEW q \in Seq(S), q # <<>>
    PROVE  /\ Head(q) \in S /\ Head(q) = q[1] /\ Tail(q) \in Seq(S)
           /\ Len(q) \in Nat \ {0} /\ DOMAIN q = 1 .. Len(q) /\ 1 \in DOMAIN q
           /\ DOMAIN Tail(q) = 1 .. Len(q) - 1
           /\ \A j \in 1 .. Len(q) - 1 : Tail(q)[j] = q[j + 1]
<1>1. /\ Head(q) \in S /\ Tail(q) \in Seq(S) /\ Len(Tail(q)) = Len(q) - 1
      /\ \A j \in 1 .. Len(Tail(q)) : Tail(q)[j] = q[j + 1]
  BY HeadTailProperties
<1>2. Len(q) \in Nat \ {0} /\ DOMAIN q = 1 .. Len(q)
  BY EmptySeq, LenProperties
<1>3. DOMAIN Tail(q) = 1 .. Len(Tail(q))
  BY <1>1, LenProperties
<1>4. Head(q) = q[1]
  OBVIOUS
<1> QED BY <1>1, <1>2, <1>3, <1>4

(* A request that is disowned stays on its queue. *)
LEMMA Disowned ==
    ASSUME NEW S, NEW q \in Seq(S), \A x \in S : [x EXCEPT !.mine = FALSE] \in S
    PROVE  Disown(q) \in Seq(S)
<1>1. q \in [1 .. Len(q) -> S] /\ Len(q) \in Nat /\ DOMAIN q = 1 .. Len(q)
  BY LenProperties
<1>2. Disown(q) \in [1 .. Len(q) -> S]
  BY <1>1 DEF Disown
<1> QED BY <1>1, <1>2, SeqDef

(* The endpoints of HID devices have numbers of their own, none is EP0. *)
LEMMA DciNumbers == \A d \in Dcis : d \in Nat /\ d # 0 /\ d # Ep0Dci
<1> SUFFICES ASSUME NEW d \in Dcis PROVE d \in Nat /\ d # 0 /\ d # Ep0Dci
  OBVIOUS
<1>1. PICK v \in Devices : \E a \in DOMAIN Interfaces[v] : d = Dci(a)
  BY DEF Dcis
<1>2. PICK a \in DOMAIN Interfaces[v] : d = Dci(a)
  BY <1>1
<1>3. a \in Nat /\ a >= 1
  BY <1>2, DeviceAssumption, LenProperties
<1> QED BY <1>2, <1>3 DEF Dci, Ep0Dci

(* get_configuration_descriptor_and_find_interrupt_endpoints finds endpoints *)
(* that are different, each with its interface.                              *)
LEMMA EndpointsFound ==
    ASSUME NEW v \in Devices
    PROVE  /\ Endpoints(v) \in Seq(Found) /\ DOMAIN Endpoints(v) = DOMAIN Interfaces[v]
           /\ \A a \in DOMAIN Interfaces[v] :
                 Endpoints(v)[a].kind = Interfaces[v][a] /\ Endpoints(v)[a].dci = Dci(a)
<1>1. /\ Interfaces[v] \in [1 .. Len(Interfaces[v]) -> Kinds] /\ Len(Interfaces[v]) \in Nat
      /\ DOMAIN Interfaces[v] = 1 .. Len(Interfaces[v])
  BY DeviceAssumption, LenProperties
<1>2. \A a \in DOMAIN Interfaces[v] : Dci(a) \in Dcis
  BY DEF Dcis
<1>3. Endpoints(v) \in [1 .. Len(Interfaces[v]) -> Found]
  BY <1>1, <1>2 DEF Endpoints, Found
<1>4. Endpoints(v) \in Seq(Found)
  BY <1>1, <1>3, SeqDef
<1> QED BY <1>1, <1>4 DEF Endpoints

-----------------------------------------------------------------------------
(* Types.                                                                   *)

(* The static of a wait, reset. *)
LEMMA ResetStatic == NotPending \in Static /\ NotPending.pending = FALSE
  BY HubAssumption DEF NotPending, Static

(* A command of main, with the fields its kind needs. *)
LEMMA CommandSent ==
    ASSUME QueueTypes, NEW op, NEW dci, SendCommand(op, dci),
           [op |-> op, slot |-> cur.slot, port |-> cur.port, dci |-> dci, mine |-> TRUE] \in Command
    PROVE  QueueTypes'
  BY Appended, ResetStatic DEF SendCommand, QueueTypes

(* A control transfer of main. *)
LEMMA TransferSent ==
    ASSUME QueueTypes, NEW req, SendTransfer(req),
           [req |-> req, slot |-> cur.slot, ring |-> ep0, mine |-> TRUE] \in Transfer
    PROVE  QueueTypes'
  BY Appended, ResetStatic DEF SendTransfer, QueueTypes

(* The end of a wait: an answer taken, or the request disowned. *)
LEMMA WaitEnded ==
    ASSUME QueueTypes, NEW static, NEW r \in BOOLEAN, Await(static, r), UNCHANGED statics,
           late \in Nat
    PROVE  QueueTypes' /\ late' \in Nat
<1>1. \A x \in Command : [x EXCEPT !.mine = FALSE] \in Command
  BY DEF Command
<1>2. \A x \in Transfer : [x EXCEPT !.mine = FALSE] \in Transfer
  BY DEF Transfer
<1>3. \A x \in Message : [x EXCEPT !.mine = FALSE] \in Message
  BY DEF Message
<1>4. Disown(cmds) \in Seq(Command) /\ Disown(xfers) \in Seq(Transfer) /\ Disown(events) \in Seq(Message)
  BY <1>1, <1>2, <1>3, Disowned DEF QueueTypes
<1> QED BY <1>4 DEF Await, QueueTypes, reqVars, statics

(* An event of the controller. *)
LEMMA EventPosted ==
    ASSUME QueueTypes, NEW e \in Message, Post(e)
    PROVE  /\ events' \in Seq(Message)
           /\ DOMAIN events = 1 .. Len(events) /\ Len(events) \in Nat
           /\ DOMAIN events' = 1 .. Len(events) + 1
           /\ \A j \in DOMAIN events : events'[j] = events[j]
           /\ events'[Len(events) + 1] = e
  BY Appended DEF QueueTypes, Post

(* The system starts well typed. *)
LEMMA InitTypes == Init => Types
<1> SUFFICES ASSUME Init PROVE Types
  OBVIOUS
<1>1. QueueTypes
  BY ResetStatic, EmptySeq DEF Init, QueueTypes
<1>2. HwTypes
  BY HubAssumption DEF Init, HwTypes, FreeSlot, SlotState, EndpointState, NoEndpoint
<1>3. MainTypes
  BY HubAssumption DEF Init, MainTypes, Driver, NoEntry, Entry, Pcs, Handling, HidSetup, Enumerating, Described,
     WithEndpoint, WithDriver
<1>4. PortsOnce
  BY DEF Init, PortsOnce, Enumerating, Described, HidSetup
<1> QED BY <1>1, <1>2, <1>3, <1>4 DEF Types

(* A set of numbers that is not empty has a smallest one. *)
LEMMA SmallestOf ==
    ASSUME NEW N \in SUBSET Nat, N # {}
    PROVE  \E q \in N : \A r \in N : q <= r
<1> DEFINE R == {p \in Nat \X Nat : p[1] < p[2]}
<1>1. IsWellFoundedOn(R, Nat)
  BY NatLessThanWellFounded DEF OpToRel
<1>2. PICK q \in N : \A r \in N : ~ (<<r, q>> \in R)
  BY <1>1, WFMin
<1>3. \A r \in N : ~ (r < q)
  BY <1>2
<1> QED BY <1>3

(* The CONNECT loop takes up the lowest port that is not in the registry. *)
LEMMA NextPort ==
    ASSUME Types, connect_loop, snap \ ActivePorts # {}
    PROVE  \E p \in snap \ ActivePorts :
              /\ \A r \in snap \ ActivePorts : p <= r
              /\ cur' = [NoEntry EXCEPT !.port = p] /\ pc' = "enable_slot"
              /\ snap' = {q \in snap : q > p} /\ snap' \subseteq snap
              /\ UNCHANGED <<attached, hw, reqVars, statics, drv, dcbaa, ep0, i, eps, active,
                             refused, buf, bounds>>
<1> DEFINE new == snap \ ActivePorts
           p == CHOOSE q \in new : \A r \in new : q <= r
<1>1. new \subseteq Nat
  <2>1. \A q \in snap : q \in 1 .. NumPorts
    BY DEF Types, MainTypes, Ports
  <2>2. \A q \in 1 .. NumPorts : q \in Nat
    BY HubAssumption
  <2> QED BY <2>1, <2>2, Zenon
<1>2. \E q \in new : \A r \in new : q <= r
  BY <1>1, SmallestOf
<1>3. p \in new /\ \A r \in new : p <= r
  BY <1>2
<1>4. /\ cur' = [NoEntry EXCEPT !.port = p] /\ pc' = "enable_slot"
      /\ snap' = {q \in snap : q > p}
      /\ UNCHANGED <<attached, hw, reqVars, statics, drv, dcbaa, ep0, i, eps, active, refused,
                     buf, bounds>>
  BY DEF connect_loop, owned
<1> HIDE DEF p
<1> QED BY <1>3, <1>4

(* The controller gives out the lowest slot that is disabled. *)
LEMMA LowestSlot ==
    ASSUME NEW free \in SUBSET Slots, free # {}
    PROVE  (CHOOSE t \in free : \A u \in free : t <= u) \in free
<1>1. \A t \in 1 .. MaxSlots : t \in Nat
  BY HubAssumption
<1>2. free \subseteq Nat
  BY <1>1 DEF Slots
<1>3. \E t \in free : \A u \in free : t <= u
  BY <1>2, SmallestOf
<1> QED BY <1>3

(* init_one_device gives an entry, which is pushed. *)
LEMMA Registered ==
    ASSUME PortsOnce, active \in Seq(Member), cur \in Member, pc \in Enumerating,
           active' = Append(active, cur)
    PROVE  /\ active' \in Seq(Member) /\ Len(active') = Len(active) + 1 /\ Len(active) \in Nat
           /\ \A j, l \in DOMAIN active' : active'[j].port = active'[l].port => j = l
<1>1. /\ active' \in Seq(Member) /\ Len(active) \in Nat /\ DOMAIN active = 1 .. Len(active)
      /\ DOMAIN active' = 1 .. Len(active) + 1 /\ Len(active') = Len(active) + 1
      /\ \A j \in DOMAIN active : active'[j] = active[j]
      /\ active'[Len(active) + 1] = cur
  BY Appended, AppendProperties
<1> QED BY <1>1 DEF PortsOnce

(* The idle loop, the loops of the synchronisation and the drivers. *)
LEMMA LocalStepTypes ==
    ASSUME Types,
           hlt \/ poll_hotplug \/ discover_and_init_hid_devices \/ connect_loop
           \/ dispatch_endpoint \/ init_driver
    PROVE  Types'
<1> USE DEF Pcs, Handling, HidSetup, Enumerating, Described, WithEndpoint, WithDriver
<1>1. UNCHANGED <<attached, hw, cmds, xfers, events, COMPLETION, TRANSFER>>
      /\ PORT_CHANGE_PENDING' \in BOOLEAN
  BY DEF hlt, poll_hotplug, discover_and_init_hid_devices, connect_loop, dispatch_endpoint,
         init_driver, reqVars, statics, Types, QueueTypes
<1>2. QueueTypes' /\ HwTypes'
  BY <1>1 DEF Types, QueueTypes, HwTypes
<1>3. CASE hlt
  BY <1>2, <1>3 DEF hlt, owned, mainVars, bounds, Types, MainTypes, PortsOnce
<1>4. CASE poll_hotplug
  BY <1>2, <1>4 DEF poll_hotplug, owned, mainVars, bounds, Types, MainTypes, PortsOnce
<1>5. CASE discover_and_init_hid_devices
  BY <1>2, <1>5, LenProperties
     DEF discover_and_init_hid_devices, owned, bounds, Types, MainTypes, PortsOnce
<1>6. CASE connect_loop
  <2>1. CASE snap \ ActivePorts = {}
    BY <1>2, <1>6, <2>1 DEF connect_loop, owned, bounds, Types, MainTypes, PortsOnce
  <2>2. CASE snap \ ActivePorts # {}
    <3>1. PICK p \in snap \ ActivePorts :
             /\ cur' = [NoEntry EXCEPT !.port = p] /\ pc' = "enable_slot" /\ snap' \subseteq snap
             /\ UNCHANGED <<drv, dcbaa, ep0, i, eps, active, refused, buf, bounds>>
      BY <1>6, <2>2, NextPort, Zenon
    <3>2. p \in Ports /\ \A j \in DOMAIN active : active[j].port # p
      BY DEF Types, MainTypes, ActivePorts
    <3>3. cur' \in Entry /\ cur'.port = p
      <4>1. cur' = [port |-> p, slot |-> 0, keyboard |-> FALSE, mouse |-> FALSE]
        BY <3>1 DEF NoEntry
      <4>2. p \in 0 .. NumPorts /\ 0 \in 0 .. MaxSlots
        BY <3>2, HubAssumption DEF Ports
      <4> QED BY <4>1, <4>2 DEF Entry
    <3> QED BY <1>2, <3>1, <3>2, <3>3 DEF Types, MainTypes, PortsOnce, bounds
  <2> QED BY <2>1, <2>2
<1>7. CASE dispatch_endpoint
  <2>1. CASE eps = <<>>
    <3>1. /\ active' = Append(active, cur) /\ pc' = "connect"
          /\ UNCHANGED <<drv, dcbaa, ep0, i, eps, snap, cur, refused, buf, bounds>>
      BY <1>7, <2>1 DEF dispatch_endpoint, Push, owned
    <3>2. cur \in Member
      BY <1>7 DEF dispatch_endpoint, Types, MainTypes, Entry, Member
    <3> QED BY <1>2, <1>7, <3>1, <3>2, Registered
            DEF dispatch_endpoint, Types, MainTypes, PortsOnce, bounds
  <2>2. CASE eps # <<>>
    <3>1. Tail(eps) \in Seq(Found) /\ Head(eps) \in Found
      BY <2>2, Consumed DEF Types, MainTypes
    <3> QED BY <1>2, <1>7, <2>2, <3>1 DEF dispatch_endpoint, Types, MainTypes, PortsOnce, bounds, owned
  <2> QED BY <2>1, <2>2
<1>8. CASE init_driver
  <2>1. eps # <<>> /\ Head(eps).kind \in HidKinds /\ Head(eps) \in Found /\ cur.slot \in Slots
    BY <1>8, Consumed DEF init_driver, Types, MainTypes
  <2>2. [dci |-> Head(eps).dci, slot |-> cur.slot] \in Driver
    BY <2>1, HubAssumption DEF Driver, Found, Slots
  <2> QED BY <1>2, <1>8, <2>1, <2>2 DEF init_driver, Types, MainTypes, PortsOnce, bounds, mainVars
<1> QED BY <1>3, <1>4, <1>5, <1>6, <1>7, <1>8

(* What is in the registry can be main's current entry, and has a slot. *)
LEMMA MembersAreEntries == \A m \in Member : m \in Entry /\ m.slot \in Slots /\ m.port \in Ports
<1>1. Ports \subseteq 0 .. NumPorts /\ Slots \subseteq 0 .. MaxSlots
  BY HubAssumption DEF Ports, Slots
<1> QED BY <1>1 DEF Member, Entry

(* The DISCONNECT loop: an entry whose port is gone leaves the registry. *)
LEMMA EntryRemoved ==
    ASSUME NEW S, NEW q \in Seq(S), NEW a \in DOMAIN q
    PROVE  /\ RemoveAt(q, a) \in Seq(S) /\ Len(RemoveAt(q, a)) = Len(q) - 1
           /\ DOMAIN q = 1 .. Len(q) /\ Len(q) \in Nat \ {0} /\ DOMAIN RemoveAt(q, a) = 1 .. Len(q) - 1
           /\ \A j \in 1 .. Len(q) - 1 : RemoveAt(q, a)[j] = IF j < a THEN q[j] ELSE q[j + 1]
<1> DEFINE b == SubSeq(q, 1, a - 1)
           c == SubSeq(q, a + 1, Len(q))
<1>1. DOMAIN q = 1 .. Len(q) /\ Len(q) \in Nat /\ q \in [1 .. Len(q) -> S] /\ a \in 1 .. Len(q)
  BY LenProperties
<1>2. b \in Seq(S) /\ Len(b) = a - 1 /\ \A j \in 1 .. a - 1 : b[j] = q[j]
  <2>1. \A j \in 1 .. a - 1 : q[j] \in S
    BY <1>1
  <2>2. /\ b \in Seq(S) /\ Len(b) = IF 1 <= a - 1 THEN (a - 1) - 1 + 1 ELSE 0
        /\ \A j \in 1 .. (a - 1) - 1 + 1 : b[j] = q[1 + j - 1]
    BY <1>1, <2>1, SubSeqProperties
  <2> QED BY <1>1, <2>2
<1>3. c \in Seq(S) /\ Len(c) = Len(q) - a /\ \A j \in 1 .. Len(q) - a : c[j] = q[a + j]
  <2>1. \A j \in a + 1 .. Len(q) : q[j] \in S
    BY <1>1
  <2>2. /\ c \in Seq(S) /\ Len(c) = IF a + 1 <= Len(q) THEN Len(q) - (a + 1) + 1 ELSE 0
        /\ \A j \in 1 .. Len(q) - (a + 1) + 1 : c[j] = q[a + 1 + j - 1]
    BY <1>1, <2>1, SubSeqProperties
  <2>3. \A j \in 1 .. Len(q) - a : a + 1 + j - 1 = a + j
    BY <1>1
  <2> QED BY <1>1, <2>2, <2>3
<1> HIDE DEF b, c
<1>4. /\ b \o c \in Seq(S) /\ Len(b \o c) = Len(b) + Len(c)
      /\ \A j \in 1 .. Len(b) + Len(c) : (b \o c)[j] = IF j <= Len(b) THEN b[j] ELSE c[j - Len(b)]
  BY <1>2, <1>3, ConcatProperties
<1>5. DOMAIN (b \o c) = 1 .. Len(b \o c)
  BY <1>4, LenProperties
<1>6. RemoveAt(q, a) = b \o c
  BY DEF RemoveAt, b, c
<1>7. \A j \in 1 .. Len(q) - 1 : (b \o c)[j] = IF j < a THEN q[j] ELSE q[j + 1]
  <2> SUFFICES ASSUME NEW j \in 1 .. Len(q) - 1 PROVE (b \o c)[j] = IF j < a THEN q[j] ELSE q[j + 1]
    OBVIOUS
  <2>1. CASE j < a
    BY <1>1, <1>2, <1>3, <1>4, <2>1
  <2>2. CASE ~ j < a
    <3>1. j - (a - 1) \in 1 .. Len(q) - a /\ a + (j - (a - 1)) = j + 1
      BY <1>1, <2>2
    <3>2. c[j - (a - 1)] = q[j + 1]
      BY <1>3, <3>1
    <3>3. j \in 1 .. Len(b) + Len(c) /\ ~ j <= Len(b) /\ j - Len(b) = j - (a - 1)
      BY <1>1, <1>2, <1>3, <2>2
    <3> QED BY <1>4, <2>2, <3>2, <3>3
  <2> QED BY <2>1, <2>2
<1>8. Len(b \o c) = Len(q) - 1 /\ Len(q) \in Nat \ {0}
  BY <1>1, <1>2, <1>3, <1>4
<1> QED BY <1>1, <1>4, <1>5, <1>6, <1>7, <1>8

(* One turn of the DISCONNECT loop. *)
LEMMA DisconnectTypes == ASSUME Types, disconnect_loop PROVE Types'
<1> USE DEF Pcs, Handling, HidSetup, Enumerating, Described, WithEndpoint, WithDriver
<1>1. QueueTypes' /\ HwTypes'
  BY DEF disconnect_loop, reqVars, statics, Types, QueueTypes, HwTypes
<1>2. Len(active) \in Nat /\ DOMAIN active = 1 .. Len(active)
  BY LenProperties DEF Types, MainTypes
<1>3. CASE ~ (i <= Len(active) /\ active[i].port \notin snap)
  <2>1. /\ pc' \in {"disconnect", "connect"} /\ i' \in 1 .. Len(active) + 1
        /\ UNCHANGED <<drv, dcbaa, ep0, snap, cur, active, eps, refused, buf, bounds>>
    BY <1>2, <1>3 DEF disconnect_loop, Types, MainTypes
  <2> QED BY <1>1, <2>1 DEF Types, MainTypes, PortsOnce, bounds
<1>4. CASE i <= Len(active) /\ active[i].port \notin snap
  <2>1. i \in DOMAIN active
    BY <1>2, <1>4 DEF Types, MainTypes
  <2>2. /\ cur' = active[i] /\ active' = RemoveAt(active, i) /\ pc' = "disable_slot"
        /\ drv' = [k \in HidKinds |-> ShutDown(drv, k, active[i])]
        /\ UNCHANGED <<dcbaa, ep0, snap, i, eps, refused, buf, bounds>>
    BY <1>2, <1>4 DEF disconnect_loop, Types, MainTypes
  <2>3. active[i] \in Member /\ cur' \in Entry /\ cur'.slot \in Slots
    <3>1. active[i] \in Member
      BY <2>1, <1>2, ElementOfSeq DEF Types, MainTypes
    <3> QED BY <2>2, <3>1, MembersAreEntries
  <2>4. \A k \in HidKinds : ShutDown(drv, k, active[i]) \in Driver
    BY HubAssumption DEF ShutDown, Driver, Types, MainTypes
  <2>5. drv' \in [HidKinds -> Driver]
    BY <2>2, <2>4
  <2>6. /\ active' \in Seq(Member) /\ Len(active') = Len(active) - 1 /\ Len(active) \in Nat \ {0}
        /\ DOMAIN active' = 1 .. Len(active) - 1
        /\ \A j \in 1 .. Len(active) - 1 :
              active'[j] = IF j < i THEN active[j] ELSE active[j + 1]
    BY <2>1, <2>2, EntryRemoved DEF Types, MainTypes
  <2>7. \A j, l \in DOMAIN active' : active'[j].port = active'[l].port => j = l
    <3> SUFFICES ASSUME NEW j \in 1 .. Len(active) - 1, NEW l \in 1 .. Len(active) - 1,
                        active'[j].port = active'[l].port
                 PROVE  j = l
      BY <2>6
    <3>1. \E a, b \in DOMAIN active :
             /\ active'[j] = active[a] /\ active'[l] = active[b]
             /\ a = (IF j < i THEN j ELSE j + 1) /\ b = (IF l < i THEN l ELSE l + 1)
      BY <1>2, <2>1, <2>6
    <3> QED BY <3>1, <1>2, <2>1 DEF Types, PortsOnce
  <2> QED BY <1>1, <1>2, <1>4, <2>2, <2>3, <2>5, <2>6, <2>7 DEF Types, MainTypes, PortsOnce, bounds
<1> QED BY <1>3, <1>4

(* The cli .. sti section in which main sends a command or a transfer. *)
LEMMA CallTypes ==
    ASSUME Types,
           disable_slot \/ enable_slot \/ address_device \/ configure_endpoint
           \/ get_device_descriptor \/ get_configuration \/ set_configuration \/ set_protocol
    PROVE  Types'
<1> USE DEF Pcs, Handling, HidSetup, Enumerating, Described, WithEndpoint, WithDriver
<1>1. 0 \in Dcis \cup {0} /\ \A s \in Slots : s \in 0 .. MaxSlots
  BY HubAssumption DEF Slots
<1>2. CASE disable_slot
  <2>1. QueueTypes'
    BY <1>1, <1>2, CommandSent DEF disable_slot, Command, Entry, Types, MainTypes
  <2> QED BY <1>2, <2>1 DEF disable_slot, Call, Types, HwTypes, MainTypes, PortsOnce, owned, mainVars, bounds
<1>3. CASE enable_slot
  <2>1. QueueTypes'
    BY <1>1, <1>3, CommandSent DEF enable_slot, Command, Entry, Types, MainTypes
  <2> QED BY <1>3, <2>1 DEF enable_slot, Call, Types, HwTypes, MainTypes, PortsOnce, owned, mainVars, bounds
<1>4. CASE address_device
  <2>1. QueueTypes'
    BY <1>1, <1>4, CommandSent DEF address_device, Command, Entry, Types, MainTypes
  <2> QED BY <1>1, <1>4, <2>1 DEF address_device, Call, Types, HwTypes, MainTypes, PortsOnce, mainVars, bounds
<1>5. CASE configure_endpoint
  <2>1. Head(eps) \in Found
    BY <1>5, Consumed DEF configure_endpoint, Types, MainTypes
  <2>2. QueueTypes'
    BY <1>1, <1>5, <2>1, CommandSent DEF configure_endpoint, Command, Entry, Found, Types, MainTypes
  <2> QED BY <1>5, <2>2
          DEF configure_endpoint, Call, Types, HwTypes, MainTypes, PortsOnce, owned, mainVars, bounds
<1>6. CASE get_device_descriptor
  <2>1. QueueTypes'
    BY <1>6, TransferSent DEF get_device_descriptor, Transfer, Types, MainTypes
  <2> QED BY <1>6, <2>1
          DEF get_device_descriptor, Call, Types, HwTypes, MainTypes, PortsOnce, owned, mainVars, bounds
<1>7. CASE get_configuration
  <2>1. QueueTypes'
    BY <1>7, TransferSent DEF get_configuration, Transfer, Types, MainTypes
  <2>2. <<>> \in Seq(Found)
    BY EmptySeq
  <2> QED BY <1>7, <2>1, <2>2
          DEF get_configuration, Types, HwTypes, MainTypes, PortsOnce, owned, bounds
<1>8. CASE set_configuration
  <2>1. QueueTypes'
    BY <1>8, TransferSent DEF set_configuration, Transfer, Types, MainTypes
  <2> QED BY <1>8, <2>1
          DEF set_configuration, Call, Types, HwTypes, MainTypes, PortsOnce, owned, mainVars, bounds
<1>9. CASE set_protocol
  <2>1. QueueTypes'
    BY <1>9, TransferSent DEF set_protocol, Transfer, Types, MainTypes
  <2> QED BY <1>9, <2>1
          DEF set_protocol, Call, Types, HwTypes, MainTypes, PortsOnce, owned, mainVars, bounds
<1> QED BY <1>2, <1>3, <1>4, <1>5, <1>6, <1>7, <1>8, <1>9

(* The end of a wait and what main makes of its result. *)
LEMMA ReturnTypes ==
    ASSUME Types,
           disable_slot_return \/ enable_slot_return \/ address_device_return
           \/ configure_endpoint_return \/ get_device_descriptor_return
           \/ get_configuration_return \/ set_configuration_return \/ set_protocol_return
    PROVE  Types'
<1> USE DEF Pcs, Handling, HidSetup, Enumerating, Described, WithEndpoint, WithDriver
<1>1. QueueTypes' /\ late' \in Nat /\ Ret
  <2>1. \E static, r : r \in BOOLEAN /\ Await(static, r) /\ Ret
    BY DEF disable_slot_return, enable_slot_return, address_device_return,
           configure_endpoint_return, get_device_descriptor_return, get_configuration_return,
           set_configuration_return, set_protocol_return
  <2> QED BY <2>1, WaitEnded DEF Types, MainTypes, Ret
<1>2. HwTypes' /\ UNCHANGED <<ep0, plugs, reports, faults>>
  BY <1>1 DEF Ret, Types, HwTypes
<1>3. Len(active) \in Nat /\ DOMAIN active = 1 .. Len(active)
  BY LenProperties DEF Types, MainTypes
<1>4. CASE disable_slot_return
  BY <1>1, <1>2, <1>4 DEF disable_slot_return, Types, MainTypes, PortsOnce, mainVars
<1>5. CASE enable_slot_return
  <2>1. CASE pc' = "address_device"
    <3>1. /\ cur' = [cur EXCEPT !.slot = COMPLETION.slot] /\ COMPLETION.slot \in Slots
          /\ UNCHANGED <<drv, dcbaa, snap, i, eps, active, buf, refused>>
      BY <1>5, <2>1 DEF enable_slot_return, Await, Types, QueueTypes, Static
    <3>2. cur' \in Entry /\ cur'.port = cur.port /\ cur'.slot \in Slots
      <4>1. cur \in Entry
        BY DEF Types, MainTypes
      <4>2. COMPLETION.slot \in 0 .. MaxSlots
        BY <3>1, HubAssumption DEF Slots
      <4>3. cur' \in Entry
        BY <3>1, <4>1, <4>2 DEF Entry
      <4>4. cur'.port = cur.port /\ cur'.slot = COMPLETION.slot
        BY <3>1, <4>1 DEF Entry
      <4> QED BY <3>1, <4>3, <4>4
    <3>3. pc = "enable_slot_wait"
      BY <1>5 DEF enable_slot_return
    <3> QED BY <1>1, <1>2, <2>1, <3>1, <3>2, <3>3 DEF Types, MainTypes, PortsOnce
  <2>2. CASE pc' # "address_device"
    BY <1>1, <1>2, <1>5, <2>2 DEF enable_slot_return, Types, MainTypes, PortsOnce
  <2> QED BY <2>1, <2>2
<1>6. CASE address_device_return
  BY <1>1, <1>2, <1>6 DEF address_device_return, Types, MainTypes, PortsOnce
<1>7. CASE configure_endpoint_return
  <2>1. Tail(eps) \in Seq(Found)
    BY <1>7, Consumed DEF configure_endpoint_return, Types, MainTypes
  <2>2. /\ UNCHANGED <<active, drv, dcbaa, snap, i, cur, refused, buf>> /\ pc = "configure_endpoint_wait"
        /\ \/ pc' = "set_protocol" /\ eps' = eps /\ Head(eps).kind \in HidKinds
           \/ pc' = "dispatch" /\ eps' = Tail(eps)
    BY <1>7 DEF configure_endpoint_return
  <2> QED BY <1>1, <1>2, <2>1, <2>2 DEF Types, MainTypes, PortsOnce
<1>8. CASE get_device_descriptor_return \/ get_configuration_return \/ set_configuration_return
  <2>1. pc \in Described /\ cur \in Member
    BY <1>8 DEF get_device_descriptor_return, get_configuration_return, set_configuration_return,
                Types, MainTypes, Entry, Member
  <2>2. CASE Push
    <3>1. /\ active' \in Seq(Member) /\ Len(active') = Len(active) + 1 /\ pc' = "connect"
          /\ \A j, l \in DOMAIN active' : active'[j].port = active'[l].port => j = l
      BY <2>1, <2>2, Registered DEF Push, Types, MainTypes
    <3>2. UNCHANGED <<drv, dcbaa, snap, i, cur, eps, refused, buf>>
      BY <1>8, <2>2 DEF get_device_descriptor_return, get_configuration_return,
                        set_configuration_return, Push
    <3> QED BY <1>1, <1>2, <1>3, <3>1, <3>2 DEF Types, MainTypes, PortsOnce
  <2>3. CASE ~ Push
    <3>1. /\ UNCHANGED <<active, drv, dcbaa, snap, i, cur, refused, buf>>
          /\ eps' \in Seq(Found)
          /\ pc' \in {"get_configuration", "set_configuration", "dispatch"}
      BY <1>8, <2>3 DEF get_device_descriptor_return, get_configuration_return,
                        set_configuration_return, Types, MainTypes
    <3> QED BY <1>1, <1>2, <2>1, <3>1 DEF Types, MainTypes, PortsOnce
  <2> QED BY <2>2, <2>3
<1>9. CASE set_protocol_return
  BY <1>1, <1>2, <1>9 DEF set_protocol_return, Types, MainTypes, PortsOnce, mainVars
<1> QED BY <1>4, <1>5, <1>6, <1>7, <1>8, <1>9

(* arm_next_report changes the TRBs of one endpoint. *)
LEMMA ArmedTypes ==
    ASSUME Types, NEW k \in HidKinds
    PROVE  /\ Armed(k) \in [Slots -> SlotState]
           /\ \A s \in Slots :
                 /\ Armed(k)[s] = [hw[s] EXCEPT !.ep = Armed(k)[s].ep]
                 /\ \A d \in Dcis : Armed(k)[s].ep[d] =
                       IF drv[k].dci # 0 /\ s = drv[k].slot /\ d = drv[k].dci /\ hw[s].ep[d].st # "off"
                         THEN [hw[s].ep[d] EXCEPT !.trbs = @ + 1] ELSE hw[s].ep[d]
<1> DEFINE S == drv[k].slot
           D == drv[k].dci
<1>1. \A s \in Slots : hw[s] \in SlotState /\ \A d \in Dcis : hw[s].ep[d] \in EndpointState
  BY DEF Types, HwTypes, SlotState
<1>2. CASE ~ (D # 0 /\ hw[S].ep[D].st # "off")
  <2>1. Armed(k) = hw
    BY <1>2 DEF Armed
  <2>2. \A s \in Slots : hw[s] = [hw[s] EXCEPT !.ep = hw[s].ep]
    BY <1>1 DEF SlotState
  <2>3. \A s \in Slots : \A d \in Dcis :
          ~ (drv[k].dci # 0 /\ s = drv[k].slot /\ d = drv[k].dci /\ hw[s].ep[d].st # "off")
    BY <1>2
  <2> QED BY <2>1, <2>2, <2>3 DEF Types, HwTypes
<1>3. CASE D # 0 /\ hw[S].ep[D].st # "off"
  <2>1. S \in Slots /\ D \in Dcis
    BY <1>3 DEF Types, MainTypes, Driver
  <2>2. Armed(k) = [hw EXCEPT ![S].ep[D].trbs = @ + 1]
    BY <1>3 DEF Armed
  <2> DEFINE E == [hw[S].ep[D] EXCEPT !.trbs = @ + 1]
             P == [hw[S].ep EXCEPT ![D] = E]
             H == [hw[S] EXCEPT !.ep = P]
  <2>3. E \in EndpointState
    BY <1>1, <2>1 DEF EndpointState
  <2>4. hw[S] \in SlotState /\ hw[S].ep \in [Dcis -> EndpointState]
    BY <1>1, <2>1 DEF SlotState
  <2>5. Armed(k) = [hw EXCEPT ![S] = H]
    BY <2>2
  <2> HIDE DEF E
  <2>6. P \in [Dcis -> EndpointState] /\ P[D] = E /\ \A d \in Dcis : d # D => P[d] = hw[S].ep[d]
    BY <2>1, <2>3, <2>4
  <2> HIDE DEF P
  <2>7. H \in SlotState /\ H.ep = P
    BY <2>4, <2>6 DEF SlotState
  <2>8. H = [hw[S] EXCEPT !.ep = H.ep]
    BY <2>7
  <2> HIDE DEF H
  <2>9. Armed(k) \in [Slots -> SlotState] /\ Armed(k)[S] = H
        /\ \A s \in Slots : s # S => Armed(k)[s] = hw[s]
    BY <2>1, <2>5, <2>7 DEF Types, HwTypes
  <2>10. \A s \in Slots : hw[s] = [hw[s] EXCEPT !.ep = hw[s].ep]
    BY <1>1 DEF SlotState
  <2>11. E = [hw[S].ep[D] EXCEPT !.trbs = @ + 1]
    BY DEF E
  <2>12. ASSUME NEW s \in Slots
         PROVE  /\ Armed(k)[s] = [hw[s] EXCEPT !.ep = Armed(k)[s].ep]
                /\ \A d \in Dcis : Armed(k)[s].ep[d] =
                       IF drv[k].dci # 0 /\ s = drv[k].slot /\ d = drv[k].dci /\ hw[s].ep[d].st # "off"
                         THEN [hw[s].ep[d] EXCEPT !.trbs = @ + 1] ELSE hw[s].ep[d]
    <3>1. CASE s = S
      BY <1>3, <2>6, <2>7, <2>8, <2>9, <2>11, <3>1
    <3>2. CASE s # S
      BY <2>9, <2>10, <3>2
    <3> QED BY <3>1, <3>2
  <2> QED BY <2>9, <2>12
<1> QED BY <1>2, <1>3

(* A step that only arms a report leaves the slots well typed. *)
LEMMA ArmingKeepsTypes ==
    ASSUME Types, NEW k \in HidKinds, hw' = Armed(k), UNCHANGED attached
    PROVE  HwTypes'
<1>1. \A s \in Slots : \A d \in Dcis : hw[s].ep[d] = NoEndpoint => Armed(k)[s].ep[d] = hw[s].ep[d]
  <2> SUFFICES ASSUME NEW s \in Slots, NEW d \in Dcis, hw[s].ep[d] = NoEndpoint
               PROVE  Armed(k)[s].ep[d] = hw[s].ep[d]
    OBVIOUS
  <2>1. hw[s].ep[d].st = "off"
    BY DEF NoEndpoint
  <2> QED BY <2>1, ArmedTypes
<1>2. \A s \in Slots : hw[s] \in SlotState /\ hw'[s] = [hw[s] EXCEPT !.ep = hw'[s].ep]
  BY ArmedTypes DEF Types, HwTypes
<1>3. \A s \in Slots : /\ hw'[s].st = hw[s].st /\ hw'[s].port = hw[s].port /\ hw'[s].dev = hw[s].dev
                       /\ hw'[s].alive = hw[s].alive
  BY <1>2 DEF SlotState
<1> QED BY <1>1, <1>3, ArmedTypes DEF Types, HwTypes

(* The end of init_keyboard and init_mouse. *)
LEMMA ArmFirstTypes == ASSUME Types, arm_first_report PROVE Types'
<1> USE DEF Pcs, Handling, HidSetup, Enumerating, Described, WithEndpoint, WithDriver
<1>1. Head(eps).kind \in HidKinds /\ Tail(eps) \in Seq(Found)
  BY Consumed DEF arm_first_report, Types, MainTypes
<1>2. HwTypes' /\ QueueTypes'
  BY <1>1, ArmingKeepsTypes DEF arm_first_report, Types, QueueTypes, reqVars, statics
<1>3. cur' \in Entry /\ cur'.slot = cur.slot /\ cur'.port = cur.port
  <2>1. cur \in Entry
    BY DEF Types, MainTypes
  <2>2. cur' = [cur EXCEPT ![Head(eps).kind] = TRUE]
    BY DEF arm_first_report
  <2>3. Head(eps).kind = "keyboard" \/ Head(eps).kind = "mouse"
    BY <1>1 DEF HidKinds
  <2> QED BY <2>1, <2>2, <2>3 DEF Entry
<1> QED BY <1>1, <1>2, <1>3 DEF arm_first_report, Types, MainTypes, PortsOnce, owned, bounds

(* The handler of vector 44. *)
LEMMA InterruptTypes == ASSUME Types, Interrupt PROVE Types'
<1>1. Head(events) \in Message /\ Tail(events) \in Seq(Message) /\ events' = Tail(events)
  BY Consumed DEF Interrupt, Types, QueueTypes
<1>2. /\ UNCHANGED <<attached, cmds, xfers, drv, dcbaa, ep0, snap, i, cur, eps, active, refused,
                     buf, plugs, reports, faults, late>>
      /\ pc' = IF pc = "halted" THEN "poll_hotplug" ELSE pc
  BY DEF Interrupt, owned, mainVars, bounds
<1>3. MainTypes' /\ PortsOnce'
  BY <1>2 DEF Types, MainTypes, PortsOnce, Pcs, Handling, HidSetup, Enumerating, Described,
              WithEndpoint, WithDriver
<1> DEFINE e == Head(events)
<1>4. CASE PortStatusChange(e)
  <2>1. HwTypes'
    BY <1>2, <1>4 DEF PortStatusChange, Types, HwTypes
  <2> QED BY <1>1, <1>2, <1>3, <1>4, <2>1 DEF PortStatusChange, Types, QueueTypes
<1>5. CASE CommandCompletion(e)
  <2>1. HwTypes'
    BY <1>2, <1>5 DEF CommandCompletion, Types, HwTypes
  <2>2. COMPLETION' \in Static /\ (COMPLETION'.ok => COMPLETION'.slot \in Slots)
    BY <1>1, <1>5 DEF CommandCompletion, Message, Static
  <2> QED BY <1>1, <1>2, <1>3, <1>5, <2>1, <2>2 DEF CommandCompletion, Types, QueueTypes
<1>6. CASE TransferCompletion(e)
  <2>1. HwTypes'
    BY <1>2, <1>6 DEF TransferCompletion, Types, HwTypes
  <2>2. TRANSFER' \in Static
    BY <1>1, <1>6 DEF TransferCompletion, Message, Static
  <2> QED BY <1>1, <1>2, <1>3, <1>6, <2>1, <2>2 DEF TransferCompletion, Types, QueueTypes
<1>7. ASSUME NEW k \in HidKinds, ReportFor(k, e) PROVE Types'
  <2>1. HwTypes'
    BY <1>2, <1>7, ArmingKeepsTypes DEF ReportFor
  <2> QED BY <1>1, <1>2, <1>3, <1>7, <2>1 DEF ReportFor, Types, QueueTypes, statics
<1> QED BY <1>4, <1>5, <1>6, <1>7 DEF Interrupt

(* Slots: a step that leaves state, port and device of every slot as they    *)
(* are, and endpoints alone of slots that are not addressed.                 *)
LEMMA SlotChangeTypes ==
    ASSUME Types, NEW s \in Slots, NEW v \in SlotState, hw' = [hw EXCEPT ![s] = v],
           v.st = "addressed" => v.dev # NoDevice,
           v.st # "addressed" => /\ v.port = 0 /\ v.dev = NoDevice /\ ~ v.alive
                                 /\ \A d \in Dcis : v.ep[d] = NoEndpoint,
           UNCHANGED attached
    PROVE  HwTypes'
  BY DEF Types, HwTypes

(* What the controller and the devices leave to main. *)
LEMMA ControllerLeavesMain ==
    ASSUME Types, UNCHANGED <<drv, dcbaa, ep0, snap, i, cur, eps, active, refused, pc>>,
           buf' \in Seq(Found), plugs' \in Nat, reports' \in Nat, faults' \in Nat, late' \in Nat
    PROVE  MainTypes' /\ PortsOnce'
  BY DEF Types, MainTypes, PortsOnce

(* A command taken from the ring and answered. *)
LEMMA CommandExecuted ==
    ASSUME Types, cmds # <<>>, cmds' = Tail(cmds), NEW s \in 0 .. MaxSlots, NEW ok \in BOOLEAN,
           ok => s \in Slots, Post(Event("command", s, 0, ok, Head(cmds).mine)),
           UNCHANGED <<xfers, statics>>
    PROVE  QueueTypes'
<1>1. Head(cmds) \in Command /\ Tail(cmds) \in Seq(Command)
  BY Consumed DEF Types, QueueTypes
<1>2. Event("command", s, 0, ok, Head(cmds).mine) \in Message
  BY <1>1 DEF Event, Message, Command
<1> QED BY <1>1, <1>2, EventPosted DEF Types, QueueTypes, statics

(* A command that the controller executes. *)
LEMMA ExecTypes == ASSUME Types, ExecEnable \/ ExecAddress \/ ExecConfigure \/ ExecDisable PROVE Types'
<1>1. Head(cmds) \in Command /\ cmds # <<>> /\ cmds' = Tail(cmds)
  BY Consumed DEF ExecEnable, ExecAddress, ExecConfigure, ExecDisable, Types, QueueTypes
<1>2. UNCHANGED <<attached, xfers, statics, owned, mainVars, pc, plugs, reports, late>>
      /\ faults' \in Nat
  <2>1. HwStep /\ (faults' = faults \/ faults' = faults + 1)
    BY Zenon DEF ExecEnable, ExecAddress, ExecConfigure, ExecDisable, Fault
  <2> QED BY <2>1 DEF HwStep, Types, MainTypes
<1>3. MainTypes' /\ PortsOnce'
  BY <1>2, ControllerLeavesMain DEF owned, mainVars, Types, MainTypes
<1>4. 0 \in 0 .. MaxSlots /\ \A s \in Slots : s \in 0 .. MaxSlots
  BY HubAssumption DEF Slots
<1> DEFINE c == Head(cmds)
<1>5. CASE ExecEnable
  <2> DEFINE free == {s \in Slots : hw[s].st = "disabled"}
             s == CHOOSE t \in free : \A u \in free : t <= u
  <2>1. CASE free = {}
    <3>1. QueueTypes'
      BY <1>1, <1>2, <1>4, <1>5, <2>1, CommandExecuted DEF ExecEnable
    <3>2. HwTypes'
      BY <1>2, <1>5, <2>1 DEF ExecEnable, Types, HwTypes
    <3> QED BY <1>3, <3>1, <3>2 DEF Types
  <2>2. CASE free # {}
    <3>1. s \in free
      BY <2>2, LowestSlot
    <3>2. hw' = [hw EXCEPT ![s].st = "enabled"] /\ Post(Event("command", s, 0, TRUE, Head(cmds).mine))
      BY <1>5, <2>2 DEF ExecEnable
    <3> HIDE DEF s
    <3>3. QueueTypes'
      BY <1>1, <1>2, <1>4, <3>1, <3>2, CommandExecuted
    <3>4. hw[s] \in SlotState
      BY <3>1 DEF Types, HwTypes
    <3> DEFINE v == [hw[s] EXCEPT !.st = "enabled"]
    <3>5. v \in SlotState /\ v.st = "enabled" /\ v.port = 0 /\ v.dev = NoDevice /\ ~ v.alive
          /\ \A d \in Dcis : v.ep[d] = NoEndpoint
      BY <3>1, <3>4 DEF SlotState, Types, HwTypes
    <3>6. HwTypes'
      BY <1>2, <3>1, <3>2, <3>5, SlotChangeTypes
    <3> QED BY <1>3, <3>3, <3>6 DEF Types
  <2> QED BY <2>1, <2>2
<1>6. CASE ExecAddress
  <2>1. c.slot \in Slots /\ c.port \in Ports
    BY <1>1, <1>6 DEF ExecAddress, Command
  <2>2. QueueTypes'
    BY <1>1, <1>2, <1>4, <1>6, <2>1, CommandExecuted DEF ExecAddress
  <2>3. CASE hw' = hw
    BY <1>2, <1>3, <2>2, <2>3 DEF Types, HwTypes
  <2>4. CASE hw' # hw
    <3> DEFINE v == [hw[c.slot] EXCEPT !.st = "addressed", !.port = c.port,
                                       !.dev = attached[c.port], !.alive = TRUE]
    <3>1. hw' = [hw EXCEPT ![c.slot] = v] /\ attached[c.port] # NoDevice
      BY <1>6, <2>4 DEF ExecAddress
    <3>2. hw[c.slot] \in SlotState /\ attached[c.port] \in Devices \cup {NoDevice}
          /\ c.port \in 0 .. NumPorts
      BY <2>1, HubAssumption DEF Types, HwTypes, Ports
    <3>3. v \in SlotState /\ v.st = "addressed" /\ v.dev # NoDevice
      BY <3>1, <3>2 DEF SlotState
    <3>4. HwTypes'
      BY <1>2, <2>1, <3>1, <3>3, SlotChangeTypes
    <3> QED BY <1>3, <2>2, <3>4 DEF Types
  <2> QED BY <2>3, <2>4
<1>7. CASE ExecConfigure
  <2>1. c.slot \in Slots /\ c.dci \in Dcis
    BY <1>1, <1>7 DEF ExecConfigure, Command
  <2>2. QueueTypes'
    BY <1>1, <1>2, <1>4, <1>7, <2>1, CommandExecuted DEF ExecConfigure
  <2>3. CASE hw' = hw
    BY <1>2, <1>3, <2>2, <2>3 DEF Types, HwTypes
  <2>4. CASE hw' # hw
    <3> DEFINE E == [st |-> "running", trbs |-> 0]
               v == [hw[c.slot] EXCEPT !.ep = [hw[c.slot].ep EXCEPT ![c.dci] = E]]
    <3>1. hw' = [hw EXCEPT ![c.slot].ep[c.dci] = E] /\ hw[c.slot].st = "addressed"
      BY <1>7, <2>4 DEF ExecConfigure
    <3>2. hw[c.slot] \in SlotState /\ E \in EndpointState
      BY <2>1 DEF Types, HwTypes, EndpointState
    <3>3. v \in SlotState /\ v.st = "addressed" /\ v.dev # NoDevice
      BY <2>1, <3>1, <3>2 DEF SlotState, Types, HwTypes
    <3>4. HwTypes'
      BY <1>2, <2>1, <3>1, <3>3, SlotChangeTypes
    <3> QED BY <1>3, <2>2, <3>4 DEF Types
  <2> QED BY <2>3, <2>4
<1>8. CASE ExecDisable
  <2>1. c.slot \in Slots
    BY <1>1, <1>8 DEF ExecDisable, Command
  <2>2. QueueTypes'
    BY <1>1, <1>2, <1>4, <1>8, <2>1, CommandExecuted DEF ExecDisable
  <2>3. HwTypes'
    <3>1. FreeSlot \in SlotState /\ FreeSlot.st = "disabled" /\ FreeSlot.port = 0 /\ FreeSlot.dev = NoDevice
          /\ ~ FreeSlot.alive /\ \A d \in Dcis : FreeSlot.ep[d] = NoEndpoint
      BY HubAssumption DEF FreeSlot, SlotState, EndpointState, NoEndpoint
    <3>2. hw' = [hw EXCEPT ![c.slot] = FreeSlot]
      BY <1>8 DEF ExecDisable
    <3> QED BY <1>2, <2>1, <3>1, <3>2, SlotChangeTypes
  <2> QED BY <1>3, <2>2, <2>3 DEF Types
<1> QED BY <1>5, <1>6, <1>7, <1>8

(* A control transfer that is executed, or dropped. *)
LEMMA ExecTransferTypes == ASSUME Types, ExecTransfer PROVE Types'
<1> DEFINE x == Head(xfers)
<1>1. x \in Transfer /\ x.slot \in Slots /\ xfers' = Tail(xfers) /\ xfers' \in Seq(Transfer)
      /\ \A s \in Slots : s \in 0 .. MaxSlots
  <2>1. xfers # <<>> /\ xfers' = Tail(xfers)
    BY Zenon DEF ExecTransfer
  <2>2. x \in Transfer /\ xfers' \in Seq(Transfer)
    BY <2>1, Consumed DEF Types, QueueTypes
  <2> QED BY <2>1, <2>2, HubAssumption DEF Transfer, Slots
<1>2. UNCHANGED <<attached, cmds, statics, owned, snap, i, cur, eps, active, refused, pc,
                  plugs, reports, late>> /\ faults' \in Nat
  <2>1. /\ UNCHANGED <<attached, cmds, statics, owned, snap, i, cur, eps, active, refused, pc,
                       plugs, reports, late>>
        /\ faults' = faults \/ faults' = faults + 1
    BY Zenon DEF ExecTransfer, Fault
  <2> QED BY <2>1 DEF Types, MainTypes
<1>3. events' \in Seq(Message)
  <2>1. CASE events' = events
    BY <2>1 DEF Types, QueueTypes
  <2>2. CASE events' # events
    <3>1. PICK ok \in BOOLEAN : Post(Event("transfer", x.slot, Ep0Dci, ok, x.mine))
      BY <2>2 DEF ExecTransfer
    <3>2. Event("transfer", x.slot, Ep0Dci, ok, x.mine) \in Message
      BY <1>1 DEF Event, Message, Transfer
    <3> QED BY <3>1, <3>2, EventPosted DEF Types
  <2> QED BY <2>1, <2>2
<1>4. buf' \in Seq(Found)
  <2>1. CASE buf' = buf
    BY <2>1 DEF Types, MainTypes
  <2>2. CASE buf' # buf
    <3>1. buf' = Endpoints(hw[x.slot].dev) /\ hw[x.slot].alive /\ hw[x.slot].st = "addressed"
      BY <2>2, Zenon DEF ExecTransfer
    <3>2. CASE hw[x.slot].dev \in Devices
      BY <3>1, <3>2, EndpointsFound
    <3>3. CASE hw[x.slot].dev = NoDevice
      BY <1>1, <3>1, <3>3 DEF Types, HwTypes
    <3> QED BY <1>1, <3>2, <3>3 DEF Types, HwTypes, SlotState
  <2> QED BY <2>1, <2>2
<1>5. HwTypes'
  <2>1. CASE hw' = hw
    BY <1>2, <2>1 DEF Types, HwTypes
  <2>2. CASE hw' # hw
    <3> DEFINE v == [hw[x.slot] EXCEPT !.ep0halted = TRUE]
    <3>1. hw' = [hw EXCEPT ![x.slot] = v]
      BY <2>2 DEF ExecTransfer
    <3>2. hw[x.slot] \in SlotState
      BY <1>1 DEF Types, HwTypes
    <3>3. /\ v \in SlotState /\ v.st = hw[x.slot].st /\ v.port = hw[x.slot].port
          /\ v.dev = hw[x.slot].dev /\ v.alive = hw[x.slot].alive /\ v.ep = hw[x.slot].ep
      BY <3>2 DEF SlotState
    <3>4. v.st = "addressed" => v.dev # NoDevice
      BY <1>1, <3>3 DEF Types, HwTypes
    <3>5. v.st # "addressed" => /\ v.port = 0 /\ v.dev = NoDevice /\ ~ v.alive
                                /\ \A d \in Dcis : v.ep[d] = NoEndpoint
      BY <1>1, <3>3 DEF Types, HwTypes
    <3> QED BY <1>1, <1>2, <3>1, <3>3, <3>4, <3>5, SlotChangeTypes
  <2> QED BY <2>1, <2>2
<1>6. MainTypes' /\ PortsOnce'
  BY <1>2, <1>4, ControllerLeavesMain DEF owned, Types, MainTypes
<1> QED BY <1>1, <1>2, <1>3, <1>5, <1>6 DEF Types, QueueTypes, statics

(* A report, or the failure of one. *)
LEMMA ReportTypes ==
    ASSUME Types, NEW s \in Slots, NEW d \in Dcis, Report(s, d) \/ ReportFails(s, d)
    PROVE  Types'
<1>1. UNCHANGED <<attached, cmds, xfers, statics, owned, mainVars, pc, plugs, faults, late>>
      /\ reports' \in Nat
  <2>1. /\ UNCHANGED <<attached, cmds, xfers, statics, owned, mainVars, pc, plugs, faults, late>>
        /\ reports' = reports \/ reports' = reports + 1
    BY Zenon DEF Report, ReportFails, bounds
  <2> QED BY <2>1 DEF Types, MainTypes
<1>2. PICK ok \in BOOLEAN : Post(Event("transfer", s, d, ok, FALSE))
  BY DEF Report, ReportFails
<1>3. Event("transfer", s, d, ok, FALSE) \in Message
  BY HubAssumption DEF Event, Message, Slots
<1>4. QueueTypes'
  BY <1>1, <1>2, <1>3, EventPosted DEF Types, QueueTypes, statics
<1>5. hw[s] \in SlotState /\ hw[s].ep[d] \in EndpointState /\ hw[s].ep[d].trbs > 0
      /\ hw[s].ep[d].st = "running"
  BY DEF Report, ReportFails, Types, HwTypes, SlotState
<1>6. PICK E \in EndpointState : hw' = [hw EXCEPT ![s].ep[d] = E]
  <2>1. CASE Report(s, d)
    <3>1. [hw[s].ep[d] EXCEPT !.trbs = @ - 1] \in EndpointState
      BY <1>5 DEF EndpointState
    <3>2. hw' = [hw EXCEPT ![s].ep[d] = [hw[s].ep[d] EXCEPT !.trbs = @ - 1]]
      BY <2>1 DEF Report
    <3> QED BY <3>1, <3>2
  <2>2. CASE ReportFails(s, d)
    <3>1. [st |-> "halted", trbs |-> hw[s].ep[d].trbs - 1] \in EndpointState
      BY <1>5 DEF EndpointState
    <3>2. hw' = [hw EXCEPT ![s].ep[d] = [st |-> "halted", trbs |-> hw[s].ep[d].trbs - 1]]
      BY <2>2 DEF ReportFails
    <3> QED BY <3>1, <3>2
  <2> QED BY <2>1, <2>2
<1> DEFINE v == [hw[s] EXCEPT !.ep = [hw[s].ep EXCEPT ![d] = E]]
<1>7. v \in SlotState /\ v.st = hw[s].st /\ v.dev = hw[s].dev
  BY <1>5 DEF SlotState
<1>8. hw[s].st = "addressed"
  BY <1>5 DEF Types, HwTypes, NoEndpoint
<1>9. hw' = [hw EXCEPT ![s] = v]
  BY <1>6
<1>10. HwTypes'
  <2>1. hw[s].dev # NoDevice
    BY <1>8 DEF Types, HwTypes
  <2> QED BY <1>1, <1>7, <1>8, <1>9, <2>1, SlotChangeTypes
<1>11. MainTypes' /\ PortsOnce'
  BY <1>1, ControllerLeavesMain DEF owned, mainVars, Types, MainTypes
<1> QED BY <1>4, <1>10, <1>11 DEF Types

(* The user. *)
LEMMA UserTypes ==
    ASSUME Types, NEW p \in Ports, Unplug(p) \/ \E d \in Devices : Plug(p, d)
    PROVE  Types'
<1>1. UNCHANGED <<cmds, xfers, statics, owned, mainVars, pc, reports, faults, late>>
      /\ plugs' \in Nat /\ PortChange(p)
  BY DEF Unplug, Plug, User, Types, MainTypes
<1>2. Event("port", 0, 0, TRUE, FALSE) \in Message
  BY HubAssumption DEF Event, Message
<1>3. QueueTypes'
  BY <1>1, <1>2, EventPosted DEF PortChange, Types, QueueTypes, statics
<1>4. MainTypes' /\ PortsOnce'
  BY <1>1, ControllerLeavesMain DEF owned, mainVars, Types, MainTypes
<1>5. CASE Unplug(p)
  <2>1. attached' \in [Ports -> Devices \cup {NoDevice}]
    BY <1>5 DEF Unplug, Types, HwTypes
  <2>2. ASSUME NEW s \in Slots
        PROVE  /\ hw'[s] \in SlotState /\ hw'[s].st = hw[s].st /\ hw'[s].port = hw[s].port
               /\ hw'[s].dev = hw[s].dev /\ hw'[s].ep = hw[s].ep
               /\ hw'[s].alive => hw[s].alive
    <3>1. hw[s] \in SlotState
      BY DEF Types, HwTypes
    <3>2. hw'[s] = IF hw[s].port = p THEN [hw[s] EXCEPT !.alive = FALSE] ELSE hw[s]
      BY <1>5 DEF Unplug
    <3> QED BY <3>1, <3>2 DEF SlotState
  <2>3. hw' \in [Slots -> SlotState]
    BY <1>5, <2>2 DEF Unplug
  <2> QED BY <1>3, <1>4, <2>1, <2>2, <2>3 DEF Types, HwTypes
<1>6. ASSUME NEW d \in Devices, Plug(p, d) PROVE Types'
  BY <1>3, <1>4, <1>6 DEF Plug, Types, HwTypes
<1> QED BY <1>5, <1>6

(* Every step of the system. *)
LEMMA StepTypes == Types /\ [Next]_vars => Types'
<1> SUFFICES ASSUME Types, [Next]_vars PROVE Types'
  OBVIOUS
<1>1. CASE Main
  BY <1>1, LocalStepTypes, DisconnectTypes, CallTypes, ReturnTypes, ArmFirstTypes DEF Main
<1>2. CASE Interrupt
  BY <1>2, InterruptTypes
<1>3. CASE Exec
  BY <1>3, ExecTypes, ExecTransferTypes DEF Exec
<1>4. CASE \E s \in Slots, d \in Dcis : Report(s, d) \/ ReportFails(s, d)
  BY <1>4, ReportTypes
<1>5. CASE \E p \in Ports : Unplug(p) \/ \E d \in Devices : Plug(p, d)
  BY <1>5, UserTypes
<1>6. CASE UNCHANGED vars
  BY <1>6 DEF vars, reqVars, statics, owned, mainVars, bounds, Types, QueueTypes, HwTypes,
              MainTypes, PortsOnce
<1> QED BY <1>1, <1>2, <1>3, <1>4, <1>5, <1>6 DEF Next

(* A registry without double ports is no longer than there are ports. *)
LEMMA RegistryFits == Types => Len(active) <= NumPorts
<1> SUFFICES ASSUME Types PROVE Len(active) <= NumPorts
  OBVIOUS
<1>1. Len(active) \in Nat /\ DOMAIN active = 1 .. Len(active)
      /\ \A j \in DOMAIN active : active[j].port \in Ports
  <2>1. active \in [1 .. Len(active) -> Member] /\ Len(active) \in Nat
    BY LenProperties DEF Types, MainTypes
  <2> QED BY <2>1 DEF Member
<1> DEFINE f == [j \in 1 .. Len(active) |-> active[j].port]
<1>2. f \in Injection(1 .. Len(active), Ports)
  BY <1>1 DEF Injection, IsInjective, Types, PortsOnce
<1>3. IsFiniteSet(Ports) /\ Cardinality(Ports) = NumPorts /\ Cardinality(1 .. Len(active)) = Len(active)
  <2>1. /\ IsFiniteSet(1 .. NumPorts)
        /\ Cardinality(1 .. NumPorts) = IF 1 > NumPorts THEN 0 ELSE NumPorts - 1 + 1
    BY HubAssumption, FS_Interval
  <2>2. Cardinality(1 .. Len(active)) = IF 1 > Len(active) THEN 0 ELSE Len(active) - 1 + 1
    BY <1>1, FS_Interval
  <2> QED BY <1>1, <2>1, <2>2, HubAssumption DEF Ports
<1> QED BY <1>2, <1>3, FS_Injection

(* A port whose change brought no event had changed before. *)
LEMMA StepLatch == LatchTrue /\ [Next]_vars => LatchTrue'
<1> SUFFICES ASSUME LatchTrue, [Next]_vars PROVE LatchTrue'
  OBVIOUS
<1>1. CASE \E p \in Ports : Unplug(p) \/ \E d \in Devices : Plug(p, d)
  BY <1>1 DEF Unplug, Plug, PortChange, LatchTrue
<1>2. CASE discover_and_init_hid_devices
  BY <1>2 DEF discover_and_init_hid_devices, LatchTrue
<1>3. CASE Main /\ ~ discover_and_init_hid_devices
  <2>1. UNCHANGED latch
    BY <1>3, Zenon DEF Main, hlt, poll_hotplug, disconnect_loop, connect_loop, disable_slot,
       disable_slot_return, enable_slot, enable_slot_return, address_device, address_device_return,
       get_device_descriptor, get_device_descriptor_return, get_configuration,
       get_configuration_return, set_configuration, set_configuration_return, dispatch_endpoint,
       configure_endpoint, configure_endpoint_return, set_protocol, set_protocol_return,
       init_driver, arm_first_report, Call, Ret
  <2> QED BY <2>1 DEF latch, LatchTrue
<1>4. CASE \/ Interrupt \/ Exec \/ UNCHANGED vars
           \/ \E s \in Slots, d \in Dcis : Report(s, d) \/ ReportFails(s, d)
  <2>1. UNCHANGED latch
    BY <1>4, Zenon DEF Interrupt, Exec, ExecEnable, ExecAddress, ExecConfigure, ExecDisable,
       ExecTransfer, HwStep, Report, ReportFails, vars
  <2> QED BY <2>1 DEF latch, LatchTrue
<1> QED BY <1>1, <1>2, <1>3, <1>4 DEF Next

(* Everything main, the handler and the controller write has its type: in    *)
(* particular every slot number that reaches a command or a transfer is one  *)
(* the controller has, whatever answers come late, and the index of the      *)
(* DISCONNECT loop stays within the registry (mod.rs).                       *)
THEOREM HotplugTypes == Spec => [](TypeOK /\ Types)
<1>1. Init => Types /\ LatchTrue
  BY InitTypes DEF Init, LatchTrue
<1>2. Types /\ LatchTrue /\ [Next]_vars => (Types /\ LatchTrue)'
  BY StepTypes, StepLatch
<1>3. Types /\ LatchTrue => TypeOK
  <2> SUFFICES ASSUME Types, LatchTrue PROVE TypeOK
    OBVIOUS
  <2>1. \A s \in Slots :
         /\ hw[s].st \in {"disabled", "enabled", "addressed"} /\ hw[s].port \in 0 .. NumPorts
         /\ \A d \in Dcis : hw[s].ep[d].st \in {"off", "running", "halted"}
                            /\ hw[s].ep[d].trbs \in Nat
    BY DEF Types, HwTypes, SlotState, EndpointState
  <2>2. drv \in [HidKinds -> [dci : Dcis \cup {0}, slot : 0 .. MaxSlots]]
    BY DEF Types, MainTypes, Driver
  <2>3. active \in Seq(Entry)
    BY MembersAreEntries, SeqMonotonic DEF Types, MainTypes
  <2>4. i \in 1 .. NumPorts + 1
    <3>1. Len(active) \in Nat
      BY LenProperties DEF Types, MainTypes
    <3> QED BY <3>1, RegistryFits, HubAssumption DEF Types, MainTypes
  <2> QED BY <2>1, <2>2, <2>3, <2>4
           DEF TypeOK, Types, QueueTypes, HwTypes, MainTypes, LatchTrue
<1> QED BY <1>1, <1>2, <1>3, PTL DEF Spec

-----------------------------------------------------------------------------
(* The ports.                                                               *)

(* The steps of init_one_device, from the command that enables a slot on. *)
InitOneDevice ==
    \/ enable_slot \/ enable_slot_return \/ address_device \/ address_device_return
    \/ get_device_descriptor \/ get_device_descriptor_return
    \/ get_configuration \/ get_configuration_return
    \/ set_configuration \/ set_configuration_return
    \/ dispatch_endpoint \/ configure_endpoint \/ configure_endpoint_return
    \/ set_protocol \/ set_protocol_return \/ init_driver \/ arm_first_report

(* init_one_device goes on, registers the device, or gives it up. *)
LEMMA InitOneDeviceSteps ==
    ASSUME Types, InitOneDevice
    PROVE  /\ pc \in Enumerating /\ snap' = snap /\ cur'.port = cur.port /\ cur \in Entry
           /\ \/ pc' \in Enumerating /\ UNCHANGED <<active, refused>>
              \/ pc' = "connect" /\ active' = Append(active, cur) /\ UNCHANGED refused
              \/ pc' = "connect" /\ refused' = refused \cup {cur.port} /\ UNCHANGED active
<1> USE DEF Enumerating, Described, HidSetup
<1>1. cur \in Entry
  BY DEF Types, MainTypes
<1>2. \A q : [cur EXCEPT !.slot = q].port = cur.port
  BY <1>1 DEF Entry
<1>3. CASE enable_slot \/ address_device \/ get_device_descriptor \/ get_configuration
           \/ set_configuration \/ configure_endpoint \/ set_protocol
  BY <1>1, <1>3 DEF enable_slot, address_device, get_device_descriptor, get_configuration,
                    set_configuration, configure_endpoint, set_protocol, Call, mainVars
<1>4. CASE enable_slot_return \/ address_device_return
  BY <1>1, <1>2, <1>4 DEF enable_slot_return, address_device_return
<1>5. CASE get_device_descriptor_return \/ get_configuration_return \/ set_configuration_return
  BY <1>1, <1>5 DEF get_device_descriptor_return, get_configuration_return,
                    set_configuration_return, Push
<1>6. CASE configure_endpoint_return \/ set_protocol_return
  BY <1>1, <1>6 DEF configure_endpoint_return, set_protocol_return, mainVars
<1>7. CASE dispatch_endpoint \/ init_driver
  BY <1>1, <1>7 DEF dispatch_endpoint, init_driver, Push, mainVars
<1>8. CASE arm_first_report
  <2>1. Head(eps).kind = "keyboard" \/ Head(eps).kind = "mouse"
    BY <1>8 DEF arm_first_report, Types, MainTypes, WithDriver, HidKinds
  <2>2. cur' = [cur EXCEPT ![Head(eps).kind] = TRUE]
    BY <1>8 DEF arm_first_report
  <2>3. cur'.port = cur.port
    BY <1>1, <2>1, <2>2 DEF Entry
  <2> QED BY <1>1, <1>8, <2>3 DEF arm_first_report
<1> QED BY <1>3, <1>4, <1>5, <1>6, <1>7, <1>8 DEF InitOneDevice

(* Giving up a wait does not lose an event. *)
LEMMA WaitKeepsEvents ==
    ASSUME Types, NEW static, NEW r, Await(static, r)
    PROVE  DOMAIN events' = DOMAIN events /\ \A j \in DOMAIN events : events'[j].type = events[j].type
<1>1. events' = events \/ events' = Disown(events)
  BY DEF Await, reqVars
<1>2. \A j \in DOMAIN events : events[j] \in Message
  BY LenProperties DEF Types, QueueTypes
<1>3. \A m \in Message : [m EXCEPT !.mine = FALSE].type = m.type
  BY DEF Message
<1> QED BY <1>1, <1>2, <1>3 DEF Disown

(* Main leaves the ports alone; only poll_hotplug takes note of a change,    *)
(* and only a scan makes up for the ones that brought no event.              *)
LEMMA MainLeavesPorts ==
    ASSUME Types, Main, ~ poll_hotplug
    PROVE  /\ UNCHANGED <<attached, changed>> /\ (Unseen' <=> Unseen)
           /\ missed' = missed \/ (discover_and_init_hid_devices /\ missed' = {})
<1> USE DEF latch
<1>1. CASE hlt \/ discover_and_init_hid_devices \/ disconnect_loop \/ connect_loop
           \/ dispatch_endpoint \/ init_driver \/ arm_first_report
  BY <1>1 DEF hlt, discover_and_init_hid_devices, disconnect_loop, connect_loop,
              dispatch_endpoint, init_driver, arm_first_report, reqVars, statics, Unseen
<1>2. CASE disable_slot \/ enable_slot \/ address_device \/ configure_endpoint
           \/ get_device_descriptor \/ get_configuration \/ set_configuration \/ set_protocol
  <2>1. UNCHANGED <<attached, latch, events, PORT_CHANGE_PENDING>>
    BY <1>2, Zenon DEF disable_slot, enable_slot, address_device, configure_endpoint,
                get_device_descriptor, get_configuration, set_configuration, set_protocol,
                Call, SendCommand, SendTransfer
  <2> QED BY <2>1 DEF Unseen
<1>3. CASE disable_slot_return \/ enable_slot_return \/ address_device_return
           \/ configure_endpoint_return \/ get_device_descriptor_return
           \/ get_configuration_return \/ set_configuration_return \/ set_protocol_return
  <2>1. \E static, r : Await(static, r) /\ Ret
    BY <1>3 DEF disable_slot_return, enable_slot_return, address_device_return,
                configure_endpoint_return, get_device_descriptor_return,
                get_configuration_return, set_configuration_return, set_protocol_return
  <2> QED BY <2>1, WaitKeepsEvents DEF Ret, statics, Unseen
<1> QED BY <1>1, <1>2, <1>3 DEF Main

(* What the handler, the controller and the devices do loses no port change. *)
LEMMA ChangesKept ==
    ASSUME Types,
           \/ Interrupt \/ Exec
           \/ \E s \in Slots, d \in Dcis : Report(s, d) \/ ReportFails(s, d)
    PROVE  /\ Unseen => Unseen'
           /\ UNCHANGED <<attached, latch, snap, i, cur, active, refused>>
           /\ pc' = pc \/ (pc = "halted" /\ pc' = "poll_hotplug")
<1>1. CASE Interrupt
  <2>1. Len(events) \in Nat /\ DOMAIN events = 1 .. Len(events) /\ DOMAIN events' = 1 .. Len(events) - 1
        /\ events' = Tail(events) /\ Head(events) = events[1]
        /\ \A j \in 1 .. Len(events) - 1 : events'[j] = events[j + 1]
    BY <1>1, Consumed DEF Interrupt, Types, QueueTypes
  <2>2. Head(events).type = "port" => PORT_CHANGE_PENDING' = TRUE
    BY <1>1 DEF Interrupt, PortStatusChange, CommandCompletion, TransferCompletion, ReportFor
  <2>3. PORT_CHANGE_PENDING => PORT_CHANGE_PENDING'
    BY <1>1, Zenon DEF Interrupt, PortStatusChange, CommandCompletion, TransferCompletion, ReportFor, statics
  <2>4. ASSUME NEW j \in DOMAIN events, events[j].type = "port" PROVE Unseen'
    <3>1. CASE j = 1
      BY <2>1, <2>2, <2>4, <3>1 DEF Unseen
    <3>2. CASE j # 1
      <4>1. j - 1 \in DOMAIN events' /\ events'[j - 1] = events[j]
        BY <2>1, <3>2
      <4> QED BY <2>4, <4>1 DEF Unseen
    <3> QED BY <3>1, <3>2
  <2>5. Unseen => Unseen'
    BY <2>3, <2>4 DEF Unseen
  <2> QED BY <1>1, <2>5 DEF Interrupt, mainVars
<1>2. CASE ~ Interrupt
  <2>1. /\ UNCHANGED <<PORT_CHANGE_PENDING, attached, latch, snap, i, cur, active, refused, pc>>
        /\ events' = events \/ \E e : events' = Append(events, e)
    BY <1>2, Zenon DEF Exec, ExecEnable, ExecAddress, ExecConfigure, ExecDisable, ExecTransfer, Report,
                ReportFails, HwStep, Post, statics, mainVars
  <2>2. \A j \in DOMAIN events : j \in DOMAIN events' /\ events'[j] = events[j]
    <3>1. CASE events' = events
      BY <3>1
    <3>2. CASE \E e : events' = Append(events, e)
      <4>1. PICK e : events' = Append(events, e)
        BY <3>2
      <4>2. DOMAIN events = 1 .. Len(events) /\ Len(events) \in Nat
        BY LenProperties DEF Types, QueueTypes
      <4>3. events \in Seq(Message \cup {e})
        BY SeqMonotonic DEF Types, QueueTypes
      <4> QED BY <4>1, <4>2, <4>3, Appended
    <3> QED BY <2>1, <3>1, <3>2
  <2> QED BY <2>1, <2>2 DEF Unseen
<1> QED BY <1>1, <1>2

(* One turn of the DISCONNECT loop: the ports before i are still connected. *)
LEMMA DisconnectScan == ASSUME Types, ScanTrue, disconnect_loop PROVE ScanTrue'
<1> SUFFICES ASSUME ~ Unseen' PROVE ScanTrue'
  BY DEF ScanTrue
<1>1. attached' = attached /\ missed' = missed /\ ~ Unseen
  BY MainLeavesPorts DEF Main, disconnect_loop, poll_hotplug, discover_and_init_hid_devices
<1>2. /\ Agree(Connected, snap) /\ refused = {} /\ \A j \in DOMAIN active : j < i => active[j].port \in snap
      /\ snap' = snap /\ refused' = refused
  BY <1>1 DEF ScanTrue, disconnect_loop
<1>3. Len(active) \in Nat /\ DOMAIN active = 1 .. Len(active) /\ i \in 1 .. Len(active) + 1
      /\ pc = "disconnect"
  BY LenProperties DEF Types, MainTypes, disconnect_loop
<1>4. Connected' = Connected
  BY <1>1 DEF Connected
<1>5. CASE i > Len(active)
  <2>1. pc' = "connect" /\ active' = active
    BY <1>3, <1>5 DEF disconnect_loop
  <2>2. ActivePorts \subseteq snap
    BY <1>2, <1>3, <1>5 DEF ActivePorts
  <2> QED BY <1>1, <1>2, <1>4, <2>1, <2>2 DEF ScanTrue, Agree, ActivePorts, Disabling, Enumerating, Described, HidSetup
<1>6. CASE i <= Len(active) /\ active[i].port \in snap
  <2>1. pc' = pc /\ active' = active /\ i' = i + 1
    BY <1>3, <1>6 DEF disconnect_loop
  <2>2. \A j \in DOMAIN active : j < i + 1 => active[j].port \in snap
    <3>1. \A j \in DOMAIN active : j < i + 1 => j < i \/ j = i
      BY <1>3
    <3> QED BY <1>1, <1>2, <1>6, <3>1
  <2> QED BY <1>1, <1>2, <1>3, <1>4, <2>1, <2>2 DEF ScanTrue, Agree, Disabling, Enumerating, Described, HidSetup
<1>7. CASE i <= Len(active) /\ active[i].port \notin snap
  <2>1. pc' = "disable_slot" /\ active' = RemoveAt(active, i) /\ i' = i
    BY <1>3, <1>7 DEF disconnect_loop
  <2>2. \A j \in DOMAIN active' : j < i => j \in DOMAIN active /\ active'[j] = active[j]
    <3>1. i \in DOMAIN active /\ active \in Seq(Member)
      BY <1>3, <1>7 DEF Types, MainTypes
    <3>2. /\ DOMAIN active' = 1 .. Len(active) - 1
          /\ \A j \in 1 .. Len(active) - 1 : active'[j] = IF j < i THEN active[j] ELSE active[j + 1]
      BY <2>1, <3>1, EntryRemoved
    <3> QED BY <1>3, <3>2
  <2>3. \A j \in DOMAIN active' : j < i => active'[j].port \in snap
    BY <1>2, <2>2
  <2> QED BY <1>1, <1>2, <1>4, <2>1, <2>3 DEF ScanTrue, Agree, Disabling, Enumerating, Described, HidSetup
<1> QED BY <1>3, <1>5, <1>6, <1>7

(* One turn of the CONNECT loop: the ports passed over are registered. *)
LEMMA ConnectScan == ASSUME Types, ScanTrue, connect_loop PROVE ScanTrue'
<1> SUFFICES ASSUME ~ Unseen' PROVE ScanTrue'
  BY DEF ScanTrue
<1>1. attached' = attached /\ missed' = missed /\ ~ Unseen
  BY MainLeavesPorts DEF Main, connect_loop, poll_hotplug, discover_and_init_hid_devices
<1>2. Connected' = Connected /\ Agree(Connected, ActivePorts \cup refused \cup snap)
  BY <1>1 DEF Connected, ScanTrue, connect_loop
<1>3. CASE snap \ ActivePorts = {}
  <2>1. pc' = "hlt" /\ active' = active /\ refused' = refused
    BY <1>3 DEF connect_loop
  <2>2. Agree(Connected, ActivePorts \cup refused)'
    BY <1>1, <1>2, <1>3, <2>1 DEF ActivePorts, Agree
  <2> QED BY <2>1, <2>2 DEF ScanTrue, Disabling, Enumerating, Described, HidSetup
<1>4. CASE snap \ ActivePorts # {}
  <2>1. PICK p \in snap \ ActivePorts :
           /\ \A r \in snap \ ActivePorts : p <= r
           /\ cur' = [NoEntry EXCEPT !.port = p] /\ pc' = "enable_slot"
           /\ snap' = {q \in snap : q > p} /\ UNCHANGED <<active, refused>>
    BY <1>4, NextPort, Zenon
  <2>2. cur'.port = p
    BY <2>1 DEF NoEntry
  <2>3. \A q \in snap : q \in Nat
    <3>1. \A q \in 1 .. NumPorts : q \in Nat
      BY HubAssumption
    <3> QED BY <3>1 DEF Types, MainTypes, Ports
  <2>4. \A q \in snap : q \in ActivePorts \/ q \in snap' \/ q = p
    BY <2>1, <2>3
  <2>5. ActivePorts' = ActivePorts
    BY <2>1 DEF ActivePorts
  <2>6. ActivePorts \cup refused \cup snap = ActivePorts' \cup refused' \cup snap' \cup {cur'.port}
    BY <2>1, <2>2, <2>4, <2>5
  <2>7. Agree(Connected, ActivePorts \cup refused \cup snap \cup {cur.port})'
    BY <1>1, <1>2, <2>6 DEF Agree
  <2> QED BY <2>1, <2>7 DEF ScanTrue, Disabling, Enumerating, Described, HidSetup
<1> QED BY <1>3, <1>4

(* A port that is being enumerated is registered or refused in the end. *)
LEMMA EnumerationScan == ASSUME Types, ScanTrue, InitOneDevice PROVE ScanTrue'
<1> SUFFICES ASSUME ~ Unseen' PROVE ScanTrue'
  BY DEF ScanTrue
<1>1. attached' = attached /\ missed' = missed /\ ~ Unseen
  BY MainLeavesPorts DEF Main, InitOneDevice, poll_hotplug, discover_and_init_hid_devices, enable_slot, enable_slot_return,
     address_device, address_device_return, get_device_descriptor, get_device_descriptor_return,
     get_configuration, get_configuration_return, set_configuration, set_configuration_return,
     dispatch_endpoint, configure_endpoint, configure_endpoint_return, set_protocol,
     set_protocol_return, init_driver, arm_first_report
<1>2. pc \in Enumerating /\ snap' = snap /\ cur'.port = cur.port /\ cur \in Entry
  BY InitOneDeviceSteps
<1>3. Connected' = Connected /\ Agree(Connected, ActivePorts \cup refused \cup snap \cup {cur.port})
  BY <1>1, <1>2 DEF Connected, ScanTrue
<1> USE DEF Disabling, Enumerating, Described, HidSetup
<1>4. CASE pc' \in Enumerating /\ UNCHANGED <<active, refused>>
  BY <1>1, <1>2, <1>3, <1>4 DEF ScanTrue, Agree, ActivePorts
<1>5. CASE pc' = "connect" /\ active' = Append(active, cur) /\ UNCHANGED refused
  <2>1. active \in Seq(Entry)
    BY MembersAreEntries, SeqMonotonic DEF Types, MainTypes
  <2>2. ActivePorts' = ActivePorts \cup {cur.port}
    <3>1. /\ Len(active) \in Nat /\ DOMAIN active = 1 .. Len(active)
          /\ DOMAIN active' = 1 .. Len(active) + 1
          /\ active'[Len(active) + 1] = cur
          /\ \A j \in DOMAIN active : active'[j] = active[j]
      BY <1>2, <1>5, <2>1, Appended
    <3>2. \A j \in DOMAIN active' : j \in DOMAIN active \/ j = Len(active) + 1
      BY <3>1
    <3>3. Len(active) + 1 \in DOMAIN active' /\ \A j \in DOMAIN active : j \in DOMAIN active'
      BY <3>1
    <3> QED BY <3>1, <3>2, <3>3 DEF ActivePorts
  <2> QED BY <1>1, <1>2, <1>3, <1>5, <2>2 DEF ScanTrue, Agree
<1>6. CASE pc' = "connect" /\ refused' = refused \cup {cur.port} /\ UNCHANGED active
  BY <1>1, <1>2, <1>3, <1>6 DEF ScanTrue, Agree, ActivePorts
<1> QED BY <1>4, <1>5, <1>6, InitOneDeviceSteps

(* A change that brings an event is to be noticed; one that does not leaves  *)
(* the other ports as they were.                                             *)
LEMMA UserScan ==
    ASSUME Types, ScanTrue, NEW p \in Ports, Unplug(p) \/ \E d \in Devices : Plug(p, d)
    PROVE  ScanTrue'
<1>1. CASE Post(Event("port", 0, 0, TRUE, FALSE))
  <2>1. Event("port", 0, 0, TRUE, FALSE) \in Message /\ Event("port", 0, 0, TRUE, FALSE).type = "port"
    BY HubAssumption DEF Event, Message
  <2>2. Len(events) \in Nat /\ DOMAIN events' = 1 .. Len(events) + 1
        /\ events'[Len(events) + 1].type = "port"
    BY <1>1, <2>1, EventPosted DEF Types
  <2>3. Len(events) + 1 \in DOMAIN events'
    BY <2>2
  <2>4. Unseen'
    BY <2>2, <2>3 DEF Unseen
  <2> QED BY <2>4 DEF ScanTrue
<1>2. CASE missed' = missed \cup {p} /\ UNCHANGED events
  <2>1. UNCHANGED <<PORT_CHANGE_PENDING, snap, i, cur, active, refused, pc>>
    BY Zenon DEF Unplug, Plug, User, statics, mainVars
  <2>2. (Unseen' <=> Unseen) /\ ActivePorts' = ActivePorts
    BY <1>2, <2>1 DEF Unseen, ActivePorts
  <2>3. Connected' \ missed' = Connected \ missed'
    BY <1>2 DEF Unplug, Plug, Connected, Types, HwTypes
  <2>4. \A Y : Agree(Connected, Y) => Connected' \ missed' = Y \ missed'
    BY <1>2, <2>3 DEF Agree
  <2>5. CASE Unseen
    BY <2>2, <2>5 DEF ScanTrue
  <2>6. CASE ~ Unseen
    BY <2>1, <2>2, <2>4, <2>6 DEF ScanTrue, Agree
  <2> QED BY <2>5, <2>6
<1> QED BY <1>1, <1>2 DEF Unplug, Plug, PortChange

(* Every step keeps account of the ports. *)
LEMMA StepScan == Types /\ ScanTrue /\ [Next]_vars => ScanTrue'
<1> SUFFICES ASSUME Types, ScanTrue, [Next]_vars PROVE ScanTrue'
  OBVIOUS
<1> USE DEF Disabling, Enumerating, Described, HidSetup
<1>1. CASE \/ Interrupt \/ Exec
           \/ \E s \in Slots, d \in Dcis : Report(s, d) \/ ReportFails(s, d)
  BY <1>1, ChangesKept DEF ScanTrue, Agree, latch, Connected, ActivePorts
<1>2. CASE \E p \in Ports : Unplug(p) \/ \E d \in Devices : Plug(p, d)
  BY <1>2, UserScan
<1>3. CASE poll_hotplug
  <2>1. CASE PORT_CHANGE_PENDING
    BY <1>3, <2>1 DEF poll_hotplug, ScanTrue
  <2>2. CASE ~ PORT_CHANGE_PENDING
    <3>1. /\ pc = "poll_hotplug" /\ pc' = "hlt" /\ PORT_CHANGE_PENDING' = PORT_CHANGE_PENDING
          /\ UNCHANGED <<attached, missed, events, active, refused>>
      BY <1>3, <2>2 DEF poll_hotplug, latch, reqVars, mainVars, Types, QueueTypes
    <3> QED BY <3>1 DEF ScanTrue, Agree, Unseen, Connected, ActivePorts
  <2> QED BY <2>1, <2>2
<1>4. CASE hlt \/ discover_and_init_hid_devices
  <2>1. attached' = attached /\ (Unseen' <=> Unseen)
    BY <1>4, MainLeavesPorts DEF Main, poll_hotplug, hlt, discover_and_init_hid_devices
  <2>2. CASE hlt
    BY <2>1, <2>2 DEF ScanTrue, Agree, latch, hlt, mainVars, Connected, ActivePorts
  <2>3. CASE discover_and_init_hid_devices
    <3>1. Len(active) \in Nat /\ DOMAIN active = 1 .. Len(active)
      BY LenProperties DEF Types, MainTypes
    <3>2. \A j \in DOMAIN active : ~ (j < 1)
      BY <3>1
    <3>3. snap' = Connected' /\ i' = 1 /\ refused' = {} /\ pc' = "disconnect" /\ active' = active
      BY <2>1, <2>3 DEF discover_and_init_hid_devices, Connected
    <3> QED BY <3>2, <3>3 DEF ScanTrue, Agree
  <2> QED BY <1>4, <2>2, <2>3
<1>5. CASE disable_slot \/ disable_slot_return
  <2>1. attached' = attached /\ missed' = missed /\ (Unseen' <=> Unseen)
    BY <1>5, MainLeavesPorts DEF Main, poll_hotplug, discover_and_init_hid_devices, disable_slot, disable_slot_return
  <2>2. UNCHANGED mainVars /\ pc \in Disabling /\ pc' \in {"disable_slot_wait", "disconnect"}
    BY <1>5 DEF disable_slot, disable_slot_return, Call
  <2> QED BY <2>1, <2>2 DEF ScanTrue, Agree, ActivePorts, mainVars, Connected
<1>6. CASE disconnect_loop
  BY <1>6, DisconnectScan
<1>7. CASE connect_loop
  BY <1>7, ConnectScan
<1>8. CASE InitOneDevice
  BY <1>8, EnumerationScan
<1>9. CASE UNCHANGED vars
  BY <1>9 DEF vars, latch, reqVars, statics, mainVars, ScanTrue, Agree, Unseen, Connected, ActivePorts
<1> QED BY <1>1, <1>2, <1>3, <1>4, <1>5, <1>6, <1>7, <1>8, <1>9 DEF Next, Main, InitOneDevice

(* No event of a port is lost between the swap of PORT_CHANGE_PENDING in     *)
(* poll_hotplug, the port scan of discover_and_init_hid_devices and hlt:     *)
(* when main sleeps and nothing is pending, the registry agrees with every   *)
(* port whose last change since a scan brought an event (mod.rs), whatever   *)
(* users do and whichever waits time out.                                    *)
THEOREM HotplugSynced == Spec => []SyncedWhenQuiet
<1>1. Init => Types /\ ScanTrue
  BY InitTypes DEF Init, ScanTrue, Disabling, Enumerating, Described, HidSetup
<1>2. Types /\ ScanTrue /\ [Next]_vars => (Types /\ ScanTrue)'
  BY StepTypes, StepScan
<1>3. ScanTrue => SyncedWhenQuiet
  BY DEF ScanTrue, Agree, SyncedWhenQuiet, Quiet, Unseen
<1> QED BY <1>1, <1>2, <1>3, PTL DEF Spec

-----------------------------------------------------------------------------
(* The command under way.                                                   *)

CommandCall    == disable_slot \/ enable_slot \/ address_device \/ configure_endpoint
TransferCall   == get_device_descriptor \/ get_configuration \/ set_configuration \/ set_protocol
CommandReturn  == \/ disable_slot_return \/ enable_slot_return \/ address_device_return
                  \/ configure_endpoint_return
TransferReturn == \/ get_device_descriptor_return \/ get_configuration_return
                  \/ set_configuration_return \/ set_protocol_return
LocalStep      == \/ hlt \/ poll_hotplug \/ discover_and_init_hid_devices \/ disconnect_loop
                  \/ connect_loop \/ dispatch_endpoint \/ init_driver \/ arm_first_report
ExecCommand    == ExecEnable \/ ExecAddress \/ ExecConfigure \/ ExecDisable

(* The steps that are neither main's, nor the handler's, nor the execution   *)
(* of a command.                                                             *)
OtherStep == \/ ExecTransfer
             \/ \E s \in Slots, d \in Dcis : Report(s, d) \/ ReportFails(s, d)
             \/ \E p \in Ports : Unplug(p) \/ \E d \in Devices : Plug(p, d)

Waits == CommandWaits \cup TransferWaits

(* A request that nobody waits for is as if disowned. *)
LEMMA NothingOwed ==
    ASSUME NEW S, NEW q \in Seq(S), \A x \in S : x.mine \/ [x EXCEPT !.mine = FALSE] = x, ~ Owed(q)
    PROVE  Disown(q) = q
<1>1. q \in [1 .. Len(q) -> S] /\ DOMAIN q = 1 .. Len(q)
  BY LenProperties
<1>2. \A j \in DOMAIN q : [q[j] EXCEPT !.mine = FALSE] = q[j]
  BY <1>1 DEF Owed
<1>3. Disown(q) = [j \in DOMAIN q |-> q[j]]
  BY <1>2 DEF Disown
<1> QED BY <1>1, <1>3

(* Without late answers a wait ends with its answer, or with nothing of      *)
(* main's under way at all.                                                  *)
LEMMA PunctualWait ==
    ASSUME Types, MaxLate = 0, NEW static, NEW r \in BOOLEAN, Await(static, r)
    PROVE  /\ UNCHANGED <<cmds, xfers, events, late>>
           /\ \/ static.pending /\ r = static.ok
              \/ ~ static.pending /\ ~ r /\ ~ Owed(cmds) /\ ~ Owed(xfers) /\ ~ Owed(events)
<1>1. CASE static.pending
  BY <1>1 DEF Await, reqVars
<1>2. CASE ~ static.pending
  <2>1. late \in Nat
    BY DEF Types, MainTypes
  <2>2. ~ (late < MaxLate)
    BY <2>1
  <2>3. /\ ~ r /\ ~ Owed(cmds) /\ ~ Owed(xfers) /\ ~ Owed(events) /\ late' = late
        /\ cmds' = Disown(cmds) /\ xfers' = Disown(xfers) /\ events' = Disown(events)
    BY <1>2, <2>2, Zenon DEF Await
  <2>4. \A x \in Command : x.mine \/ [x EXCEPT !.mine = FALSE] = x
    BY DEF Command
  <2>5. \A x \in Transfer : x.mine \/ [x EXCEPT !.mine = FALSE] = x
    BY DEF Transfer
  <2>6. \A x \in Message : x.mine \/ [x EXCEPT !.mine = FALSE] = x
    BY DEF Message
  <2>7. Disown(cmds) = cmds /\ Disown(xfers) = xfers /\ Disown(events) = events
    BY <2>3, <2>4, <2>5, <2>6, NothingOwed DEF Types, QueueTypes
  <2> QED BY <1>2, <2>3, <2>7
<1> QED BY <1>1, <1>2

(* Sending a command. *)
LEMMA CommandCalled ==
    ASSUME Types, CommandCall
    PROVE  /\ pc \notin Waits /\ pc' \in CommandWaits /\ pc' \notin TransferWaits
           /\ \E c \in Command :
                 /\ cmds' = Append(cmds, c) /\ c.op = OpOf(pc') /\ c.mine
                 /\ c.slot = cur.slot /\ c.port = cur.port
                 /\ c.op = "configure" => c.dci = Head(eps).dci
           /\ COMPLETION' = NotPending
           /\ UNCHANGED <<xfers, events, TRANSFER, PORT_CHANGE_PENDING, attached, hw, drv,
                          snap, i, cur, eps, active, refused, buf>>
<1> DEFINE C(op, dci) == [op |-> op, slot |-> cur.slot, port |-> cur.port, dci |-> dci, mine |-> TRUE]
<1> USE DEF Waits, CommandWaits, TransferWaits, Handling, HidSetup, Enumerating, Described,
            WithEndpoint, WithDriver
<1>1. 0 \in Dcis \cup {0} /\ \A s \in Slots : s \in 0 .. MaxSlots
  BY HubAssumption DEF Slots
<1>2. cur \in Entry
  BY DEF Types, MainTypes
<1>3. CASE disable_slot
  <2>1. pc = "disable_slot" /\ pc' = "disable_slot_wait" /\ SendCommand("disable", 0) /\ Call /\ drv' = drv
    BY <1>3 DEF disable_slot, owned
  <2>2. C("disable", 0) \in Command
    BY <1>1, <1>2, <2>1 DEF Command, Entry, Types, MainTypes
  <2> QED BY <2>1, <2>2 DEF SendCommand, OpOf, Call, mainVars
<1>4. CASE enable_slot
  <2>1. pc = "enable_slot" /\ pc' = "enable_slot_wait" /\ SendCommand("enable", 0) /\ Call /\ drv' = drv
    BY <1>4 DEF enable_slot, owned
  <2>2. C("enable", 0) \in Command
    BY <1>1, <1>2, <2>1 DEF Command, Entry, Types, MainTypes
  <2> QED BY <2>1, <2>2 DEF SendCommand, OpOf, Call, mainVars
<1>5. CASE address_device
  <2>1. pc = "address_device" /\ pc' = "address_device_wait" /\ SendCommand("address", 0) /\ Call /\ drv' = drv
    BY <1>5 DEF address_device, owned
  <2>2. C("address", 0) \in Command
    BY <1>1, <1>2, <2>1 DEF Command, Entry, Types, MainTypes
  <2> QED BY <2>1, <2>2 DEF SendCommand, OpOf, Call, mainVars
<1>6. CASE configure_endpoint
  <2>1. pc = "configure_endpoint" /\ pc' = "configure_endpoint_wait"
        /\ SendCommand("configure", Head(eps).dci) /\ Call /\ drv' = drv
    BY <1>6 DEF configure_endpoint, owned
  <2>2. Head(eps) \in Found
    BY <2>1, Consumed DEF Types, MainTypes
  <2>4. Head(eps).dci \in Dcis
    BY <2>2 DEF Found
  <2>3. C("configure", Head(eps).dci) \in Command
    BY <1>1, <1>2, <2>1, <2>4 DEF Command, Entry, Types, MainTypes
  <2> QED BY <2>1, <2>3 DEF SendCommand, OpOf, Call, mainVars
<1> QED BY <1>3, <1>4, <1>5, <1>6 DEF CommandCall

(* Sending a control transfer, on the ring of the current slot. *)
LEMMA TransferCalled ==
    ASSUME Types, TransferCall
    PROVE  /\ pc \notin Waits /\ pc' \in TransferWaits /\ pc' \notin CommandWaits
           /\ \E x \in Transfer : xfers' = Append(xfers, x) /\ x.mine
                                  /\ x.slot = cur.slot /\ x.ring = cur.slot
           /\ TRANSFER' = NotPending
           /\ UNCHANGED <<cmds, events, COMPLETION, PORT_CHANGE_PENDING, attached, hw, drv, dcbaa,
                          snap, i, cur, eps, active, refused>>
<1> USE DEF Waits, CommandWaits, TransferWaits, Handling, HidSetup, Described
<1>1. PICK req \in {"device", "config", "set_configuration", "set_protocol"} : SendTransfer(req)
  BY Zenon DEF TransferCall, get_device_descriptor, get_configuration, set_configuration, set_protocol
<1>2. /\ pc \notin Waits /\ pc \in Described /\ pc' \in TransferWaits /\ pc' \notin CommandWaits
      /\ UNCHANGED <<attached, hw, drv, dcbaa, snap, i, cur, eps, active, refused>>
  BY DEF TransferCall, get_device_descriptor, get_configuration, set_configuration, set_protocol,
         Call, owned, mainVars
<1>3. ep0 = cur.slot /\ cur.slot \in Slots
  BY <1>2 DEF Types, MainTypes
<1>4. [req |-> req, slot |-> cur.slot, ring |-> ep0, mine |-> TRUE] \in Transfer
  BY <1>3 DEF Transfer
<1> QED BY <1>1, <1>2, <1>3, <1>4 DEF SendTransfer

(* The end of a wait for a command, or for a transfer. *)
LEMMA CommandReturned ==
    ASSUME Types, MaxLate = 0, CommandReturn
    PROVE  /\ pc \in CommandWaits /\ pc' \notin Waits
           /\ UNCHANGED <<cmds, xfers, events, COMPLETION, TRANSFER, PORT_CHANGE_PENDING, attached,
                          hw, drv>>
           /\ COMPLETION.pending \/ (~ Owed(cmds) /\ ~ Owed(events))
<1>1. \E r \in BOOLEAN : Await(COMPLETION, r) /\ Ret
  BY DEF CommandReturn, disable_slot_return, enable_slot_return, address_device_return,
         configure_endpoint_return
<1>2. /\ UNCHANGED <<cmds, xfers, events, late, attached, hw, statics>>
      /\ COMPLETION.pending \/ (~ Owed(cmds) /\ ~ Owed(events))
  BY <1>1, PunctualWait DEF Ret
<1>3. pc \in CommandWaits /\ pc' \notin Waits /\ drv' = drv
  BY DEF CommandReturn, disable_slot_return, enable_slot_return, address_device_return,
         configure_endpoint_return, Waits, CommandWaits, TransferWaits
<1> QED BY <1>2, <1>3 DEF statics

(* The same for a transfer. *)
LEMMA TransferReturned ==
    ASSUME Types, MaxLate = 0, TransferReturn
    PROVE  /\ pc \in TransferWaits /\ pc \notin CommandWaits /\ pc' \notin Waits
           /\ UNCHANGED <<cmds, xfers, events, COMPLETION, TRANSFER, PORT_CHANGE_PENDING, attached,
                          hw, drv, dcbaa>>
           /\ TRANSFER.pending \/ (~ Owed(xfers) /\ ~ Owed(events))
<1>1. \E r \in BOOLEAN : Await(TRANSFER, r) /\ Ret
  BY DEF TransferReturn, get_device_descriptor_return, get_configuration_return,
         set_configuration_return, set_protocol_return
<1>2. /\ UNCHANGED <<cmds, xfers, events, late, attached, hw, statics>>
      /\ TRANSFER.pending \/ (~ Owed(xfers) /\ ~ Owed(events))
  BY <1>1, PunctualWait DEF Ret
<1>3. pc \in TransferWaits /\ pc \notin CommandWaits /\ pc' \notin Waits /\ UNCHANGED <<drv, dcbaa>>
  BY DEF TransferReturn, get_device_descriptor_return, get_configuration_return,
         set_configuration_return, set_protocol_return, Push, Waits, CommandWaits, TransferWaits
<1> QED BY <1>2, <1>3 DEF statics

(* Main's other steps send nothing and take no answer. *)
LEMMA LocalSteps ==
    ASSUME LocalStep
    PROVE  /\ pc \notin Waits /\ pc' \notin Waits
           /\ UNCHANGED <<cmds, xfers, events, COMPLETION, TRANSFER, attached>>
  BY DEF LocalStep, hlt, poll_hotplug, discover_and_init_hid_devices, disconnect_loop,
         connect_loop, dispatch_endpoint, init_driver, arm_first_report, Push, Waits, CommandWaits,
         TransferWaits, reqVars, statics

(* The controller takes the oldest command and answers it. *)
LEMMA CommandAnswered ==
    ASSUME Types, ExecCommand
    PROVE  /\ cmds # <<>> /\ cmds' = Tail(cmds) /\ Head(cmds) \in Command
           /\ \E e \in Message : Post(e) /\ e.type = "command" /\ e.mine = Head(cmds).mine
           /\ UNCHANGED <<xfers, COMPLETION, TRANSFER, PORT_CHANGE_PENDING, attached, drv, dcbaa, snap,
                          i, cur, eps, active, refused, buf, pc>>
<1>1. cmds # <<>> /\ cmds' = Tail(cmds) /\ HwStep
  BY Zenon DEF ExecCommand, ExecEnable, ExecAddress, ExecConfigure, ExecDisable
<1>2. Head(cmds) \in Command
  BY <1>1, Consumed DEF Types, QueueTypes
<1>3. /\ Head(cmds).op # "enable" => Head(cmds).slot \in Slots
      /\ Head(cmds).mine \in BOOLEAN
  BY <1>2 DEF Command
<1>4. 0 \in 0 .. MaxSlots /\ \A s \in Slots : s \in 0 .. MaxSlots
  BY HubAssumption DEF Slots
<1>5. PICK s \in 0 .. MaxSlots, ok \in BOOLEAN :
         (ok => s \in Slots) /\ Post(Event("command", s, 0, ok, Head(cmds).mine))
  <2>1. CASE ExecEnable
    <3> DEFINE free == {s \in Slots : hw[s].st = "disabled"}
               s == CHOOSE t \in free : \A u \in free : t <= u
    <3>1. CASE free = {}
      BY <1>4, <2>1, <3>1 DEF ExecEnable
    <3>2. CASE free # {}
      <4>1. s \in Slots
        BY <3>2, LowestSlot
      <4>2. Post(Event("command", s, 0, TRUE, Head(cmds).mine))
        BY <2>1, <3>2 DEF ExecEnable
      <4> QED BY <1>4, <4>1, <4>2
    <3> QED BY <3>1, <3>2
  <2>2. CASE ExecAddress
    BY <1>3, <1>4, <2>2 DEF ExecAddress
  <2>3. CASE ExecConfigure
    <3>1. Head(cmds).slot \in Slots
      BY <1>3, <2>3 DEF ExecConfigure
    <3>2. \E ok \in BOOLEAN : Post(Event("command", Head(cmds).slot, 0, ok, Head(cmds).mine))
      BY <2>3, Zenon DEF ExecConfigure
    <3> QED BY <1>4, <3>1, <3>2
  <2>4. CASE ExecDisable
    <3>1. Head(cmds).slot \in Slots /\ (hw[Head(cmds).slot].st # "disabled") \in BOOLEAN
      BY <1>3, <2>4 DEF ExecDisable
    <3>2. Post(Event("command", Head(cmds).slot, 0, hw[Head(cmds).slot].st # "disabled", Head(cmds).mine))
      BY <2>4 DEF ExecDisable
    <3> QED BY <1>4, <3>1, <3>2
  <2> QED BY <2>1, <2>2, <2>3, <2>4 DEF ExecCommand
<1>6. Event("command", s, 0, ok, Head(cmds).mine) \in Message
  BY <1>3, <1>5 DEF Event, Message
<1>7. Event("command", s, 0, ok, Head(cmds).mine).type = "command"
      /\ Event("command", s, 0, ok, Head(cmds).mine).mine = Head(cmds).mine
  BY DEF Event
<1> QED BY <1>1, <1>2, <1>5, <1>6, <1>7 DEF HwStep, statics, owned, mainVars

(* The steps of devices and users, and control transfers, touch no command. *)
LEMMA OtherSteps ==
    ASSUME Types, OtherStep
    PROVE  /\ UNCHANGED <<cmds, COMPLETION, TRANSFER, PORT_CHANGE_PENDING, drv, dcbaa, snap, i, cur,
                          eps, active, refused, pc>>
           /\ \/ events' = events
              \/ \E e \in Message : Post(e) /\ e.type # "command"
<1>1. UNCHANGED <<cmds, COMPLETION, TRANSFER, PORT_CHANGE_PENDING, drv, dcbaa, snap, i, cur,
                  eps, active, refused, pc>>
  BY Zenon DEF OtherStep, ExecTransfer, Report, ReportFails, Unplug, Plug, User, statics, owned, mainVars
<1>2. CASE ExecTransfer
  <2>1. xfers # <<>> /\ (events' = events \/
           \E ok \in BOOLEAN : Post(Event("transfer", Head(xfers).slot, Ep0Dci, ok, Head(xfers).mine)))
    BY <1>2, Zenon DEF ExecTransfer
  <2>2. Head(xfers) \in Transfer
    BY <2>1, Consumed DEF Types, QueueTypes
  <2>3. \A s \in Slots : s \in 0 .. MaxSlots
    BY HubAssumption DEF Slots
  <2>4. \A ok \in BOOLEAN : LET e == Event("transfer", Head(xfers).slot, Ep0Dci, ok, Head(xfers).mine)
                            IN  e \in Message /\ e.type # "command"
    BY <2>2, <2>3 DEF Event, Message, Transfer
  <2> QED BY <1>1, <2>1, <2>4
<1>3. ASSUME NEW s \in Slots, NEW d \in Dcis, Report(s, d) \/ ReportFails(s, d)
      PROVE  \E e \in Message : Post(e) /\ e.type # "command"
  <2>1. PICK ok \in BOOLEAN : Post(Event("transfer", s, d, ok, FALSE))
    BY <1>3 DEF Report, ReportFails
  <2>2. Event("transfer", s, d, ok, FALSE) \in Message /\ Event("transfer", s, d, ok, FALSE).type # "command"
    BY HubAssumption DEF Event, Message, Slots
  <2> QED BY <2>1, <2>2
<1>4. CASE \E p \in Ports : Unplug(p) \/ \E d \in Devices : Plug(p, d)
  <2>1. events' = events \/ Post(Event("port", 0, 0, TRUE, FALSE))
    BY <1>4, Zenon DEF Unplug, Plug, PortChange
  <2>2. Event("port", 0, 0, TRUE, FALSE) \in Message /\ Event("port", 0, 0, TRUE, FALSE).type # "command"
    BY HubAssumption DEF Event, Message
  <2> QED BY <1>1, <2>1, <2>2
<1> QED BY <1>1, <1>2, <1>3, <1>4 DEF OtherStep

(* The handler takes the oldest event. *)
LEMMA EventTaken ==
    ASSUME Types, Interrupt
    PROVE  /\ Head(events) \in Message /\ Head(events) = events[1] /\ events' = Tail(events)
           /\ Len(events) \in Nat \ {0} /\ DOMAIN events = 1 .. Len(events) /\ 1 \in DOMAIN events
           /\ DOMAIN events' = 1 .. Len(events) - 1
           /\ \A j \in DOMAIN events' : j + 1 \in DOMAIN events /\ events'[j] = events[j + 1]
           /\ UNCHANGED <<attached, cmds, xfers, drv, dcbaa, snap, i, cur, eps, active, refused, buf>>
           /\ pc' = pc \/ (pc = "halted" /\ pc' = "poll_hotplug")
           /\ events[1].type = "command" => /\ COMPLETION'.pending /\ COMPLETION'.ok = events[1].ok
                                            /\ COMPLETION'.slot = events[1].slot
                                            /\ COMPLETION'.mine = events[1].mine
                                            /\ UNCHANGED <<TRANSFER, hw>>
           /\ events[1].type # "command" => COMPLETION' = COMPLETION
<1>1. events # <<>> /\ events' = Tail(events) /\ events \in Seq(Message)
  BY DEF Interrupt, Types, QueueTypes
<1>2. /\ Head(events) \in Message /\ Head(events) = events[1]
      /\ Len(events) \in Nat \ {0} /\ DOMAIN events = 1 .. Len(events) /\ 1 \in DOMAIN events
      /\ DOMAIN events' = 1 .. Len(events) - 1
      /\ \A j \in 1 .. Len(events) - 1 : events'[j] = events[j + 1]
  BY <1>1, Consumed
<1>3. \A j \in DOMAIN events' : j + 1 \in DOMAIN events /\ events'[j] = events[j + 1]
  BY <1>2
<1>4. /\ UNCHANGED <<attached, cmds, xfers, drv, dcbaa, snap, i, cur, eps, active, refused, buf>>
      /\ pc' = pc \/ (pc = "halted" /\ pc' = "poll_hotplug")
  BY DEF Interrupt, owned, mainVars
<1>5. /\ Head(events).type = "command" => CommandCompletion(Head(events))
      /\ Head(events).type # "command" => COMPLETION' = COMPLETION
  BY DEF Interrupt, PortStatusChange, CommandCompletion, TransferCompletion, ReportFor, statics
<1>6. Head(events).type = "command" => /\ COMPLETION'.pending /\ COMPLETION'.ok = Head(events).ok
                                       /\ COMPLETION'.slot = Head(events).slot
                                       /\ COMPLETION'.mine = Head(events).mine
                                       /\ UNCHANGED <<TRANSFER, hw>>
  BY <1>5 DEF CommandCompletion
<1> QED BY <1>1, <1>2, <1>3, <1>4, <1>5, <1>6

(* No command is under way while main does not wait for one. *)
LEMMA NoCommand ==
    ASSUME Types, OneCommand, pc \notin CommandWaits \/ COMPLETION.pending
    PROVE  cmds = <<>> /\ \A j \in DOMAIN events : ~ CommandEvent(j)
<1>1. cmds \in Seq(Command) /\ DOMAIN cmds = {}
  BY DEF OneCommand, Types, QueueTypes
<1>2. cmds = <<>>
  BY <1>1, Consumed
<1> QED BY <1>2 DEF OneCommand

(* Main never stops waiting for a command before it is answered. *)
LEMMA CommandAnswerTaken ==
    ASSUME Types, OneCommand, MaxLate = 0, CommandReturn
    PROVE  COMPLETION.pending /\ COMPLETION.mine
<1>1. pc \in CommandWaits /\ (COMPLETION.pending \/ (~ Owed(cmds) /\ ~ Owed(events)))
  BY CommandReturned
<1>2. cmds = <<>> \/ (cmds[1].mine /\ 1 \in DOMAIN cmds)
  BY Consumed DEF OneCommand, Types, QueueTypes
<1> QED BY <1>1, <1>2 DEF OneCommand, Owed, CommandEvent

(* Every step keeps account of the command under way. *)
LEMMA StepCommand == MaxLate = 0 /\ Types /\ OneCommand /\ [Next]_vars => OneCommand'
<1> SUFFICES ASSUME MaxLate = 0, Types, OneCommand, [Next]_vars PROVE OneCommand'
  OBVIOUS
<1> USE DEF Waits
<1>1. CASE CommandCall
  <2>1. PICK c \in Command : /\ cmds' = Append(cmds, c) /\ c.op = OpOf(pc') /\ c.mine
                             /\ c.slot = cur.slot /\ c.port = cur.port
                             /\ c.op = "configure" => c.dci = Head(eps).dci
    BY <1>1, CommandCalled
  <2>2. /\ pc \notin CommandWaits /\ pc' \in CommandWaits /\ COMPLETION' = NotPending
        /\ UNCHANGED <<events, cur, eps>>
    BY <1>1, CommandCalled
  <2>3. cmds = <<>> /\ \A j \in DOMAIN events : ~ CommandEvent(j)
    BY <2>2, NoCommand
  <2>4. cmds' = <<c>>
    BY <2>1, <2>3
  <2>5. DOMAIN cmds' = {1} /\ cmds'[1] = c /\ cmds' # <<>>
    BY <2>4
  <2>6. ~ COMPLETION'.pending
    BY <2>2 DEF NotPending
  <2> QED BY <2>1, <2>2, <2>3, <2>5, <2>6 DEF OneCommand, CommandEvent
<1>2. CASE CommandReturn
  <2>1. cmds = <<>> /\ \A j \in DOMAIN events : ~ CommandEvent(j)
    BY <1>2, CommandAnswerTaken, NoCommand
  <2>2. pc' \notin CommandWaits /\ UNCHANGED <<cmds, events>>
    BY <1>2, CommandReturned
  <2> QED BY <2>1, <2>2 DEF OneCommand, CommandEvent
<1>3. CASE TransferCall \/ TransferReturn \/ LocalStep
  <2>1. pc \notin CommandWaits /\ pc' \notin CommandWaits /\ UNCHANGED <<cmds, events>>
    BY <1>3, TransferCalled, TransferReturned, LocalSteps
  <2>2. cmds = <<>> /\ \A j \in DOMAIN events : ~ CommandEvent(j)
    BY <2>1, NoCommand
  <2> QED BY <2>1, <2>2 DEF OneCommand, CommandEvent
<1>4. CASE Interrupt
  <2>1. UNCHANGED <<cmds, cur, eps>> /\ (pc' \in CommandWaits <=> pc \in CommandWaits)
        /\ (pc \in CommandWaits => pc' = pc)
    BY <1>4, EventTaken DEF CommandWaits
  <2>2. /\ 1 \in DOMAIN events /\ DOMAIN events = 1 .. Len(events) /\ Len(events) \in Nat \ {0}
        /\ DOMAIN events' = 1 .. Len(events) - 1
        /\ \A j \in DOMAIN events' : j + 1 \in DOMAIN events /\ events'[j] = events[j + 1]
    BY <1>4, EventTaken
  <2>3. CASE events[1].type = "command"
    <3>1. COMPLETION'.pending /\ COMPLETION'.mine = events[1].mine
      BY <1>4, <2>3, EventTaken
    <3>2. /\ events[1].mine /\ pc \in CommandWaits /\ cmds = <<>> /\ CommandEvent(1)
          /\ \A l \in DOMAIN events : CommandEvent(l) => l = 1
      BY <2>2, <2>3 DEF OneCommand, CommandEvent
    <3>3. \A j \in DOMAIN events' : events'[j].type # "command"
      <4> SUFFICES ASSUME NEW j \in DOMAIN events', events'[j].type = "command" PROVE FALSE
        OBVIOUS
      <4>1. j + 1 \in DOMAIN events /\ CommandEvent(j + 1) /\ j \in Nat /\ j # 0
        BY <2>2 DEF CommandEvent
      <4> QED BY <3>2, <4>1
    <3> QED BY <2>1, <3>1, <3>2, <3>3 DEF OneCommand, CommandEvent
  <2>4. CASE events[1].type # "command"
    <3>1. COMPLETION' = COMPLETION
      BY <1>4, <2>4, EventTaken
    <3>2. ASSUME NEW j \in DOMAIN events', events'[j].type = "command"
          PROVE  /\ events'[j].mine /\ pc \in CommandWaits /\ cmds = <<>> /\ ~ COMPLETION.pending
                 /\ \A l \in DOMAIN events' : events'[l].type = "command" => l = j
      <4>1. j + 1 \in DOMAIN events /\ CommandEvent(j + 1) /\ events'[j] = events[j + 1]
        BY <2>2, <3>2 DEF CommandEvent
      <4>2. /\ events[j + 1].mine /\ pc \in CommandWaits /\ cmds = <<>> /\ ~ COMPLETION.pending
            /\ \A l \in DOMAIN events : CommandEvent(l) => l = j + 1
        BY <4>1 DEF OneCommand
      <4>3. ASSUME NEW l \in DOMAIN events', events'[l].type = "command" PROVE l = j
        <5>1. l + 1 \in DOMAIN events /\ CommandEvent(l + 1)
          BY <2>2, <4>3 DEF CommandEvent
        <5>2. l + 1 = j + 1 /\ l \in Int /\ j \in Int
          BY <2>2, <4>2, <5>1
        <5> QED BY <5>2
      <4> QED BY <4>1, <4>2, <4>3
    <3>3. ASSUME NEW j \in DOMAIN events, CommandEvent(j)
          PROVE  \E l \in DOMAIN events' : events'[l].type = "command"
      <4>1. j - 1 \in DOMAIN events' /\ j - 1 + 1 = j
        BY <2>2, <2>4, <3>3 DEF CommandEvent
      <4>2. events'[j - 1] = events[j]
        BY <2>2, <4>1
      <4> QED BY <3>3, <4>1, <4>2 DEF CommandEvent
    <3> QED BY <2>1, <3>1, <3>2, <3>3 DEF OneCommand, CommandEvent
  <2> QED BY <2>3, <2>4
<1>5. CASE ExecCommand
  <2>1. PICK e \in Message : Post(e) /\ e.type = "command" /\ e.mine = Head(cmds).mine
    BY <1>5, CommandAnswered
  <2>2. cmds # <<>> /\ cmds' = Tail(cmds) /\ UNCHANGED <<COMPLETION, cur, eps, pc>>
    BY <1>5, CommandAnswered
  <2>3. /\ Head(cmds) = cmds[1] /\ DOMAIN cmds = 1 .. Len(cmds) /\ 1 \in DOMAIN cmds
        /\ Len(cmds) \in Nat \ {0} /\ DOMAIN cmds' = 1 .. Len(cmds) - 1 /\ cmds' \in Seq(Command)
    BY <2>2, Consumed DEF Types, QueueTypes
  <2>4. /\ \A j \in DOMAIN cmds : j = 1
        /\ cmds[1].mine /\ pc \in CommandWaits /\ ~ COMPLETION.pending
    BY <2>3 DEF OneCommand
  <2>5. Len(cmds) = 1
    <3>1. Len(cmds) \in DOMAIN cmds
      BY <2>3
    <3> QED BY <2>4, <3>1
  <2>6. cmds' = <<>>
    BY <2>3, <2>5, EmptySeq
  <2>7. \A j \in DOMAIN events : ~ CommandEvent(j)
    BY <2>2 DEF OneCommand
  <2>8. /\ DOMAIN events = 1 .. Len(events) /\ Len(events) \in Nat
        /\ DOMAIN events' = 1 .. Len(events) + 1
        /\ \A j \in DOMAIN events : events'[j] = events[j]
        /\ events'[Len(events) + 1] = e
    BY <2>1, EventPosted DEF Types
  <2>9. \A j \in DOMAIN events' : events'[j].type = "command" <=> j = Len(events) + 1
    BY <2>1, <2>7, <2>8 DEF CommandEvent
  <2>10. Len(events) + 1 \in DOMAIN events' /\ events'[Len(events) + 1].mine
    BY <2>1, <2>3, <2>4, <2>8
  <2> QED BY <2>2, <2>4, <2>6, <2>9, <2>10 DEF OneCommand, CommandEvent
<1>6. CASE OtherStep
  <2>1. UNCHANGED <<cmds, COMPLETION, cur, eps, pc>>
    BY <1>6, OtherSteps
  <2>2. CASE events' = events
    BY <2>1, <2>2 DEF OneCommand, CommandEvent
  <2>3. CASE \E e \in Message : Post(e) /\ e.type # "command"
    <3>1. PICK e \in Message : Post(e) /\ e.type # "command"
      BY <2>3
    <3>2. /\ DOMAIN events = 1 .. Len(events) /\ Len(events) \in Nat
          /\ DOMAIN events' = 1 .. Len(events) + 1
          /\ \A j \in DOMAIN events : events'[j] = events[j]
          /\ events'[Len(events) + 1] = e
      BY <3>1, EventPosted DEF Types
    <3>3. \A j \in DOMAIN events' : events'[j].type = "command" => j \in DOMAIN events
      BY <3>1, <3>2
    <3>4. \A j \in DOMAIN events : j \in DOMAIN events'
      BY <3>2
    <3> QED BY <2>1, <3>2, <3>3, <3>4 DEF OneCommand, CommandEvent
  <2> QED BY <1>6, <2>2, <2>3, OtherSteps
<1>7. CASE UNCHANGED vars
  BY <1>7 DEF vars, reqVars, statics, mainVars, OneCommand, CommandEvent
<1> QED BY <1>1, <1>2, <1>3, <1>4, <1>5, <1>6, <1>7
        DEF Next, Main, Exec, CommandCall, CommandReturn, TransferCall, TransferReturn, LocalStep,
            ExecCommand, OtherStep

-----------------------------------------------------------------------------
(* Slots and registry.                                                      *)

(* The event that answers a command. *)
LEMMA AnswerSent ==
    ASSUME Types, cmds # <<>>, NEW s \in 0 .. MaxSlots, NEW ok \in BOOLEAN, ok => s \in Slots
    PROVE  LET e == Event("command", s, 0, ok, Head(cmds).mine) IN
           e \in Message /\ e.type = "command" /\ e.slot = s /\ e.ok = ok /\ e.mine = Head(cmds).mine
<1>1. Head(cmds) \in Command
  BY Consumed DEF Types, QueueTypes
<1> QED BY <1>1 DEF Event, Message, Command

(* What each command does to the slots, and what its answer says. *)
LEMMA EnableDone ==
    ASSUME Types, ExecEnable
    PROVE  \E e \in Message :
             /\ Post(e) /\ e.type = "command"
             /\ e.ok => /\ e.slot \in Slots /\ hw[e.slot].st = "disabled"
                        /\ hw'[e.slot] = [hw[e.slot] EXCEPT !.st = "enabled"]
                        /\ hw'[e.slot].st = "enabled" /\ hw'[e.slot].port = hw[e.slot].port
                        /\ hw'[e.slot].dev = hw[e.slot].dev /\ hw'[e.slot].ep = hw[e.slot].ep
                        /\ \A s \in Slots : s # e.slot => hw'[s] = hw[s]
             /\ ~ e.ok => hw' = hw
<1> DEFINE free == {s \in Slots : hw[s].st = "disabled"}
           s == CHOOSE t \in free : \A u \in free : t <= u
<1>1. 0 \in 0 .. MaxSlots /\ \A t \in Slots : t \in 0 .. MaxSlots
  BY HubAssumption DEF Slots
<1>2. cmds # <<>>
  BY DEF ExecEnable
<1>3. CASE free = {}
  <2> DEFINE e == Event("command", 0, 0, FALSE, Head(cmds).mine)
  <2>1. Post(e) /\ hw' = hw
    BY <1>3 DEF ExecEnable
  <2>2. e \in Message /\ e.type = "command" /\ e.ok = FALSE
    BY <1>1, <1>2, AnswerSent
  <2> HIDE DEF e
  <2> QED BY <2>1, <2>2
<1>4. CASE free # {}
  <2> DEFINE e == Event("command", s, 0, TRUE, Head(cmds).mine)
  <2>1. s \in free
    BY <1>4, LowestSlot
  <2>2. Post(e) /\ hw' = [hw EXCEPT ![s].st = "enabled"]
    BY <1>4 DEF ExecEnable
  <2> HIDE DEF s
  <2>3. e \in Message /\ e.type = "command" /\ e.ok /\ e.slot = s
    BY <1>1, <1>2, <2>1, AnswerSent
  <2> HIDE DEF e
  <2>4. s \in Slots /\ hw[s].st = "disabled" /\ hw[s] \in SlotState /\ hw \in [Slots -> SlotState]
    BY <2>1 DEF Types, HwTypes
  <2>5. hw'[s] = [hw[s] EXCEPT !.st = "enabled"] /\ \A t \in Slots : t # s => hw'[t] = hw[t]
    BY <2>2, <2>4
  <2>6. hw'[s].st = "enabled" /\ hw'[s].port = hw[s].port /\ hw'[s].dev = hw[s].dev
        /\ hw'[s].ep = hw[s].ep
    BY <2>4, <2>5 DEF SlotState
  <2> QED BY <2>2, <2>3, <2>4, <2>5, <2>6
<1> QED BY <1>3, <1>4

(* The same for Address Device. *)
LEMMA AddressDone ==
    ASSUME Types, ExecAddress
    PROVE  LET c == Head(cmds) IN
           /\ c.slot \in Slots /\ c.port \in Ports
           /\ \E e \in Message :
                /\ Post(e) /\ e.type = "command"
                /\ e.ok => /\ hw[c.slot].st = "enabled" /\ attached[c.port] # NoDevice
                           /\ hw'[c.slot].st = "addressed" /\ hw'[c.slot].port = c.port
                           /\ hw'[c.slot].dev = attached[c.port] /\ hw'[c.slot].ep = hw[c.slot].ep
                           /\ \A s \in Slots : s # c.slot => hw'[s] = hw[s]
                /\ ~ e.ok => hw' = hw
<1> DEFINE c == Head(cmds)
           e(ok) == Event("command", c.slot, 0, ok, c.mine)
           v == [hw[c.slot] EXCEPT !.st = "addressed", !.port = c.port,
                                   !.dev = attached[c.port], !.alive = TRUE]
<1>1. cmds # <<>> /\ c.op = "address"
  BY DEF ExecAddress
<1>2. c \in Command
  BY <1>1, Consumed DEF Types, QueueTypes
<1>3. c.slot \in Slots /\ c.port \in Ports /\ c.slot \in 0 .. MaxSlots
  BY <1>1, <1>2, HubAssumption DEF Command, Slots
<1>4. \A ok \in BOOLEAN : e(ok) \in Message /\ e(ok).type = "command" /\ e(ok).ok = ok
  BY <1>1, <1>3, AnswerSent
<1>5. \/ Post(e(TRUE)) /\ hw[c.slot].st = "enabled" /\ attached[c.port] # NoDevice
         /\ hw' = [hw EXCEPT ![c.slot] = v]
      \/ Post(e(FALSE)) /\ hw' = hw
  BY DEF ExecAddress
<1>6. hw[c.slot] \in SlotState /\ hw \in [Slots -> SlotState]
  BY <1>3 DEF Types, HwTypes
<1>7. v.st = "addressed" /\ v.port = c.port /\ v.dev = attached[c.port] /\ v.ep = hw[c.slot].ep
  BY <1>6 DEF SlotState
<1> HIDE DEF e, v
<1>8. CASE Post(e(TRUE)) /\ hw[c.slot].st = "enabled" /\ attached[c.port] # NoDevice
           /\ hw' = [hw EXCEPT ![c.slot] = v]
  <2>1. hw'[c.slot] = v /\ \A s \in Slots : s # c.slot => hw'[s] = hw[s]
    BY <1>3, <1>6, <1>8
  <2> QED BY <1>3, <1>4, <1>7, <1>8, <2>1
<1>9. CASE Post(e(FALSE)) /\ hw' = hw
  BY <1>3, <1>4, <1>9
<1> QED BY <1>5, <1>8, <1>9

(* The same for Configure Endpoint. *)
LEMMA ConfigureDone ==
    ASSUME Types, ExecConfigure
    PROVE  LET c == Head(cmds) IN
           /\ c.slot \in Slots /\ c.dci \in Dcis
           /\ \E e \in Message :
                /\ Post(e) /\ e.type = "command"
                /\ e.ok => /\ hw[c.slot].st = "addressed"
                           /\ hw'[c.slot].st = "addressed" /\ hw'[c.slot].port = hw[c.slot].port
                           /\ hw'[c.slot].dev = hw[c.slot].dev
                           /\ hw'[c.slot].ep[c.dci] = [st |-> "running", trbs |-> 0]
                           /\ \A d \in Dcis : d # c.dci => hw'[c.slot].ep[d] = hw[c.slot].ep[d]
                           /\ \A s \in Slots : s # c.slot => hw'[s] = hw[s]
                /\ ~ e.ok => hw' = hw
<1> DEFINE c == Head(cmds)
           e(ok) == Event("command", c.slot, 0, ok, c.mine)
           E == [st |-> "running", trbs |-> 0]
           P == [hw[c.slot].ep EXCEPT ![c.dci] = E]
           v == [hw[c.slot] EXCEPT !.ep = P]
<1>1. cmds # <<>> /\ c.op = "configure"
  BY DEF ExecConfigure
<1>2. c \in Command
  BY <1>1, Consumed DEF Types, QueueTypes
<1>3. c.slot \in Slots /\ c.dci \in Dcis /\ c.slot \in 0 .. MaxSlots
  BY <1>1, <1>2, HubAssumption DEF Command, Slots
<1>4. \A ok \in BOOLEAN : e(ok) \in Message /\ e(ok).type = "command" /\ e(ok).ok = ok
  BY <1>1, <1>3, AnswerSent
<1>5. \/ Post(e(TRUE)) /\ hw[c.slot].st = "addressed" /\ hw' = [hw EXCEPT ![c.slot].ep[c.dci] = E]
      \/ Post(e(FALSE)) /\ hw' = hw
  BY DEF ExecConfigure
<1>6. hw[c.slot] \in SlotState /\ hw \in [Slots -> SlotState] /\ hw[c.slot].ep \in [Dcis -> EndpointState]
  BY <1>3 DEF Types, HwTypes, SlotState
<1>7. P[c.dci] = E /\ \A d \in Dcis : d # c.dci => P[d] = hw[c.slot].ep[d]
  BY <1>3, <1>6
<1>8. CASE Post(e(TRUE)) /\ hw[c.slot].st = "addressed" /\ hw' = [hw EXCEPT ![c.slot].ep[c.dci] = E]
  <2>1. hw' = [hw EXCEPT ![c.slot] = v]
    BY <1>8
  <2> HIDE DEF P
  <2>2. v.st = hw[c.slot].st /\ v.port = hw[c.slot].port /\ v.dev = hw[c.slot].dev /\ v.ep = P
    BY <1>6 DEF SlotState
  <2> HIDE DEF v, e
  <2>3. hw'[c.slot] = v /\ \A s \in Slots : s # c.slot => hw'[s] = hw[s]
    BY <1>3, <1>6, <2>1
  <2> QED BY <1>3, <1>4, <1>7, <1>8, <2>2, <2>3
<1> HIDE DEF e
<1>9. CASE Post(e(FALSE)) /\ hw' = hw
  BY <1>3, <1>4, <1>9
<1> QED BY <1>5, <1>8, <1>9

(* The same for Disable Slot. *)
LEMMA DisableDone ==
    ASSUME Types, ExecDisable
    PROVE  LET c == Head(cmds) IN
           /\ c.slot \in Slots
           /\ \E e \in Message :
                /\ Post(e) /\ e.type = "command" /\ e.ok = (hw[c.slot].st # "disabled")
                /\ hw'[c.slot] = FreeSlot /\ hw'[c.slot].st = "disabled"
                /\ \A s \in Slots : s # c.slot => hw'[s] = hw[s]
<1> DEFINE c == Head(cmds)
           ok == hw[c.slot].st # "disabled"
           e == Event("command", c.slot, 0, ok, c.mine)
<1>1. cmds # <<>> /\ c.op = "disable" /\ Post(e) /\ hw' = [hw EXCEPT ![c.slot] = FreeSlot]
  BY DEF ExecDisable
<1>2. c \in Command
  BY <1>1, Consumed DEF Types, QueueTypes
<1>3. c.slot \in Slots /\ c.slot \in 0 .. MaxSlots /\ ok \in BOOLEAN
  BY <1>1, <1>2, HubAssumption DEF Command, Slots
<1> HIDE DEF ok
<1>4. e \in Message /\ e.type = "command" /\ e.ok = ok
  BY <1>1, <1>3, AnswerSent
<1> HIDE DEF e
<1>5. hw'[c.slot] = FreeSlot /\ \A s \in Slots : s # c.slot => hw'[s] = hw[s]
  BY <1>1, <1>3 DEF Types, HwTypes
<1> QED BY <1>1, <1>3, <1>4, <1>5 DEF FreeSlot, ok

(* Only the commands of main change what a slot is and whose it is. *)
LEMMA SlotsKept ==
    ASSUME Types, [Next]_vars, ~ ExecCommand
    PROVE  \A s \in Slots : hw'[s].st = hw[s].st /\ hw'[s].port = hw[s].port /\ hw'[s].dev = hw[s].dev
<1> SUFFICES ASSUME NEW s \in Slots
             PROVE  hw'[s].st = hw[s].st /\ hw'[s].port = hw[s].port /\ hw'[s].dev = hw[s].dev
  OBVIOUS
<1>1. hw[s] \in SlotState /\ hw \in [Slots -> SlotState]
  BY DEF Types, HwTypes
<1>2. ASSUME NEW k \in HidKinds, hw' = Armed(k)
      PROVE  hw'[s].st = hw[s].st /\ hw'[s].port = hw[s].port /\ hw'[s].dev = hw[s].dev
  <2>1. hw'[s] = [hw[s] EXCEPT !.ep = hw'[s].ep]
    BY <1>2, ArmedTypes
  <2> QED BY <1>1, <2>1 DEF SlotState
<1>3. CASE arm_first_report
  <2>1. Head(eps).kind \in HidKinds /\ hw' = Armed(Head(eps).kind)
    BY <1>3 DEF arm_first_report, Types, MainTypes, WithDriver
  <2> QED BY <1>2, <2>1
<1>4. CASE Interrupt
  <2>1. hw' = hw \/ \E k \in HidKinds : hw' = Armed(k)
    BY <1>4 DEF Interrupt, PortStatusChange, CommandCompletion, TransferCompletion, ReportFor
  <2> QED BY <1>2, <2>1
<1>5. CASE ExecTransfer
  <2>1. hw' = hw \/ hw' = [hw EXCEPT ![Head(xfers).slot] = [hw[Head(xfers).slot] EXCEPT !.ep0halted = TRUE]]
    BY <1>5 DEF ExecTransfer
  <2> QED BY <1>1, <2>1 DEF SlotState
<1>6. ASSUME NEW t \in Slots, NEW d \in Dcis, Report(t, d) \/ ReportFails(t, d)
      PROVE  hw'[s].st = hw[s].st /\ hw'[s].port = hw[s].port /\ hw'[s].dev = hw[s].dev
  <2>1. PICK P : hw' = [hw EXCEPT ![t] = [hw[t] EXCEPT !.ep = P]]
    <3>1. CASE Report(t, d)
      <4>1. hw' = [hw EXCEPT ![t] = [hw[t] EXCEPT !.ep =
                      [hw[t].ep EXCEPT ![d] = [hw[t].ep[d] EXCEPT !.trbs = @ - 1]]]]
        BY <3>1 DEF Report
      <4> QED BY <4>1
    <3>2. CASE ReportFails(t, d)
      <4>1. hw' = [hw EXCEPT ![t] = [hw[t] EXCEPT !.ep =
                      [hw[t].ep EXCEPT ![d] = [st |-> "halted", trbs |-> hw[t].ep[d].trbs - 1]]]]
        BY <3>2 DEF ReportFails
      <4> QED BY <4>1
    <3> QED BY <1>6, <3>1, <3>2
  <2> QED BY <1>1, <2>1 DEF SlotState
<1>7. CASE \E p \in Ports : Unplug(p) \/ \E d \in Devices : Plug(p, d)
  <2>1. hw' = hw \/ \E p \in Ports : hw' = [t \in Slots |-> IF hw[t].port = p THEN [hw[t] EXCEPT !.alive = FALSE] ELSE hw[t]]
    BY <1>7, Zenon DEF Unplug, Plug
  <2>2. hw'[s] = hw[s] \/ hw'[s] = [hw[s] EXCEPT !.alive = FALSE]
    BY <2>1
  <2> QED BY <1>1, <2>2 DEF SlotState
<1>8. CASE UNCHANGED vars \/ (Main /\ ~ arm_first_report)
  <2>1. hw' = hw
    BY <1>8, Zenon DEF vars, Main, hlt, poll_hotplug, discover_and_init_hid_devices, disconnect_loop,
       connect_loop, disable_slot, disable_slot_return, enable_slot, enable_slot_return,
       address_device, address_device_return, get_device_descriptor, get_device_descriptor_return,
       get_configuration, get_configuration_return, set_configuration, set_configuration_return,
       dispatch_endpoint, configure_endpoint, configure_endpoint_return, set_protocol,
       set_protocol_return, init_driver, Call, Ret
  <2> QED BY <2>1
<1> QED BY <1>3, <1>4, <1>5, <1>6, <1>7, <1>8 DEF Next, Main, Exec, ExecCommand

(* The registry grows by the device that has been enumerated. *)
LEMMA PushSlots ==
    ASSUME Types, SlotInv, pc \in Described, active' = Append(active, cur),
           UNCHANGED <<dcbaa, hw, xfers>>
    PROVE  SlotsTrue'
<1>1. cur \in Entry /\ active \in Seq(Entry)
  BY MembersAreEntries, SeqMonotonic DEF Types, MainTypes
<1>2. /\ Len(active) \in Nat /\ DOMAIN active = 1 .. Len(active)
      /\ DOMAIN active' = 1 .. Len(active) + 1
      /\ active'[Len(active) + 1] = cur
      /\ \A j \in DOMAIN active : active'[j] = active[j]
  BY <1>1, Appended
<1>3. \A j \in DOMAIN active' : j \in DOMAIN active \/ j = Len(active) + 1
  BY <1>2
<1>4. Len(active) + 1 \in DOMAIN active' /\ \A j \in DOMAIN active : j \in DOMAIN active'
  BY <1>2
<1>5. /\ cur.slot \in dcbaa /\ hw[cur.slot].st = "addressed" /\ hw[cur.slot].port = cur.port
      /\ \A j \in DOMAIN active : active[j].slot # cur.slot
  BY DEF SlotInv, CurrentSlot, Described, Handling, HidSetup
<1>6. \A j \in DOMAIN active' : active'[j].slot \in dcbaa /\ hw[active'[j].slot].st = "addressed"
                                /\ hw[active'[j].slot].port = active'[j].port
  BY <1>2, <1>3, <1>5 DEF SlotInv, SlotsTrue
<1>7. \A j, l \in DOMAIN active' : active'[j].slot = active'[l].slot => j = l
  <2> SUFFICES ASSUME NEW j \in DOMAIN active', NEW l \in DOMAIN active', active'[j].slot = active'[l].slot
               PROVE  j = l
    OBVIOUS
  <2>1. CASE j \in DOMAIN active /\ l \in DOMAIN active
    BY <1>2, <2>1 DEF SlotInv, SlotsTrue
  <2>2. CASE ~ (j \in DOMAIN active /\ l \in DOMAIN active)
    BY <1>2, <1>3, <1>5, <2>2
  <2> QED BY <2>1, <2>2
<1>8. \A s \in Slots : hw[s].st = "addressed" => \E j \in DOMAIN active' : active'[j].slot = s
  BY <1>2, <1>4 DEF SlotInv, SlotsTrue
<1> QED BY <1>6, <1>7, <1>8 DEF SlotInv, SlotsTrue

(* Sending a command or a transfer. *)
LEMMA CallSlots ==
    ASSUME Types, OneCommand, SlotInv, CommandCall \/ TransferCall
    PROVE  SlotInv'
<1> USE DEF Waits, CommandWaits, TransferWaits, Handling, HidSetup, Described
<1>1. CASE CommandCall
  <2>1. /\ pc \notin Waits /\ pc' \in CommandWaits /\ ~ COMPLETION'.pending
        /\ UNCHANGED <<xfers, events, hw, cur, active>>
    BY <1>1, CommandCalled DEF NotPending
  <2>2. \A j \in DOMAIN events : ~ CommandEvent(j)
    BY <2>1, NoCommand
  <2>3. AnswersTrue'
    BY <2>1, <2>2 DEF AnswersTrue, CommandEvent
  <2>4. /\ dcbaa \subseteq dcbaa' /\ (pc = "address_device" => cur.slot \in dcbaa')
        /\ \/ pc = "disable_slot" /\ pc' = "disable_slot_wait"
           \/ pc = "enable_slot" /\ pc' = "enable_slot_wait"
           \/ pc = "address_device" /\ pc' = "address_device_wait"
           \/ pc = "configure_endpoint" /\ pc' = "configure_endpoint_wait"
    BY <1>1 DEF CommandCall, disable_slot, enable_slot, address_device, configure_endpoint, owned
  <2>5. CurrentSlot'
    BY <2>1, <2>4 DEF SlotInv, CurrentSlot
  <2>6. SlotsTrue'
    BY <2>1, <2>4 DEF SlotInv, SlotsTrue
  <2> QED BY <2>3, <2>5, <2>6 DEF SlotInv
<1>2. CASE TransferCall
  <2>1. PICK x \in Transfer : xfers' = Append(xfers, x) /\ x.slot = cur.slot /\ x.ring = cur.slot
    BY <1>2, TransferCalled
  <2>2. /\ pc \notin Waits /\ pc' \in TransferWaits
        /\ UNCHANGED <<events, COMPLETION, hw, dcbaa, cur, active>>
    BY <1>2, TransferCalled
  <2>3. pc \in Described
    BY <1>2 DEF TransferCall, get_device_descriptor, get_configuration, set_configuration, set_protocol
  <2>4. \A j \in DOMAIN events : ~ CommandEvent(j)
    BY <2>2, NoCommand
  <2>5. AnswersTrue'
    BY <2>2, <2>4 DEF AnswersTrue, CommandEvent
  <2>6. CurrentSlot'
    BY <2>2, <2>3 DEF SlotInv, CurrentSlot
  <2>7. \A j \in DOMAIN xfers' : xfers'[j].ring = xfers'[j].slot
    <3>1. /\ DOMAIN xfers = 1 .. Len(xfers) /\ Len(xfers) \in Nat
          /\ DOMAIN xfers' = 1 .. Len(xfers) + 1
          /\ \A j \in DOMAIN xfers : xfers'[j] = xfers[j]
          /\ xfers'[Len(xfers) + 1] = x
      BY <2>1, Appended DEF Types, QueueTypes
    <3>2. \A j \in DOMAIN xfers' : j \in DOMAIN xfers \/ j = Len(xfers) + 1
      BY <3>1
    <3> QED BY <2>1, <3>1, <3>2 DEF SlotInv, SlotsTrue
  <2>8. SlotsTrue'
    BY <2>2, <2>3, <2>7 DEF SlotInv, SlotsTrue
  <2> QED BY <2>5, <2>6, <2>8 DEF SlotInv
<1> QED BY <1>1, <1>2

(* The end of a wait. *)
LEMMA ReturnSlots ==
    ASSUME MaxLate = 0, Types, OneCommand, SlotInv, CommandReturn \/ TransferReturn
    PROVE  SlotInv'
<1> USE DEF Waits, CommandWaits, TransferWaits, Handling, HidSetup, Described
<1>1. /\ pc' \notin Waits /\ UNCHANGED <<xfers, events, hw>>
      /\ (CommandReturn => pc \in CommandWaits /\ COMPLETION.pending)
  BY CommandReturned, TransferReturned, CommandAnswerTaken
<1>2. \A j \in DOMAIN events : ~ CommandEvent(j)
  BY <1>1, NoCommand, TransferReturned
<1>3. AnswersTrue'
  BY <1>1, <1>2 DEF AnswersTrue, CommandEvent
<1>4. CASE CommandReturn
  <2>1. AnswerTrue(COMPLETION.ok, COMPLETION.slot)
    BY <1>1, <1>4 DEF SlotInv, AnswersTrue
  <2>2. CASE disable_slot_return
    <3>1. /\ pc = "disable_slot_wait" /\ pc' = "disconnect" /\ UNCHANGED <<active, cur>>
          /\ dcbaa' = dcbaa \ {cur.slot} \/ dcbaa' = dcbaa
      BY <2>2 DEF disable_slot_return, mainVars
    <3>2. hw[cur.slot].st = "disabled"
      BY <2>1, <3>1 DEF AnswerTrue
    <3>3. CurrentSlot'
      BY <3>1 DEF CurrentSlot
    <3>4. \A j \in DOMAIN active : active[j].slot # cur.slot
      BY <3>1 DEF SlotInv, CurrentSlot
    <3>5. SlotsTrue'
      BY <1>1, <3>1, <3>2, <3>4 DEF SlotInv, SlotsTrue
    <3> QED BY <1>3, <3>3, <3>5 DEF SlotInv
  <2>3. CASE enable_slot_return
    <3>1. pc = "enable_slot_wait" /\ UNCHANGED <<active, dcbaa>>
      BY <2>3 DEF enable_slot_return
    <3>2. \A s \in Slots : hw[s].st = "addressed" => \E j \in DOMAIN active : active[j].slot = s
      BY <3>1 DEF SlotInv, SlotsTrue
    <3>3. SlotsTrue'
      BY <1>1, <3>1, <3>2 DEF SlotInv, SlotsTrue
    <3>4. CASE pc' = "connect"
      BY <1>3, <3>3, <3>4 DEF SlotInv, CurrentSlot
    <3>5. CASE pc' = "address_device"
      <4>1. cur' = [cur EXCEPT !.slot = COMPLETION.slot] /\ COMPLETION.ok
        BY <1>1, <2>3, <3>5 DEF enable_slot_return, Await, CommandReturn, Types, QueueTypes, Static
      <4>2. cur'.slot = COMPLETION.slot
        BY <4>1 DEF Types, MainTypes, Entry
      <4>3. hw[cur'.slot].st = "enabled"
        BY <2>1, <3>1, <4>1, <4>2 DEF AnswerTrue
      <4>4. \A j \in DOMAIN active : active[j].slot # cur'.slot
        BY <4>3 DEF SlotInv, SlotsTrue
      <4>5. CurrentSlot'
        BY <1>1, <3>1, <3>5, <4>3, <4>4 DEF CurrentSlot
      <4> QED BY <1>3, <3>3, <4>5 DEF SlotInv
    <3> QED BY <2>3, <3>4, <3>5 DEF enable_slot_return
  <2>4. CASE address_device_return
    <3>1. pc = "address_device_wait" /\ UNCHANGED <<active, dcbaa, cur>>
      BY <2>4 DEF address_device_return
    <3>2. CASE pc' = "connect"
      <4>1. COMPLETION.ok = FALSE
        BY <1>1, <2>4, <3>2, Zenon DEF address_device_return, Await, CommandReturn
      <4>2. hw[cur.slot].st = "enabled"
        BY <2>1, <3>1, <4>1 DEF AnswerTrue
      <4>3. SlotsTrue'
        BY <1>1, <3>1, <3>2, <4>2 DEF SlotInv, SlotsTrue
      <4> QED BY <1>3, <3>2, <4>3 DEF SlotInv, CurrentSlot
    <3>3. CASE pc' = "get_device_descriptor"
      <4>1. COMPLETION.ok
        BY <1>1, <2>4, <3>3, Zenon DEF address_device_return, Await, CommandReturn
      <4>2. hw[cur.slot].st = "addressed" /\ hw[cur.slot].port = cur.port
        BY <2>1, <3>1, <4>1 DEF AnswerTrue
      <4>3. CurrentSlot'
        BY <1>1, <3>1, <3>3, <4>2 DEF SlotInv, CurrentSlot
      <4>4. SlotsTrue'
        BY <1>1, <3>1, <3>3 DEF SlotInv, SlotsTrue
      <4> QED BY <1>3, <4>3, <4>4 DEF SlotInv
    <3> QED BY <2>4, <3>2, <3>3 DEF address_device_return
  <2>5. CASE configure_endpoint_return
    <3>1. /\ pc = "configure_endpoint_wait" /\ pc' \in {"set_protocol", "dispatch"}
          /\ UNCHANGED <<active, dcbaa, cur>>
      BY <2>5 DEF configure_endpoint_return
    <3>2. CurrentSlot'
      BY <1>1, <3>1 DEF SlotInv, CurrentSlot
    <3>3. SlotsTrue'
      BY <1>1, <3>1 DEF SlotInv, SlotsTrue
    <3> QED BY <1>3, <3>2, <3>3 DEF SlotInv
  <2> QED BY <1>4, <2>2, <2>3, <2>4, <2>5 DEF CommandReturn
<1>5. CASE TransferReturn
  <2>1. pc \in Described /\ UNCHANGED <<dcbaa, cur>>
    BY <1>5 DEF TransferReturn, get_device_descriptor_return, get_configuration_return,
                set_configuration_return, set_protocol_return, mainVars
  <2>2. CASE Push
    <3>1. active' = Append(active, cur) /\ pc' = "connect"
      BY <2>2 DEF Push
    <3>2. CurrentSlot'
      BY <3>1 DEF CurrentSlot
    <3> QED BY <1>1, <1>3, <2>1, <3>1, <3>2, PushSlots DEF SlotInv
  <2>3. CASE ~ Push
    <3>1. pc' \in {"get_configuration", "set_configuration", "dispatch", "init_driver"} /\ active' = active
      BY <1>5, <2>3 DEF TransferReturn, get_device_descriptor_return, get_configuration_return,
                        set_configuration_return, set_protocol_return, mainVars
    <3>2. CurrentSlot'
      BY <1>1, <2>1, <3>1 DEF SlotInv, CurrentSlot
    <3>3. SlotsTrue'
      BY <1>1, <2>1, <3>1 DEF SlotInv, SlotsTrue
    <3> QED BY <1>3, <3>2, <3>3 DEF SlotInv
  <2> QED BY <2>2, <2>3
<1> QED BY <1>4, <1>5

(* The loops and the drivers. *)
LEMMA LocalSlots ==
    ASSUME Types, OneCommand, SlotInv, [Next]_vars, LocalStep
    PROVE  SlotInv'
<1> USE DEF Waits, CommandWaits, TransferWaits, Handling, HidSetup, Described
<1>1. pc \notin Waits /\ pc' \notin Waits /\ UNCHANGED <<xfers, events>>
  BY LocalSteps
<1>2. \A j \in DOMAIN events : ~ CommandEvent(j)
  BY <1>1, NoCommand
<1>3. AnswersTrue'
  BY <1>1, <1>2 DEF AnswersTrue, CommandEvent
<1>4. CASE hlt \/ poll_hotplug \/ discover_and_init_hid_devices \/ connect_loop
  <2>1. /\ UNCHANGED <<hw, dcbaa, active>> /\ pc \notin Handling /\ pc' \notin Handling
    BY <1>4 DEF hlt, poll_hotplug, discover_and_init_hid_devices, connect_loop, owned, mainVars
  <2>2. CurrentSlot'
    BY <2>1 DEF CurrentSlot
  <2>3. SlotsTrue'
    BY <1>1, <2>1 DEF SlotInv, SlotsTrue
  <2> QED BY <1>3, <2>2, <2>3 DEF SlotInv
<1>5. CASE disconnect_loop /\ ~ (i <= Len(active) /\ active[i].port \notin snap)
  <2>1. Len(active) \in Nat /\ i \in Nat
    <3>1. Len(active) \in Nat
      BY LenProperties DEF Types, MainTypes
    <3> QED BY <3>1 DEF Types, MainTypes
  <2>2. UNCHANGED <<hw, dcbaa, active>> /\ pc' \in {"disconnect", "connect"} /\ pc = "disconnect"
    BY <1>5, <2>1 DEF disconnect_loop
  <2>3. CurrentSlot'
    BY <2>2 DEF CurrentSlot
  <2>4. SlotsTrue'
    BY <1>1, <2>2 DEF SlotInv, SlotsTrue
  <2> QED BY <1>3, <2>3, <2>4 DEF SlotInv
<1>6. CASE disconnect_loop /\ i <= Len(active) /\ active[i].port \notin snap
  <2>1. Len(active) \in Nat /\ DOMAIN active = 1 .. Len(active) /\ i \in DOMAIN active
    <3>1. Len(active) \in Nat /\ DOMAIN active = 1 .. Len(active)
      BY LenProperties DEF Types, MainTypes
    <3> QED BY <1>6, <3>1 DEF Types, MainTypes
  <2>2. /\ cur' = active[i] /\ active' = RemoveAt(active, i) /\ pc = "disconnect" /\ pc' = "disable_slot"
        /\ UNCHANGED <<hw, dcbaa>>
    BY <1>6, <2>1 DEF disconnect_loop
  <2>3. /\ DOMAIN active' = 1 .. Len(active) - 1
        /\ \A j \in DOMAIN active' : active'[j] = IF j < i THEN active[j] ELSE active[j + 1]
    BY <2>1, <2>2, EntryRemoved DEF Types, MainTypes
  <2> DEFINE old(j) == IF j < i THEN j ELSE j + 1
  <2>4. \A j \in DOMAIN active' : old(j) \in DOMAIN active /\ old(j) # i /\ active'[j] = active[old(j)]
    BY <2>1, <2>3
  <2>5. \A j, l \in DOMAIN active' : old(j) = old(l) => j = l
    BY <2>1, <2>3
  <2>6. \A j \in DOMAIN active : j # i => \E l \in DOMAIN active' : active'[l] = active[j]
    <3> SUFFICES ASSUME NEW j \in DOMAIN active, j # i
                 PROVE  \E l \in DOMAIN active' : active'[l] = active[j]
      OBVIOUS
    <3>1. CASE j < i
      BY <2>1, <2>3, <3>1
    <3>2. CASE ~ (j < i)
      <4>1. j - 1 \in DOMAIN active' /\ ~ (j - 1 < i) /\ j - 1 + 1 = j
        BY <2>1, <2>3, <3>2
      <4> QED BY <2>3, <4>1
    <3> QED BY <3>1, <3>2
  <2> HIDE DEF old
  <2>7. SlotsTrue'
    <3>1. \A j \in DOMAIN active' : active'[j].slot \in dcbaa /\ hw[active'[j].slot].st = "addressed"
                                    /\ hw[active'[j].slot].port = active'[j].port
      BY <2>4 DEF SlotInv, SlotsTrue
    <3>2. \A j, l \in DOMAIN active' : active'[j].slot = active'[l].slot => j = l
      BY <2>4, <2>5 DEF SlotInv, SlotsTrue
    <3>3. \A s \in Slots : hw[s].st = "addressed" =>
             (\E j \in DOMAIN active' : active'[j].slot = s) \/ s = cur'.slot
      <4> SUFFICES ASSUME NEW s \in Slots, hw[s].st = "addressed"
                   PROVE  (\E j \in DOMAIN active' : active'[j].slot = s) \/ s = cur'.slot
        OBVIOUS
      <4>1. PICK j \in DOMAIN active : active[j].slot = s
        BY <2>2 DEF SlotInv, SlotsTrue
      <4> QED BY <2>2, <2>6, <4>1
    <3> QED BY <1>1, <2>2, <3>1, <3>2, <3>3 DEF SlotInv, SlotsTrue
  <2>8. CurrentSlot'
    <3>1. hw[cur'.slot].st = "addressed" /\ cur'.slot \in dcbaa
      BY <2>1, <2>2 DEF SlotInv, SlotsTrue
    <3>2. \A j \in DOMAIN active' : active'[j].slot # cur'.slot
      BY <2>1, <2>2, <2>4 DEF SlotInv, SlotsTrue
    <3> QED BY <2>2, <3>1, <3>2 DEF CurrentSlot
  <2> QED BY <1>3, <2>7, <2>8 DEF SlotInv
<1>7. CASE dispatch_endpoint /\ Push
  <2>1. /\ pc \in Described /\ active' = Append(active, cur) /\ pc' = "connect"
        /\ UNCHANGED <<hw, dcbaa>>
    BY <1>7, Zenon DEF dispatch_endpoint, Push, owned
  <2>2. CurrentSlot'
    BY <2>1 DEF CurrentSlot
  <2> QED BY <1>1, <1>3, <2>1, <2>2, PushSlots DEF SlotInv
<1>8. CASE (dispatch_endpoint /\ ~ Push) \/ init_driver \/ arm_first_report
  <2>1. pc \in HidSetup /\ pc' \in HidSetup /\ UNCHANGED <<active, dcbaa>>
    BY <1>8 DEF dispatch_endpoint, init_driver, arm_first_report, owned, mainVars
  <2>2. cur'.slot = cur.slot /\ cur'.port = cur.port
    <3>1. cur' = cur \/ (cur' = [cur EXCEPT ![Head(eps).kind] = TRUE] /\ pc = "arm_first_report")
      BY <1>8 DEF dispatch_endpoint, init_driver, arm_first_report, mainVars
    <3>2. cur \in Entry /\ (pc = "arm_first_report" => Head(eps).kind \in {"keyboard", "mouse"})
      BY DEF Types, MainTypes, WithDriver, HidKinds
    <3> QED BY <3>1, <3>2 DEF Entry
  <2>3. cur.slot \in Slots /\ \A j \in DOMAIN active : active[j].slot \in Slots
    <3>1. \A j \in DOMAIN active : active[j] \in Member
      BY LenProperties DEF Types, MainTypes
    <3> QED BY <2>1, <3>1 DEF Types, MainTypes, Member
  <2>4. \A s \in Slots : hw'[s].st = hw[s].st /\ hw'[s].port = hw[s].port
    BY <1>8, SlotsKept DEF dispatch_endpoint, init_driver, arm_first_report, ExecCommand,
       ExecEnable, ExecAddress, ExecConfigure, ExecDisable, HwStep
  <2>5. CurrentSlot'
    BY <1>1, <2>1, <2>2, <2>3, <2>4 DEF SlotInv, CurrentSlot
  <2>6. SlotsTrue'
    BY <1>1, <2>1, <2>2, <2>3, <2>4 DEF SlotInv, SlotsTrue
  <2> QED BY <1>3, <2>5, <2>6 DEF SlotInv
<1> QED BY <1>4, <1>5, <1>6, <1>7, <1>8 DEF LocalStep

(* The controller executes a command. *)
LEMMA CommandSlots ==
    ASSUME Types, OneCommand, SlotInv, ExecCommand
    PROVE  SlotInv'
<1> USE DEF Waits, CommandWaits, TransferWaits, Handling, HidSetup, Described
<1> DEFINE c == Head(cmds)
<1>1. /\ cmds # <<>> /\ cmds' = Tail(cmds)
      /\ UNCHANGED <<xfers, COMPLETION, dcbaa, cur, active, pc>>
  BY CommandAnswered
<1>2. /\ c = cmds[1] /\ DOMAIN cmds = 1 .. Len(cmds) /\ Len(cmds) \in Nat \ {0}
      /\ DOMAIN cmds' = 1 .. Len(cmds) - 1 /\ cmds' \in Seq(Command)
  BY <1>1, Consumed DEF Types, QueueTypes
<1>3. /\ pc \in CommandWaits /\ ~ COMPLETION.pending
      /\ c.op = OpOf(pc) /\ c.slot = cur.slot /\ c.port = cur.port
      /\ \A j \in DOMAIN events : ~ CommandEvent(j)
  BY <1>1, <1>2 DEF OneCommand
<1>4. cmds' = <<>>
  <2>1. \A j \in DOMAIN cmds : j = 1
    BY DEF OneCommand
  <2>2. Len(cmds) \in DOMAIN cmds
    BY <1>2
  <2>3. Len(cmds) = 1
    BY <2>1, <2>2
  <2> QED BY <1>2, <2>3, EmptySeq
<1>5. /\ \A j \in DOMAIN active : active[j].slot \in Slots
      /\ pc \in Handling => cur.slot \in Slots
  <2>1. \A j \in DOMAIN active : active[j] \in Member
    BY LenProperties DEF Types, MainTypes
  <2> QED BY <2>1 DEF Types, MainTypes, Member
<1> HIDE DEF c
<1>6. ASSUME NEW e \in Message, Post(e), e.type = "command", AnswerTrue(e.ok, e.slot)'
      PROVE  AnswersTrue'
  <2>1. /\ DOMAIN events = 1 .. Len(events) /\ Len(events) \in Nat
        /\ DOMAIN events' = 1 .. Len(events) + 1
        /\ \A j \in DOMAIN events : events'[j] = events[j]
        /\ events'[Len(events) + 1] = e
    BY <1>6, EventPosted DEF Types
  <2>2. \A j \in DOMAIN events' : events'[j].type = "command" => j = Len(events) + 1
    BY <1>3, <2>1 DEF CommandEvent
  <2>3. \A j \in DOMAIN events' : events'[j].type = "command" => AnswerTrue(events[j].ok, events[j].slot)'
    <3> SUFFICES ASSUME NEW j \in DOMAIN events', events'[j].type = "command"
                 PROVE  AnswerTrue(events[j].ok, events[j].slot)'
      OBVIOUS
    <3>1. events'[j] = e
      BY <2>1, <2>2
    <3> QED BY <1>6, <3>1 DEF AnswerTrue
  <2> QED BY <1>1, <1>3, <2>3 DEF AnswersTrue, CommandEvent
<1>7. CASE ExecEnable
  <2>1. pc = "enable_slot_wait"
    BY <1>3, <1>7 DEF ExecEnable, OpOf, c
  <2>2. PICK e \in Message :
             /\ Post(e) /\ e.type = "command"
             /\ e.ok => /\ e.slot \in Slots /\ hw[e.slot].st = "disabled"
                        /\ hw'[e.slot].st = "enabled"
                        /\ \A s \in Slots : s # e.slot => hw'[s] = hw[s]
             /\ ~ e.ok => hw' = hw
    <3>1. \E e \in Message :
             /\ Post(e) /\ e.type = "command"
             /\ e.ok => /\ e.slot \in Slots /\ hw[e.slot].st = "disabled"
                        /\ hw'[e.slot] = [hw[e.slot] EXCEPT !.st = "enabled"]
                        /\ hw'[e.slot].st = "enabled" /\ hw'[e.slot].port = hw[e.slot].port
                        /\ hw'[e.slot].dev = hw[e.slot].dev /\ hw'[e.slot].ep = hw[e.slot].ep
                        /\ \A s \in Slots : s # e.slot => hw'[s] = hw[s]
             /\ ~ e.ok => hw' = hw
      BY <1>7, EnableDone
    <3> QED BY <3>1, Zenon
  <2>3. AnswersTrue'
    BY <1>1, <1>6, <2>1, <2>2 DEF AnswerTrue
  <2>4. CurrentSlot'
    BY <1>1, <2>1 DEF CurrentSlot
  <2>5. SlotsTrue'
    <3>1. \A j \in DOMAIN active : hw'[active[j].slot] = hw[active[j].slot]
      BY <1>5, <2>2 DEF SlotInv, SlotsTrue
    <3>2. \A s \in Slots : hw'[s].st = "addressed" => hw[s].st = "addressed"
      BY <2>2
    <3> QED BY <1>1, <2>1, <3>1, <3>2 DEF SlotInv, SlotsTrue
  <2> QED BY <2>3, <2>4, <2>5 DEF SlotInv
<1>8. CASE ExecAddress
  <2>1. pc = "address_device_wait"
    BY <1>3, <1>8 DEF ExecAddress, OpOf, c
  <2>2. PICK e \in Message :
                /\ Post(e) /\ e.type = "command"
                /\ e.ok => /\ hw'[cur.slot].st = "addressed" /\ hw'[cur.slot].port = cur.port
                           /\ \A s \in Slots : s # cur.slot => hw'[s] = hw[s]
                /\ ~ e.ok => hw' = hw
    <3>1. \E e \in Message :
                /\ Post(e) /\ e.type = "command"
                /\ e.ok => /\ hw[c.slot].st = "enabled" /\ attached[c.port] # NoDevice
                           /\ hw'[c.slot].st = "addressed" /\ hw'[c.slot].port = c.port
                           /\ hw'[c.slot].dev = attached[c.port] /\ hw'[c.slot].ep = hw[c.slot].ep
                           /\ \A s \in Slots : s # c.slot => hw'[s] = hw[s]
                /\ ~ e.ok => hw' = hw
      BY <1>8, AddressDone DEF c
    <3> QED BY <1>3, <3>1, Zenon
  <2>3. hw[cur.slot].st = "enabled" /\ \A j \in DOMAIN active : active[j].slot # cur.slot
    BY <1>1, <2>1 DEF SlotInv, CurrentSlot
  <2>4. AnswersTrue'
    BY <1>1, <1>6, <2>1, <2>2, <2>3 DEF AnswerTrue
  <2>5. CurrentSlot'
    BY <1>1, <1>4, <2>1, <2>3 DEF SlotInv, CurrentSlot
  <2>6. SlotsTrue'
    <3>1. \A j \in DOMAIN active : hw'[active[j].slot] = hw[active[j].slot]
      BY <1>5, <2>2, <2>3
    <3>2. \A s \in Slots : hw'[s].st = "addressed" => hw[s].st = "addressed" \/ s = cur.slot
      BY <2>2
    <3> QED BY <1>1, <2>1, <3>1, <3>2 DEF SlotInv, SlotsTrue
  <2> QED BY <2>4, <2>5, <2>6 DEF SlotInv
<1>9. CASE ExecConfigure
  <2>1. pc = "configure_endpoint_wait"
    BY <1>3, <1>9 DEF ExecConfigure, OpOf, c, CommandWaits
  <2>2. PICK e \in Message :
                /\ Post(e) /\ e.type = "command"
                /\ \A s \in Slots : hw'[s].st = hw[s].st /\ hw'[s].port = hw[s].port
    <3>1. \E e \in Message :
                /\ Post(e) /\ e.type = "command"
                /\ e.ok => /\ hw[c.slot].st = "addressed"
                           /\ hw'[c.slot].st = "addressed" /\ hw'[c.slot].port = hw[c.slot].port
                           /\ hw'[c.slot].dev = hw[c.slot].dev
                           /\ hw'[c.slot].ep[c.dci] = [st |-> "running", trbs |-> 0]
                           /\ \A d \in Dcis : d # c.dci => hw'[c.slot].ep[d] = hw[c.slot].ep[d]
                           /\ \A s \in Slots : s # c.slot => hw'[s] = hw[s]
                /\ ~ e.ok => hw' = hw
      BY <1>9, ConfigureDone DEF c
    <3> QED BY <3>1
  <2>3. AnswersTrue'
    BY <1>1, <1>6, <2>1, <2>2 DEF AnswerTrue
  <2>4. CurrentSlot'
    BY <1>1, <1>5, <2>1, <2>2 DEF SlotInv, CurrentSlot
  <2>5. SlotsTrue'
    BY <1>1, <1>5, <2>1, <2>2 DEF SlotInv, SlotsTrue
  <2> QED BY <2>3, <2>4, <2>5 DEF SlotInv
<1>10. CASE ExecDisable
  <2>1. pc = "disable_slot_wait"
    BY <1>3, <1>10 DEF ExecDisable, OpOf, c, CommandWaits
  <2>2. PICK e \in Message :
                /\ Post(e) /\ e.type = "command" /\ e.ok = (hw[cur.slot].st # "disabled")
                /\ hw'[cur.slot].st = "disabled"
                /\ \A s \in Slots : s # cur.slot => hw'[s] = hw[s]
    <3>1. \E e \in Message :
                /\ Post(e) /\ e.type = "command" /\ e.ok = (hw[c.slot].st # "disabled")
                /\ hw'[c.slot] = FreeSlot /\ hw'[c.slot].st = "disabled"
                /\ \A s \in Slots : s # c.slot => hw'[s] = hw[s]
      BY <1>10, DisableDone DEF c
    <3> QED BY <1>3, <3>1, Zenon
  <2>3. hw[cur.slot].st = "addressed" /\ \A j \in DOMAIN active : active[j].slot # cur.slot
    BY <1>1, <2>1 DEF SlotInv, CurrentSlot
  <2>4. AnswersTrue'
    BY <1>1, <1>6, <2>1, <2>2, <2>3 DEF AnswerTrue
  <2>5. CurrentSlot'
    BY <1>1, <1>4, <2>1, <2>3 DEF SlotInv, CurrentSlot
  <2>6. SlotsTrue'
    <3>1. \A j \in DOMAIN active : hw'[active[j].slot] = hw[active[j].slot]
      BY <1>5, <2>2, <2>3
    <3>2. \A s \in Slots : hw'[s].st = "addressed" => hw[s].st = "addressed"
      BY <2>2
    <3> QED BY <1>1, <2>1, <3>1, <3>2 DEF SlotInv, SlotsTrue
  <2> QED BY <2>4, <2>5, <2>6 DEF SlotInv
<1> QED BY <1>7, <1>8, <1>9, <1>10 DEF ExecCommand

(* Every step keeps slots and registry in agreement. *)
LEMMA StepSlots ==
    MaxLate = 0 /\ Types /\ OneCommand /\ SlotInv /\ [Next]_vars => SlotInv'
<1> SUFFICES ASSUME MaxLate = 0, Types, OneCommand, SlotInv, [Next]_vars PROVE SlotInv'
  OBVIOUS
<1> USE DEF Waits, CommandWaits, TransferWaits, Handling, HidSetup, Described
<1>1. \A j \in DOMAIN active : active[j].slot \in Slots
  <2>1. \A j \in DOMAIN active : active[j] \in Member
    BY LenProperties DEF Types, MainTypes
  <2> QED BY <2>1 DEF Member
<1>2. pc \in Handling => cur.slot \in Slots
  BY DEF Types, MainTypes
<1>3. CASE Interrupt
  <2>1. UNCHANGED <<cmds, xfers, dcbaa, cur, active>>
        /\ (pc' = pc \/ (pc = "halted" /\ pc' = "poll_hotplug"))
    BY <1>3, EventTaken
  <2>2. ~ ExecCommand
    <3>1. Interrupt => events' = Tail(events) /\ 1 \in DOMAIN events /\ Len(events) \in Nat
                       /\ DOMAIN events' = 1 .. Len(events) - 1 /\ DOMAIN events = 1 .. Len(events)
      BY EventTaken
    <3>2. ExecCommand => cmds # <<>> /\ cmds' = Tail(cmds)
      BY CommandAnswered
    <3>3. cmds # <<>> => cmds' # Tail(cmds)
      <4>1. cmds # <<>> => DOMAIN Tail(cmds) = 1 .. Len(cmds) - 1 /\ DOMAIN cmds = 1 .. Len(cmds)
                           /\ Len(cmds) \in Nat \ {0}
        BY Consumed DEF Types, QueueTypes
      <4>2. cmds # <<>> => Len(cmds) \in DOMAIN cmds /\ Len(cmds) \notin DOMAIN Tail(cmds)
        BY <4>1
      <4> QED BY <2>1, <4>2
    <3> QED BY <3>2, <3>3
  <2>3. \A s \in Slots : hw'[s].st = hw[s].st /\ hw'[s].port = hw[s].port
    BY <2>2, SlotsKept
  <2>4. SlotsTrue'
    BY <1>1, <1>2, <2>1, <2>3 DEF SlotInv, SlotsTrue
  <2>5. CurrentSlot'
    BY <1>1, <1>2, <2>1, <2>3 DEF SlotInv, CurrentSlot
  <2>6. \A ok, slot : AnswerTrue(ok, slot) /\ (ok /\ pc = "enable_slot_wait" => slot \in Slots)
                        => AnswerTrue(ok, slot)'
    <3> SUFFICES ASSUME NEW ok, NEW slot, AnswerTrue(ok, slot), ok /\ pc = "enable_slot_wait" => slot \in Slots
                 PROVE  AnswerTrue(ok, slot)'
      OBVIOUS
    <3>1. CASE pc' = "enable_slot_wait"
      BY <2>1, <2>3, <3>1 DEF AnswerTrue
    <3>2. CASE pc' = "address_device_wait"
      BY <1>2, <2>1, <2>3, <3>2 DEF AnswerTrue
    <3>3. CASE pc' = "disable_slot_wait"
      BY <1>2, <2>1, <2>3, <3>3 DEF AnswerTrue
    <3> QED BY <3>1, <3>2, <3>3 DEF AnswerTrue
  <2>7. \A j \in DOMAIN events : CommandEvent(j) /\ events[j].ok => events[j].slot \in Slots
    <3>1. \A j \in DOMAIN events : events[j] \in Message
      BY LenProperties DEF Types, QueueTypes
    <3> QED BY <3>1 DEF Message, CommandEvent
  <2>8. /\ 1 \in DOMAIN events
        /\ \A j \in DOMAIN events' : j + 1 \in DOMAIN events /\ events'[j] = events[j + 1]
        /\ events[1].type = "command" => /\ COMPLETION'.pending /\ COMPLETION'.ok = events[1].ok
                                         /\ COMPLETION'.slot = events[1].slot
        /\ events[1].type # "command" => COMPLETION' = COMPLETION
    BY <1>3, EventTaken
  <2>9. AnswersTrue'
    <3>1. \A j \in DOMAIN events' : CommandEvent(j)' => AnswerTrue(events[j].ok, events[j].slot)'
      <4> SUFFICES ASSUME NEW j \in DOMAIN events', events'[j].type = "command"
                   PROVE  AnswerTrue(events[j].ok, events[j].slot)'
        BY DEF CommandEvent
      <4> DEFINE m == events[j + 1]
      <4>1. AnswerTrue(m.ok, m.slot) /\ (m.ok => m.slot \in Slots) /\ events'[j] = m
        BY <2>7, <2>8 DEF SlotInv, AnswersTrue, CommandEvent
      <4> HIDE DEF m
      <4>2. AnswerTrue(events'[j].ok, events'[j].slot)
        BY <4>1
      <4> QED BY <1>2, <2>1, <2>3, <4>1, <4>2 DEF AnswerTrue
    <3>2. pc' \in CommandWaits /\ COMPLETION'.pending => AnswerTrue(COMPLETION.ok, COMPLETION.slot)'
      <4> SUFFICES ASSUME pc' \in CommandWaits, COMPLETION'.pending
                   PROVE  AnswerTrue(COMPLETION.ok, COMPLETION.slot)'
        OBVIOUS
      <4>1. pc' = pc
        BY <2>1
      <4>2. CASE events[1].type = "command"
        <5>1. AnswerTrue(events[1].ok, events[1].slot) /\ (events[1].ok => events[1].slot \in Slots)
          BY <2>7, <2>8, <4>2 DEF SlotInv, AnswersTrue, CommandEvent
        <5>2. COMPLETION'.ok = events[1].ok /\ COMPLETION'.slot = events[1].slot
          BY <2>8, <4>2
        <5> QED BY <1>2, <2>1, <2>3, <4>1, <5>1, <5>2 DEF AnswerTrue
      <4>3. CASE events[1].type # "command"
        <5>1. COMPLETION' = COMPLETION
          BY <2>8, <4>3
        <5>2. AnswerTrue(COMPLETION.ok, COMPLETION.slot) /\ (COMPLETION.ok => COMPLETION.slot \in Slots)
          BY <4>1, <5>1 DEF SlotInv, AnswersTrue, Types, QueueTypes
        <5> QED BY <1>2, <2>1, <2>3, <4>1, <5>1, <5>2 DEF AnswerTrue
      <4> QED BY <4>2, <4>3
    <3> QED BY <3>1, <3>2 DEF AnswersTrue
  <2> QED BY <2>4, <2>5, <2>9 DEF SlotInv
<1>4. CASE OtherStep /\ ~ ExecCommand
  <2>1. UNCHANGED <<cmds, COMPLETION, dcbaa, cur, active, pc>>
    BY <1>4, OtherSteps
  <2>2. \A s \in Slots : hw'[s].st = hw[s].st /\ hw'[s].port = hw[s].port
    BY <1>4, SlotsKept
  <2>3. xfers' = xfers \/ (xfers # <<>> /\ xfers' = Tail(xfers))
    BY <1>4, Zenon DEF OtherStep, ExecTransfer, Report, ReportFails, Unplug, Plug, User
  <2>4. \A j \in DOMAIN xfers' : xfers'[j].ring = xfers'[j].slot
    <3>1. CASE xfers' = xfers
      BY <3>1 DEF SlotInv, SlotsTrue
    <3>2. CASE xfers # <<>> /\ xfers' = Tail(xfers)
      <4>1. \A j \in DOMAIN xfers' : j + 1 \in DOMAIN xfers /\ xfers'[j] = xfers[j + 1]
        <5>1. /\ Len(xfers) \in Nat \ {0} /\ DOMAIN xfers = 1 .. Len(xfers)
              /\ DOMAIN xfers' = 1 .. Len(xfers) - 1
              /\ \A j \in 1 .. Len(xfers) - 1 : xfers'[j] = xfers[j + 1]
          BY <3>2, Consumed DEF Types, QueueTypes
        <5> QED BY <5>1
      <4> QED BY <4>1 DEF SlotInv, SlotsTrue
    <3> QED BY <2>3, <3>1, <3>2
  <2>5. SlotsTrue'
    BY <1>1, <1>2, <2>1, <2>2, <2>4 DEF SlotInv, SlotsTrue
  <2>6. CurrentSlot'
    BY <1>1, <1>2, <2>1, <2>2 DEF SlotInv, CurrentSlot
  <2>7. \A j \in DOMAIN events' : CommandEvent(j)' => j \in DOMAIN events /\ events'[j] = events[j]
    <3>1. CASE events' = events
      BY <3>1
    <3>2. CASE \E e \in Message : Post(e) /\ e.type # "command"
      <4>1. PICK e \in Message : Post(e) /\ e.type # "command"
        BY <3>2
      <4>2. /\ DOMAIN events = 1 .. Len(events) /\ Len(events) \in Nat
            /\ DOMAIN events' = 1 .. Len(events) + 1
            /\ \A j \in DOMAIN events : events'[j] = events[j]
            /\ events'[Len(events) + 1] = e
        BY <4>1, EventPosted DEF Types
      <4>3. \A j \in DOMAIN events' : j \in DOMAIN events \/ j = Len(events) + 1
        BY <4>2
      <4> QED BY <4>1, <4>2, <4>3 DEF CommandEvent
    <3> QED BY <1>4, <3>1, <3>2, OtherSteps
  <2>8. \A j \in DOMAIN events : CommandEvent(j) /\ events[j].ok => events[j].slot \in Slots
    <3>1. \A j \in DOMAIN events : events[j] \in Message
      BY LenProperties DEF Types, QueueTypes
    <3> QED BY <3>1 DEF Message, CommandEvent
  <2>9. AnswersTrue'
    <3>1. \A j \in DOMAIN events' : CommandEvent(j)' => AnswerTrue(events[j].ok, events[j].slot)'
      <4> SUFFICES ASSUME NEW j \in DOMAIN events', events'[j].type = "command"
                   PROVE  AnswerTrue(events[j].ok, events[j].slot)'
        BY DEF CommandEvent
      <4>1. j \in DOMAIN events /\ events'[j] = events[j] /\ CommandEvent(j)
        BY <2>7 DEF CommandEvent
      <4>2. AnswerTrue(events[j].ok, events[j].slot) /\ (events[j].ok => events[j].slot \in Slots)
        BY <2>8, <4>1 DEF SlotInv, AnswersTrue
      <4> QED BY <1>2, <2>1, <2>2, <4>1, <4>2 DEF AnswerTrue
    <3>2. pc' \in CommandWaits /\ COMPLETION'.pending => AnswerTrue(COMPLETION.ok, COMPLETION.slot)'
      <4> SUFFICES ASSUME pc \in CommandWaits, COMPLETION.pending
                   PROVE  AnswerTrue(COMPLETION.ok, COMPLETION.slot)'
        BY <2>1
      <4>1. AnswerTrue(COMPLETION.ok, COMPLETION.slot) /\ (COMPLETION.ok => COMPLETION.slot \in Slots)
        BY DEF SlotInv, AnswersTrue, Types, QueueTypes
      <4> QED BY <1>2, <2>1, <2>2, <4>1 DEF AnswerTrue
    <3> QED BY <3>1, <3>2 DEF AnswersTrue
  <2> QED BY <2>5, <2>6, <2>9 DEF SlotInv
<1>5. CASE UNCHANGED vars
  BY <1>5 DEF vars, reqVars, statics, owned, mainVars, SlotInv, SlotsTrue, CurrentSlot, AnswersTrue,
              AnswerTrue, CommandEvent
<1> QED BY <1>3, <1>4, <1>5, CallSlots, ReturnSlots, LocalSlots, CommandSlots
        DEF Next, Main, Exec, CommandCall, CommandReturn, TransferCall, TransferReturn, LocalStep,
            ExecCommand, OtherStep

(* ACTIVE_PORTS tells the truth, the controller never writes through a       *)
(* DCBAA entry that disable_slot has cleared, and control transfers go to    *)
(* the ring of their slot (mod.rs, xhci.rs), whatever users do, as long as   *)
(* no wait times out with the answer still under way (MaxLate = 0).          *)
THEOREM HotplugSlots ==
    ASSUME MaxLate = 0
    PROVE  Spec => [](RegistryTrue /\ SlotMemory)
<1> DEFINE Inv == Types /\ OneCommand /\ SlotInv
<1>1. Init => Inv
  <2> SUFFICES ASSUME Init PROVE Inv
    OBVIOUS
  <2>1. Types
    BY InitTypes
  <2>2. OneCommand
    BY DEF Init, OneCommand, CommandWaits
  <2>3. SlotInv
    BY DEF Init, SlotInv, SlotsTrue, CurrentSlot, AnswersTrue, FreeSlot, Handling, HidSetup,
           Described, CommandWaits
  <2> QED BY <2>1, <2>2, <2>3
<1>2. Inv /\ [Next]_vars => Inv'
  BY StepTypes, StepCommand, StepSlots
<1>3. Inv => RegistryTrue /\ SlotMemory
  <2> SUFFICES ASSUME Inv PROVE RegistryTrue /\ SlotMemory
    OBVIOUS
  <2>1. RegistryTrue
    BY DEF RegistryTrue, SlotInv, SlotsTrue, Types, PortsOnce
  <2>2. SlotMemory
    BY DEF SlotMemory, SlotInv, SlotsTrue, CurrentSlot
  <2> QED BY <2>1, <2>2
<1> HIDE DEF Inv
<1> QED BY <1>1, <1>2, <1>3, PTL DEF Spec

-----------------------------------------------------------------------------
(* Drivers.                                                                 *)

(* Pushing an entry keeps the others. *)
LEMMA PushKeeps ==
    ASSUME Types, active' = Append(active, cur)
    PROVE  /\ \A j \in DOMAIN active : j \in DOMAIN active' /\ active'[j] = active[j]
           /\ \E l \in DOMAIN active' : active'[l] = cur
           /\ \A l \in DOMAIN active' : active'[l] = cur \/ (l \in DOMAIN active /\ active'[l] = active[l])
<1>1. active \in Seq(Entry) /\ cur \in Entry
  BY MembersAreEntries, SeqMonotonic DEF Types, MainTypes
<1>2. /\ Len(active) \in Nat /\ DOMAIN active = 1 .. Len(active)
      /\ DOMAIN active' = 1 .. Len(active) + 1
      /\ active'[Len(active) + 1] = cur
      /\ \A j \in DOMAIN active : active'[j] = active[j]
  BY <1>1, Appended
<1>3. /\ Len(active) + 1 \in DOMAIN active' /\ \A j \in DOMAIN active : j \in DOMAIN active'
      /\ \A l \in DOMAIN active' : l \in DOMAIN active \/ l = Len(active) + 1
  BY <1>2
<1> QED BY <1>2, <1>3

(* The step of the DISCONNECT loop that removes an entry. *)
LEMMA EntryLeaves ==
    ASSUME Types, disconnect_loop, i <= Len(active), active[i].port \notin snap
    PROVE  /\ i \in DOMAIN active /\ cur' = active[i] /\ pc = "disconnect" /\ pc' = "disable_slot"
           /\ drv' = [k \in HidKinds |-> ShutDown(drv, k, active[i])]
           /\ \A j \in DOMAIN active : j # i => \E l \in DOMAIN active' : active'[l] = active[j]
           /\ \A l \in DOMAIN active' : \E j \in DOMAIN active : j # i /\ active'[l] = active[j]
<1>1. Len(active) \in Nat /\ DOMAIN active = 1 .. Len(active) /\ i \in DOMAIN active
  <2>1. Len(active) \in Nat /\ DOMAIN active = 1 .. Len(active)
    BY LenProperties DEF Types, MainTypes
  <2> QED BY <2>1 DEF Types, MainTypes
<1>2. /\ cur' = active[i] /\ active' = RemoveAt(active, i) /\ pc = "disconnect" /\ pc' = "disable_slot"
      /\ drv' = [k \in HidKinds |-> ShutDown(drv, k, active[i])]
  BY <1>1 DEF disconnect_loop
<1>3. /\ DOMAIN active' = 1 .. Len(active) - 1
      /\ \A j \in DOMAIN active' : active'[j] = IF j < i THEN active[j] ELSE active[j + 1]
  BY <1>1, <1>2, EntryRemoved DEF Types, MainTypes
<1>4. ASSUME NEW j \in DOMAIN active, j # i
      PROVE  \E l \in DOMAIN active' : active'[l] = active[j]
  <2>1. CASE j < i
    BY <1>1, <1>3, <2>1
  <2>2. CASE ~ (j < i)
    <3>1. j - 1 \in DOMAIN active' /\ ~ (j - 1 < i) /\ j - 1 + 1 = j
      BY <1>1, <1>3, <1>4, <2>2
    <3> QED BY <1>3, <3>1
  <2> QED BY <2>1, <2>2
<1>5. ASSUME NEW l \in DOMAIN active'
      PROVE  \E j \in DOMAIN active : j # i /\ active'[l] = active[j]
  <2>1. CASE l < i
    BY <1>1, <1>3, <2>1
  <2>2. CASE ~ (l < i)
    <3>1. l + 1 \in DOMAIN active /\ l + 1 # i
      BY <1>1, <1>3, <2>2
    <3> QED BY <1>3, <2>2, <3>1
  <2> QED BY <2>1, <2>2
<1> QED BY <1>1, <1>2, <1>4, <1>5

(* Outside the HID set-up no driver changes and no entry leaves. *)
LEMMA DriversStay ==
    ASSUME DriverInv, pc \notin HidSetup, pc' \notin HidSetup, drv' = drv,
           \A j \in DOMAIN active : j \in DOMAIN active' /\ active'[j] = active[j]
    PROVE  DriverInv'
  BY DEF DriverInv, DriverOwned

(* Every step leaves each driver with a slot that main knows of. *)
LEMMA StepDrivers ==
    Types /\ DriverInv /\ [Next]_vars => DriverInv'
<1> SUFFICES ASSUME Types, DriverInv, [Next]_vars PROVE DriverInv'
  OBVIOUS
<1>1. CASE UNCHANGED <<drv, active, cur, eps>> /\ (pc' = pc \/ (pc = "halted" /\ pc' = "poll_hotplug"))
  BY <1>1 DEF DriverInv, DriverOwned, Arming, HidSetup, Findable
<1>2. CASE Interrupt \/ ExecCommand \/ OtherStep \/ UNCHANGED vars
  BY <1>1, <1>2, EventTaken, CommandAnswered, OtherSteps DEF vars, owned, mainVars
<1>3. CASE \/ hlt \/ poll_hotplug \/ discover_and_init_hid_devices \/ connect_loop
           \/ disable_slot \/ disable_slot_return \/ enable_slot \/ enable_slot_return
           \/ address_device \/ address_device_return \/ get_device_descriptor
           \/ get_configuration \/ set_configuration
  <2>1. pc \notin HidSetup /\ pc' \notin HidSetup /\ drv' = drv /\ active' = active
    BY <1>3 DEF hlt, poll_hotplug, discover_and_init_hid_devices, connect_loop, disable_slot,
       disable_slot_return, enable_slot, enable_slot_return, address_device, address_device_return,
       get_device_descriptor, get_configuration, set_configuration, owned, mainVars, Call, HidSetup
  <2> QED BY <2>1, DriversStay
<1>4. CASE disconnect_loop /\ ~ (i <= Len(active) /\ active[i].port \notin snap)
  <2>1. Len(active) \in Nat /\ i \in Nat
    <3>1. Len(active) \in Nat
      BY LenProperties DEF Types, MainTypes
    <3> QED BY <3>1 DEF Types, MainTypes
  <2>2. UNCHANGED <<drv, active>> /\ pc' \in {"disconnect", "connect"} /\ pc = "disconnect"
    BY <1>4, <2>1 DEF disconnect_loop
  <2> QED BY <2>2, DriversStay DEF HidSetup
<1>5. CASE disconnect_loop /\ i <= Len(active) /\ active[i].port \notin snap
  <2>1. /\ cur' = active[i] /\ pc = "disconnect" /\ pc' = "disable_slot"
        /\ drv' = [k \in HidKinds |-> ShutDown(drv, k, active[i])]
        /\ \A j \in DOMAIN active : j # i => \E l \in DOMAIN active' : active'[l] = active[j]
    BY <1>5, EntryLeaves
  <2>2. ASSUME NEW k \in HidKinds, drv'[k].dci # 0
        PROVE  \E l \in DOMAIN active' : active'[l].slot = drv'[k].slot /\ active'[l][k]
    <3>1. drv'[k] = drv[k] /\ ~ (active[i][k] /\ drv[k].slot = active[i].slot)
      BY <2>1, <2>2 DEF ShutDown
    <3>2. PICK j \in DOMAIN active : active[j].slot = drv[k].slot /\ active[j][k]
      BY <2>1, <2>2, <3>1 DEF DriverInv, DriverOwned, HidSetup
    <3>3. j # i
      BY <3>1, <3>2
    <3> QED BY <2>1, <3>1, <3>2, <3>3
  <2> QED BY <2>1, <2>2 DEF DriverInv, DriverOwned, HidSetup
<1>6. CASE (get_device_descriptor_return \/ get_configuration_return)
           \/ (set_configuration_return /\ Push)
  <2>1. pc \notin HidSetup /\ pc' \notin HidSetup /\ drv' = drv
        /\ (active' = active \/ active' = Append(active, cur))
    BY <1>6 DEF get_device_descriptor_return, get_configuration_return, set_configuration_return,
                Push, HidSetup
  <2> QED BY <2>1, DriversStay, PushKeeps
<1>7. CASE set_configuration_return /\ ~ Push
  <2>1. pc = "set_configuration_wait" /\ pc' = "dispatch" /\ UNCHANGED <<drv, active, cur>>
    BY <1>7 DEF set_configuration_return
  <2>2. \A k \in HidKinds : drv[k].dci # 0 => Findable(k)
    BY <2>1 DEF DriverInv, DriverOwned, HidSetup, Findable
  <2>3. \A k \in HidKinds : drv[k].dci # 0 => Findable(k)'
    BY <2>1, <2>2 DEF Findable
  <2> QED BY <2>1, <2>3 DEF DriverInv, DriverOwned, Findable
<1>8. CASE (dispatch_endpoint /\ eps # <<>>) \/ configure_endpoint \/ configure_endpoint_return
           \/ set_protocol \/ set_protocol_return
  <2>1. /\ UNCHANGED <<drv, active, cur>> /\ pc \in HidSetup /\ pc # "arm_first_report"
        /\ pc' \in HidSetup /\ pc' # "arm_first_report"
    BY <1>8 DEF dispatch_endpoint, configure_endpoint, configure_endpoint_return, set_protocol,
                set_protocol_return, Call, owned, mainVars, HidSetup
  <2> QED BY <2>1 DEF DriverInv, DriverOwned, Arming, Findable
<1>9. CASE dispatch_endpoint /\ eps = <<>>
  <2>1. pc = "dispatch" /\ pc' = "connect" /\ active' = Append(active, cur) /\ drv' = drv
    BY <1>9 DEF dispatch_endpoint, Push, owned
  <2>2. /\ \A j \in DOMAIN active : j \in DOMAIN active' /\ active'[j] = active[j]
        /\ \E l \in DOMAIN active' : active'[l] = cur
    BY <2>1, PushKeeps
  <2>3. \A k \in HidKinds : drv[k].dci # 0 /\ drv[k].slot = cur.slot => cur[k] \/ Findable(k)
    BY <2>1 DEF DriverInv, Arming, HidSetup
  <2>4. \A k \in HidKinds : drv[k].dci # 0 => (drv[k].slot = cur.slot /\ cur[k]) \/ Findable(k)
    BY <2>1, <2>3 DEF DriverInv, DriverOwned, Findable
  <2>5. \A k \in HidKinds : drv[k].dci # 0 => Findable(k)'
    BY <2>1, <2>2, <2>4 DEF Findable
  <2>6. pc' \notin HidSetup
    BY <2>1 DEF HidSetup
  <2> QED BY <2>1, <2>5, <2>6 DEF DriverInv, DriverOwned, Findable
<1>10. CASE init_driver
  <2> DEFINE h == Head(eps).kind
  <2>1. /\ pc = "init_driver" /\ pc' = "arm_first_report" /\ UNCHANGED <<active, cur, eps>>
        /\ drv' = [drv EXCEPT ![h] = [dci |-> Head(eps).dci, slot |-> cur.slot]]
    BY <1>10 DEF init_driver, mainVars
  <2>2. \A k \in HidKinds : k = h \/ drv'[k] = drv[k]
    BY <2>1 DEF Types, MainTypes
  <2>3. h \in HidKinds => drv'[h].slot = cur.slot
    BY <2>1 DEF Types, MainTypes
  <2> HIDE DEF h
  <2>4. DriverOwned'
    BY <2>1, <2>2, <2>3 DEF DriverInv, DriverOwned, HidSetup
  <2>5. \A k \in HidKinds : drv'[k].dci # 0 /\ drv'[k].slot = cur'.slot
                             => cur'[k] \/ Arming(k)' \/ Findable(k)'
    BY <2>1, <2>2 DEF DriverInv, Arming, HidSetup, Findable, h
  <2> QED BY <2>4, <2>5 DEF DriverInv
<1>11. CASE arm_first_report
  <2> DEFINE h == Head(eps).kind
  <2>1. /\ pc = "arm_first_report" /\ pc' = "dispatch" /\ UNCHANGED <<active, drv>>
        /\ cur' = [cur EXCEPT ![h] = TRUE]
    BY <1>11 DEF arm_first_report, owned
  <2>2. h \in HidKinds /\ cur \in Entry
    BY <2>1 DEF Types, MainTypes, WithDriver
  <2> HIDE DEF h
  <2>3. cur'.slot = cur.slot /\ \A k \in HidKinds : cur'[k] = (cur[k] \/ k = h)
    BY <2>1, <2>2 DEF Entry, HidKinds
  <2>4. DriverOwned'
    BY <2>1, <2>3 DEF DriverInv, DriverOwned, HidSetup
  <2>5. \A k \in HidKinds : drv[k].dci # 0 /\ drv[k].slot = cur'.slot => cur'[k] \/ Findable(k)'
    BY <2>1, <2>3 DEF DriverInv, Arming, HidSetup, Findable, h
  <2> QED BY <2>1, <2>4, <2>5 DEF DriverInv
<1> QED BY <1>2, <1>3, <1>4, <1>5, <1>6, <1>7, <1>8, <1>9, <1>10, <1>11
        DEF Next, Main, Exec, ExecCommand, OtherStep

(* A driver always points at a slot of the registry, or at the one main is   *)
(* setting up, as the device of its kind: shutdown_keyboard and              *)
(* shutdown_mouse will find it (usb/mod.rs, keyboard_usb.rs, mouse_usb.rs).   *)
THEOREM HotplugDrivers == Spec => []DriverOwned
<1> DEFINE Inv == Types /\ DriverInv
<1>1. Init => Inv
  <2> SUFFICES ASSUME Init PROVE Inv
    OBVIOUS
  <2>1. Types
    BY InitTypes
  <2>2. DriverInv
    BY DEF Init, DriverInv, DriverOwned, HidSetup
  <2> QED BY <2>1, <2>2
<1>2. Inv /\ [Next]_vars => Inv'
  BY StepTypes, StepDrivers
<1>3. Inv => DriverOwned
  BY DEF DriverInv
<1> HIDE DEF Inv
<1> QED BY <1>1, <1>2, <1>3, PTL DEF Spec

-----------------------------------------------------------------------------
(* One keyboard and one mouse.                                              *)

(* The whole invariant, for users who keep to what the drivers can do. *)
Careful    == MaxLate = 0 /\ CarefulUser /\ OneOfEachKind
HotplugInv == Types /\ OneCommand /\ SlotInv /\ DriverInv /\ CarefulInv

(* The registry and the endpoints to dispatch, as sets of typed entries. *)
LEMMA ListTypes ==
    ASSUME Types
    PROVE  /\ \A j \in DOMAIN active : active[j] \in Member
           /\ \A j \in DOMAIN events : events[j] \in Message
           /\ eps # <<>> => Head(eps) \in Found /\ Head(eps) = eps[1] /\ 1 \in DOMAIN eps
           /\ \A k \in HidKinds : drv[k] \in Driver
           /\ \A s \in Slots : hw[s] \in SlotState
<1>1. /\ \A j \in DOMAIN active : active[j] \in Member
      /\ \A j \in DOMAIN events : events[j] \in Message
  BY LenProperties DEF Types, MainTypes, QueueTypes
<1>2. eps # <<>> => Head(eps) \in Found /\ Head(eps) = eps[1] /\ 1 \in DOMAIN eps
  BY Consumed DEF Types, MainTypes
<1> QED BY <1>1, <1>2 DEF Types, MainTypes, HwTypes

(* Nothing has no interface. *)
LEMMA NothingHid == HidOf(NoDevice) = {}
  BY DEF HidOf

(* Address Device gives a slot the device in its port. *)
LEMMA AddressApart ==
    ASSUME Types, OneCommand, SlotInv, HidApart, ExecAddress
    PROVE  HidApart'
<1> DEFINE c == Head(cmds)
<1>1. /\ cmds # <<>> /\ c = cmds[1] /\ 1 \in DOMAIN cmds
      /\ UNCHANGED <<attached, cur, active, pc>>
  <2>1. cmds # <<>> /\ UNCHANGED <<attached, cur, active, pc>>
    BY CommandAnswered DEF ExecCommand
  <2> QED BY <2>1, Consumed DEF Types, QueueTypes
<1>2. pc = "address_device_wait" /\ c.slot = cur.slot /\ c.port = cur.port
  BY <1>1 DEF OneCommand, ExecAddress, OpOf, CommandWaits
<1>3. c.slot \in Slots /\ c.port \in Ports
  BY AddressDone
<1>4. CASE hw' = hw
  BY <1>1, <1>4 DEF HidApart
<1>5. CASE /\ hw'[c.slot].port = c.port /\ hw'[c.slot].dev = attached[c.port]
           /\ \A s \in Slots : s # c.slot => hw'[s] = hw[s]
  <2>1. ASSUME NEW t \in Slots, t # c.slot
        PROVE  HidOf(hw[t].dev) \cap HidOf(attached[c.port]) = {}
    <3>1. CASE hw[t].port # c.port
      BY <1>3, <3>1 DEF HidApart
    <3>2. CASE hw[t].port = c.port /\ hw[t].st = "addressed"
      <4>1. PICK j \in DOMAIN active : active[j].slot = t
        BY <1>2, <2>1, <3>2 DEF SlotInv, SlotsTrue
      <4>2. active[j].port = c.port
        BY <3>2, <4>1 DEF SlotInv, SlotsTrue
      <4>3. active[j].port # cur.port
        BY <1>2 DEF Types, PortsOnce, Enumerating
      <4> QED BY <1>2, <4>2, <4>3
    <3>3. CASE hw[t].st # "addressed"
      <4>1. hw[t].dev = NoDevice
        BY <3>3 DEF Types, HwTypes
      <4> QED BY <4>1, NothingHid
    <3> QED BY <3>1, <3>2, <3>3
  <2>2. \A s, t \in Slots : s # t => HidOf(hw'[s].dev) \cap HidOf(hw'[t].dev) = {}
    <3> SUFFICES ASSUME NEW s \in Slots, NEW t \in Slots, s # t
                 PROVE  HidOf(hw'[s].dev) \cap HidOf(hw'[t].dev) = {}
      OBVIOUS
    <3>1. CASE s = c.slot
      BY <1>5, <2>1, <3>1
    <3>2. CASE t = c.slot
      BY <1>5, <2>1, <3>2
    <3>3. CASE s # c.slot /\ t # c.slot
      BY <1>5, <3>3 DEF HidApart
    <3> QED BY <3>1, <3>2, <3>3
  <2>3. \A s \in Slots, p \in Ports :
          hw'[s].port # p => HidOf(hw'[s].dev) \cap HidOf(attached[p]) = {}
    <3> SUFFICES ASSUME NEW s \in Slots, NEW p \in Ports, hw'[s].port # p
                 PROVE  HidOf(hw'[s].dev) \cap HidOf(attached[p]) = {}
      OBVIOUS
    <3>1. CASE s = c.slot
      BY <1>3, <1>5, <3>1 DEF HidApart
    <3>2. CASE s # c.slot
      BY <1>5, <3>2 DEF HidApart
    <3> QED BY <3>1, <3>2
  <2> QED BY <1>1, <2>2, <2>3 DEF HidApart
<1> QED BY <1>4, <1>5, AddressDone

(* Every step of a careful user's system keeps keyboards and mice apart. *)
LEMMA StepApart ==
    ASSUME CarefulUser, Types, OneCommand, SlotInv, HidApart, [Next]_vars
    PROVE  HidApart'
<1>1. ASSUME attached' = attached,
             \A s \in Slots : \/ hw'[s].dev = NoDevice
                              \/ hw'[s].dev = hw[s].dev /\ hw'[s].port = hw[s].port
      PROVE  HidApart'
  <2>1. \A s \in Slots : HidOf(hw'[s].dev) = {} \/
           (HidOf(hw'[s].dev) = HidOf(hw[s].dev) /\ hw'[s].port = hw[s].port)
    BY <1>1, NothingHid
  <2> QED BY <1>1, <2>1 DEF HidApart
<1>2. CASE ExecAddress
  BY <1>2, AddressApart
<1>3. CASE ExecEnable
  <2>1. \A s \in Slots : hw'[s].dev = hw[s].dev /\ hw'[s].port = hw[s].port
    BY <1>3, EnableDone
  <2>2. attached' = attached
    BY <1>3, CommandAnswered DEF ExecCommand
  <2> QED BY <1>1, <2>1, <2>2
<1>4. CASE ExecConfigure
  <2>1. \A s \in Slots : hw'[s].dev = hw[s].dev /\ hw'[s].port = hw[s].port
    BY <1>4, ConfigureDone
  <2>2. attached' = attached
    BY <1>4, CommandAnswered DEF ExecCommand
  <2> QED BY <1>1, <2>1, <2>2
<1>5. CASE ExecDisable
  <2>1. \A s \in Slots : hw'[s] = FreeSlot \/ hw'[s] = hw[s]
    BY <1>5, DisableDone
  <2>2. attached' = attached
    BY <1>5, CommandAnswered DEF ExecCommand
  <2> QED BY <1>1, <2>1, <2>2 DEF FreeSlot
<1>6. CASE ~ ExecCommand
  <2>1. \A s \in Slots : hw'[s].dev = hw[s].dev /\ hw'[s].port = hw[s].port
    BY <1>6, SlotsKept
  <2>2. CASE attached' = attached
    BY <1>1, <2>1, <2>2
  <2>3. ASSUME NEW p \in Ports, NEW d \in Devices, Plug(p, d) PROVE HidApart'
    <3>1. /\ \A q \in Ports : HidOf(attached[q]) \cap HidOf(d) = {}
          /\ \A s \in Slots : hw[s].port # p /\ HidOf(hw[s].dev) \cap HidOf(d) = {}
      BY <2>3 DEF Plug, CanPlug
    <3>2. \A q \in Ports : attached'[q] = IF q = p THEN d ELSE attached[q]
      BY <2>3 DEF Plug, Types, HwTypes
    <3> QED BY <2>1, <3>1, <3>2 DEF HidApart
  <2>4. ASSUME NEW p \in Ports, Unplug(p) PROVE HidApart'
    <3>1. \A q \in Ports : attached'[q] = IF q = p THEN NoDevice ELSE attached[q]
      BY <2>4 DEF Unplug, Types, HwTypes
    <3>2. \A q \in Ports : HidOf(attached'[q]) = {} \/ HidOf(attached'[q]) = HidOf(attached[q])
      BY <3>1, NothingHid
    <3> QED BY <2>1, <3>2 DEF HidApart
  <2>5. CASE Main
    <3>1. attached' = attached
      BY <2>5, MainLeavesPorts DEF poll_hotplug
    <3> QED BY <2>2, <3>1
  <2>6. CASE Interrupt \/ ExecTransfer \/ (\E s \in Slots, d \in Dcis : Report(s, d) \/ ReportFails(s, d))
             \/ UNCHANGED vars
    <3>1. attached' = attached
      BY <2>6, ChangesKept DEF vars, Exec
    <3> QED BY <2>2, <3>1
  <2> QED BY <1>6, <2>3, <2>4, <2>5, <2>6 DEF Next, Exec, ExecCommand
<1> QED BY <1>2, <1>3, <1>4, <1>5, <1>6 DEF ExecCommand

(* What the handler does with a transfer event: it goes to the driver it is  *)
(* for, or else to TRANSFER_COMPLETION_PENDING.                              *)
LEMMA TransferTaken ==
    ASSUME Types, Interrupt
    PROVE  LET e == events[1] IN
           /\ e.type # "transfer" => UNCHANGED <<TRANSFER, hw>>
           /\ e.type = "transfer" /\ Served(e.slot, e.dci) =>
                /\ UNCHANGED <<TRANSFER, COMPLETION>>
                /\ \E k \in HidKinds : drv[k].dci # 0 /\ drv[k].slot = e.slot /\ drv[k].dci = e.dci
                                       /\ hw' = Armed(k)
           /\ e.type = "transfer" /\ ~ Served(e.slot, e.dci) =>
                TRANSFER'.pending /\ TRANSFER'.mine = e.mine /\ UNCHANGED hw
<1> DEFINE e == events[1]
<1>1. Head(events) = e
  BY EventTaken
<1>2. Served(e.slot, e.dci) <=> \E k \in HidKinds : ForDriver(k, e)
  BY DEF Served, ForDriver
<1>3. \/ PortStatusChange(e) \/ CommandCompletion(e) \/ TransferCompletion(e)
      \/ \E k \in HidKinds : ReportFor(k, e)
  BY <1>1 DEF Interrupt
<1> HIDE DEF e
<1>4. CASE PortStatusChange(e)
  BY <1>4 DEF PortStatusChange, e
<1>5. CASE CommandCompletion(e)
  BY <1>5 DEF CommandCompletion, e
<1>6. CASE TransferCompletion(e)
  BY <1>2, <1>6 DEF TransferCompletion, e
<1>7. ASSUME NEW k \in HidKinds, ReportFor(k, e)
      PROVE  /\ e.type = "transfer" /\ Served(e.slot, e.dci) /\ UNCHANGED <<TRANSFER, COMPLETION>>
             /\ drv[k].dci # 0 /\ drv[k].slot = e.slot /\ drv[k].dci = e.dci /\ hw' = Armed(k)
  BY <1>2, <1>7 DEF ReportFor, ForDriver, statics
<1> QED BY <1>3, <1>4, <1>5, <1>6, <1>7 DEF e

(* No control transfer is under way while main does not wait for one. *)
LEMMA NoTransfer ==
    ASSUME Types, OneTransfer, pc \notin TransferWaits \/ TRANSFER.pending
    PROVE  xfers = <<>> /\ \A j \in DOMAIN events : ~ Ep0Event(j)
<1>1. xfers \in Seq(Transfer) /\ DOMAIN xfers = {}
  BY DEF OneTransfer, Types, QueueTypes
<1>2. xfers = <<>>
  BY <1>1, Consumed
<1> QED BY <1>2 DEF OneTransfer

(* Main never stops waiting for a transfer that may still be answered. *)
LEMMA TransferAnswered ==
    ASSUME Types, OneTransfer, MaxLate = 0, TransferReturn
    PROVE  xfers = <<>> /\ \A j \in DOMAIN events : ~ Ep0Event(j)
<1>1. pc \in TransferWaits /\ (TRANSFER.pending \/ (~ Owed(xfers) /\ ~ Owed(events)))
  BY TransferReturned
<1>2. CASE TRANSFER.pending
  BY <1>2, NoTransfer
<1>3. CASE ~ Owed(xfers) /\ ~ Owed(events)
  <2>1. \A j \in DOMAIN events : ~ Ep0Event(j)
    BY <1>3 DEF OneTransfer, Owed
  <2>2. xfers = <<>>
    BY <1>3, Consumed DEF OneTransfer, Owed, Types, QueueTypes
  <2> QED BY <2>1, <2>2
<1> QED BY <1>1, <1>2, <1>3

(* Every step keeps account of the control transfer under way. *)
LEMMA StepTransfer ==
    ASSUME MaxLate = 0, Types, OneTransfer, ReportsServed, [Next]_vars
    PROVE  OneTransfer'
<1> USE DEF Waits
<1>1. CASE TransferCall
  <2>1. PICK x \in Transfer : xfers' = Append(xfers, x) /\ x.mine /\ x.slot = cur.slot
    BY <1>1, TransferCalled
  <2>2. /\ pc \notin TransferWaits /\ pc' \in TransferWaits /\ TRANSFER' = NotPending
        /\ UNCHANGED <<events, cur>>
    BY <1>1, TransferCalled
  <2>3. xfers = <<>> /\ \A j \in DOMAIN events : ~ Ep0Event(j)
    BY <2>2, NoTransfer
  <2>4. xfers' = <<x>>
    BY <2>1, <2>3
  <2>5. DOMAIN xfers' = {1} /\ xfers'[1] = x
    BY <2>4
  <2>6. ~ TRANSFER'.pending
    BY <2>2 DEF NotPending
  <2> QED BY <2>1, <2>2, <2>3, <2>5, <2>6 DEF OneTransfer, Ep0Event
<1>2. CASE TransferReturn \/ CommandCall \/ CommandReturn \/ LocalStep
  <2>1. xfers = <<>> /\ \A j \in DOMAIN events : ~ Ep0Event(j)
    BY <1>2, TransferAnswered, CommandCalled, CommandReturned, LocalSteps, NoTransfer
       DEF CommandWaits, TransferWaits
  <2>2. pc' \notin TransferWaits /\ UNCHANGED <<xfers, events>>
    BY <1>2, TransferReturned, CommandCalled, CommandReturned, LocalSteps
  <2> QED BY <2>1, <2>2 DEF OneTransfer, Ep0Event
<1>3. CASE Interrupt
  <2>1. UNCHANGED <<xfers, cur>> /\ (pc' \in TransferWaits <=> pc \in TransferWaits)
    BY <1>3, EventTaken DEF TransferWaits
  <2>2. /\ 1 \in DOMAIN events /\ DOMAIN events = 1 .. Len(events) /\ Len(events) \in Nat \ {0}
        /\ DOMAIN events' = 1 .. Len(events) - 1
        /\ \A j \in DOMAIN events' : j + 1 \in DOMAIN events /\ events'[j] = events[j + 1]
    BY <1>3, EventTaken
  <2>3. ASSUME NEW j \in DOMAIN events', Ep0Event(j)'
        PROVE  /\ j + 1 \in DOMAIN events /\ Ep0Event(j + 1) /\ ~ Ep0Event(1)
               /\ events'[j].mine /\ pc \in TransferWaits /\ xfers = <<>> /\ ~ TRANSFER.pending
               /\ \A l \in DOMAIN events' : Ep0Event(l)' => l = j
    <3>1. j + 1 \in DOMAIN events /\ Ep0Event(j + 1) /\ events'[j] = events[j + 1] /\ j \in Nat /\ j # 0
      BY <2>2, <2>3 DEF Ep0Event
    <3>2. /\ events[j + 1].mine /\ pc \in TransferWaits /\ xfers = <<>> /\ ~ TRANSFER.pending
          /\ \A l \in DOMAIN events : Ep0Event(l) => l = j + 1
      BY <3>1 DEF OneTransfer
    <3>3. ASSUME NEW l \in DOMAIN events', Ep0Event(l)' PROVE l = j
      <4>1. l + 1 \in DOMAIN events /\ Ep0Event(l + 1) /\ l \in Nat
        BY <2>2, <3>3 DEF Ep0Event
      <4>2. l + 1 = j + 1
        BY <3>2, <4>1
      <4> QED BY <3>1, <4>1, <4>2
    <3>4. ~ Ep0Event(1)
      BY <2>2, <3>1, <3>2
    <3> QED BY <3>1, <3>2, <3>3, <3>4
  <2>4. CASE TRANSFER' = TRANSFER
    BY <2>1, <2>3, <2>4 DEF OneTransfer
  <2>5. CASE TRANSFER' # TRANSFER
    <3>1. /\ events[1].type = "transfer" /\ ~ Served(events[1].slot, events[1].dci)
          /\ TRANSFER'.pending /\ TRANSFER'.mine = events[1].mine
      BY <1>3, <2>5, TransferTaken
    <3>2. CASE events[1].dci = Ep0Dci
      <4>1. Ep0Event(1)
        BY <3>1, <3>2 DEF Ep0Event
      <4>2. events[1].mine /\ pc \in TransferWaits /\ xfers = <<>>
        BY <2>2, <4>1 DEF OneTransfer
      <4>3. \A j \in DOMAIN events' : ~ Ep0Event(j)'
        BY <2>3, <4>1
      <4> QED BY <2>1, <3>1, <4>2, <4>3 DEF OneTransfer
    <3>3. CASE events[1].dci # Ep0Dci
      <4>1. pc \in Disabling
        BY <2>2, <3>1, <3>3 DEF ReportsServed, MessagesServed, IsReport
      <4>2. pc \notin TransferWaits
        BY <4>1 DEF Disabling, TransferWaits
      <4>3. xfers = <<>> /\ \A j \in DOMAIN events' : ~ Ep0Event(j)'
        BY <2>3, <4>2, NoTransfer
      <4> QED BY <2>1, <4>2, <4>3 DEF OneTransfer
    <3> QED BY <3>2, <3>3
  <2> QED BY <2>4, <2>5
<1>4. ASSUME UNCHANGED <<xfers, TRANSFER, cur, pc>>, NEW e \in Message, Post(e),
             e.type # "transfer" \/ e.dci # Ep0Dci
      PROVE  OneTransfer'
  <2>1. /\ DOMAIN events = 1 .. Len(events) /\ Len(events) \in Nat
        /\ DOMAIN events' = 1 .. Len(events) + 1
        /\ \A j \in DOMAIN events : events'[j] = events[j]
        /\ events'[Len(events) + 1] = e
    BY <1>4, EventPosted DEF Types
  <2>2. \A j \in DOMAIN events' : Ep0Event(j)' => j \in DOMAIN events /\ Ep0Event(j) /\ events'[j] = events[j]
    <3>1. \A j \in DOMAIN events' : j \in DOMAIN events \/ j = Len(events) + 1
      BY <2>1
    <3> QED BY <1>4, <2>1, <3>1 DEF Ep0Event
  <2> QED BY <1>4, <2>2 DEF OneTransfer
<1>5. CASE ExecCommand
  <2>1. \E e \in Message : Post(e) /\ e.type = "command"
    BY <1>5, CommandAnswered
  <2>2. UNCHANGED <<xfers, TRANSFER, cur, pc>>
    BY <1>5, CommandAnswered
  <2> QED BY <1>4, <2>1, <2>2
<1>6. CASE ExecTransfer
  <2>1. xfers # <<>> /\ xfers' = Tail(xfers) /\ UNCHANGED <<TRANSFER, cur, pc>>
    BY <1>6, OtherSteps, Zenon DEF ExecTransfer, OtherStep
  <2>2. /\ Head(xfers) = xfers[1] /\ DOMAIN xfers = 1 .. Len(xfers) /\ 1 \in DOMAIN xfers
        /\ Len(xfers) \in Nat \ {0} /\ DOMAIN xfers' = 1 .. Len(xfers) - 1 /\ xfers' \in Seq(Transfer)
        /\ Head(xfers) \in Transfer
    BY <2>1, Consumed DEF Types, QueueTypes
  <2>3. /\ \A j \in DOMAIN xfers : j = 1
        /\ xfers[1].mine /\ pc \in TransferWaits /\ ~ TRANSFER.pending
    BY <2>2 DEF OneTransfer
  <2>4. xfers' = <<>>
    <3>1. Len(xfers) \in DOMAIN xfers
      BY <2>2
    <3>2. Len(xfers) = 1
      BY <2>3, <3>1
    <3> QED BY <2>2, <3>2, EmptySeq
  <2>5. \A j \in DOMAIN events : ~ Ep0Event(j)
    BY <2>1 DEF OneTransfer
  <2>6. CASE events' = events
    BY <2>1, <2>3, <2>4, <2>5, <2>6 DEF OneTransfer, Ep0Event
  <2>7. CASE \E ok \in BOOLEAN : Post(Event("transfer", Head(xfers).slot, Ep0Dci, ok, Head(xfers).mine))
    <3>1. PICK ok \in BOOLEAN : Post(Event("transfer", Head(xfers).slot, Ep0Dci, ok, Head(xfers).mine))
      BY <2>7
    <3> DEFINE e == Event("transfer", Head(xfers).slot, Ep0Dci, ok, Head(xfers).mine)
    <3>2. e \in Message /\ e.mine
      <4>1. \A s \in Slots : s \in 0 .. MaxSlots
        BY HubAssumption DEF Slots
      <4> QED BY <2>2, <2>3, <4>1 DEF Event, Message, Transfer
    <3> HIDE DEF e
    <3>3. /\ DOMAIN events = 1 .. Len(events) /\ Len(events) \in Nat
          /\ DOMAIN events' = 1 .. Len(events) + 1
          /\ \A j \in DOMAIN events : events'[j] = events[j]
          /\ events'[Len(events) + 1] = e
      BY <3>1, <3>2, EventPosted DEF Types, e
    <3>4. \A j \in DOMAIN events' : Ep0Event(j)' => j = Len(events) + 1
      BY <2>5, <3>3 DEF Ep0Event
    <3> QED BY <2>1, <2>3, <2>4, <3>2, <3>3, <3>4 DEF OneTransfer
  <2> QED BY <1>6, <2>6, <2>7, Zenon DEF ExecTransfer
<1>7. ASSUME NEW s \in Slots, NEW d \in Dcis, Report(s, d) \/ ReportFails(s, d)
      PROVE  OneTransfer'
  <2>1. PICK ok \in BOOLEAN : Post(Event("transfer", s, d, ok, FALSE))
    BY <1>7 DEF Report, ReportFails
  <2>2. /\ Event("transfer", s, d, ok, FALSE) \in Message
        /\ Event("transfer", s, d, ok, FALSE).dci # Ep0Dci
    BY HubAssumption, DciNumbers DEF Event, Message, Slots
  <2>3. UNCHANGED <<xfers, TRANSFER, cur, pc>>
    BY <1>7, Zenon DEF Report, ReportFails, statics, mainVars
  <2> QED BY <1>4, <2>1, <2>2, <2>3
<1>8. CASE \E p \in Ports : Unplug(p) \/ \E d \in Devices : Plug(p, d)
  <2>1. /\ events' = events \/ Post(Event("port", 0, 0, TRUE, FALSE))
        /\ UNCHANGED <<xfers, TRANSFER, cur, pc>>
    BY <1>8, Zenon DEF Unplug, Plug, PortChange, User, statics, mainVars
  <2>2. Event("port", 0, 0, TRUE, FALSE) \in Message /\ Event("port", 0, 0, TRUE, FALSE).type # "transfer"
    BY HubAssumption DEF Event, Message
  <2>3. CASE events' = events
    BY <2>1, <2>3 DEF OneTransfer, Ep0Event
  <2> QED BY <1>4, <2>1, <2>2, <2>3
<1>9. CASE UNCHANGED vars
  BY <1>9 DEF vars, reqVars, statics, mainVars, OneTransfer, Ep0Event
<1> QED BY <1>1, <1>2, <1>3, <1>5, <1>6, <1>7, <1>8, <1>9
        DEF Next, Main, Exec, CommandCall, CommandReturn, TransferCall, TransferReturn, LocalStep,
            ExecCommand

(* The command that is executed is the one main waits for. *)
LEMMA CommandIsMains ==
    ASSUME Types, OneCommand, ExecCommand
    PROVE  LET c == Head(cmds) IN
           /\ c.slot = cur.slot /\ c.port = cur.port /\ cmds' = <<>>
           /\ \A j \in DOMAIN events : ~ CommandEvent(j)
           /\ ~ COMPLETION.pending /\ pc \in CommandWaits
           /\ ExecEnable => pc = "enable_slot_wait"
           /\ ExecAddress => pc = "address_device_wait"
           /\ ExecConfigure => pc = "configure_endpoint_wait" /\ c.dci = Head(eps).dci
           /\ ExecDisable => pc = "disable_slot_wait"
<1> DEFINE c == Head(cmds)
<1>1. cmds # <<>> /\ cmds' = Tail(cmds)
  BY CommandAnswered
<1>2. /\ c = cmds[1] /\ DOMAIN cmds = 1 .. Len(cmds) /\ 1 \in DOMAIN cmds /\ Len(cmds) \in Nat \ {0}
      /\ DOMAIN cmds' = 1 .. Len(cmds) - 1 /\ cmds' \in Seq(Command)
  BY <1>1, Consumed DEF Types, QueueTypes
<1>3. /\ pc \in CommandWaits /\ ~ COMPLETION.pending
      /\ c.op = OpOf(pc) /\ c.slot = cur.slot /\ c.port = cur.port
      /\ c.op = "configure" => c.dci = Head(eps).dci
      /\ \A j \in DOMAIN events : ~ CommandEvent(j)
  BY <1>1, <1>2 DEF OneCommand
<1>4. cmds' = <<>>
  <2>1. \A j \in DOMAIN cmds : j = 1
    BY DEF OneCommand
  <2>2. Len(cmds) \in DOMAIN cmds
    BY <1>2
  <2>3. Len(cmds) = 1
    BY <2>1, <2>2
  <2> QED BY <1>2, <2>3, EmptySeq
<1>5. /\ ExecEnable => c.op = "enable"
      /\ ExecAddress => c.op = "address"
      /\ ExecConfigure => c.op = "configure"
      /\ ExecDisable => c.op = "disable"
  BY DEF ExecEnable, ExecAddress, ExecConfigure, ExecDisable
<1> HIDE DEF c
<1>6. /\ ExecEnable => pc = "enable_slot_wait"
      /\ ExecAddress => pc = "address_device_wait"
      /\ ExecConfigure => pc = "configure_endpoint_wait" /\ c.dci = Head(eps).dci
      /\ ExecDisable => pc = "disable_slot_wait"
  BY <1>3, <1>5 DEF OpOf, CommandWaits
<1> QED BY <1>3, <1>4, <1>6 DEF c

(* The device of the slot at hand, and those of the registry, stay. *)
LEMMA DevicesStay ==
    ASSUME Types, OneCommand, SlotInv, [Next]_vars
    PROVE  /\ pc \in Described => hw'[cur.slot].dev = hw[cur.slot].dev
           /\ \A j \in DOMAIN active : hw'[active[j].slot].dev = hw[active[j].slot].dev
<1>1. /\ \A j \in DOMAIN active : active[j].slot \in Slots
      /\ pc \in Described => cur.slot \in Slots
  BY ListTypes DEF Member, Types, MainTypes, Handling, Described
<1>2. CASE ~ ExecCommand
  BY <1>1, <1>2, SlotsKept
<1>3. CASE ExecEnable
  <2>1. \A s \in Slots : hw'[s].dev = hw[s].dev
    BY <1>3, EnableDone
  <2> QED BY <1>1, <2>1
<1>4. CASE ExecConfigure
  <2>1. \A s \in Slots : hw'[s].dev = hw[s].dev
    BY <1>4, ConfigureDone
  <2> QED BY <1>1, <2>1
<1>5. CASE ExecAddress \/ ExecDisable
  <2>1. pc \in {"address_device_wait", "disable_slot_wait"} /\ Head(cmds).slot = cur.slot
    BY <1>5, CommandIsMains DEF ExecCommand
  <2>2. \A s \in Slots : s # cur.slot => hw'[s] = hw[s]
    <3>1. CASE ExecAddress
      BY <2>1, <3>1, AddressDone
    <3>2. CASE ExecDisable
      BY <2>1, <3>2, DisableDone
    <3> QED BY <1>5, <3>1, <3>2
  <2>3. \A j \in DOMAIN active : active[j].slot # cur.slot
    BY <2>1 DEF SlotInv, CurrentSlot, Handling
  <2>4. pc \notin Described
    BY <2>1 DEF Described, HidSetup
  <2> QED BY <1>1, <2>2, <2>3, <2>4
<1> QED BY <1>2, <1>3, <1>4, <1>5 DEF ExecCommand

(* Steps that leave main where it is. *)
LEMMA EndpointsStay ==
    ASSUME Types, OneTransfer, EndpointsTrue, UNCHANGED <<cur, eps, drv, pc>>,
           pc \in Described => hw'[cur.slot].dev = hw[cur.slot].dev,
           buf' = buf \/ ExecTransfer
    PROVE  EndpointsTrue'
<1> USE DEF HidSetup, Described, Enumerating
<1>1. pc = "get_configuration_wait" => buf' = <<>> \/ buf' = Endpoints(hw[cur.slot].dev)
  <2>1. CASE buf' = buf
    BY <2>1 DEF EndpointsTrue
  <2>2. CASE ExecTransfer /\ buf' # buf
    <3>1. xfers # <<>> /\ buf' = Endpoints(hw[Head(xfers).slot].dev)
      BY <2>2, Zenon DEF ExecTransfer
    <3>2. Head(xfers) = xfers[1] /\ 1 \in DOMAIN xfers
      BY <3>1, Consumed DEF Types, QueueTypes
    <3>3. Head(xfers).slot = cur.slot
      BY <3>2 DEF OneTransfer
    <3> QED BY <3>1, <3>3
  <2> QED BY <2>1, <2>2
<1>2. pc = "get_configuration_wait" => buf' = <<>> \/ buf' = Endpoints(hw'[cur'.slot].dev)
  BY <1>1
<1> QED BY <1>2 DEF EndpointsTrue, Arming

(* The way to the endpoints: no driver is set up for the device yet. *)
LEMMA EndpointsFirst ==
    ASSUME Types, SlotInv, DriverInv, EndpointsTrue, OneOfEachKind, MaxLate = 0,
           \/ connect_loop \/ enable_slot \/ enable_slot_return \/ address_device
           \/ address_device_return \/ get_device_descriptor \/ get_device_descriptor_return
           \/ get_configuration \/ get_configuration_return \/ set_configuration
           \/ set_configuration_return
    PROVE  EndpointsTrue'
<1> USE DEF HidSetup, Described, Enumerating
<1> SUFFICES ASSUME pc' \in Enumerating PROVE EndpointsTrue'
  BY DEF EndpointsTrue
<1>2. CASE connect_loop
  <2>1. pc' = "enable_slot" /\ snap \ ActivePorts # {}
    BY <1>2 DEF connect_loop
  <2>2. PICK p \in snap \ ActivePorts : cur' = [NoEntry EXCEPT !.port = p]
    BY <1>2, <2>1, NextPort
  <2>3. ~ cur'["keyboard"] /\ ~ cur'["mouse"]
    BY <2>2 DEF NoEntry
  <2> QED BY <2>1, <2>3 DEF EndpointsTrue
<1>3. CASE enable_slot \/ enable_slot_return \/ address_device \/ address_device_return
           \/ get_device_descriptor \/ get_device_descriptor_return
  <2>1. /\ pc \in Enumerating \ HidSetup
        /\ pc' \in {"enable_slot_wait", "address_device", "address_device_wait",
                    "get_device_descriptor", "get_device_descriptor_wait", "get_configuration"}
        /\ cur' \in {cur, [cur EXCEPT !.slot = COMPLETION.slot]}
    BY <1>3 DEF enable_slot, enable_slot_return, address_device, address_device_return,
       get_device_descriptor, get_device_descriptor_return, Call, mainVars, Push
  <2>2. cur'["keyboard"] = cur["keyboard"] /\ cur'["mouse"] = cur["mouse"]
    BY <2>1 DEF Types, MainTypes, Entry
  <2> QED BY <2>1, <2>2 DEF EndpointsTrue
<1>4. CASE get_configuration
  <2>1. pc = "get_configuration" /\ pc' = "get_configuration_wait" /\ buf' = <<>> /\ cur' = cur
    BY <1>4 DEF get_configuration
  <2> QED BY <2>1 DEF EndpointsTrue
<1>5. CASE get_configuration_return
  <2>1. /\ pc = "get_configuration_wait" /\ pc' = "set_configuration" /\ cur' = cur
        /\ buf # <<>> /\ eps' = buf /\ hw' = hw
    BY <1>5, TransferReturned DEF get_configuration_return, Push, TransferReturn
  <2> DEFINE v == hw[cur.slot].dev
  <2>2. v \in Devices
    BY <2>1 DEF SlotInv, CurrentSlot, Types, MainTypes, HwTypes, SlotState, Handling
  <2>3. eps' = Endpoints(v)
    BY <2>1 DEF EndpointsTrue
  <2>4. hw'[cur'.slot].dev = v
    BY <2>1
  <2> HIDE DEF v
  <2>5. /\ DOMAIN eps' = DOMAIN Interfaces[v]
        /\ \A a \in DOMAIN eps' : eps'[a].kind = Interfaces[v][a] /\ eps'[a].dci = Dci(a) /\ a \in Nat
    BY <2>2, <2>3, EndpointsFound, DeviceAssumption, LenProperties
  <2>6. \A a \in DOMAIN eps' : eps'[a].kind \in HidKinds => eps'[a].kind \in HidOf(v)
    BY <2>2, <2>5, DeviceAssumption DEF HidOf, NoDevice
  <2>7. \A a, b \in DOMAIN eps' : a # b => eps'[a].dci # eps'[b].dci
    BY <2>5 DEF Dci
  <2>8. \A a, b \in DOMAIN eps' : a # b /\ eps'[a].kind = eps'[b].kind => eps'[a].kind \notin HidKinds
    BY <2>2, <2>5 DEF OneOfEachKind
  <2> QED BY <2>1, <2>4, <2>6, <2>7, <2>8 DEF EndpointsTrue
<1>6. CASE set_configuration
  <2>1. pc = "set_configuration" /\ pc' = "set_configuration_wait" /\ UNCHANGED <<cur, eps, hw>>
    BY <1>6 DEF set_configuration, Call, mainVars
  <2> QED BY <2>1 DEF EndpointsTrue
<1>7. CASE set_configuration_return
  <2>1. pc = "set_configuration_wait" /\ pc' = "dispatch" /\ UNCHANGED <<cur, eps, hw, drv>>
    BY <1>7, TransferReturned DEF set_configuration_return, Push, TransferReturn
  <2>2. \A k \in HidKinds : ~ cur[k]
    BY <2>1 DEF EndpointsTrue, HidKinds
  <2>3. \A k \in HidKinds : drv[k].dci # 0 => drv[k].slot # cur.slot
    BY <2>1 DEF DriverInv, DriverOwned, SlotInv, CurrentSlot, Handling
  <2> QED BY <2>1, <2>2, <2>3 DEF EndpointsTrue
<1> QED BY <1>2, <1>3, <1>4, <1>5, <1>6, <1>7

(* What is left to dispatch once the first endpoint is done with. *)
LEMMA RestToDispatch ==
    ASSUME Types, eps # <<>>, eps' = Tail(eps)
    PROVE  /\ Head(eps) = eps[1] /\ 1 \in DOMAIN eps
           /\ \A a \in DOMAIN eps' : a + 1 \in DOMAIN eps /\ eps'[a] = eps[a + 1] /\ a + 1 # 1
<1>1. /\ Head(eps) = eps[1] /\ 1 \in DOMAIN eps /\ DOMAIN eps = 1 .. Len(eps) /\ Len(eps) \in Nat \ {0}
      /\ DOMAIN eps' = 1 .. Len(eps) - 1
      /\ \A a \in 1 .. Len(eps) - 1 : eps'[a] = eps[a + 1]
  BY Consumed DEF Types, MainTypes
<1> QED BY <1>1

(* The dispatch of the endpoints: each kind gets the driver it has none of. *)
LEMMA EndpointsNext ==
    ASSUME Types, EndpointsTrue, hw'[cur.slot].dev = hw[cur.slot].dev,
           \/ dispatch_endpoint \/ configure_endpoint \/ configure_endpoint_return
           \/ set_protocol \/ set_protocol_return \/ init_driver \/ arm_first_report
    PROVE  EndpointsTrue'
<1> USE DEF HidSetup, Enumerating, Described
<1>1. CASE pc' = "connect"
  BY <1>1 DEF EndpointsTrue
<1>2. CASE \/ dispatch_endpoint /\ pc' = "configure_endpoint"
           \/ configure_endpoint \/ (configure_endpoint_return /\ pc' = "set_protocol")
           \/ set_protocol \/ set_protocol_return
  <2>1. /\ pc \in HidSetup \ {"arm_first_report"} /\ pc' \in HidSetup \ {"arm_first_report"}
        /\ UNCHANGED <<cur, eps, drv>>
    BY <1>2 DEF dispatch_endpoint, configure_endpoint, configure_endpoint_return, set_protocol,
                set_protocol_return, Call, mainVars, owned, Push
  <2> QED BY <2>1 DEF EndpointsTrue, Arming
<1>3. CASE \/ dispatch_endpoint /\ pc' = "dispatch"
           \/ configure_endpoint_return /\ pc' = "dispatch"
  <2>1. /\ pc \in {"dispatch", "configure_endpoint_wait"} /\ eps # <<>> /\ eps' = Tail(eps)
        /\ UNCHANGED <<cur, drv>>
    BY <1>3 DEF dispatch_endpoint, configure_endpoint_return, owned, Push, Types, MainTypes,
                WithEndpoint
  <2>2. \A a \in DOMAIN eps' : a + 1 \in DOMAIN eps /\ eps'[a] = eps[a + 1] /\ a + 1 # 1
    BY <2>1, RestToDispatch
  <2>3. \A a, b \in DOMAIN eps' : a # b => a + 1 # b + 1
    <3>1. DOMAIN eps' \subseteq Int
      BY <2>1, Consumed DEF Types, MainTypes
    <3> QED BY <3>1
  <2>4. /\ \A a \in DOMAIN eps' : eps'[a].kind \in HidKinds => eps'[a].kind \in HidOf(hw[cur.slot].dev)
        /\ \A a, b \in DOMAIN eps' :
             \/ a = b
             \/ /\ eps'[a].dci # eps'[b].dci
                /\ eps'[a].kind = eps'[b].kind => eps'[a].kind \notin HidKinds
    BY <2>1, <2>2, <2>3 DEF EndpointsTrue
  <2>5. \A k \in HidKinds : cur[k] =>
          /\ k \in HidOf(hw[cur.slot].dev) /\ drv[k].dci # 0 /\ drv[k].slot = cur.slot
          /\ \A a \in DOMAIN eps' : eps'[a].kind # k
    BY <2>1, <2>2 DEF EndpointsTrue
  <2>6. \A k \in HidKinds : drv[k].dci # 0 /\ drv[k].slot = cur.slot =>
          \A a \in DOMAIN eps' : eps'[a].dci # drv[k].dci
    BY <2>1, <2>2 DEF EndpointsTrue, Arming
  <2> QED BY <1>3, <2>1, <2>4, <2>5, <2>6 DEF EndpointsTrue
<1>4. CASE init_driver
  <2> DEFINE h == Head(eps).kind
  <2>1. /\ pc = "init_driver" /\ pc' = "arm_first_report" /\ UNCHANGED <<cur, eps>>
        /\ drv' = [drv EXCEPT ![h] = [dci |-> Head(eps).dci, slot |-> cur.slot]]
    BY <1>4 DEF init_driver, mainVars
  <2>2. h \in HidKinds /\ Head(eps) = eps[1] /\ 1 \in DOMAIN eps
    BY <2>1, ListTypes DEF Types, MainTypes, WithDriver, WithEndpoint
  <2>3. /\ drv'[h] = [dci |-> Head(eps).dci, slot |-> cur.slot]
        /\ \A k \in HidKinds : k # h => drv'[k] = drv[k]
    BY <2>1, <2>2 DEF Types, MainTypes
  <2> HIDE DEF h
  <2>4. \A k \in HidKinds : cur[k] =>
          /\ k \in HidOf(hw[cur.slot].dev) /\ drv'[k].dci # 0 /\ drv'[k].slot = cur.slot
          /\ \A a \in DOMAIN eps : eps[a].kind # k
    <3> SUFFICES ASSUME NEW k \in HidKinds, cur[k]
                 PROVE  /\ k \in HidOf(hw[cur.slot].dev) /\ drv'[k].dci # 0 /\ drv'[k].slot = cur.slot
                        /\ \A a \in DOMAIN eps : eps[a].kind # k
      OBVIOUS
    <3>1. /\ k \in HidOf(hw[cur.slot].dev) /\ drv[k].dci # 0 /\ drv[k].slot = cur.slot
          /\ \A a \in DOMAIN eps : eps[a].kind # k
      BY <2>1 DEF EndpointsTrue
    <3>2. k # h
      BY <2>2, <3>1 DEF h
    <3> QED BY <2>3, <3>1, <3>2
  <2>5. \A k \in HidKinds : drv'[k].dci # 0 /\ drv'[k].slot = cur.slot =>
          \A a \in DOMAIN eps : eps[a].dci = drv'[k].dci => a = 1 /\ k = h
    <3> SUFFICES ASSUME NEW k \in HidKinds, drv'[k].dci # 0 /\ drv'[k].slot = cur.slot,
                        NEW a \in DOMAIN eps, eps[a].dci = drv'[k].dci
                 PROVE  a = 1 /\ k = h
      OBVIOUS
    <3>1. CASE k = h
      BY <2>1, <2>2, <2>3, <3>1 DEF EndpointsTrue
    <3>2. CASE k # h
      BY <2>1, <2>3, <3>2 DEF EndpointsTrue, Arming
    <3> QED BY <3>1, <3>2
  <2>6. drv'[h] = [dci |-> Head(eps').dci, slot |-> cur'.slot] /\ h = Head(eps').kind
    BY <2>1, <2>3 DEF h
  <2>7. \A k \in HidKinds : drv'[k].dci # 0 /\ drv'[k].slot = cur'.slot =>
          \A a \in DOMAIN eps' : eps'[a].dci = drv'[k].dci => a = 1 /\ Arming(k)'
    BY <2>1, <2>5, <2>6 DEF Arming
  <2>8. /\ \A a \in DOMAIN eps' : eps'[a].kind \in HidKinds =>
                eps'[a].kind \in HidOf(hw'[cur'.slot].dev)
        /\ \A a, b \in DOMAIN eps' :
             \/ a = b
             \/ /\ eps'[a].dci # eps'[b].dci
                /\ eps'[a].kind = eps'[b].kind => eps'[a].kind \notin HidKinds
    BY <2>1 DEF EndpointsTrue
  <2>9. \A k \in HidKinds : cur'[k] =>
          /\ k \in HidOf(hw'[cur'.slot].dev) /\ drv'[k].dci # 0 /\ drv'[k].slot = cur'.slot
          /\ \A a \in DOMAIN eps' : eps'[a].kind # k
    BY <2>1, <2>4
  <2> QED BY <2>1, <2>6, <2>7, <2>8, <2>9 DEF EndpointsTrue
<1>5. CASE arm_first_report
  <2> DEFINE h == Head(eps).kind
  <2>1. /\ pc = "arm_first_report" /\ pc' = "dispatch" /\ eps' = Tail(eps) /\ drv' = drv
        /\ cur' = [cur EXCEPT ![h] = TRUE]
    BY <1>5 DEF arm_first_report, owned
  <2>2. h \in HidKinds /\ eps # <<>> /\ Head(eps) \in Found /\ cur \in Entry
    BY <2>1, ListTypes DEF Types, MainTypes, WithDriver, WithEndpoint
  <2>3. /\ Head(eps) = eps[1] /\ 1 \in DOMAIN eps
        /\ \A a \in DOMAIN eps' : a + 1 \in DOMAIN eps /\ eps'[a] = eps[a + 1] /\ a + 1 # 1
    BY <2>1, <2>2, RestToDispatch
  <2>4. \A a, b \in DOMAIN eps' : a # b => a + 1 # b + 1
    <3>1. DOMAIN eps' \subseteq Int
      BY <2>1, <2>2, Consumed DEF Types, MainTypes
    <3> QED BY <3>1
  <2>5. drv[h].dci # 0 /\ drv[h].slot = cur.slot
    BY <2>1, <2>2, DciNumbers DEF EndpointsTrue, Found
  <2> HIDE DEF h
  <2>6. cur'.slot = cur.slot /\ cur'[h] /\ \A k \in HidKinds : k # h => cur'[k] = cur[k]
    BY <2>1, <2>2 DEF Entry, HidKinds
  <2>7. /\ \A a \in DOMAIN eps' : eps'[a].kind \in HidKinds => eps'[a].kind \in HidOf(hw[cur.slot].dev)
        /\ \A a, b \in DOMAIN eps' :
             \/ a = b
             \/ /\ eps'[a].dci # eps'[b].dci
                /\ eps'[a].kind = eps'[b].kind => eps'[a].kind \notin HidKinds
    BY <2>1, <2>3, <2>4 DEF EndpointsTrue
  <2>8. \A k \in HidKinds : cur'[k] =>
          /\ k \in HidOf(hw[cur.slot].dev) /\ drv[k].dci # 0 /\ drv[k].slot = cur.slot
          /\ \A a \in DOMAIN eps' : eps'[a].kind # k
    <3> SUFFICES ASSUME NEW k \in HidKinds, cur'[k]
                 PROVE  /\ k \in HidOf(hw[cur.slot].dev) /\ drv[k].dci # 0 /\ drv[k].slot = cur.slot
                        /\ \A a \in DOMAIN eps' : eps'[a].kind # k
      OBVIOUS
    <3>1. CASE k = h
      <4>1. h = eps[1].kind
        BY <2>3 DEF h
      <4>2. h \in HidOf(hw[cur.slot].dev) /\ \A a \in DOMAIN eps : a # 1 => eps[a].kind # h
        BY <2>1, <2>2, <2>3, <4>1 DEF EndpointsTrue
      <4>3. \A a \in DOMAIN eps' : eps'[a].kind # h
        BY <2>3, <4>2
      <4> QED BY <2>5, <3>1, <4>2, <4>3
    <3>2. CASE k # h
      BY <2>1, <2>3, <2>6, <3>2 DEF EndpointsTrue
    <3> QED BY <3>1, <3>2
  <2>9. \A k \in HidKinds : drv[k].dci # 0 /\ drv[k].slot = cur.slot =>
          \A a \in DOMAIN eps' : eps'[a].dci # drv[k].dci
    BY <2>1, <2>3 DEF EndpointsTrue
  <2>10. /\ \A a \in DOMAIN eps' : eps'[a].kind \in HidKinds =>
                eps'[a].kind \in HidOf(hw'[cur'.slot].dev)
         /\ \A k \in HidKinds : cur'[k] =>
              /\ k \in HidOf(hw'[cur'.slot].dev) /\ drv'[k].dci # 0 /\ drv'[k].slot = cur'.slot
              /\ \A a \in DOMAIN eps' : eps'[a].kind # k
         /\ \A k \in HidKinds : drv'[k].dci # 0 /\ drv'[k].slot = cur'.slot =>
              \A a \in DOMAIN eps' : eps'[a].dci # drv'[k].dci
    BY <2>1, <2>6, <2>7, <2>8, <2>9
  <2> QED BY <2>1, <2>7, <2>10 DEF EndpointsTrue
<1>6. dispatch_endpoint => pc' \in {"connect", "dispatch", "configure_endpoint"}
  BY DEF dispatch_endpoint, Push
<1>7. configure_endpoint_return => pc' \in {"dispatch", "set_protocol"}
  BY DEF configure_endpoint_return
<1> QED BY <1>1, <1>2, <1>3, <1>4, <1>5, <1>6, <1>7

(* Every step leaves main with the endpoints of the device at hand. *)
LEMMA StepEndpoints ==
    ASSUME MaxLate = 0, OneOfEachKind, Types, OneCommand, SlotInv, DriverInv, OneTransfer,
           EndpointsTrue, [Next]_vars
    PROVE  EndpointsTrue'
<1>1. pc \in Described => hw'[cur.slot].dev = hw[cur.slot].dev
  BY DevicesStay
<1>2. CASE \/ connect_loop \/ enable_slot \/ enable_slot_return \/ address_device
           \/ address_device_return \/ get_device_descriptor \/ get_device_descriptor_return
           \/ get_configuration \/ get_configuration_return \/ set_configuration
           \/ set_configuration_return
  BY <1>2, EndpointsFirst
<1>3. CASE \/ dispatch_endpoint \/ configure_endpoint \/ configure_endpoint_return
           \/ set_protocol \/ set_protocol_return \/ init_driver \/ arm_first_report
  <2>1. pc \in Described
    BY <1>3 DEF dispatch_endpoint, configure_endpoint, configure_endpoint_return, set_protocol,
                set_protocol_return, init_driver, arm_first_report, Described, HidSetup
  <2> QED BY <1>1, <1>3, <2>1, EndpointsNext
<1>4. CASE pc' \notin Enumerating
  BY <1>4 DEF EndpointsTrue, Enumerating, Described, HidSetup
<1>5. CASE \/ hlt \/ poll_hotplug \/ discover_and_init_hid_devices \/ disconnect_loop
           \/ disable_slot \/ disable_slot_return
  <2>1. pc' \notin Enumerating
    BY <1>5 DEF hlt, poll_hotplug, discover_and_init_hid_devices, disconnect_loop, disable_slot,
       disable_slot_return, Enumerating, Described, HidSetup
  <2> QED BY <1>4, <2>1
<1>6. CASE pc' \in Enumerating /\ (Interrupt \/ ExecCommand \/ OtherStep \/ UNCHANGED vars)
  <2>1. UNCHANGED <<cur, eps, drv>> /\ (pc' = pc \/ (pc = "halted" /\ pc' = "poll_hotplug"))
    BY <1>6, EventTaken, CommandAnswered, OtherSteps DEF vars, owned, mainVars
  <2>2. pc' = pc
    BY <1>6, <2>1 DEF Enumerating, Described, HidSetup
  <2>3. buf' = buf \/ ExecTransfer
    <3>1. CASE Interrupt \/ ExecCommand \/ UNCHANGED vars
      BY <3>1, EventTaken, CommandAnswered DEF vars, mainVars
    <3>2. CASE OtherStep /\ ~ ExecTransfer
      BY <3>2, Zenon DEF OtherStep, Report, ReportFails, Plug, Unplug, User, mainVars
    <3> QED BY <1>6, <3>1, <3>2
  <2> QED BY <1>1, <2>1, <2>2, <2>3, EndpointsStay
<1> QED BY <1>2, <1>3, <1>4, <1>5, <1>6 DEF Next, Main, Exec, ExecCommand, OtherStep

(* Every step leaves the entries of the registry with their drivers. *)
LEMMA StepDriven ==
    ASSUME MaxLate = 0, Types, OneCommand, SlotInv, HidApart, EndpointsTrue, Driven, [Next]_vars
    PROVE  Driven'
<1> USE DEF HidSetup
<1>0. \A j \in DOMAIN active : hw'[active[j].slot].dev = hw[active[j].slot].dev
  BY DevicesStay
<1>1. ASSUME UNCHANGED <<active, drv>> PROVE Driven'
  BY <1>0, <1>1 DEF Driven
<1>2. CASE Interrupt \/ ExecCommand \/ OtherStep \/ UNCHANGED vars
  BY <1>1, <1>2, EventTaken, CommandAnswered, OtherSteps DEF vars, owned, mainVars
<1>3. CASE \/ hlt \/ poll_hotplug \/ discover_and_init_hid_devices \/ connect_loop
           \/ disable_slot \/ disable_slot_return \/ enable_slot \/ enable_slot_return
           \/ address_device \/ address_device_return \/ get_device_descriptor
           \/ get_configuration \/ set_configuration \/ configure_endpoint
           \/ configure_endpoint_return \/ set_protocol \/ set_protocol_return \/ arm_first_report
  <2>1. UNCHANGED <<active, drv>>
    BY <1>3, Zenon DEF hlt, poll_hotplug, discover_and_init_hid_devices, connect_loop, disable_slot,
       disable_slot_return, enable_slot, enable_slot_return, address_device, address_device_return,
       get_device_descriptor, get_configuration, set_configuration, configure_endpoint,
       configure_endpoint_return, set_protocol, set_protocol_return, arm_first_report, owned,
       mainVars, Call
  <2> QED BY <1>1, <2>1
<1>4. CASE \/ get_device_descriptor_return \/ get_configuration_return \/ set_configuration_return
           \/ dispatch_endpoint
  <2>1. drv' = drv /\ (active' = active \/ active' = Append(active, cur))
    BY <1>4, Zenon DEF get_device_descriptor_return, get_configuration_return, set_configuration_return,
                dispatch_endpoint, Push, owned
  <2>2. CASE active' = active
    BY <1>1, <2>1, <2>2
  <2>3. CASE active' # active
    <3>1. \A l \in DOMAIN active' : active'[l] = cur \/ (l \in DOMAIN active /\ active'[l] = active[l])
      BY <2>1, <2>3, PushKeeps
    <3>2. pc \in Described
      BY <1>4 DEF get_device_descriptor_return, get_configuration_return, set_configuration_return,
                  dispatch_endpoint, Described
    <3>3. hw'[cur.slot].dev = hw[cur.slot].dev
      BY <3>2, DevicesStay
    <3>4. \A k \in HidKinds : cur[k] =>
             drv[k].dci # 0 /\ drv[k].slot = cur.slot /\ k \in HidOf(hw[cur.slot].dev)
      BY <3>2 DEF EndpointsTrue, HidKinds, Enumerating, Described
    <3> QED BY <1>0, <2>1, <3>1, <3>3, <3>4 DEF Driven
  <2> QED BY <2>2, <2>3
<1>5. CASE disconnect_loop /\ ~ (i <= Len(active) /\ active[i].port \notin snap)
  <2>1. Len(active) \in Nat /\ i \in Nat
    <3>1. Len(active) \in Nat
      BY LenProperties DEF Types, MainTypes
    <3> QED BY <3>1 DEF Types, MainTypes
  <2>2. UNCHANGED <<drv, active>>
    BY <1>5, <2>1 DEF disconnect_loop
  <2> QED BY <1>1, <2>2
<1>6. CASE disconnect_loop /\ i <= Len(active) /\ active[i].port \notin snap
  <2>1. /\ i \in DOMAIN active
        /\ drv' = [k \in HidKinds |-> ShutDown(drv, k, active[i])]
        /\ \A l \in DOMAIN active' : \E j \in DOMAIN active : j # i /\ active'[l] = active[j]
    BY <1>6, EntryLeaves
  <2>2. \A k \in HidKinds : \/ drv'[k] = drv[k]
                            \/ drv'[k].dci = 0 /\ drv[k].slot = active[i].slot /\ drv[k].dci # 0
    BY <2>1 DEF ShutDown
  <2>3. ASSUME NEW l \in DOMAIN active', NEW k \in HidKinds, active'[l][k]
        PROVE  /\ drv'[k].dci # 0 /\ drv'[k].slot = active'[l].slot
               /\ k \in HidOf(hw'[active'[l].slot].dev)
    <3>1. PICK j \in DOMAIN active : j # i /\ active'[l] = active[j]
      BY <2>1
    <3>2. /\ drv[k].dci # 0 /\ drv[k].slot = active[j].slot
          /\ k \in HidOf(hw[active[j].slot].dev)
      BY <2>3, <3>1 DEF Driven
    <3>3. active[j].slot # active[i].slot
      BY <2>1, <3>1 DEF SlotInv, SlotsTrue
    <3> QED BY <1>0, <2>2, <3>1, <3>2, <3>3
  <2>4. drv'["keyboard"].dci # 0 => drv'["keyboard"] # drv'["mouse"]
    BY <2>2 DEF Driven, HidKinds
  <2> QED BY <2>3, <2>4 DEF Driven
<1>7. CASE init_driver
  <2> DEFINE h == Head(eps).kind
  <2>1. /\ pc = "init_driver" /\ UNCHANGED <<cur, eps, active, hw>>
        /\ drv' = [drv EXCEPT ![h] = [dci |-> Head(eps).dci, slot |-> cur.slot]]
    BY <1>7 DEF init_driver, mainVars
  <2>2. h \in HidKinds /\ Head(eps) = eps[1] /\ 1 \in DOMAIN eps
    BY <2>1, ListTypes DEF Types, MainTypes, WithDriver, WithEndpoint
  <2>3. /\ drv'[h] = [dci |-> Head(eps).dci, slot |-> cur.slot]
        /\ \A k \in HidKinds : k # h => drv'[k] = drv[k]
    BY <2>1, <2>2 DEF Types, MainTypes
  <2>4. h \in HidOf(hw[cur.slot].dev)
    BY <2>1, <2>2 DEF EndpointsTrue
  <2> HIDE DEF h
  <2>5. ASSUME NEW j \in DOMAIN active, active[j][h] PROVE FALSE
    <3>1. active[j].slot # cur.slot /\ cur.slot \in Slots /\ active[j].slot \in Slots
      BY <2>1, ListTypes DEF SlotInv, CurrentSlot, Handling, Types, MainTypes, Member
    <3>2. h \in HidOf(hw[active[j].slot].dev)
      BY <2>2, <2>5 DEF Driven
    <3> QED BY <2>4, <3>1, <3>2 DEF HidApart
  <2>6. \A k \in HidKinds : k # h => drv[k] # drv'[h]
    <3> SUFFICES ASSUME NEW k \in HidKinds, k # h, drv[k] = drv'[h] PROVE FALSE
      OBVIOUS
    <3>1. drv[k].dci = eps[1].dci /\ drv[k].slot = cur.slot /\ drv[k].dci # 0
      BY <2>1, <2>2, <2>3, ListTypes, DciNumbers DEF Found
    <3> QED BY <2>1, <2>2, <3>1 DEF EndpointsTrue, Arming
  <2>7. drv'["keyboard"] # drv'["mouse"]
    <3>1. h = "keyboard" \/ h = "mouse"
      BY <2>2 DEF HidKinds
    <3>2. CASE h = "keyboard"
      BY <2>3, <2>6, <3>2 DEF HidKinds
    <3>3. CASE h = "mouse"
      BY <2>3, <2>6, <3>3 DEF HidKinds
    <3> QED BY <3>1, <3>2, <3>3
  <2>8. \A j \in DOMAIN active' : \A k \in HidKinds : active'[j][k] =>
          /\ drv'[k].dci # 0 /\ drv'[k].slot = active'[j].slot
          /\ k \in HidOf(hw'[active'[j].slot].dev)
    BY <2>1, <2>3, <2>5 DEF Driven
  <2> QED BY <2>7, <2>8 DEF Driven
<1> QED BY <1>2, <1>3, <1>4, <1>5, <1>6, <1>7 DEF Next, Main, Exec, ExecCommand, OtherStep

(* Steps that leave the endpoints of the slots alone. *)
LEMMA EndpointsKept ==
    ASSUME Types,
           \/ ExecTransfer \/ ExecEnable \/ ExecAddress \/ UNCHANGED vars
           \/ Main /\ ~ arm_first_report
           \/ \E p \in Ports : Unplug(p) \/ \E d \in Devices : Plug(p, d)
    PROVE  \A s \in Slots : hw'[s].ep = hw[s].ep
<1> SUFFICES ASSUME NEW s \in Slots PROVE hw'[s].ep = hw[s].ep
  OBVIOUS
<1>1. hw[s] \in SlotState /\ hw \in [Slots -> SlotState]
  BY DEF Types, HwTypes
<1>2. CASE ExecTransfer
  <2>1. hw' = hw \/ hw' = [hw EXCEPT ![Head(xfers).slot] = [hw[Head(xfers).slot] EXCEPT !.ep0halted = TRUE]]
    BY <1>2 DEF ExecTransfer
  <2> QED BY <1>1, <2>1 DEF SlotState
<1>3. CASE \E p \in Ports : Unplug(p) \/ \E d \in Devices : Plug(p, d)
  <2>1. hw' = hw \/ \E p \in Ports : hw' = [t \in Slots |-> IF hw[t].port = p THEN [hw[t] EXCEPT !.alive = FALSE] ELSE hw[t]]
    BY <1>3, Zenon DEF Unplug, Plug
  <2>2. hw'[s] = hw[s] \/ hw'[s] = [hw[s] EXCEPT !.alive = FALSE]
    BY <2>1
  <2> QED BY <1>1, <2>2 DEF SlotState
<1>4. CASE ExecEnable
  BY <1>4, EnableDone
<1>5. CASE ExecAddress
  BY <1>5, AddressDone
<1>6. CASE UNCHANGED vars \/ (Main /\ ~ arm_first_report)
  <2>1. hw' = hw
    BY <1>6, Zenon DEF vars, Main, hlt, poll_hotplug, discover_and_init_hid_devices, disconnect_loop,
       connect_loop, disable_slot, disable_slot_return, enable_slot, enable_slot_return,
       address_device, address_device_return, get_device_descriptor, get_device_descriptor_return,
       get_configuration, get_configuration_return, set_configuration, set_configuration_return,
       dispatch_endpoint, configure_endpoint, configure_endpoint_return, set_protocol,
       set_protocol_return, init_driver, Call, Ret
  <2> QED BY <2>1
<1> QED BY <1>2, <1>3, <1>4, <1>5, <1>6

(* A TRB is used up and its report, or its failure, is on the event ring. *)
LEMMA Reported ==
    ASSUME Types, NEW s \in Slots, NEW d \in Dcis, Report(s, d) \/ ReportFails(s, d)
    PROVE  /\ hw[s].st = "addressed" /\ hw[s].ep[d].trbs > 0
           /\ hw'[s].ep[d].trbs = hw[s].ep[d].trbs - 1 /\ hw'[s].ep[d].st # "off"
           /\ \A t \in Slots, f \in Dcis : t # s \/ f # d => hw'[t].ep[f] = hw[t].ep[f]
           /\ \E e \in Message : Post(e) /\ e.type = "transfer" /\ e.slot = s /\ e.dci = d
           /\ UNCHANGED <<drv, cur, eps, pc, cmds, COMPLETION, active>>
<1>1. hw \in [Slots -> SlotState] /\ hw[s] \in SlotState /\ hw[s].ep \in [Dcis -> EndpointState]
      /\ hw[s].ep[d] \in EndpointState
  BY DEF Types, HwTypes, SlotState
<1>2. /\ hw[s].ep[d].st = "running" /\ hw[s].ep[d].trbs > 0
      /\ UNCHANGED <<drv, cur, eps, pc, cmds, COMPLETION, active>>
      /\ \E ok \in BOOLEAN : Post(Event("transfer", s, d, ok, FALSE))
  BY Zenon DEF Report, ReportFails, owned, mainVars, statics
<1>3. hw[s].st = "addressed"
  BY <1>2 DEF Types, HwTypes, NoEndpoint
<1>4. \E e \in Message : Post(e) /\ e.type = "transfer" /\ e.slot = s /\ e.dci = d
  <2>1. PICK ok \in BOOLEAN : Post(Event("transfer", s, d, ok, FALSE))
    BY <1>2
  <2>2. Event("transfer", s, d, ok, FALSE) \in Message
    BY HubAssumption DEF Event, Message, Slots
  <2>3. /\ Event("transfer", s, d, ok, FALSE).type = "transfer"
        /\ Event("transfer", s, d, ok, FALSE).slot = s /\ Event("transfer", s, d, ok, FALSE).dci = d
    BY DEF Event
  <2> QED BY <2>1, <2>2, <2>3
<1>5. PICK v : /\ hw' = [hw EXCEPT ![s] = [hw[s] EXCEPT !.ep = [hw[s].ep EXCEPT ![d] = v]]]
               /\ v.trbs = hw[s].ep[d].trbs - 1 /\ v.st # "off"
  <2>1. CASE Report(s, d)
    <3> DEFINE v == [hw[s].ep[d] EXCEPT !.trbs = @ - 1]
    <3>1. hw' = [hw EXCEPT ![s] = [hw[s] EXCEPT !.ep = [hw[s].ep EXCEPT ![d] = v]]]
      BY <2>1 DEF Report
    <3>2. v.trbs = hw[s].ep[d].trbs - 1 /\ v.st = "running"
      BY <1>1, <1>2 DEF EndpointState
    <3> HIDE DEF v
    <3> QED BY <3>1, <3>2
  <2>2. CASE ReportFails(s, d)
    <3> DEFINE v == [st |-> "halted", trbs |-> hw[s].ep[d].trbs - 1]
    <3>1. hw' = [hw EXCEPT ![s] = [hw[s] EXCEPT !.ep = [hw[s].ep EXCEPT ![d] = v]]]
      BY <2>2 DEF ReportFails
    <3>2. v.trbs = hw[s].ep[d].trbs - 1 /\ v.st = "halted"
      OBVIOUS
    <3> HIDE DEF v
    <3> QED BY <3>1, <3>2
  <2> QED BY <2>1, <2>2
<1>6. hw'[s].ep = [hw[s].ep EXCEPT ![d] = v] /\ \A t \in Slots : t # s => hw'[t] = hw[t]
  BY <1>1, <1>5 DEF SlotState
<1>7. hw'[s].ep[d] = v /\ \A f \in Dcis : f # d => hw'[s].ep[f] = hw[s].ep[f]
  BY <1>1, <1>6
<1>8. \A t \in Slots, f \in Dcis : t # s \/ f # d => hw'[t].ep[f] = hw[t].ep[f]
  BY <1>6, <1>7
<1> QED BY <1>2, <1>3, <1>4, <1>5, <1>7, <1>8

(* The entry point of a driver is free when init_keyboard or init_mouse      *)
(* fills it in.                                                              *)
LEMMA DriverIsFree ==
    ASSUME Types, SlotInv, DriverInv, HidApart, EndpointsTrue, Driven, init_driver
    PROVE  /\ Head(eps).kind \in HidKinds /\ drv[Head(eps).kind].dci = 0
           /\ drv'[Head(eps).kind] = [dci |-> Head(eps).dci, slot |-> cur.slot]
           /\ Head(eps).dci \in Dcis /\ Head(eps).dci # 0 /\ cur.slot \in Slots
           /\ \A k \in HidKinds : k # Head(eps).kind => drv'[k] = drv[k]
           /\ \A k \in HidKinds : drv[k].dci # 0 => ~ (drv[k].slot = cur.slot /\ drv[k].dci = Head(eps).dci)
           /\ pc = "init_driver" /\ pc' = "arm_first_report"
           /\ UNCHANGED <<cur, eps, active, hw, events, cmds, COMPLETION>>
<1> DEFINE h == Head(eps).kind
<1>1. /\ pc = "init_driver" /\ pc' = "arm_first_report"
      /\ UNCHANGED <<cur, eps, active, hw, events, cmds, COMPLETION>>
      /\ drv' = [drv EXCEPT ![h] = [dci |-> Head(eps).dci, slot |-> cur.slot]]
  BY DEF init_driver, mainVars, reqVars, statics
<1>2. h \in HidKinds /\ Head(eps) = eps[1] /\ 1 \in DOMAIN eps /\ eps[1] \in Found
  BY <1>1, ListTypes DEF Types, MainTypes, WithDriver, WithEndpoint
<1>3. Head(eps).dci \in Dcis /\ Head(eps).dci # 0 /\ cur.slot \in Slots
  BY <1>1, <1>2, DciNumbers DEF Found, Types, MainTypes, Handling, HidSetup
<1>4. /\ drv'[h] = [dci |-> Head(eps).dci, slot |-> cur.slot]
      /\ \A k \in HidKinds : k # h => drv'[k] = drv[k]
  BY <1>1, <1>2 DEF Types, MainTypes
<1>5. h \in HidOf(hw[cur.slot].dev)
  BY <1>1, <1>2 DEF EndpointsTrue, HidSetup
<1>6. ASSUME NEW j \in DOMAIN active, active[j][h] PROVE FALSE
  <2>1. active[j].slot # cur.slot /\ active[j].slot \in Slots
    BY <1>1, ListTypes DEF SlotInv, CurrentSlot, Handling, HidSetup, Member
  <2>2. h \in HidOf(hw[active[j].slot].dev)
    BY <1>2, <1>6 DEF Driven
  <2> QED BY <1>3, <1>5, <2>1, <2>2 DEF HidApart
<1>7. ~ cur[h]
  BY <1>1, <1>2 DEF EndpointsTrue, HidSetup
<1>8. drv[h].dci = 0
  BY <1>1, <1>2, <1>6, <1>7 DEF DriverInv, DriverOwned, HidSetup, Arming, Findable
<1>9. \A k \in HidKinds : drv[k].dci # 0 => ~ (drv[k].slot = cur.slot /\ drv[k].dci = Head(eps).dci)
  BY <1>1, <1>2 DEF EndpointsTrue, HidSetup, Arming
<1> QED BY <1>1, <1>2, <1>3, <1>4, <1>8, <1>9

(* Main's steps outside the disconnect of a device leave every report with a *)
(* driver.                                                                   *)
LEMMA ReportsStay ==
    ASSUME ReportsServed, pc \notin Disabling, UNCHANGED <<events, drv>>,
           \A s \in Slots : hw'[s].ep = hw[s].ep
    PROVE  ReportsServed'
  BY DEF ReportsServed, EndpointsServed, MessagesServed, Served, IsReport

(* The same for what the controller puts on the event ring besides reports. *)
LEMMA MessageServed ==
    ASSUME Types, MessagesServed, UNCHANGED <<drv, cur, pc, cmds>>, NEW e \in Message, Post(e),
           e.type = "transfer" => e.dci = Ep0Dci
    PROVE  MessagesServed'
<1>1. /\ DOMAIN events = 1 .. Len(events) /\ Len(events) \in Nat
      /\ DOMAIN events' = 1 .. Len(events) + 1
      /\ \A j \in DOMAIN events : events'[j] = events[j]
      /\ events'[Len(events) + 1] = e
  BY EventPosted DEF Types
<1>2. \A j \in DOMAIN events : j \in DOMAIN events' /\ events'[j] = events[j] /\ (CommandEvent(j)' <=> CommandEvent(j))
  BY <1>1 DEF CommandEvent
<1>3. \A j \in DOMAIN events' : IsReport(j)' => j \in DOMAIN events /\ IsReport(j)
  <2>1. \A j \in DOMAIN events' : j \in DOMAIN events \/ j = Len(events) + 1
    BY <1>1
  <2> QED BY <1>1, <2>1 DEF IsReport
<1> QED BY <1>2, <1>3 DEF MessagesServed, Served

(* Disconnecting a device: its driver lets go of the endpoint, its slot is   *)
(* disabled, and what is left of its reports is handled before the answer.   *)
LEMMA DisconnectReports ==
    ASSUME MaxLate = 0, Types, OneCommand, SlotInv, ReportsServed,
           disconnect_loop \/ disable_slot \/ disable_slot_return
    PROVE  ReportsServed'
<1> USE DEF Disabling
<1>1. CASE disconnect_loop /\ ~ (i <= Len(active) /\ active[i].port \notin snap)
  <2>1. Len(active) \in Nat /\ i \in Nat
    <3>1. Len(active) \in Nat
      BY LenProperties DEF Types, MainTypes
    <3> QED BY <3>1 DEF Types, MainTypes
  <2>2. pc = "disconnect" /\ UNCHANGED <<drv, events, hw>>
    BY <1>1, <2>1 DEF disconnect_loop, reqVars
  <2> QED BY <2>2, ReportsStay
<1>2. CASE disconnect_loop /\ i <= Len(active) /\ active[i].port \notin snap
  <2>1. /\ i \in DOMAIN active /\ cur' = active[i] /\ pc = "disconnect" /\ pc' = "disable_slot"
        /\ drv' = [k \in HidKinds |-> ShutDown(drv, k, active[i])]
    BY <1>2, EntryLeaves
  <2>2. events' = events /\ hw' = hw
    BY <1>2 DEF disconnect_loop, reqVars
  <2>3. \A s, d : Served(s, d) => Served(s, d)' \/ s = cur'.slot
    BY <2>1 DEF Served, ShutDown
  <2> QED BY <2>1, <2>2, <2>3 DEF ReportsServed, EndpointsServed, MessagesServed, IsReport
<1>3. CASE disable_slot
  <2>1. pc = "disable_slot" /\ pc' = "disable_slot_wait"
    BY <1>3 DEF disable_slot
  <2>2. PICK c \in Command : cmds' = Append(cmds, c)
    BY <1>3, CommandCalled DEF CommandCall
  <2>3. cmds' # <<>>
    BY <2>2, Appended DEF Types, QueueTypes
  <2>4. UNCHANGED <<cur, drv, hw, events>>
    BY <1>3, CommandCalled DEF CommandCall
  <2> QED BY <2>1, <2>3, <2>4 DEF ReportsServed, EndpointsServed, MessagesServed, IsReport, Served
<1>4. CASE disable_slot_return
  <2>1. pc = "disable_slot_wait" /\ COMPLETION.pending
    BY <1>4, CommandAnswerTaken DEF CommandReturn, disable_slot_return
  <2>2. cmds = <<>> /\ \A j \in DOMAIN events : ~ CommandEvent(j)
    BY <2>1, NoCommand
  <2>3. hw[cur.slot].st = "disabled"
    BY <2>1 DEF SlotInv, AnswersTrue, AnswerTrue, CommandWaits
  <2>4. \A d \in Dcis : cur.slot \in Slots => hw[cur.slot].ep[d].trbs = 0
    BY <2>3 DEF Types, HwTypes, NoEndpoint
  <2>5. UNCHANGED <<drv, hw, events>>
    BY <1>4, CommandReturned DEF CommandReturn
  <2> QED BY <2>1, <2>2, <2>4, <2>5 DEF ReportsServed, EndpointsServed, MessagesServed, IsReport, Served
<1> QED BY <1>1, <1>2, <1>3, <1>4

(* The handler: what is taken is gone, what is armed is a driver's. *)
LEMMA HandlerReports ==
    ASSUME Types, ReportsServed, Interrupt
    PROVE  ReportsServed'
<1>1. /\ DOMAIN events = 1 .. Len(events) /\ Len(events) \in Nat \ {0}
      /\ DOMAIN events' = 1 .. Len(events) - 1
      /\ \A j \in DOMAIN events' : j + 1 \in DOMAIN events /\ events'[j] = events[j + 1]
      /\ UNCHANGED <<cmds, drv, cur>> /\ (pc' = pc \/ (pc = "halted" /\ pc' = "poll_hotplug"))
  BY EventTaken
<1>2. /\ pc \in Disabling <=> pc' \in Disabling
      /\ pc = "disable_slot_wait" <=> pc' = "disable_slot_wait"
  BY <1>1 DEF Disabling
<1>3. \A s, d : Served(s, d)' <=> Served(s, d)
  BY <1>1 DEF Served
<1>4. hw' = hw \/ \E k \in HidKinds : hw' = Armed(k)
  BY DEF Interrupt, PortStatusChange, CommandCompletion, TransferCompletion, ReportFor
<1>5. EndpointsServed'
  <2>1. CASE hw' = hw
    BY <1>1, <1>2, <1>3, <2>1 DEF ReportsServed, EndpointsServed
  <2>2. ASSUME NEW k \in HidKinds, hw' = Armed(k) PROVE EndpointsServed'
    <3>1. \A s \in Slots, d \in Dcis : hw'[s].ep[d] = hw[s].ep[d] \/ Served(s, d)
      <4> SUFFICES ASSUME NEW s \in Slots, NEW d \in Dcis, hw'[s].ep[d] # hw[s].ep[d]
                   PROVE  Served(s, d)
        OBVIOUS
      <4>1. drv[k].dci # 0 /\ s = drv[k].slot /\ d = drv[k].dci
        BY <2>2, ArmedTypes
      <4> QED BY <4>1 DEF Served
    <3> QED BY <1>1, <1>2, <1>3, <3>1 DEF ReportsServed, EndpointsServed
  <2> QED BY <1>4, <2>1, <2>2
<1>6. ASSUME NEW j \in DOMAIN events', IsReport(j)'
      PROVE  \/ Served(events'[j].slot, events'[j].dci)
             \/ /\ pc \in Disabling /\ events'[j].slot = cur.slot
                /\ pc = "disable_slot_wait" /\ cmds = <<>> =>
                      \E l \in DOMAIN events' : CommandEvent(l)' /\ l > j
  <2>1. j + 1 \in DOMAIN events /\ events'[j] = events[j + 1] /\ IsReport(j + 1) /\ j \in Nat
    BY <1>1, <1>6 DEF IsReport
  <2>2. ASSUME NEW l \in DOMAIN events, CommandEvent(l), l > j + 1
        PROVE  \E m \in DOMAIN events' : CommandEvent(m)' /\ m > j
    <3>1. l - 1 \in DOMAIN events' /\ l - 1 > j /\ l - 1 + 1 = l
      BY <1>1, <2>1, <2>2
    <3>2. events'[l - 1] = events[l]
      BY <1>1, <3>1
    <3> QED BY <2>2, <3>1, <3>2 DEF CommandEvent
  <2> QED BY <2>1, <2>2 DEF ReportsServed, MessagesServed
<1>7. MessagesServed'
  BY <1>1, <1>2, <1>3, <1>6 DEF MessagesServed
<1> QED BY <1>5, <1>7 DEF ReportsServed

(* The controller executes a command. *)
LEMMA CommandReports ==
    ASSUME Types, OneCommand, ReportsServed, ExecCommand
    PROVE  ReportsServed'
<1>1. /\ pc \in CommandWaits /\ Head(cmds).slot = cur.slot /\ cmds' = <<>>
      /\ pc \in Disabling => pc = "disable_slot_wait"
      /\ ~ ExecDisable => pc \notin Disabling
  BY CommandIsMains DEF ExecCommand, CommandWaits, Disabling
<1>2. UNCHANGED <<drv, cur, pc>>
  BY CommandAnswered
<1>3. PICK e \in Message : Post(e) /\ e.type = "command"
  BY CommandAnswered
<1>4. /\ DOMAIN events = 1 .. Len(events) /\ Len(events) \in Nat
      /\ DOMAIN events' = 1 .. Len(events) + 1
      /\ \A j \in DOMAIN events : events'[j] = events[j]
      /\ events'[Len(events) + 1] = e
  BY <1>3, EventPosted DEF Types
<1>5. PICK n \in DOMAIN events' : events'[n] = e /\ \A j \in DOMAIN events : n > j
  BY <1>4
<1>6. MessagesServed'
  <2> SUFFICES ASSUME NEW j \in DOMAIN events', IsReport(j)'
               PROVE  \/ Served(events'[j].slot, events'[j].dci)
                      \/ /\ pc \in Disabling /\ events'[j].slot = cur.slot
                         /\ \E l \in DOMAIN events' : CommandEvent(l)' /\ l > j
    BY <1>2 DEF MessagesServed, Served
  <2>1. CommandEvent(n)'
    BY <1>3, <1>5 DEF CommandEvent
  <2>2. j \in DOMAIN events \/ events'[j] = e
    BY <1>4
  <2>3. j \in DOMAIN events /\ events'[j] = events[j] /\ IsReport(j)
    BY <1>3, <1>4, <2>2 DEF IsReport
  <2>4. n > j
    BY <1>5, <2>3
  <2> QED BY <2>1, <2>3, <2>4 DEF ReportsServed, MessagesServed
<1>7. \A s \in Slots, d \in Dcis : hw'[s].ep[d] = hw[s].ep[d] \/ hw'[s].ep[d].trbs = 0
  <2>1. CASE ExecEnable
    <3>1. \A s \in Slots : hw'[s].ep = hw[s].ep
      BY <2>1, EnableDone
    <3> QED BY <3>1
  <2>2. CASE ExecAddress
    <3>1. \A s \in Slots : hw'[s].ep = hw[s].ep
      BY <2>2, AddressDone
    <3> QED BY <3>1
  <2>3. CASE ExecConfigure
    BY <2>3, ConfigureDone
  <2>4. CASE ExecDisable
    <3>1. \A d \in Dcis : FreeSlot.ep[d].trbs = 0
      BY DEF FreeSlot, NoEndpoint
    <3>2. \A s \in Slots : hw'[s] = hw[s] \/ hw'[s] = FreeSlot
      BY <2>4, DisableDone
    <3> QED BY <3>1, <3>2
  <2> QED BY <2>1, <2>2, <2>3, <2>4 DEF ExecCommand
<1>8. EndpointsServed'
  BY <1>2, <1>7 DEF ReportsServed, EndpointsServed, Served
<1> QED BY <1>6, <1>8 DEF ReportsServed

(* The events of EP0 and of the ports. *)
LEMMA AnswerOrChange ==
    ASSUME Types, ExecTransfer \/ \E p \in Ports : Unplug(p) \/ \E d \in Devices : Plug(p, d)
    PROVE  \/ events' = events
           \/ \E e \in Message : Post(e) /\ (e.type = "transfer" => e.dci = Ep0Dci)
<1>1. CASE ExecTransfer
  <2>1. xfers # <<>> /\ (events' = events \/
           \E ok \in BOOLEAN : Post(Event("transfer", Head(xfers).slot, Ep0Dci, ok, Head(xfers).mine)))
    BY <1>1, Zenon DEF ExecTransfer
  <2>2. Head(xfers) \in Transfer
    BY <2>1, Consumed DEF Types, QueueTypes
  <2>3. \A s \in Slots : s \in 0 .. MaxSlots
    BY HubAssumption DEF Slots
  <2>4. \A ok \in BOOLEAN : LET e == Event("transfer", Head(xfers).slot, Ep0Dci, ok, Head(xfers).mine)
                            IN  e \in Message /\ e.dci = Ep0Dci
    BY <2>2, <2>3 DEF Event, Message, Transfer
  <2> QED BY <2>1, <2>4
<1>2. CASE \E p \in Ports : Unplug(p) \/ \E d \in Devices : Plug(p, d)
  <2>1. events' = events \/ Post(Event("port", 0, 0, TRUE, FALSE))
    BY <1>2, Zenon DEF Unplug, Plug, PortChange
  <2>2. Event("port", 0, 0, TRUE, FALSE) \in Message /\ Event("port", 0, 0, TRUE, FALSE).type # "transfer"
    BY HubAssumption DEF Event, Message
  <2> QED BY <2>1, <2>2
<1> QED BY <1>1, <1>2

(* Every step leaves the reports under way, and the endpoints that may still *)
(* report, with a driver or with the slot that is being disabled.            *)
LEMMA StepReports ==
    ASSUME MaxLate = 0, Types, OneCommand, SlotInv, DriverInv, HidApart, EndpointsTrue, Driven,
           ReportsServed, [Next]_vars
    PROVE  ReportsServed'
<1>1. CASE disconnect_loop \/ disable_slot \/ disable_slot_return
  BY <1>1, DisconnectReports
<1>2. CASE Interrupt
  BY <1>2, HandlerReports
<1>3. CASE ExecCommand
  BY <1>3, CommandReports
<1>4. CASE init_driver
  <2>1. /\ drv[Head(eps).kind].dci = 0 /\ \A k \in HidKinds : k # Head(eps).kind => drv'[k] = drv[k]
        /\ pc = "init_driver" /\ UNCHANGED <<hw, events>>
    BY <1>4, DriverIsFree
  <2>2. \A s, d : Served(s, d) => Served(s, d)'
    BY <2>1 DEF Served
  <2> QED BY <2>1, <2>2 DEF ReportsServed, EndpointsServed, MessagesServed, IsReport, Disabling
<1>5. CASE arm_first_report
  <2> DEFINE h == Head(eps).kind
  <2>1. pc = "arm_first_report" /\ hw' = Armed(h) /\ UNCHANGED <<events, drv>>
    BY <1>5 DEF arm_first_report, owned, reqVars
  <2>2. h \in HidKinds
    BY <2>1 DEF Types, MainTypes, WithDriver
  <2> HIDE DEF h
  <2>3. \A s \in Slots, d \in Dcis : hw'[s].ep[d] = hw[s].ep[d] \/ Served(s, d)
    <3> SUFFICES ASSUME NEW s \in Slots, NEW d \in Dcis, hw'[s].ep[d] # hw[s].ep[d]
                 PROVE  Served(s, d)
      OBVIOUS
    <3>1. drv[h].dci # 0 /\ s = drv[h].slot /\ d = drv[h].dci
      BY <2>1, <2>2, ArmedTypes
    <3> QED BY <2>2, <3>1 DEF Served
  <2> QED BY <2>1, <2>3 DEF ReportsServed, EndpointsServed, MessagesServed, IsReport, Served, Disabling
<1>6. CASE \/ hlt \/ poll_hotplug \/ discover_and_init_hid_devices \/ connect_loop \/ dispatch_endpoint
  <2>1. pc \notin Disabling /\ UNCHANGED <<events, drv, hw>>
    BY <1>6 DEF hlt, poll_hotplug, discover_and_init_hid_devices, connect_loop, dispatch_endpoint,
                Disabling, reqVars, owned
  <2> QED BY <2>1, ReportsStay
<1>7. CASE enable_slot \/ address_device \/ configure_endpoint \/ TransferCall
  <2>1. pc \notin Disabling
    BY <1>7 DEF enable_slot, address_device, configure_endpoint, TransferCall, get_device_descriptor,
                get_configuration, set_configuration, set_protocol, Disabling
  <2>2. UNCHANGED <<events, drv, hw>>
    BY <1>7, CommandCalled, TransferCalled DEF CommandCall
  <2> QED BY <2>1, <2>2, ReportsStay
<1>8. CASE enable_slot_return \/ address_device_return \/ configure_endpoint_return \/ TransferReturn
  <2>1. pc \notin Disabling
    BY <1>8 DEF enable_slot_return, address_device_return, configure_endpoint_return, TransferReturn,
                get_device_descriptor_return, get_configuration_return, set_configuration_return,
                set_protocol_return, Disabling
  <2>2. UNCHANGED <<events, drv, hw>>
    BY <1>8, CommandReturned, TransferReturned DEF CommandReturn
  <2> QED BY <2>1, <2>2, ReportsStay
<1>9. ASSUME NEW s \in Slots, NEW d \in Dcis, Report(s, d) \/ ReportFails(s, d)
      PROVE  ReportsServed'
  <2>1. /\ hw[s].st = "addressed" /\ hw[s].ep[d].trbs > 0
        /\ \A t \in Slots, f \in Dcis : t # s \/ f # d => hw'[t].ep[f] = hw[t].ep[f]
        /\ UNCHANGED <<drv, cur, eps, pc, cmds, COMPLETION, active>>
    BY <1>9, Reported
  <2>2. Served(s, d) \/ (pc \in Disabling /\ s = cur.slot)
    BY <2>1 DEF ReportsServed, EndpointsServed
  <2>3. EndpointsServed'
    BY <2>1, <2>2 DEF ReportsServed, EndpointsServed, Served
  <2>4. ~ (pc = "disable_slot_wait" /\ cmds = <<>> /\ s = cur.slot)
    <3> SUFFICES ASSUME pc = "disable_slot_wait", cmds = <<>>, s = cur.slot PROVE FALSE
      OBVIOUS
    <3>1. COMPLETION.pending \/ \E j \in DOMAIN events : CommandEvent(j)
      BY DEF OneCommand, CommandWaits
    <3>2. hw[cur.slot].st = "disabled"
      BY <3>1 DEF SlotInv, AnswersTrue, AnswerTrue, CommandWaits
    <3> QED BY <2>1, <3>2
  <2>5. PICK e \in Message : Post(e) /\ e.type = "transfer" /\ e.slot = s /\ e.dci = d
    BY <1>9, Reported
  <2>6. /\ DOMAIN events = 1 .. Len(events) /\ Len(events) \in Nat
        /\ DOMAIN events' = 1 .. Len(events) + 1
        /\ \A j \in DOMAIN events : events'[j] = events[j]
        /\ events'[Len(events) + 1] = e
    BY <2>5, EventPosted DEF Types
  <2>7. \A j \in DOMAIN events' : j \in DOMAIN events \/ events'[j] = e
    BY <2>6
  <2>8. \A j \in DOMAIN events : j \in DOMAIN events' /\ events'[j] = events[j]
    BY <2>6
  <2>9. MessagesServed'
    BY <2>1, <2>2, <2>4, <2>5, <2>7, <2>8
       DEF ReportsServed, MessagesServed, Served, IsReport, CommandEvent
  <2> QED BY <2>3, <2>9 DEF ReportsServed
<1>10. CASE ExecTransfer \/ \E p \in Ports : Unplug(p) \/ \E d \in Devices : Plug(p, d)
  <2>1. UNCHANGED <<cmds, drv, cur, pc>>
    BY <1>10, OtherSteps DEF OtherStep
  <2>2. EndpointsServed'
    <3>1. \A s \in Slots : hw'[s].ep = hw[s].ep
      BY <1>10, EndpointsKept
    <3> QED BY <2>1, <3>1 DEF ReportsServed, EndpointsServed, Served
  <2>3. \/ events' = events
        \/ \E e \in Message : Post(e) /\ (e.type = "transfer" => e.dci = Ep0Dci)
    BY <1>10, AnswerOrChange
  <2>4. MessagesServed'
    <3>1. CASE events' = events
      BY <2>1, <3>1 DEF ReportsServed, MessagesServed, Served, IsReport, CommandEvent
    <3>2. CASE events' # events
      BY <2>1, <2>3, <3>2, MessageServed DEF ReportsServed
    <3> QED BY <3>1, <3>2
  <2> QED BY <2>2, <2>4 DEF ReportsServed
<1>11. CASE UNCHANGED vars
  BY <1>11 DEF vars, reqVars, owned, mainVars, ReportsServed, EndpointsServed, MessagesServed, Served,
               IsReport, CommandEvent
<1> QED BY <1>1, <1>2, <1>3, <1>4, <1>5, <1>6, <1>7, <1>8, <1>9, <1>10, <1>11
        DEF Next, Main, Exec, ExecCommand, TransferCall, TransferReturn

(* An endpoint that the controller has stays until its slot is disabled. *)
LEMMA OnStays ==
    ASSUME Types, OneCommand, [Next]_vars, NEW s \in Slots, NEW d \in Dcis,
           hw[s].ep[d].st # "off", ~ (pc = "disable_slot_wait" /\ s = cur.slot)
    PROVE  hw'[s].ep[d].st # "off"
<1>1. ASSUME NEW k \in HidKinds, hw' = Armed(k) PROVE hw'[s].ep[d].st # "off"
  <2>1. hw[s].ep[d] \in EndpointState
    BY DEF Types, HwTypes, SlotState
  <2>2. [hw[s].ep[d] EXCEPT !.trbs = @ + 1].st = hw[s].ep[d].st
    BY <2>1 DEF EndpointState
  <2>3. hw'[s].ep[d] = hw[s].ep[d] \/ hw'[s].ep[d] = [hw[s].ep[d] EXCEPT !.trbs = @ + 1]
    BY <1>1, ArmedTypes
  <2> QED BY <2>2, <2>3
<1>2. CASE arm_first_report
  <2>1. Head(eps).kind \in HidKinds /\ hw' = Armed(Head(eps).kind)
    BY <1>2 DEF arm_first_report, Types, MainTypes, WithDriver
  <2> QED BY <1>1, <2>1
<1>3. CASE Interrupt
  <2>1. hw' = hw \/ \E k \in HidKinds : hw' = Armed(k)
    BY <1>3 DEF Interrupt, PortStatusChange, CommandCompletion, TransferCompletion, ReportFor
  <2> QED BY <1>1, <2>1
<1>4. CASE ExecConfigure
  BY <1>4, ConfigureDone
<1>5. CASE ExecDisable
  BY <1>5, DisableDone, CommandIsMains DEF ExecCommand
<1>6. ASSUME NEW t \in Slots, NEW f \in Dcis, Report(t, f) \/ ReportFails(t, f)
      PROVE  hw'[s].ep[d].st # "off"
  BY <1>6, Reported
<1>7. CASE \/ ExecTransfer \/ ExecEnable \/ ExecAddress \/ UNCHANGED vars
           \/ Main /\ ~ arm_first_report
           \/ \E p \in Ports : Unplug(p) \/ \E v \in Devices : Plug(p, v)
  <2>1. hw'[s].ep = hw[s].ep
    BY <1>7, EndpointsKept
  <2> QED BY <2>1
<1> QED BY <1>2, <1>3, <1>4, <1>5, <1>6, <1>7 DEF Next, Exec

(* Every step of main keeps the endpoint of the driver it sets up. *)
LEMMA MainEndpointOn ==
    ASSUME MaxLate = 0, Types, OneCommand, EndpointOn, Main
    PROVE  EndpointOn'
<1> USE DEF WithDriver
<1>1. CASE configure_endpoint
  <2>1. /\ pc' = "configure_endpoint_wait" /\ pc \notin CommandWaits /\ ~ COMPLETION'.pending
        /\ events' = events
    BY <1>1, CommandCalled DEF CommandCall, configure_endpoint, Waits, NotPending
  <2>2. \A j \in DOMAIN events : ~ CommandEvent(j)
    BY <2>1, NoCommand
  <2> QED BY <2>1, <2>2 DEF EndpointOn, CommandEvent
<1>2. CASE configure_endpoint_return
  <2>1. /\ pc = "configure_endpoint_wait" /\ COMPLETION.pending
        /\ UNCHANGED <<hw, cur>>
        /\ \/ pc' = "dispatch"
           \/ pc' = "set_protocol" /\ eps' = eps
    BY <1>2, CommandAnswerTaken, CommandReturned DEF CommandReturn, configure_endpoint_return
  <2>2. pc' = "set_protocol" => COMPLETION.ok
    <3>1. pc' = "set_protocol" => Await(COMPLETION, TRUE)
      BY <1>2 DEF configure_endpoint_return
    <3> QED BY <2>1, <3>1 DEF Await
  <2> QED BY <2>1, <2>2 DEF EndpointOn
<1>3. CASE set_protocol \/ set_protocol_return \/ init_driver
  <2>1. /\ pc \in WithDriver /\ UNCHANGED <<cur, eps, hw>>
        /\ pc' # "configure_endpoint_wait"
    BY <1>3 DEF set_protocol, set_protocol_return, init_driver, mainVars, Call, Ret
  <2> QED BY <2>1 DEF EndpointOn
<1>4. CASE pc' \notin WithDriver \cup {"configure_endpoint_wait"}
  BY <1>4 DEF EndpointOn
<1>5. CASE \/ hlt \/ poll_hotplug \/ discover_and_init_hid_devices \/ disconnect_loop \/ connect_loop
           \/ disable_slot \/ disable_slot_return \/ enable_slot \/ enable_slot_return
           \/ address_device \/ address_device_return \/ get_device_descriptor
           \/ get_device_descriptor_return \/ get_configuration \/ get_configuration_return
           \/ set_configuration \/ set_configuration_return \/ dispatch_endpoint \/ arm_first_report
  <2>1. pc' \notin WithDriver \cup {"configure_endpoint_wait"}
    BY <1>5 DEF hlt, poll_hotplug, discover_and_init_hid_devices, disconnect_loop, connect_loop,
       disable_slot, disable_slot_return, enable_slot, enable_slot_return, address_device,
       address_device_return, get_device_descriptor, get_device_descriptor_return,
       get_configuration, get_configuration_return, set_configuration, set_configuration_return,
       dispatch_endpoint, arm_first_report, Push
  <2> QED BY <1>4, <2>1
<1> QED BY <1>1, <1>2, <1>3, <1>5 DEF Main

(* Every step. *)
LEMMA StepEndpointOn ==
    ASSUME MaxLate = 0, Types, OneCommand, EndpointOn, [Next]_vars
    PROVE  EndpointOn'
<1>1. CASE Main
  BY <1>1, MainEndpointOn
<1> USE DEF WithDriver
<1>2. CASE Interrupt \/ ExecCommand \/ OtherStep \/ UNCHANGED vars
  <2> SUFFICES ASSUME pc' \in WithDriver \cup {"configure_endpoint_wait"} PROVE EndpointOn'
    BY DEF EndpointOn
  <2>1. UNCHANGED <<cur, eps>> /\ (pc' = pc \/ (pc = "halted" /\ pc' = "poll_hotplug"))
    BY <1>2, EventTaken, CommandAnswered, OtherSteps DEF vars, mainVars
  <2>2. pc' = pc
    BY <2>1
  <2>3. cur.slot \in Slots /\ Head(eps).dci \in Dcis
    BY <2>2, ListTypes DEF Types, MainTypes, WithEndpoint, Handling, HidSetup, Found
  <2>4. hw[cur.slot].ep[Head(eps).dci].st # "off" => hw'[cur.slot].ep[Head(eps).dci].st # "off"
    BY <2>2, <2>3, OnStays
  <2>5. CASE pc \in WithDriver
    BY <2>1, <2>2, <2>4, <2>5 DEF EndpointOn
  <2>6. CASE pc = "configure_endpoint_wait"
    <3>1. CASE UNCHANGED <<events, COMPLETION>>
      BY <2>1, <2>2, <2>4, <2>6, <3>1 DEF EndpointOn, CommandEvent
    <3>2. ASSUME NEW e \in Message, Post(e), COMPLETION' = COMPLETION,
                 e.type = "command" /\ e.ok => hw'[cur.slot].ep[Head(eps).dci].st # "off"
          PROVE  EndpointOn'
      <4>1. /\ DOMAIN events = 1 .. Len(events) /\ Len(events) \in Nat
            /\ DOMAIN events' = 1 .. Len(events) + 1
            /\ \A j \in DOMAIN events : events'[j] = events[j]
            /\ events'[Len(events) + 1] = e
        BY <3>2, EventPosted DEF Types
      <4>2. \A j \in DOMAIN events' : events'[j] = e \/ (j \in DOMAIN events /\ events'[j] = events[j])
        BY <4>1
      <4>3. \A j \in DOMAIN events' : CommandEvent(j)' /\ events'[j].ok =>
               hw'[cur.slot].ep[Head(eps).dci].st # "off"
        BY <2>4, <2>6, <3>2, <4>2 DEF EndpointOn, CommandEvent
      <4>4. COMPLETION'.pending /\ COMPLETION'.ok => hw'[cur.slot].ep[Head(eps).dci].st # "off"
        BY <2>4, <2>6, <3>2 DEF EndpointOn
      <4> QED BY <2>1, <2>2, <2>6, <4>3, <4>4 DEF EndpointOn
    <3>3. CASE Interrupt
      <4>1. /\ 1 \in DOMAIN events
            /\ \A j \in DOMAIN events' : j + 1 \in DOMAIN events /\ events'[j] = events[j + 1]
            /\ events[1].type = "command" => COMPLETION'.ok = events[1].ok
            /\ events[1].type # "command" => COMPLETION' = COMPLETION
        BY <3>3, EventTaken
      <4>2. COMPLETION'.pending /\ COMPLETION'.ok => hw[cur.slot].ep[Head(eps).dci].st # "off"
        BY <2>6, <4>1 DEF EndpointOn, CommandEvent
      <4>3. \A j \in DOMAIN events' : CommandEvent(j)' /\ events'[j].ok =>
               hw[cur.slot].ep[Head(eps).dci].st # "off"
        BY <2>6, <4>1 DEF EndpointOn, CommandEvent
      <4> QED BY <2>1, <2>2, <2>4, <2>6, <4>2, <4>3 DEF EndpointOn
    <3>4. CASE ExecCommand
      <4>1. ExecConfigure /\ Head(cmds).slot = cur.slot /\ Head(cmds).dci = Head(eps).dci
        BY <2>6, <3>4, CommandIsMains DEF ExecCommand
      <4>2. PICK e \in Message : Post(e) /\ (e.ok => hw'[cur.slot].ep[Head(eps).dci].st # "off")
        BY <4>1, ConfigureDone
      <4>3. COMPLETION' = COMPLETION
        BY <3>4, CommandAnswered
      <4> QED BY <3>2, <4>2, <4>3
    <3>5. CASE OtherStep
      <4>1. COMPLETION' = COMPLETION /\ (events' = events \/ \E e \in Message : Post(e) /\ e.type # "command")
        BY <3>5, OtherSteps
      <4> QED BY <3>1, <3>2, <4>1
    <3>6. CASE UNCHANGED vars
      BY <3>1, <3>6 DEF vars, reqVars, statics
    <3> QED BY <1>2, <3>3, <3>4, <3>5, <3>6
  <2> QED BY <2>2, <2>5, <2>6
<1> QED BY <1>1, <1>2 DEF Next, Exec, ExecCommand, OtherStep

(* A driver whose endpoint and whose reports a step leaves alone. *)
LEMMA ArmedStays ==
    ASSUME NEW k, NEW s, NEW d, DriverArmed(k, s, d), hw'[s].ep[d] = hw[s].ep[d],
           Arming(k)' <=> Arming(k), UNCHANGED events
    PROVE  DriverArmed(k, s, d)'
  BY DEF DriverArmed, InFlight, ReportOf

(* The same when an event that is no report of the endpoint is posted. *)
LEMMA ArmedStaysPosted ==
    ASSUME Types, NEW k, NEW s, NEW d, DriverArmed(k, s, d), hw'[s].ep[d] = hw[s].ep[d],
           Arming(k)' <=> Arming(k), NEW e \in Message, Post(e),
           ~ (e.type = "transfer" /\ e.slot = s /\ e.dci = d)
    PROVE  DriverArmed(k, s, d)'
<1>1. /\ DOMAIN events = 1 .. Len(events) /\ Len(events) \in Nat
      /\ DOMAIN events' = 1 .. Len(events) + 1
      /\ \A j \in DOMAIN events : events'[j] = events[j]
      /\ events'[Len(events) + 1] = e
  BY EventPosted DEF Types
<1>2. \A j \in DOMAIN events : j \in DOMAIN events'
  BY <1>1
<1>3. \A j \in DOMAIN events' : j \in DOMAIN events \/ events'[j] = e
  BY <1>1
<1>4. \A j \in DOMAIN events' : ReportOf(j, s, d)' => j \in DOMAIN events /\ ReportOf(j, s, d)
  BY <1>1, <1>3 DEF ReportOf
<1>5. \A j \in DOMAIN events : ReportOf(j, s, d) => ReportOf(j, s, d)'
  BY <1>1 DEF ReportOf
<1> QED BY <1>2, <1>4, <1>5 DEF DriverArmed, InFlight

(* The same when the handler takes an event that is no report of it. *)
LEMMA ArmedStaysTaken ==
    ASSUME Types, Interrupt, NEW k, NEW s, NEW d, DriverArmed(k, s, d), hw'[s].ep[d] = hw[s].ep[d],
           Arming(k)' <=> Arming(k), ~ ReportOf(1, s, d)
    PROVE  DriverArmed(k, s, d)'
<1>1. /\ DOMAIN events = 1 .. Len(events) /\ Len(events) \in Nat \ {0}
      /\ DOMAIN events' = 1 .. Len(events) - 1
      /\ \A j \in DOMAIN events' : j + 1 \in DOMAIN events /\ events'[j] = events[j + 1]
  BY EventTaken
<1>2. \A j \in DOMAIN events' : ReportOf(j, s, d)' => j + 1 \in DOMAIN events /\ ReportOf(j + 1, s, d)
  BY <1>1 DEF ReportOf
<1>3. \A j, l \in DOMAIN events' : j + 1 = l + 1 => j = l
  BY <1>1
<1>4. ASSUME NEW j \in DOMAIN events, ReportOf(j, s, d)
      PROVE  \E l \in DOMAIN events' : ReportOf(l, s, d)'
  <2>1. j - 1 \in DOMAIN events' /\ j - 1 + 1 = j
    BY <1>1, <1>4
  <2>2. events'[j - 1] = events[j]
    BY <1>1, <2>1
  <2> QED BY <1>4, <2>1, <2>2 DEF ReportOf
<1>5. (\A j \in DOMAIN events : ~ ReportOf(j, s, d)) => \A j \in DOMAIN events' : ~ ReportOf(j, s, d)'
  BY <1>2
<1>6. (\A j, l \in DOMAIN events : ReportOf(j, s, d) /\ ReportOf(l, s, d) => j = l)
      => \A j, l \in DOMAIN events' : ReportOf(j, s, d)' /\ ReportOf(l, s, d)' => j = l
  BY <1>2, <1>3
<1> QED BY <1>4, <1>5, <1>6 DEF DriverArmed, InFlight

(* The two drivers serve different endpoints. *)
LEMMA DriversApart ==
    ASSUME Types, Driven, NEW k \in HidKinds, NEW h \in HidKinds, k # h,
           drv[k].dci # 0 \/ drv[h].dci # 0
    PROVE  drv[k].slot # drv[h].slot \/ drv[k].dci # drv[h].dci
<1>1. drv["keyboard"].dci # 0 \/ drv["mouse"].dci # 0 => drv["keyboard"] # drv["mouse"]
  BY DEF Driven
<1>2. /\ drv["keyboard"] \in [dci : Dcis \cup {0}, slot : 0 .. MaxSlots]
      /\ drv["mouse"] \in [dci : Dcis \cup {0}, slot : 0 .. MaxSlots]
  BY ListTypes DEF Driver, HidKinds
<1>3. drv["keyboard"] # drv["mouse"] =>
         drv["keyboard"].slot # drv["mouse"].slot \/ drv["keyboard"].dci # drv["mouse"].dci
  BY <1>2
<1> QED BY <1>1, <1>3 DEF HidKinds

(* Where a driver points. *)
LEMMA DriverTypes ==
    ASSUME Types, NEW k \in HidKinds, drv[k].dci # 0
    PROVE  /\ drv[k].slot \in Slots /\ drv[k].dci \in Dcis /\ drv[k].dci # Ep0Dci
           /\ hw[drv[k].slot].ep[drv[k].dci] \in EndpointState
           /\ hw[drv[k].slot].ep[drv[k].dci].trbs \in Nat
<1>1. drv[k].slot \in Slots /\ drv[k].dci \in Dcis /\ drv[k].dci # Ep0Dci
  BY ListTypes, DciNumbers DEF Driver
<1>2. hw[drv[k].slot] \in SlotState
  BY <1>1, ListTypes
<1>3. hw[drv[k].slot].ep[drv[k].dci] \in EndpointState
  BY <1>1, <1>2 DEF SlotState
<1> QED BY <1>1, <1>3 DEF EndpointState

(* init_keyboard and init_mouse find an endpoint with no TRB and no report. *)
LEMMA InitArmed ==
    ASSUME Types, SlotInv, DriverInv, HidApart, EndpointsTrue, Driven, ReportsServed, DriversArmed,
           EndpointOn, init_driver
    PROVE  DriversArmed'
<1>1. PICK h \in HidKinds, s \in Slots, d \in Dcis :
         /\ h = Head(eps).kind /\ d = Head(eps).dci /\ s = cur.slot
         /\ drv'[h] = [dci |-> d, slot |-> s] /\ \A k \in HidKinds : k # h => drv'[k] = drv[k]
  BY DriverIsFree
<1>2. pc = "init_driver" /\ pc' = "arm_first_report" /\ UNCHANGED <<cur, eps, hw, events>>
  BY DriverIsFree
<1>3. \A k \in HidKinds : ~ Arming(k) /\ (Arming(k)' <=> k = h)
  BY <1>1, <1>2 DEF Arming
<1>4. ~ Served(s, d)
  BY <1>1, DriverIsFree DEF Served
<1>5. hw[s].ep[d].st # "off"
  BY <1>1, <1>2 DEF EndpointOn, WithDriver
<1>6. hw[s].ep[d].trbs = 0
  <2>1. ~ (hw[s].ep[d].trbs > 0)
    BY <1>2, <1>4 DEF ReportsServed, EndpointsServed, Disabling
  <2>2. hw[s].ep[d].trbs \in Nat
    BY DEF Types, HwTypes, SlotState, EndpointState
  <2> QED BY <2>1, <2>2
<1>7. \A j \in DOMAIN events : ~ ReportOf(j, s, d)
  BY <1>2, <1>4, DciNumbers DEF ReportsServed, MessagesServed, Disabling, ReportOf, IsReport
<1>8. DriverArmed(h, s, d)'
  BY <1>2, <1>3, <1>5, <1>6, <1>7 DEF DriverArmed, ReportOf
<1>9. ASSUME NEW k \in HidKinds, drv'[k].dci # 0
      PROVE  DriverArmed(k, drv[k].slot, drv[k].dci)'
  <2>1. CASE k = h
    BY <1>1, <1>8, <2>1
  <2>2. CASE k # h
    <3>1. PICK a, b : a = drv[k].slot /\ b = drv[k].dci
      OBVIOUS
    <3>2. drv'[k].slot = a /\ drv'[k].dci = b /\ b # 0
      BY <1>1, <1>9, <2>2, <3>1
    <3>3. DriverArmed(k, a, b)
      BY <3>1, <3>2 DEF DriversArmed
    <3>4. DriverArmed(k, a, b)'
      BY <1>2, <1>3, <2>2, <3>3, ArmedStays
    <3> QED BY <3>2, <3>4
  <2> QED BY <2>1, <2>2
<1> QED BY <1>9 DEF DriversArmed

(* Steps that leave the drivers where they are, endpoint by endpoint. *)
LEMMA SameDrivers ==
    ASSUME drv' = drv,
           \A k \in HidKinds : \A s, d : drv[k].dci # 0 /\ s = drv[k].slot /\ d = drv[k].dci
                                     => DriverArmed(k, s, d)'
    PROVE  DriversArmed'
  BY DEF DriversArmed

(* arm_next_report, called on the endpoint of driver h. *)
LEMMA ArmEffect ==
    ASSUME Types, Driven, NEW h \in HidKinds, hw' = Armed(h),
           NEW s, NEW d, s = drv[h].slot, d = drv[h].dci, d # 0, hw[s].ep[d].st # "off"
    PROVE  /\ hw'[s].ep[d].st # "off" /\ hw'[s].ep[d].trbs = hw[s].ep[d].trbs + 1
           /\ \A k \in HidKinds : \A a, b :
                 k # h /\ drv[k].dci # 0 /\ a = drv[k].slot /\ b = drv[k].dci =>
                 hw'[a].ep[b] = hw[a].ep[b]
<1>1. s \in Slots /\ d \in Dcis /\ hw[s].ep[d] \in EndpointState
  BY DriverTypes
<1>2. \A a \in Slots, b \in Dcis : hw'[a].ep[b] =
         IF drv[h].dci # 0 /\ a = drv[h].slot /\ b = drv[h].dci /\ hw[a].ep[b].st # "off"
           THEN [hw[a].ep[b] EXCEPT !.trbs = @ + 1] ELSE hw[a].ep[b]
  BY ArmedTypes, Zenon
<1>3. hw'[s].ep[d] = [hw[s].ep[d] EXCEPT !.trbs = @ + 1]
  BY <1>1, <1>2
<1>4. hw'[s].ep[d].st = hw[s].ep[d].st /\ hw'[s].ep[d].trbs = hw[s].ep[d].trbs + 1
  BY <1>1, <1>3 DEF EndpointState
<1>5. ASSUME NEW k \in HidKinds, NEW a, NEW b, k # h, drv[k].dci # 0, a = drv[k].slot, b = drv[k].dci
      PROVE  hw'[a].ep[b] = hw[a].ep[b]
  <2>1. a # s \/ b # d
    BY <1>5, DriversApart
  <2>2. a \in Slots /\ b \in Dcis
    BY <1>5, DriverTypes
  <2> QED BY <1>2, <2>1, <2>2
<1> QED BY <1>4, <1>5

(* The first report of a driver. *)
LEMMA FirstArmed ==
    ASSUME Types, EndpointsTrue, Driven, DriversArmed, arm_first_report
    PROVE  DriversArmed'
<1>1. PICK h \in HidKinds : h = Head(eps).kind
  BY DEF arm_first_report, Types, MainTypes, WithDriver
<1>2. pc = "arm_first_report" /\ pc' = "dispatch" /\ hw' = Armed(h) /\ UNCHANGED <<events, drv>>
  BY <1>1 DEF arm_first_report, owned, reqVars
<1>3. \A k \in HidKinds : (Arming(k) <=> k = h) /\ ~ Arming(k)'
  BY <1>1, <1>2 DEF Arming
<1>4. PICK s, d : s = drv[h].slot /\ d = drv[h].dci
  OBVIOUS
<1>5. d # 0
  <2>1. drv[h].dci = Head(eps).dci
    BY <1>1, <1>2 DEF EndpointsTrue
  <2>2. Head(eps) \in Found
    BY <1>2, ListTypes DEF Types, MainTypes, WithEndpoint, WithDriver
  <2> QED BY <1>4, <2>1, <2>2, DciNumbers DEF Found
<1>6. hw[s].ep[d].st # "off" /\ hw[s].ep[d].trbs = 0 /\ \A j \in DOMAIN events : ~ ReportOf(j, s, d)
  BY <1>3, <1>4, <1>5 DEF DriversArmed, DriverArmed
<1>7. /\ hw'[s].ep[d].st # "off" /\ hw'[s].ep[d].trbs = hw[s].ep[d].trbs + 1
      /\ \A k \in HidKinds : \A a, b : k # h /\ drv[k].dci # 0 /\ a = drv[k].slot /\ b = drv[k].dci =>
            hw'[a].ep[b] = hw[a].ep[b]
  BY <1>2, <1>4, <1>5, <1>6, ArmEffect
<1>8. DriverArmed(h, s, d)'
  BY <1>2, <1>3, <1>6, <1>7 DEF DriverArmed, InFlight, ReportOf
<1>9. ASSUME NEW k \in HidKinds, NEW a, NEW b, k # h, drv[k].dci # 0, a = drv[k].slot, b = drv[k].dci
      PROVE  DriverArmed(k, a, b)'
  <2>1. DriverArmed(k, a, b) /\ hw'[a].ep[b] = hw[a].ep[b]
    BY <1>7, <1>9 DEF DriversArmed
  <2>2. Arming(k)' <=> Arming(k)
    BY <1>3, <1>9
  <2> QED BY <1>2, <2>1, <2>2, ArmedStays
<1> QED BY <1>2, <1>4, <1>8, <1>9, SameDrivers

(* The handler: a driver's report is taken, and the next one armed. *)
LEMMA HandlerArmed ==
    ASSUME Types, Driven, DriversArmed, Interrupt
    PROVE  DriversArmed'
<1>1. /\ DOMAIN events = 1 .. Len(events) /\ Len(events) \in Nat \ {0} /\ 1 \in DOMAIN events
      /\ DOMAIN events' = 1 .. Len(events) - 1
      /\ \A j \in DOMAIN events' : j + 1 \in DOMAIN events /\ events'[j] = events[j + 1]
      /\ UNCHANGED <<drv, eps>> /\ (pc' = pc \/ (pc = "halted" /\ pc' = "poll_hotplug"))
  BY EventTaken
<1>2. \A k \in HidKinds : Arming(k)' <=> Arming(k)
  BY <1>1 DEF Arming
<1>3. CASE events[1].type = "transfer" /\ Served(events[1].slot, events[1].dci)
  <2>1. PICK h \in HidKinds : /\ drv[h].dci # 0 /\ drv[h].slot = events[1].slot
                              /\ drv[h].dci = events[1].dci /\ hw' = Armed(h)
    BY <1>3, TransferTaken
  <2>2. PICK s, d : s = drv[h].slot /\ d = drv[h].dci
    OBVIOUS
  <2>3. ReportOf(1, s, d) /\ DriverArmed(h, s, d)
    BY <1>3, <2>1, <2>2 DEF ReportOf, DriversArmed
  <2>4. /\ hw[s].ep[d].st # "off" /\ ~ Arming(h) /\ hw[s].ep[d].trbs = 0
        /\ \A j, l \in DOMAIN events : ReportOf(j, s, d) /\ ReportOf(l, s, d) => j = l
    BY <1>1, <2>3 DEF DriverArmed, InFlight
  <2>5. /\ hw'[s].ep[d].st # "off" /\ hw'[s].ep[d].trbs = hw[s].ep[d].trbs + 1
        /\ \A k \in HidKinds : \A a, b : k # h /\ drv[k].dci # 0 /\ a = drv[k].slot /\ b = drv[k].dci =>
              hw'[a].ep[b] = hw[a].ep[b]
    BY <2>1, <2>2, <2>4, ArmEffect
  <2>6. ASSUME NEW j \in DOMAIN events' PROVE ~ ReportOf(j, s, d)'
    <3>1. j + 1 \in DOMAIN events /\ j + 1 # 1 /\ events'[j] = events[j + 1]
      BY <1>1
    <3>2. ~ ReportOf(j + 1, s, d)
      BY <1>1, <2>3, <2>4, <3>1
    <3> QED BY <3>1, <3>2 DEF ReportOf
  <2>7. DriverArmed(h, s, d)'
    BY <1>2, <2>4, <2>5, <2>6 DEF DriverArmed, InFlight
  <2>8. ASSUME NEW k \in HidKinds, NEW a, NEW b, k # h, drv[k].dci # 0, a = drv[k].slot, b = drv[k].dci
        PROVE  DriverArmed(k, a, b)'
    <3>1. DriverArmed(k, a, b) /\ hw'[a].ep[b] = hw[a].ep[b] /\ (Arming(k)' <=> Arming(k))
      BY <1>2, <2>5, <2>8 DEF DriversArmed
    <3>2. ~ ReportOf(1, a, b)
      BY <2>1, <2>8, DriversApart DEF ReportOf
    <3> QED BY <3>1, <3>2, ArmedStaysTaken
  <2> QED BY <1>1, <2>2, <2>7, <2>8, SameDrivers
<1>4. CASE ~ (events[1].type = "transfer" /\ Served(events[1].slot, events[1].dci))
  <2>1. hw' = hw
    BY <1>4, TransferTaken
  <2>2. ASSUME NEW k \in HidKinds, NEW a, NEW b, drv[k].dci # 0, a = drv[k].slot, b = drv[k].dci
        PROVE  DriverArmed(k, a, b)'
    <3>1. DriverArmed(k, a, b) /\ (Arming(k)' <=> Arming(k))
      BY <1>2, <2>2 DEF DriversArmed
    <3>2. ~ ReportOf(1, a, b)
      BY <1>4, <2>2 DEF ReportOf, Served
    <3> QED BY <2>1, <3>1, <3>2, ArmedStaysTaken
  <2> QED BY <1>1, <2>2, SameDrivers
<1> QED BY <1>3, <1>4

(* Commands concern no endpoint that a driver serves. *)
LEMMA CommandArmed ==
    ASSUME Types, OneCommand, SlotInv, DriverInv, EndpointsTrue, DriversArmed, ExecCommand
    PROVE  DriversArmed'
<1>1. UNCHANGED <<drv, eps, pc>>
  BY CommandAnswered
<1>2. \A k \in HidKinds : Arming(k)' <=> Arming(k)
  BY <1>1 DEF Arming
<1>3. PICK e \in Message : Post(e) /\ e.type = "command"
  BY CommandAnswered
<1>4. ASSUME NEW k \in HidKinds, NEW s, NEW d, drv[k].dci # 0, s = drv[k].slot, d = drv[k].dci
      PROVE  hw'[s].ep[d] = hw[s].ep[d]
  <2>1. s \in Slots /\ d \in Dcis
    BY <1>4, DriverTypes
  <2>2. CASE ExecEnable \/ ExecAddress
    <3>1. hw'[s].ep = hw[s].ep
      BY <2>1, <2>2, EndpointsKept
    <3> QED BY <3>1
  <2>3. CASE ExecConfigure
    <3>1. pc = "configure_endpoint_wait" /\ Head(cmds).slot = cur.slot /\ Head(cmds).dci = Head(eps).dci
      BY <2>3, CommandIsMains DEF ExecCommand
    <3>2. Head(eps) = eps[1] /\ 1 \in DOMAIN eps
      BY <3>1, ListTypes DEF Types, MainTypes, WithEndpoint
    <3>3. s # cur.slot \/ d # Head(eps).dci
      BY <1>4, <3>1, <3>2 DEF EndpointsTrue, HidSetup, Arming
    <3> QED BY <2>1, <2>3, <3>1, <3>3, ConfigureDone
  <2>4. CASE ExecDisable
    <3>1. pc = "disable_slot_wait" /\ Head(cmds).slot = cur.slot
      BY <2>4, CommandIsMains DEF ExecCommand
    <3>2. s # cur.slot
      BY <1>4, <3>1 DEF DriverInv, DriverOwned, HidSetup, SlotInv, CurrentSlot, Handling
    <3>3. hw'[s] = hw[s]
      BY <2>1, <2>4, <3>1, <3>2, DisableDone
    <3> QED BY <3>3
  <2> QED BY <2>2, <2>3, <2>4 DEF ExecCommand
<1>5. ASSUME NEW k \in HidKinds, NEW s, NEW d, drv[k].dci # 0, s = drv[k].slot, d = drv[k].dci
      PROVE  DriverArmed(k, s, d)'
  <2>1. DriverArmed(k, s, d) /\ hw'[s].ep[d] = hw[s].ep[d] /\ (Arming(k)' <=> Arming(k))
    BY <1>2, <1>4, <1>5 DEF DriversArmed
  <2> QED BY <1>3, <2>1, ArmedStaysPosted
<1> QED BY <1>1, <1>5, SameDrivers

(* A device answers a driver's TRB, and only one. *)
LEMMA ReportArmed ==
    ASSUME Types, Driven, DriversArmed, NEW s \in Slots, NEW d \in Dcis, Report(s, d) \/ ReportFails(s, d)
    PROVE  DriversArmed'
<1>1. /\ hw[s].ep[d].trbs > 0
      /\ hw'[s].ep[d].trbs = hw[s].ep[d].trbs - 1 /\ hw'[s].ep[d].st # "off"
      /\ \A t \in Slots, f \in Dcis : t # s \/ f # d => hw'[t].ep[f] = hw[t].ep[f]
      /\ UNCHANGED <<drv, cur, eps, pc, cmds, COMPLETION, active>>
  BY Reported
<1>2. \A k \in HidKinds : Arming(k)' <=> Arming(k)
  BY <1>1 DEF Arming
<1>3. PICK e \in Message : Post(e) /\ e.type = "transfer" /\ e.slot = s /\ e.dci = d
  BY Reported
<1>4. /\ DOMAIN events = 1 .. Len(events) /\ Len(events) \in Nat
      /\ DOMAIN events' = 1 .. Len(events) + 1
      /\ \A j \in DOMAIN events : events'[j] = events[j]
      /\ events'[Len(events) + 1] = e
  BY <1>3, EventPosted DEF Types
<1>5. PICK n \in DOMAIN events' : events'[n] = e /\ \A j \in DOMAIN events' : j = n \/ j \in DOMAIN events
  BY <1>4
<1>6. ASSUME NEW k \in HidKinds, drv[k].dci # 0, s = drv[k].slot, d = drv[k].dci
      PROVE  DriverArmed(k, s, d)'
  <2>1. DriverArmed(k, s, d)
    BY <1>6 DEF DriversArmed
  <2>2. hw[s].ep[d].trbs # 0
    BY <1>1
  <2>3. ~ Arming(k) /\ hw[s].ep[d].trbs = 1 /\ \A j \in DOMAIN events : ~ ReportOf(j, s, d)
    BY <2>1, <2>2 DEF DriverArmed, InFlight
  <2>4. hw'[s].ep[d].trbs = 0
    BY <1>1, <2>3
  <2>5. ReportOf(n, s, d)'
    BY <1>3, <1>5 DEF ReportOf
  <2>6. \A j \in DOMAIN events' : ReportOf(j, s, d)' => j = n
    BY <1>4, <1>5, <2>3 DEF ReportOf
  <2> QED BY <1>1, <1>2, <2>3, <2>4, <2>5, <2>6 DEF DriverArmed, InFlight
<1>7. ASSUME NEW k \in HidKinds, NEW a, NEW b, drv[k].dci # 0, a = drv[k].slot, b = drv[k].dci,
             a # s \/ b # d
      PROVE  DriverArmed(k, a, b)'
  <2>1. DriverArmed(k, a, b) /\ (Arming(k)' <=> Arming(k))
    BY <1>2, <1>7 DEF DriversArmed
  <2>2. hw'[a].ep[b] = hw[a].ep[b]
    BY <1>1, <1>7, DriverTypes
  <2> QED BY <1>3, <1>7, <2>1, <2>2, ArmedStaysPosted
<1> QED BY <1>1, <1>6, <1>7, SameDrivers

(* A device leaves: its drivers stop, the others go on. *)
LEMMA LeavingArmed ==
    ASSUME Types, DriversArmed, disconnect_loop
    PROVE  DriversArmed'
<1>1. /\ pc = "disconnect" /\ pc' \in {"disconnect", "connect", "disable_slot"}
      /\ UNCHANGED <<events, hw>>
      /\ drv' = drv \/ drv' = [k \in HidKinds |-> ShutDown(drv, k, active[i])]
  BY DEF disconnect_loop, reqVars
<1>2. \A k \in HidKinds : ~ Arming(k) /\ ~ Arming(k)'
  BY <1>1 DEF Arming
<1>3. \A k \in HidKinds : drv'[k] = drv[k] \/ drv'[k].dci = 0
  BY <1>1 DEF ShutDown
<1>4. ASSUME NEW k \in HidKinds, drv'[k].dci # 0
      PROVE  DriverArmed(k, drv[k].slot, drv[k].dci)'
  <2>1. PICK a, b : a = drv[k].slot /\ b = drv[k].dci
    OBVIOUS
  <2>2. drv'[k].slot = a /\ drv'[k].dci = b /\ b # 0
    BY <1>3, <1>4, <2>1
  <2>3. DriverArmed(k, a, b)
    BY <2>1, <2>2 DEF DriversArmed
  <2>4. DriverArmed(k, a, b)'
    BY <1>1, <1>2, <2>3, ArmedStays
  <2> QED BY <2>2, <2>4
<1> QED BY <1>4 DEF DriversArmed

(* Every step leaves each driver with one TRB armed or on its way back. *)
LEMMA StepArmed ==
    ASSUME MaxLate = 0, Types, OneCommand, SlotInv, DriverInv, HidApart, EndpointsTrue, Driven,
           ReportsServed, DriversArmed, EndpointOn, [Next]_vars
    PROVE  DriversArmed'
<1>1. CASE init_driver
  BY <1>1, InitArmed
<1>2. CASE arm_first_report
  BY <1>2, FirstArmed
<1>3. CASE Interrupt
  BY <1>3, HandlerArmed
<1>4. CASE ExecCommand
  BY <1>4, CommandArmed
<1>5. ASSUME NEW s \in Slots, NEW d \in Dcis, Report(s, d) \/ ReportFails(s, d) PROVE DriversArmed'
  BY <1>5, ReportArmed
<1>6. CASE disconnect_loop
  BY <1>6, LeavingArmed
<1>7. ASSUME UNCHANGED <<events, drv, hw>>,
             pc # "arm_first_report" /\ pc' # "arm_first_report"
      PROVE  DriversArmed'
  <2>1. ASSUME NEW k \in HidKinds, NEW s, NEW d, drv[k].dci # 0, s = drv[k].slot, d = drv[k].dci
        PROVE  DriverArmed(k, s, d)'
    <3>1. DriverArmed(k, s, d) /\ (Arming(k)' <=> Arming(k))
      BY <1>7, <2>1 DEF DriversArmed, Arming
    <3> QED BY <1>7, <3>1, ArmedStays
  <2> QED BY <1>7, <2>1, SameDrivers
<1>8. CASE hlt \/ poll_hotplug \/ discover_and_init_hid_devices \/ connect_loop \/ dispatch_endpoint
  BY <1>7, <1>8 DEF hlt, poll_hotplug, discover_and_init_hid_devices, connect_loop,
     dispatch_endpoint, Push, reqVars, owned
<1>9. CASE CommandCall \/ TransferCall
  <2>1. pc # "arm_first_report" /\ pc' # "arm_first_report"
    BY <1>9 DEF CommandCall, TransferCall, disable_slot, enable_slot, address_device,
       configure_endpoint, get_device_descriptor, get_configuration, set_configuration, set_protocol
  <2>2. UNCHANGED <<events, drv, hw>>
    BY <1>9, CommandCalled, TransferCalled
  <2> QED BY <1>7, <2>1, <2>2
<1>10. CASE CommandReturn \/ TransferReturn
  <2>1. pc # "arm_first_report" /\ pc' # "arm_first_report"
    BY <1>10 DEF CommandReturn, TransferReturn, disable_slot_return, enable_slot_return,
       address_device_return, configure_endpoint_return, get_device_descriptor_return,
       get_configuration_return, set_configuration_return, set_protocol_return, Push
  <2>2. UNCHANGED <<events, drv, hw>>
    BY <1>10, CommandReturned, TransferReturned
  <2> QED BY <1>7, <2>1, <2>2
<1>11. CASE ExecTransfer \/ \E p \in Ports : Unplug(p) \/ \E v \in Devices : Plug(p, v)
  <2>1. UNCHANGED <<drv, eps, pc>>
    BY <1>11, OtherSteps DEF OtherStep
  <2>2. \A s \in Slots : hw'[s].ep = hw[s].ep
    BY <1>11, EndpointsKept
  <2>3. \/ events' = events
        \/ \E e \in Message : Post(e) /\ (e.type = "transfer" => e.dci = Ep0Dci)
    BY <1>11, AnswerOrChange
  <2>4. ASSUME NEW k \in HidKinds, NEW s, NEW d, drv[k].dci # 0, s = drv[k].slot, d = drv[k].dci
        PROVE  DriverArmed(k, s, d)'
    <3>1. s \in Slots /\ d # Ep0Dci
      BY <2>4, DriverTypes
    <3>2. DriverArmed(k, s, d) /\ (Arming(k)' <=> Arming(k)) /\ hw'[s].ep[d] = hw[s].ep[d]
      BY <2>1, <2>2, <2>4, <3>1 DEF DriversArmed, Arming
    <3>3. CASE events' = events
      BY <3>2, <3>3, ArmedStays
    <3>4. CASE events' # events
      BY <2>3, <3>1, <3>2, <3>4, ArmedStaysPosted
    <3> QED BY <3>3, <3>4
  <2> QED BY <2>1, <2>4, SameDrivers
<1>12. CASE UNCHANGED vars
  BY <1>12 DEF vars, reqVars, owned, mainVars, DriversArmed, DriverArmed, Arming, InFlight, ReportOf
<1> QED BY <1>1, <1>2, <1>3, <1>4, <1>5, <1>6, <1>8, <1>9, <1>10, <1>11, <1>12
        DEF Next, Main, Exec, ExecCommand, CommandCall, TransferCall, CommandReturn, TransferReturn

(* The whole invariant is inductive. *)
LEMMA HotplugStep == Careful /\ HotplugInv /\ [Next]_vars => HotplugInv'
  BY StepTypes, StepCommand, StepSlots, StepDrivers, StepApart, StepEndpoints, StepDriven,
     StepReports, StepArmed, StepEndpointOn, StepTransfer
     DEF Careful, HotplugInv, CarefulInv

(* And true at the boot of a careful user's system. *)
LEMMA HotplugInit == Careful /\ Init => HotplugInv
<1> SUFFICES ASSUME CarefulUser, Init PROVE HotplugInv
  BY DEF Careful
<1>1. Types
  BY InitTypes
<1>2. OneCommand
  BY DEF Init, OneCommand, CommandWaits
<1>3. SlotInv
  BY DEF Init, SlotInv, SlotsTrue, CurrentSlot, AnswersTrue, FreeSlot, Handling, HidSetup,
         Described, CommandWaits
<1>4. DriverInv
  BY DEF Init, DriverInv, DriverOwned, HidSetup
<1>5. HidApart
  <2>1. \A p, q \in Ports : p # q => HidOf(attached[p]) \cap HidOf(attached[q]) = {}
    BY DEF Init, CanBoot
  <2>2. \A s \in Slots : HidOf(hw[s].dev) = {}
    BY NothingHid DEF Init, FreeSlot
  <2> QED BY <2>1, <2>2 DEF HidApart
<1>6. EndpointsTrue
  BY DEF Init, EndpointsTrue, HidSetup, Enumerating, Described
<1>7. Driven
  BY DEF Init, Driven, HidKinds
<1>8. ReportsServed
  <2>1. \A s \in Slots, d \in Dcis : hw[s].ep[d].trbs = 0
    BY DEF Init, FreeSlot, NoEndpoint
  <2>2. EndpointsServed
    BY <2>1 DEF EndpointsServed
  <2>3. MessagesServed
    BY DEF Init, MessagesServed
  <2> QED BY <2>2, <2>3 DEF ReportsServed
<1>9. DriversArmed
  BY DEF Init, DriversArmed
<1>10. EndpointOn
  BY DEF Init, EndpointOn, WithDriver
<1>11. OneTransfer
  BY DEF Init, OneTransfer, TransferWaits
<1> QED BY <1>1, <1>2, <1>3, <1>4, <1>5, <1>6, <1>7, <1>8, <1>9, <1>10, <1>11
        DEF HotplugInv, CarefulInv

(* The reports counted by OneReportInFlight. *)
LEMMA ReportsCounted ==
    ASSUME NEW s, NEW d, InFlight(s, d)
    PROVE  hw[s].ep[d].trbs + InEvents(s, d) = 1
<1> DEFINE R == {j \in DOMAIN events : ReportOf(j, s, d)}
<1>1. InEvents(s, d) = Cardinality(R)
  BY DEF InEvents, ReportOf
<1>2. CASE hw[s].ep[d].trbs = 1 /\ \A j \in DOMAIN events : ~ ReportOf(j, s, d)
  <2>1. R = {}
    BY <1>2
  <2> QED BY <1>1, <1>2, <2>1, FS_EmptySet
<1>3. CASE /\ hw[s].ep[d].trbs = 0 /\ \E j \in DOMAIN events : ReportOf(j, s, d)
           /\ \A j, l \in DOMAIN events : ReportOf(j, s, d) /\ ReportOf(l, s, d) => j = l
  <2>1. PICK n : R = {n}
    BY <1>3
  <2>2. Cardinality(R) = 1
    BY <2>1, FS_Singleton
  <2> QED BY <1>1, <1>3, <2>2
<1> QED BY <1>2, <1>3 DEF InFlight

(* For users who keep to one keyboard and one mouse, of one interface each,  *)
(* and answers in time: no wait of xhci.rs takes another request's answer    *)
(* for its own, every keyboard and mouse of the registry has its driver, and *)
(* every driver has exactly one report TRB armed or on its way back.         *)
THEOREM HotplugAnswers ==
    ASSUME MaxLate = 0, CarefulUser, OneOfEachKind
    PROVE  Spec => [](OwnAnswer /\ EveryHidDriven /\ OneReportInFlight)
<1>1. Init => HotplugInv
  BY HotplugInit DEF Careful
<1>2. HotplugInv /\ [Next]_vars => HotplugInv'
  BY HotplugStep DEF Careful
<1>3. HotplugInv => OwnAnswer /\ EveryHidDriven /\ OneReportInFlight
  <2> SUFFICES ASSUME HotplugInv PROVE OwnAnswer /\ EveryHidDriven /\ OneReportInFlight
    OBVIOUS
  <2>1. OwnAnswer
    BY DEF HotplugInv, CarefulInv, OneCommand, OneTransfer, OwnAnswer
  <2>2. EveryHidDriven
    BY DEF HotplugInv, CarefulInv, Driven, EveryHidDriven
  <2>3. \A k \in HidKinds : drv[k].dci # 0 /\ ~ Arming(k) => InFlight(drv[k].slot, drv[k].dci)
    BY DEF HotplugInv, CarefulInv, DriversArmed, DriverArmed
  <2>4. OneReportInFlight
    BY <2>3, ReportsCounted DEF OneReportInFlight, Arming
  <2> QED BY <2>1, <2>2, <2>4
<1> QED BY <1>1, <1>2, <1>3, PTL DEF Spec
=============================================================================
