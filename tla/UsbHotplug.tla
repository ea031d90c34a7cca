----------------------------- MODULE UsbHotplug -----------------------------
(***************************************************************************)
(* Enumeration and hotplug (kernel/src/usb/mod.rs) on top of the command   *)
(* and transfer functions of xhci.rs and of the HID drivers, interleaved   *)
(* with the handler of vector 44, the controller and the user who plugs    *)
(* and unplugs devices.                                                    *)
(*                                                                         *)
(* Every xhci.rs function that main calls sends its request in a cli .. sti *)
(* section and then waits, interrupts enabled, on a static that the        *)
(* handler sets; it is a call action and a return action here.  Rings are  *)
(* FIFO queues (TrbRing and EventRing show that they are).  A section that *)
(* holds a lock is one step: what an interrupt inside it does is not the   *)
(* subject of this module.                                                 *)
(***************************************************************************)
EXTENDS Integers, SequencesExt

CONSTANTS
    NumPorts,     \* root hub ports
    MaxSlots,     \* device slots of the controller
    Devices,      \* the devices a user can plug in
    Interfaces,   \* per device: the interface of each of its interrupt IN endpoints
    CarefulUser,  \* one keyboard and mouse at a time, and no quick swap (see CanPlug)
    MaxPlugs,     \* bound: times a device is plugged or unplugged after boot
    MaxReports,   \* bound: reports the devices send
    MaxFaults,    \* bound: commands and transfers that fail for no visible reason
    MaxLate       \* bound: waits that time out although the answer is under way

Ports    == 1 .. NumPorts
Slots    == 1 .. MaxSlots
HidKinds == {"keyboard", "mouse"}
Kinds    == HidKinds \cup {"other", "vendor"}  \* HID of another protocol; not HID

ASSUME HubAssumption    == NumPorts \in Nat /\ MaxSlots \in Nat
ASSUME DeviceAssumption == "none" \notin Devices /\ Interfaces \in [Devices -> Seq(Kinds)]
ASSUME UserAssumption   == CarefulUser \in BOOLEAN
ASSUME BoundAssumption  == {MaxPlugs, MaxReports, MaxFaults, MaxLate} \subseteq Nat

NoDevice == "none"

(* configure_endpoint: ep_number * 2 + 1 for an IN endpoint; the i-th       *)
(* interrupt endpoint of a device has address 0x80 + i.                     *)
Dci(i) == 2 * i + 1
Ep0Dci == 1
Dcis   == {Dci(i) : i \in UNION {DOMAIN Interfaces[d] : d \in Devices}}

(* What get_configuration_descriptor_and_find_interrupt_endpoints finds.    *)
Endpoints(d) == [i \in DOMAIN Interfaces[d] |-> [kind |-> Interfaces[d][i], dci |-> Dci(i)]]

VARIABLES
    attached,             \* the device in each port (the connect bit of PORTSC)
    changed,              \* the ports whose change bits in PORTSC are set
    missed,               \* ports whose last change brought no event, until a scan (history)
    hw,                   \* controller: its slots
    cmds, xfers, events,  \* command ring, EP0 transfers, event ring
    PORT_CHANGE_PENDING,
    COMPLETION,           \* COMPLETION_PENDING, _CODE, _SLOT
    TRANSFER,             \* TRANSFER_COMPLETION_PENDING, _CODE
    drv,                  \* per HID driver: KBD_DCI, KBD_SLOT_ID (KBD_STATE is Some iff dci # 0)
    dcbaa,                \* slots with a device context in the DCBAA
    ep0,                  \* the slot whose EP0 ring XHCI.ep0_ring_virt is
    buf,                  \* the configuration descriptor buffer
    active,               \* ACTIVE_PORTS
    pc, snap, i, cur, eps,  \* main: program counter, port_states, loop index,
                            \* device being handled, its endpoints to dispatch
    refused,              \* ports whose init_one_device gave None since the last scan (history)
    plugs, reports, faults, late  \* counters of the bounds

latch    == <<changed, missed>>
reqVars  == <<cmds, xfers, events>>
statics  == <<PORT_CHANGE_PENDING, COMPLETION, TRANSFER>>
mainVars == <<snap, i, cur, eps, active, refused, buf>>
owned    == <<drv, dcbaa, ep0>>
bounds   == <<plugs, reports, faults, late>>
vars     == <<attached, latch, hw, reqVars, statics, owned, mainVars, pc, bounds>>

NoEndpoint == [st |-> "off", trbs |-> 0]
FreeSlot   == [st |-> "disabled", port |-> 0, dev |-> NoDevice, alive |-> FALSE,
               ep0halted |-> FALSE, ep |-> [d \in Dcis |-> NoEndpoint]]
NoEntry    == [port |-> 0, slot |-> 0, keyboard |-> FALSE, mouse |-> FALSE]
NotPending == [pending |-> FALSE, ok |-> FALSE, slot |-> 0, mine |-> FALSE]

(* A careful user keeps to one keyboard and one mouse at a time, and plugs   *)
(* a device in only after the kernel has let go of the one that was in the   *)
(* port and of the last one of the same kind.  The driver needs this: it has *)
(* one KBD_STATE and one MOUSE_STATE, and it compares connect bits, which a  *)
(* quick swap restores.                                                      *)
HidOf(d) == IF d = NoDevice THEN {}
            ELSE {Interfaces[d][a] : a \in DOMAIN Interfaces[d]} \cap HidKinds

CanBoot(att) ==
    CarefulUser => \A p, q \in Ports : p # q => HidOf(att[p]) \cap HidOf(att[q]) = {}
CanPlug(p, d) ==
    CarefulUser =>
        /\ \A q \in Ports : HidOf(attached[q]) \cap HidOf(d) = {}
        /\ \A s \in Slots : hw[s].port # p /\ HidOf(hw[s].dev) \cap HidOf(d) = {}

(* Boot: init_xhci_controller has published XHCI_INSTANCE and calls          *)
(* discover_and_init_hid_devices with an empty registry.  A device that is   *)
(* there after the reset of the controller has set its port's change bit.    *)
Init ==
    /\ attached \in [Ports -> Devices \cup {NoDevice}] /\ CanBoot(attached)
    /\ changed = {p \in Ports : attached[p] # NoDevice} /\ missed = {}
    /\ hw = [s \in Slots |-> FreeSlot]
    /\ cmds = <<>> /\ xfers = <<>> /\ events = <<>>
    /\ PORT_CHANGE_PENDING = FALSE /\ COMPLETION = NotPending /\ TRANSFER = NotPending
    /\ drv = [k \in HidKinds |-> [dci |-> 0, slot |-> 0]]
    /\ dcbaa = {} /\ ep0 = 0 /\ buf = <<>> /\ active = <<>>
    /\ pc = "discover" /\ snap = {} /\ i = 1 /\ cur = NoEntry /\ eps = <<>> /\ refused = {}
    /\ plugs = 0 /\ reports = 0 /\ faults = 0 /\ late = 0

-----------------------------------------------------------------------------
(* The idle loop and the synchronisation of the registry.                   *)

(* hcf: hlt.  An interrupt taken before the instruction does not stop it. *)
hlt ==
    /\ pc = "hlt" /\ pc' = "halted"
    /\ UNCHANGED <<attached, latch, hw, reqVars, statics, owned, mainVars, bounds>>

poll_hotplug ==
    /\ pc = "poll_hotplug"
    /\ pc' = IF PORT_CHANGE_PENDING THEN "discover" ELSE "hlt"
    /\ PORT_CHANGE_PENDING' = FALSE
    /\ UNCHANGED <<attached, latch, hw, reqVars, COMPLETION, TRANSFER, owned, mainVars, bounds>>

(* The list of connected ports, read under the lock. *)
discover_and_init_hid_devices ==
    /\ pc = "discover"
    /\ snap' = {p \in Ports : attached[p] # NoDevice}
    /\ i' = 1 /\ refused' = {} /\ missed' = {} /\ pc' = "disconnect"
    /\ UNCHANGED <<attached, changed, hw, reqVars, statics, owned, cur, eps, active, buf, bounds>>

(* Mutant: only the keyboard driver is shut down. *)
ShutDown_keyboard_only(d, k, entry) ==
    IF k = "keyboard" /\ entry[k] /\ d[k].dci # 0 /\ d[k].slot = entry.slot
      THEN [dci |-> 0, slot |-> 0] ELSE d[k]

(* Mutant: a device that leaves stops both drivers, whichever slot they serve. *)
ShutDown_any_slot(d, k, entry) == [dci |-> 0, slot |-> 0]

(* shutdown_keyboard and shutdown_mouse: a no-op unless the slot is theirs. *)
ShutDown(d, k, entry) ==
    IF entry[k] /\ d[k].dci # 0 /\ d[k].slot = entry.slot THEN [dci |-> 0, slot |-> 0] ELSE d[k]

(* One turn of the DISCONNECT loop. *)
disconnect_loop ==
    /\ pc = "disconnect"
    /\ \/ /\ i > Len(active)
          /\ pc' = "connect" /\ UNCHANGED <<i, cur, active, drv>>
       \/ /\ i <= Len(active) /\ active[i].port \in snap
          /\ i' = i + 1 /\ UNCHANGED <<pc, cur, active, drv>>
       \/ /\ i <= Len(active) /\ active[i].port \notin snap
          /\ cur' = active[i] /\ active' = RemoveAt(active, i)
          /\ drv' = [k \in HidKinds |-> ShutDown(drv, k, active[i])]
          /\ pc' = "disable_slot" /\ UNCHANGED i
    /\ UNCHANGED <<attached, latch, hw, reqVars, statics, dcbaa, ep0, snap, eps, refused, buf, bounds>>

ActivePorts == {active[j].port : j \in DOMAIN active}

(* Mutant: PORT_CHANGE_PENDING is reset once more at the end of the scan. *)
connect_loop_late_reset ==
    /\ pc = "connect"
    /\ LET new == snap \ ActivePorts IN
         IF new = {} THEN pc' = "hlt" /\ PORT_CHANGE_PENDING' = FALSE /\ UNCHANGED <<snap, cur>>
         ELSE LET p == CHOOSE q \in new : \A r \in new : q <= r IN
              /\ cur' = [NoEntry EXCEPT !.port = p]
              /\ snap' = {q \in snap : q > p}
              /\ pc' = "enable_slot" /\ UNCHANGED PORT_CHANGE_PENDING
    /\ UNCHANGED <<attached, latch, hw, reqVars, COMPLETION, TRANSFER, owned, i, eps, active, refused,
                   buf, bounds>>

(* One turn of the CONNECT loop: the next port not in the registry. *)
connect_loop ==
    /\ pc = "connect"
    /\ LET new == snap \ ActivePorts IN
         IF new = {} THEN pc' = "hlt" /\ UNCHANGED <<snap, cur>>
         ELSE LET p == CHOOSE q \in new : \A r \in new : q <= r IN
              /\ cur' = [NoEntry EXCEPT !.port = p]
              /\ snap' = {q \in snap : q > p}
              /\ pc' = "enable_slot"
    /\ UNCHANGED <<attached, latch, hw, reqVars, statics, owned, i, eps, active, refused, buf, bounds>>

-----------------------------------------------------------------------------
(* Sending and waiting.  "mine" is a history flag: does this answer belong  *)
(* to the request main is waiting for?  Once main gives up, nothing does.   *)

SendCommand(op, dci) ==
    /\ COMPLETION' = NotPending
    /\ cmds' = Append(cmds, [op |-> op, slot |-> cur.slot, port |-> cur.port, dci |-> dci,
                             mine |-> TRUE])
    /\ UNCHANGED <<xfers, events, TRANSFER, PORT_CHANGE_PENDING>>

(* Mutant: TRANSFER_COMPLETION_PENDING is not reset before the transfer. *)
SendTransfer_no_reset(req) ==
    /\ TRANSFER' = [TRANSFER EXCEPT !.mine = FALSE]
    /\ xfers' = Append(xfers, [req |-> req, slot |-> cur.slot, ring |-> ep0, mine |-> TRUE])
    /\ UNCHANGED <<cmds, events, COMPLETION, PORT_CHANGE_PENDING>>

SendTransfer(req) ==
    /\ TRANSFER' = NotPending
    /\ xfers' = Append(xfers, [req |-> req, slot |-> cur.slot, ring |-> ep0, mine |-> TRUE])
    /\ UNCHANGED <<cmds, events, COMPLETION, PORT_CHANGE_PENDING>>

Disown(q) == [j \in DOMAIN q |-> [q[j] EXCEPT !.mine = FALSE]]
Owed(q)   == \E j \in DOMAIN q : q[j].mine

(* Mutant: the wait loop has no timeout. *)
Await_forever(static, result) ==
    static.pending /\ result = static.ok /\ UNCHANGED <<reqVars, late>>

(* The wait loop ends with the answer's code, or with a timeout.  A timeout  *)
(* with the answer still under way is "late" and counted.                    *)
Await(static, result) ==
    \/ /\ static.pending /\ result = static.ok
       /\ UNCHANGED <<reqVars, late>>
    \/ /\ ~static.pending /\ ~result
       /\ IF Owed(cmds) \/ Owed(xfers) \/ Owed(events)
            THEN late < MaxLate /\ late' = late + 1
            ELSE UNCHANGED late
       /\ cmds' = Disown(cmds) /\ xfers' = Disown(xfers) /\ events' = Disown(events)

Call == UNCHANGED <<attached, latch, hw, mainVars, bounds>>
Ret  == UNCHANGED <<attached, latch, hw, statics, ep0, plugs, reports, faults>>

(* init_one_device returns Some(entry), which the caller pushes. *)
Push == active' = Append(active, cur) /\ pc' = "connect"

-----------------------------------------------------------------------------
(* Mutant: the DCBAA entry is cleared before the command has completed. *)
disable_slot_early_clear ==
    /\ pc = "disable_slot" /\ pc' = "disable_slot_wait"
    /\ SendCommand("disable", 0)
    /\ dcbaa' = dcbaa \ {cur.slot}
    /\ Call /\ UNCHANGED <<drv, ep0>>

disable_slot ==
    /\ pc = "disable_slot" /\ pc' = "disable_slot_wait"
    /\ SendCommand("disable", 0)
    /\ Call /\ UNCHANGED owned

(* On success the DCBAA entry is cleared; a failure is only reported. *)
disable_slot_return ==
    /\ pc = "disable_slot_wait" /\ pc' = "disconnect"
    /\ \E r \in BOOLEAN :
         /\ Await(COMPLETION, r)
         /\ dcbaa' = IF r THEN dcbaa \ {cur.slot} ELSE dcbaa
    /\ Ret /\ UNCHANGED <<drv, mainVars>>

enable_slot ==
    /\ pc = "enable_slot" /\ pc' = "enable_slot_wait"
    /\ SendCommand("enable", 0)
    /\ Call /\ UNCHANGED owned

(* Mutant: COMPLETION_SLOT is not read. *)
enable_slot_return_no_slot ==
    /\ pc = "enable_slot_wait"
    /\ \E r \in BOOLEAN :
         /\ Await(COMPLETION, r)
         /\ \/ r  /\ pc' = "address_device" /\ UNCHANGED refused
            \/ ~r /\ pc' = "connect" /\ refused' = refused \cup {cur.port}
    /\ Ret /\ UNCHANGED <<drv, dcbaa, snap, i, cur, eps, active, buf>>

enable_slot_return ==
    /\ pc = "enable_slot_wait"
    /\ \E r \in BOOLEAN :
         /\ Await(COMPLETION, r)
         /\ \/ r  /\ cur' = [cur EXCEPT !.slot = COMPLETION.slot]
                  /\ pc' = "address_device" /\ UNCHANGED refused
            \/ ~r /\ pc' = "connect" /\ refused' = refused \cup {cur.port} /\ UNCHANGED cur
    /\ Ret /\ UNCHANGED <<drv, dcbaa, snap, i, eps, active, buf>>

(* A new EP0 ring and device context for the slot, then the command. *)
address_device ==
    /\ pc = "address_device" /\ pc' = "address_device_wait"
    /\ dcbaa' = dcbaa \cup {cur.slot} /\ ep0' = cur.slot
    /\ SendCommand("address", 0)
    /\ Call /\ UNCHANGED drv

(* Mutant: the completion code is not looked at. *)
address_device_return_unchecked ==
    /\ pc = "address_device_wait" /\ pc' = "get_device_descriptor"
    /\ \E r \in BOOLEAN : Await(COMPLETION, r)
    /\ Ret /\ UNCHANGED <<drv, dcbaa, mainVars>>

(* A failure returns None: the slot stays enabled and is forgotten. *)
address_device_return ==
    /\ pc = "address_device_wait"
    /\ \E r \in BOOLEAN :
         /\ Await(COMPLETION, r)
         /\ \/ r  /\ pc' = "get_device_descriptor" /\ UNCHANGED refused
            \/ ~r /\ pc' = "connect" /\ refused' = refused \cup {cur.port}
    /\ Ret /\ UNCHANGED <<drv, dcbaa, snap, i, cur, eps, active, buf>>

get_device_descriptor ==
    /\ pc = "get_device_descriptor" /\ pc' = "get_device_descriptor_wait"
    /\ SendTransfer("device")
    /\ Call /\ UNCHANGED owned

get_device_descriptor_return ==
    /\ pc = "get_device_descriptor_wait"
    /\ \E r \in BOOLEAN :
         /\ Await(TRANSFER, r)
         /\ \/ r  /\ pc' = "get_configuration" /\ UNCHANGED active
            \/ ~r /\ Push
    /\ Ret /\ UNCHANGED <<drv, dcbaa, snap, i, cur, eps, refused, buf>>

(* control_transfer_in into a zeroed buffer. *)
get_configuration ==
    /\ pc = "get_configuration" /\ pc' = "get_configuration_wait"
    /\ buf' = <<>>
    /\ SendTransfer("config")
    /\ UNCHANGED <<attached, latch, hw, owned, snap, i, cur, eps, active, refused, bounds>>

(* The endpoints are parsed from the buffer; none is an error. *)
get_configuration_return ==
    /\ pc = "get_configuration_wait"
    /\ \E r \in BOOLEAN :
         /\ Await(TRANSFER, r)
         /\ \/ r /\ buf # <<>> /\ eps' = buf /\ pc' = "set_configuration" /\ UNCHANGED active
            \/ ~(r /\ buf # <<>>) /\ Push /\ UNCHANGED eps
    /\ Ret /\ UNCHANGED <<drv, dcbaa, snap, i, cur, refused, buf>>

set_configuration ==
    /\ pc = "set_configuration" /\ pc' = "set_configuration_wait"
    /\ SendTransfer("set_configuration")
    /\ Call /\ UNCHANGED owned

set_configuration_return ==
    /\ pc = "set_configuration_wait"
    /\ \E r \in BOOLEAN :
         /\ Await(TRANSFER, r)
         /\ \/ r  /\ pc' = "dispatch" /\ UNCHANGED active
            \/ ~r /\ Push
    /\ Ret /\ UNCHANGED <<drv, dcbaa, snap, i, cur, eps, refused, buf>>

(* The loop over the endpoints; only HID interfaces are configured. *)
dispatch_endpoint ==
    /\ pc = "dispatch"
    /\ \/ eps = <<>> /\ Push /\ UNCHANGED eps
       \/ /\ eps # <<>> /\ Head(eps).kind = "vendor"
          /\ eps' = Tail(eps) /\ UNCHANGED <<pc, active>>
       \/ /\ eps # <<>> /\ Head(eps).kind # "vendor"
          /\ pc' = "configure_endpoint" /\ UNCHANGED <<eps, active>>
    /\ UNCHANGED <<attached, latch, hw, reqVars, statics, owned, snap, i, cur, refused, buf, bounds>>

configure_endpoint ==
    /\ pc = "configure_endpoint" /\ pc' = "configure_endpoint_wait"
    /\ SendCommand("configure", Head(eps).dci)
    /\ Call /\ UNCHANGED owned

(* An endpoint that fails, or has no driver, is skipped. *)
configure_endpoint_return ==
    /\ pc = "configure_endpoint_wait"
    /\ \E r \in BOOLEAN :
         /\ Await(COMPLETION, r)
         /\ IF r /\ Head(eps).kind \in HidKinds
              THEN pc' = "set_protocol" /\ UNCHANGED eps
              ELSE pc' = "dispatch" /\ eps' = Tail(eps)
    /\ Ret /\ UNCHANGED <<drv, dcbaa, snap, i, cur, active, refused, buf>>

(* init_keyboard, init_mouse: SET_PROTOCOL, whose result is ignored. *)
set_protocol ==
    /\ pc = "set_protocol" /\ pc' = "set_protocol_wait"
    /\ SendTransfer("set_protocol")
    /\ Call /\ UNCHANGED owned

set_protocol_return ==
    /\ pc = "set_protocol_wait" /\ pc' = "init_driver"
    /\ \E r \in BOOLEAN : Await(TRANSFER, r)
    /\ Ret /\ UNCHANGED <<drv, dcbaa, mainVars>>

(* KBD_DCI, KBD_SLOT_ID and KBD_STATE, whatever they held before. *)
init_driver ==
    /\ pc = "init_driver" /\ pc' = "arm_first_report"
    /\ drv' = [drv EXCEPT ![Head(eps).kind] = [dci |-> Head(eps).dci, slot |-> cur.slot]]
    /\ UNCHANGED <<attached, latch, hw, reqVars, statics, dcbaa, ep0, mainVars, bounds>>

(* arm_next_report puts a TRB on the driver's ring; the controller ignores   *)
(* the doorbell of an endpoint it does not have.                             *)
Armed(k) ==
    LET s == drv[k].slot d == drv[k].dci IN
    IF d # 0 /\ hw[s].ep[d].st # "off" THEN [hw EXCEPT ![s].ep[d].trbs = @ + 1] ELSE hw

arm_first_report ==
    /\ pc = "arm_first_report" /\ pc' = "dispatch"
    /\ hw' = Armed(Head(eps).kind)
    /\ cur' = [cur EXCEPT ![Head(eps).kind] = TRUE]
    /\ eps' = Tail(eps)
    /\ UNCHANGED <<attached, latch, reqVars, statics, owned, snap, i, active, refused, buf, bounds>>

-----------------------------------------------------------------------------
(* The handler of vector 44: one event, then poll_keyboard and poll_mouse.  *)

ForDriver(k, e) == drv[k].dci # 0 /\ e.slot = drv[k].slot /\ e.dci = drv[k].dci

PortStatusChange(e) ==
    /\ e.type = "port"
    /\ PORT_CHANGE_PENDING' = TRUE
    /\ UNCHANGED <<COMPLETION, TRANSFER, hw>>

CommandCompletion(e) ==
    /\ e.type = "command"
    /\ COMPLETION' = [pending |-> TRUE, ok |-> e.ok, slot |-> e.slot, mine |-> e.mine]
    /\ UNCHANGED <<PORT_CHANGE_PENDING, TRANSFER, hw>>

(* Mutant: the next report is not armed. *)
ReportFor_no_rearm(k, e) ==
    /\ e.type = "transfer" /\ ForDriver(k, e)
    /\ k = "mouse" => ~ForDriver("keyboard", e)
    /\ UNCHANGED <<statics, hw>>

(* A report: the driver reads it and arms the next one, whatever the code. *)
ReportFor(k, e) ==
    /\ e.type = "transfer" /\ ForDriver(k, e)
    /\ k = "mouse" => ~ForDriver("keyboard", e)
    /\ hw' = Armed(k)
    /\ UNCHANGED statics

TransferCompletion(e) ==
    /\ e.type = "transfer" /\ \A k \in HidKinds : ~ForDriver(k, e)
    /\ TRANSFER' = [pending |-> TRUE, ok |-> e.ok, slot |-> e.slot, mine |-> e.mine]
    /\ UNCHANGED <<PORT_CHANGE_PENDING, COMPLETION, hw>>

Interrupt ==
    /\ events # <<>>
    /\ events' = Tail(events)
    /\ LET e == Head(events) IN
         \/ PortStatusChange(e) \/ CommandCompletion(e) \/ TransferCompletion(e)
         \/ \E k \in HidKinds : ReportFor(k, e)
    /\ pc' = IF pc = "halted" THEN "poll_hotplug" ELSE pc
    /\ UNCHANGED <<attached, latch, cmds, xfers, owned, mainVars, bounds>>

-----------------------------------------------------------------------------
(* The controller and the devices (external).                               *)

Event(type, slot, dci, ok, mine) ==
    [type |-> type, slot |-> slot, dci |-> dci, ok |-> ok, mine |-> mine]
Post(e) == events' = Append(events, e)

Fault == faults < MaxFaults /\ faults' = faults + 1

HwStep == UNCHANGED <<attached, latch, xfers, statics, owned, mainVars, pc, plugs, reports, late>>

(* The controller executes the oldest command. *)
ExecEnable ==
    /\ cmds # <<>> /\ Head(cmds).op = "enable" /\ cmds' = Tail(cmds)
    /\ LET free == {s \in Slots : hw[s].st = "disabled"} IN
         IF free = {} THEN Post(Event("command", 0, 0, FALSE, Head(cmds).mine)) /\ UNCHANGED hw
         ELSE LET s == CHOOSE t \in free : \A u \in free : t <= u IN
              /\ hw' = [hw EXCEPT ![s].st = "enabled"]
              /\ Post(Event("command", s, 0, TRUE, Head(cmds).mine))
    /\ HwStep /\ UNCHANGED faults

ExecAddress ==
    /\ cmds # <<>> /\ Head(cmds).op = "address" /\ cmds' = Tail(cmds)
    /\ LET c == Head(cmds) IN
         \/ /\ hw[c.slot].st = "enabled" /\ attached[c.port] # NoDevice
            /\ hw' = [hw EXCEPT ![c.slot] =
                        [@ EXCEPT !.st = "addressed", !.port = c.port,
                                  !.dev = attached[c.port], !.alive = TRUE]]
            /\ Post(Event("command", c.slot, 0, TRUE, c.mine)) /\ UNCHANGED faults
         \/ /\ hw[c.slot].st # "enabled" \/ attached[c.port] = NoDevice
            /\ Post(Event("command", c.slot, 0, FALSE, c.mine)) /\ UNCHANGED <<hw, faults>>
         \/ Fault /\ Post(Event("command", c.slot, 0, FALSE, c.mine)) /\ UNCHANGED hw
    /\ HwStep

ExecConfigure ==
    /\ cmds # <<>> /\ Head(cmds).op = "configure" /\ cmds' = Tail(cmds)
    /\ LET c == Head(cmds) IN
         \/ /\ hw[c.slot].st = "addressed"
            /\ hw' = [hw EXCEPT ![c.slot].ep[c.dci] = [st |-> "running", trbs |-> 0]]
            /\ Post(Event("command", c.slot, 0, TRUE, c.mine)) /\ UNCHANGED faults
         \/ /\ hw[c.slot].st # "addressed"
            /\ Post(Event("command", c.slot, 0, FALSE, c.mine)) /\ UNCHANGED <<hw, faults>>
         \/ Fault /\ Post(Event("command", c.slot, 0, FALSE, c.mine)) /\ UNCHANGED hw
    /\ HwStep

ExecDisable ==
    /\ cmds # <<>> /\ Head(cmds).op = "disable" /\ cmds' = Tail(cmds)
    /\ LET c == Head(cmds) IN
         /\ hw' = [hw EXCEPT ![c.slot] = FreeSlot]
         /\ Post(Event("command", c.slot, 0, hw[c.slot].st # "disabled", c.mine))
    /\ HwStep /\ UNCHANGED faults

(* A control transfer on EP0.  A failure halts the endpoint, and nothing    *)
(* answers a doorbell on a halted endpoint or one with no ring of its own.  *)
ExecTransfer ==
    /\ xfers # <<>> /\ xfers' = Tail(xfers)
    /\ LET x == Head(xfers)
           answers == hw[x.slot].st = "addressed" /\ ~hw[x.slot].ep0halted /\ x.ring = x.slot IN
         \/ ~answers /\ UNCHANGED <<hw, buf, events, faults>>
         \/ /\ answers /\ hw[x.slot].alive
            /\ Post(Event("transfer", x.slot, Ep0Dci, TRUE, x.mine))
            /\ buf' = IF x.req = "config" THEN Endpoints(hw[x.slot].dev) ELSE buf
            /\ UNCHANGED <<hw, faults>>
         \/ /\ answers
            /\ IF hw[x.slot].alive THEN Fault ELSE UNCHANGED faults
            /\ Post(Event("transfer", x.slot, Ep0Dci, FALSE, x.mine))
            /\ hw' = [hw EXCEPT ![x.slot].ep0halted = TRUE] /\ UNCHANGED buf
    /\ UNCHANGED <<attached, latch, cmds, statics, owned, snap, i, cur, eps, active, refused, pc,
                   plugs, reports, late>>

(* A device sends a report into the TRB that waits for it. *)
Report(s, d) ==
    /\ reports < MaxReports /\ reports' = reports + 1
    /\ hw[s].alive /\ hw[s].ep[d].st = "running" /\ hw[s].ep[d].trbs > 0
    /\ hw' = [hw EXCEPT ![s].ep[d].trbs = @ - 1]
    /\ Post(Event("transfer", s, d, TRUE, FALSE))
    /\ UNCHANGED <<attached, latch, cmds, xfers, statics, owned, mainVars, pc, plugs, faults, late>>

(* The controller polls a device that is gone: an error, the endpoint halts. *)
ReportFails(s, d) ==
    /\ hw[s].st = "addressed" /\ ~hw[s].alive
    /\ hw[s].ep[d].st = "running" /\ hw[s].ep[d].trbs > 0
    /\ hw' = [hw EXCEPT ![s].ep[d] = [st |-> "halted", trbs |-> @.trbs - 1]]
    /\ Post(Event("transfer", s, d, FALSE, FALSE))
    /\ UNCHANGED <<attached, latch, cmds, xfers, statics, owned, mainVars, pc, bounds>>

-----------------------------------------------------------------------------
(* The user (external).                                                     *)

User == /\ plugs < MaxPlugs /\ plugs' = plugs + 1
        /\ UNCHANGED <<cmds, xfers, statics, owned, mainVars, pc, reports, faults, late>>

(* A connect or disconnect sets the port's change bit.  A controller posts an *)
(* event when the bit was clear; when it is still set it need not (a real one *)
(* does not, one that is emulated may).  Nothing clears the bit: write_portsc *)
(* has no caller.                                                             *)
PortChange(p) ==
    /\ changed' = changed \cup {p}
    /\ \/ Post(Event("port", 0, 0, TRUE, FALSE)) /\ missed' = missed \ {p}
       \/ p \in changed /\ missed' = missed \cup {p} /\ UNCHANGED events

Plug(p, d) ==
    /\ User /\ attached[p] = NoDevice /\ CanPlug(p, d)
    /\ attached' = [attached EXCEPT ![p] = d]
    /\ PortChange(p) /\ UNCHANGED hw

Unplug(p) ==
    /\ User /\ attached[p] # NoDevice
    /\ attached' = [attached EXCEPT ![p] = NoDevice]
    /\ hw' = [s \in Slots |-> IF hw[s].port = p THEN [hw[s] EXCEPT !.alive = FALSE] ELSE hw[s]]
    /\ PortChange(p)

-----------------------------------------------------------------------------
Main ==
    \/ hlt \/ poll_hotplug \/ discover_and_init_hid_devices \/ disconnect_loop \/ connect_loop
    \/ disable_slot \/ disable_slot_return
    \/ enable_slot \/ enable_slot_return \/ address_device \/ address_device_return
    \/ get_device_descriptor \/ get_device_descriptor_return
    \/ get_configuration \/ get_configuration_return
    \/ set_configuration \/ set_configuration_return
    \/ dispatch_endpoint \/ configure_endpoint \/ configure_endpoint_return
    \/ set_protocol \/ set_protocol_return \/ init_driver \/ arm_first_report

Exec == ExecEnable \/ ExecAddress \/ ExecConfigure \/ ExecDisable \/ ExecTransfer

Next ==
    \/ Main \/ Interrupt \/ Exec
    \/ \E s \in Slots, d \in Dcis : Report(s, d) \/ ReportFails(s, d)
    \/ \E p \in Ports : Unplug(p) \/ \E d \in Devices : Plug(p, d)

Spec == Init /\ [][Next]_vars

(* The CPU runs, the controller executes what is on its rings and its        *)
(* events are delivered.  Users and devices are free.                        *)
FairSpec == Spec /\ WF_vars(Main) /\ WF_vars(Interrupt) /\ WF_vars(Exec)

-----------------------------------------------------------------------------
CommandWaits  == {"disable_slot_wait", "enable_slot_wait", "address_device_wait",
                  "configure_endpoint_wait"}
TransferWaits == {"get_device_descriptor_wait", "get_configuration_wait",
                  "set_configuration_wait", "set_protocol_wait"}
(* Main is enumerating a device that has a slot, or is about to shut one down. *)
HidSetup  == {"dispatch", "configure_endpoint", "configure_endpoint_wait",
              "set_protocol", "set_protocol_wait", "init_driver", "arm_first_report"}
Handling  == HidSetup \cup
             {"address_device", "address_device_wait", "get_device_descriptor",
              "get_device_descriptor_wait", "get_configuration", "get_configuration_wait",
              "set_configuration", "set_configuration_wait", "disable_slot", "disable_slot_wait"}
Pcs == Handling \cup {"hlt", "halted", "poll_hotplug", "discover", "disconnect", "connect",
                      "enable_slot", "enable_slot_wait"}

Entry  == [port : 0 .. NumPorts, slot : 0 .. MaxSlots, keyboard : BOOLEAN, mouse : BOOLEAN]
Static == [pending : BOOLEAN, ok : BOOLEAN, slot : 0 .. MaxSlots, mine : BOOLEAN]

(* Type invariant. *)
TypeOK ==
    /\ attached \in [Ports -> Devices \cup {NoDevice}]
    /\ changed \subseteq Ports /\ missed \subseteq changed
    /\ \A s \in Slots :
         /\ hw[s].st \in {"disabled", "enabled", "addressed"} /\ hw[s].port \in 0 .. NumPorts
         /\ \A d \in Dcis : hw[s].ep[d].st \in {"off", "running", "halted"}
                            /\ hw[s].ep[d].trbs \in Nat
    /\ PORT_CHANGE_PENDING \in BOOLEAN /\ COMPLETION \in Static /\ TRANSFER \in Static
    /\ drv \in [HidKinds -> [dci : Dcis \cup {0}, slot : 0 .. MaxSlots]]
    /\ dcbaa \subseteq Slots /\ ep0 \in 0 .. MaxSlots
    /\ active \in Seq(Entry) /\ cur \in Entry
    /\ pc \in Pcs /\ snap \subseteq Ports /\ i \in 1 .. NumPorts + 1 /\ refused \subseteq Ports

(* No wait of enable_slot, address_device, configure_endpoint, disable_slot  *)
(* or of a control transfer takes another request's answer for its own.      *)
OwnAnswer ==
    /\ pc \in CommandWaits /\ COMPLETION.pending => COMPLETION.mine
    /\ pc \in TransferWaits /\ TRANSFER.pending => TRANSFER.mine

(* ACTIVE_PORTS tells the truth: the slot of an entry is addressed, for the  *)
(* port of that entry, and its device context is in the DCBAA; no port and   *)
(* no slot occurs twice.                                                     *)
RegistryTrue ==
    /\ \A j \in DOMAIN active :
         LET s == active[j].slot IN
         s \in dcbaa /\ hw[s].st = "addressed" /\ hw[s].port = active[j].port
    /\ \A j, l \in DOMAIN active :
         active[j].port = active[l].port \/ active[j].slot = active[l].slot => j = l

(* The controller never writes through the DCBAA entry of an addressed slot  *)
(* that disable_slot has cleared, and control transfers for a slot are       *)
(* queued on the EP0 ring that slot was given by address_device.             *)
SlotMemory ==
    /\ \A s \in Slots : hw[s].st = "addressed" => s \in dcbaa
    /\ \A j \in DOMAIN xfers : xfers[j].ring = xfers[j].slot

(* A HID driver always points at a slot that main knows of, as a device of   *)
(* its kind: unplugging that device will find and stop the driver.           *)
DriverOwned ==
    \A k \in HidKinds : drv[k].dci # 0 =>
        \/ \E j \in DOMAIN active : active[j].slot = drv[k].slot /\ active[j][k]
        \/ pc \in HidSetup /\ cur.slot = drv[k].slot

(* The reports of a driver's endpoint that are under way to the handler. *)
InEvents(s, d) ==
    Cardinality({j \in DOMAIN events : events[j].type = "transfer" /\ events[j].slot = s
                                        /\ events[j].dci = d})

(* A running driver has exactly one report TRB in flight, armed or on its    *)
(* way back: arm_next_report is called once per report, so the driver never  *)
(* goes deaf and the single report buffer is never the target of two TRBs.   *)
OneReportInFlight ==
    \A k \in HidKinds :
        drv[k].dci # 0 /\ ~(pc = "arm_first_report" /\ Head(eps).kind = k) =>
            hw[drv[k].slot].ep[drv[k].dci].trbs + InEvents(drv[k].slot, drv[k].dci) = 1

Quiet     == /\ pc \in {"hlt", "halted"} /\ ~PORT_CHANGE_PENDING
             /\ \A j \in DOMAIN events : events[j].type # "port"
Connected == {p \in Ports : attached[p] # NoDevice}

(* When main sleeps with no port change pending or under way, the registry   *)
(* agrees with every port whose last change since a scan brought an event:   *)
(* what is registered is connected, and what is connected is registered      *)
(* unless its enumeration failed.  No event is lost between the swap of      *)
(* PORT_CHANGE_PENDING, the port scan and the sleep.                         *)
SyncedWhenQuiet == Quiet => Connected \ missed = (ActivePorts \cup refused) \ missed

(* What the comments of PORT_CHANGE_PENDING (set at each change of a port)   *)
(* and of discover_and_init_hid_devices (ACTIVE_PORTS follows the ports)     *)
(* promise: the same of every port, as if each change brought an event.      *)
RegistryFollowsPorts == Quiet => Connected = ActivePorts \cup refused

(* Every synchronisation ends: no wait hangs and the loops of                *)
(* discover_and_init_hid_devices finish, so main reaches hlt again.          *)
MainGetsIdle == []<>(pc = "halted")

(* Every keyboard and mouse in the registry has the driver of its kind. *)
EveryHidDriven ==
    \A j \in DOMAIN active : \A k \in HidKinds :
        active[j][k] => drv[k].dci # 0 /\ drv[k].slot = active[j].slot

(* A port change is eventually noticed by poll_hotplug. *)
ChangeNoticed == PORT_CHANGE_PENDING ~> ~PORT_CHANGE_PENDING

=============================================================================
