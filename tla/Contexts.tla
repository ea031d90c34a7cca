------------------------------ MODULE Contexts ------------------------------
(***************************************************************************)
(* Main context and the handler of vector 44 on the one CPU: the spin      *)
(* locks XHCI_INSTANCE, KBD_STATE and MOUSE_STATE, the interrupt flag, and *)
(* the terminal both print to.                                             *)
(*                                                                         *)
(* Each function is written as the code orders its cli, sti, lock, drop,   *)
(* print and the work that matters here; a wait for a completion is one    *)
(* step that can always end (the loops count down a timeout).  ACTIVE_PORTS *)
(* is left out: main alone takes it, once per scan.                        *)
(***************************************************************************)
EXTENDS SpinLocks, Terminal

X == "XHCI_INSTANCE"
K == "KBD_STATE"
M == "MOUSE_STATE"

KernelLocks == {X, K, M}

(* Arm: the Normal TRB is on the ring and the doorbell rung.  Stop: the       *)
(* state is taken, DCI and slot are cleared.                                 *)
Drivers   == {"keyboard", "mouse"}
State(d)  == IF d = "keyboard" THEN K ELSE M
Arm(d)    == IF d = "keyboard" THEN "arm_keyboard" ELSE "arm_mouse"
Stop(d)   == IF d = "keyboard" THEN "stop_keyboard" ELSE "stop_mouse"
Report(d) == d              \* the interrupt that brings a report of d

KernelWork == {"print", "wait"} \cup {Arm(d) : d \in Drivers} \cup {Stop(d) : d \in Drivers}

-----------------------------------------------------------------------------
(* xhci.rs *)

(* Mutant: the guard lives on until after sti. *)
Request_guard_after_sti(work) == <<Cli, Lock(X)>> \o work \o <<Sti, Unlock(X)>>

(* Mutant: sti is forgotten. *)
Request_no_sti(work) == <<Cli, Lock(X)>> \o work \o <<Unlock(X)>>

(* A command or a control transfer is sent in a cli .. sti section. *)
Request(work) == <<Cli, Lock(X)>> \o work \o <<Unlock(X), Sti>>

enable_slot              == Request(<<>>) \o <<Do("wait")>>
disable_slot             == Request(<<>>) \o <<Do("wait")>>
clear_dcbaa              == <<Lock(X), Unlock(X), Do("print")>>  \* after success
address_device           == <<Lock(X), Unlock(X)>> \o Request(<<>>) \o <<Do("wait"), Do("print")>>
get_device_descriptor    == Request(<<>>) \o <<Do("wait"), Do("print")>>
control_transfer_in      == Request(<<>>) \o <<Do("wait"), Do("print")>>
control_transfer_no_data == Request(<<Do("print")>>) \o <<Do("wait")>>
configure_endpoint       == Request(<<>>) \o <<Do("wait"), Do("print")>>

-----------------------------------------------------------------------------
(* keyboard_usb.rs and mouse_usb.rs *)

arm_next_report(d) ==
    <<Lock(State(d)), Lock(X), Do(Arm(d)), Unlock(X), Unlock(State(d))>>

init_driver(d) ==
    control_transfer_no_data \o <<Lock(State(d)), Unlock(State(d))>>
      \o arm_next_report(d) \o <<Do("print")>>

shutdown_driver(d) == <<Lock(State(d)), Do(Stop(d)), Do("print"), Unlock(State(d))>>

(* The slot is not the one the driver serves. *)
shutdown_other(d) == <<Lock(State(d)), Unlock(State(d))>>

(* Mutant: the guard over the report is alive when the next one is armed. *)
poll_driver_keeps_guard(d) ==
    <<Lock(State(d)), Unlock(State(d)), Lock(State(d)), Do("print")>>
      \o arm_next_report(d) \o <<Unlock(State(d))>>

(* poll_keyboard: the buffer's address, handle_report (a key is echoed, a    *)
(* movement logged), and the next report is armed.  Its early return for a   *)
(* state that is None is out of reach: DCI and slot are cleared with it.     *)
poll_driver(d) ==
    <<Lock(State(d)), Unlock(State(d)), Lock(State(d)), Do("print"), Unlock(State(d))>>
      \o arm_next_report(d)

-----------------------------------------------------------------------------
(* usb/mod.rs and main.rs *)

(* Mutant: the guard of the port list is kept for the whole scan. *)
discover_long_guard == <<Lock(X), Do("print")>>

discover_and_init_hid_devices == <<Lock(X), Unlock(X), Do("print")>>

poll_hotplug == <<Do("print")>>  \* hlt, then the flag is set

KernelBody ==
    [poll_hotplug             |-> poll_hotplug,
     discover                 |-> discover_and_init_hid_devices,
     shutdown_keyboard        |-> shutdown_driver("keyboard"),
     shutdown_mouse           |-> shutdown_driver("mouse"),
     shutdown_other_keyboard  |-> shutdown_other("keyboard"),
     shutdown_other_mouse     |-> shutdown_other("mouse"),
     disable_slot             |-> disable_slot,
     clear_dcbaa              |-> clear_dcbaa,
     enable_slot              |-> enable_slot,
     address_device           |-> address_device,
     get_device_descriptor    |-> get_device_descriptor,
     control_transfer_in      |-> control_transfer_in,
     control_transfer_no_data |-> control_transfer_no_data,
     configure_endpoint       |-> configure_endpoint,
     init_keyboard            |-> init_driver("keyboard"),
     init_mouse               |-> init_driver("mouse")]

KernelFunctions == DOMAIN KernelBody

(* discover_and_init_hid_devices, shutdown_device, init_one_device and       *)
(* dispatch_endpoint: which call may follow which.                           *)
NextDevice     == {"enable_slot", "poll_hotplug"}
MouseShutdown  == {"shutdown_mouse", "shutdown_other_mouse", "disable_slot"}
Disconnect     == {"shutdown_keyboard", "shutdown_other_keyboard"} \cup MouseShutdown
KernelSuccessors ==
    [poll_hotplug             |-> {"discover"},
     discover                 |-> Disconnect \cup NextDevice,
     shutdown_keyboard        |-> MouseShutdown,
     shutdown_other_keyboard  |-> MouseShutdown,
     shutdown_mouse           |-> {"disable_slot"},
     shutdown_other_mouse     |-> {"disable_slot"},
     disable_slot             |-> {"clear_dcbaa"} \cup Disconnect \cup NextDevice,
     clear_dcbaa              |-> Disconnect \cup NextDevice,
     enable_slot              |-> {"address_device"} \cup NextDevice,
     address_device           |-> {"get_device_descriptor"} \cup NextDevice,
     get_device_descriptor    |-> {"control_transfer_in"} \cup NextDevice,
     control_transfer_in      |-> {"control_transfer_no_data"} \cup NextDevice,
     control_transfer_no_data |-> {"configure_endpoint"} \cup NextDevice,
     configure_endpoint       |-> {"configure_endpoint", "init_keyboard", "init_mouse"}
                                    \cup NextDevice,
     init_keyboard            |-> {"configure_endpoint"} \cup NextDevice,
     init_mouse               |-> {"configure_endpoint"} \cup NextDevice]

(* common_interrupt_handler for vector 44: poll_event_ring under the lock    *)
(* (it prints every event but a report), then the driver whose report it is. *)
KernelInterrupts == {"event"} \cup {Report(d) : d \in Drivers}
KernelHandler ==
    [e \in KernelInterrupts |->
        IF e = "event" THEN <<Lock(X), Do("print"), Unlock(X)>>
        ELSE <<Lock(X), Unlock(X)>> \o poll_driver(e)]

(* The functions that lock without cli. *)
KernelOpenSites ==
    [f \in KernelFunctions |->
        CASE f \in {"discover", "clear_dcbaa", "address_device"} -> {X}
          [] f = "init_keyboard"                                 -> {K, X}
          [] f = "init_mouse"                                    -> {M, X}
          [] f \in {"shutdown_keyboard", "shutdown_other_keyboard"} -> {K}
          [] f \in {"shutdown_mouse", "shutdown_other_mouse"}    -> {M}
          [] OTHER                                               -> {}]

-----------------------------------------------------------------------------
VARIABLE armed  \* drivers whose report TRB is with the controller

vars == <<lockVars, termVars, armed>>

(* init_xhci_controller has published XHCI_INSTANCE and scans for the first  *)
(* time.  The boot messages leave the cursor at a place that printing from   *)
(* the top left can take it to.                                              *)
Init == LockInit /\ TermInit /\ armed = {}

main_lock_op ==
    /\ cli \/ sti \/ \E l \in Locks : main_lock(l) \/ main_unlock(l)
    /\ UNCHANGED <<termVars, armed>>

(* A shutdown belongs to the slot that the driver serves, or is a no-op. *)
Return ==
    /\ main_return
    /\ fn' = "shutdown_keyboard" => "keyboard" \in armed
    /\ fn' = "shutdown_mouse" => "mouse" \in armed
    /\ UNCHANGED <<termVars, armed>>

main_wait == main_work("wait") /\ UNCHANGED <<termVars, armed>>

main_arm(d) ==
    /\ main_work(Arm(d)) /\ armed' = armed \cup {d}
    /\ UNCHANGED termVars

main_stop(d) ==
    /\ main_work(Stop(d)) /\ armed' = armed \ {d}
    /\ UNCHANGED termVars

(* println: a character is started, printed step by step, and so on. *)
main_put ==
    /\ MainRuns /\ MainOp = Do("print")
    /\ StartPut \/ PutStep
    /\ UNCHANGED <<lockVars, armed>>

main_printed ==
    /\ main_work("print") /\ put = "idle"
    /\ UNCHANGED <<termVars, armed>>

(* A report needs a TRB the controller can fill in. *)
Interrupt ==
    /\ \E e \in Interrupts : TakeInterrupt(e) /\ (e \in Drivers => e \in armed)
    /\ armed' = armed \ {irq'}
    /\ UNCHANGED termVars

handler_lock_op ==
    /\ \E l \in Locks : handler_lock(l) \/ handler_unlock(l)
    /\ UNCHANGED <<termVars, armed>>

handler_arm(d) ==
    /\ handler_work(Arm(d)) /\ armed' = armed \cup {d}
    /\ UNCHANGED termVars

handler_put ==
    /\ HandlerRuns /\ HandlerOp = Do("print")
    /\ handler_newline \/ handler_glyph
    /\ UNCHANGED <<lockVars, armed>>

handler_printed == handler_work("print") /\ UNCHANGED <<termVars, armed>>

Iretq == iretq /\ UNCHANGED <<termVars, armed>>

Main == \/ main_lock_op \/ Return \/ main_wait \/ main_put \/ main_printed
        \/ \E d \in Drivers : main_arm(d) \/ main_stop(d)
HandlerProgress == \/ handler_lock_op \/ handler_printed \/ Iretq
                   \/ \E d \in Drivers : handler_arm(d)

Next == Main \/ Interrupt \/ HandlerProgress \/ handler_put

(* The CPU executes; a string that the handler prints comes to its end. *)
Spec == Init /\ [][Next]_vars /\ WF_vars(HandlerProgress)

-----------------------------------------------------------------------------
(* What the theorems about SpinLocks ask of the functions they are about.     *)
TextOK == CodeStructured /\ SitesComplete /\ KernelWork \subseteq Work

TypeOK == TextOK /\ LockTypeOK /\ TermTypeOK /\ armed \subseteq Drivers

(* The handler of vector 44 returns, which is what sends EOI, unless it      *)
(* spins on a lock of the code it interrupted.                               *)
HandlerReturns == irq # NoInterrupt ~> (irq = NoInterrupt \/ \E l \in Locks : SpinsOn(l))
=============================================================================
