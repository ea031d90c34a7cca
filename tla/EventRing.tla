----------------------------- MODULE EventRing ------------------------------
(***************************************************************************)
(* The event ring of kernel/src/usb/xhci.rs together with the interrupt    *)
(* path that empties it: the controller produces, and poll_event_ring,     *)
(* called from the handler of vector 44 (interrupt.rs), consumes ONE event *)
(* per interrupt.  The controller raises a new interrupt only while its    *)
(* Event Handler Busy flag (EHB) is clear, and the only place that clears  *)
(* it is the ERDP write at the end of poll_event_ring.  When MSI-X could   *)
(* not be set up, init_xhci_controller polls the ring in a loop instead.   *)
(***************************************************************************)
EXTENDS Integers

CONSTANTS
    EventRingSize,  \* EVENT_RING_SIZE
    MaxEvents       \* bound: events the controller posts in a behaviour

ASSUME EventRingSizeAssumption == EventRingSize \in Nat /\ EventRingSize >= 2
ASSUME MaxEventsAssumption     == MaxEvents \in Nat

VARIABLES
    mode,           \* msix_ok: "msix", or "poll" for the fallback loop
    instance,       \* XHCI_INSTANCE: "none" before call_once, then "some"
    seg,            \* ring memory: number (history) and cycle bit of each event
    dequeue_index,  \* consumer index
    cycle_state,    \* consumer cycle state, 0 or 1
    pc,             \* where the CPU is in the handler, or in the polling loop
    iflag,          \* the CPU's interrupt flag in main context
    irr,            \* LAPIC: vector 44 requested and not yet delivered
    handled,        \* events consumed so far (history)
    skipped,        \* 1 once the handler ran before call_once (history)
    hwEnq,          \* controller: enqueue index
    hwCycle,        \* controller: producer cycle state
    erdp,           \* controller: dequeue pointer the driver reported last
    ehb,            \* controller: Event Handler Busy
    posted          \* controller: events posted so far (history)

drvVars == <<mode, instance, dequeue_index, cycle_state, handled, skipped>>
hwVars  == <<seg, hwEnq, hwCycle, posted>>
irqVars == <<erdp, ehb, irr>>
eventVars == <<drvVars, hwVars, irqVars, pc, iflag>>

Bit   == {0, 1}
Cells == 0 .. EventRingSize - 1
Event == [num : Nat, cycle : Bit]

(* The next cell around the ring, for the controller's own index. *)
Succ(i) == IF i = EventRingSize - 1 THEN 0 ELSE i + 1

-----------------------------------------------------------------------------
(* setup_event_ring: a zeroed segment, ERDP at its start, cycle state 1.   *)
(* init_xhci then starts the controller, with interrupts enabled.          *)
setup_event_ring ==
    /\ seg = [i \in Cells |-> [num |-> 0, cycle |-> 0]]
    /\ dequeue_index = 0 /\ cycle_state = 1 /\ erdp = 0

EventInit ==
    /\ setup_event_ring
    /\ mode \in {"msix", "poll"} /\ instance = "none"
    /\ pc = "main" /\ iflag = 1 /\ irr = 0 /\ ehb = 0
    /\ hwEnq = 0 /\ hwCycle = 1 /\ posted = 0 /\ handled = 0 /\ skipped = 0

-----------------------------------------------------------------------------
(* Controller and local APIC (external).                                   *)

(* An event is posted unless that would make the ring look empty. *)
HwPost ==
    /\ posted < MaxEvents
    /\ Succ(hwEnq) # erdp
    /\ seg' = [seg EXCEPT ![hwEnq] = [num |-> posted + 1, cycle |-> hwCycle]]
    /\ posted' = posted + 1
    /\ hwEnq' = Succ(hwEnq)
    /\ hwCycle' = IF hwEnq = EventRingSize - 1 THEN 1 - hwCycle ELSE hwCycle
    /\ UNCHANGED <<drvVars, irqVars, pc, iflag>>

(* The interrupter fires: the ring is not empty and the handler not busy. *)
HwRaise ==
    /\ ehb = 0 /\ erdp # hwEnq
    /\ ehb' = 1
    /\ irr' = IF mode = "msix" THEN 1 ELSE irr
    /\ UNCHANGED <<drvVars, hwVars, erdp, pc, iflag>>

(* Delivery through an interrupt gate: never inside the handler, which runs *)
(* with IF clear, and never before the EOI of the previous one.             *)
Deliver ==
    /\ irr = 1 /\ iflag = 1 /\ pc = "main"
    /\ irr' = 0 /\ pc' = "poll"
    /\ UNCHANGED <<drvVars, hwVars, erdp, ehb, iflag>>

-----------------------------------------------------------------------------
(* Main context.                                                           *)

(* XHCI_INSTANCE.call_once, after the controller is already running. *)
call_once ==
    /\ mode = "msix" /\ instance = "none" /\ pc = "main"
    /\ instance' = "some"
    /\ UNCHANGED <<mode, dequeue_index, cycle_state, handled, skipped, hwVars, irqVars, pc, iflag>>

(* The cli .. sti brackets around the driver's critical sections. *)
cli_critical == /\ instance = "some" /\ pc = "main" /\ iflag = 1 /\ iflag' = 0
                /\ UNCHANGED <<drvVars, hwVars, irqVars, pc>>
sti_critical == /\ pc = "main" /\ iflag = 0 /\ iflag' = 1
                /\ UNCHANGED <<drvVars, hwVars, irqVars, pc>>

(* The fallback: loop { xhci_dev.poll_event_ring() }. *)
poll_loop ==
    /\ mode = "poll" /\ pc = "main"
    /\ pc' = "poll"
    /\ UNCHANGED <<drvVars, hwVars, irqVars, iflag>>

-----------------------------------------------------------------------------
(* The handler of vector 44.                                               *)

AfterPoll == IF mode = "msix" THEN "eoi" ELSE "main"

(* Mutant: the consumer forgets that the cycle state changes every lap. *)
poll_event_ring_no_toggle ==
    /\ pc = "poll" /\ (mode = "msix" => instance = "some")
    /\ seg[dequeue_index].cycle = cycle_state
    /\ handled' = seg[dequeue_index].num
    /\ dequeue_index' = IF dequeue_index + 1 >= EventRingSize THEN 0 ELSE dequeue_index + 1
    /\ pc' = "erdp"
    /\ UNCHANGED <<mode, instance, skipped, cycle_state, hwVars, irqVars, iflag>>

(* Mutant: off by one at the end of the segment. *)
poll_event_ring_late_wrap ==
    /\ pc = "poll" /\ (mode = "msix" => instance = "some")
    /\ seg[dequeue_index].cycle = cycle_state
    /\ handled' = seg[dequeue_index].num
    /\ IF dequeue_index + 1 > EventRingSize
         THEN dequeue_index' = 0 /\ cycle_state' = 1 - cycle_state
         ELSE dequeue_index' = dequeue_index + 1 /\ UNCHANGED cycle_state
    /\ pc' = "erdp"
    /\ UNCHANGED <<mode, instance, skipped, hwVars, irqVars, iflag>>

(* Mutant: the cycle bit is not looked at. *)
poll_event_ring_no_cycle_check ==
    /\ pc = "poll" /\ (mode = "msix" => instance = "some")
    /\ handled' = seg[dequeue_index].num
    /\ IF dequeue_index + 1 >= EventRingSize
         THEN dequeue_index' = 0 /\ cycle_state' = 1 - cycle_state
         ELSE dequeue_index' = dequeue_index + 1 /\ UNCHANGED cycle_state
    /\ pc' = "erdp"
    /\ UNCHANGED <<mode, instance, skipped, hwVars, irqVars, iflag>>

(* One event is read, dispatched and passed. *)
poll_event_ring ==
    /\ pc = "poll" /\ (mode = "msix" => instance = "some")
    /\ seg[dequeue_index].cycle = cycle_state
    /\ handled' = seg[dequeue_index].num
    /\ IF dequeue_index + 1 >= EventRingSize
         THEN dequeue_index' = 0 /\ cycle_state' = 1 - cycle_state
         ELSE dequeue_index' = dequeue_index + 1 /\ UNCHANGED cycle_state
    /\ pc' = "erdp"
    /\ UNCHANGED <<mode, instance, skipped, hwVars, irqVars, iflag>>

(* Its early return: the cell holds no new event.  ERDP is not written. *)
poll_event_ring_empty ==
    /\ pc = "poll" /\ (mode = "msix" => instance = "some")
    /\ seg[dequeue_index].cycle # cycle_state
    /\ pc' = AfterPoll
    /\ UNCHANGED <<drvVars, hwVars, irqVars, iflag>>

(* XHCI_INSTANCE.get() is None: the handler does not look at the ring. *)
handler_without_instance ==
    /\ pc = "poll" /\ mode = "msix" /\ instance = "none"
    /\ pc' = AfterPoll /\ skipped' = 1
    /\ UNCHANGED <<mode, instance, dequeue_index, cycle_state, handled,
                   hwVars, irqVars, iflag>>

(* Mutant: the new dequeue pointer is written without the EHB bit. *)
write_erdp_keep_ehb ==
    /\ pc = "erdp"
    /\ erdp' = dequeue_index
    /\ pc' = AfterPoll
    /\ UNCHANGED <<drvVars, hwVars, ehb, irr, iflag>>

(* ir0.write_erdp(new_erdp | (1 << 3)): report the position, clear EHB. *)
write_erdp ==
    /\ pc = "erdp"
    /\ erdp' = dequeue_index /\ ehb' = 0
    /\ pc' = AfterPoll
    /\ UNCHANGED <<drvVars, hwVars, irr, iflag>>

(* Mutant: the handler of vector 44 ends like the catch-all one, in loop {}. *)
send_eoi_missing ==
    /\ pc = "eoi"
    /\ pc' = "hang"
    /\ UNCHANGED <<drvVars, hwVars, irqVars, iflag>>

(* lapic.send_eoi() and iretq. *)
send_eoi ==
    /\ pc = "eoi"
    /\ pc' = "main"
    /\ UNCHANGED <<drvVars, hwVars, irqVars, iflag>>

-----------------------------------------------------------------------------
Poll    == poll_event_ring \/ poll_event_ring_empty \/ handler_without_instance
HandleEvent == Poll \/ write_erdp \/ send_eoi

EventNext ==
    \/ HwPost \/ HwRaise \/ Deliver
    \/ call_once \/ cli_critical \/ sti_critical \/ poll_loop
    \/ HandleEvent

EventSpec == EventInit /\ [][EventNext]_eventVars

(* The CPU executes; the controller raises what it owes.  A pending         *)
(* interrupt is delivered at the first instruction boundary after sti, so   *)
(* brackets of cli and sti cannot put it off for ever: strong fairness.     *)
EventFairSpec ==
    /\ EventSpec
    /\ WF_eventVars(HwRaise) /\ SF_eventVars(Deliver)
    /\ WF_eventVars(HandleEvent) /\ WF_eventVars(call_once)
    /\ WF_eventVars(sti_critical) /\ WF_eventVars(poll_loop)

-----------------------------------------------------------------------------
(* Type invariant. *)
EventTypeOK ==
    /\ mode \in {"msix", "poll"} /\ instance \in {"none", "some"}
    /\ seg \in [Cells -> Event]
    /\ dequeue_index \in Cells /\ cycle_state \in Bit
    /\ handled \in Nat /\ skipped \in Bit
    /\ pc \in {"main", "poll", "erdp", "eoi"} /\ iflag \in Bit
    /\ hwEnq \in Cells /\ hwCycle \in Bit /\ posted \in Nat
    /\ erdp \in Cells /\ ehb \in Bit /\ irr \in Bit

(* How far the controller is ahead of the driver. *)
Distance ==
    IF hwCycle = cycle_state THEN hwEnq - dequeue_index
                             ELSE hwEnq + EventRingSize - dequeue_index

(* Both sides agree on it; the controller, which only knows the ERDP, never  *)
(* overtakes the cell the driver is reading or has not reported yet.         *)
Count ==
    /\ posted - handled = Distance
    /\ 0 <= Distance
    /\ Distance <= EventRingSize - (IF pc = "erdp" THEN 2 ELSE 1)
    /\ dequeue_index = IF pc = "erdp" THEN Succ(erdp) ELSE erdp

(* The cycle bit tells the events of this lap from those of the last one. *)
CycleBits ==
    \A i \in Cells : seg[i].cycle = (IF i < hwEnq THEN hwCycle ELSE 1 - hwCycle)

Unread(i) ==
    IF hwCycle = cycle_state THEN dequeue_index <= i /\ i < hwEnq
                             ELSE dequeue_index <= i \/ i < hwEnq

(* The unread cells hold the events handled+1 .. posted, in order. *)
Contents ==
    \A i \in Cells :
        Unread(i) =>
            seg[i].num = handled + 1 + (IF dequeue_index <= i
                                          THEN i - dequeue_index
                                          ELSE i + EventRingSize - dequeue_index)

(* Inductive invariant of the event ring (setup_event_ring, poll_event_ring  *)
(* against the controller's writes): no event is overwritten before it is    *)
(* read, none is read twice, and the cycle bits mark the new ones.           *)
EventInv == Count /\ CycleBits /\ Contents

(* The handler owes the controller an ERDP write. *)
Serving == pc \in {"poll", "erdp"}

(* One event per interrupt is enough (common_interrupt_handler calls         *)
(* poll_event_ring once): as long as no interrupt came before XHCI_INSTANCE  *)
(* was published, EHB is set exactly while an interrupt is requested or      *)
(* being served, never both, so an event that waits is always followed by    *)
(* an interrupt; and no interrupt finds the ring empty, so the early return  *)
(* of poll_event_ring, which would leave EHB set, is not taken.              *)
IrqInv ==
    mode = "msix" /\ skipped = 0 =>
        /\ ehb = 1 <=> (irr = 1 \/ Serving)
        /\ irr = 1 => ~Serving
        /\ (irr = 1 \/ pc = "poll") => handled < posted

Queue == INSTANCE TrbQueue WITH taken <- handled

(* poll_event_ring handles every event once and in the order in which the    *)
(* controller posted it, in interrupt mode and in the polling fallback.      *)
RefinesQueue == Queue!Spec

(* Every event the controller posts is handled in the end, although each     *)
(* interrupt handles only one of them: again and again none is left.         *)
EveryEventHandled == []<>(handled = posted)

(* The same, unless an interrupt was delivered between start_controller and  *)
(* XHCI_INSTANCE.call_once.                                                  *)
EventsHandledUnlessSkipped == []<>(handled = posted \/ skipped = 1)

=============================================================================
