-------------------------- MODULE EventRing_proofs --------------------------
(***************************************************************************)
(* Proofs about EventRing, for every size of the event ring and every      *)
(* number of events: events are handled once and in order, and one event   *)
(* per interrupt loses no interrupt.                                       *)
(***************************************************************************)
EXTENDS EventRing, TLAPS

Inv == EventTypeOK /\ EventInv

USE DEF Bit, Cells, Event, Succ

(* A freshly set up ring satisfies the invariants. *)
LEMMA InitInv == EventInit => Inv /\ IrqInv
<1> SUFFICES ASSUME EventInit PROVE Inv /\ IrqInv
  OBVIOUS
<1> USE EventRingSizeAssumption
<1>1. EventTypeOK
  BY DEF EventInit, setup_event_ring, EventTypeOK
<1>2. Count /\ CycleBits /\ Contents
  BY DEF EventInit, setup_event_ring, Count, CycleBits, Contents, Unread, Distance
<1>3. IrqInv
  BY DEF EventInit, IrqInv, Serving
<1> QED
  BY <1>1, <1>2, <1>3 DEF Inv, EventInv

(* The controller posts an event: the check against ERDP protects the cells *)
(* the driver has not read.                                                 *)
LEMMA PostInv == Inv /\ HwPost => Inv'
<1> SUFFICES ASSUME Inv, HwPost PROVE Inv'
  OBVIOUS
<1> USE EventRingSizeAssumption
<1>1. EventTypeOK'
  <2>1. seg' \in [Cells -> Event]
    BY DEF Inv, EventTypeOK, HwPost
  <2> QED
    BY <2>1 DEF Inv, EventTypeOK, HwPost, drvVars, irqVars
<1>2. Count'
  BY DEF Inv, EventTypeOK, EventInv, Count, Distance, HwPost, drvVars, irqVars
<1>3. CycleBits'
  BY DEF Inv, EventTypeOK, EventInv, CycleBits, HwPost
<1>4. Contents'
  <2> SUFFICES ASSUME NEW i \in Cells, Unread(i)'
               PROVE  seg'[i].num = handled + 1 + (IF dequeue_index <= i
                                                     THEN i - dequeue_index
                                                     ELSE i + EventRingSize - dequeue_index)
    BY DEF Contents, HwPost, drvVars
  <2>1. CASE i = hwEnq
    <3>1. seg'[i].num = posted + 1
      BY <2>1 DEF Inv, EventTypeOK, HwPost
    <3>2. posted = handled + (IF dequeue_index <= i THEN i - dequeue_index
                                                    ELSE i + EventRingSize - dequeue_index)
      <4>1. /\ posted - handled = Distance /\ 0 <= Distance
            /\ Distance <= EventRingSize - 1
        BY DEF Inv, EventTypeOK, EventInv, Count, Distance
      <4>2. CASE hwCycle = cycle_state
        BY <2>1, <4>1, <4>2 DEF Inv, EventTypeOK, Distance
      <4>3. CASE hwCycle # cycle_state
        BY <2>1, <4>1, <4>3 DEF Inv, EventTypeOK, Distance
      <4> QED
        BY <4>2, <4>3
    <3>3. CASE dequeue_index <= i
      BY <3>1, <3>2, <3>3 DEF Inv, EventTypeOK
    <3>4. CASE ~(dequeue_index <= i)
      BY <3>1, <3>2, <3>4 DEF Inv, EventTypeOK
    <3> QED
      BY <3>3, <3>4
  <2>2. CASE i # hwEnq
    <3>1. seg'[i] = seg[i]
      BY <2>2 DEF Inv, EventTypeOK, HwPost
    <3>2. Unread(i)
      BY <2>2 DEF Inv, EventTypeOK, EventInv, Count, Distance, Unread, HwPost, drvVars
    <3> QED
      BY <3>1, <3>2 DEF Inv, EventInv, Contents
  <2> QED
    BY <2>1, <2>2
<1> QED
  BY <1>1, <1>2, <1>3, <1>4 DEF Inv, EventInv

(* The cell the driver reads next: if its cycle bit matches, it holds the   *)
(* oldest event not handled; an event that waits always matches.            *)
LEMMA NextCell ==
    ASSUME Inv
    PROVE  /\ seg[dequeue_index].cycle = cycle_state
                => handled < posted /\ seg[dequeue_index].num = handled + 1
                   /\ Unread(dequeue_index)
           /\ handled < posted => seg[dequeue_index].cycle = cycle_state
<1> USE EventRingSizeAssumption
<1>1. seg[dequeue_index].cycle = cycle_state <=> Unread(dequeue_index)
  BY DEF Inv, EventTypeOK, EventInv, CycleBits, Unread, Count, Distance
<1>2. handled < posted <=> Unread(dequeue_index)
  BY DEF Inv, EventTypeOK, EventInv, Unread, Count, Distance
<1>3. Unread(dequeue_index) => seg[dequeue_index].num = handled + 1
  BY DEF Inv, EventTypeOK, EventInv, Contents
<1> QED
  BY <1>1, <1>2, <1>3

(* The driver handles one event and moves on. *)
LEMMA PollInv == Inv /\ poll_event_ring => Inv' /\ handled < posted /\ handled' = handled + 1
<1> SUFFICES ASSUME Inv, poll_event_ring
             PROVE  Inv' /\ handled < posted /\ handled' = handled + 1
  OBVIOUS
<1> USE EventRingSizeAssumption
<1>1. handled < posted /\ handled' = handled + 1 /\ Unread(dequeue_index)
  BY NextCell DEF poll_event_ring
<1>2. EventTypeOK'
  <2>1. dequeue_index' \in Cells /\ cycle_state' \in Bit /\ handled' \in Nat
    BY <1>1 DEF Inv, EventTypeOK, poll_event_ring
  <2> QED
    BY <2>1 DEF Inv, EventTypeOK, poll_event_ring, hwVars, irqVars
<1>3. Count'
  <2>1. Distance \in Int /\ Distance' = Distance - 1
    BY <1>1 DEF Inv, EventTypeOK, EventInv, Distance, Unread, poll_event_ring, hwVars
  <2>2. pc = "poll" /\ pc' = "erdp" /\ posted' = posted /\ erdp' = erdp
    BY DEF poll_event_ring, hwVars, irqVars
  <2>3. dequeue_index' = Succ(erdp)
    BY <2>2 DEF Inv, EventTypeOK, EventInv, Count, poll_event_ring
  <2>4. posted - handled = Distance /\ Distance <= EventRingSize - 1
    BY <2>2 DEF Inv, EventInv, Count
  <2> QED
    BY <1>1, <2>1, <2>2, <2>3, <2>4 DEF Inv, EventTypeOK, Count
<1>4. CycleBits'
  BY DEF Inv, EventInv, CycleBits, poll_event_ring, hwVars
<1>5. Contents'
  <2> SUFFICES ASSUME NEW i \in Cells, Unread(i)'
               PROVE  seg[i].num = handled' + 1 + (IF dequeue_index' <= i
                                                     THEN i - dequeue_index'
                                                     ELSE i + EventRingSize - dequeue_index')
    BY DEF Contents, poll_event_ring, hwVars
  <2>1. Unread(i) /\ i # dequeue_index
    BY <1>1 DEF Inv, EventTypeOK, EventInv, Count, Distance, Unread, poll_event_ring, hwVars
  <2>2. seg[i].num = handled + 1 + (IF dequeue_index <= i THEN i - dequeue_index
                                                          ELSE i + EventRingSize - dequeue_index)
    BY <2>1 DEF Inv, EventInv, Contents
  <2>3. CASE dequeue_index + 1 >= EventRingSize
    <3>1. dequeue_index = EventRingSize - 1 /\ dequeue_index' = 0
      BY <2>3 DEF Inv, EventTypeOK, poll_event_ring
    <3> QED
      BY <1>1, <2>1, <2>2, <3>1 DEF Inv, EventTypeOK
  <2>4. CASE ~(dequeue_index + 1 >= EventRingSize)
    <3>1. dequeue_index' = dequeue_index + 1
      BY <2>4 DEF Inv, EventTypeOK, poll_event_ring
    <3> QED
      BY <1>1, <2>1, <2>2, <3>1 DEF Inv, EventTypeOK
  <2> QED
    BY <2>3, <2>4
<1> QED
  BY <1>1, <1>2, <1>3, <1>4, <1>5 DEF Inv, EventInv

(* The ERDP write. *)
LEMMA ErdpInv == Inv /\ write_erdp => Inv'
<1> SUFFICES ASSUME Inv, write_erdp PROVE Inv'
  OBVIOUS
<1> USE EventRingSizeAssumption
<1>1. EventTypeOK'
  BY DEF Inv, EventTypeOK, write_erdp, AfterPoll, drvVars, hwVars
<1>2. Count'
  BY DEF Inv, EventTypeOK, EventInv, Count, Distance, write_erdp, AfterPoll, drvVars, hwVars
<1>3. CycleBits' /\ Contents'
  BY DEF Inv, EventInv, CycleBits, Contents, Unread, write_erdp, drvVars, hwVars
<1> QED
  BY <1>1, <1>2, <1>3 DEF Inv, EventInv

(* The steps that touch neither the ring nor the indexes. *)
OtherSteps ==
    \/ HwRaise \/ Deliver \/ call_once \/ cli_critical \/ sti_critical \/ poll_loop
    \/ poll_event_ring_empty \/ handler_without_instance \/ send_eoi \/ UNCHANGED eventVars

(* They keep the invariant. *)
LEMMA OtherInv == Inv /\ OtherSteps => Inv'
<1> SUFFICES ASSUME Inv, OtherSteps PROVE Inv'
  OBVIOUS
<1> USE EventRingSizeAssumption
<1>1. EventTypeOK'
  <2>1. CASE HwRaise
    BY <2>1 DEF Inv, EventTypeOK, HwRaise, drvVars, hwVars
  <2>2. CASE Deliver
    BY <2>2 DEF Inv, EventTypeOK, Deliver, drvVars, hwVars
  <2>3. CASE call_once
    BY <2>3 DEF Inv, EventTypeOK, call_once, hwVars, irqVars
  <2>4. CASE cli_critical \/ sti_critical
    BY <2>4 DEF Inv, EventTypeOK, cli_critical, sti_critical, drvVars, hwVars, irqVars
  <2>5. CASE poll_loop \/ poll_event_ring_empty \/ send_eoi
    BY <2>5 DEF Inv, EventTypeOK, poll_loop, poll_event_ring_empty, send_eoi, AfterPoll,
                drvVars, hwVars, irqVars
  <2>6. CASE handler_without_instance
    BY <2>6 DEF Inv, EventTypeOK, handler_without_instance, AfterPoll, hwVars, irqVars
  <2>7. CASE UNCHANGED eventVars
    BY <2>7 DEF Inv, EventTypeOK, eventVars, drvVars, hwVars, irqVars
  <2> QED
    BY <2>1, <2>2, <2>3, <2>4, <2>5, <2>6, <2>7 DEF OtherSteps
<1>2. /\ UNCHANGED <<seg, hwEnq, hwCycle, posted, dequeue_index, cycle_state, handled, erdp>>
      /\ pc' = "erdp" <=> pc = "erdp"
  BY DEF OtherSteps, HwRaise, Deliver, call_once, cli_critical, sti_critical, poll_loop,
         poll_event_ring_empty, handler_without_instance, send_eoi, AfterPoll,
         eventVars, drvVars, hwVars, irqVars
<1>3. EventInv'
  BY <1>2 DEF Inv, EventInv, Count, Distance, CycleBits, Contents, Unread
<1> QED
  BY <1>1, <1>3 DEF Inv

(* Every step of controller, handler and main preserves the invariant. *)
LEMMA NextInv == Inv /\ [EventNext]_eventVars => Inv'
BY PostInv, PollInv, ErdpInv, OtherInv DEF EventNext, HandleEvent, Poll, OtherSteps

(* Every step preserves the interrupt protocol. *)
LEMMA NextIrq == Inv /\ IrqInv /\ [EventNext]_eventVars => IrqInv'
<1> SUFFICES ASSUME Inv, IrqInv, [EventNext]_eventVars, mode = "msix", skipped' = 0
             PROVE  IrqInv'
  BY DEF IrqInv, EventNext, HandleEvent, Poll, HwPost, HwRaise, Deliver, call_once, cli_critical, sti_critical,
         poll_loop, poll_event_ring, poll_event_ring_empty, handler_without_instance,
         write_erdp, send_eoi, eventVars, drvVars
<1> USE EventRingSizeAssumption
<1>1. CASE HwPost
  BY <1>1 DEF Inv, EventTypeOK, IrqInv, Serving, HwPost, drvVars, irqVars
<1>2. CASE HwRaise
  <2>1. handled < posted
    BY <1>2 DEF Inv, EventTypeOK, EventInv, Count, Distance, IrqInv, Serving, HwRaise, drvVars
  <2> QED
    BY <1>2, <2>1 DEF Inv, EventTypeOK, IrqInv, Serving, HwRaise, drvVars, hwVars
<1>3. CASE Deliver
  BY <1>3 DEF Inv, EventTypeOK, IrqInv, Serving, Deliver, drvVars, hwVars
<1>4. CASE call_once \/ cli_critical \/ sti_critical \/ poll_loop \/ send_eoi \/ UNCHANGED eventVars
  BY <1>4 DEF IrqInv, Serving, call_once, cli_critical, sti_critical, poll_loop, send_eoi,
              eventVars, drvVars, hwVars, irqVars
<1>5. CASE poll_event_ring
  BY <1>5, PollInv DEF IrqInv, Serving, poll_event_ring, hwVars, irqVars
<1>6. CASE poll_event_ring_empty
  BY <1>6, NextCell DEF IrqInv, poll_event_ring_empty, drvVars
<1>7. CASE handler_without_instance
  BY <1>7 DEF handler_without_instance
<1>8. CASE write_erdp
  BY <1>8 DEF Inv, EventTypeOK, IrqInv, Serving, write_erdp, AfterPoll, drvVars, hwVars
<1> QED
  BY <1>1, <1>2, <1>3, <1>4, <1>5, <1>6, <1>7, <1>8 DEF EventNext, HandleEvent, Poll

(* The indexes of driver and controller stay inside the segment, for every  *)
(* EVENT_RING_SIZE (poll_event_ring).                                       *)
THEOREM TypeCorrect == EventSpec => []EventTypeOK
<1>1. Inv => EventTypeOK
  BY DEF Inv
<1> QED
  BY InitInv, NextInv, <1>1, PTL DEF EventSpec

(* No event is overwritten before it is read and the cycle bits mark the    *)
(* new ones (setup_event_ring, poll_event_ring).                            *)
THEOREM EventRingSafe == EventSpec => []EventInv
<1>1. Inv => EventInv
  BY DEF Inv
<1> QED
  BY InitInv, NextInv, <1>1, PTL DEF EventSpec

(* Handling one event per interrupt loses no interrupt, if none came before *)
(* XHCI_INSTANCE was published (common_interrupt_handler, vector 44).       *)
THEOREM InterruptProtocol == EventSpec => []IrqInv
  BY InitInv, NextInv, NextIrq, PTL DEF EventSpec

(* poll_event_ring implements the FIFO: every event is handled at most once *)
(* and in the order in which the controller posted it.                      *)
THEOREM EventRingImplementsQueue == EventSpec => RefinesQueue
<1>1. EventInit => Queue!Init
  BY DEF EventInit, Queue!Init
<1>2. Inv /\ [EventNext]_eventVars => [Queue!Next]_Queue!vars
  <2> SUFFICES ASSUME Inv, [EventNext]_eventVars PROVE [Queue!Next]_Queue!vars
    OBVIOUS
  <2>1. CASE HwPost
    BY <2>1 DEF HwPost, drvVars, Queue!Next, Queue!Post
  <2>2. CASE poll_event_ring
    <3>1. handled < posted /\ handled' = handled + 1
      BY <2>2, PollInv
    <3> QED
      BY <2>2, <3>1 DEF poll_event_ring, hwVars, Queue!Next, Queue!Take
  <2>3. CASE OtherSteps \/ write_erdp
    BY <2>3 DEF OtherSteps, HwRaise, Deliver, call_once, cli_critical, sti_critical, poll_loop,
                poll_event_ring_empty, handler_without_instance, send_eoi, write_erdp,
                eventVars, drvVars, hwVars, Queue!vars
  <2> QED
    BY <2>1, <2>2, <2>3 DEF EventNext, HandleEvent, Poll, OtherSteps
<1> QED
  BY <1>1, <1>2, InitInv, NextInv, PTL DEF EventSpec, RefinesQueue, Queue!Spec

=============================================================================
