------------------------------ MODULE TrbRing -------------------------------
(***************************************************************************)
(* The rings on which the driver is the producer and the xHC the consumer  *)
(* (kernel/src/usb/xhci.rs): the command ring, the EP0 control ring and    *)
(* the interrupt-IN transfer rings of the HID drivers.  Producer and       *)
(* consumer share no index; the consumer recognises a new TRB by its cycle *)
(* bit.  The driver's writes are separate steps because the controller     *)
(* fetches by DMA while the CPU is between two of them.                    *)
(*                                                                         *)
(* Only the interrupt rings carry a Link TRB in their last cell; the two   *)
(* other enqueue functions wrap their index without writing one.           *)
(***************************************************************************)
EXTENDS Integers

CONSTANTS
    RingSize,     \* COMMAND_RING_SIZE, CONTROL_RING_SIZE, KBD_RING_SIZE
    MaxInFlight,  \* TRBs the callers let pile up: they wait for each completion
    Budget        \* bound: TRBs posted in a behaviour, per kind of ring

Kinds == {"command", "ep0", "interrupt"}

ASSUME RingSizeAssumption == RingSize \in Nat /\ RingSize >= 3
ASSUME MaxInFlightAssumption ==
    MaxInFlight \in Nat /\ 1 <= MaxInFlight /\ MaxInFlight <= RingSize - 2
ASSUME BudgetAssumption == Budget \in [Kinds -> Nat]

VARIABLES
    kind,           \* which of the three rings this is
    trbs,           \* ring memory: type, number (history) and cycle bit of each cell
    enqueue_index,  \* producer index
    cycle_state,    \* producer cycle state, 0 or 1 as it is written in a TRB
    pc,             \* where the driver is in the enqueue function
    tdLeft,         \* TRBs of the current transfer descriptor still to be written
    posted,         \* TRBs written so far (history)
    hwIndex,        \* controller: dequeue index
    hwCycle,        \* controller: consumer cycle state
    hwState,        \* controller: fetching, or stopped until the next doorbell
    taken           \* controller: number of the TRB it fetched last (history)

drvVars == <<enqueue_index, cycle_state, pc, tdLeft>>
hwVars  == <<hwIndex, hwCycle, hwState, taken>>
vars    == <<kind, trbs, drvVars, posted, hwVars>>

LinkCell == RingSize - 1      \* the cell of the Link TRB

Types == {"none", "normal", "link"}
Trb   == [type : Types, num : Nat, cycle : {0, 1}]

EmptyTrb        == [type |-> "none", num |-> 0, cycle |-> 0]
NormalTrb(n, c) == [type |-> "normal", num |-> n, cycle |-> c]
LinkTrb(c)      == [type |-> "link", num |-> 0, cycle |-> c]

-----------------------------------------------------------------------------
(* Ring allocation: memory zeroed, cycle state 1; configure_endpoint also  *)
(* writes the Link TRB of an interrupt ring.                               *)

(* Mutant: the ring is used as the allocator returned it, with old TRBs in it. *)
FreshInterruptRing_dirty ==
    [i \in 0 .. LinkCell |-> IF i = LinkCell THEN LinkTrb(1) ELSE NormalTrb(0, 1)]

FreshCommandRing   == [i \in 0 .. LinkCell |-> EmptyTrb]
FreshControlRing   == [i \in 0 .. LinkCell |-> EmptyTrb]
FreshInterruptRing == [i \in 0 .. LinkCell |-> IF i = LinkCell THEN LinkTrb(1) ELSE EmptyTrb]

FreshRing(k) == CASE k = "command"   -> FreshCommandRing
                  [] k = "ep0"       -> FreshControlRing
                  [] k = "interrupt" -> FreshInterruptRing

Init ==
    /\ kind \in Kinds
    /\ trbs = FreshRing(kind)
    /\ enqueue_index = 0 /\ cycle_state = 1
    /\ pc = "idle" /\ tdLeft = 0 /\ posted = 0
    /\ hwIndex = 0 /\ hwCycle = 1 /\ hwState = "stopped" /\ taken = 0

-----------------------------------------------------------------------------
(* Driver.                                                                 *)

(* A caller hands over a transfer descriptor of len TRBs. *)
StartTd(len) ==
    /\ pc = "idle"
    /\ posted - taken + len <= MaxInFlight
    /\ posted + len <= Budget[kind]
    /\ pc' = "write" /\ tdLeft' = len
    /\ UNCHANGED <<kind, trbs, enqueue_index, cycle_state, posted, hwVars>>

(* One command is one TRB. *)
send_command == kind = "command" /\ StartTd(1)

(* Setup, Data and Status stage; a transfer without data has no Data stage. *)
control_transfer_in      == kind = "ep0" /\ StartTd(3)
control_transfer_no_data == kind = "ep0" /\ StartTd(2)

(* One report buffer is one Normal TRB. *)
arm_next_report == kind = "interrupt" /\ StartTd(1)

(* trbs.add(enqueue_index).write_volatile(trb), the same in the three functions. *)
write_trb ==
    /\ pc = "write"
    /\ trbs' = [trbs EXCEPT ![enqueue_index] = NormalTrb(posted + 1, cycle_state)]
    /\ posted' = posted + 1
    /\ tdLeft' = tdLeft - 1
    /\ pc' = "advance"
    /\ UNCHANGED <<kind, enqueue_index, cycle_state, hwVars>>

(* Mutant: the Link TRB is not refreshed at the wrap. *)
advance_linked_stale_link ==
    /\ kind = "interrupt" /\ pc = "advance"
    /\ IF enqueue_index + 1 >= LinkCell
         THEN enqueue_index' = 0 /\ cycle_state' = 1 - cycle_state
         ELSE enqueue_index' = enqueue_index + 1 /\ UNCHANGED cycle_state
    /\ pc' = IF tdLeft = 0 THEN "doorbell" ELSE "write"
    /\ UNCHANGED <<kind, trbs, tdLeft, posted, hwVars>>

(* Mutant: the cycle state is not toggled at the wrap. *)
advance_linked_no_toggle ==
    /\ kind = "interrupt" /\ pc = "advance"
    /\ IF enqueue_index + 1 >= LinkCell
         THEN /\ trbs' = [trbs EXCEPT ![LinkCell] = LinkTrb(cycle_state)]
              /\ enqueue_index' = 0
         ELSE enqueue_index' = enqueue_index + 1 /\ UNCHANGED trbs
    /\ pc' = IF tdLeft = 0 THEN "doorbell" ELSE "write"
    /\ UNCHANGED <<kind, cycle_state, tdLeft, posted, hwVars>>

(* Interrupt rings: refresh the Link TRB with the cycle state of the lap   *)
(* that ends, then start the next lap with the other one.                  *)
advance_linked ==
    /\ kind = "interrupt" /\ pc = "advance"
    /\ IF enqueue_index + 1 >= LinkCell
         THEN /\ trbs' = [trbs EXCEPT ![LinkCell] = LinkTrb(cycle_state)]
              /\ enqueue_index' = 0 /\ cycle_state' = 1 - cycle_state
         ELSE enqueue_index' = enqueue_index + 1 /\ UNCHANGED <<trbs, cycle_state>>
    /\ pc' = IF tdLeft = 0 THEN "doorbell" ELSE "write"
    /\ UNCHANGED <<kind, tdLeft, posted, hwVars>>

(* Mutant: the wrap is forgotten. *)
advance_unlinked_no_wrap ==
    /\ kind # "interrupt" /\ pc = "advance"
    /\ enqueue_index' = enqueue_index + 1 /\ UNCHANGED cycle_state
    /\ pc' = IF tdLeft = 0 THEN "doorbell" ELSE "write"
    /\ UNCHANGED <<kind, trbs, tdLeft, posted, hwVars>>

(* Command and EP0 rings: the same wrap, without a Link TRB. *)
advance_unlinked ==
    /\ kind # "interrupt" /\ pc = "advance"
    /\ IF enqueue_index + 1 >= LinkCell
         THEN enqueue_index' = 0 /\ cycle_state' = 1 - cycle_state
         ELSE enqueue_index' = enqueue_index + 1 /\ UNCHANGED cycle_state
    /\ pc' = IF tdLeft = 0 THEN "doorbell" ELSE "write"
    /\ UNCHANGED <<kind, trbs, tdLeft, posted, hwVars>>

ring_doorbell ==
    /\ pc = "doorbell"
    /\ pc' = "idle"
    /\ hwState' = "running"
    /\ UNCHANGED <<kind, trbs, enqueue_index, cycle_state, tdLeft, posted,
                   hwIndex, hwCycle, taken>>

-----------------------------------------------------------------------------
(* Controller (external): it fetches the cell at its dequeue index for as  *)
(* long as the cycle bit there equals its own, and stops otherwise.        *)

HwFetch ==
    /\ hwState = "running" /\ trbs[hwIndex].cycle = hwCycle /\ trbs[hwIndex].type # "link"
    /\ taken' = trbs[hwIndex].num
    /\ hwIndex' = hwIndex + 1
    /\ UNCHANGED <<kind, trbs, drvVars, posted, hwCycle, hwState>>

(* A Link TRB with the Toggle Cycle flag. *)
HwFollowLink ==
    /\ hwState = "running" /\ trbs[hwIndex].cycle = hwCycle /\ trbs[hwIndex].type = "link"
    /\ hwIndex' = 0 /\ hwCycle' = 1 - hwCycle
    /\ UNCHANGED <<kind, trbs, drvVars, posted, hwState, taken>>

HwStop ==
    /\ hwState = "running" /\ trbs[hwIndex].cycle # hwCycle
    /\ hwState' = "stopped"
    /\ UNCHANGED <<kind, trbs, drvVars, posted, hwIndex, hwCycle, taken>>

-----------------------------------------------------------------------------
Call == send_command \/ control_transfer_in \/ control_transfer_no_data \/ arm_next_report
Step == write_trb \/ advance_linked \/ advance_unlinked \/ ring_doorbell
Hw   == HwFetch \/ HwFollowLink \/ HwStop

Next == Call \/ Step \/ Hw

Spec == Init /\ [][Next]_vars

(* The CPU finishes an enqueue it began, and the controller keeps fetching; *)
(* nothing obliges a caller to enqueue.                                     *)
FairSpec == Spec /\ WF_vars(Step) /\ WF_vars(Hw)

-----------------------------------------------------------------------------
(* Type invariant. *)
TypeOK ==
    /\ kind \in Kinds
    /\ trbs \in [0 .. LinkCell -> Trb]
    /\ enqueue_index \in 0 .. LinkCell - 1
    /\ cycle_state \in {0, 1}
    /\ pc \in {"idle", "write", "advance", "doorbell"}
    /\ tdLeft \in 0 .. 3
    /\ posted \in Nat
    /\ hwIndex \in 0 .. LinkCell
    /\ hwCycle \in {0, 1}
    /\ hwState \in {"running", "stopped"}
    /\ taken \in Nat

(* The producer's position once the advance it is about to make is done:   *)
(* the TRB counts as posted from the moment its cell is written.           *)
AtWrap    == pc = "advance" /\ enqueue_index + 1 >= LinkCell
ProdIndex == IF AtWrap THEN 0
             ELSE IF pc = "advance" THEN enqueue_index + 1 ELSE enqueue_index
ProdCycle == IF AtWrap THEN 1 - cycle_state ELSE cycle_state

(* Cells behind the producer carry its cycle bit, cells before it the other *)
(* one: this is what tells a new TRB from a TRB of the previous lap.        *)
CycleBits ==
    \A i \in 0 .. LinkCell - 1 :
        trbs[i].cycle = (IF i < ProdIndex THEN ProdCycle ELSE 1 - ProdCycle)

(* How far the producer is ahead, from the two indexes and cycle states alone. *)
Distance ==
    IF hwCycle = ProdCycle THEN ProdIndex - hwIndex ELSE ProdIndex + LinkCell - hwIndex

(* Producer and consumer agree on it, and it never reaches a full lap. *)
Count ==
    /\ posted - taken = Distance
    /\ 0 <= Distance /\ Distance + tdLeft <= MaxInFlight

(* The cells from the controller's index up to the producer's, around the end. *)
Unread(i) ==
    IF hwCycle = ProdCycle THEN hwIndex <= i /\ i < ProdIndex
                           ELSE hwIndex <= i \/ i < ProdIndex

(* They hold exactly the TRBs taken+1 .. posted, in order. *)
Contents ==
    \A i \in 0 .. LinkCell - 1 :
        Unread(i) =>
            /\ trbs[i].type = "normal"
            /\ trbs[i].num = taken + 1 + (IF hwIndex <= i THEN i - hwIndex
                                                         ELSE i + LinkCell - hwIndex)

(* The last cell: the Link TRB of an interrupt ring carries the cycle bit  *)
(* of the last lap completed (before that, the 1 it was created with); the *)
(* other rings never write the cell, so the controller never passes it.    *)
LastCell ==
    IF kind = "interrupt"
      THEN /\ trbs[LinkCell].type = "link"
           /\ \/ trbs[LinkCell].cycle = 1 - cycle_state
              \/ /\ trbs[LinkCell].cycle = 1 /\ cycle_state = 1
                 /\ posted = IF pc = "advance" THEN enqueue_index + 1 ELSE enqueue_index
      ELSE trbs[LinkCell] = EmptyTrb /\ hwCycle = 1

(* Inductive invariant of the ring (send_command, ep0_enqueue_trb and       *)
(* enqueue_normal_trb_and_ring against the controller's fetches): the       *)
(* controller can tell fresh TRBs from stale ones by the cycle bit, and the *)
(* cells it has not read are the ones posted and not taken, never           *)
(* overwritten.                                                             *)
RingInv == CycleBits /\ Count /\ Contents /\ LastCell /\ (pc = "write" => tdLeft > 0)

Queue == INSTANCE TrbQueue

(* The controller takes every TRB of a ring exactly once and in the order   *)
(* in which the driver enqueued it, across wraps and for every interleaving *)
(* of the driver's writes with the controller's fetches.                    *)
RefinesQueue == Queue!Spec

(* TRBs that the controller can get to: all of an interrupt ring; a ring     *)
(* without a Link TRB is not passed beyond its first lap.                    *)
Due == IF kind = "interrupt" \/ posted <= LinkCell THEN posted ELSE LinkCell

(* Every TRB the driver enqueues is fetched by the controller in the end (so *)
(* that the completion its caller waits for can arrive): again and again it  *)
(* catches up, across the Link TRBs of an interrupt ring.  What the command  *)
(* and EP0 rings hold after their first lap is never fetched.                *)
EveryTrbFetched == []<>(taken >= Due)

=============================================================================
