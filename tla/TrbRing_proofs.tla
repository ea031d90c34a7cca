--------------------------- MODULE TrbRing_proofs ---------------------------
(***************************************************************************)
(* Proofs about TrbRing, for every ring size, every bound on the TRBs in   *)
(* flight and every budget: the cycle-bit protocol keeps the unread cells  *)
(* intact, and so the ring implements the FIFO of TrbQueue.                *)
(***************************************************************************)
EXTENDS TrbRing, TLAPS

Inv == TypeOK /\ RingInv

USE DEF Kinds, Types, Trb, EmptyTrb, NormalTrb, LinkTrb, LinkCell

(* A freshly allocated ring satisfies the invariant. *)
LEMMA InitInv == Init => Inv
<1> SUFFICES ASSUME Init PROVE Inv
  OBVIOUS
<1>1. trbs \in [0 .. LinkCell -> Trb]
  BY RingSizeAssumption DEF Init, FreshRing, FreshCommandRing, FreshControlRing, FreshInterruptRing
<1>2. TypeOK
  BY <1>1, RingSizeAssumption DEF Init, TypeOK
<1>3. \A i \in 0 .. LinkCell - 1 : trbs[i] = EmptyTrb
  BY RingSizeAssumption DEF Init, FreshRing, FreshCommandRing, FreshControlRing, FreshInterruptRing
<1>4. ProdIndex = 0 /\ ProdCycle = 1
  BY RingSizeAssumption DEF Init, ProdIndex, ProdCycle, AtWrap
<1>5. CycleBits
  BY <1>3, <1>4, RingSizeAssumption DEF CycleBits
<1>6. Count /\ Contents
  BY <1>4, RingSizeAssumption, MaxInFlightAssumption DEF Count, Contents, Unread, Distance, Init
<1>7. LastCell
  BY RingSizeAssumption
  DEF LastCell, Init, FreshRing, FreshCommandRing, FreshControlRing, FreshInterruptRing
<1> QED
  BY <1>2, <1>5, <1>6, <1>7 DEF Inv, RingInv, Init

(* Writing the TRB at enqueue_index. *)
LEMMA WriteInv == Inv /\ write_trb => Inv'
<1> SUFFICES ASSUME Inv, write_trb PROVE Inv'
  OBVIOUS
<1> USE RingSizeAssumption, MaxInFlightAssumption
<1>1. TypeOK'
  BY DEF Inv, TypeOK, RingInv, write_trb, hwVars
<1>2. /\ ProdIndex = enqueue_index /\ ProdCycle = cycle_state
      /\ ProdIndex' = IF enqueue_index + 1 >= LinkCell THEN 0 ELSE enqueue_index + 1
      /\ ProdCycle' = IF enqueue_index + 1 >= LinkCell THEN 1 - cycle_state ELSE cycle_state
  BY DEF Inv, TypeOK, write_trb, ProdIndex, ProdCycle, AtWrap
<1>3. CycleBits'
  BY <1>2 DEF Inv, TypeOK, RingInv, CycleBits, write_trb
<1>4. Count'
  BY <1>2 DEF Inv, TypeOK, RingInv, Count, Distance, write_trb, hwVars
<1>6. Contents'
  <2> SUFFICES ASSUME NEW i \in 0 .. LinkCell - 1, Unread(i)'
               PROVE  /\ trbs'[i].type = "normal"
                      /\ trbs'[i].num = taken + 1 + (IF hwIndex <= i THEN i - hwIndex
                                                                    ELSE i + LinkCell - hwIndex)
    BY DEF Contents, write_trb, hwVars
  <2>1. CASE i = enqueue_index
    <3>1. trbs'[i] = NormalTrb(posted + 1, cycle_state)
      BY <2>1 DEF Inv, TypeOK, write_trb
    <3>2. posted = taken + (IF hwIndex <= i THEN i - hwIndex ELSE i + LinkCell - hwIndex)
      BY <1>2, <2>1 DEF Inv, TypeOK, RingInv, Count, Distance
    <3> QED
      BY <3>1, <3>2 DEF Inv, TypeOK
  <2>2. CASE i # enqueue_index
    <3>1. trbs'[i] = trbs[i]
      BY <2>2 DEF Inv, TypeOK, write_trb
    <3>2. Unread(i)
      BY <1>2, <2>2 DEF Inv, TypeOK, RingInv, Count, Distance, Unread, write_trb, hwVars
    <3> QED
      BY <3>1, <3>2 DEF Inv, RingInv, Contents
  <2> QED
    BY <2>1, <2>2
<1>5. LastCell'
  BY DEF Inv, TypeOK, RingInv, LastCell, write_trb, hwVars
<1> QED
  BY <1>1, <1>3, <1>4, <1>5, <1>6 DEF Inv, RingInv, write_trb

(* Moving past it on an interrupt ring: the position the invariant speaks   *)
(* of already is the one after the advance.                                *)
LEMMA AdvanceLinkedInv == Inv /\ advance_linked => Inv'
<1> SUFFICES ASSUME Inv, advance_linked PROVE Inv'
  OBVIOUS
<1> USE RingSizeAssumption, MaxInFlightAssumption
<1>1. TypeOK'
  <2>1. trbs' \in [0 .. LinkCell -> Trb]
    BY DEF Inv, TypeOK, advance_linked
  <2>2. enqueue_index' \in 0 .. LinkCell - 1 /\ cycle_state' \in {0, 1}
    BY DEF Inv, TypeOK, advance_linked
  <2> QED
    BY <2>1, <2>2 DEF Inv, TypeOK, advance_linked, hwVars
<1>2. ProdIndex' = ProdIndex /\ ProdCycle' = ProdCycle
  BY DEF Inv, TypeOK, advance_linked, ProdIndex, ProdCycle, AtWrap
<1>3. \A i \in 0 .. LinkCell - 1 : trbs'[i] = trbs[i]
  BY DEF Inv, TypeOK, advance_linked
<1>4. CycleBits'
  BY <1>2, <1>3 DEF Inv, RingInv, CycleBits
<1>5. Count' /\ Contents'
  BY <1>2, <1>3 DEF Inv, TypeOK, RingInv, Count, Contents, Unread, Distance, advance_linked, hwVars
<1>6. LastCell'
  <2>1. CASE enqueue_index + 1 >= LinkCell
    BY <2>1 DEF Inv, TypeOK, LastCell, advance_linked
  <2>2. CASE ~(enqueue_index + 1 >= LinkCell)
    BY <2>2 DEF Inv, TypeOK, RingInv, LastCell, advance_linked
  <2> QED
    BY <2>1, <2>2
<1> QED
  BY <1>1, <1>4, <1>5, <1>6 DEF Inv, TypeOK, RingInv, advance_linked

(* The same on the rings without a Link TRB. *)
LEMMA AdvanceUnlinkedInv == Inv /\ advance_unlinked => Inv'
<1> SUFFICES ASSUME Inv, advance_unlinked PROVE Inv'
  OBVIOUS
<1> USE RingSizeAssumption, MaxInFlightAssumption
<1>1. TypeOK'
  BY DEF Inv, TypeOK, RingInv, advance_unlinked, hwVars
<1>2. ProdIndex' = ProdIndex /\ ProdCycle' = ProdCycle
  BY DEF Inv, TypeOK, advance_unlinked, ProdIndex, ProdCycle, AtWrap
<1>3. CycleBits' /\ Count' /\ Contents'
  BY <1>2 DEF Inv, TypeOK, RingInv, CycleBits, Count, Contents, Unread, Distance, advance_unlinked, hwVars
<1>4. LastCell'
  BY DEF Inv, TypeOK, RingInv, LastCell, advance_unlinked, hwVars
<1> QED
  BY <1>1, <1>3, <1>4 DEF Inv, TypeOK, RingInv, advance_unlinked

(* Handing over a transfer descriptor: the callers' wait keeps the ring     *)
(* from filling up.                                                        *)
LEMMA CallInv == Inv /\ Call => Inv'
<1> SUFFICES ASSUME Inv, NEW len \in 1 .. 3, StartTd(len) PROVE Inv'
  BY DEF Call, send_command, control_transfer_in, control_transfer_no_data, arm_next_report
<1> USE RingSizeAssumption, MaxInFlightAssumption
<1>1. TypeOK'
  BY DEF Inv, TypeOK, StartTd, hwVars
<1>2. ProdIndex' = ProdIndex /\ ProdCycle' = ProdCycle
  BY DEF StartTd, ProdIndex, ProdCycle, AtWrap
<1>3. CycleBits' /\ Count' /\ Contents'
  BY <1>2 DEF Inv, TypeOK, RingInv, CycleBits, Count, Contents, Unread, Distance, StartTd, hwVars
<1>4. LastCell'
  BY DEF Inv, RingInv, LastCell, StartTd, hwVars
<1> QED
  BY <1>1, <1>3, <1>4 DEF Inv, RingInv, StartTd

(* The doorbell only tells the controller to look at the ring. *)
LEMMA DoorbellInv == Inv /\ ring_doorbell => Inv'
<1> SUFFICES ASSUME Inv, ring_doorbell PROVE Inv'
  OBVIOUS
<1> USE RingSizeAssumption, MaxInFlightAssumption
<1>1. TypeOK'
  BY DEF Inv, TypeOK, ring_doorbell
<1>2. ProdIndex' = ProdIndex /\ ProdCycle' = ProdCycle
  BY DEF ring_doorbell, ProdIndex, ProdCycle, AtWrap
<1>3. CycleBits' /\ Count' /\ Contents' /\ LastCell'
  BY <1>2 DEF Inv, RingInv, CycleBits, Count, Contents, Unread, Distance, LastCell, ring_doorbell
<1> QED
  BY <1>1, <1>3 DEF Inv, RingInv, ring_doorbell

(* A cell whose cycle bit matches the controller's lies among the unread    *)
(* ones, unless it is the last cell: the controller never takes a TRB of    *)
(* the previous lap for a new one.                                         *)
LEMMA FetchedCell ==
    ASSUME Inv, trbs[hwIndex].cycle = hwCycle, hwIndex # LinkCell
    PROVE  /\ trbs[hwIndex] = NormalTrb(taken + 1, hwCycle)
           /\ taken < posted
<1> USE RingSizeAssumption, MaxInFlightAssumption
<1>1. hwIndex \in 0 .. LinkCell - 1 /\ ProdIndex \in 0 .. LinkCell - 1 /\ ProdCycle \in {0, 1}
  BY DEF Inv, TypeOK, ProdIndex, ProdCycle, AtWrap
<1>2. Unread(hwIndex)
  BY <1>1 DEF Inv, TypeOK, RingInv, CycleBits, Unread
<1>3. trbs[hwIndex].type = "normal" /\ trbs[hwIndex].num = taken + 1
  BY <1>1, <1>2 DEF Inv, TypeOK, RingInv, Contents
<1>4. taken < posted
  BY <1>1, <1>2 DEF Inv, TypeOK, RingInv, Unread, Count, Distance
<1>5. trbs[hwIndex] \in Trb
  BY <1>1 DEF Inv, TypeOK
<1> QED
  BY <1>3, <1>4, <1>5

(* The controller fetches a TRB. *)
LEMMA FetchInv == Inv /\ HwFetch => Inv' /\ taken' = taken + 1
<1> SUFFICES ASSUME Inv, HwFetch PROVE Inv' /\ taken' = taken + 1
  OBVIOUS
<1> USE RingSizeAssumption, MaxInFlightAssumption
<1>1. hwIndex # LinkCell
  BY DEF Inv, TypeOK, RingInv, LastCell, HwFetch
<1>2. trbs[hwIndex] = NormalTrb(taken + 1, hwCycle) /\ taken < posted
  BY <1>1, FetchedCell DEF HwFetch
<1>3. taken' = taken + 1
  BY <1>2 DEF HwFetch
<1>4. TypeOK'
  BY <1>1, <1>3 DEF Inv, TypeOK, HwFetch, drvVars
<1>5. ProdIndex' = ProdIndex /\ ProdCycle' = ProdCycle /\ ProdCycle \in {0, 1} /\ ProdIndex \in Nat
  BY DEF Inv, TypeOK, HwFetch, drvVars, ProdIndex, ProdCycle, AtWrap
<1>6. CycleBits'
  BY <1>5 DEF Inv, RingInv, CycleBits, HwFetch
<1>7. Count'
  BY <1>1, <1>2, <1>3, <1>5
  DEF Inv, TypeOK, RingInv, Count, Distance, HwFetch, drvVars
<1>9. Contents'
  <2> SUFFICES ASSUME NEW i \in 0 .. LinkCell - 1, Unread(i)'
               PROVE  /\ trbs[i].type = "normal"
                      /\ trbs[i].num = taken + 2
                           + (IF hwIndex + 1 <= i THEN i - (hwIndex + 1)
                                                  ELSE i + LinkCell - (hwIndex + 1))
    BY <1>3 DEF Contents, HwFetch, Inv, TypeOK
  <2>1. Unread(i) /\ i # hwIndex
    BY <1>1, <1>2, <1>5 DEF Inv, TypeOK, RingInv, Count, Distance, Unread, HwFetch
  <2>2. /\ trbs[i].type = "normal"
        /\ trbs[i].num = taken + 1 + (IF hwIndex <= i THEN i - hwIndex
                                                     ELSE i + LinkCell - hwIndex)
    BY <2>1 DEF Inv, RingInv, Contents
  <2> QED
    BY <2>1, <2>2 DEF Inv, TypeOK
<1>8. LastCell'
  BY DEF Inv, RingInv, LastCell, HwFetch, drvVars
<1> QED
  BY <1>3, <1>4, <1>6, <1>7, <1>8, <1>9 DEF Inv, RingInv, HwFetch, drvVars

(* The controller follows the Link TRB and toggles its cycle state. *)
LEMMA FollowInv == Inv /\ HwFollowLink => Inv'
<1> SUFFICES ASSUME Inv, HwFollowLink PROVE Inv'
  OBVIOUS
<1> USE RingSizeAssumption, MaxInFlightAssumption
<1>1. hwIndex = LinkCell
  BY FetchedCell DEF HwFollowLink
<1>2. TypeOK'
  BY DEF Inv, TypeOK, HwFollowLink, drvVars
<1>3. /\ ProdIndex' = ProdIndex /\ ProdCycle' = ProdCycle
      /\ ProdCycle \in {0, 1} /\ ProdIndex \in 0 .. LinkCell - 1
  BY DEF Inv, TypeOK, HwFollowLink, drvVars, ProdIndex, ProdCycle, AtWrap
<1>4. hwCycle # ProdCycle /\ hwCycle' = ProdCycle
  BY <1>1, <1>3 DEF Inv, TypeOK, RingInv, Count, Distance, HwFollowLink
<1>5. CycleBits'
  BY <1>3 DEF Inv, RingInv, CycleBits, HwFollowLink
<1>6. Count'
  BY <1>1, <1>3, <1>4 DEF Inv, TypeOK, RingInv, Count, Distance, HwFollowLink, drvVars
<1>8. Contents'
  <2> SUFFICES ASSUME NEW i \in 0 .. LinkCell - 1, Unread(i)'
               PROVE  /\ trbs[i].type = "normal"
                      /\ trbs[i].num = taken + 1 + (IF 0 <= i THEN i - 0 ELSE i + LinkCell - 0)
    BY DEF Contents, HwFollowLink
  <2>1. Unread(i)
    BY <1>3, <1>4 DEF Unread, HwFollowLink
  <2>2. /\ trbs[i].type = "normal"
        /\ trbs[i].num = taken + 1 + (IF hwIndex <= i THEN i - hwIndex
                                                     ELSE i + LinkCell - hwIndex)
    BY <2>1 DEF Inv, RingInv, Contents
  <2> QED
    BY <1>1, <2>2 DEF Inv, TypeOK
<1>7. LastCell'
  BY <1>1 DEF Inv, TypeOK, RingInv, LastCell, HwFollowLink, drvVars
<1> QED
  BY <1>2, <1>5, <1>6, <1>7, <1>8 DEF Inv, RingInv, HwFollowLink, drvVars

(* The controller stops at a cell that is not new, and steps that change   *)
(* nothing.                                                                *)
LEMMA IdleInv == Inv /\ (HwStop \/ UNCHANGED vars) => Inv'
<1> SUFFICES ASSUME Inv,
                    UNCHANGED <<kind, trbs, drvVars, posted, hwIndex, hwCycle, taken>>,
                    hwState' = hwState \/ hwState' = "stopped"
             PROVE  Inv'
  BY DEF HwStop, vars, hwVars
<1>1. TypeOK'
  BY DEF Inv, TypeOK, drvVars
<1>2. RingInv'
  BY DEF Inv, RingInv, CycleBits, Count, Contents, Unread, Distance, LastCell, ProdIndex, ProdCycle,
         AtWrap, drvVars
<1> QED
  BY <1>1, <1>2 DEF Inv

(* Every step of driver or controller preserves the invariant. *)
LEMMA NextInv == Inv /\ [Next]_vars => Inv'
BY WriteInv, AdvanceLinkedInv, AdvanceUnlinkedInv, CallInv, DoorbellInv, FetchInv,
   FollowInv, IdleInv DEF Next, Step, Hw

(* The driver's indexes stay inside the ring and off the cell of the Link   *)
(* TRB, for every ring size (send_command, ep0_enqueue_trb,                 *)
(* enqueue_normal_trb_and_ring).                                           *)
THEOREM TypeCorrect == Spec => []TypeOK
<1>1. Inv => TypeOK
  BY DEF Inv
<1> QED
  BY InitInv, NextInv, <1>1, PTL DEF Spec

(* The cycle bits separate the unread cells from the stale ones, and no     *)
(* unread TRB is ever overwritten, on each of the three kinds of ring.      *)
THEOREM RingSafe == Spec => []RingInv
<1>1. Inv => RingInv
  BY DEF Inv
<1> QED
  BY InitInv, NextInv, <1>1, PTL DEF Spec

(* The rings of xhci.rs implement the FIFO: the controller takes every TRB  *)
(* at most once and in the order in which the driver enqueued it.          *)
THEOREM RingImplementsQueue == Spec => RefinesQueue
<1>1. Init => Queue!Init
  BY DEF Init, Queue!Init
<1>2. Inv /\ [Next]_vars => [Queue!Next]_Queue!vars
  <2> SUFFICES ASSUME Inv, [Next]_vars PROVE [Queue!Next]_Queue!vars
    OBVIOUS
  <2>1. CASE write_trb
    BY <2>1 DEF write_trb, hwVars, Queue!Next, Queue!Post
  <2>2. CASE HwFetch
    <3>1. trbs[hwIndex].cycle = hwCycle /\ hwIndex # LinkCell
      BY <2>2, RingSizeAssumption DEF Inv, TypeOK, RingInv, LastCell, HwFetch
    <3> QED
      BY <2>2, <3>1, FetchInv, FetchedCell DEF HwFetch, Queue!Next, Queue!Take
  <2>3. CASE Call \/ advance_linked \/ advance_unlinked \/ ring_doorbell
             \/ HwFollowLink \/ HwStop \/ UNCHANGED vars
    BY <2>3 DEF Call, send_command, control_transfer_in, control_transfer_no_data,
                arm_next_report, StartTd, advance_linked, advance_unlinked, ring_doorbell,
                HwFollowLink, HwStop, vars, hwVars, Queue!vars
  <2> QED
    BY <2>1, <2>2, <2>3 DEF Next, Step, Hw
<1> QED
  BY <1>1, <1>2, InitInv, NextInv, PTL DEF Spec, RefinesQueue, Queue!Spec

=============================================================================
