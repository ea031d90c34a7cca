--------------------------- MODULE FrameAllocator ---------------------------
(***************************************************************************)
(* Physical frames (kernel/src/memory/frame_allocator.rs) and the heap that *)
(* is carved out of them (heap_allocator.rs).  The free list has no memory  *)
(* of its own: the link to the next free frame is the first word of the     *)
(* frame, the same word that is entry 0 once the frame is a page table.     *)
(***************************************************************************)
EXTENDS Integers, FiniteSets, FiniteSetsExt

CONSTANTS
    FRAME_SIZE,    \* bytes of a frame
    Entries,       \* words of a frame that the model looks at (a page table has 512)
    MemoryMap,     \* the USABLE entries of the bootloader's map: base, length
    BootFrames,    \* frames that hold the page tables the bootloader left
    HEAP_FRAMES

Idx == 0 .. Entries - 1

ASSUME FrameAssumption ==
    FRAME_SIZE \in Nat \ {0} /\ Entries \in Nat \ {0} /\ HEAP_FRAMES \in Nat \ {0}
ASSUME MapAssumption ==  \* the entries do not overlap each other or the boot frames
    /\ IsFiniteSet(MemoryMap) /\ IsFiniteSet(BootFrames) /\ BootFrames \subseteq Nat
    /\ \A e \in MemoryMap : e.base \in Nat /\ e.length \in Nat
    /\ \A e, g \in MemoryMap : e = g \/ e.base + e.length <= g.base \/ g.base + g.length <= e.base
    /\ \A f \in BootFrames, e \in MemoryMap :
         f + FRAME_SIZE <= e.base \/ e.base + e.length <= f

(* Mutant: the base of a region is rounded down. *)
align_up_down(addr, align) == (addr \div align) * align

align_up(addr, align) == ((addr + align - 1) \div align) * align

(* The frames pushed for one entry of the map: base aligned up, and the     *)
(* whole frame below the end.                                               *)
FramesOf(e) ==
    {f \in {align_up(e.base, FRAME_SIZE) + k * FRAME_SIZE : k \in 0 .. e.length} :
        f + FRAME_SIZE <= e.base + e.length}
Pool   == UNION {FramesOf(e) : e \in MemoryMap}
Frames == Pool \cup BootFrames

(* A word of memory as a page table entry: address bits and the two flags    *)
(* that the code tests.  A link is a frame address, so its flags are clear;  *)
(* NULL_MARK is usize::MAX, all bits set.                                    *)
NULL_MARK == -1
Zero      == [addr |-> 0, present |-> FALSE, huge |-> FALSE]
Link(f)   == [addr |-> f, present |-> f = NULL_MARK, huge |-> f = NULL_MARK]
ZeroFrame == [j \in Idx |-> Zero]

VARIABLES
    mem,          \* contents of the frames
    head,         \* first free frame, NULL_MARK for None
    initialized,
    heap,         \* init_heap: turn of its loop, lowest_frame, expected_next; start once done
    heapTaken     \* frames init_heap has allocated (history)

frameVars == <<mem, head, initialized, heap, heapTaken>>

-----------------------------------------------------------------------------
(* Mutant: usable memory is taken for one block. *)
InitMem_one_block ==
    [f \in Frames |->
        IF f \notin Pool THEN mem[f]
        ELSE [mem[f] EXCEPT ![0] =
                Link(IF f = Min(Pool) THEN NULL_MARK ELSE f - FRAME_SIZE)]]

(* init: every frame of the map is pushed in ascending order, so each links  *)
(* to the one below it and the highest becomes the head.                     *)
InitMem ==
    [f \in Frames |->
        IF f \notin Pool THEN mem[f]
        ELSE LET below == {g \in Pool : g < f} IN
             [mem[f] EXCEPT ![0] = Link(IF below = {} THEN NULL_MARK ELSE Max(below))]]

Head0 == IF initialized \/ Pool = {} THEN head ELSE Max(Pool)
Mem0  == IF initialized THEN mem ELSE InitMem

(* Mutant: the frame is handed out as it is. *)
Popped_dirty == Mem0

(* allocate: the list is built on the first call; the head is unlinked,      *)
(* zeroed and returned (Head0; NULL_MARK is None).                           *)
Popped == IF Head0 = NULL_MARK THEN Mem0 ELSE [Mem0 EXCEPT ![Head0] = ZeroFrame]

(* Mutant: the head stays where it is. *)
NextHead_same == Head0

NextHead == IF Head0 = NULL_MARK THEN NULL_MARK ELSE Mem0[Head0][0].addr

(* free: zero the frame and push it. *)
Freed(f) == [mem EXCEPT ![f] = [ZeroFrame EXCEPT ![0] = Link(head)]]

-----------------------------------------------------------------------------
NoHeap == [turn |-> 0, lowest |-> NULL_MARK, expected |-> NULL_MARK, start |-> NULL_MARK]

(* At boot the pool holds whatever was in memory. *)
FrameInit(bootMem) ==
    /\ \E w \in {Zero, [addr |-> Min(Frames), present |-> TRUE, huge |-> FALSE]} :
         mem = [f \in Frames |-> IF f \in BootFrames THEN bootMem[f] ELSE [j \in Idx |-> w]]
    /\ head = NULL_MARK /\ initialized = FALSE
    /\ heap = NoHeap /\ heapTaken = {}

(* Mutant: the heap starts at the frame that came first. *)
init_heap_turn_first ==
    /\ heap.turn < HEAP_FRAMES
    /\ mem' = Popped /\ head' = NextHead /\ initialized' = TRUE
    /\ heapTaken' = heapTaken \cup ({Head0} \ {NULL_MARK})
    /\ heap' = IF Head0 = NULL_MARK \/ heap.expected \notin {NULL_MARK, Head0}
                 THEN [heap EXCEPT !.turn = @ + 1]
                 ELSE [heap EXCEPT !.turn = @ + 1, !.expected = Head0 - FRAME_SIZE,
                                   !.lowest = IF @ = NULL_MARK THEN Head0 ELSE @]

(* One turn of init_heap's loop.  A missing frame, or one that is not just   *)
(* below the last, is reported and skipped: the loop goes on.                *)
init_heap_turn ==
    /\ heap.turn < HEAP_FRAMES
    /\ mem' = Popped /\ head' = NextHead /\ initialized' = TRUE
    /\ heapTaken' = heapTaken \cup ({Head0} \ {NULL_MARK})
    /\ heap' = IF Head0 = NULL_MARK \/ heap.expected \notin {NULL_MARK, Head0}
                 THEN [heap EXCEPT !.turn = @ + 1]
                 ELSE [heap EXCEPT !.turn = @ + 1, !.lowest = Head0,
                                   !.expected = Head0 - FRAME_SIZE]

(* After the loop: the range from lowest_frame up becomes the heap. *)
init_heap_done ==
    /\ heap.turn = HEAP_FRAMES
    /\ heap' = [heap EXCEPT !.start = heap.lowest]
    /\ UNCHANGED <<mem, head, initialized, heapTaken>>

-----------------------------------------------------------------------------
(* The frames on the free list: at most |Pool| links from the head. *)
FreeFrames ==
    LET chain[n \in 0 .. Cardinality(Pool)] ==
          IF n = 0 THEN Head0
          ELSE IF chain[n - 1] = NULL_MARK THEN NULL_MARK ELSE Mem0[chain[n - 1]][0].addr
    IN  {chain[n] : n \in 0 .. Cardinality(Pool)} \ {NULL_MARK}

(* The heap given to the global allocator, HEAP_FRAMES frames from its start, *)
(* consists of frames that init_heap allocated: "failing safely instead of    *)
(* writing to the wrong memory".                                              *)
HeapOwned ==
    heap.start # NULL_MARK =>
        \A k \in 0 .. HEAP_FRAMES - 1 : heap.start + k * FRAME_SIZE \in heapTaken

=============================================================================
