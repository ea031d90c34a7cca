------------------------------- MODULE Paging -------------------------------
(***************************************************************************)
(* The four-level page tables (kernel/src/memory/paging.rs) on top of the   *)
(* frame allocator: map_page and its callers, unmap_page, and the order of  *)
(* these calls around memory::init at boot.  Tables are frames, entries are *)
(* words of the frames, and a walk goes through them level by level.        *)
(***************************************************************************)
EXTENDS FrameAllocator

CONSTANTS
    Root,        \* the frame CR3 points at
    BootMem,     \* contents of the boot frames
    Requests,    \* what callers map: virt, phys (page numbers), pages, mmio
    MaxEarly,    \* calls made before memory::init has set up the heap
    MaxCalls     \* bound: calls in a behaviour

Levels == 4
Pages  == 0 .. Entries * Entries * Entries * Entries - 1

(* The indices of a virtual page in the PML4, PDPT, PD and PT. *)
table_indices(v) ==
    <<(v \div (Entries * Entries * Entries)) % Entries, (v \div (Entries * Entries)) % Entries,
      (v \div Entries) % Entries, v % Entries>>

(* The entries of a set of tables that lead to a table, and where they lead, *)
(* in memory m; then the tables of each level.                               *)
Leads(m, tables)   == {x \in tables \X Idx : m[x[1]][x[2]].present /\ ~m[x[1]][x[2]].huge}
Target(m, x)       == m[x[1]][x[2]].addr
Targets(m, tables) == {Target(m, x) : x \in Leads(m, tables)}
TablesOf(m) ==
    LET t2 == Targets(m, {Root})
        t3 == Targets(m, t2)
    IN  <<{Root}, t2, t3, Targets(m, t3)>>

(* No two entries above the last level lead to the same table, no table is   *)
(* of two levels, and all of them are in the given frames.                   *)
IsTree(m, frames) ==
    LET at == TablesOf(m) IN
    /\ \A l \in 1 .. Levels : at[l] \subseteq frames
    /\ \A l, k \in 1 .. Levels : l # k => at[l] \cap at[k] = {}
    /\ \A l \in 1 .. Levels - 1 : \A x, y \in Leads(m, at[l]) :
         Target(m, x) = Target(m, y) => x = y

ASSUME BootAssumption ==     \* the bootloader's tables
    /\ Root \in BootFrames
    /\ BootMem \in [BootFrames -> [Idx -> [addr : Int, present : BOOLEAN, huge : BOOLEAN]]]
    /\ IsTree(BootMem, BootFrames)
ASSUME CallsAssumption ==    \* the callers' ranges lie in the address space
    /\ MaxEarly \in Nat /\ MaxCalls \in Nat
    /\ Requests \subseteq [virt : Pages, phys : Nat, pages : Nat \ {0}, mmio : BOOLEAN]
    /\ \A r \in Requests : r.virt + r.pages - 1 \in Pages

VARIABLES
    pc,     \* "idle", "heap", "walk", "panic" or "stop" (memory::init's loop {})
    walk,   \* the walk under way: operation, pages left in the range, level, table
    held,   \* frames given out by allocate_frame
    calls

vars == <<frameVars, pc, walk, held, calls>>

NoWalk == [op |-> "none", virt |-> 0, phys |-> 0, left |-> 0, mmio |-> FALSE,
           level |-> 1, table |-> Root]

Init ==
    /\ FrameInit(BootMem)
    /\ pc = "idle" /\ walk = NoWalk /\ held = {} /\ calls = 0

-----------------------------------------------------------------------------
HeapReady == heap.start # NULL_MARK
Call ==
    /\ pc = "idle" /\ calls < (IF HeapReady THEN MaxCalls ELSE MaxEarly)
    /\ calls' = calls + 1

(* memory::init. *)
init == pc = "idle" /\ ~HeapReady /\ pc' = "heap" /\ UNCHANGED <<frameVars, walk, held, calls>>

init_heap ==
    /\ pc = "heap"
    /\ \/ init_heap_turn /\ UNCHANGED pc
       \/ init_heap_done /\ pc' = IF heap.lowest = NULL_MARK THEN "stop" ELSE "idle"
    /\ UNCHANGED <<walk, held, calls>>

allocate_frame ==
    /\ Call
    /\ mem' = Popped /\ head' = NextHead /\ initialized' = TRUE
    /\ held' = held \cup ({Head0} \ {NULL_MARK})
    /\ UNCHANGED <<heap, heapTaken, pc, walk>>

(* The caller gives back a frame it was given. *)
free_frame(f) ==
    /\ Call /\ f \in held
    /\ mem' = Freed(f) /\ head' = f /\ held' = held \ {f}
    /\ UNCHANGED <<initialized, heap, heapTaken, pc, walk>>

(* map_page; map_mmio_page and map_mmio_range: errors but AlreadyMapped panic. *)
map_page(r) ==
    /\ Call /\ pc' = "walk"
    /\ walk' = [op |-> "map", virt |-> r.virt, phys |-> r.phys, left |-> r.pages - 1,
                mmio |-> r.mmio, level |-> 1, table |-> Root]
    /\ UNCHANGED <<frameVars, held>>

unmap_page(v) ==
    /\ Call /\ pc' = "walk"
    /\ walk' = [NoWalk EXCEPT !.op = "unmap", !.virt = v]
    /\ UNCHANGED <<frameVars, held>>

-----------------------------------------------------------------------------
(* The walk.                                                                *)

Index == table_indices(walk.virt)[walk.level]
Entry == mem[walk.table][Index]

Descend(table) == walk' = [walk EXCEPT !.level = @ + 1, !.table = table] /\ UNCHANGED pc

(* An error ends the range too, and its pages up to here stay mapped. *)
Fail(error) ==
    /\ pc' = IF walk.op = "map" /\ walk.mmio /\ error # "AlreadyMapped" THEN "panic" ELSE "idle"
    /\ walk' = NoWalk

(* Mutant: HUGE_PAGE is not looked at. *)
next_table_or_create_no_huge ==
    /\ walk.op = "map" /\ walk.level < Levels
    /\ \/ /\ ~Entry.present /\ Head0 = NULL_MARK
          /\ Fail("OutOfFrames")
          /\ mem' = Mem0 /\ head' = Head0 /\ initialized' = TRUE
       \/ /\ ~Entry.present /\ Head0 # NULL_MARK
          /\ mem' = [Popped EXCEPT ![walk.table][Index] =
                       [addr |-> Head0, present |-> TRUE, huge |-> FALSE]]
          /\ head' = NextHead /\ initialized' = TRUE
          /\ Descend(Head0)
       \/ /\ Entry.present
          /\ Descend(Entry.addr) /\ UNCHANGED <<mem, head, initialized>>

(* map_page: the next table, made from a fresh frame if there is none. *)
next_table_or_create ==
    /\ walk.op = "map" /\ walk.level < Levels
    /\ \/ /\ Entry.huge
          /\ Fail("HugePageInPath") /\ UNCHANGED <<mem, head, initialized>>
       \/ /\ ~Entry.huge /\ ~Entry.present /\ Head0 = NULL_MARK
          /\ Fail("OutOfFrames")
          /\ mem' = Mem0 /\ head' = Head0 /\ initialized' = TRUE
       \/ /\ ~Entry.huge /\ ~Entry.present /\ Head0 # NULL_MARK
          /\ mem' = [Popped EXCEPT ![walk.table][Index] =
                       [addr |-> Head0, present |-> TRUE, huge |-> FALSE]]
          /\ head' = NextHead /\ initialized' = TRUE
          /\ Descend(Head0)
       \/ /\ ~Entry.huge /\ Entry.present
          /\ Descend(Entry.addr) /\ UNCHANGED <<mem, head, initialized>>

(* The end of map_page, and the next page of map_range. *)
write_pte ==
    /\ walk.op = "map" /\ walk.level = Levels
    /\ \/ Entry.present /\ Fail("AlreadyMapped") /\ UNCHANGED mem
       \/ /\ ~Entry.present
          /\ mem' = [mem EXCEPT ![walk.table][Index] =
                       [addr |-> walk.phys, present |-> TRUE, huge |-> FALSE]]
          /\ IF walk.left > 0
               THEN walk' = [walk EXCEPT !.virt = @ + 1, !.phys = @ + 1, !.left = @ - 1,
                                         !.level = 1, !.table = Root] /\ UNCHANGED pc
               ELSE walk' = NoWalk /\ pc' = "idle"
    /\ UNCHANGED <<head, initialized>>

(* unmap_page: the next table if it exists. *)
next_table_existing ==
    /\ walk.op = "unmap" /\ walk.level < Levels
    /\ \/ ~Entry.present /\ Fail("NotMapped")
       \/ Entry.present /\ Entry.huge /\ Fail("HugePageInPath")
       \/ Entry.present /\ ~Entry.huge /\ Descend(Entry.addr)
    /\ UNCHANGED <<mem, head, initialized>>

clear_pte ==
    /\ walk.op = "unmap" /\ walk.level = Levels
    /\ mem' = IF Entry.present THEN [mem EXCEPT ![walk.table][Index] = Zero] ELSE mem
    /\ walk' = NoWalk /\ pc' = "idle"
    /\ UNCHANGED <<head, initialized>>

Walk ==
    /\ pc = "walk"
    /\ next_table_or_create \/ write_pte \/ next_table_existing \/ clear_pte
    /\ UNCHANGED <<heap, heapTaken, held, calls>>

-----------------------------------------------------------------------------
Next ==
    \/ init \/ init_heap \/ allocate_frame \/ Walk
    \/ \E f \in Pool : free_frame(f)
    \/ \E r \in Requests : map_page(r)
    \/ \E v \in {r.virt : r \in Requests} : unmap_page(v)

Spec == Init /\ [][Next]_vars

-----------------------------------------------------------------------------
(* translate: the entry a walk finds at the last level. *)
EntryBelow(entry, index) ==
    IF entry.present /\ ~entry.huge THEN mem[entry.addr][index] ELSE Zero
translate(v) ==
    LET ix == table_indices(v)
        pte == EntryBelow(EntryBelow(EntryBelow(mem[Root][ix[1]], ix[2]), ix[3]), ix[4])
    IN  IF pte.present THEN pte.addr ELSE NULL_MARK

(* The tables of each level. *)
TablesAt == TablesOf(mem)
Tables == UNION {TablesAt[l] : l \in 1 .. Levels}

(* Type invariant. *)
TypeOK ==
    /\ DOMAIN mem = Frames /\ head \in Pool \cup {NULL_MARK} /\ initialized \in BOOLEAN
    /\ heap.turn \in 0 .. HEAP_FRAMES /\ heap.lowest \in Pool \cup {NULL_MARK}
    /\ heapTaken \subseteq Pool /\ held \subseteq Pool
    /\ pc \in {"idle", "heap", "walk", "panic", "stop"}
    /\ walk.level \in 1 .. Levels /\ walk.table \in Frames /\ walk.left \in Nat

Owners(f) ==
    {o \in {"free", "table", "heap", "caller"} :
        CASE o = "free"   -> f \in FreeFrames
          [] o = "table"  -> f \in Tables
          [] o = "heap"   -> f \in heapTaken
          [] o = "caller" -> f \in held}

(* Every frame of usable memory has exactly one owner: it is on the free     *)
(* list, or a page table, or part of the heap, or with a caller of           *)
(* allocate_frame.  Links in free frames survive, no walk that fails half    *)
(* way loses the tables it made, and no frame is handed out twice.           *)
FrameOwners ==
    /\ \A f \in Pool : Cardinality(Owners(f)) = 1
    /\ FreeFrames \subseteq Pool

(* A frame whose bytes are not all in one USABLE entry is never used.        *)
OnlyUsable ==
    \A f \in FreeFrames \cup heapTaken \cup held \cup (Tables \ BootFrames) :
        \E e \in MemoryMap : e.base <= f /\ f + FRAME_SIZE <= e.base + e.length

(* The tables are a tree: no two entries lead to the same table, so a write  *)
(* to one page's entry cannot show up under another address.                 *)
TableTree ==
    \A t \in Tables \ {Root} :
        Cardinality({x \in (1 .. Levels - 1) \X Leads(mem, Tables) :
                       x[2][1] \in TablesAt[x[1]] /\ Target(mem, x[2]) = t}) = 1

(* map_page never touches a mapping that exists, of its own page or of any   *)
(* other, and makes at most the one it was asked for; unmap_page removes     *)
(* only its own.  In particular a fresh table maps nothing.                  *)
OnlyItsPage ==
    [][\A v \in Pages :
         \/ translate(v)' = translate(v)
         \/ /\ v = walk.virt
            /\ \/ walk.op = "map" /\ translate(v) = NULL_MARK /\ translate(v)' = walk.phys
               \/ walk.op = "unmap" /\ translate(v)' = NULL_MARK]_vars

=============================================================================
