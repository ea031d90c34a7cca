------------------------------ MODULE MCPaging ------------------------------
(* TLC instances of Paging: two entries per table and frames of 4 bytes. *)
EXTENDS Paging, TLC

PresentEntry(a, h) == [addr |-> a, present |-> TRUE, huge |-> h]

(* The bootloader's tables: a PML4 at 0 and a PDPT at 4 that maps memory by   *)
(* a huge page.                                                               *)
BootTables ==
    (0 :> [j \in 0 .. 1 |-> IF j = 1 THEN PresentEntry(4, FALSE) ELSE Zero]) @@
    (4 :> [j \in 0 .. 1 |-> IF j = 0 THEN PresentEntry(16, TRUE) ELSE Zero])

(* A region with a ragged start and end, a hole, and the region the heap is   *)
(* taken from.                                                                *)
TwoRegions == {[base |-> 9, length |-> 14], [base |-> 32, length |-> 33]}

(* The highest region is smaller than the heap. *)
Fragmented == {[base |-> 8, length |-> 16], [base |-> 32, length |-> 8]}

Map(v, p, n, m) == [virt |-> v, phys |-> p, pages |-> n, mmio |-> m]

(* Two ACPI tables next to each other, an MMIO range across two page tables,  *)
(* and a device under the huge page.                                          *)
BootRequests == {Map(0, 40, 1, FALSE), Map(1, 41, 1, FALSE), Map(1, 51, 3, TRUE),
                 Map(9, 60, 1, FALSE)}
NoRequests   == {}

=============================================================================
