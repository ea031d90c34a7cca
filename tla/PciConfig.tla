----------------------------- MODULE PciConfig -----------------------------
(***************************************************************************)
(* PCI configuration space and what kernel/src/pci.rs reads from it.       *)
(*                                                                         *)
(* Nothing else touches configuration space while the kernel boots, so     *)
(* each function is an operator from the registers it finds to its result  *)
(* and, where it writes, to the registers it leaves.  A register has       *)
(* WordBits bits (32 in hardware).  A 16-bit write is a read and a write   *)
(* of the whole word; the other half of the words concerned is read-only   *)
(* or, like the status bits, of no interest here.                          *)
(***************************************************************************)
EXTENDS Integers, FiniteSets, Sequences

CONSTANTS
    WordBits,   \* bits of a configuration register
    Devices,    \* number of device numbers
    Functions,  \* number of functions a device may have
    Slots,      \* capability slots: words 0x40 .. 0xFC of configuration space
    SafetyBound \* find_capability's limit, 48

ASSUME PciAssumption ==
    /\ WordBits \in Nat /\ WordBits > 4
    /\ Devices \in Nat /\ Functions \in Nat \ {0}
    /\ Slots \in Nat /\ SafetyBound \in Nat /\ Slots <= SafetyBound

Word     == 2 ^ WordBits
AllOnes  == Word - 1
Absent   == [class |-> "absent"]  \* vendor ID 0xFFFF
None     == 0                     \* no slot

ASSUME WordAssumption == Word \in Nat /\ Word > 16 /\ Word % 16 = 0

Addresses == (0 .. Devices - 1) \X (0 .. Functions - 1)

-----------------------------------------------------------------------------
(* Base address registers 0 and 1.  Bit 0: I/O space; bits 1-2 = 2: 64-bit;   *)
(* bit 3: prefetchable.  The hardware keeps address bits below the size zero. *)

Flags(lo)   == lo % 16
IsIo(lo)    == lo % 2 = 1
Is64bit(lo) == (lo \div 2) % 4 = 2
Base(lo)    == lo - Flags(lo)

(* One that is not implemented (size 0) keeps no bit.                         *)
LowSize(bar)  == IF bar.size \in 1 .. Word THEN bar.size ELSE Word
HighSize(bar) == IF bar.size < Word THEN 1 ELSE bar.size \div Word
WriteLow(bar, v)  == [bar EXCEPT !.lo = v - (v % LowSize(bar)) + Flags(bar.lo)]
WriteHigh(bar, v) == [bar EXCEPT !.hi = IF Is64bit(bar.lo) THEN v - (v % HighSize(bar)) ELSE @]

get_bar0(bar) ==
    [address  |-> IF Is64bit(bar.lo) THEN bar.hi * Word + Base(bar.lo) ELSE Base(bar.lo),
     is_64bit |-> Is64bit(bar.lo)]

(* Mutant: the upper half is not put back. *)
get_bar0_size_keeps_probe(bar) ==
    LET low  == WriteLow(bar, AllOnes)
        back == WriteLow(low, bar.lo)
        high == WriteHigh(back, AllOnes)
    IN  IF Is64bit(bar.lo)
          THEN [size |-> (Word * Word - (high.hi * Word + Base(low.lo))) % (Word * Word), bar |-> high]
          ELSE [size |-> (Word - Base(low.lo)) % Word, bar |-> back]

(* All ones are written, the bits that stick are read, the old value is put   *)
(* back; the size is the two's complement of the bits that stuck.             *)
get_bar0_size(bar) ==
    LET low  == WriteLow(bar, AllOnes)
        back == WriteLow(low, bar.lo)
        high == WriteHigh(back, AllOnes)
    IN  IF Is64bit(bar.lo)
          THEN [size |-> (Word * Word - (high.hi * Word + Base(low.lo))) % (Word * Word),
                bar  |-> WriteHigh(high, back.hi)]
          ELSE [size |-> (Word - Base(low.lo)) % Word, bar |-> back]

(* A base address register as PCI allows it, programmed by the firmware.  A   *)
(* size is a power of two of at least 16, so that it and a word are multiples *)
(* one of the other, and the base is a multiple of the size.                  *)
LegalBar(bar) ==
    IsIo(bar.lo) \/
    IF bar.size = 0 THEN bar.lo = 0
    ELSE /\ bar.size % 16 = 0 /\ bar.base % bar.size = 0
         /\ bar.lo = (bar.base % Word) + Flags(bar.lo)
         /\ IF bar.size < Word THEN Word % bar.size = 0
            ELSE bar.size % Word = 0 /\ Word % (bar.size \div Word) = 0
         /\ IF Is64bit(bar.lo) THEN bar.hi = bar.base \div Word /\ bar.size < Word * Word
            ELSE bar.base < Word /\ bar.size < Word

BarRegister ==
    {b \in [base : Nat, size : Nat, lo : 0 .. Word - 1, hi : 0 .. Word - 1] : LegalBar(b)}

-----------------------------------------------------------------------------
(* The capability list: a pointer, then in each slot an ID and the pointer to *)
(* the next.  0 ends the list; a broken list may be a cycle.                  *)

(* find_capability's ptr after k rounds of its loop. *)
Pointers(f) ==
    LET ptr[k \in 0 .. SafetyBound] ==
          IF k = 0 THEN f.cap_ptr
          ELSE IF ptr[k - 1] = 0 THEN 0 ELSE f.caps[ptr[k - 1]].next
    IN  ptr

FirstHit(f, id, rounds) ==
    LET hits == {k \in rounds : Pointers(f)[k] # 0 /\ f.caps[Pointers(f)[k]].id = id}
    IN  IF f.cap_list /\ hits # {}
          THEN Pointers(f)[CHOOSE k \in hits : \A j \in hits : k <= j] ELSE None

(* Mutant: the bound ends the loop one round early. *)
find_capability_short(f, id) == FirstHit(f, id, 0 .. SafetyBound - 2)

find_capability(f, id) == FirstHit(f, id, 0 .. SafetyBound - 1)

(* set_msix_enable(.., true): enable, and lift the function mask. *)
set_msix_enable(f, cap) == [f EXCEPT !.caps[cap].enabled = TRUE, !.caps[cap].masked = FALSE]

-----------------------------------------------------------------------------
(* Enumeration.  pci is the machine: Absent or a function at each address.   *)

Capability  == [id : {"msix", "other"}, next : {None} \cup (1 .. Slots), table_bar : 0 .. 5,
                enabled : BOOLEAN, masked : BOOLEAN]
PciFunction == [class : {"usb", "other"}, prog_if : {"xHCI", "EHCI", "none"}, multi : BOOLEAN,
                command : SUBSET {"io_space", "memory_space", "bus_master"},
                cap_list : BOOLEAN, cap_ptr : {None} \cup (1 .. Slots),
                caps : [1 .. Slots -> Capability], bar : BarRegister]

IsUsb(pci, a) == pci[a] # Absent /\ pci[a].class = "usb"

(* Mutant: the other functions are looked at only if function 0 is no hit. *)
Probed_stops_at_hit(pci, d) ==
    IF pci[<<d, 0>>] = Absent THEN {}
    ELSE IF pci[<<d, 0>>].multi /\ ~ IsUsb(pci, <<d, 0>>) THEN 0 .. Functions - 1 ELSE {0}

(* probe_function: function 0 first, the others if it is multi-function. *)
Probed(pci, d) ==
    IF pci[<<d, 0>>] = Absent THEN {}
    ELSE IF pci[<<d, 0>>].multi THEN 0 .. Functions - 1 ELSE {0}

(* The n-th turn of the two loops. *)
Probe(n)    == <<n \div Functions, n % Functions>>
Hit(pci, a) == a[2] \in Probed(pci, a[1]) /\ IsUsb(pci, a)
Probing(pci, n, found) == IF Hit(pci, Probe(n)) THEN Append(found, Probe(n)) ELSE found

find_usb_controllers(pci) ==
    LET found[n \in 0 .. Devices * Functions] ==
          IF n = 0 THEN <<>> ELSE Probing(pci, n - 1, found[n - 1])
    IN  found[Devices * Functions]

(* CMD_MEMORY_SPACE is bit 0, which PCI defines as I/O space; memory decoding *)
(* (bit 1) stays as the firmware left it.                                     *)
CMD_MEMORY_SPACE == "io_space"
CMD_BUS_MASTER   == "bus_master"

(* Mutant: the command register is written without being read first. *)
enable_device_overwrites(f) == [f EXCEPT !.command = {CMD_MEMORY_SPACE, CMD_BUS_MASTER}]

enable_device(f) == [f EXCEPT !.command = @ \cup {CMD_MEMORY_SPACE, CMD_BUS_MASTER}]

Decoded(f) == "memory_space" \in f.command
=============================================================================
