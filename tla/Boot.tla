-------------------------------- MODULE Boot --------------------------------
(***************************************************************************)
(* kmain: descriptor tables, ACPI, PIC, APICs, sti, and then every xHCI    *)
(* controller on the PCI bus, against hardware that halts, resets and      *)
(* starts at its own pace and interrupts that come as soon as they can.    *)
(* The enumeration of devices that follows is module UsbHotplug, the pages *)
(* are module Paging.                                                      *)
(***************************************************************************)
EXTENDS PciConfig

CONSTANTS
    Machines,   \* what the kernel may be booted on
    Page,       \* bytes of a page
    MaxBar      \* the largest BAR XHCI::new accepts, 0x1000_0000

Header == 36    \* bytes of an SDTHeader
Rsdp   == 20    \* bytes of an RSDP
Madt   == 52    \* bytes of a MADT, entries included

ASSUME MachinesAssumption ==
    /\ Page \in Nat \ {0} /\ MaxBar \in Nat
    /\ \A m \in Machines :
          /\ m.running \in BOOLEAN /\ m.pci \in [Addresses -> PciFunction \cup {Absent}]
          /\ {m.acpi.rsdp, m.acpi.rsdt, m.acpi.length, m.acpi.entries} \subseteq Nat
          /\ m.acpi.tables \in Seq([at : Nat, signature : {"APIC", "other"}])
          /\ Len(m.acpi.tables) =      \* an entry of four bytes for each table
                IF m.acpi.length < Header THEN 0 ELSE (m.acpi.length - Header) \div 4
          /\ \A a \in Addresses :       \* pages are powers of two, too
                m.pci[a] # Absent /\ m.pci[a].bar.size >= Page => m.pci[a].bar.size % Page = 0

VARIABLES
    machine,    \* as firmware and loader left it: PCI functions, ACPI tables, pages
    pci,        \* configuration space
    hw,         \* the registers of each xHCI controller
    boot,       \* where main is
    gates,      \* vectors with a gate in the IDT
    pic,        \* the 8259: at the vectors of the firmware, remapped, or masked
    lapic,      \* LAPIC is initialised
    ioapic,     \* IRQ 1 is routed to vector 33
    ints,       \* IF
    hung,       \* 0, or the vector whose handler loops for ever
    todo,       \* controllers found and not yet looked at
    xhci,       \* the XHCI under construction
    mapped,     \* pages mapped for MMIO
    instance    \* XHCI_INSTANCE

interruptVars == <<gates, pic, lapic, ioapic, ints, hung>>
usbVars       == <<pci, hw, todo, xhci, mapped, instance>>
bootVars      == <<machine, boot, interruptVars, usbVars>>

NoController == <<>>
NoXhci    == [address |-> 0, virt_base |-> 0, size |-> 0, msix |-> None]
Registers == {"config", "dcbaap", "crcr", "erstsz", "erdp", "erstba", "iman"}

(* A controller the firmware has used is running, on structures of its own. *)
Controller(running) ==
    [run |-> running, hch |-> ~ running, hcrst |-> FALSE, cnr |-> FALSE, inte |-> FALSE,
     regs |-> {}, entry |-> "masked"]

BootInit ==
    /\ machine \in Machines
    /\ pci = machine.pci
    /\ hw = [a \in Addresses |-> Controller(machine.running)]
    /\ boot = "load_idt" /\ gates = {} /\ pic = "firmware" /\ lapic = FALSE /\ ioapic = FALSE
    /\ ints = FALSE /\ hung = 0
    /\ todo = <<>> /\ xhci = NoXhci /\ mapped = {} /\ instance = NoController

Runs(where) == hung = 0 /\ boot = where

-----------------------------------------------------------------------------
(* Interrupts. *)

load_idt ==
    /\ Runs("load_idt") /\ boot' = "test_rsdp"
    /\ gates' = (0 .. 3) \cup {8, 13, 14} \cup (33 .. 254)
    /\ UNCHANGED <<machine, pic, lapic, ioapic, ints, hung, usbVars>>

(* The first table of the RSDT that is signed APIC; no table after it is      *)
(* looked at.                                                                 *)
find_MADT(tables) ==
    {i \in DOMAIN tables : /\ tables[i].signature = "APIC"
                           /\ \A j \in 1 .. i - 1 : tables[j].signature # "APIC"}
LookedAt(tables) == {i \in DOMAIN tables : \A j \in find_MADT(tables) : i <= j}

(* A table that is a MADT is copied as one, of another the header is printed. *)
SizeRead(table) == IF table.signature = "APIC" THEN Madt ELSE Header

Aligned(a) == a - (a % Page)

(* Each structure has the page of its first byte mapped before it is read,    *)
(* and only that page; what map_page returns is ignored.  A read needs a page *)
(* that one of these calls, or the loader, has mapped.                        *)
Readable(m, starts, at, bytes) ==
    \A o \in 0 .. bytes - 1 :
        \/ Aligned(at + o) \in m.present
        \/ Aligned(at + o) \in {Aligned(a) : a \in starts} \ m.unmappable

Starts(acpi, i) == {acpi.rsdp, acpi.rsdt} \cup {acpi.tables[j].at : j \in 1 .. i}

(* Mutant: the page of a table is mapped after its header has been read. *)
PageFault_mapped_late(m) ==
    LET acpi == m.acpi IN
    \/ ~ Readable(m, {acpi.rsdp}, acpi.rsdp, Rsdp)
    \/ ~ Readable(m, Starts(acpi, 0), acpi.rsdt + 4, 4)
    \/ \E i \in LookedAt(acpi.tables) :
          \/ ~ Readable(m, Starts(acpi, i - 1), acpi.rsdt + Header + 4 * (i - 1), 4)
          \/ ~ Readable(m, Starts(acpi, i - 1), acpi.tables[i].at, SizeRead(acpi.tables[i]))

(* The reads of test_rsdp: RSDP, length of the RSDT, then entry and table.    *)
PageFault(m) ==
    LET acpi == m.acpi IN
    \/ ~ Readable(m, {acpi.rsdp}, acpi.rsdp, Rsdp)
    \/ ~ Readable(m, Starts(acpi, 0), acpi.rsdt + 4, 4)
    \/ \E i \in LookedAt(acpi.tables) :
          \/ ~ Readable(m, Starts(acpi, i - 1), acpi.rsdt + Header + 4 * (i - 1), 4)
          \/ ~ Readable(m, Starts(acpi, i), acpi.tables[i].at, SizeRead(acpi.tables[i]))

(* MADT.entries is declared a pointer, so the first eight bytes of the        *)
(* records are followed as one (acpi.entries).  These records make a          *)
(* canonical address of them; an I/O APIC, an override of the local APIC's    *)
(* address, or a local APIC's NMI and what follows it do not: #GP.            *)
Canonical == {"lapic", "interrupt_override", "nmi_source", "x2apic"}

RecordFault(m) ==
    LET acpi == m.acpi IN
    IF find_MADT(acpi.tables) = {} THEN 0
    ELSE IF acpi.first_record \notin Canonical THEN 13
    ELSE IF \A i \in find_MADT(acpi.tables) :
                Readable(m, Starts(acpi, i) \cup {acpi.entries}, acpi.entries, 2) THEN 0 ELSE 14

(* The length of the RSDT less a header is an unsigned subtraction: a panic.  *)
(* (Without an RSDP nothing is read, as on a machine without tables.)         *)
test_rsdp ==
    /\ Runs("test_rsdp")
    /\ hung' = IF PageFault(machine) THEN 14 ELSE RecordFault(machine)
    /\ boot' = IF ~ PageFault(machine) /\ machine.acpi.length < Header THEN "overflow"
               ELSE "disable_pic"
    /\ UNCHANGED <<machine, gates, pic, lapic, ioapic, ints, usbVars>>

(* Mutant: the PIC is given its new vectors and its lines are left unmasked. *)
disable_pic_unmasked ==
    /\ Runs("disable_pic") /\ boot' = "init_lapic" /\ pic' = "remapped"
    /\ UNCHANGED <<machine, gates, lapic, ioapic, ints, hung, usbVars>>

disable_pic ==
    /\ Runs("disable_pic") /\ boot' = "init_lapic" /\ pic' = "masked"
    /\ UNCHANGED <<machine, gates, lapic, ioapic, ints, hung, usbVars>>

init_lapic ==
    /\ Runs("init_lapic") /\ boot' = "init_ioapic" /\ lapic' = TRUE
    /\ UNCHANGED <<machine, gates, pic, ioapic, ints, hung, usbVars>>

init_ioapic ==
    /\ Runs("init_ioapic") /\ boot' = "sti" /\ ioapic' = TRUE
    /\ UNCHANGED <<machine, gates, pic, lapic, ints, hung, usbVars>>

sti_boot ==
    /\ Runs("sti") /\ boot' = "find_usb_controllers" /\ ints' = TRUE
    /\ UNCHANGED <<machine, gates, pic, lapic, ioapic, hung, usbVars>>

Armed(a) ==
    /\ pci[a] # Absent /\ hw[a].entry = "armed" /\ hw[a].inte /\ ~ hw[a].hch
    /\ \E s \in DOMAIN pci[a].caps : pci[a].caps[s].enabled /\ ~ pci[a].caps[s].masked

(* The timer of the 8259, where it is, a key of a PS/2 keyboard, an event of  *)
(* a controller, the spurious vector of 0x1FF.                                *)
Raised(v) == \/ v = 8 /\ pic = "firmware"
             \/ v = 32 /\ pic = "remapped"
             \/ v = 33 /\ lapic /\ ioapic
             \/ v = 44 /\ lapic /\ \E a \in Addresses : Armed(a)
             \/ v = 255 /\ lapic

(* common_interrupt_handler returns for vector 44 only; a missing gate ends   *)
(* in the double fault handler, which loops like every other.                 *)
common_interrupt_handler(v) ==
    /\ ints /\ hung = 0 /\ Raised(v)
    /\ hung' = IF v = 44 /\ v \in gates THEN 0 ELSE v
    /\ UNCHANGED <<machine, boot, gates, pic, lapic, ioapic, ints, usbVars>>

-----------------------------------------------------------------------------
(* init_usb_controllers *)

ctrl == Head(todo)

find_usb ==
    /\ Runs("find_usb_controllers") /\ boot' = "next"
    /\ todo' = find_usb_controllers(pci)
    /\ UNCHANGED <<machine, interruptVars, pci, hw, xhci, mapped, instance>>

next_controller ==
    /\ Runs("next")
    /\ boot' = IF todo = <<>> THEN "done"
               ELSE IF pci[ctrl].prog_if = "xHCI" THEN "enable_device" ELSE "next"
    /\ todo' = IF todo # <<>> /\ pci[ctrl].prog_if # "xHCI" THEN Tail(todo) ELSE todo
    /\ UNCHANGED <<machine, interruptVars, pci, hw, xhci, mapped, instance>>

enable ==
    /\ Runs("enable_device") /\ boot' = "XHCI_new"
    /\ pci' = [pci EXCEPT ![ctrl] = enable_device(@)]
    /\ UNCHANGED <<machine, interruptVars, hw, todo, xhci, mapped, instance>>

(* get_bar0 asserts a memory BAR, XHCI::new a plausible size.  The pages of   *)
(* the BAR are mapped and virt_base is the first page: what the address had   *)
(* below the page is lost.                                                    *)
XHCI_new ==
    /\ Runs("XHCI_new")
    /\ LET bar   == pci[ctrl].bar
           info  == get_bar0(bar)
           sized == get_bar0_size(bar)
           pages == (sized.size + Page - 1) \div Page
       IN  /\ pci' = IF IsIo(bar.lo) THEN pci ELSE [pci EXCEPT ![ctrl].bar = sized.bar]
           /\ IF IsIo(bar.lo) \/ sized.size = 0 \/ sized.size >= MaxBar
                THEN boot' = "panic" /\ UNCHANGED <<xhci, mapped>>
                ELSE /\ boot' = "setup_msix"
                     /\ mapped' = mapped \cup {Aligned(info.address + i * Page) : i \in 0 .. pages - 1}
                     /\ xhci' = [address |-> info.address, virt_base |-> Aligned(info.address),
                                 size |-> sized.size, msix |-> None]
    /\ UNCHANGED <<machine, interruptVars, hw, todo, instance>>

(* The table entry is written at BAR0 plus the table's offset whatever BAR    *)
(* the table is in, and only a function that decodes memory sees the write.   *)
setup_msix ==
    /\ Runs("setup_msix") /\ boot' = "halt"
    /\ LET cap == find_capability(pci[ctrl], "msix")
       IN  /\ xhci' = [xhci EXCEPT !.msix = cap]
           /\ IF cap = None THEN UNCHANGED <<pci, hw>>
              ELSE /\ hw' = IF Decoded(pci[ctrl]) /\ pci[ctrl].caps[cap].table_bar = 0
                              THEN [hw EXCEPT ![ctrl].entry = "armed"] ELSE hw
                   /\ pci' = [pci EXCEPT ![ctrl] = set_msix_enable(@, cap)]
    /\ UNCHANGED <<machine, interruptVars, todo, mapped, instance>>

-----------------------------------------------------------------------------
(* init_xhci.  A write reaches a function that decodes memory; one that does  *)
(* not reads as all ones.                                                     *)

WriteHw(new) == hw' = IF Decoded(pci[ctrl]) THEN [hw EXCEPT ![ctrl] = new] ELSE hw
Bit(field)   == Decoded(pci[ctrl]) => hw[ctrl][field]

OnlyHw == UNCHANGED <<machine, interruptVars, pci, todo, xhci, mapped, instance>>

halt ==
    /\ Runs("halt") /\ boot' = "wait_hch"
    /\ WriteHw([hw[ctrl] EXCEPT !.run = FALSE])
    /\ OnlyHw

hcrst ==
    /\ Runs("wait_hch") /\ Bit("hch") /\ boot' = "wait_hcrst"
    /\ WriteHw([hw[ctrl] EXCEPT !.hcrst = TRUE, !.cnr = TRUE])
    /\ OnlyHw

wait_hcrst ==
    /\ Runs("wait_hcrst") /\ ~ Bit("hcrst") /\ boot' = "wait_cnr"
    /\ UNCHANGED hw /\ OnlyHw

(* Mutant: the controller is not waited for after its reset. *)
wait_cnr_skipped ==
    /\ Runs("wait_cnr") /\ boot' = "config"
    /\ UNCHANGED hw /\ OnlyHw

wait_cnr ==
    /\ Runs("wait_cnr") /\ ~ Bit("cnr") /\ boot' = "config"
    /\ UNCHANGED hw /\ OnlyHw

(* CONFIG, DCBAAP and CRCR, then setup_event_ring.  A controller that is not  *)
(* ready ignores the write.                                                   *)
After(r) == CASE r = "config" -> "dcbaap" [] r = "dcbaap" -> "crcr" [] r = "crcr" -> "erstsz"
              [] r = "erstsz" -> "erdp" [] r = "erdp" -> "erstba" [] r = "erstba" -> "iman"
              [] r = "iman" -> "run"

write_register(r) ==
    /\ Runs(r) /\ boot' = After(r)
    /\ WriteHw([hw[ctrl] EXCEPT !.regs = IF hw[ctrl].cnr THEN @ ELSE @ \cup {r}])
    /\ OnlyHw

(* start_controller *)
run ==
    /\ Runs("run") /\ boot' = "wait_run"
    /\ WriteHw([hw[ctrl] EXCEPT !.inte = TRUE, !.run = TRUE])
    /\ OnlyHw

wait_run ==
    /\ Runs("wait_run") /\ ~ Bit("hch") /\ boot' = "publish"
    /\ UNCHANGED hw /\ OnlyHw

(* A timeout is reported and otherwise taken for success. *)
wait_run_timeout ==
    /\ Runs("wait_run") /\ Bit("hch") /\ boot' = "publish"
    /\ UNCHANGED hw /\ OnlyHw

(* Only the first controller gets into XHCI_INSTANCE; one without MSI-X is    *)
(* polled for ever.                                                           *)
publish ==
    /\ Runs("publish")
    /\ IF xhci.msix = None
         THEN boot' = "polling" /\ UNCHANGED <<instance, todo, xhci>>
         ELSE /\ boot' = "next" /\ todo' = Tail(todo) /\ xhci' = NoXhci
              /\ instance' = IF instance = NoController THEN ctrl ELSE instance
    /\ UNCHANGED <<machine, interruptVars, pci, hw, mapped>>

-----------------------------------------------------------------------------
(* The controllers. *)

HwHalt(a) == /\ ~ hw[a].run /\ ~ hw[a].hch
             /\ hw' = [hw EXCEPT ![a].hch = TRUE]
HwReset(a) == /\ hw[a].hcrst
              /\ hw' = [hw EXCEPT ![a] = [Controller(FALSE) EXCEPT !.cnr = TRUE, !.entry = hw[a].entry]]
HwReady(a) == /\ hw[a].cnr /\ ~ hw[a].hcrst
              /\ hw' = [hw EXCEPT ![a].cnr = FALSE]
HwRun(a)   == /\ hw[a].run /\ hw[a].hch /\ ~ hw[a].hcrst
              /\ hw' = [hw EXCEPT ![a].hch = FALSE]

Hardware ==
    /\ \E a \in Addresses : HwHalt(a) \/ HwReset(a) \/ HwReady(a) \/ HwRun(a)
    /\ UNCHANGED <<machine, boot, interruptVars, pci, todo, xhci, mapped, instance>>

Kernel ==
    \/ load_idt \/ test_rsdp \/ disable_pic \/ init_lapic \/ init_ioapic \/ sti_boot
    \/ find_usb \/ next_controller \/ enable \/ XHCI_new \/ setup_msix
    \/ halt \/ hcrst \/ wait_hcrst \/ wait_cnr \/ (\E r \in Registers : write_register(r))
    \/ run \/ wait_run \/ wait_run_timeout \/ publish

BootNext == Kernel \/ Hardware \/ \E v \in {8, 32, 33, 44, 255} : common_interrupt_handler(v)
BootSpec == BootInit /\ [][BootNext]_bootVars

-----------------------------------------------------------------------------
(* Properties. *)

(* A controller that runs with interrupts enabled has every structure the     *)
(* kernel gave it: no register was written before the reset was over, however *)
(* long that took.  The event ring is enabled (ERSTBA) with its size and      *)
(* dequeue pointer in place.                                                  *)
RunsConfigured ==
    \A a \in Addresses :
        /\ hw[a].inte /\ ~ hw[a].hch => hw[a].regs = Registers
        /\ "erstba" \in hw[a].regs => {"erstsz", "erdp"} \subseteq hw[a].regs

(* Address and size come out as the firmware and the device have them, for    *)
(* 32-bit and 64-bit BARs, the BAR is as it was, and every register of a BAR  *)
(* of a page or more is mapped where the driver will look for it.             *)
BarDecoded ==
    xhci # NoXhci =>
        LET bar == machine.pci[ctrl].bar
        IN  /\ xhci.address = bar.base /\ xhci.size = bar.size /\ pci[ctrl].bar = bar
            /\ bar.size >= Page =>
                  /\ xhci.virt_base = bar.base
                  /\ \A o \in 0 .. bar.size - 1 : Aligned(bar.base + o) \in mapped

(* The slots on the capability list: what every closed set with its head has. *)
Listed(f) ==
    {s \in 1 .. Slots :
        \A C \in SUBSET (1 .. Slots) :
            f.cap_ptr \in C /\ (\A c \in C : f.caps[c].next \in C \cup {0}) => s \in C}

HasMsix(f) == f.cap_list /\ f.cap_ptr # 0 /\ \E s \in Listed(f) : f.caps[s].id = "msix"

(* setup_msix finds the MSI-X capability exactly when it is on the list, and  *)
(* ends on a list that is a cycle; its table entry is then armed unless the   *)
(* table is in another BAR.                                                   *)
CapabilityFound ==
    boot \notin {"setup_msix"} /\ xhci # NoXhci =>
        LET f == machine.pci[ctrl]
        IN  /\ xhci.msix # None <=> HasMsix(f)
            /\ xhci.msix # None =>
                  /\ xhci.msix \in Listed(f) /\ f.caps[xhci.msix].id = "msix"
                  /\ Decoded(f) /\ f.caps[xhci.msix].table_bar = 0 => hw[ctrl].entry = "armed"

(* Interrupts are on from sti_boot to the end, yet neither the timer of the   *)
(* PIC, where the firmware had it or where disable_pic puts it, nor a         *)
(* controller's event ever finds a vector that stops the kernel.              *)
NoStrayVector == hung \notin {8, 32, 44}

OnePage(at, bytes) == \A o \in 0 .. bytes - 1 : Aligned(at + o) = Aligned(at)

(* Tables test_rsdp can read: a first record that makes an address, an RSDT   *)
(* of a header or more, and every structure it looks at, up to the MADT, in   *)
(* one page that can be mapped.  What lies behind the MADT does not matter.   *)
Legible(m) ==
    LET acpi == m.acpi IN
    /\ acpi.first_record \in Canonical /\ acpi.length >= Header
    /\ OnePage(acpi.rsdp, Rsdp) /\ OnePage(acpi.rsdt, acpi.length) /\ OnePage(acpi.entries, 2)
    /\ \A i \in LookedAt(acpi.tables) :
          /\ OnePage(acpi.tables[i].at, SizeRead(acpi.tables[i]))
          /\ Aligned(acpi.tables[i].at) \notin m.unmappable
    /\ \A a \in {acpi.rsdp, acpi.rsdt, acpi.entries} : Aligned(a) \notin m.unmappable

(* On a machine with such tables test_rsdp returns: every page is mapped      *)
(* before something in it is read.                                            *)
LegibleTablesRead == Legible(machine) => hung \notin {13, 14} /\ boot # "overflow"

(* What the boot comes to on a machine whose functions decode memory: the     *)
(* first xHCI controller of the bus is published, or polled without MSI-X.    *)
XhciFunctions ==
    {a \in Addresses : IsUsb(machine.pci, a) /\ machine.pci[a].prog_if = "xHCI"}
FirstXhci == CHOOSE a \in XhciFunctions :
                \A b \in XhciFunctions : a[1] < b[1] \/ (a[1] = b[1] /\ a[2] <= b[2])
Completed ==
    IF XhciFunctions = {} THEN boot = "done" /\ instance = NoController
    ELSE IF HasMsix(machine.pci[FirstXhci])
           THEN boot \in {"done", "polling"} /\ instance = FirstXhci
           ELSE boot = "polling" /\ instance = NoController

FirmwareDecodes == \A a \in XhciFunctions : Decoded(machine.pci[a])
Stopped         == hung # 0 \/ boot \in {"panic", "overflow"}
=============================================================================
