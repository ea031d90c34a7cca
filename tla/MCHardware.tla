----------------------------- MODULE MCHardware -----------------------------
(***************************************************************************)
(* TLC instance of the modules that meet the hardware without a partner in *)
(* the kernel: the producer rings (TrbRing) and what reads what hardware   *)
(* says of itself (Boot, ConfigDescriptor, HidReports).  They share no     *)
(* variable, so a property of one holds when all run together exactly if   *)
(* it holds when the others stand still; each behaviour here is about one  *)
(* of them.                                                                *)
(***************************************************************************)
EXTENDS Boot, ConfigDescriptor, HidReports, TrbRing

-----------------------------------------------------------------------------
(* Machines.  One thing at a time is unusual. *)

Cap(id, next, table) ==
    [id |-> id, next |-> next, table_bar |-> table, enabled |-> FALSE, masked |-> TRUE]

(* lo and hi as the firmware programs a BAR at address base. *)
Bar(base, size, flags) ==
    [base |-> base, size |-> size, lo |-> (base % Word) + flags,
     hi |-> IF (flags \div 2) % 4 = 2 THEN base \div Word ELSE 0]

Function(class, prog_if, multi) ==
    [class |-> class, prog_if |-> prog_if, multi |-> multi,
     command |-> {"memory_space"}, cap_list |-> TRUE, cap_ptr |-> 2,
     caps |-> [s \in 1 .. Slots |-> Cap(IF s = 1 THEN "msix" ELSE "other", IF s = 2 THEN 1 ELSE 0, 0)],
     bar |-> Bar(Word, 128, 4)]
Xhci == Function("usb", "xHCI", FALSE)

Alone(f) == [a \in Addresses |-> IF a = <<0, 0>> THEN f ELSE Absent]

(* Pages have 64 bytes.  RSDP and RSDT in pages of their own or across two,   *)
(* tables in one page, across two, and together; every kind of first record;  *)
(* pages the loader has mapped and pages there is no memory to map.           *)
Acpi(rsdp, rsdt, tables, record) ==
    [rsdp |-> rsdp, rsdt |-> rsdt, length |-> Header + 4 * Len(tables), tables |-> tables,
     first_record |-> record, entries |-> 1000]
Table(signature, at) == [signature |-> signature, at |-> at]
PlainAcpi == Acpi(8, 64, <<Table("other", 128), Table("APIC", 192)>>, "lapic")
AcpiTables ==
    {Acpi(rsdp, rsdt, tables, "lapic") :
        rsdp \in {8, 50}, rsdt \in {64, 112},
        tables \in {<<>>, <<Table("other", 140)>>, <<Table("APIC", 140)>>,
                    <<Table("other", 192), Table("APIC", 128)>>,
                    <<Table("APIC", 192), Table("other", 170)>>,
                    <<Table("other", 170), Table("APIC", 192)>>}}
      \cup {[PlainAcpi EXCEPT !.first_record = r] :
               r \in Canonical \cup {"ioapic", "lapic_nmi", "lapic_address"}}
      \cup {[Acpi(8, rsdt, <<>>, "lapic") EXCEPT !.length = 8] : rsdt \in {64, 122}}

Machine(functions) ==
    [pci |-> functions, acpi |-> PlainAcpi, present |-> {}, unmappable |-> {}, running |-> TRUE]

(* 32-bit BARs below 2^WordBits, 64-bit ones of up to four times that; one    *)
(* that is not implemented, one that is I/O space.                            *)
Bars == {Bar(n * s, s, f) : n \in 1 .. 3, s \in {16, 32, 64}, f \in {0, 8}}
          \cup {Bar(n * s, s, f) : n \in 1 .. 3, s \in {16, 64, 128, 256, 512, 1024}, f \in {4, 12}}
          \cup {Bar(0, 0, 0), Bar(16, 16, 1)}

(* Slots have no order, so the head may be taken to be slot 1.                *)
CapLists == [1 .. Slots -> {Cap(id, n, 0) : id \in {"msix", "other"}, n \in 0 .. Slots}]

(* One or two devices with up to two functions each: legal machines have a    *)
(* function 0 wherever they have another, and then say so in its header.      *)
FunctionKinds == {Function("usb", "xHCI", m) : m \in BOOLEAN} \cup {Function("usb", "EHCI", TRUE)}
           \cup {Function("other", "none", m) : m \in BOOLEAN}
           \cup {[Function("usb", "xHCI", FALSE) EXCEPT !.cap_list = FALSE]}
LegalDevice(f0, f1) == /\ f0 = Absent => f1 = Absent
                       /\ f1 # Absent => f0.multi
Populations ==
    {p \in [Addresses -> FunctionKinds \cup {Absent}] :
        \A d \in 0 .. Devices - 1 : LegalDevice(p[<<d, 0>>], p[<<d, 1>>])}

SomeMachines ==
    {Machine(Alone([Xhci EXCEPT !.bar = b])) : b \in Bars}
      \cup {Machine(Alone([Xhci EXCEPT !.caps = c, !.cap_ptr = 1])) : c \in CapLists}
      \cup {Machine(Alone([Xhci EXCEPT !.cap_ptr = 0]))}
      \cup {Machine(p) : p \in Populations}
      \cup {[Machine(Alone([Xhci EXCEPT !.command = c, !.caps[1].table_bar = t])) EXCEPT
                 !.running = w] : c \in {{}, {"memory_space"}}, t \in {0, 2}, w \in BOOLEAN}
      \cup {[Machine([d \in Addresses |-> Absent]) EXCEPT
                 !.acpi = a, !.present = p, !.unmappable = u] :
               a \in AcpiTables, p \in {{}, {128}}, u \in {{}, {128}, {960}}}

-----------------------------------------------------------------------------
(* Descriptors: interfaces of a keyboard and of a storage device, a HID       *)
(* descriptor, endpoints (interrupt IN, bulk IN, interrupt OUT), an interface *)
(* descriptor that claims two bytes, and a length of zero.                    *)
SomeDescriptors ==
    {<<9, 4, 0, 0, 1, 3, 1, 1, 0>>, <<9, 4, 1, 0, 2, 8, 6, 80, 0>>, <<3, 33, 0>>,
     <<7, 5, 129, 3, 8, 0, 10>>, <<7, 5, 130, 2, 64, 0, 0>>, <<7, 5, 1, 3, 8, 0, 10>>,
     <<2, 4>>, <<0, 0>>}

-----------------------------------------------------------------------------
(* The interrupt ring wraps repeatedly, the unlinked rings once. *)
PostedBy == [k \in Kinds |-> IF k = "interrupt" THEN 4 * (RingSize - 1) + 1 ELSE RingSize + 1]

-----------------------------------------------------------------------------
VARIABLE about  \* the component this behaviour is about

dataVars == <<walkVars, kbdVars, mouseVars>>
allVars  == <<bootVars, dataVars, vars, about>>

BootIdle == machine = Machine(Alone(Xhci)) /\ BootInit
WalkIdle == sent = <<>> /\ WalkInit
RingIdle == kind = "command" /\ Init

AllInit ==
    /\ about \in {"boot", "descriptor", "keyboard", "mouse", "ring"}
    /\ IF about = "boot" THEN BootInit ELSE BootIdle
    /\ IF about = "descriptor" THEN WalkInit ELSE WalkIdle
    /\ IF about = "ring" THEN Init ELSE RingIdle
    /\ KbdInit /\ MouseInit

BootStep  == about = "boot" /\ BootNext /\ UNCHANGED <<dataVars, vars, about>>
WalkStep  == about = "descriptor" /\ WalkNext
             /\ UNCHANGED <<bootVars, kbdVars, mouseVars, vars, about>>
KbdStep   == about = "keyboard" /\ KbdNext
             /\ UNCHANGED <<bootVars, walkVars, mouseVars, vars, about>>
MouseStep == about = "mouse" /\ MouseNext
             /\ UNCHANGED <<bootVars, walkVars, kbdVars, vars, about>>
RingStep  == about = "ring" /\ Next /\ UNCHANGED <<bootVars, dataVars, about>>

AllNext == BootStep \/ WalkStep \/ KbdStep \/ MouseStep \/ RingStep

(* Main executes; a controller gets on with halting, resetting and starting. *)
(* The fairness of a component is asked of the behaviours about it only.     *)
AllSpec == /\ AllInit /\ [][AllNext]_allVars
           /\ WF_allVars(BootStep /\ Kernel) /\ WF_allVars(BootStep /\ Hardware)
           /\ WF_allVars(RingStep /\ Step) /\ WF_allVars(RingStep /\ Hw)

(* Unless it stops for one of the known reasons the boot completes, however   *)
(* long the controllers take, if the firmware left memory decoding on.        *)
BootCompletes == about = "boot" /\ FirmwareDecodes ~> (Completed \/ Stopped)
=============================================================================
