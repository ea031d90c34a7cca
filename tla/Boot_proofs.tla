----------------------------- MODULE Boot_proofs -----------------------------
(***************************************************************************)
(* The boot sequence on any machine: any number of functions and           *)
(* controllers with any BARs and capability lists that PCI allows, however *)
(* long each controller takes to halt, reset and start, and whatever       *)
(* interrupts come.  First the writes of init_xhci (RunsConfigured), then  *)
(* the arithmetic of the BARs, the loops of pci.rs, and with them what the *)
(* kernel finds on the bus (BarDecoded, CapabilityFound); last the tables  *)
(* of ACPI and the vectors (LegibleTablesRead, NoStrayVector).             *)
(***************************************************************************)
EXTENDS Boot, FiniteSetTheorems, NaturalsInduction, TLAPS

(* The registers in the order of init_xhci and setup_event_ring. *)
Place == [config |-> 1, dcbaap |-> 2, crcr |-> 3, erstsz |-> 4, erdp |-> 5, erstba |-> 6,
          iman |-> 7, run |-> 8]
Written(p) == {r \in Registers : Place[r] < Place[p]}

Writing == Registers \cup {"run"}

Fields == [run : BOOLEAN, hch : BOOLEAN, hcrst : BOOLEAN, cnr : BOOLEAN, inte : BOOLEAN,
           regs : SUBSET Registers, entry : {"masked", "armed"}]

(* The controller that init_xhci works on, if it sees the writes, has its    *)
(* reset behind it and every register that was written so far.               *)
ResetOver(a) ==
    a = ctrl /\ Decoded(pci[a]) =>
        /\ boot \in Writing \cup {"wait_cnr"} => ~ hw[a].hcrst
        /\ boot \in Writing => ~ hw[a].cnr /\ Written(boot) \subseteq hw[a].regs

Configured(a) ==
    /\ hw[a].inte => hw[a].regs = Registers
    /\ "erstba" \in hw[a].regs => {"erstsz", "erdp"} \subseteq hw[a].regs

BootInv ==
    /\ hw \in [Addresses -> Fields]
    /\ \A a \in Addresses : Configured(a) /\ ResetOver(a)

-----------------------------------------------------------------------------
(* The order of the registers. *)
LEMMA Order ==
    /\ Written("config") = {} /\ Written("run") = Registers
    /\ {"erstsz", "erdp"} \subseteq Written("erstba")
    /\ \A r \in Registers : After(r) \in Writing /\ Written(After(r)) = Written(r) \cup {r}
  <1>1. After("config") = "dcbaap" /\ After("dcbaap") = "crcr" /\ After("crcr") = "erstsz"
        /\ After("erstsz") = "erdp" /\ After("erdp") = "erstba" /\ After("erstba") = "iman"
        /\ After("iman") = "run"
    BY DEF After
  <1>2. \A r \in Registers : After(r) \in Writing /\ Written(After(r)) = Written(r) \cup {r}
    BY <1>1 DEF Registers, Writing, Written, Place
  <1>3. Written("config") = {} /\ Written("run") = Registers
        /\ {"erstsz", "erdp"} \subseteq Written("erstba")
    BY DEF Registers, Written, Place
  <1> QED BY <1>2, <1>3

(* A write of main changes the controller it works on, if that decodes       *)
(* memory, and no other.                                                     *)
LEMMA Write ==
    ASSUME hw \in [Addresses -> Fields], NEW new, WriteHw(new),
           ctrl \in Addresses => new \in Fields
    PROVE  /\ hw' \in [Addresses -> Fields]
           /\ \A a \in Addresses :
                 hw'[a] = IF a = ctrl /\ Decoded(pci[a]) THEN new ELSE hw[a]
  BY DEF WriteHw

(* Main leaves configuration space and the controller it works on alone      *)
(* while it waits or writes registers.                                       *)
LEMMA Elsewhere ==
    ASSUME BootInv, NEW a \in Addresses, UNCHANGED <<hw, pci, todo>>,
           boot' \notin Writing \cup {"wait_cnr"} \/ boot' = boot
    PROVE  Configured(a)' /\ ResetOver(a)'
  BY DEF BootInv, Configured, ResetOver, ctrl

(* A controller takes one of its own steps. *)
LEMMA HardwareStep == BootInv /\ Hardware => BootInv'
  <1> SUFFICES ASSUME BootInv, Hardware PROVE BootInv'
    OBVIOUS
  <1>1. PICK a \in Addresses : HwHalt(a) \/ HwReset(a) \/ HwReady(a) \/ HwRun(a)
    BY DEF Hardware
  <1>2. UNCHANGED <<pci, todo, boot>>
    BY DEF Hardware, interruptVars
  <1>3. hw[a] \in Fields /\ Configured(a) /\ ResetOver(a)
    BY DEF BootInv
  <1>4. ASSUME NEW new \in Fields, hw' = [hw EXCEPT ![a] = new],
               ~ hw[a].hcrst => ~ new.hcrst /\ (~ hw[a].cnr => ~ new.cnr) /\ new.regs = hw[a].regs,
               hw[a].hcrst => \/ ~ new.inte /\ new.regs = {}
                              \/ new.inte = hw[a].inte /\ new.regs = hw[a].regs,
               new.inte => hw[a].inte
        PROVE  BootInv'
    <2>1. hw' \in [Addresses -> Fields]
      BY <1>4 DEF BootInv
    <2>2. ASSUME NEW b \in Addresses
          PROVE  Configured(b)' /\ ResetOver(b)'
      <3>1. Configured(b) /\ ResetOver(b)
        BY DEF BootInv
      <3>2. CASE b # a
        <4>1. hw'[b] = hw[b]
          BY <1>4, <3>2 DEF BootInv
        <4> QED BY <3>1, <4>1, <1>2 DEF Configured, ResetOver, ctrl
      <3>3. CASE b = a
        <4>1. hw'[b] = new
          BY <1>4, <3>3 DEF BootInv
        <4>2. Configured(b)'
          BY <1>3, <1>4, <3>3, <4>1 DEF Configured, Fields
        <4>3. ResetOver(b)'
          BY <1>2, <1>4, <3>1, <3>3, <4>1 DEF ResetOver, ctrl
        <4> QED BY <4>2, <4>3
      <3> QED BY <3>2, <3>3
    <2> QED BY <2>1, <2>2 DEF BootInv
  <1>5. CASE HwHalt(a)
    BY <1>3, <1>4, <1>5 DEF HwHalt, Fields
  <1>6. CASE HwReset(a)
    BY <1>3, <1>4, <1>6 DEF HwReset, Controller, Fields
  <1>7. CASE HwReady(a)
    BY <1>3, <1>4, <1>7 DEF HwReady, Fields
  <1>8. CASE HwRun(a)
    BY <1>3, <1>4, <1>8 DEF HwRun, Fields
  <1> QED BY <1>1, <1>5, <1>6, <1>7, <1>8

(* A write of main to the controller it works on. *)
LEMMA WriteStep ==
    ASSUME BootInv, UNCHANGED <<pci, todo>>, NEW new, WriteHw(new),
           ctrl \in Addresses => new \in Fields,
           ctrl \in Addresses /\ Decoded(pci[ctrl]) =>
              /\ new.inte => new.regs = Registers
              /\ "erstba" \in new.regs => {"erstsz", "erdp"} \subseteq new.regs
              /\ boot' \in Writing \cup {"wait_cnr"} => ~ new.hcrst
              /\ boot' \in Writing => ~ new.cnr /\ Written(boot') \subseteq new.regs
    PROVE  BootInv'
  <1>1. /\ hw' \in [Addresses -> Fields]
        /\ \A a \in Addresses : hw'[a] = IF a = ctrl /\ Decoded(pci[a]) THEN new ELSE hw[a]
    BY Write DEF BootInv
  <1>2. ASSUME NEW a \in Addresses PROVE Configured(a)' /\ ResetOver(a)'
    <2>1. CASE a = ctrl /\ Decoded(pci[a])
      <3>1. hw'[a] = new
        BY <1>1, <2>1
      <3> QED BY <2>1, <3>1 DEF Configured, ResetOver, ctrl
    <2>2. CASE ~ (a = ctrl /\ Decoded(pci[a]))
      <3>1. hw'[a] = hw[a] /\ Configured(a)
        BY <1>1, <2>2 DEF BootInv
      <3> QED BY <2>2, <3>1 DEF Configured, ResetOver, ctrl
    <2> QED BY <2>1, <2>2
  <1> QED BY <1>1, <1>2 DEF BootInv

(* Main changes no register, and is not in the middle of the reset or of     *)
(* writing registers afterwards.                                             *)
LEMMA NoWrite ==
    ASSUME BootInv, UNCHANGED hw, boot' \notin Writing \cup {"wait_cnr"}
    PROVE  BootInv'
  BY DEF BootInv, Configured, ResetOver

-----------------------------------------------------------------------------
(* A step of main. *)
LEMMA KernelStep == BootInv /\ Kernel => BootInv'
  <1> SUFFICES ASSUME BootInv, Kernel PROVE BootInv'
    OBVIOUS
  <1>t. ctrl \in Addresses => hw[ctrl] \in Fields /\ Configured(ctrl) /\ ResetOver(ctrl)
    BY DEF BootInv
  <1>w. Writing \cup {"wait_cnr"} =
            {"config", "dcbaap", "crcr", "erstsz", "erdp", "erstba", "iman", "run", "wait_cnr"}
    BY DEF Writing, Registers
  <1>1. CASE load_idt \/ test_rsdp \/ disable_pic \/ init_lapic \/ init_ioapic \/ sti_boot
    BY <1>1, <1>w, NoWrite
       DEF load_idt, test_rsdp, disable_pic, init_lapic, init_ioapic, sti_boot, usbVars
  <1>2. CASE find_usb \/ next_controller \/ enable
    BY <1>2, <1>w, NoWrite DEF find_usb, next_controller, enable
  <1>3. CASE XHCI_new
    <2>1. UNCHANGED hw /\ boot' \in {"panic", "setup_msix"}
      BY <1>3 DEF XHCI_new
    <2> QED BY <2>1, <1>w, NoWrite
  <1>4. CASE setup_msix
    <2>1. boot' = "halt"
      BY <1>4 DEF setup_msix
    <2>2. UNCHANGED hw \/ hw' = [hw EXCEPT ![ctrl].entry = "armed"]
      BY <1>4 DEF setup_msix
    <2>3. CASE UNCHANGED hw
      BY <2>1, <2>3, <1>w, NoWrite
    <2>4. CASE hw' = [hw EXCEPT ![ctrl].entry = "armed"]
      <3>1. hw' \in [Addresses -> Fields]
        BY <2>4 DEF BootInv, Fields
      <3>2. \A a \in Addresses : hw'[a].inte = hw[a].inte /\ hw'[a].regs = hw[a].regs
        BY <2>4 DEF BootInv, Fields
      <3>3. \A a \in Addresses : Configured(a)'
        BY <3>2 DEF BootInv, Configured
      <3>4. \A a \in Addresses : ResetOver(a)'
        BY <2>1, <1>w DEF ResetOver
      <3> QED BY <3>1, <3>3, <3>4 DEF BootInv
    <2> QED BY <2>2, <2>3, <2>4
  <1>5. CASE halt
    <2> DEFINE new == [hw[ctrl] EXCEPT !.run = FALSE]
    <2>1. WriteHw(new) /\ UNCHANGED <<pci, todo>> /\ boot' = "wait_hch"
      BY <1>5 DEF halt, OnlyHw
    <2>2. ctrl \in Addresses =>
             /\ new \in Fields /\ new.inte = hw[ctrl].inte /\ new.regs = hw[ctrl].regs
      BY <1>t DEF Fields
    <2>3. ctrl \in Addresses =>
             /\ new.inte => new.regs = Registers
             /\ "erstba" \in new.regs => {"erstsz", "erdp"} \subseteq new.regs
      BY <2>2, <1>t DEF Configured
    <2>4. boot' \notin Writing \cup {"wait_cnr"} /\ boot' \notin Writing
      BY <2>1, <1>w
    <2> HIDE DEF new
    <2> QED BY <2>1, <2>2, <2>3, <2>4, WriteStep
  <1>6. CASE hcrst
    <2> DEFINE new == [hw[ctrl] EXCEPT !.hcrst = TRUE, !.cnr = TRUE]
    <2>1. WriteHw(new) /\ UNCHANGED <<pci, todo>> /\ boot' = "wait_hcrst"
      BY <1>6 DEF hcrst, OnlyHw
    <2>2. ctrl \in Addresses =>
             /\ new \in Fields /\ new.inte = hw[ctrl].inte /\ new.regs = hw[ctrl].regs
      BY <1>t DEF Fields
    <2>3. ctrl \in Addresses =>
             /\ new.inte => new.regs = Registers
             /\ "erstba" \in new.regs => {"erstsz", "erdp"} \subseteq new.regs
      BY <2>2, <1>t DEF Configured
    <2>4. boot' \notin Writing \cup {"wait_cnr"} /\ boot' \notin Writing
      BY <2>1, <1>w
    <2> HIDE DEF new
    <2> QED BY <2>1, <2>2, <2>3, <2>4, WriteStep
  <1>7. CASE wait_hcrst \/ wait_cnr
    <2>1. UNCHANGED <<hw, pci, todo>> /\ boot' \in {"wait_cnr", "config"}
      BY <1>7 DEF wait_hcrst, wait_cnr, OnlyHw
    <2>2. ASSUME NEW a \in Addresses PROVE Configured(a)' /\ ResetOver(a)'
      <3>1. Configured(a) /\ ResetOver(a)
        BY DEF BootInv
      <3>2. Configured(a)'
        BY <2>1, <3>1 DEF Configured
      <3>3. CASE wait_hcrst
        <4>1. boot' = "wait_cnr" /\ ~ Bit("hcrst") /\ "wait_cnr" \notin Writing
          BY <3>3 DEF wait_hcrst, Writing, Registers
        <4>2. ResetOver(a)'
          BY <2>1, <4>1 DEF ResetOver, Bit, ctrl
        <4> QED BY <3>2, <4>2
      <3>4. CASE wait_cnr
        <4>1. boot = "wait_cnr" /\ boot' = "config" /\ ~ Bit("cnr")
          BY <3>4 DEF wait_cnr, Runs
        <4>2. ResetOver(a)'
          BY <2>1, <3>1, <4>1, Order DEF ResetOver, Bit, ctrl
        <4> QED BY <3>2, <4>2
      <3> QED BY <1>7, <3>2, <3>3, <3>4
    <2> QED BY <2>1, <2>2 DEF BootInv
  <1>8. CASE \E r \in Registers : write_register(r)
    <2>1. PICK r \in Registers : write_register(r)
      BY <1>8
    <2> DEFINE new == [hw[ctrl] EXCEPT !.regs = IF hw[ctrl].cnr THEN @ ELSE @ \cup {r}]
    <2>2. WriteHw(new) /\ UNCHANGED <<pci, todo>> /\ boot = r /\ boot' = After(r)
      BY <2>1 DEF write_register, OnlyHw, Runs
    <2>3. ctrl \in Addresses =>
             /\ new \in Fields /\ new.inte = hw[ctrl].inte /\ new.hcrst = hw[ctrl].hcrst
             /\ new.cnr = hw[ctrl].cnr
             /\ new.regs = IF hw[ctrl].cnr THEN hw[ctrl].regs ELSE hw[ctrl].regs \cup {r}
      BY <1>t DEF Fields
    <2>4. boot \in Writing /\ boot' \in Writing /\ Written(boot') = Written(r) \cup {r}
      BY <2>1, <2>2, Order DEF Writing
    <2>5. ASSUME ctrl \in Addresses, Decoded(pci[ctrl])
          PROVE  /\ new.inte => new.regs = Registers
                 /\ "erstba" \in new.regs => {"erstsz", "erdp"} \subseteq new.regs
                 /\ ~ new.hcrst /\ ~ new.cnr /\ Written(boot') \subseteq new.regs
      <3>1. ~ hw[ctrl].hcrst /\ ~ hw[ctrl].cnr /\ Written(r) \subseteq hw[ctrl].regs
        BY <2>2, <2>4, <2>5, <1>t DEF ResetOver
      <3>2. new.regs = hw[ctrl].regs \cup {r} /\ hw[ctrl].regs \subseteq Registers
        BY <2>3, <2>5, <3>1, <1>t DEF Fields
      <3>3. new.inte => new.regs = Registers
        BY <2>1, <2>3, <2>5, <3>2, <1>t DEF Configured
      <3>4. "erstba" \in new.regs => {"erstsz", "erdp"} \subseteq new.regs
        BY <2>5, <3>1, <3>2, <1>t, Order DEF Configured
      <3> QED BY <2>3, <2>4, <2>5, <3>1, <3>2, <3>3, <3>4
    <2> HIDE DEF new
    <2> QED BY <2>2, <2>3, <2>5, WriteStep
  <1>9. CASE run
    <2> DEFINE new == [hw[ctrl] EXCEPT !.inte = TRUE, !.run = TRUE]
    <2>1. WriteHw(new) /\ UNCHANGED <<pci, todo>> /\ boot = "run" /\ boot' = "wait_run"
      BY <1>9 DEF run, OnlyHw, Runs
    <2>2. ctrl \in Addresses => new \in Fields /\ new.regs = hw[ctrl].regs
      BY <1>t DEF Fields
    <2>3. ctrl \in Addresses /\ Decoded(pci[ctrl]) => hw[ctrl].regs = Registers
      BY <2>1, <1>t, Order DEF ResetOver, Writing, Fields
    <2> HIDE DEF new
    <2> QED BY <2>1, <2>2, <2>3, <1>w, WriteStep DEF Registers
  <1>10. CASE wait_run \/ wait_run_timeout
    BY <1>10, <1>w, NoWrite DEF wait_run, wait_run_timeout
  <1>11. CASE publish
    <2>1. UNCHANGED hw /\ boot' \in {"polling", "next"}
      BY <1>11 DEF publish
    <2> QED BY <2>1, <1>w, NoWrite
  <1> QED
    BY <1>1, <1>2, <1>3, <1>4, <1>5, <1>6, <1>7, <1>8, <1>9, <1>10, <1>11 DEF Kernel

-----------------------------------------------------------------------------
(* Whatever machine it boots on, and however long its controllers take: a    *)
(* controller that runs with interrupts enabled has every register that      *)
(* init_xhci and setup_event_ring wrote, none of them written before the     *)
(* reset was over, and its event ring is enabled after size and dequeue      *)
(* pointer.                                                                  *)
THEOREM ControllersRunConfigured == BootSpec => [](RunsConfigured /\ BootInv)
  <1>1. BootInit => BootInv
    <2> SUFFICES ASSUME BootInit PROVE BootInv
      OBVIOUS
    <2>1. machine.running \in BOOLEAN /\ hw = [a \in Addresses |-> Controller(machine.running)]
      BY MachinesAssumption DEF BootInit
    <2>2. Controller(machine.running) \in Fields
      BY <2>1 DEF Controller, Fields
    <2>3. \A a \in Addresses : Configured(a)
      BY <2>1 DEF Configured, Controller
    <2>4. \A a \in Addresses : ResetOver(a)
      BY DEF BootInit, ResetOver, Writing, Registers
    <2> QED BY <2>1, <2>2, <2>3, <2>4 DEF BootInv
  <1>2. BootInv /\ [BootNext]_bootVars => BootInv'
    <2> SUFFICES ASSUME BootInv, [BootNext]_bootVars PROVE BootInv'
      OBVIOUS
    <2>1. CASE UNCHANGED <<hw, pci, todo, boot>>
      BY <2>1, Elsewhere DEF BootInv
    <2>2. ASSUME NEW v \in {8, 32, 33, 44, 255}, common_interrupt_handler(v) PROVE BootInv'
      BY <2>1, <2>2 DEF common_interrupt_handler, usbVars
    <2>3. CASE UNCHANGED bootVars
      BY <2>1, <2>3 DEF bootVars, usbVars
    <2> QED BY <2>2, <2>3, KernelStep, HardwareStep DEF BootNext
  <1>3. BootInv => RunsConfigured
    BY DEF BootInv, Configured, RunsConfigured
  <1> QED BY <1>1, <1>2, <1>3, PTL DEF BootSpec

-----------------------------------------------------------------------------
(* Numbers.                                                                *)

(* Division with remainder. *)
LEMMA Division ==
    ASSUME NEW x \in Nat, NEW n \in Nat \ {0}
    PROVE  /\ x \div n \in Nat /\ x % n \in 0 .. n - 1
           /\ x = (x \div n) * n + (x % n)
  OBVIOUS

(* ... and its uniqueness. *)
LEMMA Quotient ==
    ASSUME NEW q \in Nat, NEW n \in Nat \ {0}, NEW r \in 0 .. n - 1
    PROVE  (q * n + r) \div n = q /\ (q * n + r) % n = r
  OBVIOUS

(* A number that leaves no remainder is a multiple. *)
LEMMA Multiple ==
    ASSUME NEW x \in Nat, NEW n \in Nat \ {0}, x % n = 0
    PROVE  \E q \in Nat : x = q * n
  <1>1. x \div n \in Nat /\ x = (x \div n) * n + 0
    BY Division
  <1>2. PICK q \in Nat : q = x \div n
    BY <1>1
  <1>3. x = q * n
    BY <1>1, <1>2
  <1> QED BY <1>3

(* One below a multiple. *)
LEMMA JustBelow ==
    ASSUME NEW x \in Nat \ {0}, NEW n \in Nat \ {0}, x % n = 0
    PROVE  (x - 1) % n = n - 1 /\ n <= x
  <1>1. PICK q \in Nat : x = q * n
    BY Multiple
  <1>2. q # 0
    BY <1>1
  <1>3. q - 1 \in Nat /\ n - 1 \in 0 .. n - 1 /\ x - 1 = (q - 1) * n + (n - 1)
    BY <1>1, <1>2
  <1> QED BY <1>1, <1>2, <1>3, Quotient

(* Remainders of a multiple of n by a multiple of n. *)
LEMMA RemainderOf ==
    ASSUME NEW x \in Nat, NEW y \in Nat \ {0}, NEW n \in Nat \ {0}, x % n = 0, y % n = 0
    PROVE  (x % y) % n = 0
  <1>1. PICK q \in Nat : x = q * n
    BY Multiple
  <1>2. PICK p \in Nat : y = p * n
    BY Multiple
  <1>3. PICK d \in Nat, m \in 0 .. y - 1 : d = x \div y /\ m = x % y /\ x = d * y + m
    BY Division
  <1>4. d * y = (d * p) * n
    BY <1>2
  <1>5. m = (q - d * p) * n
    BY <1>1, <1>3, <1>4
  <1>6. PICK e \in Int : e = q - d * p
    OBVIOUS
  <1>7. e \in Nat
    <2>1. e < 0 => e * n <= 0 - n
      BY <1>6
    <2> QED BY <1>3, <1>5, <1>6, <2>1
  <1>8. m = e * n + 0
    BY <1>5, <1>6
  <1>9. m % n = 0
    BY <1>7, <1>8, Quotient
  <1> QED BY <1>3, <1>9

(* The remainder of a multiple and something smaller. *)
LEMMA AddBelow ==
    ASSUME NEW x \in Nat, NEW n \in Nat \ {0}, NEW r \in 0 .. n - 1, x % n = 0
    PROVE  (x + r) % n = r
  <1>1. PICK q \in Nat : x = q * n
    BY Multiple
  <1> QED BY <1>1, Quotient

(* The lower register of a BAR: what the probe leaves in it, what the driver  *)
(* reads from that, and that the old value fits back into it.                *)
LEMMA LowProbe ==
    ASSUME NEW bar \in BarRegister, ~ IsIo(bar.lo), bar.size # 0, NEW s \in Nat \ {0},
           LowSize(bar) = s, Word % s = 0, s % 16 = 0, bar.base % s = 0
    PROVE  /\ s <= Word /\ Base(WriteLow(bar, AllOnes).lo) = Word - s
           /\ WriteLow(WriteLow(bar, AllOnes), bar.lo) = bar
  <1>1. bar \in [base : Nat, size : Nat, lo : 0 .. Word - 1, hi : 0 .. Word - 1]
        /\ bar.lo = (bar.base % Word) + Flags(bar.lo)
    BY DEF BarRegister, LegalBar
  <1>2. PICK w \in Nat \ {0} : w = Word /\ w % 16 = 0 /\ w % s = 0
    BY WordAssumption
  <1>3. (w - 1) % s = s - 1 /\ s <= w
    BY <1>2, JustBelow
  <1>4. PICK f \in 0 .. 15 : f = Flags(bar.lo)
    BY <1>1, <1>2 DEF Flags
  <1>5. PICK x \in Nat : x = bar.base % w /\ x % s = 0
    <2>1. PICK b \in Nat : b = bar.base /\ b % s = 0
      BY <1>1
    <2>2. (b % w) % s = 0
      BY <1>2, <2>1, RemainderOf
    <2> QED BY <2>1, <2>2, Division
  <1>6. bar.lo = x + f
    BY <1>1, <1>2, <1>4, <1>5
  <1>7. (x + f) % s = f
    <2>1. f \in 0 .. s - 1
      OBVIOUS
    <2> QED BY <1>5, <2>1, AddBelow
  <1>8. PICK L \in Nat : L = (w - s) + f
    BY <1>3
  <1>9. L % 16 = f
    BY <1>2, <1>3, <1>8
  <1>10. WriteLow(bar, AllOnes) = [bar EXCEPT !.lo = L]
    BY <1>2, <1>3, <1>4, <1>8 DEF WriteLow, AllOnes
  <1>11. PICK low : low = [bar EXCEPT !.lo = L]
    OBVIOUS
  <1>12. low.lo = L /\ LowSize(low) = s /\ Flags(low.lo) = f /\ Base(low.lo) = w - s
    BY <1>1, <1>8, <1>9, <1>11 DEF LowSize, Flags, Base
  <1>13. WriteLow(low, bar.lo) = [low EXCEPT !.lo = bar.lo]
    <2>1. bar.lo - (bar.lo % s) + f = bar.lo
      BY <1>6, <1>7
    <2> QED BY <1>12, <2>1 DEF WriteLow
  <1>14. [low EXCEPT !.lo = bar.lo] = bar
    BY <1>1, <1>11
  <1> QED BY <1>2, <1>3, <1>10, <1>11, <1>12, <1>13, <1>14

(* One that is not implemented reads zero throughout. *)
LEMMA NoBar ==
    ASSUME NEW bar \in BarRegister, ~ IsIo(bar.lo), bar.size = 0
    PROVE  get_bar0_size(bar) = [size |-> 0, bar |-> bar]
  <1>1. bar \in [base : Nat, size : Nat, lo : 0 .. Word - 1, hi : 0 .. Word - 1] /\ bar.lo = 0
    BY DEF BarRegister, LegalBar
  <1>2. PICK w \in Nat \ {0} : w = Word
    BY WordAssumption
  <1>3. (w - 1) % w = w - 1 /\ w % w = 0 /\ 0 % w = 0
    BY Quotient
  <1>4. WriteLow(bar, AllOnes) = bar /\ WriteLow(bar, bar.lo) = bar /\ Base(bar.lo) = 0
        /\ ~ Is64bit(bar.lo)
    <2>1. LowSize(bar) = w /\ Flags(bar.lo) = 0 /\ Base(bar.lo) = 0 /\ ~ Is64bit(bar.lo)
      BY <1>1, <1>2 DEF LowSize, Flags, Base, Is64bit
    <2>2. [bar EXCEPT !.lo = 0] = bar
      BY <1>1
    <2> QED BY <1>1, <1>2, <1>3, <2>1, <2>2 DEF WriteLow, AllOnes
  <1> QED BY <1>2, <1>3, <1>4 DEF get_bar0_size

(* The two halves of a 64-bit number. *)
LEMMA Halves ==
    ASSUME NEW w \in Nat \ {0}, NEW base \in Nat
    PROVE  (base \div w) * w + (base % w) = base
  BY Division

(* get_bar0 puts the address together again. *)
LEMMA Address ==
    ASSUME NEW bar \in BarRegister, ~ IsIo(bar.lo), bar.size # 0
    PROVE  get_bar0(bar).address = bar.base
  <1>1. bar \in [base : Nat, size : Nat, lo : 0 .. Word - 1, hi : 0 .. Word - 1] /\ LegalBar(bar)
    BY DEF BarRegister
  <1>2. PICK w \in Nat \ {0}, b \in Nat : w = Word /\ b = bar.base
    BY <1>1, WordAssumption
  <1>3. Base(bar.lo) = b % w
    <2>1. PICK x \in Nat : x = b % w
      BY Division
    <2>2. bar.lo = x + Flags(bar.lo) /\ Flags(bar.lo) \in Nat
      BY <1>1, <1>2, <2>1 DEF LegalBar, Flags
    <2> QED BY <2>1, <2>2 DEF Base
  <1>4. CASE Is64bit(bar.lo)
    <2>1. bar.hi = b \div w
      BY <1>1, <1>2, <1>4 DEF LegalBar
    <2>2. bar.hi * w + Base(bar.lo) = b
      BY <1>2, <1>3, <2>1, Halves
    <2> QED BY <1>2, <1>4, <2>2 DEF get_bar0
  <1>5. CASE ~ Is64bit(bar.lo)
    <2>1. b < w
      BY <1>1, <1>2, <1>5 DEF LegalBar
    <2>2. b % w = b
      BY <2>1, Quotient
    <2> QED BY <1>2, <1>3, <1>5, <2>2 DEF get_bar0
  <1> QED BY <1>4, <1>5

(* One that is smaller than a word has its size in the lower register. *)
LEMMA SmallBar ==
    ASSUME NEW bar \in BarRegister, ~ IsIo(bar.lo), bar.size # 0, bar.size < Word
    PROVE  get_bar0_size(bar) = [size |-> bar.size, bar |-> bar]
  <1>1. bar \in [base : Nat, size : Nat, lo : 0 .. Word - 1, hi : 0 .. Word - 1] /\ LegalBar(bar)
    BY DEF BarRegister
  <1>2. PICK w \in Nat \ {0}, s \in Nat \ {0} : w = Word /\ s = bar.size /\ s < w
    BY <1>1, WordAssumption
  <1>3. LowSize(bar) = s /\ w % s = 0 /\ s % 16 = 0 /\ bar.base % s = 0
    BY <1>1, <1>2 DEF LowSize, LegalBar
  <1>4. PICK low : low = WriteLow(bar, AllOnes)
    OBVIOUS
  <1>5. Base(low.lo) = w - s /\ WriteLow(low, bar.lo) = bar
    BY <1>2, <1>3, <1>4, LowProbe
  <1>6. CASE ~ Is64bit(bar.lo)
    <2>1. (w - (w - s)) % w = s
      BY <1>2, Quotient
    <2> QED BY <1>2, <1>4, <1>5, <1>6, <2>1 DEF get_bar0_size
  <1>7. CASE Is64bit(bar.lo)
    <2>1. HighSize(bar) = 1
      BY <1>2 DEF HighSize
    <2>2. \A v \in Nat : v - (v % 1) = v
      OBVIOUS
    <2>3. PICK high : high = WriteHigh(bar, AllOnes)
      OBVIOUS
    <2>4. high = [bar EXCEPT !.hi = w - 1]
      BY <1>2, <1>7, <2>1, <2>2, <2>3 DEF WriteHigh, AllOnes
    <2>5. high.hi = w - 1 /\ WriteHigh(high, bar.hi) = bar
      <3>1. high.hi = w - 1 /\ high.size = bar.size /\ high.lo = bar.lo
        BY <1>1, <2>4
      <3>2. HighSize(high) = 1
        BY <2>1, <3>1 DEF HighSize
      <3>3. bar.hi - (bar.hi % 1) = bar.hi
        BY <1>1
      <3>4. WriteHigh(high, bar.hi) = [high EXCEPT !.hi = bar.hi]
        BY <1>7, <3>1, <3>2, <3>3 DEF WriteHigh
      <3>5. [high EXCEPT !.hi = bar.hi] = bar
        BY <1>1, <2>4
      <3> QED BY <3>1, <3>4, <3>5
    <2>6. (w * w - ((w - 1) * w + (w - s))) % (w * w) = s
      <3>1. w * w - ((w - 1) * w + (w - s)) = s
        OBVIOUS
      <3>2. s < w * w /\ w * w \in Nat \ {0}
        <4>1. w * 1 <= w * w
          OBVIOUS
        <4> QED BY <1>2, <4>1
      <3>3. PICK n \in Nat \ {0} : n = w * w
        BY <3>2
      <3>4. s % n = s
        BY <3>2, <3>3, Quotient
      <3> QED BY <3>1, <3>3, <3>4
    <2> QED BY <1>2, <1>4, <1>5, <1>7, <2>3, <2>5, <2>6 DEF get_bar0_size
  <1> QED BY <1>6, <1>7

(* A larger one has it in the upper register. *)
LEMMA LargeBar ==
    ASSUME NEW bar \in BarRegister, ~ IsIo(bar.lo), bar.size >= Word
    PROVE  get_bar0_size(bar) = [size |-> bar.size, bar |-> bar]
  <1>1. bar \in [base : Nat, size : Nat, lo : 0 .. Word - 1, hi : 0 .. Word - 1] /\ LegalBar(bar)
    BY DEF BarRegister
  <1>2. PICK w \in Nat \ {0}, s \in Nat \ {0}, b \in Nat :
            w = Word /\ s = bar.size /\ b = bar.base /\ w <= s /\ 16 < w
    BY <1>1, WordAssumption
  <1>3. /\ s % w = 0 /\ w % (s \div w) = 0 /\ b % s = 0 /\ w % 16 = 0
        /\ Is64bit(bar.lo) /\ bar.hi = b \div w /\ s < w * w
        /\ bar.lo = (b % w) + Flags(bar.lo)
    BY <1>1, <1>2, WordAssumption DEF LegalBar
  <1>4. PICK k \in Nat : k = s \div w /\ s = k * w
    <2>1. s % w = 0
      BY <1>3
    <2>2. s \div w \in Nat /\ s = (s \div w) * w + (s % w)
      BY Division
    <2>3. PICK k \in Nat : k = s \div w
      BY <2>2
    <2> QED BY <2>1, <2>2, <2>3
  <1>5. k # 0 /\ k < w /\ w % k = 0
    <2>1. k # 0
      BY <1>4
    <2>2. k >= w => k * w >= w * w
      OBVIOUS
    <2> QED BY <1>3, <1>4, <2>1, <2>2
  <1>6. PICK q \in Nat : b = q * s
    BY <1>3, Multiple
  <1>7. b = (q * k) * w + 0 /\ q * k \in Nat
    BY <1>4, <1>6
  <1>8. PICK n \in Nat : n = q * k
    BY <1>7
  <1>9. b \div w = n /\ b % w = 0
    <2>1. b = n * w + 0 /\ 0 \in 0 .. w - 1
      BY <1>7, <1>8
    <2> QED BY <2>1, Quotient
  <1>10. n % k = 0
    <2>1. n = q * k + 0 /\ k \in Nat \ {0} /\ 0 \in 0 .. k - 1
      BY <1>5, <1>8
    <2> QED BY <2>1, Quotient
  <1>11. PICK f \in 0 .. 15 : f = Flags(bar.lo) /\ bar.lo = f
    BY <1>1, <1>3, <1>9 DEF Flags
  <1>12. LowSize(bar) = w /\ HighSize(bar) = k
    BY <1>2, <1>4, <1>5 DEF LowSize, HighSize
  <1>13. (w - 1) % w = w - 1 /\ f % w = f
    <2>1. w - 1 \in 0 .. w - 1 /\ f \in 0 .. w - 1
      BY <1>2
    <2>2. \A x \in 0 .. w - 1 : x % w = x
      OBVIOUS
    <2> QED BY <2>1, <2>2
  <1>14. PICK low : low = WriteLow(bar, AllOnes)
    OBVIOUS
  <1>15. low = bar
    <2>1. low = [bar EXCEPT !.lo = f]
      BY <1>2, <1>11, <1>12, <1>13, <1>14 DEF WriteLow, AllOnes
    <2> QED BY <1>1, <1>11, <2>1
  <1>16. WriteLow(low, bar.lo) = bar
    <2>1. bar.lo - (bar.lo % w) + f = bar.lo
      BY <1>11, <1>13
    <2>2. WriteLow(bar, bar.lo) = [bar EXCEPT !.lo = bar.lo]
      BY <1>11, <1>12, <2>1 DEF WriteLow
    <2> QED BY <1>1, <1>15, <2>2
  <1>17. Base(low.lo) = 0
    <2>1. f % 16 = f
      OBVIOUS
    <2>2. Base(f) = 0
      BY <2>1 DEF Base, Flags
    <2>3. low.lo = f
      BY <1>11, <1>15
    <2> QED BY <2>2, <2>3
  <1>18. PICK high : high = WriteHigh(bar, AllOnes)
    OBVIOUS
  <1>19. high = [bar EXCEPT !.hi = w - k]
    <2>1. (w - 1) % k = k - 1
      BY <1>5, JustBelow
    <2>2. (w - 1) - ((w - 1) % k) = w - k
      BY <1>5, <2>1
    <2> QED BY <1>2, <1>3, <1>12, <1>18, <2>2 DEF WriteHigh, AllOnes
  <1>20. high.hi = w - k /\ WriteHigh(high, bar.hi) = bar
    <2>1. high.hi = w - k /\ high.size = bar.size /\ high.lo = bar.lo
      BY <1>1, <1>19
    <2>2. HighSize(high) = k
      BY <1>12, <2>1 DEF HighSize
    <2>3. bar.hi - (bar.hi % k) = bar.hi
      BY <1>3, <1>8, <1>9, <1>10
    <2>4. WriteHigh(high, bar.hi) = [high EXCEPT !.hi = bar.hi]
      BY <1>3, <2>1, <2>2, <2>3 DEF WriteHigh
    <2>5. [high EXCEPT !.hi = bar.hi] = bar
      BY <1>1, <1>19
    <2> QED BY <2>1, <2>4, <2>5
  <1>21. (w * w - ((w - k) * w + 0)) % (w * w) = s
    <2>1. w * w - ((w - k) * w + 0) = s
      BY <1>4
    <2>2. PICK m \in Nat \ {0} : m = w * w
      OBVIOUS
    <2>3. s % m = s
      BY <1>3, <2>2, Quotient
    <2> QED BY <2>1, <2>2, <2>3
  <1> QED BY <1>2, <1>3, <1>14, <1>16, <1>17, <1>18, <1>20, <1>21 DEF get_bar0_size

(* get_bar0_size finds the size of every memory BAR that PCI allows and leaves *)
(* its registers as they were; get_bar0 finds the address.                   *)
LEMMA Sized ==
    ASSUME NEW bar \in BarRegister, ~ IsIo(bar.lo)
    PROVE  /\ get_bar0_size(bar) = [size |-> bar.size, bar |-> bar]
           /\ bar.size # 0 => get_bar0(bar).address = bar.base
  <1>1. bar.size \in Nat /\ Word \in Nat
    BY WordAssumption DEF BarRegister
  <1> QED BY <1>1, NoBar, SmallBar, LargeBar, Address

-----------------------------------------------------------------------------
(* Loops.                                                                  *)

(* A set of numbers that is not empty has a least one. *)
LEMMA Least ==
    ASSUME NEW N \in SUBSET Nat, N # {}
    PROVE  \E q \in N : \A n \in N : q <= n
  <1> DEFINE R == {p \in Nat \X Nat : p[1] < p[2]}
  <1>1. IsWellFoundedOn(R, Nat)
    BY NatLessThanWellFounded DEF OpToRel
  <1>2. PICK q \in N : \A n \in N : ~ (<<n, q>> \in R)
    BY <1>1, WFMin
  <1>3. \A n \in N : ~ (n < q)
    BY <1>2
  <1> QED BY <1>3

(* What holds before a loop and is kept by each round. *)
LEMMA Along ==
    ASSUME NEW N \in Nat, NEW g, NEW V, g[0] \in V,
           \A k \in 1 .. N : g[k - 1] \in V => g[k] \in V
    PROVE  \A k \in 0 .. N : g[k] \in V
  <1> DEFINE Bad == {k \in 0 .. N : g[k] \notin V}
  <1>1. SUFFICES ASSUME Bad # {} PROVE FALSE
    OBVIOUS
  <1>2. Bad \in SUBSET Nat
    OBVIOUS
  <1>3. PICK q \in Bad : \A k \in Bad : q <= k
    BY <1>1, <1>2, Least
  <1>4. q # 0 /\ q \in 1 .. N
    OBVIOUS
  <1>5. q - 1 \in 0 .. N /\ ~ (q <= q - 1)
    BY <1>4
  <1>6. g[q - 1] \in V
    BY <1>3, <1>5
  <1> QED BY <1>4, <1>6

(* A loop has a result. *)
LEMMA Iterate ==
    ASSUME NEW V, NEW v \in V, NEW N \in Nat, NEW G \in [1 .. N -> [V -> V]]
    PROVE  \E g \in [0 .. N -> V] : g[0] = v /\ \A k \in 1 .. N : g[k] = G[k][g[k - 1]]
  <1> DEFINE Has(n) == \E g \in [0 .. n -> V] :
                          g[0] = v /\ \A k \in 1 .. n : g[k] = G[k][g[k - 1]]
             Bad == {n \in 0 .. N : ~ Has(n)}
  <1>1. SUFFICES ASSUME Bad # {} PROVE FALSE
    OBVIOUS
  <1>2. Bad \in SUBSET Nat
    OBVIOUS
  <1>3. PICK q \in Bad : \A k \in Bad : q <= k
    BY <1>1, <1>2, Least
  <1>4. q # 0
    <2>1. PICK g : g = [k \in 0 .. 0 |-> v]
      OBVIOUS
    <2>2. g \in [0 .. 0 -> V] /\ g[0] = v /\ \A k \in 1 .. 0 : g[k] = G[k][g[k - 1]]
      BY <2>1
    <2>3. Has(0)
      BY <2>2
    <2> QED BY <1>3, <2>3
  <1>5. q - 1 \in 0 .. N /\ ~ (q <= q - 1) /\ q \in 1 .. N
    BY <1>4
  <1>6. Has(q - 1)
    BY <1>3, <1>5
  <1>7. PICK g \in [0 .. q - 1 -> V] :
            g[0] = v /\ \A k \in 1 .. q - 1 : g[k] = G[k][g[k - 1]]
    BY <1>6
  <1>8. PICK h : h = [k \in 0 .. q |-> IF k = q THEN G[q][g[q - 1]] ELSE g[k]]
    OBVIOUS
  <1>9. G[q][g[q - 1]] \in V
    <2>1. q - 1 \in 0 .. q - 1
      BY <1>5
    <2>2. g[q - 1] \in V /\ G[q] \in [V -> V]
      BY <1>5, <2>1
    <2> QED BY <2>2
  <1>10. h \in [0 .. q -> V] /\ h[0] = v
    BY <1>5, <1>7, <1>8, <1>9
  <1>11. \A k \in 1 .. q : h[k] = G[k][h[k - 1]]
    BY <1>5, <1>7, <1>8
  <1>12. Has(q)
    BY <1>10, <1>11
  <1> QED BY <1>12

-----------------------------------------------------------------------------
(* find_usb_controllers returns addresses of USB controllers.              *)

Found(cfg, n, g) ==
    g = [k \in 0 .. n |-> IF k = 0 THEN <<>> ELSE Probing(cfg, k - 1, g[k - 1])]

UsbOf(cfg) == {a \in Addresses : IsUsb(cfg, a)}

(* A hit is the address of a USB function. *)
LEMMA ProbeInside ==
    ASSUME NEW cfg, NEW n \in 0 .. Devices * Functions - 1, Hit(cfg, Probe(n))
    PROVE  Probe(n) \in UsbOf(cfg)
  <1>1. PICK d \in Nat, m \in Nat \ {0} : d = Devices /\ m = Functions
    BY PciAssumption
  <1>0. n \in Nat /\ n < d * m
    BY <1>1
  <1>2. PICK q \in Nat, r \in 0 .. m - 1 : q = n \div m /\ r = n % m /\ n = q * m + r
    <2>1. n \div m \in Nat /\ n % m \in 0 .. m - 1 /\ n = (n \div m) * m + (n % m)
      BY <1>0, Division
    <2>2. PICK q \in Nat, r \in 0 .. m - 1 : q = n \div m /\ r = n % m
      BY <2>1
    <2> QED BY <2>1, <2>2
  <1>3. q < d
    <2>1. q >= d => q * m >= d * m
      OBVIOUS
    <2> QED BY <1>0, <1>2, <2>1
  <1>4. <<q, r>> \in Addresses
    BY <1>1, <1>2, <1>3 DEF Addresses
  <1> QED BY <1>1, <1>2, <1>4 DEF Probe, Hit, UsbOf

(* So is everything that find_usb_controllers returns. *)
LEMMA FoundAreUsb ==
    ASSUME NEW cfg
    PROVE  find_usb_controllers(cfg) \in Seq(UsbOf(cfg))
  <1>n. PICK N \in Nat : N = Devices * Functions
    BY PciAssumption
  <1>s. PICK S : S = UsbOf(cfg)
    OBVIOUS
  <1>1. N = Devices * Functions /\ S = UsbOf(cfg)
    BY <1>n, <1>s
  <1>2. PICK V : V = Seq(S)
    OBVIOUS
  <1>a. <<>> \in V
    BY <1>2
  <1>b. ASSUME NEW n \in 1 .. N, NEW s \in V PROVE Probing(cfg, n - 1, s) \in V
    <2>1. n - 1 \in 0 .. N - 1
      OBVIOUS
    <2>2. Hit(cfg, Probe(n - 1)) => Probe(n - 1) \in S
      BY <1>1, <2>1, ProbeInside
    <2> QED BY <1>2, <2>2 DEF Probing
  <1>3. \E g : Found(cfg, N, g)
    <2>1. PICK G : G = [n \in 1 .. N |-> [s \in V |-> Probing(cfg, n - 1, s)]]
      OBVIOUS
    <2>2. G \in [1 .. N -> [V -> V]]
      BY <1>b, <2>1
    <2>0. PICK v \in V : v = <<>>
      BY <1>a
    <2>3. PICK g \in [0 .. N -> V] : g[0] = v /\ \A k \in 1 .. N : g[k] = G[k][g[k - 1]]
      BY <2>2, Iterate
    <2>4. ASSUME NEW k \in 1 .. N PROVE g[k] = Probing(cfg, k - 1, g[k - 1])
      <3>1. k - 1 \in 0 .. N
        OBVIOUS
      <3>2. g[k - 1] \in V
        BY <3>1
      <3> QED BY <2>1, <2>3, <3>2
    <2>5. Found(cfg, N, g)
      BY <2>0, <2>3, <2>4 DEF Found
    <2> QED BY <2>5
  <1>4. PICK f : f = CHOOSE g : Found(cfg, N, g)
    OBVIOUS
  <1>5. Found(cfg, N, f)
    BY <1>3, <1>4, Zenon
  <1>6. find_usb_controllers(cfg) = f[N]
    BY <1>1, <1>4 DEF find_usb_controllers, Found
  <1>7. \A k \in 0 .. N : f[k] \in V
    <2>1. f[0] = <<>>
      BY <1>5 DEF Found
    <2>2. ASSUME NEW k \in 1 .. N, f[k - 1] \in V PROVE f[k] \in V
      <3>1. f[k] = Probing(cfg, k - 1, f[k - 1])
        BY <1>5 DEF Found
      <3> QED BY <1>b, <2>2, <3>1
    <2> QED BY <1>a, <2>1, <2>2, Along
  <1> QED BY <1>1, <1>2, <1>6, <1>7

-----------------------------------------------------------------------------
(* The capability list.                                                    *)

Following(f, g) ==
    g = [k \in 0 .. SafetyBound |->
          IF k = 0 THEN f.cap_ptr
          ELSE IF g[k - 1] = 0 THEN 0 ELSE f.caps[g[k - 1]].next]

(* The slots that find_capability looks at. *)
Visited(f) == {Pointers(f)[k] : k \in 0 .. SafetyBound - 1} \ {0}

(* The pointer after each round. *)
LEMMA PointersAre ==
    ASSUME NEW f \in PciFunction
    PROVE  /\ Pointers(f)[0] = f.cap_ptr
           /\ \A k \in 1 .. SafetyBound :
                 Pointers(f)[k] = IF Pointers(f)[k - 1] = 0 THEN 0
                                  ELSE f.caps[Pointers(f)[k - 1]].next
           /\ \A k \in 0 .. SafetyBound : Pointers(f)[k] \in 0 .. Slots
  <1>n. PICK N \in Nat : N = SafetyBound
    BY PciAssumption
  <1>v. PICK V : V = 0 .. Slots
    OBVIOUS
  <1>1. N = SafetyBound /\ V = 0 .. Slots
    BY <1>n, <1>v
  <1>2. f.cap_ptr \in V /\ \A s \in V : s # 0 => f.caps[s].next \in V
    BY <1>1, PciAssumption DEF PciFunction, Capability, None
  <1>3. PICK G : G = [k \in 1 .. N |-> [s \in V |-> IF s = 0 THEN 0 ELSE f.caps[s].next]]
    OBVIOUS
  <1>4. G \in [1 .. N -> [V -> V]]
    BY <1>1, <1>2, <1>3, PciAssumption
  <1>5. PICK v \in V : v = f.cap_ptr
    BY <1>2
  <1>6. PICK h \in [0 .. N -> V] : h[0] = v /\ \A k \in 1 .. N : h[k] = G[k][h[k - 1]]
    BY <1>4, Iterate
  <1>7. \A k \in 1 .. N : h[k] = IF h[k - 1] = 0 THEN 0 ELSE f.caps[h[k - 1]].next
    <2>1. ASSUME NEW k \in 1 .. N
          PROVE  h[k] = IF h[k - 1] = 0 THEN 0 ELSE f.caps[h[k - 1]].next
      <3>1. k - 1 \in 0 .. N
        OBVIOUS
      <3>2. h[k - 1] \in V
        BY <3>1
      <3> QED BY <1>3, <1>6, <3>2
    <2> QED BY <2>1
  <1>8. Following(f, h)
    BY <1>1, <1>5, <1>6, <1>7 DEF Following
  <1>9. PICK g : g = CHOOSE p : Following(f, p)
    OBVIOUS
  <1>10. Following(f, g)
    BY <1>8, <1>9, Zenon
  <1>11. Pointers(f) = g
    BY <1>9 DEF Pointers, Following
  <1>12. /\ g[0] = f.cap_ptr
         /\ \A k \in 1 .. N : g[k] = IF g[k - 1] = 0 THEN 0 ELSE f.caps[g[k - 1]].next
    BY <1>1, <1>10 DEF Following
  <1>13. \A k \in 0 .. N : g[k] \in V
    <2>1. g[0] \in V /\ \A k \in 1 .. N : g[k - 1] \in V => g[k] \in V
      BY <1>1, <1>2, <1>12, PciAssumption
    <2> QED BY <2>1, Along
  <1> QED BY <1>1, <1>11, <1>12, <1>13

(* From equal pointers on, the walk goes the same way. *)
LEMMA SameWay ==
    ASSUME NEW f \in PciFunction, NEW a \in 0 .. SafetyBound, NEW b \in a .. SafetyBound,
           Pointers(f)[a] = Pointers(f)[b]
    PROVE  Pointers(f)[a + (SafetyBound - b)] = Pointers(f)[SafetyBound]
  <1>0. PICK g : g = Pointers(f)
    OBVIOUS
  <1>s. PICK S \in Nat : S = SafetyBound
    BY PciAssumption
  <1>1. g = Pointers(f) /\ S = SafetyBound
    BY <1>0, <1>s
  <1>2. PICK n \in Nat : n = S - b
    BY <1>1
  <1>3. PICK h : h = [t \in 0 .. n |-> <<g[a + t], g[b + t]>>]
    OBVIOUS
  <1>4. PICK V : V = {<<x, x>> : x \in 0 .. Slots}
    OBVIOUS
  <1>5. \A k \in 0 .. S : g[k] \in 0 .. Slots
    BY <1>1, PointersAre
  <1>6. h[0] \in V
    BY <1>1, <1>3, <1>4, <1>5
  <1>7. ASSUME NEW t \in 1 .. n, h[t - 1] \in V PROVE h[t] \in V
    <2>1. t - 1 \in 0 .. n /\ t \in 0 .. n /\ a + (t - 1) = (a + t) - 1 /\ b + (t - 1) = (b + t) - 1
      OBVIOUS
    <2>2. g[(a + t) - 1] = g[(b + t) - 1]
      BY <1>3, <1>4, <1>7, <2>1
    <2>3. a + t \in 1 .. S /\ b + t \in 1 .. S
      BY <1>1, <1>2
    <2>4. g[a + t] = g[b + t]
      BY <1>1, <2>2, <2>3, PointersAre
    <2>5. g[a + t] \in 0 .. Slots
      BY <1>5, <2>3
    <2> QED BY <1>3, <1>4, <2>1, <2>4, <2>5
  <1>8. h[n] \in V
    BY <1>6, <1>7, Along
  <1>9. g[a + n] = g[b + n] /\ b + n = S
    BY <1>1, <1>2, <1>3, <1>4, <1>8
  <1> QED BY <1>1, <1>2, <1>9

(* After SafetyBound rounds the walk is at the end of the list, or at a slot *)
(* where it was before: there are no more slots than rounds.                 *)
LEMMA WalkEnds ==
    ASSUME NEW f \in PciFunction, Pointers(f)[SafetyBound] # 0
    PROVE  Pointers(f)[SafetyBound] \in Visited(f)
  <1>0. PICK g : g = Pointers(f)
    OBVIOUS
  <1>s. PICK S \in Nat : S = SafetyBound
    BY PciAssumption
  <1>1. \A k \in 0 .. S : g[k] \in 0 .. Slots
    BY <1>0, <1>s, PointersAre
  <1>2. \A k \in 0 .. S : g[k] # 0
    <2> SUFFICES ASSUME NEW m \in 0 .. S, g[m] = 0 PROVE FALSE
      OBVIOUS
    <2>1. PICK n \in Nat : n = S - m
      OBVIOUS
    <2>2. PICK h : h = [t \in 0 .. n |-> g[m + t]]
      OBVIOUS
    <2>v. PICK V : V = {0}
      OBVIOUS
    <2>3. h[0] \in V
      BY <2>2, <2>v
    <2>4. ASSUME NEW t \in 1 .. n, h[t - 1] \in V PROVE h[t] \in V
      <3>1. t - 1 \in 0 .. n /\ t \in 0 .. n /\ m + (t - 1) = (m + t) - 1 /\ m + t \in 1 .. S
        BY <2>1
      <3>2. g[(m + t) - 1] = 0
        BY <2>2, <2>v, <2>4, <3>1
      <3>3. g[m + t] = 0
        BY <1>0, <1>s, <3>1, <3>2, PointersAre
      <3> QED BY <2>2, <2>v, <3>1, <3>3
    <2>5. h[n] \in V
      BY <2>3, <2>4, Along
    <2>6. g[S] = 0
      BY <2>1, <2>2, <2>v, <2>5
    <2> QED BY <1>0, <1>s, <2>6
  <1>3. PICK p : p = [k \in 0 .. S |-> g[k]]
    OBVIOUS
  <1>4. p \in [0 .. S -> 1 .. Slots]
    BY <1>1, <1>2, <1>3, PciAssumption
  <1>5. Cardinality(1 .. Slots) < Cardinality(0 .. S)
    <2>1. Cardinality(0 .. S) = S + 1
      BY FS_Interval
    <2>2. Cardinality(1 .. Slots) = Slots
      BY FS_Interval, PciAssumption
    <2> QED BY <1>s, <2>1, <2>2, PciAssumption
  <1>6. PICK x, y \in 0 .. S : x # y /\ p[x] = p[y]
    <2>1. IsFiniteSet(0 .. S) /\ IsFiniteSet(1 .. Slots)
      BY FS_Interval, PciAssumption
    <2> QED BY <1>4, <1>5, <2>1, FS_PigeonHole
  <1>7. PICK a, b \in 0 .. S : a < b /\ g[a] = g[b]
    <2>1. g[x] = g[y]
      BY <1>3, <1>6
    <2>2. CASE x < y
      BY <2>1, <2>2
    <2>3. CASE y < x
      BY <2>1, <2>3
    <2> QED BY <1>6, <2>2, <2>3
  <1>8. PICK j \in Nat : j = a + (S - b)
    OBVIOUS
  <1>9. g[j] = g[S]
    BY <1>0, <1>s, <1>7, <1>8, SameWay
  <1>10. j \in 0 .. S - 1
    BY <1>7, <1>8
  <1> QED BY <1>0, <1>s, <1>9, <1>10 DEF Visited

(* What find_capability looks at is the list, whole and nothing else. *)
LEMMA VisitsList ==
    ASSUME NEW f \in PciFunction, f.cap_ptr # 0
    PROVE  Visited(f) = Listed(f)
  <1>0. PICK g : g = Pointers(f)
    OBVIOUS
  <1>s. PICK S \in Nat : S = SafetyBound /\ Slots <= S
    BY PciAssumption
  <1>1. /\ g[0] = f.cap_ptr
        /\ \A k \in 1 .. S : g[k] = IF g[k - 1] = 0 THEN 0 ELSE f.caps[g[k - 1]].next
        /\ \A k \in 0 .. S : g[k] \in 0 .. Slots
    BY <1>0, <1>s, PointersAre
  <1>2. Visited(f) = {g[k] : k \in 0 .. S - 1} \ {0}
    BY <1>0, <1>s DEF Visited
  <1>3. f.cap_ptr \in 1 .. Slots /\ S >= 1
    BY <1>s, PciAssumption DEF PciFunction, None
  <1>4. Visited(f) \in SUBSET (1 .. Slots) /\ f.cap_ptr \in Visited(f)
    <2>1. 0 \in 0 .. S - 1
      BY <1>3
    <2>2. f.cap_ptr \in Visited(f)
      BY <1>1, <1>2, <1>3, <2>1
    <2>3. \A k \in 0 .. S - 1 : g[k] \in 0 .. Slots
      BY <1>1
    <2> QED BY <1>2, <2>2, <2>3, PciAssumption
  <1>5. ASSUME NEW c \in Visited(f) PROVE f.caps[c].next \in Visited(f) \cup {0}
    <2>1. PICK k \in 0 .. S - 1 : c = g[k] /\ c # 0
      BY <1>2
    <2>2. PICK n \in 1 .. S : n = k + 1 /\ n - 1 = k
      OBVIOUS
    <2>3. g[n] = f.caps[c].next
      BY <1>1, <2>1, <2>2
    <2>4. CASE n = S
      BY <1>0, <1>s, <2>3, <2>4, WalkEnds
    <2>5. CASE n # S
      <3>1. n \in 0 .. S - 1
        BY <2>5
      <3> QED BY <1>2, <2>3, <3>1
    <2> QED BY <2>4, <2>5
  <1>6. Listed(f) \subseteq Visited(f)
    BY <1>4, <1>5 DEF Listed
  <1>7. ASSUME NEW C \in SUBSET (1 .. Slots), f.cap_ptr \in C,
               \A c \in C : f.caps[c].next \in C \cup {0}
        PROVE  Visited(f) \subseteq C
    <2>1. PICK V : V = C \cup {0}
      OBVIOUS
    <2>2. g[0] \in V
      BY <1>1, <1>7, <2>1
    <2>3. \A k \in 1 .. S : g[k - 1] \in V => g[k] \in V
      BY <1>1, <1>7, <2>1
    <2>4. \A k \in 0 .. S : g[k] \in V
      BY <2>2, <2>3, Along
    <2>5. \A k \in 0 .. S - 1 : g[k] \in V
      BY <2>4
    <2> QED BY <1>2, <2>1, <2>5
  <1>8. Visited(f) \subseteq Listed(f)
    BY <1>4, <1>7 DEF Listed
  <1> QED BY <1>6, <1>8

(* find_capability finds a capability exactly if it is on the list. *)
LEMMA CapabilityIs ==
    ASSUME NEW f \in PciFunction, NEW cap, cap = find_capability(f, "msix")
    PROVE  /\ cap # None <=> HasMsix(f)
           /\ cap # None => cap \in Listed(f) /\ f.caps[cap].id = "msix"
  <1>0. PICK g : g = Pointers(f)
    OBVIOUS
  <1>s. PICK S \in Nat : S = SafetyBound
    BY PciAssumption
  <1>1. PICK H : H = {k \in 0 .. S - 1 : g[k] # 0 /\ f.caps[g[k]].id = "msix"}
    OBVIOUS
  <1>2. cap = IF f.cap_list /\ H # {} THEN g[CHOOSE k \in H : \A j \in H : k <= j] ELSE None
    BY <1>0, <1>s, <1>1 DEF find_capability, FirstHit
  <1>3. Visited(f) = {g[k] : k \in 0 .. S - 1} \ {0}
    BY <1>0, <1>s DEF Visited
  <1>4. H # {} <=> \E s \in Visited(f) : f.caps[s].id = "msix"
    BY <1>1, <1>3
  <1>5. f.cap_ptr = 0 => Visited(f) = {}
    <2> SUFFICES ASSUME f.cap_ptr = 0 PROVE \A k \in 0 .. S - 1 : g[k] = 0
      BY <1>3
    <2>1. g[0] \in {0}
      BY <1>0, PointersAre
    <2>2. \A k \in 1 .. S : g[k - 1] \in {0} => g[k] \in {0}
      BY <1>0, <1>s, PointersAre
    <2>3. \A k \in 0 .. S : g[k] \in {0}
      BY <2>1, <2>2, Along
    <2> QED BY <2>3
  <1>6. f.cap_list /\ H # {} <=> HasMsix(f)
    <2>1. CASE f.cap_ptr = 0
      BY <1>4, <1>5, <2>1 DEF HasMsix
    <2>2. CASE f.cap_ptr # 0
      BY <1>4, <2>2, VisitsList DEF HasMsix
    <2> QED BY <2>1, <2>2
  <1>7. CASE f.cap_list /\ H # {}
    <2>1. H \in SUBSET Nat
      BY <1>1
    <2>2. \E k \in H : \A j \in H : k <= j
      BY <1>7, <2>1, Least
    <2>3. PICK k : k = CHOOSE q \in H : \A j \in H : q <= j
      OBVIOUS
    <2>4. k \in H
      BY <2>2, <2>3, Zenon
    <2>5. cap = g[k]
      BY <1>2, <1>7, <2>3
    <2>6. cap \in Visited(f) /\ f.caps[cap].id = "msix" /\ cap # 0
      BY <1>1, <1>3, <2>4, <2>5
    <2>7. f.cap_ptr # 0
      BY <1>5, <2>6
    <2> QED BY <1>6, <1>7, <2>6, <2>7, VisitsList DEF None
  <1>8. CASE ~ (f.cap_list /\ H # {})
    BY <1>2, <1>6, <1>8
  <1> QED BY <1>7, <1>8

-----------------------------------------------------------------------------
(* The pages of a BAR.                                                     *)
LEMMA PagesMapped ==
    ASSUME NEW bar \in BarRegister, ~ IsIo(bar.lo), bar.size # 0,
           bar.size >= Page, bar.size % Page = 0, NEW M,
           \A i \in 0 .. ((bar.size + Page - 1) \div Page) - 1 : Aligned(bar.base + i * Page) \in M
    PROVE  /\ Aligned(bar.base) = bar.base
           /\ \A o \in 0 .. bar.size - 1 : Aligned(bar.base + o) \in M
  <1>1. bar \in [base : Nat, size : Nat, lo : 0 .. Word - 1, hi : 0 .. Word - 1] /\ LegalBar(bar)
    BY DEF BarRegister
  <1>2. PICK p \in Nat \ {0} : p = Page
    BY MachinesAssumption
  <1>3. PICK b \in Nat, s \in Nat \ {0} : b = bar.base /\ s = bar.size
    BY <1>1
  <1>4. b % s = 0 /\ s % p = 0
    BY <1>1, <1>2, <1>3 DEF LegalBar
  <1>5. PICK k \in Nat : s = k * p
    BY <1>4, Multiple
  <1>6. PICK q \in Nat : b = q * s
    BY <1>4, Multiple
  <1>7. PICK n \in Nat : n = q * k
    BY <1>5, <1>6
  <1>8. b = n * p
    BY <1>5, <1>6, <1>7
  <1>9. \A x \in Nat : x % p = 0 => Aligned(x) = x
    BY <1>2 DEF Aligned
  <1>10. ASSUME NEW i \in Nat PROVE (b + i * p) % p = 0 /\ b + i * p \in Nat
    <2>1. PICK c \in Nat : c = n + i
      OBVIOUS
    <2>2. b + i * p = c * p + 0
      BY <1>8, <2>1
    <2>3. (c * p + 0) % p = 0 /\ c * p + 0 \in Nat
      BY Quotient
    <2> QED BY <2>2, <2>3
  <1>11. Aligned(b) = b
    <2>1. b = b + 0 * p
      OBVIOUS
    <2>2. b % p = 0
      BY <1>10, <2>1
    <2> QED BY <1>9, <2>2
  <1>12. (s + p - 1) \div p = k
    <2>1. s + p - 1 = k * p + (p - 1) /\ p - 1 \in 0 .. p - 1
      BY <1>5
    <2> QED BY <2>1, Quotient
  <1>13. ASSUME NEW o \in 0 .. s - 1 PROVE Aligned(b + o) \in M
    <2>1. PICK i \in Nat, r \in 0 .. p - 1 : o = i * p + r
      <3>0. o \in Nat
        OBVIOUS
      <3>1. o \div p \in Nat /\ o % p \in 0 .. p - 1 /\ o = (o \div p) * p + (o % p)
        BY <3>0, Division
      <3>2. PICK i \in Nat, r \in 0 .. p - 1 : i = o \div p /\ r = o % p
        BY <3>1
      <3> QED BY <3>1, <3>2
    <2>2. i < k
      <3>1. i >= k => i * p >= k * p
        OBVIOUS
      <3> QED BY <1>5, <2>1, <3>1
    <2>3. PICK x \in Nat : x = b + i * p /\ x % p = 0
      BY <1>10
    <2>4. (x + r) % p = r
      BY <2>3, AddBelow
    <2>5. Aligned(x + r) = x
      BY <1>2, <2>4 DEF Aligned
    <2>6. Aligned(x) = x /\ b + o = x + r
      BY <1>9, <2>1, <2>3
    <2>7. i \in 0 .. k - 1
      BY <2>2
    <2>8. Aligned(b + i * p) \in M
      BY <1>2, <1>3, <1>12, <2>7
    <2> QED BY <2>3, <2>5, <2>6, <2>8
  <1> QED BY <1>3, <1>11, <1>13

-----------------------------------------------------------------------------
(* What the kernel knows of the machine.                                   *)

(* Where a controller is looked at, and where its XHCI exists. *)
UnderWay   == {"setup_msix", "halt", "wait_hch", "wait_hcrst", "wait_cnr", "config", "dcbaap",
               "crcr", "erstsz", "erdp", "erstba", "iman", "run", "wait_run", "publish", "polling"}
WithDevice == UnderWay \cup {"enable_device", "XHCI_new", "panic"}

(* f is function g of the machine as the firmware left it, but for I/O space, *)
(* bus mastering and the enable bits of its capabilities.                    *)
Kept(f, g) ==
    /\ f.class = g.class /\ f.prog_if = g.prog_if /\ f.bar = g.bar
    /\ f.cap_list = g.cap_list /\ f.cap_ptr = g.cap_ptr /\ (Decoded(f) <=> Decoded(g))
    /\ \A s \in 1 .. Slots : /\ f.caps[s].id = g.caps[s].id /\ f.caps[s].next = g.caps[s].next
                             /\ f.caps[s].table_bar = g.caps[s].table_bar

PciInv ==
    /\ machine \in Machines
    /\ pci \in [Addresses -> PciFunction \cup {Absent}]
    /\ \A a \in Addresses : /\ pci[a] = Absent <=> machine.pci[a] = Absent
                            /\ pci[a] # Absent => Kept(pci[a], machine.pci[a])
    /\ todo \in Seq(UsbOf(machine.pci))
    /\ boot \in WithDevice => todo # <<>>

BarRead(x, bar, pages) ==
    /\ x.address = bar.base /\ x.size = bar.size
    /\ bar.size >= Page => /\ x.virt_base = bar.base
                           /\ \A o \in 0 .. bar.size - 1 : Aligned(bar.base + o) \in pages

CapabilityRead(cap, f, entry) ==
    /\ cap # None <=> HasMsix(f)
    /\ cap # None =>
          /\ cap \in Listed(f) /\ f.caps[cap].id = "msix"
          /\ Decoded(f) /\ f.caps[cap].table_bar = 0 => entry = "armed"

XhciInv ==
    /\ hw \in [Addresses -> Fields]
    /\ xhci \in [address : Nat, virt_base : Int, size : Nat, msix : Nat]
    /\ boot \notin UnderWay => xhci = NoXhci
    /\ boot \in UnderWay => BarRead(xhci, machine.pci[ctrl].bar, mapped)
    /\ boot \in UnderWay \ {"setup_msix"} =>
          CapabilityRead(xhci.msix, machine.pci[ctrl], hw[ctrl].entry)

(* The order of the boot sequence, and the vectors that may stop it. *)
VectorsInv ==
    /\ boot # "load_idt" => 44 \in gates
    /\ boot \notin {"load_idt", "test_rsdp", "disable_pic", "overflow"} => pic = "masked"
    /\ ints => boot \notin {"load_idt", "test_rsdp", "disable_pic", "init_lapic", "init_ioapic",
                            "sti", "overflow"}
    /\ hung \in {0, 13, 14, 33, 255}
    /\ Legible(machine) => hung \notin {13, 14} /\ boot # "overflow"
    /\ machine \in Machines

(* What a sequence of elements of S is made of. *)
LEMMA Elements ==
    ASSUME NEW S, NEW q \in Seq(S)
    PROVE  Len(q) \in Nat /\ DOMAIN q = 1 .. Len(q) /\ \A i \in DOMAIN q : q[i] \in S
  OBVIOUS

(* A read within the page of its start, which was mapped, does not fault. *)
LEMMA PageRead ==
    ASSUME NEW m, NEW starts, NEW start \in starts, NEW at \in Int, NEW bytes \in Int,
           Aligned(start) \notin m.unmappable,
           \A o \in 0 .. bytes - 1 : Aligned(at + o) = Aligned(start)
    PROVE  Readable(m, starts, at, bytes)
  BY DEF Readable

(* The part of a structure that is read lies in its page. *)
LEMMA PartOfPage ==
    ASSUME NEW at \in Int, NEW bytes \in Int, OnePage(at, bytes),
           NEW skip \in Nat, NEW part \in Nat, skip + part <= bytes
    PROVE  \A o \in 0 .. part - 1 : Aligned((at + skip) + o) = Aligned(at)
  <1> SUFFICES ASSUME NEW o \in 0 .. part - 1 PROVE Aligned((at + skip) + o) = Aligned(at)
    OBVIOUS
  <1>1. PICK n \in Int : n = skip + o
    OBVIOUS
  <1>2. n \in 0 .. bytes - 1 /\ (at + skip) + o = at + n
    BY <1>1
  <1>3. Aligned(at + n) = Aligned(at)
    BY <1>2 DEF OnePage
  <1> QED BY <1>2, <1>3

(* Legible tables are read without a fault. *)
LEMMA LegibleReads ==
    ASSUME NEW m \in Machines, Legible(m)
    PROVE  ~ PageFault(m) /\ RecordFault(m) = 0
  <1> DEFINE acpi == m.acpi
             tables == acpi.tables
  <1>1. /\ acpi.rsdp \in Nat /\ acpi.rsdt \in Nat /\ acpi.length \in Nat /\ acpi.entries \in Nat
        /\ tables \in Seq([at : Nat, signature : {"APIC", "other"}])
        /\ Len(tables) = IF acpi.length < Header THEN 0 ELSE (acpi.length - Header) \div 4
    BY MachinesAssumption
  <1>2. /\ acpi.length >= Header /\ OnePage(acpi.rsdp, Rsdp) /\ OnePage(acpi.rsdt, acpi.length)
        /\ OnePage(acpi.entries, 2)
        /\ Aligned(acpi.rsdp) \notin m.unmappable /\ Aligned(acpi.rsdt) \notin m.unmappable
        /\ Aligned(acpi.entries) \notin m.unmappable /\ acpi.first_record \in Canonical
        /\ \A i \in LookedAt(tables) : /\ OnePage(tables[i].at, SizeRead(tables[i]))
                                        /\ Aligned(tables[i].at) \notin m.unmappable
    BY DEF Legible
  <1>3. DOMAIN tables = 1 .. Len(tables) /\ Len(tables) \in Nat
        /\ \A i \in DOMAIN tables : tables[i].at \in Nat
    <2>1. \A i \in DOMAIN tables : tables[i] \in [at : Nat, signature : {"APIC", "other"}]
      BY <1>1, Elements, Zenon
    <2>2. \A v \in [at : Nat, signature : {"APIC", "other"}] : v.at \in Nat
      OBVIOUS
    <2> QED BY <1>1, <2>1, <2>2, Elements, Zenon
  <1> HIDE DEF acpi, tables
  <1>4. \A i \in DOMAIN tables : Header + 4 * (i - 1) \in Nat /\ (Header + 4 * (i - 1)) + 4 <= acpi.length
    <2> SUFFICES ASSUME NEW i \in DOMAIN tables
                 PROVE  Header + 4 * (i - 1) \in Nat /\ (Header + 4 * (i - 1)) + 4 <= acpi.length
      OBVIOUS
    <2>1. PICK n \in Nat : n = Len(tables)
      BY <1>3
    <2>2. n = (acpi.length - 36) \div 4 /\ i \in 1 .. n /\ acpi.length >= 36 /\ acpi.length \in Nat
      BY <1>1, <1>2, <1>3, <2>1 DEF Header
    <2>3. 36 + 4 * n <= acpi.length
      BY <2>2
    <2> QED BY <2>2, <2>3 DEF Header
  <1>5. Readable(m, {acpi.rsdp}, acpi.rsdp, Rsdp)
    <2>1. \A o \in 0 .. Rsdp - 1 : Aligned(acpi.rsdp + o) = Aligned(acpi.rsdp)
      BY <1>2 DEF OnePage
    <2>2. acpi.rsdp \in Int /\ Rsdp \in Int
      BY <1>1 DEF Rsdp
    <2>3. acpi.rsdp \in {acpi.rsdp}
      OBVIOUS
    <2> QED BY <1>2, <2>1, <2>2, <2>3, PageRead, Zenon
  <1>6. ASSUME NEW i \in Int, NEW skip \in Nat, skip + 4 <= acpi.length
        PROVE  Readable(m, Starts(acpi, i), acpi.rsdt + skip, 4)
    <2>1. \A o \in 0 .. 4 - 1 : Aligned((acpi.rsdt + skip) + o) = Aligned(acpi.rsdt)
      <3>1. acpi.rsdt \in Int /\ acpi.length \in Int /\ 4 \in Nat
        BY <1>1
      <3> QED BY <1>2, <1>6, <3>1, PartOfPage, Zenon
    <2>2. acpi.rsdt \in Starts(acpi, i)
      BY DEF Starts
    <2>3. acpi.rsdt + skip \in Int /\ 4 \in Int
      BY <1>1
    <2> QED BY <1>2, <2>1, <2>2, <2>3, PageRead, Zenon
  <1>7. ASSUME NEW i \in LookedAt(tables)
        PROVE  /\ Readable(m, Starts(acpi, i - 1), acpi.rsdt + Header + 4 * (i - 1), 4)
               /\ Readable(m, Starts(acpi, i), tables[i].at, SizeRead(tables[i]))
    <2>1. i \in DOMAIN tables /\ i \in 1 .. Len(tables) /\ i \in Int /\ i - 1 \in Int
      BY <1>3 DEF LookedAt
    <2>2. Readable(m, Starts(acpi, i - 1), acpi.rsdt + (Header + 4 * (i - 1)), 4)
      BY <1>4, <1>6, <2>1
    <2>3. acpi.rsdt + (Header + 4 * (i - 1)) = acpi.rsdt + Header + 4 * (i - 1)
      <3>1. PICK r \in Int, n \in Int : r = acpi.rsdt /\ n = i
        BY <1>1, <2>1
      <3>2. r + (36 + 4 * (n - 1)) = r + 36 + 4 * (n - 1)
        OBVIOUS
      <3> QED BY <3>1, <3>2 DEF Header
    <2>4. tables[i].at \in Starts(acpi, i)
      BY <2>1 DEF Starts, tables
    <2>5. \A o \in 0 .. SizeRead(tables[i]) - 1 : Aligned(tables[i].at + o) = Aligned(tables[i].at)
      BY <1>2 DEF OnePage
    <2>6. SizeRead(tables[i]) \in Int
      BY DEF SizeRead, Madt, Header
    <2>7. Readable(m, Starts(acpi, i), tables[i].at, SizeRead(tables[i]))
      <3>1. tables[i].at \in Int
        BY <1>3, <2>1
      <3> QED BY <1>2, <2>4, <2>5, <2>6, <3>1, PageRead, Zenon
    <2> QED BY <2>2, <2>3, <2>7
  <1>8. Readable(m, Starts(acpi, 0), acpi.rsdt + 4, 4)
    <2>1. 4 \in Nat /\ 4 + 4 <= acpi.length /\ 0 \in Int
      BY <1>1, <1>2 DEF Header
    <2> QED BY <1>6, <2>1, Zenon
  <1>9. \A i : Readable(m, Starts(acpi, i) \cup {acpi.entries}, acpi.entries, 2)
    <2>1. \A o \in 0 .. 2 - 1 : Aligned(acpi.entries + o) = Aligned(acpi.entries)
      BY <1>2 DEF OnePage
    <2>2. acpi.entries \in Int /\ 2 \in Int
      BY <1>1
    <2>3. \A i : acpi.entries \in Starts(acpi, i) \cup {acpi.entries}
      OBVIOUS
    <2> QED BY <1>2, <2>1, <2>2, <2>3, PageRead, Zenon
  <1>10. ~ PageFault(m)
    BY <1>5, <1>7, <1>8 DEF PageFault, acpi, tables
  <1>11. RecordFault(m) = 0
    BY <1>2, <1>9 DEF RecordFault, acpi, tables
  <1> QED BY <1>10, <1>11

(* The order of the boot sequence is kept by every step. *)
LEMMA VectorsStep == VectorsInv /\ [BootNext]_bootVars => VectorsInv'
  <1> SUFFICES ASSUME VectorsInv, [BootNext]_bootVars PROVE VectorsInv'
    OBVIOUS
  <1>1. CASE load_idt
    BY <1>1 DEF load_idt, VectorsInv, Runs
  <1>2. CASE test_rsdp
    <2>1. hung = 0 /\ boot = "test_rsdp" /\ boot' \in {"disable_pic", "overflow"} /\ ~ ints
          /\ UNCHANGED <<machine, gates, pic, ints>>
      BY <1>2 DEF test_rsdp, VectorsInv, Runs
    <2>2. hung' \in {0, 13, 14}
      BY <1>2 DEF test_rsdp, RecordFault
    <2>3. ASSUME Legible(machine) PROVE hung' = 0 /\ boot' = "disable_pic"
      <3>1. ~ PageFault(machine) /\ RecordFault(machine) = 0
        BY <2>3, LegibleReads DEF VectorsInv
      <3>2. ~ (machine.acpi.length < Header)
        <4>1. machine.acpi.length \in Nat /\ machine.acpi.length >= Header
          BY <2>3, MachinesAssumption DEF VectorsInv, Legible
        <4> QED BY <4>1 DEF Header
      <3> QED BY <1>2, <3>1, <3>2 DEF test_rsdp
    <2> QED BY <2>1, <2>2, <2>3 DEF VectorsInv
  <1>3. CASE disable_pic \/ init_lapic \/ init_ioapic \/ sti_boot
    BY <1>3 DEF disable_pic, init_lapic, init_ioapic, sti_boot, VectorsInv, Runs
  <1>4. CASE find_usb \/ next_controller \/ enable \/ XHCI_new \/ setup_msix \/ publish
    <2>1. UNCHANGED <<machine, interruptVars>>
          /\ boot \in {"find_usb_controllers", "next", "enable_device", "XHCI_new", "setup_msix", "publish"}
          /\ boot' \in {"next", "done", "enable_device", "XHCI_new", "panic", "setup_msix", "halt", "polling"}
      BY <1>4 DEF find_usb, next_controller, enable, XHCI_new, setup_msix, publish, Runs
    <2> QED BY <2>1 DEF VectorsInv, interruptVars
  <1>5. CASE halt \/ hcrst \/ wait_hcrst \/ wait_cnr \/ run \/ wait_run \/ wait_run_timeout
             \/ \E r \in Registers : write_register(r)
    <2>1. UNCHANGED <<machine, interruptVars>> /\ boot \in UnderWay /\ boot' \in UnderWay
      <3>1. CASE \E r \in Registers : write_register(r)
        BY <3>1, Order DEF write_register, OnlyHw, Runs, UnderWay, Registers, Writing
      <3>2. CASE halt \/ hcrst \/ wait_hcrst \/ wait_cnr \/ run \/ wait_run \/ wait_run_timeout
        BY <3>2 DEF halt, hcrst, wait_hcrst, wait_cnr, run, wait_run, wait_run_timeout,
                    OnlyHw, Runs, UnderWay
      <3> QED BY <1>5, <3>1, <3>2
    <2> QED BY <2>1 DEF VectorsInv, interruptVars, UnderWay
  <1>6. CASE Hardware
    BY <1>6 DEF Hardware, VectorsInv, interruptVars
  <1>7. CASE \E v \in {8, 32, 33, 44, 255} : common_interrupt_handler(v)
    BY <1>7 DEF common_interrupt_handler, Raised, VectorsInv
  <1>8. CASE UNCHANGED bootVars
    BY <1>8 DEF bootVars, interruptVars, VectorsInv
  <1> QED BY <1>1, <1>2, <1>3, <1>4, <1>5, <1>6, <1>7, <1>8 DEF BootNext, Kernel

(* The controller that main looks at is a USB function of the machine. *)
LEMMA TheController ==
    ASSUME PciInv, todo # <<>>
    PROVE  /\ ctrl \in Addresses /\ Tail(todo) \in Seq(UsbOf(machine.pci))
           /\ pci[ctrl] \in PciFunction /\ machine.pci[ctrl] \in PciFunction
           /\ Kept(pci[ctrl], machine.pci[ctrl])
  <1>1. PICK S : S = UsbOf(machine.pci)
    OBVIOUS
  <1>2. todo \in Seq(S)
    BY <1>1 DEF PciInv
  <1>3. Head(todo) \in S /\ Tail(todo) \in Seq(S)
    BY <1>2
  <1>4. ctrl \in Addresses /\ machine.pci[ctrl] # Absent
    BY <1>1, <1>3 DEF ctrl, UsbOf, IsUsb
  <1>5. machine.pci \in [Addresses -> PciFunction \cup {Absent}]
    BY MachinesAssumption DEF PciInv
  <1>6. machine.pci[ctrl] \in PciFunction
    BY <1>4, <1>5
  <1>7. pci[ctrl] # Absent /\ pci[ctrl] \in PciFunction /\ Kept(pci[ctrl], machine.pci[ctrl])
    BY <1>4 DEF PciInv
  <1> QED BY <1>1, <1>3, <1>4, <1>6, <1>7

(* A step that neither reads nor changes what is known. *)
LEMMA Steady ==
    ASSUME PciInv, XhciInv, UNCHANGED <<machine, pci, todo, xhci, mapped>>,
           hw' \in [Addresses -> Fields], \A a \in Addresses : hw'[a].entry = hw[a].entry,
           boot' \in WithDevice => boot \in WithDevice,
           boot' \in UnderWay <=> boot \in UnderWay,
           boot' \in UnderWay \ {"setup_msix"} => boot \in UnderWay \ {"setup_msix"}
    PROVE  PciInv' /\ XhciInv'
  <1>1. PciInv'
    BY DEF PciInv
  <1>2. ctrl' = ctrl
    BY DEF ctrl
  <1>3. boot \in UnderWay => hw'[ctrl].entry = hw[ctrl].entry
    <2>1. boot \in UnderWay => todo # <<>>
      BY DEF PciInv, WithDevice
    <2> QED BY <2>1, TheController
  <1>4. (boot \in UnderWay => BarRead(xhci, machine.pci[ctrl].bar, mapped))'
    BY <1>2 DEF XhciInv, BarRead
  <1>5. (boot \in UnderWay \ {"setup_msix"} =>
          CapabilityRead(xhci.msix, machine.pci[ctrl], hw[ctrl].entry))'
    BY <1>2, <1>3 DEF XhciInv
  <1> QED BY <1>1, <1>4, <1>5 DEF XhciInv

(* Writes of main to a controller leave its MSI-X table alone. *)
LEMMA SteadyWrite ==
    ASSUME PciInv, XhciInv, OnlyHw, NEW new, WriteHw(new) \/ UNCHANGED hw,
           ctrl \in Addresses => new \in Fields /\ new.entry = hw[ctrl].entry,
           boot \in UnderWay \ {"setup_msix"}, boot' \in UnderWay \ {"setup_msix"}
    PROVE  PciInv' /\ XhciInv'
  <1>1. hw \in [Addresses -> Fields]
    BY DEF XhciInv
  <1>2. hw' \in [Addresses -> Fields] /\ \A a \in Addresses : hw'[a].entry = hw[a].entry
    <2>1. CASE UNCHANGED hw
      BY <1>1, <2>1
    <2>2. CASE WriteHw(new)
      BY <1>1, <2>2, Write
    <2> QED BY <2>1, <2>2
  <1>3. boot \in WithDevice
    BY DEF UnderWay, WithDevice
  <1> QED BY <1>2, <1>3, Steady DEF OnlyHw

(* The writes and waits of init_xhci. *)
LEMMA StartStep ==
    ASSUME PciInv, XhciInv,
           halt \/ hcrst \/ wait_hcrst \/ wait_cnr \/ run \/ wait_run \/ wait_run_timeout
             \/ \E r \in Registers : write_register(r)
    PROVE  PciInv' /\ XhciInv'
  <1>t. ctrl \in Addresses => hw[ctrl] \in Fields
    BY DEF XhciInv
  <1>1. CASE halt
    <2>1. PICK new : new = [hw[ctrl] EXCEPT !.run = FALSE]
      OBVIOUS
    <2>2. ctrl \in Addresses => new \in Fields /\ new.entry = hw[ctrl].entry
      BY <1>t, <2>1 DEF Fields
    <2> QED BY <1>1, <2>1, <2>2, SteadyWrite DEF halt, Runs, UnderWay
  <1>2. CASE hcrst
    <2>1. PICK new : new = [hw[ctrl] EXCEPT !.hcrst = TRUE, !.cnr = TRUE]
      OBVIOUS
    <2>2. ctrl \in Addresses => new \in Fields /\ new.entry = hw[ctrl].entry
      BY <1>t, <2>1 DEF Fields
    <2> QED BY <1>2, <2>1, <2>2, SteadyWrite DEF hcrst, Runs, UnderWay
  <1>3. CASE run
    <2>1. PICK new : new = [hw[ctrl] EXCEPT !.inte = TRUE, !.run = TRUE]
      OBVIOUS
    <2>2. ctrl \in Addresses => new \in Fields /\ new.entry = hw[ctrl].entry
      BY <1>t, <2>1 DEF Fields
    <2> QED BY <1>3, <2>1, <2>2, SteadyWrite DEF run, Runs, UnderWay
  <1>4. ASSUME NEW r \in Registers, write_register(r) PROVE PciInv' /\ XhciInv'
    <2>1. PICK new : new = [hw[ctrl] EXCEPT !.regs = IF hw[ctrl].cnr THEN @ ELSE @ \cup {r}]
      OBVIOUS
    <2>2. ctrl \in Addresses => new \in Fields /\ new.entry = hw[ctrl].entry
      BY <1>t, <2>1 DEF Fields
    <2>3. boot \in UnderWay \ {"setup_msix"} /\ boot' \in UnderWay \ {"setup_msix"}
      BY <1>4, Order DEF write_register, Runs, UnderWay, Registers, Writing
    <2> QED BY <1>4, <2>1, <2>2, <2>3, SteadyWrite DEF write_register
  <1>5. CASE wait_hcrst \/ wait_cnr \/ wait_run \/ wait_run_timeout
    <2>1. PICK new : new = hw[ctrl]
      OBVIOUS
    <2>2. UNCHANGED hw /\ OnlyHw
          /\ boot \in UnderWay \ {"setup_msix"} /\ boot' \in UnderWay \ {"setup_msix"}
      BY <1>5 DEF wait_hcrst, wait_cnr, wait_run, wait_run_timeout, Runs, UnderWay
    <2> QED BY <1>t, <2>1, <2>2, SteadyWrite
  <1> QED BY <1>1, <1>2, <1>3, <1>4, <1>5

(* A controller takes one of its own steps. *)
LEMMA HardwareKeeps ==
    ASSUME PciInv, XhciInv, Hardware
    PROVE  PciInv' /\ XhciInv'
  <1>1. PICK a \in Addresses : HwHalt(a) \/ HwReset(a) \/ HwReady(a) \/ HwRun(a)
    BY DEF Hardware
  <1>2. hw \in [Addresses -> Fields] /\ hw[a] \in Fields
    BY DEF XhciInv
  <1>3. \E new \in Fields : hw' = [hw EXCEPT ![a] = new] /\ new.entry = hw[a].entry
    <2>1. CASE HwHalt(a)
      <3>1. PICK new : new = [hw[a] EXCEPT !.hch = TRUE]
        OBVIOUS
      <3>2. new \in Fields /\ new.entry = hw[a].entry
        BY <1>2, <3>1 DEF Fields
      <3>3. hw' = [hw EXCEPT ![a] = new]
        BY <1>2, <2>1, <3>1 DEF HwHalt
      <3> QED BY <3>2, <3>3
    <2>2. CASE HwReset(a)
      <3>1. PICK new : new = [Controller(FALSE) EXCEPT !.cnr = TRUE, !.entry = hw[a].entry]
        OBVIOUS
      <3>2. new \in Fields /\ new.entry = hw[a].entry
        BY <1>2, <3>1 DEF Fields, Controller
      <3>3. hw' = [hw EXCEPT ![a] = new]
        BY <2>2, <3>1 DEF HwReset
      <3> QED BY <3>2, <3>3
    <2>3. CASE HwReady(a)
      <3>1. PICK new : new = [hw[a] EXCEPT !.cnr = FALSE]
        OBVIOUS
      <3>2. new \in Fields /\ new.entry = hw[a].entry
        BY <1>2, <3>1 DEF Fields
      <3>3. hw' = [hw EXCEPT ![a] = new]
        BY <1>2, <2>3, <3>1 DEF HwReady
      <3> QED BY <3>2, <3>3
    <2>4. CASE HwRun(a)
      <3>1. PICK new : new = [hw[a] EXCEPT !.hch = FALSE]
        OBVIOUS
      <3>2. new \in Fields /\ new.entry = hw[a].entry
        BY <1>2, <3>1 DEF Fields
      <3>3. hw' = [hw EXCEPT ![a] = new]
        BY <1>2, <2>4, <3>1 DEF HwRun
      <3> QED BY <3>2, <3>3
    <2> QED BY <1>1, <2>1, <2>2, <2>3, <2>4
  <1>4. hw' \in [Addresses -> Fields] /\ \A b \in Addresses : hw'[b].entry = hw[b].entry
    BY <1>2, <1>3
  <1> QED BY <1>4, Steady DEF Hardware

(* The steps before the first controller. *)
LEMMA EarlyStep ==
    ASSUME PciInv, XhciInv,
           load_idt \/ test_rsdp \/ disable_pic \/ init_lapic \/ init_ioapic \/ sti_boot
    PROVE  PciInv' /\ XhciInv'
  <1>1. UNCHANGED <<machine, usbVars>> /\ boot \notin WithDevice /\ boot' \notin WithDevice
    BY DEF load_idt, test_rsdp, disable_pic, init_lapic, init_ioapic, sti_boot, usbVars, Runs,
           WithDevice, UnderWay
  <1>2. boot \notin UnderWay /\ boot' \notin UnderWay
    BY <1>1 DEF WithDevice
  <1>3. hw' \in [Addresses -> Fields] /\ \A b \in Addresses : hw'[b].entry = hw[b].entry
    BY <1>1 DEF usbVars, XhciInv
  <1> QED BY <1>1, <1>2, <1>3, Steady DEF usbVars

(* Main changes the function it looks at within what Kept allows. *)
LEMMA Changed ==
    ASSUME PciInv, boot \in WithDevice, NEW f \in PciFunction, Kept(f, machine.pci[ctrl]),
           pci' = [pci EXCEPT ![ctrl] = f], UNCHANGED <<machine, todo>>
    PROVE  PciInv' /\ ctrl' = ctrl /\ pci'[ctrl] = f
  <1>1. todo # <<>>
    BY DEF PciInv
  <1>2. ctrl \in Addresses /\ machine.pci[ctrl] \in PciFunction /\ pci[ctrl] \in PciFunction
    BY <1>1, TheController
  <1>3. Absent \notin PciFunction
    BY DEF Absent, PciFunction
  <1>4. pci \in [Addresses -> PciFunction \cup {Absent}]
    BY DEF PciInv
  <1>5. pci' \in [Addresses -> PciFunction \cup {Absent}] /\ pci'[ctrl] = f
    BY <1>2, <1>4
  <1>6. ASSUME NEW a \in Addresses
        PROVE  /\ pci'[a] = Absent <=> machine.pci[a] = Absent
               /\ pci'[a] # Absent => Kept(pci'[a], machine.pci[a])
    <2>1. CASE a = ctrl
      BY <1>2, <1>3, <1>5, <2>1
    <2>2. CASE a # ctrl
      BY <1>4, <2>2 DEF PciInv
    <2> QED BY <2>1, <2>2
  <1>7. ctrl' = ctrl
    BY DEF ctrl
  <1> QED BY <1>1, <1>5, <1>6, <1>7 DEF PciInv

(* The capability list is the same before and after. *)
LEMMA KeptList ==
    ASSUME NEW f, NEW g, Kept(f, g)
    PROVE  Listed(f) = Listed(g) /\ (HasMsix(f) <=> HasMsix(g))
  <1>1. ASSUME NEW C \in SUBSET (1 .. Slots)
        PROVE  /\ f.cap_ptr \in C <=> g.cap_ptr \in C
               /\ (\A c \in C : f.caps[c].next \in C \cup {0})
                    <=> (\A c \in C : g.caps[c].next \in C \cup {0})
    BY DEF Kept
  <1>2. Listed(f) = Listed(g)
    BY <1>1 DEF Listed
  <1>3. \A s \in Listed(f) : s \in 1 .. Slots /\ f.caps[s].id = g.caps[s].id
    BY DEF Listed, Kept
  <1> QED BY <1>2, <1>3 DEF HasMsix, Kept

(* The bus is searched. *)
LEMMA FindStep ==
    ASSUME PciInv, XhciInv, find_usb
    PROVE  PciInv' /\ XhciInv'
  <1>1. UsbOf(pci) = UsbOf(machine.pci)
    BY DEF PciInv, UsbOf, IsUsb, Kept
  <1>2. todo' \in Seq(UsbOf(machine.pci))
    <2>1. find_usb_controllers(pci) \in Seq(UsbOf(pci))
      BY FoundAreUsb
    <2> QED BY <1>1, <2>1 DEF find_usb
  <1>3. boot' = "next" /\ boot = "find_usb_controllers"
    BY DEF find_usb, Runs
  <1>4. boot' \notin WithDevice /\ boot' \notin UnderWay /\ boot \notin UnderWay
    BY <1>3 DEF WithDevice, UnderWay
  <1>5. UNCHANGED <<machine, pci, hw, xhci>>
    BY DEF find_usb
  <1>6. PciInv'
    BY <1>2, <1>4, <1>5 DEF PciInv
  <1> QED BY <1>4, <1>5, <1>6 DEF XhciInv

(* The next controller is taken, or passed over. *)
LEMMA NextStep ==
    ASSUME PciInv, XhciInv, next_controller
    PROVE  PciInv' /\ XhciInv'
  <1>1. boot = "next" /\ boot' \in {"next", "done", "enable_device"}
    BY DEF next_controller, Runs
  <1>2. boot' \notin UnderWay /\ boot \notin UnderWay
    BY <1>1 DEF UnderWay
  <1>3. UNCHANGED <<machine, pci, hw, xhci>>
    BY DEF next_controller
  <1>4. todo' \in Seq(UsbOf(machine.pci))
    <2>1. CASE todo = <<>>
      BY <2>1 DEF next_controller, PciInv
    <2>2. CASE todo # <<>>
      BY <2>2, TheController DEF next_controller, PciInv
    <2> QED BY <2>1, <2>2
  <1>5. boot' \in WithDevice => todo' # <<>>
    BY <1>1 DEF next_controller, WithDevice, UnderWay
  <1>6. PciInv'
    BY <1>3, <1>4, <1>5 DEF PciInv
  <1> QED BY <1>2, <1>3, <1>6 DEF XhciInv

(* enable_device leaves what the kernel knows of the function. *)
LEMMA EnableStep ==
    ASSUME PciInv, XhciInv, enable
    PROVE  PciInv' /\ XhciInv'
  <1>1. boot = "enable_device" /\ boot' = "XHCI_new" /\ boot \in WithDevice
    BY DEF enable, Runs, WithDevice
  <1>2. pci[ctrl] \in PciFunction /\ ctrl \in Addresses /\ Kept(pci[ctrl], machine.pci[ctrl])
    BY <1>1, TheController DEF PciInv
  <1>3. PICK f : f = enable_device(pci[ctrl])
    OBVIOUS
  <1>4. f \in PciFunction /\ Kept(f, machine.pci[ctrl])
    <2>1. PICK g \in PciFunction : g = pci[ctrl]
      BY <1>2
    <2>2. f = [g EXCEPT !.command = @ \cup {"io_space", "bus_master"}]
      BY <1>3, <2>1 DEF enable_device, CMD_MEMORY_SPACE, CMD_BUS_MASTER
    <2>3. f \in PciFunction
      BY <2>2 DEF PciFunction
    <2>4. /\ f.class = g.class /\ f.prog_if = g.prog_if /\ f.bar = g.bar
          /\ f.cap_list = g.cap_list /\ f.cap_ptr = g.cap_ptr /\ f.caps = g.caps
          /\ Decoded(f) <=> Decoded(g)
      BY <2>2 DEF PciFunction, Decoded
    <2> QED BY <1>2, <2>1, <2>3, <2>4 DEF Kept
  <1>5. pci' = [pci EXCEPT ![ctrl] = f] /\ UNCHANGED <<machine, hw, todo, xhci>>
    BY <1>3 DEF enable
  <1>6. PciInv'
    BY <1>1, <1>4, <1>5, Changed
  <1>7. boot \notin UnderWay /\ boot' \notin UnderWay
    BY <1>1 DEF UnderWay
  <1> QED BY <1>5, <1>6, <1>7 DEF XhciInv

(* XHCI::new reads the BAR, and puts it back. *)
LEMMA NewStep ==
    ASSUME PciInv, XhciInv, XHCI_new
    PROVE  PciInv' /\ XhciInv'
  <1>1. boot = "XHCI_new" /\ boot' \in {"setup_msix", "panic"}
        /\ UNCHANGED <<machine, hw, todo>>
    BY DEF XHCI_new, Runs
  <1>2. boot \in WithDevice /\ boot \notin UnderWay
    BY <1>1 DEF WithDevice, UnderWay
  <1>3. /\ pci[ctrl] \in PciFunction /\ ctrl \in Addresses
        /\ machine.pci[ctrl] \in PciFunction /\ Kept(pci[ctrl], machine.pci[ctrl])
    BY <1>2, TheController DEF PciInv
  <1>4. PICK bar \in BarRegister : bar = pci[ctrl].bar /\ bar = machine.pci[ctrl].bar
    BY <1>3 DEF PciFunction, Kept
  <1>5. PICK sized : sized = get_bar0_size(bar)
    OBVIOUS
  <1>6. PICK info : info = get_bar0(bar)
    OBVIOUS
  <1>7. ~ IsIo(bar.lo) => /\ sized.size = bar.size /\ sized.bar = bar
                          /\ bar.size # 0 => info.address = bar.base
    BY <1>5, <1>6, Sized
  <1>8. PciInv' /\ ctrl' = ctrl
    <2>1. pci' = pci
      <3>1. PICK f \in PciFunction : f = pci[ctrl]
        BY <1>3
      <3>2. [f EXCEPT !.bar = f.bar] = f
        BY DEF PciFunction
      <3>3. pci \in [Addresses -> PciFunction \cup {Absent}]
        BY DEF PciInv
      <3>4. IsIo(bar.lo) => pci' = pci
        BY <1>4 DEF XHCI_new
      <3>5. ~ IsIo(bar.lo) => pci' = [pci EXCEPT ![ctrl].bar = bar]
        BY <1>4, <1>5, <1>7 DEF XHCI_new
      <3>6. ~ IsIo(bar.lo) => pci' = [pci EXCEPT ![ctrl] = f]
        BY <1>3, <1>4, <3>1, <3>2, <3>3, <3>5
      <3> QED BY <1>3, <3>1, <3>3, <3>4, <3>6
    <2>2. todo # <<>>
      BY <1>2 DEF PciInv
    <2> QED BY <1>1, <2>1, <2>2 DEF PciInv, ctrl
  <1>9. CASE IsIo(bar.lo) \/ sized.size = 0 \/ sized.size >= MaxBar
    <2>1. boot' = "panic" /\ xhci' = xhci
      BY <1>4, <1>5, <1>9 DEF XHCI_new
    <2>2. boot' \notin UnderWay
      BY <2>1 DEF UnderWay
    <2>3. hw' \in [Addresses -> Fields]
      BY <1>1 DEF XhciInv
    <2> QED BY <1>2, <1>8, <2>1, <2>2, <2>3 DEF XhciInv
  <1>10. CASE ~ (IsIo(bar.lo) \/ sized.size = 0 \/ sized.size >= MaxBar)
    <2>1. ~ IsIo(bar.lo) /\ bar.size # 0 /\ sized.size = bar.size /\ info.address = bar.base
      BY <1>7, <1>10
    <2>2. /\ boot' = "setup_msix"
          /\ mapped' = mapped \cup {Aligned(bar.base + i * Page) :
                                       i \in 0 .. ((bar.size + Page - 1) \div Page) - 1}
          /\ xhci' = [address |-> bar.base, virt_base |-> Aligned(bar.base),
                      size |-> bar.size, msix |-> None]
      BY <1>4, <1>5, <1>6, <1>10, <2>1 DEF XHCI_new
    <2>3. bar.base \in Nat /\ bar.size \in Nat
      BY DEF BarRegister
    <2>4. Aligned(bar.base) \in Int
      BY <2>3, MachinesAssumption DEF Aligned
    <2>5. xhci' \in [address : Nat, virt_base : Int, size : Nat, msix : Nat]
      BY <2>2, <2>3, <2>4 DEF None
    <2>6. BarRead(xhci', bar, mapped')
      <3>1. xhci'.address = bar.base /\ xhci'.size = bar.size /\ xhci'.virt_base = Aligned(bar.base)
        BY <2>2
      <3>2. CASE bar.size >= Page
        <4>1. bar.size % Page = 0
          BY <1>3, <1>4, <3>2, MachinesAssumption DEF PciInv, Absent, PciFunction
        <4>2. \A i \in 0 .. ((bar.size + Page - 1) \div Page) - 1 :
                 Aligned(bar.base + i * Page) \in mapped'
          BY <2>2
        <4>3. /\ Aligned(bar.base) = bar.base
              /\ \A o \in 0 .. bar.size - 1 : Aligned(bar.base + o) \in mapped'
          BY <2>1, <3>2, <4>1, <4>2, PagesMapped
        <4> QED BY <3>1, <4>3 DEF BarRead
      <3>3. CASE ~ (bar.size >= Page)
        BY <3>1, <3>3 DEF BarRead
      <3> QED BY <3>2, <3>3
    <2>7. boot' \in UnderWay /\ boot' \notin UnderWay \ {"setup_msix"}
      BY <2>2 DEF UnderWay
    <2>8. machine'.pci[ctrl'].bar = bar /\ hw' \in [Addresses -> Fields]
      BY <1>1, <1>4, <1>8 DEF XhciInv
    <2> QED BY <1>8, <2>5, <2>6, <2>7, <2>8 DEF XhciInv
  <1> QED BY <1>9, <1>10

(* Enabling a capability is within what Kept allows. *)
LEMMA Enabled ==
    ASSUME NEW g \in PciFunction, NEW h, Kept(g, h), NEW cap \in 1 .. Slots
    PROVE  set_msix_enable(g, cap) \in PciFunction /\ Kept(set_msix_enable(g, cap), h)
  <1>1. PICK c : c = [g.caps[cap] EXCEPT !.enabled = TRUE, !.masked = FALSE]
    OBVIOUS
  <1>2. g.caps \in [1 .. Slots -> Capability]
    BY DEF PciFunction
  <1>3. PICK caps : caps = [g.caps EXCEPT ![cap] = c]
    OBVIOUS
  <1>4. PICK f : f = [g EXCEPT !.caps = caps]
    OBVIOUS
  <1>5. set_msix_enable(g, cap) = f
    <2>1. PICK c1 : c1 = [g.caps[cap] EXCEPT !.enabled = TRUE]
      OBVIOUS
    <2>2. PICK k1 : k1 = [g.caps EXCEPT ![cap] = c1]
      OBVIOUS
    <2>3. PICK f1 : f1 = [g EXCEPT !.caps = k1]
      OBVIOUS
    <2>4. [g EXCEPT !.caps[cap].enabled = TRUE] = f1
      BY <2>1, <2>2, <2>3
    <2>5. f1.caps = k1 /\ k1[cap] = c1
      BY <1>2, <2>2, <2>3 DEF PciFunction
    <2>6. [c1 EXCEPT !.masked = FALSE] = c
      BY <1>1, <2>1
    <2>7. [k1 EXCEPT ![cap] = c] = caps
      BY <1>2, <1>3, <2>2
    <2>8. [f1 EXCEPT !.caps = caps] = f
      BY <1>4, <2>3
    <2>9. [f1 EXCEPT !.caps[cap].masked = FALSE] = f
      BY <2>5, <2>6, <2>7, <2>8
    <2>10. [g EXCEPT !.caps[cap].enabled = TRUE, !.caps[cap].masked = FALSE]
            = [f1 EXCEPT !.caps[cap].masked = FALSE]
      BY <2>4
    <2> QED BY <2>9, <2>10 DEF set_msix_enable
  <1>6. /\ c \in Capability /\ c.id = g.caps[cap].id /\ c.next = g.caps[cap].next
        /\ c.table_bar = g.caps[cap].table_bar
    <2>1. PICK o \in Capability : o = g.caps[cap]
      BY <1>2
    <2>2. PICK e \in Capability : e = [o EXCEPT !.enabled = TRUE]
      <3>1. [o EXCEPT !.enabled = TRUE] \in Capability
        BY DEF Capability
      <3> QED BY <3>1
    <2>3. c = [e EXCEPT !.masked = FALSE]
      BY <1>1, <2>1, <2>2
    <2>4. e.id = o.id /\ e.next = o.next /\ e.table_bar = o.table_bar
      BY <2>2 DEF Capability
    <2>5. c \in Capability /\ c.id = e.id /\ c.next = e.next /\ c.table_bar = e.table_bar
      BY <2>3 DEF Capability
    <2> QED BY <2>1, <2>4, <2>5
  <1>7. /\ caps \in [1 .. Slots -> Capability]
        /\ \A s \in 1 .. Slots : /\ caps[s].id = g.caps[s].id /\ caps[s].next = g.caps[s].next
                                 /\ caps[s].table_bar = g.caps[s].table_bar
    BY <1>2, <1>3, <1>6
  <1>8. f \in PciFunction
    BY <1>4, <1>7 DEF PciFunction
  <1>9. /\ f.class = g.class /\ f.prog_if = g.prog_if /\ f.bar = g.bar /\ f.caps = caps
        /\ f.cap_list = g.cap_list /\ f.cap_ptr = g.cap_ptr
        /\ Decoded(f) <=> Decoded(g)
    BY <1>4 DEF PciFunction, Decoded
  <1> QED BY <1>5, <1>7, <1>8, <1>9 DEF Kept

(* setup_msix finds the capability, and arms its table entry if it can. *)
LEMMA MsixStep ==
    ASSUME PciInv, XhciInv, setup_msix
    PROVE  PciInv' /\ XhciInv'
  <1>1. boot = "setup_msix" /\ boot' = "halt" /\ UNCHANGED <<machine, todo, mapped>>
    BY DEF setup_msix, Runs
  <1>2. /\ boot \in WithDevice /\ boot \in UnderWay /\ boot' \in UnderWay
        /\ boot' \in UnderWay \ {"setup_msix"}
    BY <1>1 DEF WithDevice, UnderWay
  <1>3. todo # <<>>
    BY <1>2 DEF PciInv
  <1>4. /\ pci[ctrl] \in PciFunction /\ ctrl \in Addresses
        /\ machine.pci[ctrl] \in PciFunction /\ Kept(pci[ctrl], machine.pci[ctrl])
    BY <1>3, TheController
  <1>5. PICK g \in PciFunction : g = pci[ctrl]
    BY <1>4
  <1>6. PICK cap : cap = find_capability(g, "msix")
    OBVIOUS
  <1>7. PICK h \in PciFunction : h = machine.pci[ctrl]
    BY <1>4
  <1>8. Kept(g, h)
    BY <1>4, <1>5, <1>7
  <1>9. /\ cap # None <=> HasMsix(h)
        /\ cap # None => cap \in Listed(h) /\ g.caps[cap].id = "msix" /\ cap \in 1 .. Slots
    <2>1. /\ cap # None <=> HasMsix(g)
          /\ cap # None => cap \in Listed(g) /\ g.caps[cap].id = "msix"
      BY <1>6, CapabilityIs
    <2>2. Listed(g) \subseteq 1 .. Slots
      BY DEF Listed
    <2> QED BY <1>8, <2>1, <2>2, KeptList
  <1>10. cap # None => h.caps[cap].id = "msix" /\ g.caps[cap].table_bar = h.caps[cap].table_bar
    BY <1>8, <1>9 DEF Kept
  <1>11. ctrl' = ctrl
    BY <1>1 DEF ctrl
  <1>12. xhci' = [xhci EXCEPT !.msix = cap]
    BY <1>5, <1>6 DEF setup_msix
  <1>13. PciInv'
    <2>1. CASE cap = None
      <3>1. pci' = pci
        BY <1>5, <1>6, <2>1 DEF setup_msix
      <3> QED BY <1>1, <1>3, <3>1 DEF PciInv
    <2>2. CASE cap # None
      <3>1. PICK f : f = set_msix_enable(g, cap)
        OBVIOUS
      <3>2. f \in PciFunction /\ Kept(f, machine.pci[ctrl])
        BY <1>7, <1>8, <1>9, <2>2, <3>1, Enabled
      <3>3. pci' = [pci EXCEPT ![ctrl] = f]
        <4>1. pci' = [pci EXCEPT ![ctrl] = set_msix_enable(@, cap)]
          BY <1>5, <1>6, <2>2 DEF setup_msix
        <4>2. pci \in [Addresses -> PciFunction \cup {Absent}]
          BY DEF PciInv
        <4> QED BY <1>5, <3>1, <4>1, <4>2
      <3> QED BY <1>1, <1>2, <3>2, <3>3, Changed
    <2> QED BY <2>1, <2>2
  <1>14. /\ hw' \in [Addresses -> Fields]
         /\ cap # None /\ Decoded(g) /\ g.caps[cap].table_bar = 0 => hw'[ctrl].entry = "armed"
    <2>1. hw \in [Addresses -> Fields]
      BY DEF XhciInv
    <2>2. CASE cap # None /\ Decoded(g) /\ g.caps[cap].table_bar = 0
      <3>1. hw' = [hw EXCEPT ![ctrl].entry = "armed"]
        BY <1>5, <1>6, <2>2 DEF setup_msix
      <3>2. PICK new : new = [hw[ctrl] EXCEPT !.entry = "armed"]
        OBVIOUS
      <3>3. new \in Fields /\ new.entry = "armed"
        BY <1>4, <2>1, <3>2 DEF Fields
      <3>4. hw' = [hw EXCEPT ![ctrl] = new]
        BY <1>4, <2>1, <3>1, <3>2
      <3> QED BY <1>4, <2>1, <3>3, <3>4
    <2>3. CASE ~ (cap # None /\ Decoded(g) /\ g.caps[cap].table_bar = 0)
      <3>1. hw' = hw
        BY <1>5, <1>6, <2>3 DEF setup_msix
      <3> QED BY <2>1, <2>3, <3>1
    <2> QED BY <2>2, <2>3
  <1>15. CapabilityRead(cap, h, hw'[ctrl].entry)
    <2>1. Decoded(g) <=> Decoded(h)
      BY <1>8 DEF Kept
    <2> QED BY <1>9, <1>10, <1>14, <2>1 DEF CapabilityRead
  <1>16. xhci \in [address : Nat, virt_base : Int, size : Nat, msix : Nat]
         /\ BarRead(xhci, h.bar, mapped)
    BY <1>2, <1>7 DEF XhciInv
  <1>17. /\ xhci' \in [address : Nat, virt_base : Int, size : Nat, msix : Nat]
         /\ BarRead(xhci', h.bar, mapped) /\ xhci'.msix = cap
    <2>1. cap \in Nat
      BY <1>9, PciAssumption DEF None
    <2>2. /\ xhci'.address = xhci.address /\ xhci'.virt_base = xhci.virt_base
          /\ xhci'.size = xhci.size /\ xhci'.msix = cap
          /\ xhci' \in [address : Nat, virt_base : Int, size : Nat, msix : Nat]
      BY <1>12, <1>16, <2>1
    <2> QED BY <1>16, <2>2 DEF BarRead
  <1>18. machine'.pci[ctrl'] = h /\ hw'[ctrl'] = hw'[ctrl] /\ mapped' = mapped
    BY <1>1, <1>7, <1>11
  <1> QED BY <1>2, <1>13, <1>14, <1>15, <1>17, <1>18 DEF XhciInv

(* The controller is published, and the next one looked at; or it is polled  *)
(* for ever.                                                                 *)
LEMMA PublishStep ==
    ASSUME PciInv, XhciInv, publish
    PROVE  PciInv' /\ XhciInv'
  <1>1. boot = "publish" /\ UNCHANGED <<machine, pci, hw, mapped>>
    BY DEF publish, Runs
  <1>2. boot \in WithDevice /\ boot \in UnderWay /\ boot \in UnderWay \ {"setup_msix"}
    BY <1>1 DEF WithDevice, UnderWay
  <1>3. CASE xhci.msix = None
    <2>1. boot' = "polling" /\ UNCHANGED <<todo, xhci>>
      BY <1>3 DEF publish
    <2>2. boot' \in WithDevice /\ boot' \in UnderWay \ {"setup_msix"}
      BY <2>1 DEF WithDevice, UnderWay
    <2>3. hw' \in [Addresses -> Fields] /\ \A a \in Addresses : hw'[a].entry = hw[a].entry
      BY <1>1 DEF XhciInv
    <2> QED BY <1>1, <1>2, <2>1, <2>2, <2>3, Steady
  <1>4. CASE xhci.msix # None
    <2>1. boot' = "next" /\ todo' = Tail(todo) /\ xhci' = NoXhci
      BY <1>4 DEF publish
    <2>2. boot' \notin WithDevice /\ boot' \notin UnderWay
      BY <2>1 DEF WithDevice, UnderWay
    <2>3. todo' \in Seq(UsbOf(machine.pci))
      <3>1. todo # <<>>
        BY <1>2 DEF PciInv
      <3> QED BY <2>1, <3>1, TheController
    <2>4. PciInv'
      BY <1>1, <2>2, <2>3 DEF PciInv
    <2>5. xhci' \in [address : Nat, virt_base : Int, size : Nat, msix : Nat]
      BY <2>1 DEF NoXhci, None
    <2> QED BY <1>1, <2>1, <2>2, <2>4, <2>5 DEF XhciInv
  <1> QED BY <1>3, <1>4

(* An interrupt, or nothing at all. *)
LEMMA QuietStep ==
    ASSUME PciInv, XhciInv, UNCHANGED <<machine, boot, usbVars>>
    PROVE  PciInv' /\ XhciInv'
  <1>1. hw' \in [Addresses -> Fields] /\ \A a \in Addresses : hw'[a].entry = hw[a].entry
    BY DEF XhciInv, usbVars
  <1> QED BY <1>1, Steady DEF usbVars

(* What the kernel knows of the machine stays true. *)
LEMMA MachineStep == PciInv /\ XhciInv /\ [BootNext]_bootVars => PciInv' /\ XhciInv'
  <1> SUFFICES ASSUME PciInv, XhciInv, [BootNext]_bootVars PROVE PciInv' /\ XhciInv'
    OBVIOUS
  <1>1. CASE Kernel
    <2>1. CASE load_idt \/ test_rsdp \/ disable_pic \/ init_lapic \/ init_ioapic \/ sti_boot
      BY <2>1, EarlyStep
    <2>2. CASE halt \/ hcrst \/ wait_hcrst \/ wait_cnr \/ run \/ wait_run \/ wait_run_timeout
                 \/ \E r \in Registers : write_register(r)
      BY <2>2, StartStep
    <2>3. CASE find_usb
      BY <2>3, FindStep
    <2>4. CASE next_controller
      BY <2>4, NextStep
    <2>5. CASE enable
      BY <2>5, EnableStep
    <2>6. CASE XHCI_new
      BY <2>6, NewStep
    <2>7. CASE setup_msix
      BY <2>7, MsixStep
    <2>8. CASE publish
      BY <2>8, PublishStep
    <2> QED BY <1>1, <2>1, <2>2, <2>3, <2>4, <2>5, <2>6, <2>7, <2>8 DEF Kernel
  <1>2. CASE Hardware
    BY <1>2, HardwareKeeps
  <1>3. CASE (\E v \in {8, 32, 33, 44, 255} : common_interrupt_handler(v)) \/ UNCHANGED bootVars
    <2>1. UNCHANGED <<machine, boot, usbVars>>
      BY <1>3 DEF common_interrupt_handler, bootVars
    <2> QED BY <2>1, QuietStep
  <1> QED BY <1>1, <1>2, <1>3 DEF BootNext

(* ... and is true at first. *)
LEMMA MachineInit == BootInit => PciInv /\ XhciInv /\ VectorsInv
  <1> SUFFICES ASSUME BootInit PROVE PciInv /\ XhciInv /\ VectorsInv
    OBVIOUS
  <1>1. boot = "load_idt" /\ boot \notin WithDevice /\ boot \notin UnderWay
    BY DEF BootInit, WithDevice, UnderWay
  <1>2. machine \in Machines /\ pci = machine.pci /\ todo = <<>>
    BY DEF BootInit
  <1>3. machine.pci \in [Addresses -> PciFunction \cup {Absent}] /\ machine.running \in BOOLEAN
    BY <1>2, MachinesAssumption
  <1>4. \A a \in Addresses : Kept(machine.pci[a], machine.pci[a])
    BY DEF Kept
  <1>5. todo \in Seq(UsbOf(machine.pci))
    <2>1. PICK S : S = UsbOf(machine.pci)
      OBVIOUS
    <2>2. <<>> \in Seq(S)
      OBVIOUS
    <2> QED BY <1>2, <2>1, <2>2
  <1>6. PciInv
    BY <1>1, <1>2, <1>3, <1>4, <1>5 DEF PciInv
  <1>7. hw \in [Addresses -> Fields]
    <2>1. hw = [a \in Addresses |-> Controller(machine.running)]
      BY DEF BootInit
    <2>2. Controller(machine.running) \in Fields
      BY <1>3 DEF Controller, Fields
    <2> QED BY <2>1, <2>2
  <1>8. xhci = NoXhci /\ xhci \in [address : Nat, virt_base : Int, size : Nat, msix : Nat]
    BY DEF BootInit, NoXhci, None
  <1>9. XhciInv
    BY <1>1, <1>7, <1>8 DEF XhciInv
  <1>10. VectorsInv
    BY DEF BootInit, VectorsInv
  <1> QED BY <1>6, <1>9, <1>10

(* XHCI::new reads base and size of every BAR that PCI allows, 32 or 64 bits *)
(* wide, as firmware and device have them, leaves the BAR as it was, and     *)
(* maps every register where the driver looks for it.                        *)
THEOREM BarsDecoded == BootSpec => []BarDecoded
  <1>1. PciInv /\ XhciInv => BarDecoded
    <2> SUFFICES ASSUME PciInv, XhciInv, xhci # NoXhci
                 PROVE  LET bar == machine.pci[ctrl].bar
                        IN  /\ xhci.address = bar.base /\ xhci.size = bar.size
                            /\ pci[ctrl].bar = bar
                            /\ bar.size >= Page =>
                                  /\ xhci.virt_base = bar.base
                                  /\ \A o \in 0 .. bar.size - 1 : Aligned(bar.base + o) \in mapped
      BY DEF BarDecoded
    <2>1. boot \in UnderWay
      BY DEF XhciInv
    <2>2. todo # <<>>
      BY <2>1 DEF PciInv, WithDevice
    <2>3. pci[ctrl].bar = machine.pci[ctrl].bar
      BY <2>2, TheController DEF Kept
    <2>4. BarRead(xhci, machine.pci[ctrl].bar, mapped)
      BY <2>1 DEF XhciInv
    <2> QED BY <2>3, <2>4 DEF BarRead
  <1> QED BY <1>1, MachineInit, MachineStep, PTL DEF BootSpec

(* find_capability finds the MSI-X capability of a controller exactly when   *)
(* the list has one, though the list be a cycle, and setup_msix arms its     *)
(* table entry whenever the write can reach it.                              *)
THEOREM CapabilitiesFound == BootSpec => []CapabilityFound
  <1>1. XhciInv => CapabilityFound
    <2> SUFFICES ASSUME XhciInv, boot \notin {"setup_msix"}, xhci # NoXhci
                 PROVE  LET f == machine.pci[ctrl]
                        IN  /\ xhci.msix # None <=> HasMsix(f)
                            /\ xhci.msix # None =>
                                 /\ xhci.msix \in Listed(f) /\ f.caps[xhci.msix].id = "msix"
                                 /\ Decoded(f) /\ f.caps[xhci.msix].table_bar = 0
                                      => hw[ctrl].entry = "armed"
      BY DEF CapabilityFound
    <2>1. boot \in UnderWay \ {"setup_msix"}
      BY DEF XhciInv
    <2>2. CapabilityRead(xhci.msix, machine.pci[ctrl], hw[ctrl].entry)
      BY <2>1 DEF XhciInv
    <2> QED BY <2>2 DEF CapabilityRead
  <1> QED BY <1>1, MachineInit, MachineStep, PTL DEF BootSpec

(* From sti on neither the timer of the PIC, remapped and masked by          *)
(* disable_pic, nor the vector of an xHCI controller stops the kernel,       *)
(* whatever interrupts come.                                                 *)
THEOREM NoStrayVectors == BootSpec => []NoStrayVector
  <1>1. VectorsInv => NoStrayVector
    BY DEF VectorsInv, NoStrayVector
  <1> QED BY <1>1, MachineInit, VectorsStep, PTL DEF BootSpec

(* test_rsdp returns on every machine whose ACPI structures, up to the MADT, *)
(* each lie in one page, at any addresses and in any number, with a first    *)
(* record of the MADT that makes an address: it maps the page of a structure *)
(* before it reads from it.                                                  *)
THEOREM AcpiTablesRead == BootSpec => []LegibleTablesRead
  <1>1. VectorsInv => LegibleTablesRead
    BY DEF VectorsInv, LegibleTablesRead
  <1> QED BY <1>1, MachineInit, VectorsStep, PTL DEF BootSpec
=============================================================================
