# A TLA+ model of the OCTAGRAM-OS kernel

OCTAGRAM-OS is a single-core x86-64 kernel in Rust (`kernel/src`).  Most of its own
logic, and nearly all of its concurrency, is in the USB stack: an xHCI driver whose
rings are shared with a DMA device, an interrupt handler that consumes one event at a
time, and enumeration and hotplug code that runs in main context and waits on flags
the handler sets.  Under it lie a frame allocator, page tables and a heap that are
built once at boot, and before all of it a boot sequence that finds and starts the
controllers.  This project models these parts, checks them with TLC, and proves with TLAPS
the safety of each: the ring protocols, enumeration and hotplug, frames and page tables,
the locks, the terminal, the report decoding, PCI decoding and the controller start-up.

## Inventory

| Component | State | Operations | Interacts with | What makes it correct |
|---|---|---|---|---|
| Producer rings: command, EP0, interrupt IN (`usb/xhci.rs`) | ring memory, `enqueue_index`, `cycle_state` | `send_command`, `ep0_enqueue_trb`, `enqueue_normal_trb_and_ring`, `ring_doorbell`, `write_link_trb` | the controller, by DMA | every TRB is taken once, in order; wraps are invisible |
| Event ring and interrupt path (`xhci.rs`, `interrupt.rs`) | segment, `dequeue_index`, `cycle_state`, ERDP, EHB, the LAPIC's request | `setup_event_ring`, `poll_event_ring`, `write_erdp`, EOI, polling fallback | controller, LAPIC, `XHCI_INSTANCE` | no event lost, repeated or overwritten; interrupts never dry up |
| Enumeration and hotplug (`usb/mod.rs`, `main.rs`) | `ACTIVE_PORTS`, `PORT_CHANGE_PENDING`, `COMPLETION_*`, `TRANSFER_COMPLETION_*` | `poll_hotplug`, `discover_and_init_hid_devices`, `init_one_device`, `shutdown_device`, `enable_slot` ... `configure_endpoint` | handler (flags), rings (requests), HID drivers (calls), user | registry, ports, slots and drivers agree; each request gets its own answer |
| Keyboard and mouse drivers (`usb/keyboard_usb.rs`, `usb/mouse_usb.rs`) | `KBD_STATE`, `KBD_DCI`, `KBD_SLOT_ID`, the same for the mouse | `init_*`, `arm_next_report`, `poll_*`, `shutdown_*`, `handle_report` | handler, `XHCI_INSTANCE` | one report in flight; the driver lives exactly as long as its device |
| Locks and interrupt flag | `XHCI_INSTANCE`, `KBD_STATE`, `MOUSE_STATE`, IF | `lock`, `cli`, `sti` | main against handler | the handler never spins on a lock main holds |
| Frame allocator (`memory/frame_allocator.rs`) | `head`, links inside the free frames | `allocate`, `free`, lazy `init` | paging, heap | each frame has one owner |
| Heap (`memory/heap_allocator.rs`) | the range given to `LockedHeap` | `init_heap` | frame allocator | the range consists of frames it allocated |
| Page tables (`memory/paging.rs`) | four levels of tables | `map_page`, `map_range`, `map_mmio_*`, `unmap_page`, `translate` | frame allocator; callers in ACPI, APIC, xHCI set-up | a call changes its own mapping only |
| Terminal (`terminal/mod.rs`) | `POSITION_X`, `POSITION_Y`, two `static mut` without a lock | `terminal_print`, `scroll_framebuffer` | printed to by main and by the handler | text scrolls when it reaches the last line: no pixel outside the framebuffer, no underflow, whoever interrupts whom |
| Interrupt dispatch, IDT, APICs (`interrupt.rs`, `idt.rs`, `apic.rs`) | vectors, gates, PIC masks, redirections | `load_idt`, `disable_pic`, `init_lapic`, `init_ioapic`, `common_interrupt_handler`, `send_eoi` | everything | EOI on every path that returns; no vector that can be raised without a handler |
| Boot and controller start-up (`main.rs`, `xhci.rs`, `usb/mod.rs`) | operational registers, `XHCI_INSTANCE` | `kmain`, `init_usb_controllers`, `XHCI::new`, `setup_msix`, `init_xhci`, `setup_event_ring`, `start_controller` | PCI, paging, the controllers | no controller runs half configured; the boot gets to the end |
| PCI (`pci.rs`) | configuration space | `find_usb_controllers`, `enable_device`, `get_bar0`, `get_bar0_size`, `find_capability`, `set_msix_enable` | start-up | decoding is right and leaves the registers as they were |
| Descriptor walk (`xhci.rs`) | position, current interface, endpoints found | `get_configuration_descriptor_and_find_interrupt_endpoints` | enumeration; the device | finds what was sent, wherever it is cut |
| ACPI (`rsdp.rs`) | tables of the firmware | `test_rsdp`, `find_MADT` | paging | what is read was mapped before |
| GDT, port I/O | | set-up; single instructions | | |
| VFS | the file is empty | | | |

Hard behaviours: the controller reads and writes memory between any two driver
instructions; interrupts arrive between any two instructions of main context unless IF
is clear; requests time out while their answer is under way; devices come and go
during an enumeration that takes a dozen commands; rings wrap; each command, transfer
and allocation can fail.  There is no second CPU, no preemption and nothing persistent.
`PROJECT.json` lists the hazards with their lines.

## Modules

* `TrbQueue` - the abstract ring: a producer posts numbered items, a consumer takes
  them in order.  Both detailed rings refine it.
* `TrbRing` - the three producer rings.  One instance is one ring of kind `command`,
  `ep0` or `interrupt`.  A call (`send_command`, `control_transfer_in`,
  `control_transfer_no_data`, `arm_next_report`) starts a transfer descriptor of 1, 3,
  2 or 1 TRBs; `write_trb`, `advance_linked`/`advance_unlinked` and `ring_doorbell` are
  the driver's steps, `HwFetch`, `HwFollowLink` and `HwStop` the controller's.  A TRB is
  its type, cycle bit and a serial number; addresses and lengths are left out.
* `EventRing` - the event ring with EHB, ERDP, the LAPIC's request bit, IF, EOI and the
  publication of `XHCI_INSTANCE`, in MSI-X mode and in the polling fallback.
* `UsbHotplug` - the idle loop, `poll_hotplug`, the two loops of
  `discover_and_init_hid_devices`, and `init_one_device` unfolded into its calls.  Every
  xhci.rs function that main calls is two actions, the request (`enable_slot`) and the
  return (`enable_slot_return`), because the handler, the controller and the user act
  while main waits.  `Interrupt` is the handler of vector 44: one event, dispatched to
  the port flag, to the command or transfer statics, or to a driver that re-arms.
  Rings are FIFO queues here, which is what the two ring modules establish.
* `FrameAllocator`, `Paging` - physical frames, `init_heap`, and the page table walk
  level by level.  A word of memory is an address with the present and huge bits, so
  that a free-list link, `NULL_MARK` and a table entry are the same thing seen twice, as
  in the kernel.  `Paging` extends `FrameAllocator` and adds the callers and the order
  of the boot sequence.
* `SpinLocks` - locks, IF, main and one handler on one CPU.  A function is the sequence
  of its `cli`, `sti`, lock, unlock and work operations, a constant of the module, so
  that it can be reasoned about for any kernel.
* `Terminal` - the cursor.  Main's `+=` and `-=` are a load and a store, as the dev
  profile compiles them, and each pixel of a glyph reads the cursor again; a character of
  the handler is one step, since nothing interrupts it.
* `Contexts` - the text of this kernel for `SpinLocks` (which function locks what, where
  it clears IF, what it calls next, what the handler does for each event), composed with
  `Terminal` and with the report TRBs that let an interrupt call a driver.
* `PciConfig` - `pci.rs` as operators from the registers found to the result and the
  registers left behind.
* `Boot` - extends it with `kmain`: IDT, ACPI tables, PIC, APICs, `sti`, then for every xHCI
  controller `XHCI::new`, `setup_msix` and `init_xhci` one register write at a time,
  against controllers that halt, reset, become ready and start when they like and
  interrupts that come as soon as something raises them.
* `ConfigDescriptor` - the byte walk over a configuration descriptor, and a definition of
  what it should find in terms of descriptors.
* `HidReports` - `handle_report` of both drivers, with reports in any order, rollover and
  failed transfers, whose completion code nobody looks at.
* `MCUsbHotplug`, `MCPaging` - values for the constants.
* `MCHardware` - values for `TrbRing`, `Boot`, `ConfigDescriptor` and `HidReports`, and one run
  for all four.  They share no variable; a behaviour moves the variables of the component
  that `about` names and leaves the others in one of their initial states, and the fairness
  of a component is asked of the behaviours about it.
* `MCInterrupts` - in the same way one run for the two sides of vector 44, `EventRing`
  against the controller and `Contexts` against main.
* `TrbRing_proofs`, `EventRing_proofs`, `UsbHotplug_proofs`, `Paging_proofs`,
  `SpinLocks_proofs`, `Contexts_proofs` (with `Terminal`), `UsbData_proofs` (of
  `ConfigDescriptor` and `HidReports`), `Boot_proofs` (with `PciConfig`) - the theorems.

Operators whose comment starts with "Mutant:" are plausible mistakes in the definition
that follows them.  They occur in no specification; each property has been seen to
fail with one of them in place.

### Abstractions worth knowing

* A section under `cli` or a lock is one step of `UsbHotplug` (the locks themselves are
  in `Contexts`); so are the loads of
  PENDING, CODE and SLOT after a wait, since the handler stores PENDING last and main
  has one request outstanding.  Storing PENDING := FALSE just before `cli` is merged with the
  request: an event between the two has the effect of one just after.
* A wait that times out while nothing is under way (for instance after EP0 has halted,
  which the driver never resets) is always possible.  One that times out while its
  answer is still to come is "late" and counted by `MaxLate`.
* `CarefulUser` restricts the user to one keyboard and one mouse at a time and to
  plugging a device in only after the kernel has released the port and the previous
  device of that kind.  Without it the properties fail: the driver has one state per
  kind, so the second of two keyboards takes the first one's place (`keyboard_usb.rs:78`;
  `DOKUMENTASI-XHCI.md:341` lists this as open), and it compares connect bits only.
* The fields `mine`, and the variables `posted`, `taken`, `handled`, `skipped`,
  `refused`, `heapTaken`, `echoed`, `rolled`, `travel`, `lines`, are history: no guard of
  the kernel's actions reads them.
* A connect or disconnect sets the change bits of the port in PORTSC, and a controller posts a
  Port Status Change Event when they go from 0 to 1.  The driver never clears them:
  `write_portsc` (`xhci.rs:125`) has no caller, and the scan reads the connect bit only
  (`usb/mod.rs:208`).  In `UsbHotplug` the first change of a port since the controller's reset
  therefore posts an event, a device that is there at boot counting as such a change, and each
  later one posts an event or none (`PortChange`): a controller built to the specification
  posts none, an emulated one may.  `missed` remembers the ports whose last change
  brought no event since the last scan.
* `machine.acpi` in `Boot` has the addresses of RSDP, RSDT and tables, the length field of the
  RSDT, the kind of the first MADT record and the address that its bytes make.  `test_rsdp` maps the page of the first byte of
  each structure and ignores what `map_page` returns, so a read succeeds if its page
  is one of these (and not in `unmappable`: no frame left, or a huge page in the way) or was mapped by the loader
  (`present`).  A page fault, a #GP for an address that is not canonical, and the underflow of
  the RSDT's length stop the kernel.
* The PIC has the vectors of the firmware, those of `disable_pic` (from 32 on) or is masked; its timer
  is the one line that is always raised.
* These stops of the boot are left out: `map_mmio_page` (`memory/paging.rs:181`) panics when there is no frame or a
  huge page in the way, so `init_lapic`, `init_ioapic` and `XHCI::new` assume that the
  pages they map can be mapped; and `setup_msix` assumes that the MSI-X table offset lies in BAR 0.
* In `Contexts` a wait is one step that can always end, and which call follows which is
  any order the code's branches allow; what decides the branch is in `UsbHotplug`.
  `ACTIVE_PORTS` is left out, as main alone takes it.  A text that main or the handler
  prints is any number of characters and line feeds.
* In the runs of `Boot` a register has 8 bits where hardware has 32; sizes, addresses and
  the halves of a 64-bit BAR scale with it.  `LegalBar`, `Capability` and `PciFunction` say
  what PCI allows a function to be: a BAR is aligned to its size, the size is a power of
  two (as far as the arithmetic needs it: sizes, words and pages divide one another), and
  a capability pointer stays among the slots, but the list may be a cycle.  A function that does not decode memory ignores writes
  and reads as all ones.  `CMD_MEMORY_SPACE` is bit 0, as in the code, which PCI calls I/O
  space: whether memory is decoded is up to the firmware.  The memory map, the heap and
  the first scan of the ports are in `Paging` and `UsbHotplug`.
* In `HidReports` what happens between two reports is one change; the vertical axis of the
  mouse is handled as the horizontal one; characters are told apart only by whether a
  key has one.
* The controller is modelled from the way the driver uses it: Enable Slot gives the
  lowest free slot, Disable Slot succeeds on an enabled one, a failing control transfer
  halts EP0, polling a removed device ends with one error event per endpoint.
* The bootloader's memory map is sorted and free of overlaps (`MapAssumption`), so
  frames are pushed in ascending order.

## Runs

| Run | Question | Instance | Result |
|---|---|---|---|
| `hotplug` | Do registry, ports, slots and drivers agree, and does every wait end? | 2 ports, 2 slots, a composite keyboard and mouse, a disk, 2 plug events, 1 report, 1 fault, no late answers, each later change of a port with an event or without | pass, 330 000 states |
| `port_change` | Does the registry follow the ports? | 1 keyboard, 1 plug event | `RegistryFollowsPorts` fails: no event, as the change bits are still set |
| `lost_wakeup` | Is every port change noticed? | 1 keyboard, 1 plug event | `ChangeNoticed` fails between `poll_hotplug` and `hlt` |
| `stale_answer` | Does the registry survive a late answer? | 2 keyboards, 1 late answer | `RegistryTrue` fails |
| `interrupts` | What can an interrupt between any two instructions do to locks, IF and the screen, and is one event per interrupt enough? | all functions of the kernel, 3 locks, a screen of 28 x 44 pixels; an event ring of 3 cells, 8 events, both modes | pass, 190 000 states |
| `early_event` | ... also for an event before `call_once`? | 3 cells, 2 events | `EveryEventHandled` fails |
| `lock_deadlock` | Does the handler ever wait for a lock of the code it interrupted? | all functions of the kernel | `HandlerNeverSpins` fails |
| `handler_pixels` | Is everything the handler prints on the screen? | the same | `HandlerDrawsOnScreen` fails between `POSITION_Y += 16` and the scroll |
| `paging` | One owner per frame, one mapping per call? | 10 frames of 4 bytes in two ragged regions, tables of 2 entries, 4 levels, a huge page, 5 calls | pass |
| `heap_fragmented` | Is the heap made of allocated frames? | highest region smaller than the heap | `HeapOwned` fails |
| `hardware` | Do the producer rings deliver every TRB once, in order, and does the kernel understand the machine, the descriptors and the reports? | rings of 6 cells, up to 4 TRBs in flight, several laps of the interrupt ring and a wrap of the others; some 1 200 machines, 585 configurations cut at every byte, 3 keys, 2 buttons | pass, 190 000 states |
| `held_key` | Is a held key printed once? | the same | `HeldKeyOnce` fails after ErrorRollOver |

Bounds.  A ring of 6 cells has room for an EP0 transfer of 3 TRBs, or for two of 2
TRBs at once, and wraps after 5 TRBs; 3 event cells let the controller catch up with
the ERDP.  The safety of both is proved for every size.  `hotplug` needs two ports and slots
for two devices to exist at once, two plug events for unplug and replug, or for a
scan that is disturbed while it runs, and one fault to fail each command and transfer in turn.
A device that is there at boot has already set its port's change bits, so that its removal is the
change that may bring no event.  The invariants hold with three plug events, too (1.3 million
states); liveness was checked with two.
`paging` has enough calls to use up all frames in the middle of a range.

`interrupts` has no bound on the locks: the text of the kernel is finite.  A screen of 28 x
44 pixels has two lines of text and a rest of 12 pixels below, and lines of two glyphs
with a rest of 12 beside, so that wrapping and scrolling happen within a few characters
and at sizes that are no multiple of a glyph; the terminal's properties are proved for
every size.  `hardware` varies one thing at a time: 32-bit and 64-bit BARs below and above
a page and a word, an I/O BAR and none; every capability list of 3 slots, cycles included
(`SafetyBound` is 3 with them, as 48 is with the slots of hardware); every population of 2
devices with 2 functions each; decoding and table BARs; and ACPI structures
at the start, in the middle and at the end of pages of 64 bytes, together and alone, with every first record,
a page that the loader has mapped and pages that cannot be mapped.  Three descriptors (of
eight kinds, malformed ones among them) are enough for an endpoint after two interfaces
and for a cut in each.  2 keycodes in a report against 3 keys give rollover; `MaxEchoes`
= 2 tells once from more often; `MaxPos` = 3 lets the position overflow.

Deadlock is not checked: a kernel in `hlt` with no device active, a full budget, a panic,
a handler that spins and the end of a walk are legitimate ends.

Fairness.  The CPU goes on executing (weak fairness of the driver's steps and of main
and the handler), the controller processes what is on a ring whose doorbell was rung
and raises the interrupts it owes (weak), and a pending interrupt is taken although
main keeps opening and closing `cli` .. `sti` sections (strong, as IF is set again after
each).  Callers, users and devices are under no obligation.  Waiting loops end because
the code counts down a timeout.  In `Contexts` the handler goes on executing, except that
it may print for as long as it likes and then goes on: fairness is on `HandlerProgress`.  In
`Boot` main executes and a controller gets on with what it was told (weak fairness
of each); main as a whole is enough, as at any place at most one of its actions is enabled
but for the two ends of the wait for the start, which both go on.

## Properties

* Rings: `RingInv` and `EventInv` (cycle bits, distance and contents), `RefinesQueue`,
  `EveryTrbFetched` (but for what the two unlinked rings hold after their first lap),
  `EventsHandledUnlessSkipped`; `IrqInv` relates EHB, the LAPIC and
  the handler and is why one event per interrupt suffices.
* Hotplug: `OwnAnswer` (no wait takes another request's answer), `RegistryTrue`
  (entries of `ACTIVE_PORTS` are addressed slots of their ports), `SlotMemory` (DCBAA and
  EP0 ring), `DriverOwned` and `EveryHidDriven` (drivers and registry, both directions),
  `OneReportInFlight`, `SyncedWhenQuiet` (no port change that brought an event slips between
  flag, scan and sleep), `MainGetsIdle` (no wait hangs).  `RegistryFollowsPorts` is what the comments
  promise, for every change, and does not hold.
* Memory: `FrameOwners`, `OnlyUsable`, `TableTree`, `HeapOwned`, and the action property
  `OnlyItsPage`.
* Locks: `SpinsOnlyAtKnownSites` (the handler spins on nothing but a lock taken at one of
  the sites without `cli`), `MainNeverSpins` (no function takes what its caller holds),
  `HandlerReturns` (EOI is
  reached unless the handler spins), and `HandlerNeverSpins`, which is what the documents
  say and does not hold.  `TypeOK` of `Contexts` includes `TextOK`, the assumptions of the
  theorems about `SpinLocks`, evaluated on the text of this kernel.
* Terminal: `HandlerDrawsOutsideFeed` (except while main is between a line
  feed and its scroll), `MainDrawsOnScreen`, `ScrollHasLine`; `HandlerDrawsOnScreen`, without the exception,
  does not hold.
* Start-up: `RunsConfigured` (whatever the pace of the controller), `BarDecoded`,
  `CapabilityFound`, `NoStrayVector` (neither the PIC's timer nor a controller's event stops the
  kernel), `LegibleTablesRead` (`test_rsdp` returns if each structure lies in one page that can be mapped),
  `BootCompletes` (the first controller of the bus is published or polled, unless the boot stops).
* Decoding: `WalkFindsAll` against the definition by descriptors, `HeldKeyOnceUnlessRollOver`,
  `MouseLogTrue`; `HeldKeyOnce`, which the documents say, does not hold.

## Proofs

`TrbRing_proofs` and `EventRing_proofs` prove, for every ring size and any number of
laps, type correctness, the ring invariant, that the ring implements `TrbQueue`, and for
the event ring the interrupt protocol.  Assumptions: the ring has at least 3 (2) cells,
and at most `RingSize - 2` TRBs are in flight, which holds because every caller waits
for its completion before the next request.

The argument is the same for both.  A FIFO statement is not inductive: it has to know
that the two sides, who share no index, agree on their distance.  `Count` says so from
indices and cycle states alone, `CycleBits` says that cells behind the producer carry
its cycle bit and the others the opposite one, and `Contents` numbers the unread cells.
A fetch is then possible exactly when the distance is positive, and it yields the item
`taken + 1`.  `LastCell` is needed for the Link TRB: it carries the cycle bit of the
last lap completed, except in the first lap, when it still has the bit it was created
with; and a ring without a Link TRB is never passed by the controller.  `IrqInv` needs
`EventInv` to know that an interrupt finds an event.

`UsbHotplug_proofs` is about any number of ports, slots and devices, any interfaces on
them, and any bounds on what users and devices do.  The invariant is built in layers, each
inductive given the ones before it:

1. `Types` - ranges of the queues, the controller, and of what main has in hand at each
   place.  It also says that no port is twice in the registry, so that the registry
   fits (`HotplugTypes`).
2. `ScanTrue` - unless a port change is flagged or on its way, every connected port whose last
   change brought an event is registered, refused, still in the snapshot, or being
   enumerated (`HotplugSynced`).  Of the other ports it says nothing; run `port_change`
   shows what becomes of them.
3. `DriverInv` - a driver's slot is in the registry or being shut down or set up
   (`HotplugDrivers`).
4. `OneCommand` - one command while main waits, on the ring, on the event ring or in
   `COMPLETION`; none otherwise.
5. `SlotInv` - what slots, registry and answers say of each other (`HotplugSlots`).
6. `CarefulInv` - no two devices of a kind at a time, endpoints and drivers of the same
   device, one report TRB for each armed endpoint, and one control transfer, like layer
   4, for EP0 (`HotplugAnswers`).

Layers 1 to 3 need no hypothesis.  The others need the hypotheses their theorems name, and
TLC shows that they cannot be dropped.  `MaxLate = 0`, no wait times out with its answer
still to come, is needed from layer 4 on: with one late answer `RegistryTrue` (run
`stale_answer`), `SlotMemory`, `EveryHidDriven` and `OneReportInFlight` fail, while
`DriverOwned` holds.  `CarefulUser` is needed for layer 6: without it
`OwnAnswer` and `EveryHidDriven` fail, since the second of two keyboards takes the first
one's place in `KBD_STATE`.  `OneOfEachKind`, no device with two keyboard or two mouse
interfaces, is needed for the same reason within a device.  The instance of `hotplug`
satisfies all three.  All layers were checked by TLC.

`Paging_proofs` is about memory of any size and shape: any memory map that is sorted and
free of overlaps, any tables of the boot loader that are a tree outside usable memory, tables
of any size, and any calls.  It has no other hypothesis, except for the heap.  Three arguments
carry the rest.
*Frames*: the free list has no index, so `FreeList` says that some rank falls along it and
that each frame points to the next lower one; popping and pushing keep such a rank, and what the
links reach is exactly the frames left out of `Tables`, `heapTaken` and `held`.  `Untouched`
covers the lazy `init`, which pushes every usable frame in one step.  *Tables*: every present
entry that is no huge page leads to a table of the next level, and no two to the same
(`IsTree`); a fresh frame can be linked in because it is free and therefore no table.
*Pages*: two pages whose ways through the tables meet at a level agree on all the indices above it,
by the tree, so that a write at the end of one page's way changes no other page's
translation; `WalkOnWay` says that the walk in progress is on the way of its page.

*The heap* is made of frames that `init_heap` took only if these lie next to each other
(`HeapIsOwned`), and the code does not see to that (run `heap_fragmented`).  The theorem has
two hypotheses.  `Roomy`: from the highest frame down, memory is without a gap for as many frames
as are wanted until the heap is there, 3 for each page that is mapped before `memory::init` (or 1 for
an `allocate_frame`) and `HEAP_FRAMES`.  With 4096 bytes to a frame and 256 to the heap that is a
highest region of 1 MiB and some 12 KiB for each page that `rsdp.rs` and `apic.rs` map.
`NoEarlyFree`: no frame is freed before; `free_frame` has no caller at all.  A frame freed in between
would be the first on the list, and the heap would begin there, below frames that are
not its own; nor is a highest region enough that has only the heap's own size.  The invariant `Early` says
that the `u` highest frames are gone and the others are on the list in falling order.
`Pending` are the tables that the range under way may still need: with them `u` stays below
`early * calls`, which keeps the next frame down in the pool.  In the loop `HeapGrows` says
which frames the heap has, and that the next one is the one expected.  The instance of the run
`paging` is smaller than `Roomy` asks for; there TLC finds `HeapOwned` true for all the calls
that its bounds allow.

`SpinLocks_proofs` is about any kernel whose functions are well structured
(`CodeStructured`: a guard is dropped in the function that takes it, a lock is not taken
twice, IF is set again).  Its invariant is that the owner of each lock and the state of IF
follow from the places main and the handler have reached (`Placed`): the locks held at a
place are a function of the text before it, which `HeldLock`, `HeldUnlock`, `HeldOther` and
`MaskedStep` compute for one more operation.  From it: the handler spins only at a listed
site if the list is complete (`SitesComplete`), and nowhere if every lock is taken under
`cli` (`DisciplineSuffices`, the rule of the documents); main finds every lock free and keeps
none.  The run `interrupts` evaluates `CodeStructured` and `SitesComplete` on this kernel.

In `Contexts_proofs` the terminal's properties are strengthened in three parts.  `Row`: what main has loaded
of the row is still good when it is stored, because the handler never moves the cursor
below the last line itself.  `Column`: a full line is 16 short of the edge, so that one
glyph of the handler's between test and pixel leaves room for main's.  `WholeLines`: rows
are multiples of 16, which keeps the subtraction above zero.  The handler's own glyphs are on the
screen by `Row` and `Column` unless main is inside a line feed (`HandlerPixels`).  It assumes a framebuffer of at least 16 x
16 pixels.  The composition is then shown to implement both `SpinLocks` and `Terminal`, and
so has the properties of both, and to keep its own state in range (`KernelTypes`).

`UsbData_proofs` has two parts.  The walk over a configuration descriptor (`WalkIsRight`) covers
every sequence of descriptors, each any bytes, a first descriptor that announces more or less than
there is, and a buffer that ends anywhere.  Its one assumption is that descriptors are
sequences of bytes (`DescriptorAssumption`).  The invariant `WalkInv` relates the walk over
bytes to descriptors: if all are well formed then `i` is where some descriptor `k` ends
(`WalkedTo`), `iface` is the last interface before it, and `found` has one entry for each
interrupt IN endpoint up to it, the entry's place being the number of such endpoints so far.  A
descriptor on which the walk stops has not arrived whole (`WholeWalk`), so that nothing is
missed.  Below it are lemmas about `FlattenSeq`: the library defines it by a
recursion over the sequence, which `FlatExists` shows to have a solution, `FlatSame` that
there is only one, and `FlatNext` and `FlatPlaces` where the bytes of descriptor `k` are.  A panic needs no
well-formed descriptors: a read beyond the buffer happens only within 8 bytes of its end.

The part about `HidReports` covers every set of keys, every report size and every range of the
position.  For the keyboard the invariant relates the counts to the last report
(`last_keycodes` is the buffer, and a key in it was printed unless it has no character);
for the mouse, `last_buttons` to the report, which is why one report handled twice prints
no line twice but counts its movement twice.

`Boot_proofs` covers any machine: any number of functions, registers of any width, every BAR
and capability list that PCI allows, and interrupts at any time once IF is set.
`ResetOver` strengthens `RunsConfigured`: between CNR and R/S the controller that main works
on has its reset behind it, and has every register that was written so far; other
controllers are as they were configured.  For the rest the invariant says what main knows
of the machine (`PciInv`, `XhciInv`): configuration space is the firmware's, but for the bits
that `enable_device` and `set_msix_enable` set (`Kept`), `todo` holds USB functions, and the
`XHCI` under construction has been read correctly.  Below that lie lemmas about the operators of
`PciConfig`.  `Sized` is the arithmetic of the BAR probe, in a 32-bit BAR, in the lower and in
the upper half of a 64-bit one.  `CapabilityIs` says that `find_capability` sees exactly the
slots on the list: its pointers follow the list, and as there are no more slots than
rounds (`Slots <= SafetyBound`), the pigeonhole principle has it back at a slot it has seen, or
at the end, before it gives up.  `FoundAreUsb` is an induction over the two loops of
`find_usb_controllers`, by the least round that fails.  `PagesMapped` says that the mapped
pages cover a BAR of whole pages.  `VectorsInv` is the order of the boot sequence: gates before the
PIC is masked, and that before `sti` (`NoStrayVectors`).  `AcpiTablesRead` follows the reads of
`test_rsdp`: a structure in one page is readable once the page of its first byte has been mapped.  The assumptions are what the modules state of
hardware and firmware (`PciAssumption`, `MachinesAssumption`), which TLC evaluates for the
machines of the run, and `WordAssumption`, what has to be known of `2 ^ WordBits`: a
multiple of 16, above 16.

Model-checked only: liveness (`EveryTrbFetched`, `EventsHandledUnlessSkipped`,
`MainGetsIdle`, `HandlerReturns`, `BootCompletes`), which is beyond the provers, and
`HeapOwned` on memory that is not `Roomy`.  Every other property of a passing run is
stated by a theorem.

## Not modelled

* GDT, TSS and port I/O: tables loaded once and single instructions.
* `scan_pci_bus` (prints only), `enable_msi` (no caller), the VFS (empty file).
* The font, colours and pixels of the terminal: data.  Characters of the keyboard
  likewise.
* The `linked_list_allocator` and `spin` crates (the latter as a lock that busy-waits);
  other architectures of `hcf`; the register save of the interrupt stubs; the byte layout
  of contexts.
* Three hazards have no property, for the reasons `PROJECT.json` gives with them: slots that
  are enabled and forgotten after a failure (`usb/mod.rs:289`), a device swapped for
  another between two scans (`usb/mod.rs:208`), and an MSI-X table in another BAR than the
  first (`xhci.rs:207`).  `map_mmio_range` takes a range of which one
  page was mapped before for done (`memory/paging.rs:207`), but nobody calls it.

Known to be wrong without a run that shows it, because one line says all there is to see:

* The command and EP0 rings wrap without a Link TRB (`xhci.rs:401` and 431), so the
  controller stops at their last cell: `DOKUMENTASI-XHCI.md:287` lists it as open.  The model
  has it, in `LastCell` and in the exception of `EveryTrbFetched`.
* `CMD_MEMORY_SPACE` (`pci.rs:157`) is bit 0, I/O space, so `enable_device` never turns memory
  decoding on, against the comment of line 160.  `BootCompletes` assumes `FirmwareDecodes`.
* `setup_msix` (`xhci.rs:207`) takes the MSI-X table to be in BAR 0.  `CapabilityFound` says that
  the entry is armed if it is.
* `virt_base` (`xhci.rs:166`) is a page boundary; `BarDecoded` exempts BARs smaller than a
  page that do not start one, which no xHC has.

## Plan

1. Done: `TrbRing`, `EventRing`, `UsbHotplug`, `FrameAllocator`, `Paging`; `SpinLocks`,
   `Terminal`, `Contexts`; `PciConfig`, `Boot`, `ConfigDescriptor`, `HidReports`.
2. Done: theorems about every safety property of the passing runs, and the refinements.
3. Open: whether `OneReportInFlight` holds for users who are not careful.
