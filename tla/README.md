# Verification of my-mikanos

TLA+ models, TLC configurations and TLAPS proofs for `src/os/my-mikanos`, a
small x86-64 kernel started by a UEFI loader. Most of its own logic is in the
USB stack (`kernel/usb`): an xHCI host controller driver that enumerates
devices, keeps lock-free rings in memory shared with the hardware, and runs the
boot protocol of USB keyboards and mice. The project models that stack and what
is around it: the loader, the PCI scan that finds the controller, and the memory
pool.

## 1. Inventory

| component | state | operations | hard because |
|---|---|---|---|
| xHCI port enumeration (`xhci.cpp`, `port.cpp`, loops of `main.cpp`) | `port_config_phase[]`, `addressing_port`, PORTSC | `ConfigurePort`, `ResetPort`, `EnableSlot`, `AddressDevice`, `InitializeDevice`, `ConfigureEndpoints`, `CompleteConfiguration`, three `OnEvent` | ports compete for one addressing sequence; events carry no port; devices come and go at any moment; errors are only logged |
| Device manager (`devmgr.cpp`) | `devices_`, `device_context_pointers_` (DCBAA) | `Initialize`, `AllocDevice`, `LoadDCBAA`, `FindBySlot` | the array is shared with the controller; entry 0 has another owner |
| USB device (`usb/device.cpp`) | `initialize_phase_`, `class_drivers_`, `event_waiters_`, `ep_configs_` | `StartInitialize`, `InitializePhase1..3`, `OnControlCompleted`, `OnInterruptCompleted` | a chain of asynchronous requests; one driver in several entries; descriptors longer than the buffer, more endpoints than there is room for |
| HID base driver (`classdriver/hid.cpp`) | `initialize_phase_`, `buf_`, `previous_buf_`, two endpoints | `SetEndpoint`, `OnEndpointsConfigured`, `OnControlCompleted`, `OnInterruptCompleted` | one buffer, and the device writes to it by itself; short reports |
| Command and transfer rings (`ring.cpp`) | buffer, `write_index_`, `cycle_bit_` | `Initialize`, `Push` | read concurrently by hardware; ownership is one bit per entry; no test for a full ring |
| Event ring (`ring.cpp`, `ProcessEvent`) | buffer, `cycle_bit_`, ERDP | `Initialize`, `HasFront`, `Pop` | written concurrently; stale entries stay in the buffer |
| Default control pipe (`xhci/device.cpp`, `arraymap.hpp`) | `setup_stage_map_`, `event_waiters_` | `ControlIn`, `ControlOut`, `OnTransferEventReceived` | fixed size maps that drop silently; keys (ring places) used again |
| Controller start-up (`xhci.cpp`, `registers.*`) | USBCMD, USBSTS, USBLEGSUP, ring registers | `Initialize`, `RequestHCOwnership`, `Run` | five busy loops on firmware and hardware; the order of register accesses |
| Memory pool (`usb/memory.cpp`) | `alloc_ptr` | `AllocMem`, `FreeMem` | alignment and boundary arithmetic at the pool's limit; most callers do not test for null |
| Keyboard, mouse (`classdriver/`) | observers | `OnDataReceived` | reports compared with the one before |
| TRB, context and endpoint conversions | none | pure functions | index arithmetic; units that depend on the speed |
| PCI (`pci.cpp`, `main.cpp`) | `devices[]`, `num_device` | recursive scan, choice of the xHC, `read_bar` | a table of fixed size; bridges that lead in circles |
| UEFI loader (`Main.c`) | memory map, graphics device, ELF image | load, `ExitBootServices` with one retry | the map key goes stale; memory that is not the loader's |
| Console, cursor, logger (`console.cpp`, `mouse.cpp`, `logger.cpp`) | `m_buffer`, positions, frame buffer, level | `put_string`, `move_relative`, `Log` | two writers on one frame buffer |
| `fill_rect`, runtime stubs, `chap1/hello.c` | none | drawing, stubs | not hard |

How they interact: `KernelMain` finds the xHC by PCI, calls
`Controller::Initialize` and `Run`, calls `ConfigurePort` once for each
connected port, and then polls: `ProcessEvent` looks at the front of the event
ring, dispatches to one of three `OnEvent` overloads, and pops the event. The
kernel is a single thread without interrupts, so a handler runs to its end; all
concurrency is between that thread, the controller (which takes TRBs from the
rings and writes events and device contexts), the devices, the person who plugs
them in and, at the start, the firmware. A transfer event goes from the
controller object to the xHCI device, from there to `usb::Device`, and from
there to the class driver, which may push new transfers before it returns.

What makes each part correct:

* enumeration: one port at a time is addressed; completions are attributed to
  the port and phase that issued the command; no port gets two slots; no port is
  forgotten; every supported device ends up polled;
* rings: a queue; nothing is lost, doubled, reordered or read half-written;
* control pipe: a completion finds its own request and its own issuer;
* start-up: nothing is touched before the firmware lets go, reset before halt,
  or programmed before ready; and it ends;
* memory pool: blocks are disjoint, aligned, inside the pool, and it lasts;
* descriptors: the walk stays in the buffer and in the driver's array, and binds
  the right endpoints;
* reports: a press is one notification, and no report is overwritten unseen;
* PCI: all that can be reached is listed, or the scan says that it is not;
* loader: only its own memory is written and the kernel is entered complete.

`PROJECT.json` lists every component, what is covered of it, and the hazards at
the lines where they bite.

## 2. Modules

| module | models | composition |
|---|---|---|
| `XhciDriver` | enumeration, device manager, `usb::Device`, HID handshake, with controller, devices and ports | rings as sequences, justified by the next two |
| `TrbFifo` | abstract specification: a bounded queue whose entries stay readable until handled | |
| `TrbRing` | `Ring::Initialize`, `Ring::Push`, with the controller as consumer | implements `TrbFifo` |
| `EventRing` | `EventRing::Initialize`, `HasFront`, `Pop`, with the controller as producer | implements `TrbFifo` |
| `ControlPipe` | `ControlIn`, `ControlOut`, `OnTransferEventReceived`, `ArrayMap` | ring as the queue of `TrbFifo`; its load is what `XhciDriver` bounds |
| `PoolAlloc` | `Ceil` and `AllocMem` as operators, and a reference for a suitable place | used by the next two |
| `ControllerInit` | `Controller::Initialize`, `Run`, `RequestHCOwnership`, and who allocates what, at boot and for each device | on the memory pool, with the program's sizes; what precedes the initial state of `XhciDriver` |
| `UsbMemory` | `AllocMem`, `FreeMem` under any sequence of requests | what `ControllerInit` relies on, for every pool |
| `EndpointSetup` | `ConfigurationDescriptorReader`, `InitializePhase2`, `SetEndpoint`, the contexts of `ConfigureEndpoints`, the first `InterruptIn` | refines what `XhciDriver` takes for granted about an interface |
| `HidReports` | `OnInterruptCompleted`, `OnDataReceived` of keyboard and mouse, with the controller | begins where `EndpointSetup` ends |
| `PciScan` | `scan_all_bus`, the choice of the xHC, `read_bar`, `switch_ehci_to_xhci` | |
| `Loader` | `UefiMain` with the firmware | ends where `PciScan` begins |
| `XhciDriver_proofs`, `TrbRing_proofs`, `EventRing_proofs`, `ControlPipe_proofs`, `ControllerInit_proofs`, `EndpointSetup_proofs`, `HidReports_proofs`, `Loader_proofs` | theorems | extend the module they are about; those about `UsbMemory` are in `ControllerInit_proofs`, as `Pool` |

Constants are given in the `.cfg` files; no definition is replaced.
A definition `X_Something` placed before `X` is a mutated form of it, by which
`PROJECT.json` shows that a property depends on the code.

### XhciDriver

State: `port_config_phase`, `addressing_port`, `devices`, `dcbaa` are the
variables of the same names in the code; `err` is what the last handler
returned. A device is a record of what tells devices apart: the port in its
input context, the port in its device context (written by the controller, 0
until Address Device succeeds), the initialisation phase, the number of entries
of `class_drivers_`, and the HID driver's phase. `scan` is the loop variable of
the boot loop. `cmds`, `ep0`, `intr` and `events` are the rings; `portsc` is the
set of bits that are 1 in each PORTSC, with the write-one-to-clear behaviour of
its change bits and of PED, so that the masks of `port.cpp` matter.

Actions of the kernel: `ConfigurePort` (one turn of the boot loop),
`OnPortStatusChange`, `OnEnableSlotCompleted`, `OnAddressDeviceCompleted`,
`OnConfigureEndpointCompleted`, `OnTransfer` (one call of `ProcessEvent`,
everything the handler calls included) and `PollIdle`. `ResetPort` is an
operator on explicit values, as `OnEvent` calls it in the middle of other
assignments. External actions: `HcEnableSlot`, `HcAddressDevice`,
`HcConfigureEndpoint`, `HcControlTransfer`, `HcInterruptTransfer`, `Plug`,
`Unplug`.

Abstractions. A Port Status Change event is posted when the first change bit
of a port is set, which is what the driver must cope with. `Port::Reset` waits
for the reset to end, so it is one step; that a device is unplugged during that
wait is not modelled. A device is represented by how many endpoint numbers its
HID interface uses, and a supported interface is assumed to have an interrupt IN
endpoint; the descriptors are the subject of `EndpointSetup`. Slot ids beyond
`kDeviceSize` do not occur because the driver writes that number to CONFIG. A
failed command does not change the controller's state and still completes; a
failed transfer halts its endpoint. The speed of a port that lost its device is
arbitrary.

### TrbRing and EventRing

`Push` is four actions, one per store or group of stores whose order matters: words
0 to 2, word 3 (with the cycle bit), and the same for the link TRB, where the
write index and the cycle bit change. Between any two the controller may read.
Stores are taken in program order; the stores in the code are not volatile, so
this is an assumption on the compiler. The event ring has the same two-store
granularity on the controller's side, and `handling` marks the time between
`HasFront` and `Pop`, in which the event is read in place.

`Push` has no test for a full ring. Its callers' bound is the constant
`MaxOutstanding`, and `XhciDriver` states the bounds that hold
(`CommandRingBound`, `RequestMatchesPhase`, `PollOnce`). The models show
that `BufSize - 2` entries can be in use and not `BufSize - 1`, the number of
payload entries: with nothing pending the controller may still stand before the
link TRB of the last lap, and a whole further lap would store that TRB again
with the other cycle bit. For the sizes in the code: the command ring and the
transfer rings have 32 entries, so 30 may be in use, and at most
`kDeviceSize + 1` = 9 commands, 15 control requests of 2 TRBs and 1 interrupt
transfer are.

### ControlPipe

Places of TRBs in the ring stand for their addresses. `setup_stage_map` and
`event_waiters` are the tables of two `ArrayMap`s, with the code's first-match
search, `Put` that drops without a free entry, and `Delete` that only clears the
key. The guard `MayPush` is the assumption on the callers: the ring is not
overrun, and no more requests are outstanding than `setup_stage_map_` has
entries. `ControlIn` without and `ControlOut` with a data stage are never
called and not modelled.

### ControllerInit, PoolAlloc, UsbMemory

`pc` is the place in `Initialize`, `Run` and `KernelMain`; an action is the
code between two waits or allocations. USBCMD and USBSTS are sets of the bits
that are 1. A register keeps what is stored in it only while the controller is
ready, and a reset wipes all of them. The initial states are what firmware may
leave: any legacy semaphore (but not both sides owning), running, halted or on
its way to halt. A controller that was told to run and has not left the halted
state yet is excluded: the driver reads HCHalted once, and no firmware hands over
in that instant. The walk through the extended capabilities is reduced to
whether the register is found.

`AllocMem` is a function from `alloc_ptr`, the end of the pool and a request to
the pointer returned and the new `alloc_ptr`, which also moves when the request
is refused. Granularities are powers of two wherever the driver calls it, so the
masks are roundings; the models only assume that of two granularities one
divides the other. `ControllerInit` makes the allocations of `Initialize` one
by one at their places among the register accesses: `Checked` ones, after which
`Initialize` returns the error and `KernelMain` starts the controller all the
same, and the scratchpad array and buffers, about which nothing is checked
(`nulls` counts the null pointers stored). Once the controller runs, up to eight
devices go through `AddressDevice`, `NewClassDriver` and `ConfigureEndpoints` in
any interleaving; each is a handler that allocates and uses what it gets.
`undefined` is set when that is a null pointer. Sizes of objects are the ones
the structures have in the 64-bit build; `Starts` are addresses of
`memory_pool`, which is aligned to 64 bytes and not to a page.

`UsbMemory` is the pool alone under arbitrary requests, with the blocks handed
out in a variable of its own. It is there for the proofs: a record of all blocks
would tell apart every order in which devices are enumerated, so it is not part
of `ControllerInit`, whose run evaluates the same assumptions.

### EndpointSetup

A device is a sequence of interfaces with endpoints, from which the sequence
of descriptors and their lengths in bytes follow. `p` is the reader's pointer,
in bytes, to which it adds lengths as the code does; `at` is the descriptor it
points at, so that what is read there need not be looked up from the bytes.
`NextInterface` and `NextEndpoint` are the turns of the two loops of
`InitializePhase2`. A descriptor that begins in the buffer and ends behind it,
and the null pointer at its end, lead to `"undefined"`, as does a poll of
endpoint 0. So does an endpoint beyond the last entry of `ep_configs_`
(`StoreEndpoint`): the array has `ConfigEntries` entries, 16 in the program, and
is stored to without a test. `MaxEndpoints` is a bound on the devices and
independent of it. Addresses, device context indices, endpoint types and intervals are
computed as in the code, the interval in 8 bits. Maximum packet sizes and the
fixed fields of the context are left out.

### HidReports

The controller's `Transfer` writes any prefix of any report as soon as a
transfer is queued, so the driver's three steps (decode, remember, queue) are
separate actions. `image` and `travel` record what the reports said; the code
has nothing like them. The 1016 or 1021 bytes of the buffers that no transfer reaches stay 0 and are left
out; `find` looks at them too, and 0 is never looked for.

### PciScan

The machine is chosen in the initial state: which functions exist, what they
are, and which devices say that they have several functions. `ScanFunction`,
`ScanDevice` and `ScanBus` call each other as in the code and carry the table
and the error; this needs a recursive operator, so this module has no proofs.
A bridge may lead to any bus, also back. The reference is reachability of buses.

### Loader

One action per part of `UefiMain` between two calls whose order with the
firmware matters. A file is a sequence of numbered cells, memory a function to
cell numbers. Kernel images are all pairs of program headers that a linker
could produce: the first segment in memory starts at a page and holds the ELF
header, segments do not overlap, a header of another type may come first. Every
call that allocates makes the key of the memory map stale, as does the firmware
by itself. Calls whose results are not checked may lead to `"undefined"`.

## 3. Runs

| run | bounds | states | shows |
|---|---|---|---|
| `driver_faults` | 2 ports, 2 slots, 2 endpoint numbers, 2 faults | 1.4 million | whatever fails: `AddressingExclusive`, `SlotBinding`, `CommandOwner`, `CommandRingBound`, `PollOnce`, `RequestMatchesPhase`, `PhaseMonotone`; and once no more faults happen, a port that is reset and enabled gets its address and lets the next one go on (`HealthyPortReleased`) |
| `driver_served` | 3 ports, 3 slots, no faults | 0.28 million | `NoIdleWaiter`, `NoMissedPlug`, and that every supported device is eventually configured and polled |
| `driver_lost_waiter` | 3 ports, 1 fault | violation | finding 1 |
| `driver_slots_exhausted` | 2 ports, 1 slot | violation | finding 2 |
| `trb_ring` | 5 entries, 3 outstanding, 3 payloads | 18 thousand | invariants of the ring; it is a queue; nothing gets stuck |
| `event_ring` | 4 entries, 3 payloads | 8 thousand | the same for the event ring |
| `control_pipe` | ring of 8, maps of 3 and 2 | 0.5 million | every completion finds its request and its issuer |
| `controller_init` | real sizes, 7 numbers of scratchpad buffers from 0 to 32, 5 addresses of the pool, 8 devices | 0.29 million | the order of the start-up, and that it ends; the pool suffices at boot for up to 30 scratchpad buffers and for all devices for up to 10; exhaustion is noticed unless the pool's address is 1040 bytes or more past a page |
| `loader` | 6 cells of memory in pages of 2, file of 3, 2 graphics devices with 2 modes, 1 fault, 2 changes of the map | 0.24 million | no stray write, entered ready, halts only with a reason |
| `pci_scan` | 2 buses, 2 devices, 2 functions, up to 4 functions present, table of 3 | 2 million | the scan is complete or says `FULL`; the right controller at the right address |
| `endpoint_setup` | 2 interfaces of up to 3 endpoints, room for 2, buffer of 48 bytes, 2 speeds, 3 intervals | 1.48 million | the walk goes wrong for three reasons only; right interface, endpoint and period |
| `hid_reports` | 2 key slots, 3 keys, 2 modifier values, 3 motions, 3 transfers | 0.31 million | presses are neither lost nor repeated, the cursor follows, reports are not overwritten |

Why the bounds are enough. Two ports are needed for one to wait for the other,
three for two to wait at once, which is when the choice of the next one matters.
Two endpoint numbers are the least for which a HID driver is in `class_drivers_`
twice. Two faults allow an unplug with a replug and a failure of the same or of
another port. Rings of 4 or 5 entries wrap after a few steps, and their state
spaces are closed: TLC covers any number of laps. Three payloads let a
repeated, a skipped and a swapped TRB be told apart. In `control_pipe` the
number of payload places (7) is a multiple of neither length of a request, so that setup, data and
status stages reach every place, and both maps fill up. In `controller_init` the sizes, the number of
devices and of slots are the program's; the numbers of scratchpad buffers are the
two limits that the properties state, their successors, and the smallest ones. The
addresses of the pool are a page, the first place behind one, the last place
from which exhaustion must be noticed (1024 bytes past a page) and the first one
from which it need not be (1088), where it does pass unnoticed with 32 buffers,
and the last place before a page. Two pages more than the first
segment needs let a segment begin inside, at and behind a page in `loader`. In
`pci_scan` a table of 3 overflows with 4 functions, and 2 buses are enough for
a bridge to lead to itself, to its parent and to a child. In `endpoint_setup`
the shortest configurations fit the buffer and the longest do not; a single
interface of 3 endpoints fills the buffer exactly and overruns the array of 2
entries, as one of 17 endpoints (146 of 256 bytes) does in the program; the two
interfaces are supported or not in every combination; the intervals are the
least, one that every kind of endpoint may have, and the greatest, which only
full and low speed interrupt endpoints may. Three reports are a
press, what follows it and what follows that, which is all `previous_buf_` can
matter for.

Fairness. The kernel polls in an endless loop and runs a handler to its end, so
its steps are weakly fair. The controller is assumed to execute commands and
control transfers it owns and the firmware to answer a request for ownership:
the code waits for each of these without a timeout. Nothing is assumed of plugs,
unplugs, reports and failures; no strong fairness is used. `driver_served` has
no faults because the code has no recovery: after a failed Address Device the
addressing sequence stays taken.

`control_pipe` does not check for deadlock: after a failed transfer the endpoint
is halted and the kernel never restarts it, so that the pipe really stops. The
other runs without that check are of programs that end (`loader`, `pci_scan`,
`endpoint_setup`) or of a bounded number of transfers (`hid_reports`).

## 4. Findings

1. `driver_lost_waiter` (`xhci.cpp:314`). After an address is assigned the driver
   looks for a port in `kWaitingAddressed` and stops at the first. If that one's
   device is gone, `ResetPort` does nothing and reports success, and a second
   waiting port that is still connected is never looked at again, unless
   another port happens to be addressed later.
2. `driver_slots_exhausted` (`xhci.cpp:282`). Completion codes of commands are
   not read. With all slots taken, Enable Slot completes with slot 0, and the
   driver stores a device context in entry 0 of the DCBAA, which held the
   scratchpad array.

Observations, which the properties exclude by name where they concern them:

* with a host bridge of several functions `scan_all_bus` begins at function 1
  and never scans bus 0 (`pci.cpp:171`);
* without an xHC `KernelMain` reads registers through a null pointer
  (`main.cpp:122`);
* from 31 scratchpad buffers on, the pool can run out in a way that `Initialize`
  does not notice: the last buffers fail, the smaller rings still fit, and the
  controller is started with null pointers in its scratchpad array
  (`xhci.cpp:439`). `memory_pool` is aligned to 64 bytes only, so the code does
  not exclude it; `ExhaustionNoticed` says that it takes an address of the pool
  1040 bytes or more past a page, that is, as much as the rings need;
* `ep_configs_` has 16 entries (`device.hpp:86`) and is stored to without a test
  (`device.cpp:303`): a HID interface of 17 or more endpoints, well formed and
  short enough for the buffer, makes the driver write behind the array
  (`WalkSafe` names this among the causes of an undefined walk);
* a key whose code equals the previous modifier byte is taken for held, as the
  search covers the whole report (`keyboard.cpp:24`); a report of too many keys
  pushes code 1, and the keys held are pushed again after it;
* a short mouse report repeats the displacement of the report before
  (`hid.cpp:74`);
* a failed interrupt transfer ends the polling of its device (`xhci/device.cpp:305`);
* `endpoint.hpp:86` gives the period of an endpoint as 125 * 2^(interval-1)
  microseconds; on full and low speed ports the code takes the interval of an
  interrupt endpoint as milliseconds (`xhci.cpp:537`), which is what such devices
  mean (`PeriodFits`): the comment covers high speed and above only.

## 5. Proofs

All theorems hold for every value of the constants that satisfies the named
assumptions, which TLC evaluates in the runs.

`XhciDriver_proofs` (assumptions: ports, slots and endpoint numbers are positive
naturals, the fault bound is a natural). The inductive invariant is

    Inv == TypeOK /\ AddressingExclusive /\ SlotBinding

`AddressingExclusive` is inductive with the types alone: each operation that
moves a port into or out of the three busy phases also sets `addressing_port`;
`GoodPhases` states this for the values `ResetPort` works on, and lemmas show
that each operator preserves it. `SlotBinding` needs both others: when
`AddressDevice` binds a port, that port is in `kEnablingSlot`, so by
`SlotBinding` no allocated device names it, and it is in `Ports` by
`AddressingExclusive`. Results: `TypeCorrect`, `Exclusive`, `OneSlotPerPort`
and, from the same induction step, `Monotone` (`PhaseMonotone`).

The properties that count what is in flight rest on a second invariant,

    Flown == Addressing /\ Target /\ Fresh /\ \A s \in SlotIds : SlotHolds(s)

`SlotHolds(s)` ties five things together: the phase of the slot's port, the
initialisation phases of the device and of its HID driver, the queued control
requests, the queued Normal TRBs, and the events and commands of the slot that
are under way. Neither of the four properties is inductive: that a
`SetProtocol` may be outstanding depends on the port having reached
`kConfigured`, which depends on exactly one Configure Endpoint completion, and
so on back to `Enable Slot`. `Fresh` says that a slot whose Enable Slot
completion is on its way has no device yet, and slot 0 never has one that is
addressed; without it a completion could be taken for that of an older device.
`Target` says that Address Device is for a device at the addressing port. The
proof has one lemma per action, and counts with `Occurrences` (how many
elements of a sequence are in a set) and its lemmas for append, head and
disjoint union. Results: `Owner` (`CommandOwner`), `RequestsInStep`
(`RequestMatchesPhase`), `PolledOnce` (`PollOnce`) and `RingSuffices`
(`CommandRingBound`), the last by induction on the number of slots.

The third invariant, `Seen`, is about executions in which nothing was unplugged
and nothing has failed so far (`faults = 0`): then a port whose register has any
bit set, or whose phase has moved, is connected, and with that `NoIdleWaiter`
and `NoMissedPlug` are inductive. `WaitersWaitForSomeone` and `PlugsAnnounced`
state the two under `faults = 0`, which covers the run `served`
(`MaxFaults = 0`) and every other bound until the first fault. Without that
condition they are false, as the finding about lost waiters shows for the first.

`EventRing_proofs` (segment of two or more entries). `CycleInv` together with
the types (`RingInv`) is inductive: the cycle bits alone tell how far both sides are.
`EventRingIsFifo` then shows that `HcWriteControl` maps to a put, `TakeFront`
to an execution, `Pop` to a handling and every other step to a stutter.

`TrbRing_proofs` (`BufSize >= 2`, `MaxOutstanding <= BufSize - 2`). The
invariant is `RingInv`, that is `TypeOK /\ CycleInv /\ WindowInv`. `CycleInv` is not inductive
alone: that a lap ends with the controller past the old link TRB follows from
the bound in `WindowInv`. `TrbRingIsFifo` is the refinement of `TrbFifo`;
`PushControl` is the put, as the TRB becomes visible with its cycle bit,
`Fetch` the execution and `HandleCompletion` the handling.

`ControllerInit_proofs`. The assumptions on the pool are those of `UsbMemory`,
that the pool consists of whole pages (it has 32), and `BootAssumption`: the
boot's allocations with the largest gap that alignment and boundary can leave in
front of each (`Cost`), and one page lost before the scratchpad buffers, fit into
the pool. With the sizes of the program and 30 buffers that sum is 130144 of
131072 bytes. The first invariant carries along `Initialize` who owns the
controller, that nothing starts it before the reset, that nothing makes it
unready afterwards, and which registers are stored; `Owned`, `ResetHalted` and
`Programmed` follow. The second, `MemInv`, bounds `alloc_ptr` at every place of
`Initialize`, and says how much of the pool can be left behind a buffer that did
not fit. Such a buffer moves `alloc_ptr` to a page boundary less than a page in
front of the pool's end, and as the pool consists of whole pages, this end is no
further past that boundary than the pool's address is past a page (`Rest`). Each ring that is then allocated with
success takes its size of it (`Exhausted`), so if `Initialize` returns SUCCESS,
`Rest` was at least the size of them all. `PoolSuffices` (`BootFits`) and
`NoticesExhaustion` (`ExhaustionNoticed`) follow, for a pool at any address.

The last part of `ControllerInit_proofs` is about `UsbMemory` (assumptions: the pool starts anywhere above address 0, sizes are
positive, and of two granularities one divides the other). `TypeOK`, which says
that all blocks end below `alloc_ptr`, is inductive, and with it `NoOverlap`. The
rest is arithmetic that the provers do not do by themselves: lemmas on multiples,
that `Ceil` returns the least multiple not below its argument, and that the
second rounding of `Aligned` keeps the first, as the boundary is a multiple of
the alignment or divides it. From these `Placed` and `FirstFit` follow; the
latter says that AllocMem agrees with a definition that mentions no rounding.
These are statements about the pool alone; no run states them.

`HidReports_proofs` (any number of key slots, any set of keys and modifiers). The
invariant says that either the controller or the driver has the buffer, that
`previous_buf` is the report before until it is overwritten by `CopyToPrevious`,
which keys have been pushed, and where the cursor will be once the pending report
is decoded. What `OnDataReceived` pushes is a recursive function over the slots;
that it contains exactly the new keys, each once, is shown by induction on the
slots (`BoundedInduction`). Results: `ReportsKept`, `HeldOnce`, `PushesComplete`
and `CursorRight`.

`ControlPipe_proofs` (a ring of five or more entries, a `setup_stage_map_` of two
or more, an `event_waiters_` of one or more; `NoneAssumption` says that the key of
an empty entry is none of the keys that are put). Places in the ring come round,
so the proof counts them back from `write_index` (`Behind`). `QueueInv` says that
what the controller has not executed is what was pushed last, in order;
`EventInv`, that the events not handled are about TRBs further back, again in
order, of which only the last may have failed; `StageInv`, that in front of each
TRB whose event is still due (`Due`) stands the setup stage of its request, and
that neither has been written over; `MapInv`, that `setup_stage_map_` has exactly
one entry for each of these TRBs. Without the last part an entry left by a failed
transfer could be found for a later request at the same place. Since a request
is made only while fewer are due than the map has entries, one is free, by
counting. `WaiterInv` says that `event_waiters_` never holds more than the one key
class drivers use. Results: `Remember` (`RequestsRemembered`) and `Completions`
(`RightCompletion`).

`EndpointSetup_proofs` (any configuration of up to any number of interfaces and
endpoints, any buffer that holds the first descriptor, any size of `ep_configs_`,
whether the endpoints fit or not). The difficulty is that the
reader's pointer is a sum of lengths. `Walk` says that `p` is `Start(at)`, the
place in bytes of the descriptor `at`, and that this descriptor ends in the
buffer; `StepBehind` is the arithmetic behind it, from the recursive function
`Ends` that gives the end of each interface. `Searching` says that no interface up to the reader has a
driver, `Collected` that the endpoints collected are the first ones of the first
supported interface, in order, and that just their numbers are bound to its
driver, `Counted` that how many there are follows from where the reader stands,
so that the loop ends with the interface and does not go into the next one.
`Connected` is what `SetEndpoint` leaves behind, by induction on the endpoints;
`Contexts`, that each context is that of the one endpoint with its address, needs
that no address is described twice. `Ended` says for what reason a walk or a poll
was undefined; when a store goes behind `ep_configs_`, `Collected` shows that the
interface has more endpoints than the array has entries. Results: `Walks` (`WalkSafe`), `Interfaces`
(`RightInterface`), `Polls` (`PollFinds`) and, with the arithmetic of the
intervals (`PeriodOfCode`), `Periods` (`PeriodFits`).

`Loader_proofs` (any size of memory, page and file; any entry offset in the
file). `Image` says that memory is untouched until the copy, and afterwards what
`CopyLoadSegments` makes of it in the pages that were allocated; the lemmas are
about that operator and about the range that `CalcLoadAddressRange` computes for
every image. `Retry` says that the key of the second attempt is current unless
the map changed since it was read. Results: `WritesStay` (`NoStrayWrite`),
`KernelReady` (`EnteredReady`) and `HaltsWithReason` (`HaltJustified`).

The induction theorems of the library cannot be used, as they take a predicate
as a parameter. Where induction is needed, it is proved for a set in its place
(`SetInduction`, `BoundedInduction`) from the well-foundedness of the naturals,
and from it that a function defined by recursion exists (`RecursionExists`); all
inductions over data are instances of these. The lemmas that several proofs need
stand at the head of each of them.

Only model-checked: all liveness (`EveryDeviceServed`, `NothingStuck`,
`EventuallyRunning`, `HealthyPortReleased`), which is beyond the prover;
`DevicesFit`, a question about given numbers: the pool lasts for eight devices
with few bytes to spare, in whatever order they come, and the worst gaps summed
up are more than it has; `ScanComplete` and `XhcFound` of `PciScan`, whose scan
is a recursive operator.

## 6. Not modelled

The compiler's freedom to reorder stores to ring memory, and memory barriers;
bit positions in registers, TRBs and contexts; the walk through the extended
capabilities; the console, the logger, the cursor and the drawing functions,
which only put out what the rest of the kernel never reads back; the text of the
file memmap; the I/O ports behind PCI configuration space;
runtime stubs and `chap1/hello.c`, which keep no state. `DeviceManager::Remove`,
`FindByPort` and `FindByState`, and `ControlOut` with a data stage, have no
callers.

## 7. Plan

Done: the rings, enumeration, control pipe, start-up with the memory pool,
descriptors, reports, PCI and loader. Left:

1. A proof about `PciScan`, whose scan would first have to be written without
   a recursive operator.
2. A composition of `XhciDriver`'s control requests with `ControlPipe`, in place
   of the guard `MayPush`.
3. The unplug of a device while `Port::Reset` waits.
