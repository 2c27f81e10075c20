---------------------------- MODULE ControllerInit ----------------------------
(***************************************************************************)
(* The start of the xHCI controller: Controller::Initialize and Run of     *)
(* kernel/usb/xhci/xhci.cpp, with RequestHCOwnership and the initialisers  *)
(* of the rings, as KernelMain calls them.                                 *)
(*                                                                         *)
(* The driver hands over with the firmware, halts, resets and programs the *)
(* controller and starts it.  Between its register accesses the firmware   *)
(* and the controller go on by themselves, and five busy loops wait for    *)
(* them.  An action is the code between two such waits or allocations.     *)
(*                                                                         *)
(* All memory comes from the pool (PoolAlloc): first what Initialize       *)
(* needs, then, once the controller runs, what each device needs while it  *)
(* is enumerated, where devices are at different stages at the same time.  *)
(* Some allocations are checked and others are not.                        *)
(***************************************************************************)
EXTENDS PoolAlloc, Sequences

CONSTANTS
    Scratchpads,       \* possible values of max_scratchpad_buffers
    DeviceSize,        \* kDeviceSize
    RingSize,          \* entries of a ring
    PtrBytes,          \* sizeof(void*)
    TrbBytes,          \* sizeof(TRB), and of an event ring segment table entry
    RingBytes,         \* sizeof(Ring)
    DeviceBytes,       \* sizeof(xhci::Device)
    DriverBytes,       \* sizeof(HIDKeyboardDriver), HIDMouseDriver
    Endpoints,         \* possible numbers of endpoints of an interface
    EnoughForBoot,     \* scratchpad buffers for which the pool suffices at boot
    EnoughForDevices   \* ... and for all devices

Req(size, alignment, boundary) ==
    [size |-> size, alignment |-> alignment, boundary |-> boundary]

Page == 4096

(* What the driver asks for.                                               *)
DeviceArray == Req(PtrBytes * (DeviceSize + 1), 0, 0)
ContextArray == Req(PtrBytes * (DeviceSize + 1), 64, Page)
ScratchpadArray(n) == Req(PtrBytes * n, 64, Page)
ScratchpadBuffer == Req(Page, Page, Page)
RingBuffer == Req(TrbBytes * RingSize, 64, 16 * Page)
SegmentTable == Req(TrbBytes, 64, 16 * Page)
RingObject == Req(RingBytes, 64, Page)
DeviceObject == Req(DeviceBytes, 64, Page)
DriverObject == Req(DriverBytes, 0, 0)

ASSUME UseAssumption ==
    /\ PoolSize % Page = 0
    /\ Scratchpads \subseteq Nat
    /\ \A n \in Scratchpads \ {0} : ScratchpadArray(n) \in Request
    /\ {DeviceArray, ContextArray, ScratchpadBuffer, RingBuffer, SegmentTable,
        RingObject, DeviceObject, DriverObject} \subseteq Request

(* No more than this is used up by one allocation, wherever it begins: the *)
(* gap to the alignment, and to the boundary if the block would cross it.  *)
Cost(r) == r.alignment + 2 * r.size

(* EnoughForBoot scratchpad buffers leave room for the rest; they lose a   *)
(* part of one page in front of the first one.                             *)
ASSUME BootAssumption ==
    /\ {EnoughForBoot, PtrBytes} \subseteq Nat
    /\ Cost(DeviceArray) + Cost(ContextArray) + Cost(ScratchpadArray(EnoughForBoot))
         + Page * (EnoughForBoot + 1) + 2 * Cost(RingBuffer) + Cost(SegmentTable) <= PoolSize

VARIABLES
    pc,          \* where Initialize, Run or KernelMain is
    err,         \* what Initialize returned
    legacy,      \* the semaphores of USBLEGSUP
    usbcmd,      \* USBCMD, as the set of its bits that are 1
    usbsts,      \* USBSTS, likewise
    programmed,  \* registers that hold what the driver stored in them
    start,       \* the address of memory_pool
    alloc_ptr,
    buffers,     \* max_scratchpad_buffers
    left,        \* scratchpad buffers still to be allocated
    nulls,       \* null pointers stored in the scratchpad array
    stage,       \* for each stage of its enumeration, how many devices are at it
    undefined    \* a null pointer was used

hardware == <<legacy, usbcmd, usbsts, programmed>>
memory == <<start, alloc_ptr, buffers, left, nulls, stage, undefined>>
vars == <<pc, err, hardware, memory>>

-----------------------------------------------------------------------------
UsbstsBits == {"host_controller_halted", "controller_not_ready"}
Stages == {"addressed", "driver", "configured"}
Registers == {"CONFIG", "DCBAAP", "CRCR", "ERSTSZ", "ERDP", "ERSTBA", "IMAN"}

(* What the firmware leaves: the register may be missing or owned by       *)
(* either side, and the controller running, halted or about to halt.       *)
Init ==
    /\ pc = "devices"
    /\ err = "SUCCESS"
    /\ legacy \in [present : BOOLEAN, os : BOOLEAN, bios : BOOLEAN]
    /\ legacy.os => ~legacy.bios
    /\ ~legacy.present => ~legacy.os /\ ~legacy.bios
    /\ usbcmd \in SUBSET {"run_stop", "interrupter_enable"}
    /\ usbsts \in SUBSET {"host_controller_halted"}
    /\ "run_stop" \in usbcmd => usbsts = {}
    /\ programmed = {}
    /\ start \in Starts
    /\ alloc_ptr = start
    /\ buffers \in Scratchpads
    /\ left = buffers
    /\ nulls = 0
    /\ stage = [s \in Stages |-> 0]
    /\ undefined = FALSE

Halted == "host_controller_halted" \in usbsts

(* A register keeps a value only if the controller is ready to take it.    *)
Ready ==
    "controller_not_ready" \notin usbsts /\ "host_controller_reset" \notin usbcmd

Program(registers) ==
    programmed' = IF Ready THEN programmed \cup registers ELSE programmed

(* What AllocMem does with r in this state.                                *)
Allocated(r) == AllocMem(alloc_ptr, start + PoolSize, r)

(* Mutant of Checked: the result is not looked at.                         *)
Checked_Ignored(here, r, next) ==
    /\ pc = here
    /\ alloc_ptr' = Allocated(r).alloc_ptr
    /\ pc' = next
    /\ UNCHANGED <<err, start, buffers, left, nulls, stage, undefined>>

(* An allocation that is checked.  Initialize goes on, or returns the      *)
(* error, which KernelMain logs before it calls Run all the same.          *)
Checked(here, r, next) ==
    /\ pc = here
    /\ LET m == Allocated(r)
       IN  /\ alloc_ptr' = m.alloc_ptr
           /\ pc' = IF m.p = Null THEN "run" ELSE next
           /\ err' = IF m.p = Null THEN "NO_ENOUGH_MEMORY" ELSE err
    /\ UNCHANGED <<start, buffers, left, nulls, stage, undefined>>

-----------------------------------------------------------------------------
(* DeviceManager::Initialize: two arrays.  FreeMem of the first, when the  *)
(* second does not fit, does nothing.                                      *)
AllocDevices ==
    /\ Checked("devices", DeviceArray, "contexts")
    /\ UNCHANGED hardware

AllocContexts ==
    /\ Checked("contexts", ContextArray, "legacy")
    /\ UNCHANGED hardware

(* RequestHCOwnership, up to its loop.                                     *)
RequestHCOwnership ==
    /\ pc = "legacy"
    /\ IF ~legacy.present \/ legacy.os
       THEN pc' = "stop" /\ UNCHANGED legacy
       ELSE pc' = "legacy_wait" /\ legacy' = [legacy EXCEPT !.os = TRUE]
    /\ UNCHANGED <<err, usbcmd, usbsts, programmed, memory>>

(* Mutant of OwnershipGranted: the test of the firmware's semaphore left   *)
(* out of the loop.                                                        *)
OwnershipGranted_OsOnly == legacy.os

OwnershipGranted == ~legacy.bios /\ legacy.os

WaitOwnership ==
    /\ pc = "legacy_wait"
    /\ OwnershipGranted
    /\ pc' = "stop"
    /\ UNCHANGED <<err, hardware, memory>>

(* Mutant of StopBits: run_stop left alone if the controller runs.         *)
StopBits_Inverted == IF Halted THEN {"run_stop"} ELSE {}

(* The bits of USBCMD cleared besides the interrupt enables.               *)
StopBits == IF Halted THEN {} ELSE {"run_stop"}

StopController ==
    /\ pc = "stop"
    /\ usbcmd' = (usbcmd \ {"interrupter_enable"}) \ StopBits
    /\ pc' = "stop_wait"
    /\ UNCHANGED <<err, legacy, usbsts, programmed, memory>>

(* Mutant of WaitHalted: the loop left out.                                *)
WaitHalted_NoWait ==
    /\ pc = "stop_wait"
    /\ pc' = "reset"
    /\ UNCHANGED <<err, hardware, memory>>

WaitHalted ==
    /\ pc = "stop_wait"
    /\ Halted
    /\ pc' = "reset"
    /\ UNCHANGED <<err, hardware, memory>>

ResetController ==
    /\ pc = "reset"
    /\ usbcmd' = usbcmd \cup {"host_controller_reset"}
    /\ pc' = "reset_wait"
    /\ UNCHANGED <<err, legacy, usbsts, programmed, memory>>

WaitReset ==
    /\ pc = "reset_wait"
    /\ "host_controller_reset" \notin usbcmd
    /\ pc' = "ready_wait"
    /\ UNCHANGED <<err, hardware, memory>>

(* Mutant of WaitReady: the loop on controller_not_ready left out.         *)
WaitReady_NoWait ==
    /\ pc = "ready_wait"
    /\ pc' = "config"
    /\ UNCHANGED <<err, hardware, memory>>

WaitReady ==
    /\ pc = "ready_wait"
    /\ "controller_not_ready" \notin usbsts
    /\ pc' = "config"
    /\ UNCHANGED <<err, hardware, memory>>

(* CONFIG, and the number of scratchpad buffers that the controller asks   *)
(* for.                                                                    *)
Configure ==
    /\ pc = "config"
    /\ Program({"CONFIG"})
    /\ pc' = IF buffers > 0 THEN "array" ELSE "dcbaap"
    /\ UNCHANGED <<err, legacy, usbcmd, usbsts, memory>>

(* The array of pointers to scratchpad buffers is used without a test.     *)
AllocScratchpadArray ==
    /\ pc = "array"
    /\ LET m == Allocated(ScratchpadArray(buffers))
       IN  /\ alloc_ptr' = m.alloc_ptr
           /\ undefined' = (m.p = Null)
    /\ pc' = "buffer"
    /\ UNCHANGED <<err, hardware, start, buffers, left, nulls, stage>>

(* Mutant of AllocScratchpad: one buffer too many.                         *)
AllocScratchpad_OffByOne ==
    /\ pc = "buffer"
    /\ LET m == Allocated(ScratchpadBuffer)
       IN  /\ alloc_ptr' = m.alloc_ptr
           /\ nulls' = IF m.p = Null THEN nulls + 1 ELSE nulls
    /\ left' = left - 1
    /\ pc' = IF left = 0 THEN "dcbaap" ELSE pc
    /\ UNCHANGED <<err, hardware, start, buffers, stage, undefined>>

(* One turn of the loop over the scratchpad buffers; what AllocMem returns *)
(* is stored, whatever it is.                                              *)
AllocScratchpad ==
    /\ pc = "buffer"
    /\ LET m == Allocated(ScratchpadBuffer)
       IN  /\ alloc_ptr' = m.alloc_ptr
           /\ nulls' = IF m.p = Null THEN nulls + 1 ELSE nulls
    /\ left' = left - 1
    /\ pc' = IF left = 1 THEN "dcbaap" ELSE pc
    /\ UNCHANGED <<err, hardware, start, buffers, stage, undefined>>

RegisterContexts ==
    /\ pc = "dcbaap"
    /\ Program({"DCBAAP"})
    /\ pc' = "command_ring"
    /\ UNCHANGED <<err, legacy, usbcmd, usbsts, memory>>

(* The registers stored after a checked allocation, if it succeeded.       *)
ProgramIf(r, registers) ==
    /\ IF Allocated(r).p = Null THEN UNCHANGED programmed ELSE Program(registers)
    /\ UNCHANGED <<legacy, usbcmd, usbsts>>

(* Ring::Initialize of the command ring, and RegisterCommandRing.          *)
InitializeCommandRing ==
    /\ Checked("command_ring", RingBuffer, "event_ring")
    /\ ProgramIf(RingBuffer, {"CRCR"})

(* EventRing::Initialize of the primary event ring: its buffer, then its   *)
(* segment table.                                                          *)
AllocEventRing ==
    /\ Checked("event_ring", RingBuffer, "segment_table")
    /\ UNCHANGED hardware

InitializeEventRing ==
    /\ Checked("segment_table", SegmentTable, "interrupts")
    /\ ProgramIf(SegmentTable, {"ERSTSZ", "ERDP", "ERSTBA"})

EnableInterrupts ==
    /\ pc = "interrupts"
    /\ Program({"IMAN"})
    /\ usbcmd' = usbcmd \cup {"interrupter_enable"}
    /\ pc' = "run"
    /\ UNCHANGED <<err, legacy, usbsts, memory>>

(* Run, up to its loop.                                                    *)
Run ==
    /\ pc = "run"
    /\ usbcmd' = usbcmd \cup {"run_stop"}
    /\ pc' = "run_wait"
    /\ UNCHANGED <<err, legacy, usbsts, programmed, memory>>

WaitRunning ==
    /\ pc = "run_wait"
    /\ ~Halted
    /\ pc' = "running"
    /\ UNCHANGED <<err, hardware, memory>>

(* AllocMem for each of a sequence of requests.  No caller does anything   *)
(* about a null pointer but store and use it.                              *)
AllocAll(reqs) ==
    LET after[i \in 0 .. Len(reqs)] ==
          IF i = 0
          THEN [alloc_ptr |-> alloc_ptr, ok |-> TRUE]
          ELSE LET m == AllocMem(after[i - 1].alloc_ptr, start + PoolSize, reqs[i])
               IN  [alloc_ptr |-> m.alloc_ptr, ok |-> after[i - 1].ok /\ m.p # Null]
    IN  after[Len(reqs)]

(* A handler allocates, and a device moves to its next stage.  Only a      *)
(* controller with an event ring gets that far.                            *)
Unchecked(reqs, from, to) ==
    /\ pc = "running" /\ err = "SUCCESS" /\ ~undefined
    /\ from # "none" => stage[from] > 0
    /\ LET a == AllocAll(reqs)
       IN  /\ alloc_ptr' = a.alloc_ptr
           /\ undefined' = ~a.ok
    /\ stage' = [s \in Stages |->
                   CASE s = from -> stage[s] - 1
                     [] s = to   -> stage[s] + 1
                     [] OTHER    -> stage[s]]
    /\ UNCHANGED <<pc, err, hardware, start, buffers, left, nulls>>

Plugged == stage["addressed"] + stage["driver"] + stage["configured"]

(* Mutant of TransferRing: the ring takes a whole page.                    *)
TransferRing_Page == <<RingObject, ScratchpadBuffer>>

(* AllocTransferRing: the Ring object and its buffer.                      *)
TransferRing == <<RingObject, RingBuffer>>

(* AddressDevice, for a device that got one of the slots: the Device       *)
(* object and the ring of endpoint 0.                                      *)
AddressDevice ==
    /\ Plugged < DeviceSize
    /\ Unchecked(<<DeviceObject>> \o TransferRing, "none", "addressed")

(* InitializePhase2 creates the class driver of a supported interface.     *)
NewClassDriver == Unchecked(<<DriverObject>>, "addressed", "driver")

(* ConfigureEndpoints: one ring for each endpoint of the interface.        *)
ConfigureEndpoints(n) ==
    Unchecked([i \in 1 .. 2 * n |-> TransferRing[2 - (i % 2)]], "driver", "configured")

(* Another turn of a busy loop, or of KernelMain, which configures the     *)
(* ports and polls in the end (XhciDriver).                                *)
Loop ==
    /\ pc \in {"legacy_wait", "stop_wait", "reset_wait", "ready_wait", "run_wait", "running"}
    /\ UNCHANGED vars

-----------------------------------------------------------------------------
(* The firmware gives up the controller once the driver has asked for it   *)
(* (external).                                                             *)
BiosRelease ==
    /\ legacy.os
    /\ legacy.bios
    /\ legacy' = [legacy EXCEPT !.bios = FALSE]
    /\ UNCHANGED <<pc, err, usbcmd, usbsts, programmed, memory>>

(* The controller (external): it follows run_stop, and a reset puts every  *)
(* register back to its default and may take it some time to be ready.     *)
HcHalt ==
    /\ "run_stop" \notin usbcmd
    /\ ~Halted
    /\ usbsts' = usbsts \cup {"host_controller_halted"}
    /\ UNCHANGED <<pc, err, legacy, usbcmd, programmed, memory>>

HcStart ==
    /\ "run_stop" \in usbcmd
    /\ Ready
    /\ Halted
    /\ usbsts' = usbsts \ {"host_controller_halted"}
    /\ UNCHANGED <<pc, err, legacy, usbcmd, programmed, memory>>

HcReset ==
    /\ "host_controller_reset" \in usbcmd
    /\ usbcmd' = {}
    /\ usbsts' \in {{"host_controller_halted"}, UsbstsBits}
    /\ programmed' = {}
    /\ UNCHANGED <<pc, err, legacy, memory>>

HcReady ==
    /\ "controller_not_ready" \in usbsts
    /\ usbsts' = usbsts \ {"controller_not_ready"}
    /\ UNCHANGED <<pc, err, legacy, usbcmd, programmed, memory>>

Kernel ==
    \/ AllocDevices \/ AllocContexts \/ RequestHCOwnership \/ WaitOwnership
    \/ StopController \/ WaitHalted \/ ResetController \/ WaitReset \/ WaitReady
    \/ Configure \/ AllocScratchpadArray \/ AllocScratchpad \/ RegisterContexts
    \/ InitializeCommandRing \/ AllocEventRing \/ InitializeEventRing
    \/ EnableInterrupts \/ Run \/ WaitRunning

Devices ==
    \/ AddressDevice
    \/ NewClassDriver
    \/ \E n \in Endpoints : ConfigureEndpoints(n)

Hc == HcHalt \/ HcStart \/ HcReset \/ HcReady

Next == Kernel \/ Devices \/ Loop \/ BiosRelease \/ Hc

Spec == Init /\ [][Next]_vars

(* The kernel has the processor; the firmware answers, and the controller  *)
(* acts on its registers.                                                  *)
FairSpec == Spec /\ WF_vars(Kernel) /\ WF_vars(BiosRelease) /\ WF_vars(Hc)

-----------------------------------------------------------------------------
(* Where the driver does not yet touch the controller.                     *)
Claiming == {"devices", "contexts", "legacy", "legacy_wait"}

(* The driver stops, resets and programs the controller only after the     *)
(* firmware has let go of it, unless Initialize has failed before.         *)
OwnedBeforeUse ==
    legacy.present /\ err = "SUCCESS" /\ pc \notin Claiming => ~legacy.bios

(* "Host controller must be halted before resetting it": no reset is       *)
(* started on a controller that runs, whatever state firmware left it in.  *)
ResetOnlyHalted ==
    [][("host_controller_reset" \in usbcmd' \ usbcmd) => Halted]_vars

(* A controller that runs after a successful Initialize has all that the   *)
(* driver programmed: nothing was stored too early, while the controller   *)
(* was not ready or before the reset wiped it out.                         *)
RunsProgrammed ==
    pc \in {"run", "run_wait", "running"} /\ err = "SUCCESS" =>
      /\ programmed = Registers
      /\ "interrupter_enable" \in usbcmd

(* No busy loop waits forever: the controller runs in the end, and stays   *)
(* running, from whatever state the firmware left it in.                   *)
EventuallyRunning == <>[](pc = "running" /\ ~Halted)

(* With at most EnoughForBoot scratchpad buffers Initialize gets all it    *)
(* asks for, wherever the linker puts the pool: no null pointer is stored  *)
(* in the scratchpad array (xhci.cpp:439) or used, and no error returned.  *)
BootFits ==
    buffers <= EnoughForBoot =>
      /\ nulls = 0 /\ err = "SUCCESS"
      /\ undefined => pc = "running"

(* With at most EnoughForDevices scratchpad buffers the pool lasts for     *)
(* every device that has a slot, in whatever order the devices go through  *)
(* their stages: none of the unchecked allocations (devmgr.cpp:96,         *)
(* device.cpp:123, keyboard.cpp:35) returns a null pointer.                *)
DevicesFit == buffers <= EnoughForDevices => ~undefined

(* What Initialize allocates behind the scratchpad buffers, if no byte is  *)
(* lost in between.                                                        *)
RingsSize == 2 * RingBuffer.size + SegmentTable.size

(* Wherever the pool begins, Initialize returns SUCCESS with null pointers *)
(* in the scratchpad array only if the rings fit into the part of a page   *)
(* behind the last buffer, which is as long as what the pool's address is  *)
(* past a page.  From any other address the checked allocations of the     *)
(* rings (ring.cpp:27, :81, :88) report what the unchecked ones of the     *)
(* buffers (xhci.cpp:439) let pass.                                        *)
ExhaustionNoticed ==
    pc = "running" /\ err = "SUCCESS" /\ nulls > 0 => start % Page >= RingsSize
=============================================================================
