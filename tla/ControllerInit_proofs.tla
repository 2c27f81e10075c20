------------------------- MODULE ControllerInit_proofs -------------------------
(***************************************************************************)
(* The handover, the reset and the programming of the controller, whatever *)
(* firmware left, whatever the sizes of the pool and of what is allocated  *)
(* from it, and however the firmware and the controller interleave with    *)
(* the driver.                                                             *)
(*                                                                         *)
(* The properties say what holds at one place of Initialize; the invariant *)
(* carries it there: who owns the controller (Ownership), that nothing     *)
(* starts it before the reset (StaysHalted), that nothing can reset it     *)
(* once it is ready (StaysReady), and which registers have been stored so  *)
(* far (Stored).                                                           *)
(*                                                                         *)
(* The memory of the start-up comes next: how far the allocation pointer   *)
(* gets.  Last comes the pool it is taken from, UsbMemory, which keeps its *)
(* promises for every pool, every size, and all granularities of which one *)
(* divides the other.                                                      *)
(***************************************************************************)
EXTENDS ControllerInit, TLAPS

(* Places of Initialize and Run.                                           *)
BeforeReset ==
    {"devices", "contexts", "legacy", "legacy_wait", "stop", "stop_wait", "reset"}
Running == {"run", "run_wait", "running"}
Programming ==
    {"config", "array", "buffer", "dcbaap", "command_ring", "event_ring",
     "segment_table", "interrupts"}
Places == BeforeReset \cup {"reset_wait", "ready_wait"} \cup Programming \cup Running

TypeOK ==
    /\ pc \in Places
    /\ err \in {"SUCCESS", "NO_ENOUGH_MEMORY"}
    /\ legacy \in [present : BOOLEAN, os : BOOLEAN, bios : BOOLEAN]
    /\ programmed \subseteq Registers

(* The firmware keeps the controller only as long as the driver does not   *)
(* have it, except between the request and the answer.                     *)
Ownership ==
    err = "SUCCESS" =>
      /\ pc \in {"devices", "contexts", "legacy"} /\ legacy.os => ~legacy.bios
      /\ legacy.present /\ pc \notin Claiming => ~legacy.bios

(* Before the reset a halted controller is not told to run, and once it    *)
(* was told to stop nothing starts it.                                     *)
StaysHalted ==
    /\ pc \in BeforeReset /\ Halted => "run_stop" \notin usbcmd
    /\ pc \in {"stop_wait", "reset"} => "run_stop" \notin usbcmd
    /\ pc = "reset" => Halted

(* No reset is under way once one has been waited for, and the controller  *)
(* does not become unready by itself.                                      *)
StaysReady ==
    err = "SUCCESS" =>
      /\ pc \in {"ready_wait"} \cup Programming \cup Running =>
           "host_controller_reset" \notin usbcmd
      /\ pc \in Programming \cup Running => "controller_not_ready" \notin usbsts

(* The registers stored at each place.                                     *)
Stored ==
    err = "SUCCESS" =>
      /\ pc \in Programming \ {"config"} => "CONFIG" \in programmed
      /\ pc \in Programming \ {"config", "array", "buffer", "dcbaap"} => "DCBAAP" \in programmed
      /\ pc \in {"event_ring", "segment_table", "interrupts"} => "CRCR" \in programmed
      /\ pc = "interrupts" => {"ERSTSZ", "ERDP", "ERSTBA"} \subseteq programmed
      /\ pc \in Running => programmed = Registers /\ "interrupter_enable" \in usbcmd

Inv == TypeOK /\ Ownership /\ StaysHalted /\ StaysReady /\ Stored

-----------------------------------------------------------------------------
(* The checked allocations either go on or end Initialize with an error.   *)
LEMMA CheckedPlaces ==
    ASSUME NEW here, NEW r, NEW next, Checked(here, r, next)
    PROVE  /\ pc = here
           /\ \/ pc' = next /\ err' = err /\ Allocated(r).p # Null
              \/ pc' = "run" /\ err' = "NO_ENOUGH_MEMORY" /\ Allocated(r).p = Null
  BY DEF Checked

(* Storing a register.                                                     *)
LEMMA ProgramEffect ==
    ASSUME NEW R, R \subseteq Registers, programmed \subseteq Registers, Program(R)
    PROVE  /\ programmed' \subseteq Registers
           /\ programmed \subseteq programmed'
           /\ Ready => R \subseteq programmed'
  BY DEF Program

(* Whatever firmware left.                                                 *)
LEMMA InitInv == Init => Inv
  BY DEF Init, Inv, TypeOK, Places, BeforeReset, Ownership, Claiming, StaysHalted, StaysReady,
         Stored, Halted, Running, Programming

(* The allocations of DeviceManager::Initialize.                           *)
LEMMA EarlyInv == Inv /\ (AllocDevices \/ AllocContexts) => Inv'
<1> SUFFICES ASSUME Inv, AllocDevices \/ AllocContexts PROVE Inv'
  OBVIOUS
<1>1. /\ UNCHANGED <<legacy, usbcmd, usbsts, programmed>>
      /\ pc \in {"devices", "contexts"}
      /\ \/ pc' \in {"contexts", "legacy"} /\ err' = err
         \/ pc' = "run" /\ err' = "NO_ENOUGH_MEMORY"
  BY CheckedPlaces DEF AllocDevices, AllocContexts, hardware
<1> QED
  BY <1>1 DEF Inv, TypeOK, Places, BeforeReset, Ownership, Claiming, StaysHalted, StaysReady,
              Stored, Halted, Running, Programming

(* The handover, the stop and the reset.                                   *)
LEMMA ResetInv ==
    Inv /\ (\/ RequestHCOwnership \/ WaitOwnership \/ StopController \/ WaitHalted
            \/ ResetController \/ WaitReset \/ WaitReady) => Inv'
<1> SUFFICES ASSUME Inv,
                    \/ RequestHCOwnership \/ WaitOwnership \/ StopController \/ WaitHalted
                    \/ ResetController \/ WaitReset \/ WaitReady
             PROVE  Inv'
  OBVIOUS
<1> USE DEF Inv, TypeOK, Places, BeforeReset, Ownership, Claiming, StaysHalted, StaysReady,
            Stored, Halted, Running, Programming
<1>1. CASE RequestHCOwnership
  BY <1>1 DEF RequestHCOwnership
<1>2. CASE WaitOwnership
  BY <1>2 DEF WaitOwnership, OwnershipGranted, hardware
<1>3. CASE StopController
  BY <1>3 DEF StopController, StopBits
<1>4. CASE WaitHalted
  BY <1>4 DEF WaitHalted, hardware
<1>5. CASE ResetController
  BY <1>5 DEF ResetController
<1>6. CASE WaitReset
  BY <1>6 DEF WaitReset, hardware
<1>7. CASE WaitReady
  BY <1>7 DEF WaitReady, hardware
<1> QED
  BY <1>1, <1>2, <1>3, <1>4, <1>5, <1>6, <1>7


(* A register that is stored while the controller is ready stays stored.   *)
LEMMA ProgrammingInv ==
    Inv /\ (\/ Configure \/ AllocScratchpadArray \/ AllocScratchpad \/ RegisterContexts
            \/ InitializeCommandRing \/ AllocEventRing \/ InitializeEventRing
            \/ EnableInterrupts) => Inv'
<1> SUFFICES ASSUME Inv,
                    \/ Configure \/ AllocScratchpadArray \/ AllocScratchpad \/ RegisterContexts
                    \/ InitializeCommandRing \/ AllocEventRing \/ InitializeEventRing
                    \/ EnableInterrupts
             PROVE  Inv'
  OBVIOUS
<1>0. /\ TypeOK
      /\ pc \in Programming /\ err = "SUCCESS" => Ready
  BY DEF Inv, StaysReady, Ready
<1> USE DEF Inv, TypeOK, Places, BeforeReset, Ownership, Claiming, StaysHalted, StaysReady,
            Stored, Halted, Running, Programming
<1>1. CASE Configure
  <2>1. /\ programmed' \subseteq Registers /\ programmed \subseteq programmed'
        /\ Ready => "CONFIG" \in programmed'
    BY <1>0, <1>1, ProgramEffect DEF Configure, Registers
  <2> QED
    BY <1>0, <1>1, <2>1 DEF Configure
<1>2. CASE AllocScratchpadArray \/ AllocScratchpad
  BY <1>2 DEF AllocScratchpadArray, AllocScratchpad, hardware
<1>3. CASE RegisterContexts
  <2>1. /\ programmed' \subseteq Registers /\ programmed \subseteq programmed'
        /\ Ready => "DCBAAP" \in programmed'
    BY <1>0, <1>3, ProgramEffect DEF RegisterContexts, Registers
  <2> QED
    BY <1>0, <1>3, <2>1 DEF RegisterContexts
<1>4. CASE InitializeCommandRing
  <2>1. /\ pc = "command_ring"
        /\ \/ pc' = "event_ring" /\ err' = err /\ Allocated(RingBuffer).p # Null
           \/ pc' = "run" /\ err' = "NO_ENOUGH_MEMORY"
    BY <1>4, CheckedPlaces DEF InitializeCommandRing
  <2>2. /\ programmed' \subseteq Registers /\ programmed \subseteq programmed'
        /\ Ready /\ Allocated(RingBuffer).p # Null => "CRCR" \in programmed'
    BY <1>0, <1>4, ProgramEffect DEF InitializeCommandRing, ProgramIf, Registers
  <2> QED
    BY <1>0, <1>4, <2>1, <2>2 DEF InitializeCommandRing, ProgramIf
<1>5. CASE AllocEventRing
  <2>1. /\ pc = "event_ring"
        /\ \/ pc' = "segment_table" /\ err' = err
           \/ pc' = "run" /\ err' = "NO_ENOUGH_MEMORY"
    BY <1>5, CheckedPlaces DEF AllocEventRing
  <2> QED
    BY <1>5, <2>1 DEF AllocEventRing, hardware
<1>6. CASE InitializeEventRing
  <2>1. /\ pc = "segment_table"
        /\ \/ pc' = "interrupts" /\ err' = err /\ Allocated(SegmentTable).p # Null
           \/ pc' = "run" /\ err' = "NO_ENOUGH_MEMORY"
    BY <1>6, CheckedPlaces DEF InitializeEventRing
  <2>2. /\ programmed' \subseteq Registers /\ programmed \subseteq programmed'
        /\ Ready /\ Allocated(SegmentTable).p # Null =>
             {"ERSTSZ", "ERDP", "ERSTBA"} \subseteq programmed'
    BY <1>0, <1>6, ProgramEffect DEF InitializeEventRing, ProgramIf, Registers
  <2> QED
    BY <1>0, <1>6, <2>1, <2>2 DEF InitializeEventRing, ProgramIf
<1>7. CASE EnableInterrupts
  <2>1. /\ programmed' \subseteq Registers /\ programmed \subseteq programmed'
        /\ Ready => "IMAN" \in programmed'
    BY <1>0, <1>7, ProgramEffect DEF EnableInterrupts, Registers
  <2>2. err = "SUCCESS" => programmed' = Registers
    BY <1>0, <1>7, <2>1 DEF EnableInterrupts, Registers
  <2> QED
    BY <1>0, <1>7, <2>1, <2>2 DEF EnableInterrupts
<1> QED
  BY <1>1, <1>2, <1>3, <1>4, <1>5, <1>6, <1>7

(* Run, and what happens while the controller runs.                        *)
LEMMA RunningInv == Inv /\ (Run \/ WaitRunning \/ Devices \/ Loop) => Inv'
<1> SUFFICES ASSUME Inv, Run \/ WaitRunning \/ Devices \/ Loop PROVE Inv'
  OBVIOUS
<1> USE DEF Inv, TypeOK, Places, BeforeReset, Ownership, Claiming, StaysHalted, StaysReady,
            Stored, Halted, Running, Programming
<1>1. CASE Run
  BY <1>1 DEF Run
<1>2. CASE WaitRunning
  BY <1>2 DEF WaitRunning, hardware
<1>3. CASE Devices
  <2>1. UNCHANGED <<pc, err, legacy, usbcmd, usbsts, programmed>>
    BY <1>3 DEF Devices, AddressDevice, NewClassDriver, ConfigureEndpoints, Unchecked, hardware
  <2> QED
    BY <2>1
<1>4. CASE Loop
  <2>1. UNCHANGED <<pc, err, legacy, usbcmd, usbsts, programmed>>
    BY <1>4 DEF Loop, vars, hardware
  <2> QED
    BY <2>1
<1> QED
  BY <1>1, <1>2, <1>3, <1>4

(* What the firmware and the controller do by themselves.                  *)
LEMMA HardwareInv == Inv /\ (BiosRelease \/ Hc) => Inv'
<1> SUFFICES ASSUME Inv, BiosRelease \/ Hc PROVE Inv'
  OBVIOUS
<1> USE DEF Inv, TypeOK, Places, BeforeReset, Ownership, Claiming, StaysHalted, StaysReady,
            Stored, Halted, Running, Programming
<1>1. CASE BiosRelease
  BY <1>1 DEF BiosRelease
<1>2. CASE HcHalt
  BY <1>2 DEF HcHalt
<1>3. CASE HcStart
  BY <1>3 DEF HcStart
<1>4. CASE HcReset
  BY <1>4 DEF HcReset, UsbstsBits
<1>5. CASE HcReady
  BY <1>5 DEF HcReady
<1> QED
  BY <1>1, <1>2, <1>3, <1>4, <1>5 DEF Hc

(* Every step keeps the invariant.                                         *)
LEMMA NextInv == Inv /\ [Next]_vars => Inv'
<1>1. Inv /\ UNCHANGED vars => Inv'
  BY DEF vars, hardware, Inv, TypeOK, Ownership, StaysHalted, StaysReady, Stored, Halted
<1> QED
  BY <1>1, EarlyInv, ResetInv, ProgrammingInv, RunningInv, HardwareInv DEF Next, Kernel

(* Every reachable state satisfies the first invariant.                    *)
LEMMA InvHolds == Spec => []Inv
  BY InitInv, NextInv, PTL DEF Spec

-----------------------------------------------------------------------------
(* Controller::Initialize touches the controller only after the firmware   *)
(* has let go of it, unless it has failed before.                          *)
THEOREM Owned == Spec => []OwnedBeforeUse
<1>1. Inv => OwnedBeforeUse
  BY DEF Inv, Ownership, OwnedBeforeUse
<1> QED
  BY <1>1, InvHolds, PTL

(* A controller that Run starts after a successful Initialize holds all    *)
(* that Initialize stored: nothing was stored while the controller was not *)
(* ready or before its reset.                                              *)
THEOREM Programmed == Spec => []RunsProgrammed
<1>1. Inv => RunsProgrammed
  BY DEF Inv, Stored, Running, RunsProgrammed
<1> QED
  BY <1>1, InvHolds, PTL

(* Initialize sets host_controller_reset only on a halted controller,      *)
(* whatever state firmware left it in.                                     *)
THEOREM ResetHalted == Spec => ResetOnlyHalted
<1>1. Inv /\ [Next]_vars => [("host_controller_reset" \in usbcmd' \ usbcmd) => Halted]_vars
  <2> SUFFICES ASSUME Inv, Next, "host_controller_reset" \in usbcmd' \ usbcmd PROVE Halted
    OBVIOUS
  <2>1. ResetController
    <3>1. CASE Kernel
      BY <3>1 DEF Kernel, AllocDevices, AllocContexts, RequestHCOwnership, WaitOwnership,
                  StopController, WaitHalted, WaitReset, WaitReady, Configure,
                  AllocScratchpadArray, AllocScratchpad, RegisterContexts,
                  InitializeCommandRing, AllocEventRing, InitializeEventRing, ProgramIf,
                  EnableInterrupts, Run, WaitRunning, hardware
    <3>2. CASE Devices \/ Loop
      BY <3>2 DEF Devices, AddressDevice, NewClassDriver, ConfigureEndpoints, Unchecked, Loop,
                  vars, hardware
    <3>3. CASE BiosRelease \/ Hc
      BY <3>3 DEF BiosRelease, Hc, HcHalt, HcStart, HcReset, HcReady
    <3> QED
      BY <3>1, <3>2, <3>3 DEF Next
  <2> QED
    BY <2>1 DEF ResetController, Inv, StaysHalted
<1> QED
  BY <1>1, InvHolds, PTL DEF Spec, ResetOnlyHalted


-----------------------------------------------------------------------------
(* One allocation.                                                         *)

(* The fields of a request.                                                *)
LEMMA RequestTypes ==
    ASSUME NEW r \in Request
    PROVE  /\ r.size \in Nat \ {0} /\ r.alignment \in Nat /\ r.boundary \in Nat
           /\ r.alignment \in Granularity /\ r.boundary \in Granularity
  BY PoolAssumption DEF Request

(* Rounding up.                                                            *)
LEMMA CeilBounds ==
    ASSUME NEW v \in Nat, NEW a \in Nat \ {0}
    PROVE  Ceil(v, a) \in Nat /\ Ceil(v, a) >= v /\ Ceil(v, a) < v + a
<1> DEFINE k == (v + a - 1) \div a
<1>1. k \in Nat /\ Ceil(v, a) = k * a
  BY DEF Ceil
<1>2. k * a \in Nat /\ k * a >= v /\ k * a < v + a
  OBVIOUS
<1> HIDE DEF k
<1> QED
  BY <1>1, <1>2

(* Where alloc_ptr gets.                                                   *)
LEMMA AlignedBounds ==
    ASSUME NEW ptr \in Nat, NEW r \in Request
    PROVE  /\ Aligned(ptr, r) \in Nat
           /\ Aligned(ptr, r) >= ptr
           /\ Aligned(ptr, r) <= ptr + r.alignment + r.size
<1>0. r.size \in Nat \ {0} /\ r.alignment \in Nat /\ r.boundary \in Nat
  BY RequestTypes
<1> DEFINE p == IF r.alignment > 0 THEN Ceil(ptr, r.alignment) ELSE ptr
<1>1. p \in Nat /\ p >= ptr /\ p <= ptr + r.alignment
  <2>1. CASE r.alignment > 0
    <3>0. r.alignment \in Nat \ {0}
      BY <1>0, <2>1
    <3>1. /\ Ceil(ptr, r.alignment) \in Nat /\ Ceil(ptr, r.alignment) >= ptr
          /\ Ceil(ptr, r.alignment) < ptr + r.alignment
      BY <3>0, CeilBounds, Zenon
    <3> QED
      BY <1>0, <2>1, <3>1
  <2>2. CASE ~(r.alignment > 0)
    BY <1>0, <2>2
  <2> QED
    BY <2>1, <2>2
<1> HIDE DEF p
<1>2. r.boundary > 0 => Ceil(p, r.boundary) \in Nat /\ Ceil(p, r.boundary) >= p
  <2>1. r.boundary > 0 => r.boundary \in Nat \ {0}
    BY <1>0
  <2> QED
    BY <1>1, <2>1, CeilBounds, Zenon
<1>3. Aligned(ptr, r) = IF r.boundary > 0 /\ Ceil(p, r.boundary) < p + r.size
                        THEN Ceil(p, r.boundary) ELSE p
  BY DEF Aligned, p
<1> QED
  BY <1>0, <1>1, <1>2, <1>3

(* What AllocMem returns.                                                  *)
LEMMA AllocMemBounds ==
    ASSUME NEW ptr \in Nat \ {0}, NEW end \in Nat, NEW r \in Request,
           NEW m, m = AllocMem(ptr, end, r)
    PROVE  /\ m.alloc_ptr \in Nat \ {0} /\ m.alloc_ptr >= ptr
           /\ m.alloc_ptr <= ptr + Cost(r)
           /\ Cost(r) \in Nat
           /\ ptr >= end => m.p = Null
           /\ ptr + Cost(r) <= end => m.p # Null
           /\ m.p = Null => m.alloc_ptr = Aligned(ptr, r) /\ end < m.alloc_ptr + r.size
           /\ m.p # Null => /\ m.alloc_ptr = Aligned(ptr, r) + r.size
                            /\ ptr + r.size <= m.alloc_ptr /\ m.alloc_ptr <= end
<1>0. r.size \in Nat \ {0} /\ r.alignment \in Nat /\ r.boundary \in Nat
  BY RequestTypes
<1> DEFINE p == Aligned(ptr, r)
<1>1. p \in Nat /\ p >= ptr /\ p <= ptr + r.alignment + r.size
  BY AlignedBounds
<1>2. m = IF end < p + r.size THEN [p |-> Null, alloc_ptr |-> p]
                              ELSE [p |-> p, alloc_ptr |-> p + r.size]
  BY DEF AllocMem
<1> HIDE DEF p
<1>3. m.p = Null <=> end < p + r.size
  BY <1>0, <1>1, <1>2 DEF Null
<1>4. m.alloc_ptr = IF end < p + r.size THEN p ELSE p + r.size
  BY <1>2
<1> QED
  BY <1>0, <1>1, <1>3, <1>4 DEF Cost, p

(* A scratchpad buffer begins at a page.                                   *)
LEMMA PageAligned ==
    ASSUME NEW ptr \in Nat
    PROVE  LET p == Aligned(ptr, ScratchpadBuffer)
           IN  /\ p \in Nat /\ p % Page = 0 /\ p < ptr + Page
               /\ ptr % Page = 0 => p = ptr
<1> DEFINE c == Ceil(ptr, Page)
<1>1. c \in Nat /\ c >= ptr /\ c < ptr + Page /\ c % Page = 0
  BY DEF Ceil, Page
<1>2. ptr % Page = 0 => c = ptr
  BY DEF Ceil, Page
<1> HIDE DEF c
<1>3. Ceil(c, Page) = c
  BY <1>1 DEF Ceil, Page
<1>4. Aligned(ptr, ScratchpadBuffer) = c
  BY <1>1, <1>3 DEF Aligned, ScratchpadBuffer, Req, Page, c
<1> QED
  BY <1>1, <1>2, <1>4

-----------------------------------------------------------------------------
(* How far alloc_ptr gets if no more than EnoughForBoot buffers are asked  *)
(* for: after the arrays of the device manager, the array of scratchpad    *)
(* pointers, the buffers, and the rings.                                   *)
AfterDevices == Cost(DeviceArray)
AfterContexts == AfterDevices + Cost(ContextArray)
AfterArray == AfterContexts + Cost(ScratchpadArray(EnoughForBoot))
AfterBuffers == AfterArray + Page * (EnoughForBoot + 1)
AfterCommandRing == AfterBuffers + Cost(RingBuffer)
AfterEventRing == AfterCommandRing + Cost(RingBuffer)

(* The places where no buffer has been allocated yet.                      *)
NoBuffers ==
    (BeforeReset \ {"devices", "contexts"}) \cup {"reset_wait", "ready_wait", "config", "array"}

MemoryOK ==
    /\ start \in Nat \ {0}
    /\ buffers \in Scratchpads
    /\ nulls \in Nat
    /\ pc \notin Running => alloc_ptr \in Nat \ {0} /\ err = "SUCCESS"
    /\ pc \in {"devices", "contexts"} \cup NoBuffers => left = buffers
    /\ pc \in {"array", "buffer"} => buffers > 0
    /\ pc = "buffer" => left \in 1..buffers

(* What the pool's address is past a page, and so is its end.              *)
Rest == start % Page

(* Behind a buffer that did not fit there is no more than Rest, of which   *)
(* the rings take their part one after the other.                          *)
Exhausted ==
    /\ pc \in {"devices", "contexts"} \cup NoBuffers => nulls = 0
    /\ nulls > 0 /\ err = "SUCCESS" =>
         /\ pc \in {"buffer", "dcbaap", "command_ring"} => start + PoolSize <= alloc_ptr + Rest
         /\ pc = "event_ring" => start + PoolSize + RingBuffer.size <= alloc_ptr + Rest
         /\ pc = "segment_table" => start + PoolSize + 2 * RingBuffer.size <= alloc_ptr + Rest
         /\ pc \in {"interrupts"} \cup Running => RingsSize <= Rest

(* The first buffer is the only one in front of which memory is lost.      *)
Boot ==
    buffers <= EnoughForBoot =>
      /\ err = "SUCCESS"
      /\ nulls = 0
      /\ undefined => pc = "running"
      /\ pc = "devices" => alloc_ptr <= start
      /\ pc = "contexts" => alloc_ptr <= start + AfterDevices
      /\ pc \in NoBuffers => alloc_ptr <= start + AfterContexts
      /\ pc = "buffer" =>
           \/ left = buffers /\ alloc_ptr <= start + AfterArray
           \/ /\ alloc_ptr % Page = 0
              /\ alloc_ptr <= start + AfterArray + Page * (1 + buffers - left)
      /\ pc \in {"dcbaap", "command_ring"} => alloc_ptr <= start + AfterBuffers
      /\ pc = "event_ring" => alloc_ptr <= start + AfterCommandRing
      /\ pc = "segment_table" => alloc_ptr <= start + AfterEventRing

MemInv == MemoryOK /\ Exhausted /\ Boot

-----------------------------------------------------------------------------
(* What the assumptions say of the requests and the bounds.                *)
LEMMA BootRequests ==
    /\ {DeviceArray, ContextArray, ScratchpadBuffer, RingBuffer, SegmentTable} \subseteq Request
    /\ {Cost(DeviceArray), Cost(ContextArray), Cost(RingBuffer), Cost(SegmentTable),
         Cost(ScratchpadArray(EnoughForBoot)), EnoughForBoot, PoolSize} \subseteq Nat
    /\ \A n \in Scratchpads \ {0} : ScratchpadArray(n) \in Request
    /\ Scratchpads \subseteq Nat
<1>1. /\ {DeviceArray, ContextArray, ScratchpadBuffer, RingBuffer, SegmentTable} \subseteq Request
      /\ \A n \in Scratchpads \ {0} : ScratchpadArray(n) \in Request
      /\ Scratchpads \subseteq Nat
  BY UseAssumption
<1>2. ASSUME NEW r \in Request PROVE Cost(r) \in Nat
  <2>1. r.size \in Nat /\ r.alignment \in Nat
    BY RequestTypes
  <2> QED
    BY <2>1 DEF Cost
<1>3. Cost(ScratchpadArray(EnoughForBoot)) \in Nat
  BY BootAssumption DEF Cost, ScratchpadArray, Req
<1> QED
  BY <1>1, <1>2, <1>3, BootAssumption, PoolAssumption

(* The bytes that Exhausted counts.                                        *)
LEMMA RestBounds ==
    /\ start \in Nat => Rest \in Nat
    /\ RingBuffer.size \in Nat /\ SegmentTable.size \in Nat
    /\ RingsSize = 2 * RingBuffer.size + SegmentTable.size
  BY BootRequests, RequestTypes DEF Rest, Page, RingsSize

(* What the allocations of the boot have taken of the pool after each of   *)
(* them; the last one still fits.                                          *)
LEMMA BootBounds ==
    /\ {AfterDevices, AfterContexts, AfterArray, AfterBuffers, AfterCommandRing,
         AfterEventRing} \subseteq Nat
    /\ AfterContexts = AfterDevices + Cost(ContextArray)
    /\ AfterArray = AfterContexts + Cost(ScratchpadArray(EnoughForBoot))
    /\ AfterBuffers = AfterArray + 4096 * (EnoughForBoot + 1)
    /\ AfterCommandRing = AfterBuffers + Cost(RingBuffer)
    /\ AfterEventRing = AfterCommandRing + Cost(RingBuffer)
    /\ AfterEventRing + Cost(SegmentTable) <= PoolSize
  BY BootRequests, BootAssumption
     DEF AfterDevices, AfterContexts, AfterArray, AfterBuffers, AfterCommandRing, AfterEventRing, Page

(* Fewer buffers need a smaller array.                                     *)
LEMMA ArrayCost ==
    ASSUME NEW n \in Nat, n <= EnoughForBoot
    PROVE  Cost(ScratchpadArray(n)) <= Cost(ScratchpadArray(EnoughForBoot))
<1>1. PtrBytes \in Nat /\ EnoughForBoot \in Nat
  BY BootAssumption
<1>2. PICK d \in Nat : EnoughForBoot = n + d
  BY <1>1
<1>3. PtrBytes * (n + d) = PtrBytes * n + PtrBytes * d /\ PtrBytes * d \in Nat /\ PtrBytes * n \in Nat
  BY <1>1
<1> QED
  BY <1>2, <1>3 DEF Cost, ScratchpadArray, Req

(* A checked allocation.                                                   *)
LEMMA CheckedMemory ==
    ASSUME NEW here, here \notin Running, NEW r \in Request, NEW next,
           MemoryOK, Checked(here, r, next)
    PROVE  /\ pc = here
           /\ UNCHANGED <<start, buffers, left, nulls, undefined>>
           /\ alloc_ptr' \in Nat \ {0} /\ alloc_ptr' <= alloc_ptr + Cost(r)
           /\ \/ /\ pc' = next /\ err' = err
                 /\ alloc_ptr + r.size <= alloc_ptr' /\ alloc_ptr' <= start + PoolSize
              \/ /\ pc' = "run" /\ err' = "NO_ENOUGH_MEMORY"
                 /\ alloc_ptr + Cost(r) > start + PoolSize
<1> DEFINE m == Allocated(r)
<1>1. pc = here /\ alloc_ptr \in Nat \ {0} /\ start + PoolSize \in Nat
  BY PoolAssumption DEF Checked, MemoryOK
<1>2. m = AllocMem(alloc_ptr, start + PoolSize, r)
  BY DEF Allocated
<1>3. /\ alloc_ptr' = m.alloc_ptr
      /\ pc' = IF m.p = Null THEN "run" ELSE next
      /\ err' = IF m.p = Null THEN "NO_ENOUGH_MEMORY" ELSE err
      /\ UNCHANGED <<start, buffers, left, nulls, undefined>>
  BY DEF Checked
<1> HIDE DEF m
<1>4. /\ m.alloc_ptr \in Nat \ {0} /\ m.alloc_ptr >= alloc_ptr
      /\ m.alloc_ptr <= alloc_ptr + Cost(r)
      /\ Cost(r) \in Nat
      /\ m.p # Null => alloc_ptr + r.size <= m.alloc_ptr /\ m.alloc_ptr <= start + PoolSize
      /\ alloc_ptr + Cost(r) <= start + PoolSize => m.p # Null
  BY <1>1, <1>2, AllocMemBounds
<1>5. CASE m.p = Null
  BY <1>1, <1>3, <1>4, <1>5
<1>6. CASE m.p # Null
  BY <1>1, <1>3, <1>4, <1>6
<1> QED
  BY <1>5, <1>6

(* The second invariant holds initially.                                   *)
LEMMA InitMem == Init => MemInv
  BY PoolAssumption, BootRequests
     DEF Init, MemInv, MemoryOK, Exhausted, Boot, Running, NoBuffers, BeforeReset

(* A checked allocation goes on with more memory used, or fails for want   *)
(* of it.                                                                  *)
LEMMA CheckedMem ==
    MemInv /\ (\/ AllocDevices \/ AllocContexts \/ InitializeCommandRing \/ AllocEventRing
               \/ InitializeEventRing) => MemInv'
<1> SUFFICES ASSUME MemInv,
                    \/ AllocDevices \/ AllocContexts \/ InitializeCommandRing \/ AllocEventRing
                    \/ InitializeEventRing
             PROVE  MemInv'
  OBVIOUS
<1>0. MemoryOK /\ start \in Nat \ {0} /\ buffers \in Nat /\ Rest \in Nat
  BY BootRequests, RestBounds DEF MemInv, MemoryOK
<1> USE BootRequests, BootBounds, RestBounds
    DEF MemInv, MemoryOK, Exhausted, Boot, Running, NoBuffers, BeforeReset
<1>1. CASE AllocDevices
  <2>1. /\ pc = "devices" /\ UNCHANGED <<start, buffers, left, nulls, undefined>>
        /\ alloc_ptr' \in Nat \ {0} /\ alloc_ptr' <= alloc_ptr + Cost(DeviceArray)
        /\ \/ pc' = "contexts" /\ err' = err
           \/ /\ pc' = "run" /\ err' = "NO_ENOUGH_MEMORY"
              /\ alloc_ptr + Cost(DeviceArray) > start + PoolSize
    BY <1>0, <1>1, CheckedMemory DEF AllocDevices
  <2> QED
    BY <1>0, <2>1 DEF AfterDevices
<1>2. CASE AllocContexts
  <2>1. /\ pc = "contexts" /\ UNCHANGED <<start, buffers, left, nulls, undefined>>
        /\ alloc_ptr' \in Nat \ {0} /\ alloc_ptr' <= alloc_ptr + Cost(ContextArray)
        /\ \/ pc' = "legacy" /\ err' = err
           \/ /\ pc' = "run" /\ err' = "NO_ENOUGH_MEMORY"
              /\ alloc_ptr + Cost(ContextArray) > start + PoolSize
    BY <1>0, <1>2, CheckedMemory DEF AllocContexts
  <2> QED
    BY <1>0, <2>1
<1>3. CASE InitializeCommandRing
  <2>1. /\ pc = "command_ring" /\ UNCHANGED <<start, buffers, left, nulls, undefined>>
        /\ alloc_ptr' \in Nat \ {0} /\ alloc_ptr' <= alloc_ptr + Cost(RingBuffer)
        /\ \/ /\ pc' = "event_ring" /\ err' = err
              /\ alloc_ptr + RingBuffer.size <= alloc_ptr' /\ alloc_ptr' <= start + PoolSize
           \/ /\ pc' = "run" /\ err' = "NO_ENOUGH_MEMORY"
              /\ alloc_ptr + Cost(RingBuffer) > start + PoolSize
    BY <1>0, <1>3, CheckedMemory DEF InitializeCommandRing
  <2>2. Rest' = Rest
    BY <2>1 DEF Rest
  <2> QED
    BY <1>0, <2>1, <2>2
<1>4. CASE AllocEventRing
  <2>1. /\ pc = "event_ring" /\ UNCHANGED <<start, buffers, left, nulls, undefined>>
        /\ alloc_ptr' \in Nat \ {0} /\ alloc_ptr' <= alloc_ptr + Cost(RingBuffer)
        /\ \/ /\ pc' = "segment_table" /\ err' = err
              /\ alloc_ptr + RingBuffer.size <= alloc_ptr' /\ alloc_ptr' <= start + PoolSize
           \/ /\ pc' = "run" /\ err' = "NO_ENOUGH_MEMORY"
              /\ alloc_ptr + Cost(RingBuffer) > start + PoolSize
    BY <1>0, <1>4, CheckedMemory DEF AllocEventRing
  <2>2. Rest' = Rest
    BY <2>1 DEF Rest
  <2> QED
    BY <1>0, <2>1, <2>2
<1>5. CASE InitializeEventRing
  <2>1. /\ pc = "segment_table" /\ UNCHANGED <<start, buffers, left, nulls, undefined>>
        /\ alloc_ptr' \in Nat \ {0} /\ alloc_ptr' <= alloc_ptr + Cost(SegmentTable)
        /\ \/ /\ pc' = "interrupts" /\ err' = err
              /\ alloc_ptr + SegmentTable.size <= alloc_ptr' /\ alloc_ptr' <= start + PoolSize
           \/ /\ pc' = "run" /\ err' = "NO_ENOUGH_MEMORY"
              /\ alloc_ptr + Cost(SegmentTable) > start + PoolSize
    BY <1>0, <1>5, CheckedMemory DEF InitializeEventRing
  <2>2. Rest' = Rest
    BY <2>1 DEF Rest
  <2> QED
    BY <1>0, <2>1, <2>2
<1> QED
  BY <1>1, <1>2, <1>3, <1>4, <1>5

(* The array of scratchpad pointers.                                       *)
LEMMA ArrayMem == MemInv /\ AllocScratchpadArray => MemInv'
<1> SUFFICES ASSUME MemInv, AllocScratchpadArray PROVE MemInv'
  OBVIOUS
<1> DEFINE r == ScratchpadArray(buffers)
           m == Allocated(r)
<1>1. /\ pc = "array" /\ pc' = "buffer"
      /\ UNCHANGED <<err, start, buffers, left, nulls>>
      /\ alloc_ptr' = m.alloc_ptr /\ undefined' = (m.p = Null)
  BY DEF AllocScratchpadArray
<1>2. /\ alloc_ptr \in Nat \ {0} /\ start + PoolSize \in Nat /\ start \in Nat \ {0}
      /\ buffers \in Nat \ {0} /\ left = buffers /\ buffers \in Scratchpads /\ nulls \in Nat
      /\ err = "SUCCESS"
  BY <1>1, BootRequests DEF MemInv, MemoryOK, Running, NoBuffers
<1>3. r \in Request
  BY <1>2, BootRequests
<1>4. buffers <= EnoughForBoot => Cost(r) <= Cost(ScratchpadArray(EnoughForBoot))
  BY <1>2, ArrayCost
<1>5. m = AllocMem(alloc_ptr, start + PoolSize, r)
  BY DEF Allocated
<1> HIDE DEF m, r
<1>6. /\ m.alloc_ptr \in Nat \ {0} /\ m.alloc_ptr <= alloc_ptr + Cost(r) /\ Cost(r) \in Nat
      /\ alloc_ptr + Cost(r) <= start + PoolSize => m.p # Null
  BY <1>2, <1>3, <1>5, AllocMemBounds
<1>7. ASSUME buffers <= EnoughForBoot
      PROVE  m.p # Null /\ m.alloc_ptr <= start + AfterArray
  <2>1. alloc_ptr <= start + AfterContexts
    BY <1>1, <1>7 DEF MemInv, Boot, NoBuffers
  <2> QED
    BY <1>2, <1>4, <1>6, <1>7, <2>1, BootRequests, BootBounds
<1>8. MemoryOK'
  BY <1>1, <1>2, <1>6 DEF MemoryOK, Running, NoBuffers, BeforeReset
<1>9. Exhausted'
  <2>1. nulls' = 0 /\ pc' = "buffer"
    BY <1>1 DEF MemInv, Exhausted, NoBuffers
  <2> QED
    BY <2>1 DEF Exhausted, NoBuffers, BeforeReset, Running
<1>10. Boot'
  <2> SUFFICES ASSUME buffers <= EnoughForBoot PROVE Boot'
    BY <1>1 DEF Boot
  <2>1. ~undefined'
    BY <1>1, <1>7
  <2>2. /\ err' = "SUCCESS" /\ nulls' = 0 /\ pc' = "buffer" /\ left' = buffers'
        /\ alloc_ptr' <= start' + AfterArray
    BY <1>1, <1>2, <1>7 DEF MemInv, Boot
  <2> QED
    BY <2>1, <2>2 DEF Boot, NoBuffers, BeforeReset
<1> QED
  BY <1>8, <1>9, <1>10 DEF MemInv

(* One scratchpad buffer: if it does not fit, nothing fits any more, and   *)
(* if the buffers are few it fits.                                         *)
LEMMA BufferMem == MemInv /\ AllocScratchpad => MemInv'
<1> SUFFICES ASSUME MemInv, AllocScratchpad PROVE MemInv'
  OBVIOUS
<1> DEFINE m == Allocated(ScratchpadBuffer)
           p == Aligned(alloc_ptr, ScratchpadBuffer)
           end == start + PoolSize
<1>1. /\ pc = "buffer" /\ pc' = (IF left = 1 THEN "dcbaap" ELSE pc)
      /\ left' = left - 1
      /\ UNCHANGED <<err, start, buffers, undefined>>
      /\ alloc_ptr' = m.alloc_ptr /\ nulls' = IF m.p = Null THEN nulls + 1 ELSE nulls
  BY DEF AllocScratchpad
<1>2. /\ alloc_ptr \in Nat \ {0} /\ end \in Nat /\ start \in Nat \ {0} /\ nulls \in Nat
      /\ buffers \in Nat \ {0} /\ left \in 1..buffers /\ buffers \in Scratchpads
      /\ err = "SUCCESS"
  BY <1>1, BootRequests DEF MemInv, MemoryOK, Running
<1>3. ScratchpadBuffer \in Request /\ ScratchpadBuffer.size = 4096
  BY BootRequests DEF ScratchpadBuffer, Req, Page
<1>4. m = AllocMem(alloc_ptr, end, ScratchpadBuffer)
  BY DEF Allocated
<1> HIDE DEF m
<1>5. /\ m.alloc_ptr \in Nat \ {0} /\ m.alloc_ptr >= alloc_ptr
      /\ m.p = Null => m.alloc_ptr = p /\ end < p + 4096
      /\ m.p # Null => m.alloc_ptr = p + 4096
  <2>1. /\ m.alloc_ptr \in Nat \ {0} /\ m.alloc_ptr >= alloc_ptr
        /\ m.p = Null => m.alloc_ptr = p /\ end < m.alloc_ptr + ScratchpadBuffer.size
        /\ m.p # Null => m.alloc_ptr = p + ScratchpadBuffer.size
    <3>1. alloc_ptr \in Nat \ {0} /\ end \in Nat
      BY <1>2
    <3> HIDE DEF end
    <3> QED
      BY <1>3, <1>4, <3>1, AllocMemBounds
  <2> QED
    BY <1>3, <2>1
<1>6. p \in Nat /\ p % 4096 = 0 /\ p < alloc_ptr + 4096 /\ (alloc_ptr % 4096 = 0 => p = alloc_ptr)
  <2>1. p \in Nat /\ p % Page = 0 /\ p < alloc_ptr + Page /\ (alloc_ptr % Page = 0 => p = alloc_ptr)
    BY <1>2, PageAligned, Zenon
  <2> QED
    BY <2>1 DEF Page
<1>7. m.p = Null => end < p + 4096
  BY <1>5
<1> HIDE DEF p
<1>8. MemoryOK'
  BY <1>1, <1>2, <1>5 DEF MemoryOK, Running, NoBuffers, BeforeReset
<1>9. Exhausted'
  <2>0. Rest \in Nat /\ Rest' = Rest
    BY <1>1, <1>2, RestBounds DEF Rest
  <2>1. ASSUME m.p = Null PROVE end <= p + Rest
    <3>1. CASE end <= p
      BY <1>2, <1>6, <2>0, <3>1
    <3>2. CASE end > p
      <4>1. end % 4096 = start % 4096
        BY <1>2, UseAssumption, PoolAssumption DEF Page
      <4>2. end % 4096 = end - p
        BY <1>2, <1>6, <1>7, <2>1, <3>2
      <4> QED
        BY <1>2, <1>6, <4>1, <4>2 DEF Rest, Page
    <3> QED
      BY <1>2, <1>6, <3>1, <3>2
  <2> HIDE DEF end
  <2>2. nulls > 0 => end <= alloc_ptr + Rest
    BY <1>1, <1>2 DEF MemInv, Exhausted, end
  <2>3. nulls' > 0 => end <= alloc_ptr' + Rest
    BY <1>1, <1>2, <1>5, <1>6, <2>0, <2>1, <2>2
  <2>4. pc' \in {"buffer", "dcbaap"} /\ end = start' + PoolSize
    BY <1>1 DEF end
  <2> QED
    BY <2>0, <2>3, <2>4 DEF Exhausted, NoBuffers, BeforeReset, Running
<1>10. Boot'
  <2> SUFFICES ASSUME buffers <= EnoughForBoot PROVE Boot'
    BY <1>1 DEF Boot
  <2>1. /\ err = "SUCCESS" /\ nulls = 0 /\ ~undefined
        /\ \/ left = buffers /\ alloc_ptr <= start + AfterArray
           \/ /\ alloc_ptr % 4096 = 0
              /\ alloc_ptr <= start + AfterArray + 4096 * (1 + buffers - left)
    BY <1>1 DEF MemInv, Boot, Page
  <2>2. p <= start + AfterArray + 4096 * (1 + buffers - left)
    BY <1>2, <1>6, <2>1, BootBounds
  <2>3. p + 4096 <= start + AfterArray + 4096 * (1 + buffers - left')
    BY <1>1, <1>2, <1>6, <2>2, BootBounds
  <2>4. p + 4096 <= start + AfterBuffers /\ start + AfterBuffers <= end
    BY <1>1, <1>2, <1>6, <2>3, BootBounds, BootRequests
  <2>5. m.p # Null
    BY <1>2, <1>6, <1>7, <2>4, BootBounds
  <2>6. alloc_ptr' = p + 4096 /\ nulls' = 0 /\ err' = "SUCCESS" /\ ~undefined'
    BY <1>1, <1>5, <2>1, <2>5
  <2>7. alloc_ptr' % 4096 = 0
    BY <1>6, <2>6
  <2> QED
    BY <1>1, <2>3, <2>4, <2>6, <2>7 DEF Boot, NoBuffers, BeforeReset, Page
<1> QED
  BY <1>8, <1>9, <1>10 DEF MemInv

(* The steps that allocate nothing.                                        *)
LEMMA OtherMem ==
    MemInv /\ TypeOK
      /\ (\/ RequestHCOwnership \/ WaitOwnership \/ StopController \/ WaitHalted
          \/ ResetController \/ WaitReset \/ WaitReady \/ Configure \/ RegisterContexts
          \/ EnableInterrupts \/ Run \/ WaitRunning \/ Loop \/ BiosRelease \/ Hc)
      => MemInv'
<1> SUFFICES ASSUME MemInv, TypeOK,
                    \/ RequestHCOwnership \/ WaitOwnership \/ StopController \/ WaitHalted
                    \/ ResetController \/ WaitReset \/ WaitReady \/ Configure \/ RegisterContexts
                    \/ EnableInterrupts \/ Run \/ WaitRunning \/ Loop \/ BiosRelease \/ Hc
             PROVE  MemInv'
  OBVIOUS
<1>1. UNCHANGED <<err, start, alloc_ptr, buffers, left, nulls, undefined>>
  BY DEF RequestHCOwnership, WaitOwnership, StopController, WaitHalted, ResetController,
         WaitReset, WaitReady, Configure, RegisterContexts, EnableInterrupts, Run, WaitRunning,
         Loop, BiosRelease, Hc, HcHalt, HcStart, HcReset, HcReady, memory, vars
<1>2. \/ pc' = pc
      \/ pc \in NoBuffers \ {"array"} /\ pc' \in NoBuffers \ {"array"}
      \/ pc = "config" /\ buffers > 0 /\ pc' = "array"
      \/ pc = "config" /\ ~(buffers > 0) /\ pc' = "dcbaap"
      \/ pc = "dcbaap" /\ pc' = "command_ring"
      \/ pc \in {"interrupts", "run", "run_wait"} /\ pc' \in Running
  BY DEF RequestHCOwnership, WaitOwnership, StopController, WaitHalted, ResetController,
         WaitReset, WaitReady, Configure, RegisterContexts, EnableInterrupts, Run, WaitRunning,
         Loop, BiosRelease, Hc, HcHalt, HcStart, HcReset, HcReady, memory, vars,
         NoBuffers, BeforeReset, Running
<1>3. AfterContexts \in Nat /\ AfterBuffers \in Nat /\ AfterContexts <= AfterBuffers
  BY BootBounds, BootRequests
<1>4. start \in Nat /\ buffers \in Nat /\ nulls \in Nat /\ (pc \notin Running => alloc_ptr \in Nat)
  BY BootRequests DEF MemInv, MemoryOK
<1>5. MemoryOK'
  BY <1>1, <1>2 DEF MemInv, MemoryOK, NoBuffers, BeforeReset, Running
<1>6. Exhausted'
  <2>0. Rest' = Rest
    BY <1>1 DEF Rest
  <2>1. CASE pc \in {"config"}
    <3>1. nulls = 0
      BY <2>1 DEF MemInv, Exhausted, NoBuffers
    <3> QED
      BY <1>1, <3>1 DEF Exhausted
  <2>2. CASE pc # "config"
    BY <1>1, <1>2, <1>4, <2>0, <2>2 DEF MemInv, Exhausted, NoBuffers, BeforeReset, Running
  <2> QED
    BY <2>1, <2>2
<1>7. Boot'
  <2> SUFFICES ASSUME buffers <= EnoughForBoot PROVE Boot'
    BY <1>1 DEF Boot
  <2>1. undefined' => pc' = "running"
    BY <1>1, <1>2 DEF MemInv, Boot, NoBuffers, BeforeReset, Running
  <2>2. /\ err' = "SUCCESS" /\ nulls' = 0
        /\ pc' = "devices" => alloc_ptr' <= start'
        /\ pc' = "contexts" => alloc_ptr' <= start' + AfterDevices
        /\ pc' \in NoBuffers => alloc_ptr' <= start' + AfterContexts
        /\ pc' = "event_ring" => alloc_ptr' <= start' + AfterCommandRing
        /\ pc' = "segment_table" => alloc_ptr' <= start' + AfterEventRing
    BY <1>1, <1>2 DEF MemInv, Boot, NoBuffers, BeforeReset, Running
  <2>3. pc' \in {"dcbaap", "command_ring"} => alloc_ptr' <= start' + AfterBuffers
    BY <1>1, <1>2, <1>3, <1>4 DEF MemInv, Boot, NoBuffers, BeforeReset, Running
  <2>4. pc' = "buffer" =>
           \/ left' = buffers' /\ alloc_ptr' <= start' + AfterArray
           \/ /\ alloc_ptr' % Page = 0
              /\ alloc_ptr' <= start' + AfterArray + Page * (1 + buffers' - left')
    BY <1>1, <1>2 DEF MemInv, Boot, NoBuffers, BeforeReset, Running
  <2> QED
    BY <2>1, <2>2, <2>3, <2>4 DEF Boot
<1> QED
  BY <1>5, <1>6, <1>7 DEF MemInv

(* The allocations for devices come when all is over.                      *)
LEMMA DevicesMem == MemInv /\ Devices => MemInv'
<1> SUFFICES ASSUME MemInv, Devices PROVE MemInv'
  OBVIOUS
<1>1. pc = "running" /\ UNCHANGED <<pc, err, start, buffers, left, nulls>>
  BY DEF Devices, AddressDevice, NewClassDriver, ConfigureEndpoints, Unchecked
<1>2. Rest' = Rest
  BY <1>1 DEF Rest
<1> QED
  BY <1>1, <1>2 DEF MemInv, MemoryOK, Exhausted, Boot, NoBuffers, BeforeReset, Running

(* Every step keeps the invariant of the memory.                           *)
LEMMA NextMem == MemInv /\ TypeOK /\ [Next]_vars => MemInv'
<1>1. MemInv /\ UNCHANGED vars => MemInv'
  BY DEF vars, memory, MemInv, MemoryOK, Exhausted, Boot, Rest
<1> QED
  BY <1>1, CheckedMem, ArrayMem, BufferMem, OtherMem, DevicesMem DEF Next, Kernel

(* Every reachable state satisfies the second invariant.                   *)
LEMMA MemHolds == Spec => []MemInv
<1>1. Inv => TypeOK
  BY DEF Inv
<1> QED
  BY <1>1, InitMem, NextMem, InvHolds, PTL DEF Spec

-----------------------------------------------------------------------------
(* With at most EnoughForBoot scratchpad buffers AllocMem refuses nothing  *)
(* that Initialize asks for, wherever the linker puts the pool.            *)
THEOREM PoolSuffices == Spec => []BootFits
<1>1. MemInv => BootFits
  BY DEF MemInv, Boot, BootFits
<1> QED
  BY <1>1, MemHolds, PTL

(* Wherever the pool begins, a refused scratchpad buffer passes unnoticed  *)
(* only if the rings fit into the part of a page behind it; otherwise      *)
(* Initialize returns an error (xhci.cpp:439, ring.cpp:27, :81, :88).      *)
THEOREM NoticesExhaustion == Spec => []ExhaustionNoticed
<1>1. MemInv => ExhaustionNoticed
  <2> SUFFICES ASSUME MemInv, pc = "running", err = "SUCCESS", nulls > 0
               PROVE  start % Page >= RingsSize
    BY DEF ExhaustionNoticed
  <2>1. RingsSize <= Rest
    BY DEF MemInv, Exhausted, Running
  <2>2. Rest \in Nat /\ RingsSize \in Nat
    BY RestBounds DEF MemInv, MemoryOK
  <2> QED
    BY <2>1, <2>2 DEF Rest
<1> QED
  BY <1>1, MemHolds, PTL


--------------------------------------------------------------------------------
(* Multiples.                                                                 *)

\* A product is a multiple of its factor.
LEMMA ProductMod ==
  ASSUME NEW k \in Nat, NEW a \in Nat \ {0}
  PROVE  (k * a) % a = 0
OBVIOUS

\* A multiple is a product.
LEMMA ModProduct ==
  ASSUME NEW x \in Nat, NEW a \in Nat \ {0}, x % a = 0
  PROVE  /\ x \div a \in Nat
         /\ x = (x \div a) * a
OBVIOUS

\* Two different multiples are at least one step apart.
LEMMA NextMultiple ==
  ASSUME NEW a \in Nat \ {0}, NEW i \in Nat, NEW j \in Nat, i < j
  PROVE  i * a + a <= j * a
OBVIOUS

\* Multiplication is associative, in the form needed below.
LEMMA Assoc ==
  ASSUME NEW i \in Nat, NEW j \in Nat, NEW a \in Nat
  PROVE  /\ i * j \in Nat
         /\ i * (j * a) = (i * j) * a
OBVIOUS

\* A multiple of a multiple of a is a multiple of a.
LEMMA Transitive ==
  ASSUME NEW a \in Nat \ {0}, NEW k \in Nat, NEW b \in Nat \ {0}, b = k * a,
         NEW x \in Nat, x % b = 0
  PROVE  x % a = 0
<1> DEFINE m == x \div b
<1>1. m \in Nat /\ x = m * b
  BY ModProduct
<1> HIDE DEF m
<1>2. m * k \in Nat /\ x = (m * k) * a
  BY <1>1, Assoc
<1> QED
  BY <1>2, ProductMod

\* Ceil is the first multiple at or above its argument (memory.cpp:7-11).
LEMMA CeilFirst ==
  ASSUME NEW v \in Nat, NEW a \in Nat \ {0}
  PROVE  /\ Ceil(v, a) \in Nat
         /\ Ceil(v, a) >= v
         /\ Ceil(v, a) % a = 0
         /\ \A x \in v .. Ceil(v, a) - 1 : x % a # 0
<1> DEFINE k == (v + a - 1) \div a
<1>1. k \in Nat /\ Ceil(v, a) = k * a
  BY DEF Ceil
<1> HIDE DEF k
<1>2. k * a >= v /\ k * a < v + a
  BY <1>1, CeilBounds
<1>3. (k * a) % a = 0 /\ k * a \in Nat
  BY <1>1, ProductMod
<1>4. ASSUME NEW x \in v .. k * a - 1, x % a = 0
      PROVE  FALSE
  <2> DEFINE i == x \div a
  <2>1. x \in Nat
    BY <1>3
  <2>2. i \in Nat /\ x = i * a
    BY <1>4, <2>1, ModProduct
  <2> HIDE DEF i
  <2>3. CASE i < k
    BY <2>2, <2>3, <1>1, <1>2, NextMultiple, <1>4, <1>3
  <2>4. CASE i >= k
    <3>1. i * a >= k * a
      <4>1. CASE i = k
        BY <4>1, <1>3
      <4>2. CASE k < i
        BY <4>2, <2>2, <1>1, NextMultiple, <1>3, <2>1
      <4> QED
        BY <4>1, <4>2, <2>4, <2>2, <1>1
    <3> QED
      BY <3>1, <2>2, <1>4, <1>3, <2>1
  <2> QED
    BY <2>3, <2>4, <2>2, <1>1
<1> QED
  BY <1>1, <1>2, <1>3, <1>4

--------------------------------------------------------------------------------
(* One request.                                                               *)

\* The first step of AllocMem: the first aligned address.
LEMMA AlignFirst ==
  ASSUME NEW ptr \in Nat, NEW a \in Nat,
         NEW p, p = IF a > 0 THEN Ceil(ptr, a) ELSE ptr
  PROVE  /\ p \in Nat
         /\ p >= ptr
         /\ MultipleOf(p, a)
         /\ \A q \in ptr .. p - 1 : ~MultipleOf(q, a)
<1>1. CASE a > 0
  BY <1>1, CeilFirst DEF MultipleOf
<1>2. CASE a = 0
  BY <1>2 DEF MultipleOf
<1> QED
  BY <1>1, <1>2

\* The second step: the boundary keeps the alignment.
LEMMA BoundaryKeepsAlignment ==
  ASSUME NEW a \in Granularity, NEW b \in Granularity \ {0}, NEW p \in Nat,
         MultipleOf(p, a)
  PROVE  MultipleOf(Ceil(p, b), a)
<1>0. a \in Nat /\ b \in Nat \ {0}
  BY PoolAssumption
<1>1. CASE a = 0
  BY <1>1 DEF MultipleOf
<1>2. ASSUME a # 0, NEW k \in 1 .. b, b = k * a
      PROVE  MultipleOf(Ceil(p, b), a)
  <2>1. Ceil(p, b) \in Nat /\ Ceil(p, b) % b = 0
    BY <1>0, CeilFirst
  <2>2. k \in Nat
    BY <1>0
  <2>3. a \in Nat \ {0}
    BY <1>0, <1>2
  <2> DEFINE x == Ceil(p, b)
  <2> HIDE DEF x
  <2>4. x \in Nat /\ x % b = 0
    BY <2>1 DEF x
  <2>5. x % a = 0
    BY <2>2, <2>3, <2>4, <1>0, <1>2, Transitive
  <2> QED
    BY <2>5 DEF x, MultipleOf
<1>3. ASSUME a # 0, NEW k \in 1 .. a, a = k * b
      PROVE  MultipleOf(Ceil(p, b), a)
  <2>1. p % b = 0
    <3>1. a \in Nat \ {0} /\ k \in Nat /\ p % a = 0
      BY <1>0, <1>3 DEF MultipleOf
    <3> QED
      BY <3>1, <1>0, <1>3, Transitive
  <2>2. Ceil(p, b) = p
    <3>1. Ceil(p, b) \in Nat /\ Ceil(p, b) >= p
      BY <1>0, CeilFirst
    <3>2. \A x \in p .. Ceil(p, b) - 1 : x % b # 0
      BY <1>0, CeilFirst
    <3> QED
      BY <3>1, <3>2, <2>1
  <2> QED
    BY <2>2
<1> QED
  BY <1>0, <1>1, <1>2, <1>3, PoolAssumption

\* AllocMem tries the first suitable address (memory.cpp:27-39).
LEMMA AlignedFirst ==
  ASSUME NEW ptr \in Nat, NEW r \in Request
  PROVE  /\ Aligned(ptr, r) \in Nat
         /\ Aligned(ptr, r) >= ptr
         /\ Suitable(Aligned(ptr, r), r)
         /\ \A q \in ptr .. Aligned(ptr, r) - 1 : ~Suitable(q, r)
<1> DEFINE a == r.alignment
           b == r.boundary
           s == r.size
           p == IF a > 0 THEN Ceil(ptr, a) ELSE ptr
           n == Ceil(p, b)
<1>0. /\ s \in Nat \ {0}
      /\ a \in Nat /\ b \in Nat
      /\ a \in Granularity /\ b \in Granularity
  BY RequestTypes
<1>1. /\ p \in Nat /\ p >= ptr
      /\ MultipleOf(p, a)
      /\ \A q \in ptr .. p - 1 : ~MultipleOf(q, a)
  BY <1>0, AlignFirst
<1>2. Aligned(ptr, r) = IF b > 0 /\ n < p + s THEN n ELSE p
  BY DEF Aligned
<1> HIDE DEF p
<1>3. CASE b = 0
  <2>1. Aligned(ptr, r) = p
    BY <1>2, <1>3
  <2> QED
    BY <2>1, <1>1, <1>3 DEF Suitable
<1>4. CASE b > 0
  <2>1. /\ n \in Nat /\ n >= p
        /\ n % b = 0
        /\ \A x \in p .. n - 1 : x % b # 0
    <3>1. b \in Nat \ {0} /\ p \in Nat
      BY <1>0, <1>1, <1>4
    <3> HIDE DEF b
    <3> QED
      BY <3>1, CeilFirst
  <2>2. MultipleOf(n, a)
    BY <1>0, <1>1, <1>4, BoundaryKeepsAlignment
  <2> HIDE DEF n
  <2>3. CASE n < p + s
    <3>1. Aligned(ptr, r) = n
      BY <1>2, <1>4, <2>3
    <3>2. Suitable(n, r)
      BY <2>1, <2>2, <1>4 DEF Suitable
    <3>3. ASSUME NEW q \in ptr .. n - 1
          PROVE  ~Suitable(q, r)
      <4>1. CASE q < p
        BY <4>1, <1>1, <2>1 DEF Suitable
      <4>2. CASE q >= p
        <5>1. q % b # 0
          BY <4>2, <2>1, <1>1
        <5>2. n \in (q + 1) .. (q + s - 1)
          BY <4>2, <2>1, <2>3, <1>1, <1>0
        <5>3. Crosses(q, s, b)
          BY <5>2, <2>1 DEF Crosses
        <5> QED
          BY <5>1, <5>3, <1>4 DEF Suitable
      <4> QED
        BY <4>1, <4>2, <1>1, <2>1
    <3> QED
      BY <3>1, <3>2, <3>3, <2>1, <1>1
  <2>4. CASE ~(n < p + s)
    <3>1. Aligned(ptr, r) = p
      BY <1>2, <2>4
    <3>2. ~Crosses(p, s, b)
      BY <2>1, <2>4, <1>1, <1>0 DEF Crosses
    <3>3. Suitable(p, r)
      BY <3>2, <1>1 DEF Suitable
    <3>4. \A q \in ptr .. p - 1 : ~Suitable(q, r)
      BY <1>1 DEF Suitable
    <3> QED
      BY <3>1, <3>3, <3>4, <1>1
  <2> QED
    BY <2>3, <2>4
<1> QED
  BY <1>0, <1>3, <1>4

\* A suitable block that is not larger than its boundary does not cross it.
LEMMA SuitablePlaced ==
  ASSUME NEW r \in Request, NEW p \in Nat, Suitable(p, r)
  PROVE  /\ MultipleOf(p, r.alignment)
         /\ r.boundary > 0 /\ r.size <= r.boundary => ~Crosses(p, r.size, r.boundary)
<1>0. r.size \in Nat \ {0} /\ r.boundary \in Nat
  BY RequestTypes
<1>1. MultipleOf(p, r.alignment)
  BY DEF Suitable
<1>2. ASSUME r.boundary > 0, r.size <= r.boundary, p % r.boundary = 0,
             NEW x \in (p + 1) .. (p + r.size - 1), x % r.boundary = 0
      PROVE  FALSE
  <2> DEFINE b == r.boundary
             i == p \div b
             j == x \div b
  <2>1. b \in Nat \ {0} /\ x \in Nat
    BY <1>0, <1>2
  <2>2. i \in Nat /\ p = i * b
    BY <1>2, <2>1, ModProduct
  <2>3. j \in Nat /\ x = j * b
    BY <1>2, <2>1, ModProduct
  <2> HIDE DEF i, j, b
  <2>4. p < x /\ x < p + b
    BY <1>0, <1>2 DEF b
  <2>5. CASE i < j
    BY <2>1, <2>2, <2>3, <2>4, <2>5, NextMultiple
  <2>6. CASE i = j
    BY <2>2, <2>3, <2>4, <2>6, <2>1
  <2>7. CASE j < i
    BY <2>1, <2>2, <2>3, <2>4, <2>7, NextMultiple
  <2> QED
    BY <2>2, <2>3, <2>5, <2>6, <2>7
<1> QED
  BY <1>1, <1>2 DEF Suitable, Crosses

--------------------------------------------------------------------------------
(* The pool, which records what it has handed out.                            *)
VARIABLE blocks

Pool == INSTANCE UsbMemory

\* UsbMemory and ControllerInit allocate in the same way.
LEMMA SamePool ==
  /\ Pool!Request = Request
  /\ \A ptr, r : Pool!Aligned(ptr, r) = Aligned(ptr, r)
  /\ \A p, a : Pool!MultipleOf(p, a) <=> MultipleOf(p, a)
  /\ \A p, s, b : Pool!Crosses(p, s, b) <=> Crosses(p, s, b)
  /\ \A p, r : Pool!Suitable(p, r) <=> Suitable(p, r)
BY DEF Pool!Request, Request, Pool!Aligned, Aligned, Pool!Ceil, Ceil, Pool!MultipleOf,
       MultipleOf, Pool!Crosses, Crosses, Pool!Suitable, Suitable

\* The fields of a request to the pool.
LEMMA PoolRequestTypes ==
  ASSUME NEW r \in Pool!Request
  PROVE  /\ r.size \in Nat \ {0}
         /\ r.alignment \in Nat /\ r.boundary \in Nat
         /\ r.alignment \in Granularity /\ r.boundary \in Granularity
BY SamePool, RequestTypes

\* The pool tries the first suitable address.
LEMMA PoolAlignedFirst ==
  ASSUME NEW ptr \in Nat, NEW r \in Pool!Request
  PROVE  /\ Pool!Aligned(ptr, r) \in Nat
         /\ Pool!Aligned(ptr, r) >= ptr
         /\ Pool!Suitable(Pool!Aligned(ptr, r), r)
         /\ \A q \in ptr .. Pool!Aligned(ptr, r) - 1 : ~Pool!Suitable(q, r)
<1>1. r \in Request /\ Pool!Aligned(ptr, r) = Aligned(ptr, r)
  BY SamePool
<1> QED
  BY <1>1, SamePool, AlignedFirst

\* A suitable block of the pool that is not larger than its boundary does not cross it.
LEMMA PoolSuitablePlaced ==
  ASSUME NEW r \in Pool!Request, NEW p \in Nat, Pool!Suitable(p, r)
  PROVE  /\ Pool!MultipleOf(p, r.alignment)
         /\ r.boundary > 0 /\ r.size <= r.boundary => ~Pool!Crosses(p, r.size, r.boundary)
<1>1. r \in Request /\ Suitable(p, r)
  BY SamePool
<1> QED
  BY <1>1, SamePool, SuitablePlaced

\* TypeOK and NoOverlap together are inductive: a new block begins at or above
\* alloc_ptr, and all others end at or below it.
PoolOK == Pool!TypeOK /\ Pool!NoOverlap /\ Pool!Placed

\* An empty pool satisfies the invariant.
LEMMA PoolInit == Pool!Init => PoolOK
BY PoolAssumption DEF Pool!Init, PoolOK, Pool!TypeOK, Pool!NoOverlap, Pool!Placed

\* What one call of AllocMem does to the pool.
LEMMA AllocInv ==
  ASSUME PoolOK, NEW r \in Pool!Request, Pool!Alloc(r)
  PROVE  PoolOK'
<1> DEFINE p == Pool!Aligned(alloc_ptr, r)
           b == [p |-> p, r |-> r]
<1>0. r.size \in Nat \ {0}
  BY PoolRequestTypes
<1>1. alloc_ptr \in Nat /\ start \in Nat \ {0} /\ Pool!PoolEnd \in Nat
  BY PoolAssumption DEF PoolOK, Pool!TypeOK, Pool!PoolEnd
<1>2. p \in Nat /\ p >= alloc_ptr /\ Pool!Suitable(p, r)
  BY <1>1, PoolAlignedFirst
<1>6. start' = start /\ Pool!PoolEnd' = Pool!PoolEnd /\ Pool!Block' = Pool!Block
  BY DEF Pool!Alloc, Pool!PoolEnd, Pool!Block
<1> HIDE DEF p
<1>3. CASE Pool!PoolEnd < p + r.size
  <2>1. alloc_ptr' = p /\ blocks' = blocks
    BY <1>3 DEF Pool!Alloc, Pool!AllocMem, p
  <2>2. Pool!TypeOK'
    <3>1. ASSUME NEW c \in blocks
          PROVE  c.p + c.r.size <= Pool!PoolEnd /\ c.p + c.r.size <= p
      <4>1. c.p \in Nat /\ c.r.size \in Nat
        BY <1>1, PoolRequestTypes DEF PoolOK, Pool!TypeOK, Pool!Block
      <4> QED
        BY <4>1, <1>1, <1>2 DEF PoolOK, Pool!TypeOK
    <3> QED
      BY <3>1, <2>1, <1>1, <1>2, <1>6 DEF PoolOK, Pool!TypeOK
  <2> QED
    BY <2>1, <2>2 DEF PoolOK, Pool!NoOverlap, Pool!Placed
<1>4. CASE ~(Pool!PoolEnd < p + r.size)
  <2>1. alloc_ptr' = p + r.size /\ blocks' = blocks \cup {b}
    <3>1. p # Pool!Null
      BY <1>1, <1>2 DEF Pool!Null, PoolOK, Pool!TypeOK
    <3> QED
      BY <3>1, <1>4 DEF Pool!Alloc, Pool!AllocMem, p
  <2>2. ASSUME NEW c \in blocks
        PROVE  /\ c.p \in Nat /\ c.r.size \in Nat
               /\ c.p + c.r.size <= Pool!PoolEnd
               /\ c.p + c.r.size <= p
    <3>1. c.p \in Nat /\ c.r.size \in Nat
      BY <1>1, PoolRequestTypes DEF PoolOK, Pool!TypeOK, Pool!Block
    <3> QED
      BY <3>1, <1>1, <1>2 DEF PoolOK, Pool!TypeOK
  <2>3. b.p = p /\ b.r = r
    OBVIOUS
  <2>4. p \in start .. Pool!PoolEnd
    BY <1>0, <1>1, <1>2, <1>4 DEF PoolOK, Pool!TypeOK
  <2>5. b \in Pool!Block
    BY <2>4 DEF Pool!Block
  <2> HIDE DEF b
  <2>6. Pool!TypeOK'
    <3>1. alloc_ptr' \in Nat /\ alloc_ptr' >= start
      BY <2>1, <2>4, <1>0, <1>1, <1>2
    <3>2. blocks' \subseteq Pool!Block
      BY <2>1, <2>5 DEF PoolOK, Pool!TypeOK
    <3>3. ASSUME NEW c \in blocks'
          PROVE  c.p + c.r.size <= Pool!PoolEnd /\ c.p + c.r.size <= alloc_ptr'
      <4>1. CASE c \in blocks
        BY <4>1, <2>1, <2>2, <1>0, <1>1, <1>2
      <4>2. CASE c = b
        BY <4>2, <2>1, <2>3, <1>0, <1>1, <1>2, <1>4
      <4> QED
        BY <4>1, <4>2, <2>1
    <3> QED
      BY <3>1, <3>2, <3>3, <1>6 DEF PoolOK, Pool!TypeOK
  <2>7. Pool!NoOverlap'
    <3> SUFFICES ASSUME NEW c \in blocks', NEW d \in blocks'
                 PROVE  c = d \/ c.p + c.r.size <= d.p \/ d.p + d.r.size <= c.p
      BY DEF Pool!NoOverlap
    <3>1. CASE c \in blocks /\ d \in blocks
      BY <3>1 DEF PoolOK, Pool!NoOverlap
    <3>2. CASE c \in blocks /\ d = b
      BY <3>2, <2>2, <2>3
    <3>3. CASE c = b /\ d \in blocks
      BY <3>3, <2>2, <2>3
    <3> QED
      BY <3>1, <3>2, <3>3, <2>1
  <2>8. Pool!Placed'
    <3> SUFFICES ASSUME NEW c \in blocks'
                 PROVE  /\ Pool!MultipleOf(c.p, c.r.alignment)
                        /\ c.r.boundary > 0 /\ c.r.size <= c.r.boundary
                             => ~Pool!Crosses(c.p, c.r.size, c.r.boundary)
      BY DEF Pool!Placed
    <3>1. CASE c \in blocks
      BY <3>1 DEF PoolOK, Pool!Placed
    <3>2. CASE c = b
      BY <3>2, <2>3, <1>2, PoolSuitablePlaced
    <3> QED
      BY <3>1, <3>2, <2>1
  <2> QED
    BY <2>6, <2>7, <2>8 DEF PoolOK
<1> QED
  BY <1>3, <1>4

\* Neither AllocMem nor FreeMem breaks the invariant.
LEMMA PoolNext == PoolOK /\ [Pool!Next]_Pool!vars => PoolOK'
<1> SUFFICES ASSUME PoolOK, [Pool!Next]_Pool!vars PROVE PoolOK'
  OBVIOUS
<1>1. ASSUME NEW r \in Pool!Request, Pool!Alloc(r) PROVE PoolOK'
  BY <1>1, AllocInv
<1>2. CASE UNCHANGED Pool!vars
  BY <1>2 DEF PoolOK, Pool!TypeOK, Pool!NoOverlap, Pool!Placed, Pool!PoolEnd, Pool!Block, Pool!vars
<1>3. ASSUME NEW b \in blocks, Pool!FreeMem(b) PROVE PoolOK'
  BY <1>2, <1>3 DEF Pool!FreeMem
<1> QED
  BY <1>1, <1>2, <1>3 DEF Pool!Next

\* The invariant of the pool.
LEMMA PoolHolds == Pool!Spec => []PoolOK
BY PoolInit, PoolNext, PTL DEF Pool!Spec

--------------------------------------------------------------------------------
(* Results.                                                                   *)

\* Blocks stay inside the pool and below alloc_ptr.
THEOREM BlocksInPool == Pool!Spec => []Pool!TypeOK
BY PoolHolds, PTL DEF PoolOK

\* AllocMem never hands out a byte twice.
THEOREM BlocksDisjoint == Pool!Spec => []Pool!NoOverlap
BY PoolHolds, PTL DEF PoolOK

\* Every block is aligned and does not cross its boundary, as memory.hpp promises.
THEOREM BlocksPlaced == Pool!Spec => []Pool!Placed
BY PoolHolds, PTL DEF PoolOK

\* In every reachable state AllocMem returns the first suitable address, or
\* nullptr only if there is none.
THEOREM FirstFitAlways == Pool!Spec => []Pool!FirstFit
<1>1. PoolOK => Pool!FirstFit
  <2> SUFFICES ASSUME PoolOK, NEW r \in Pool!Request
               PROVE  LET m      == Pool!AllocMem(alloc_ptr, Pool!PoolEnd, r)
                          places == {q \in alloc_ptr .. Pool!PoolEnd - r.size : Pool!Suitable(q, r)}
                      IN  IF places = {} THEN m.p = Pool!Null
                                         ELSE m.p \in places /\ \A q \in places : m.p <= q
    BY DEF Pool!FirstFit
  <2> DEFINE p      == Pool!Aligned(alloc_ptr, r)
             m      == Pool!AllocMem(alloc_ptr, Pool!PoolEnd, r)
             places == {q \in alloc_ptr .. Pool!PoolEnd - r.size : Pool!Suitable(q, r)}
  <2>1. alloc_ptr \in Nat /\ Pool!PoolEnd \in Nat /\ r.size \in Nat
    BY PoolAssumption, PoolRequestTypes DEF PoolOK, Pool!TypeOK, Pool!PoolEnd
  <2>2. /\ p \in Nat /\ p >= alloc_ptr /\ Pool!Suitable(p, r)
        /\ \A q \in alloc_ptr .. p - 1 : ~Pool!Suitable(q, r)
    BY <2>1, PoolAlignedFirst
  <2>3. m.p = IF Pool!PoolEnd < p + r.size THEN Pool!Null ELSE p
    BY DEF Pool!AllocMem
  <2> HIDE DEF p, m
  <2>4. \A q \in places : p <= q
    BY <2>1, <2>2
  <2>5. CASE Pool!PoolEnd < p + r.size
    <3>1. places = {}
      BY <2>1, <2>2, <2>4, <2>5
    <3> QED
      BY <3>1, <2>3, <2>5 DEF m
  <2>6. CASE ~(Pool!PoolEnd < p + r.size)
    <3>1. p \in places
      BY <2>1, <2>2, <2>6
    <3> QED
      BY <3>1, <2>3, <2>4, <2>6 DEF m
  <2> QED
    BY <2>5, <2>6
<1> QED
  BY <1>1, PoolHolds, PTL
=============================================================================
