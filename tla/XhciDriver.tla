----------------------------- MODULE XhciDriver -----------------------------
(***************************************************************************)
(* The enumeration of USB devices by the xHCI host driver of my-mikanos:   *)
(* the per-port state machine of kernel/usb/xhci/xhci.cpp, the device      *)
(* manager it fills, the initialisation protocol of usb::Device, and the   *)
(* boot protocol handshake of the HID class driver.                        *)
(*                                                                         *)
(* The kernel is one thread: it configures every port once, then polls the *)
(* event ring forever (main.cpp).  A driver action is one iteration of one *)
(* of these loops, the whole handler included.  The host controller, the   *)
(* devices and the person who plugs them in run concurrently; they are     *)
(* external code, modelled from how the driver uses them.                  *)
(*                                                                         *)
(* The command ring, the event ring and the transfer rings are sequences   *)
(* here.  That a ring behaves as one is the subject of TrbRing and         *)
(* EventRing.                                                              *)
(***************************************************************************)
EXTENDS Integers, Sequences, FiniteSets, FiniteSetsExt

CONSTANTS
    MaxPorts,       \* ports of the root hub (HCSPARAMS1.MaxPorts)
    kDeviceSize,    \* device slots the driver enables (xhci.hpp)
    MaxEndpoints,   \* bound: endpoint numbers a HID interface may use
    MaxFaults       \* bound: unplugs and failed commands and transfers

ASSUME MaxPortsAssumption == MaxPorts \in Nat \ {0}
ASSUME DeviceSizeAssumption == kDeviceSize \in Nat \ {0}
ASSUME MaxEndpointsAssumption == MaxEndpoints \in Nat \ {0}
ASSUME MaxFaultsAssumption == MaxFaults \in Nat

VARIABLES
    scan,               \* the port the boot loop of main.cpp configures next
    addressing_port,    \* port between reset and address assignment, or 0
    port_config_phase,  \* phase of every port; entry 0 is never a real port
    devices,            \* DeviceManager::devices_ and the contexts they hold
    dcbaa,              \* DeviceManager::device_context_pointers_
    err,                \* what the last call from the main loops returned
    cmds,               \* commands pushed and not yet executed
    events,             \* event TRBs written and not yet popped
    ep0,                \* control requests outstanding, per slot
    intr,               \* Normal TRBs outstanding on the interrupt IN ring
    portsc,             \* the bits of PORTSC the driver reads or writes
    slot_state,         \* the controller's own view of every slot
    endpoints,          \* what the device at a port is; see Init
    faults              \* how much of the fault budget is spent

driverVars == <<scan, addressing_port, port_config_phase, devices, dcbaa, err>>
ringVars == <<cmds, events, ep0, intr>>
hcVars == <<portsc, slot_state, endpoints, faults>>
vars == <<driverVars, ringVars, hcVars>>

-----------------------------------------------------------------------------
Ports == 1..MaxPorts

(* Slot 0 never names a device, but both tables have an entry for it.      *)
SlotIds == 0..kDeviceSize

ConfigPhase ==
    {"kNotConnected", "kWaitingAddressed", "kResettingPort", "kEnablingSlot",
     "kAddressingDevice", "kInitializingDevice", "kConfiguringEndpoints",
     "kConfigured"}

ErrorCode ==
    {"SUCCESS", "INVALID_PHASE", "INVALID_SLOT_ID", "UNKNOWN_XHCI_SPEED_ID",
     "NOT_IMPLEMENTED", "NO_WAITER", "TRANSFER_FAILED"}

(* A device: the port named in its input context (in_port; 0 for a null    *)
(* entry of devices_, as AddressDevice allocates a device and names its    *)
(* port in one go), the port named in its device context once the          *)
(* controller has written that (ctx_port), initialize_phase_               *)
(* (is_initialized_ is set exactly with phase 4), how many entries of      *)
(* class_drivers_ point at its HID driver, and that driver's own           *)
(* initialize_phase_.                                                      *)
Device ==
    [in_port : 0..MaxPorts, ctx_port : 0..MaxPorts, initialize_phase : 0..4,
     class_drivers : 0..MaxEndpoints, hid_phase : 0..2]

(* What the constructors leave, with the port p in the input context.      *)
NewDevice(p) ==
    [in_port |-> p, ctx_port |-> 0, initialize_phase |-> 0,
     class_drivers |-> 0, hid_phase |-> 0]

Allocated(d) == d.in_port # 0

IsInitialized(d) == d.initialize_phase = 4

DcbaaEntry == {"null", "scratchpad", "context"}

CommandType == {"EnableSlot", "AddressDevice", "ConfigureEndpoint"}
Command == [type : CommandType, slot : SlotIds]

ControlRequest ==
    {"GetDeviceDescriptor", "GetConfigDescriptor", "SetConfiguration",
     "SetProtocol"}

TransferResult == {"ok", "bad_data", "failed"}

PortStatusChangeEvent == [type : {"PortStatusChange"}, port : Ports]
CommandCompletionEvent ==
    [type : {"CommandCompletion"}, issuer : CommandType, slot : SlotIds]
TransferEvent ==
    [type : {"Transfer"}, slot : SlotIds, issuer : ControlRequest \cup {"Normal"},
     result : TransferResult]
Event == PortStatusChangeEvent \cup CommandCompletionEvent \cup TransferEvent

SlotState == {"Disabled", "Enabled", "Addressed", "Configured"}

-----------------------------------------------------------------------------
(* PORTSC.  current_connect_status, port_enabled, and the two change bits. *)
PortBits == {"ccs", "ped", "csc", "prc"}
ChangeBits == {"csc", "prc"}

(* Bits that a write of 1 clears: the change bits, and PED, whose writing  *)
(* disables the port.                                                      *)
WriteOneClears == {"ped", "csc", "prc"}

PortscWrite(sc, written) == sc \ (written \cap WriteOneClears)

(* Mutant of Masked: the register is written back as it was read.          *)
Masked_NoMask(sc) == sc

(* The masks 0x0e00c3e0 and 0x0e01c3e0 keep no bit of PortBits, so that a  *)
(* read-modify-write leaves the other write-one-to-clear bits alone.       *)
Masked(sc) == sc \cap {"pls", "pp", "pic", "wake"}

(* Port::Reset up to the write that starts the reset.                      *)
ResetWrite(sc) == PortscWrite(sc, Masked(sc) \cup {"pr", "csc"})

(* Mutant of PortReset: the busy wait forgotten, the reset is under way.   *)
PortReset_NoWait(sc) == ResetWrite(sc) \cup {"pr"}

(* Port::Reset after its busy wait: the controller has enabled the port    *)
(* and latched PRC.                                                        *)
PortReset(sc) == ResetWrite(sc) \cup {"ped", "prc"}

ClearPortResetChange(sc) == PortscWrite(sc, Masked(sc) \cup {"prc"})

(* The controller posts a Port Status Change event when the first change   *)
(* bit of a port is set, not when a second one joins it.                   *)
PortStatusChange(p, before) ==
    IF before \cap ChangeBits = {}
    THEN <<[type |-> "PortStatusChange", port |-> p]>>
    ELSE <<>>

-----------------------------------------------------------------------------
Init ==
    /\ scan = 1
    /\ addressing_port = 0
    /\ port_config_phase = [p \in 0..MaxPorts |-> "kNotConnected"]
    /\ devices = [s \in SlotIds |-> NewDevice(0)]
    /\ dcbaa = [s \in SlotIds |-> IF s = 0 THEN "scratchpad" ELSE "null"]
    /\ err = "SUCCESS"
    /\ cmds = <<>>
    /\ events = <<>>
    /\ ep0 = [s \in SlotIds |-> <<>>]
    /\ intr = [s \in SlotIds |-> 0]
    /\ portsc = [p \in Ports |-> {}]
    /\ slot_state = [s \in SlotIds |-> "Disabled"]
       \* 0: no interface the kernel supports; n: a boot protocol HID
       \* interface whose endpoints have n different numbers
    /\ endpoints \in [Ports -> 0..MaxEndpoints]
    /\ faults = 0

-----------------------------------------------------------------------------
(* ResetPort, as what it leaves in addressing_port (ap) and in             *)
(* port_config_phase (phase), the ports it resets, and what it returns.    *)
ResetPortResult(ap, phase, resets, code) ==
    [ap |-> ap, phase |-> phase, resets |-> resets, err |-> code]

(* Mutant of ResetPort: the test of addressing_port forgotten.             *)
ResetPort_NotExclusive(p, ap, phase) ==
    IF "ccs" \notin portsc[p]
    THEN ResetPortResult(ap, phase, {}, "SUCCESS")
    ELSE ResetPortResult(p, [phase EXCEPT ![p] = "kResettingPort"], {p}, "SUCCESS")

(* Mutant of ResetPort: a port that finds another one busy is not recorded *)
(* as waiting.                                                             *)
ResetPort_ForgetsWaiter(p, ap, phase) ==
    IF "ccs" \notin portsc[p] \/ ap # 0
    THEN ResetPortResult(ap, phase, {}, "SUCCESS")
    ELSE ResetPortResult(p, [phase EXCEPT ![p] = "kResettingPort"], {p}, "SUCCESS")

ResetPort(p, ap, phase) ==
    IF "ccs" \notin portsc[p]
    THEN ResetPortResult(ap, phase, {}, "SUCCESS")
    ELSE IF ap # 0
    THEN ResetPortResult(ap, [phase EXCEPT ![p] = "kWaitingAddressed"], {}, "SUCCESS")
    ELSE IF phase[p] \notin {"kNotConnected", "kWaitingAddressed"}
    THEN ResetPortResult(ap, phase, {}, "INVALID_PHASE")
    ELSE ResetPortResult(p, [phase EXCEPT ![p] = "kResettingPort"], {p}, "SUCCESS")

(* The registers and the events after Port::Reset of the ports in resets   *)
(* (none or one).                                                          *)
PortscAfter(resets) ==
    [p \in Ports |-> IF p \in resets THEN PortReset(portsc[p]) ELSE portsc[p]]

EventsAfter(resets) ==
    IF resets = {} THEN <<>>
    ELSE LET p == CHOOSE q \in resets : TRUE
         IN  PortStatusChange(p, ResetWrite(portsc[p]))

(* Applies a result of ResetPort; rest is what remains of the event ring.  *)
ApplyReset(r, rest) ==
    /\ addressing_port' = r.ap
    /\ port_config_phase' = r.phase
    /\ portsc' = PortscAfter(r.resets)
    /\ events' = rest \o EventsAfter(r.resets)
    /\ err' = r.err

-----------------------------------------------------------------------------
(* main.cpp, the loop over all ports, with ConfigurePort.                  *)
ConfigurePort ==
    /\ scan <= MaxPorts
    /\ IF "ccs" \in portsc[scan] /\ port_config_phase[scan] = "kNotConnected"
       THEN ApplyReset(ResetPort(scan, addressing_port, port_config_phase), events)
       ELSE UNCHANGED <<addressing_port, port_config_phase, portsc, events, err>>
    /\ scan' = scan + 1
    /\ UNCHANGED <<devices, dcbaa, cmds, ep0, intr, slot_state, endpoints, faults>>

(* ProcessEvent runs once the boot loop is done and takes the front event. *)
EventFront(type) ==
    /\ scan > MaxPorts
    /\ events # <<>>
    /\ Head(events).type = type

(* A handler that returns an error without having changed anything.        *)
Fail(code) ==
    /\ err' = code
    /\ events' = Tail(events)
    /\ UNCHANGED <<scan, addressing_port, port_config_phase, devices, dcbaa,
                   cmds, ep0, intr, hcVars>>

(* EnableSlot.                                                             *)
EnableSlot(p) ==
    /\ IF {"ped", "prc"} \subseteq portsc[p]
       THEN /\ portsc' = [portsc EXCEPT ![p] = ClearPortResetChange(@)]
            /\ port_config_phase' = [port_config_phase EXCEPT ![p] = "kEnablingSlot"]
            /\ cmds' = Append(cmds, [type |-> "EnableSlot", slot |-> 0])
       ELSE UNCHANGED <<portsc, port_config_phase, cmds>>
    /\ err' = "SUCCESS"
    /\ events' = Tail(events)
    /\ UNCHANGED <<scan, addressing_port, devices, dcbaa, ep0, intr, slot_state,
                   endpoints, faults>>

(* Mutant of OnPortStatusChange: a port is reset again in any later phase. *)
OnPortStatusChange_AnyPhase ==
    /\ EventFront("PortStatusChange")
    /\ LET p == Head(events).port
       IN  IF port_config_phase[p] = "kResettingPort"
           THEN EnableSlot(p)
           ELSE /\ ApplyReset(ResetPort(p, addressing_port, port_config_phase), Tail(events))
                /\ UNCHANGED <<scan, devices, dcbaa, cmds, ep0, intr, slot_state,
                               endpoints, faults>>

(* OnEvent(PortStatusChangeEventTRB).                                      *)
OnPortStatusChange ==
    /\ EventFront("PortStatusChange")
    /\ LET p == Head(events).port
       IN  CASE port_config_phase[p] = "kNotConnected" ->
                  /\ ApplyReset(ResetPort(p, addressing_port, port_config_phase), Tail(events))
                  /\ UNCHANGED <<scan, devices, dcbaa, cmds, ep0, intr, slot_state,
                                 endpoints, faults>>
             [] port_config_phase[p] = "kResettingPort" -> EnableSlot(p)
             [] OTHER -> Fail("INVALID_PHASE")

-----------------------------------------------------------------------------
(* AllocDevice: a slot that already has a device keeps it, and the error   *)
(* code is ignored; then InitializeSlotContext names the port.             *)
AllocDevice(s, p) ==
    IF Allocated(devices[s])
    THEN [devices EXCEPT ![s].in_port = p]
    ELSE [devices EXCEPT ![s] = NewDevice(p)]

LoadDCBAA(s) == [dcbaa EXCEPT ![s] = "context"]

(* AddressDevice: called with the slot of an EnableSlot completion, whose  *)
(* completion code nothing looks at.  Slot ids never exceed kDeviceSize:   *)
(* that is the number of slots the driver enabled in CONFIG.               *)
AddressDevice(p, s) ==
    /\ devices' = AllocDevice(s, p)
    /\ dcbaa' = LoadDCBAA(s)
    /\ port_config_phase' = [port_config_phase EXCEPT ![p] = "kAddressingDevice"]
    /\ cmds' = Append(cmds, [type |-> "AddressDevice", slot |-> s])
    /\ err' = "SUCCESS"
    /\ events' = Tail(events)
    /\ UNCHANGED <<scan, addressing_port, ep0, intr, hcVars>>

(* OnEvent(CommandCompletionEventTRB), first branch.                       *)
OnEnableSlotCompleted ==
    /\ EventFront("CommandCompletion")
    /\ Head(events).issuer = "EnableSlot"
    /\ IF port_config_phase[addressing_port] = "kEnablingSlot"
       THEN AddressDevice(addressing_port, Head(events).slot)
       ELSE Fail("INVALID_PHASE")

(* The scan for a waiting port, after addressing_port became 0: the first  *)
(* one found is reset if it is still connected, and the loop ends.         *)
WaitingPorts(phase) == {p \in Ports : phase[p] = "kWaitingAddressed"}

(* Mutant of ResetFirstWaiting: the scan forgotten.                        *)
ResetFirstWaiting_Never(phase) == ResetPortResult(0, phase, {}, "SUCCESS")

(* ResetPort never fails here: addressing_port is 0 and the port waits.    *)
ResetFirstWaiting(phase) ==
    IF WaitingPorts(phase) = {}
    THEN ResetPortResult(0, phase, {}, "SUCCESS")
    ELSE ResetPort(Min(WaitingPorts(phase)), 0, phase)

(* InitializeDevice, for the port; r is what the scan made of the ports.   *)
InitializeDevice(r, p) == [r EXCEPT !.phase[p] = "kInitializingDevice"]

(* Device::StartInitialize, which asks for the device descriptor.          *)
StartInitialize(d) == [d EXCEPT !.initialize_phase = 1]

(* OnEvent(CommandCompletionEventTRB), second branch.  A failed Address    *)
(* Device command has not written the device context: its port reads 0.    *)
OnAddressDeviceCompleted ==
    /\ EventFront("CommandCompletion")
    /\ Head(events).issuer = "AddressDevice"
    /\ LET s == Head(events).slot
           p == devices[s].ctx_port
           r == ResetFirstWaiting(port_config_phase)
       IN  CASE ~Allocated(devices[s]) -> Fail("INVALID_SLOT_ID")
             [] Allocated(devices[s]) /\ p # addressing_port -> Fail("INVALID_PHASE")
             [] Allocated(devices[s]) /\ p = addressing_port
                  /\ port_config_phase[p] # "kAddressingDevice" -> Fail("INVALID_PHASE")
             [] OTHER ->
                  /\ ApplyReset(InitializeDevice(r, p), Tail(events))
                  /\ devices' = [devices EXCEPT ![s] = StartInitialize(@)]
                  /\ ep0' = [ep0 EXCEPT ![s] = Append(@, "GetDeviceDescriptor")]
                  /\ UNCHANGED <<scan, dcbaa, cmds, intr, slot_state, endpoints, faults>>

(* Device::OnEndpointsConfigured calls every entry of class_drivers_, also *)
(* when two hold the same driver.                                          *)
OnEndpointsConfigured(d) ==
    [d EXCEPT !.hid_phase = IF d.class_drivers = 0 THEN @ ELSE 1]

(* HIDBaseDriver::OnEndpointsConfigured: what each of these calls issues.  *)
HidOnEndpointsConfigured(d) == [i \in 1..d.class_drivers |-> "SetProtocol"]

CompleteConfiguration(p, s) ==
    /\ devices' = [devices EXCEPT ![s] = OnEndpointsConfigured(@)]
    /\ ep0' = [ep0 EXCEPT ![s] = @ \o HidOnEndpointsConfigured(devices[s])]
    /\ port_config_phase' = [port_config_phase EXCEPT ![p] = "kConfigured"]
    /\ err' = "SUCCESS"
    /\ events' = Tail(events)
    /\ UNCHANGED <<scan, addressing_port, dcbaa, cmds, intr, hcVars>>

(* OnEvent(CommandCompletionEventTRB), third branch.                       *)
OnConfigureEndpointCompleted ==
    /\ EventFront("CommandCompletion")
    /\ Head(events).issuer = "ConfigureEndpoint"
    /\ LET s == Head(events).slot
           p == devices[s].ctx_port
       IN  CASE ~Allocated(devices[s]) -> Fail("INVALID_SLOT_ID")
             [] Allocated(devices[s])
                  /\ port_config_phase[p] # "kConfiguringEndpoints" -> Fail("INVALID_PHASE")
             [] OTHER -> CompleteConfiguration(p, s)

-----------------------------------------------------------------------------
(* What the handling of a transfer event does to its device: the device    *)
(* afterwards, the control requests pushed, the interrupt IN transfers     *)
(* pushed, and the error code.                                             *)
TransferEffect(d, requests, polls, code) ==
    [dev |-> d, requests |-> requests, polls |-> polls, err |-> code]

(* Device::InterruptIn.  The transfer ring is there: HID drivers ask for a *)
(* report only after ConfigureEndpoints has allocated it.                  *)
InterruptIn(d) == TransferEffect(d, <<>>, 1, "SUCCESS")

(* Mutant of HidOnControlCompleted: initialize_phase_ not looked at.       *)
HidOnControlCompleted_AnyPhase(d) == InterruptIn([d EXCEPT !.hid_phase = 2])

(* HIDBaseDriver::OnControlCompleted.                                      *)
HidOnControlCompleted(d) ==
    IF d.hid_phase = 1
    THEN InterruptIn([d EXCEPT !.hid_phase = 2])
    ELSE TransferEffect(d, <<>>, 0, "NOT_IMPLEMENTED")

(* Mutant of InitializePhase1: initialize_phase_ left at 1.                *)
InitializePhase1_NoAdvance(d) ==
    TransferEffect(d, <<"GetConfigDescriptor">>, 0, "SUCCESS")

(* Device::InitializePhase1: ask for the first configuration.              *)
InitializePhase1(d) ==
    TransferEffect([d EXCEPT !.initialize_phase = 2], <<"GetConfigDescriptor">>,
                   0, "SUCCESS")

(* Device::InitializePhase2: n is what the configuration descriptor shows. *)
(* A device without a supported interface stays in phase 2.                *)
InitializePhase2(d, n) ==
    IF n = 0
    THEN TransferEffect(d, <<>>, 0, "SUCCESS")
    ELSE TransferEffect([d EXCEPT !.initialize_phase = 3, !.class_drivers = n],
                        <<"SetConfiguration">>, 0, "SUCCESS")

(* Device::InitializePhase3, which also sets is_initialized_.              *)
InitializePhase3(d) ==
    TransferEffect([d EXCEPT !.initialize_phase = 4], <<>>, 0, "SUCCESS")

(* Device::OnControlCompleted.  An initialized device hands the completion *)
(* to the class driver that issued the request; the rest are the driver's  *)
(* own requests, one for each phase.                                       *)
OnControlCompleted(d, request, result, n) ==
    CASE IsInitialized(d) ->
           IF request = "SetProtocol"
           THEN HidOnControlCompleted(d)
           ELSE TransferEffect(d, <<>>, 0, "NO_WAITER")
      [] d.initialize_phase = 1 /\ request = "GetDeviceDescriptor" /\ result = "ok" ->
           InitializePhase1(d)
      [] d.initialize_phase = 2 /\ request = "GetConfigDescriptor" /\ result = "ok" ->
           InitializePhase2(d, n)
      [] d.initialize_phase = 3 /\ request = "SetConfiguration" ->
           InitializePhase3(d)
      [] d.initialize_phase = 0 -> TransferEffect(d, <<>>, 0, "NOT_IMPLEMENTED")
      [] OTHER -> TransferEffect(d, <<>>, 0, "INVALID_PHASE")

(* HIDBaseDriver::OnInterruptCompleted: the report is consumed and the     *)
(* next one asked for.                                                     *)
HidOnInterruptCompleted(d) == InterruptIn(d)

(* Device::OnInterruptCompleted.                                           *)
OnInterruptCompleted(d) ==
    IF d.class_drivers = 0
    THEN TransferEffect(d, <<>>, 0, "NO_WAITER")
    ELSE HidOnInterruptCompleted(d)

(* Device::OnTransferEventReceived.                                        *)
OnTransferEventReceived(d, e, n) ==
    CASE e.result = "failed" -> TransferEffect(d, <<>>, 0, "TRANSFER_FAILED")
      [] e.result # "failed" /\ e.issuer = "Normal" -> OnInterruptCompleted(d)
      [] OTHER -> OnControlCompleted(d, e.issuer, e.result, n)

(* Mutant of ReadyToConfigure: the port's phase not looked at.             *)
ReadyToConfigure_AnyPhase(d) == IsInitialized(d)

(* The test at the end of OnEvent(TransferEventTRB).                       *)
ReadyToConfigure(d) ==
    IsInitialized(d) /\ port_config_phase[d.ctx_port] = "kInitializingDevice"

(* ConfigureEndpoints, after a transfer event that left device s as d.     *)
(* The speed field of a port without a device has no defined value:        *)
(* speed_known says whether it reads as a speed.                           *)
ConfigureEndpoints(d, s, speed_known) ==
    IF speed_known
    THEN /\ port_config_phase' =
               [port_config_phase EXCEPT ![d.ctx_port] = "kConfiguringEndpoints"]
         /\ cmds' = Append(cmds, [type |-> "ConfigureEndpoint", slot |-> s])
         /\ err' = "SUCCESS"
    ELSE /\ err' = "UNKNOWN_XHCI_SPEED_ID"
         /\ UNCHANGED <<port_config_phase, cmds>>

(* OnEvent(TransferEventTRB).                                              *)
OnTransfer ==
    /\ EventFront("Transfer")
    /\ LET e == Head(events)
           s == e.slot
           d == devices[s]
           r == OnTransferEventReceived(d, e, endpoints[d.in_port])
       IN  IF ~Allocated(d)
           THEN Fail("INVALID_SLOT_ID")
           ELSE /\ devices' = [devices EXCEPT ![s] = r.dev]
                /\ ep0' = [ep0 EXCEPT ![s] = @ \o r.requests]
                /\ intr' = [intr EXCEPT ![s] = @ + r.polls]
                /\ events' = Tail(events)
                /\ IF r.err = "SUCCESS" /\ ReadyToConfigure(r.dev)
                   THEN \E speed_known \in BOOLEAN :
                          /\ "ccs" \in portsc[r.dev.ctx_port] => speed_known
                          /\ ConfigureEndpoints(r.dev, s, speed_known)
                   ELSE /\ err' = r.err
                        /\ UNCHANGED <<port_config_phase, cmds>>
                /\ UNCHANGED <<scan, addressing_port, dcbaa, hcVars>>

(* ProcessEvent with nothing at the front of the event ring.               *)
PollIdle ==
    /\ scan > MaxPorts
    /\ events = <<>>
    /\ err' = "SUCCESS"
    /\ UNCHANGED <<scan, addressing_port, port_config_phase, devices, dcbaa,
                   ringVars, hcVars>>

ProcessEvent ==
    \/ OnPortStatusChange
    \/ OnEnableSlotCompleted
    \/ OnAddressDeviceCompleted
    \/ OnConfigureEndpointCompleted
    \/ OnTransfer
    \/ PollIdle

-----------------------------------------------------------------------------
(* The environment (external).                                             *)

Completion(type, s) ==
    [type |-> "CommandCompletion", issuer |-> type, slot |-> s]

CommandFront(type) == cmds # <<>> /\ Head(cmds).type = type

FreeSlots == {s \in 1..kDeviceSize : slot_state[s] = "Disabled"}

(* Enable Slot: slot 0 means that no slot was free.                        *)
HcEnableSlot ==
    /\ CommandFront("EnableSlot")
    /\ \E s \in IF FreeSlots = {} THEN {0} ELSE FreeSlots :
         /\ slot_state' = IF s = 0 THEN slot_state ELSE [slot_state EXCEPT ![s] = "Enabled"]
         /\ events' = Append(events, Completion("EnableSlot", s))
    /\ cmds' = Tail(cmds)
    /\ UNCHANGED <<driverVars, ep0, intr, portsc, endpoints, faults>>

Reachable(s) ==
    LET p == devices[s].in_port IN p # 0 /\ {"ccs", "ped"} \subseteq portsc[p]

(* Whether a step fails although it could succeed, at the cost of a fault. *)
MayFail(failed) ==
    /\ failed => faults < MaxFaults
    /\ faults' = IF failed THEN faults + 1 ELSE faults

(* Address Device: writes the device context the DCBAA points at, if the   *)
(* device answers.                                                         *)
HcAddressDevice ==
    /\ CommandFront("AddressDevice")
    /\ LET s == Head(cmds).slot
       IN  /\ \E failed \in BOOLEAN :
                /\ MayFail(failed)
                /\ IF ~failed /\ slot_state[s] = "Enabled" /\ dcbaa[s] = "context"
                        /\ Reachable(s)
                   THEN /\ slot_state' = [slot_state EXCEPT ![s] = "Addressed"]
                        /\ devices' = [devices EXCEPT ![s].ctx_port = devices[s].in_port]
                   ELSE UNCHANGED <<slot_state, devices>>
           /\ events' = Append(events, Completion("AddressDevice", s))
    /\ cmds' = Tail(cmds)
    /\ UNCHANGED <<scan, addressing_port, port_config_phase, dcbaa, err, ep0, intr,
                   portsc, endpoints>>

(* Configure Endpoint: starts the interrupt endpoints.                     *)
HcConfigureEndpoint ==
    /\ CommandFront("ConfigureEndpoint")
    /\ LET s == Head(cmds).slot
       IN  /\ \E failed \in BOOLEAN :
                /\ MayFail(failed)
                /\ slot_state' = IF ~failed /\ slot_state[s] = "Addressed"
                                 THEN [slot_state EXCEPT ![s] = "Configured"]
                                 ELSE slot_state
           /\ events' = Append(events, Completion("ConfigureEndpoint", s))
    /\ cmds' = Tail(cmds)
    /\ UNCHANGED <<driverVars, ep0, intr, portsc, endpoints>>

Transferred(s, issuer, result) ==
    [type |-> "Transfer", slot |-> s, issuer |-> issuer, result |-> result]

(* The device answers the oldest control request; a descriptor of the      *)
(* wrong type is a fault too.  A failed transfer halts the endpoint, which *)
(* nothing restarts: what is queued behind it is never executed.           *)
HcControlTransfer(s) ==
    /\ ep0[s] # <<>>
    /\ slot_state[s] \in {"Addressed", "Configured"}
    /\ \E result \in TransferResult :
         /\ result = "bad_data" =>
              Head(ep0[s]) \in {"GetDeviceDescriptor", "GetConfigDescriptor"}
         /\ result # "failed" => Reachable(s)
         /\ MayFail(result # "ok" /\ Reachable(s))
         /\ events' = Append(events, Transferred(s, Head(ep0[s]), result))
         /\ ep0' = [ep0 EXCEPT ![s] = IF result = "failed" THEN <<>> ELSE Tail(@)]
    /\ UNCHANGED <<driverVars, cmds, intr, portsc, slot_state, endpoints>>

(* The device sends a report, or the transfer fails and the endpoint halts.*)
HcInterruptTransfer(s) ==
    /\ intr[s] > 0
    /\ slot_state[s] = "Configured"
    /\ \E result \in {"ok", "failed"} :
         /\ result = "ok" => Reachable(s)
         /\ MayFail(result = "failed" /\ Reachable(s))
         /\ events' = Append(events, Transferred(s, "Normal", result))
         /\ intr' = [intr EXCEPT ![s] = IF result = "failed" THEN 0 ELSE @ - 1]
    /\ UNCHANGED <<driverVars, cmds, ep0, portsc, slot_state, endpoints>>

Plug(p) ==
    /\ "ccs" \notin portsc[p]
    /\ portsc' = [portsc EXCEPT ![p] = @ \cup {"ccs", "csc"}]
    /\ events' = events \o PortStatusChange(p, portsc[p])
    /\ UNCHANGED <<driverVars, cmds, ep0, intr, slot_state, endpoints, faults>>

Unplug(p) ==
    /\ "ccs" \in portsc[p]
    /\ faults < MaxFaults
    /\ faults' = faults + 1
    /\ portsc' = [portsc EXCEPT ![p] = (@ \ {"ccs", "ped"}) \cup {"csc"}]
    /\ events' = events \o PortStatusChange(p, portsc[p])
    /\ UNCHANGED <<driverVars, cmds, ep0, intr, slot_state, endpoints>>

HcCommand == HcEnableSlot \/ HcAddressDevice \/ HcConfigureEndpoint

Next ==
    \/ ConfigurePort
    \/ ProcessEvent
    \/ HcCommand
    \/ \E s \in SlotIds : HcControlTransfer(s) \/ HcInterruptTransfer(s)
    \/ \E p \in Ports : Plug(p) \/ Unplug(p)

Spec == Init /\ [][Next]_vars

(* The kernel never stops polling; the controller executes the commands    *)
(* and the control transfers it was given.  Nobody has to plug anything in *)
(* and a device need not ever report anything.                             *)
Fairness ==
    /\ WF_vars(ConfigurePort)
    /\ WF_vars(ProcessEvent)
    /\ WF_vars(HcCommand)
    /\ \A s \in SlotIds : WF_vars(HcControlTransfer(s))

FairSpec == Spec /\ Fairness

-----------------------------------------------------------------------------
(* Properties.                                                             *)

(* Type invariant: the variables of the driver and of the controller keep  *)
(* their types; entry 0 of port_config_phase is never touched.             *)
TypeOK ==
    /\ scan \in 1..(MaxPorts + 1)
    /\ addressing_port \in 0..MaxPorts
    /\ port_config_phase \in [0..MaxPorts -> ConfigPhase]
    /\ port_config_phase[0] = "kNotConnected"
    /\ devices \in [SlotIds -> Device]
    /\ dcbaa \in [SlotIds -> DcbaaEntry]
    /\ err \in ErrorCode
    /\ cmds \in Seq(Command)
    /\ events \in Seq(Event)
    /\ ep0 \in [SlotIds -> Seq(ControlRequest)]
    /\ intr \in [SlotIds -> Nat]
    /\ portsc \in [Ports -> SUBSET PortBits]
    /\ slot_state \in [SlotIds -> SlotState]
    /\ endpoints \in [Ports -> 0..MaxEndpoints]
    /\ faults \in 0..MaxFaults

Busy == {"kResettingPort", "kEnablingSlot", "kAddressingDevice"}

(* Between its reset and its address a port has the bus for itself (the    *)
(* comment above kWaitingAddressed in xhci.cpp): the ports in one of the   *)
(* three phases in between are exactly the port in addressing_port, so     *)
(* there is at most one, and addressing_port is 0 only if there is none.   *)
AddressingExclusive ==
    \A p \in Ports : port_config_phase[p] \in Busy <=> p = addressing_port

(* The order of the phases.                                                *)
Rank(phase) ==
    CASE phase = "kNotConnected" -> 0
      [] phase = "kWaitingAddressed" -> 1
      [] phase = "kResettingPort" -> 2
      [] phase = "kEnablingSlot" -> 3
      [] phase = "kAddressingDevice" -> 4
      [] phase = "kInitializingDevice" -> 5
      [] phase = "kConfiguringEndpoints" -> 6
      [] phase = "kConfigured" -> 7

(* A device belongs to one port, which AddressDevice has dealt with, and a *)
(* port to at most one device: no sequence of resets, unplugs and failures *)
(* enumerates a port into a second slot while the first one is in use.     *)
SlotBinding ==
    \A s \in SlotIds : Allocated(devices[s]) =>
      /\ Rank(port_config_phase[devices[s].in_port]) >= Rank("kAddressingDevice")
      /\ \A t \in SlotIds \ {s} :
           Allocated(devices[t]) => devices[s].in_port # devices[t].in_port

(* Commands of a type and slot that the driver issued and whose completion *)
(* it has not handled.                                                     *)
InFlight(type, slots) ==
      Cardinality({i \in 1..Len(cmds) : cmds[i].type = type /\ cmds[i].slot \in slots})
    + Cardinality({i \in 1..Len(events) :
                     /\ events[i].type = "CommandCompletion"
                     /\ events[i].issuer = type
                     /\ events[i].slot \in slots})

(* A completion always finds the port in the phase that issued the         *)
(* command: one Enable Slot is in flight exactly while the addressing port *)
(* is in kEnablingSlot, an Address Device only in kAddressingDevice, and   *)
(* one Configure Endpoint of a slot exactly while its port is in           *)
(* kConfiguringEndpoints.  So no OnEvent attributes a completion to the    *)
(* wrong port, although the event carries no port.                         *)
CommandOwner ==
    LET phase == port_config_phase[addressing_port] IN
    /\ InFlight("EnableSlot", SlotIds) = IF phase = "kEnablingSlot" THEN 1 ELSE 0
    /\ InFlight("AddressDevice", SlotIds) <= IF phase = "kAddressingDevice" THEN 1 ELSE 0
    /\ \A s \in SlotIds :
         InFlight("ConfigureEndpoint", {s}) =
           IF port_config_phase[devices[s].ctx_port] = "kConfiguringEndpoints" THEN 1 ELSE 0

(* The command ring cannot overrun: Ring::Push does not test for a full    *)
(* ring, and a completion event is handled by reading the command TRB it   *)
(* points at, so the TRB must stay in place until then.  At most one       *)
(* command per device and one for the addressing port are outstanding.     *)
CommandRingBound ==
    Len(cmds) + Cardinality({i \in 1..Len(events) : events[i].type = "CommandCompletion"})
      <= kDeviceSize + 1

(* Events of slot s for the TRBs in issuers.                               *)
TransferEvents(s, issuers) ==
    Cardinality({i \in 1..Len(events) :
                   /\ events[i].type = "Transfer"
                   /\ events[i].slot = s
                   /\ events[i].issuer \in issuers})

(* At most one interrupt IN transfer per device is outstanding or waits to *)
(* be handled, even when two entries of class_drivers_ hold the same HID   *)
(* driver and SetProtocol completes twice: the driver has one report       *)
(* buffer, which a second transfer would overwrite while it is read.       *)
PollOnce == \A s \in SlotIds : intr[s] + TransferEvents(s, {"Normal"}) <= 1

(* The request a device in a given initialize_phase_ waits for.            *)
Expected(d) ==
    CASE d.initialize_phase = 0 -> {}
      [] d.initialize_phase = 1 -> {"GetDeviceDescriptor"}
      [] d.initialize_phase = 2 -> {"GetConfigDescriptor"}
      [] d.initialize_phase = 3 -> {"SetConfiguration"}
      [] d.initialize_phase = 4 -> {"SetProtocol"}

(* A control completion is always the one usb::Device waits for in its     *)
(* phase, and no more are outstanding than the control ring and            *)
(* setup_stage_map_ are sized for: one during initialisation, then one     *)
(* SetProtocol for each entry of class_drivers_.                           *)
RequestMatchesPhase ==
    \A s \in SlotIds :
      LET d == devices[s] IN
      /\ \A i \in 1..Len(ep0[s]) : ep0[s][i] \in Expected(d)
      /\ TransferEvents(s, ControlRequest \ Expected(d)) = 0
      /\ Len(ep0[s]) + TransferEvents(s, ControlRequest)
           <= IF IsInitialized(d) THEN d.class_drivers ELSE 1

(* The device context base address array: entry 0 keeps the scratchpad     *)
(* array that Controller::Initialize stored there, and the entry of a slot *)
(* points at a device context exactly if the slot has a device.            *)
DcbaaFaithful ==
    /\ dcbaa[0] = "scratchpad"
    /\ \A s \in 1..kDeviceSize : dcbaa[s] = "context" <=> Allocated(devices[s])

(* A connected port that waits for its turn waits for somebody: while one  *)
(* is in kWaitingAddressed some port is being addressed, whose completion  *)
(* will look for it.                                                       *)
NoIdleWaiter ==
    (\E p \in Ports : /\ port_config_phase[p] = "kWaitingAddressed"
                      /\ "ccs" \in portsc[p]) => addressing_port # 0

(* When the address of a port is assigned and addressing_port falls back   *)
(* to 0, no connected port is left in kWaitingAddressed: the comments in   *)
(* xhci.cpp say that such a port waits for that sequence to run.           *)
WaiterTakesOver ==
    [][addressing_port # 0 /\ addressing_port' = 0 =>
         \A p \in Ports : port_config_phase'[p] = "kWaitingAddressed" =>
                            "ccs" \notin portsc'[p]]_vars

(* A connected port that the driver does not know of will still be looked  *)
(* at: by the boot loop or because of a queued event.  The controller      *)
(* posts no second event while CSC is set, so one missed is missed forever.*)
NoMissedPlug ==
    \A p \in Ports :
      port_config_phase[p] = "kNotConnected" /\ "ccs" \in portsc[p] =>
        \/ scan <= p
        \/ \E i \in 1..Len(events) : /\ events[i].type = "PortStatusChange"
                                      /\ events[i].port = p

(* No event, early, late or repeated, takes a port back to a phase it has  *)
(* left: no handler starts the enumeration of a port over while an earlier *)
(* one still has commands or transfers in flight.                          *)
PhaseMonotone ==
    [][\A p \in Ports : Rank(port_config_phase[p]) <= Rank(port_config_phase'[p])]_vars

Served(p) ==
    /\ port_config_phase[p] = "kConfigured"
    /\ \E s \in SlotIds : /\ devices[s].ctx_port = p
                           /\ slot_state[s] = "Configured"
                           /\ intr[s] + TransferEvents(s, {"Normal"}) = 1

(* Without faults every supported device that is plugged in, at boot or    *)
(* later, alone or with others, is eventually configured and polled.       *)
EveryDeviceServed ==
    \A p \in Ports : ("ccs" \in portsc[p] /\ endpoints[p] > 0) ~> Served(p)

(* A fault does not outlive itself: once no more happen, a port that has   *)
(* been reset and is enabled gets its address and lets the next one go on, *)
(* whatever was unplugged or failed before, at this port or at another.    *)
(* (A fault in the middle of the sequence stops it for good: xhci.cpp:294.)*)
HealthyPortReleased ==
    \A p \in Ports :
      (/\ faults = MaxFaults
       /\ addressing_port = p
       /\ port_config_phase[p] = "kResettingPort"
       /\ {"ccs", "ped"} \subseteq portsc[p]) ~> addressing_port # p
=============================================================================
