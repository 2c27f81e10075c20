-------------------------------- MODULE PciScan --------------------------------
(***************************************************************************)
(* The PCI bus scan (pci.cpp) and the choice of the USB controller by      *)
(* KernelMain (main.cpp).                                                  *)
(*                                                                         *)
(* The scan is three functions that call each other, here operators on the *)
(* table of devices and the error to be returned.  The initial states are  *)
(* all the machines with few functions; a bridge may lead to any bus, also *)
(* to one already scanned, as firmware leaves a bridge it has not set up.  *)
(***************************************************************************)
EXTENDS Integers, Sequences, FiniteSets, SequencesExt

CONSTANTS
  Buses, Devices, Functions,  \* how many of each, numbered from 0
  MaxFunctions,               \* the number of functions of a machine
  TableSize                   \* devices.size()

ASSUME PciAssumption ==
  {Buses, Devices, Functions, MaxFunctions, TableSize} \subseteq Nat \ {0}

Bus == 0 .. Buses - 1
Place == Bus \X (0 .. Devices - 1) \X (0 .. Functions - 1)

\* What is in a place.  An xHC has a vendor and a first base address register.
Kind ==
  [class : {"other"}]
    \cup [class : {"bridge"}, secondary : Bus]
    \cup [class : {"ehci"}, intel : {TRUE}]
    \cup [class : {"xhc"}, intel : BOOLEAN, bar64 : BOOLEAN]

\* A machine: the functions that are present, and the devices whose header says
\* that there are several functions.  Functions other than 0 need function 0.
Populations ==
  {S \in SUBSET Place : /\ Cardinality(S) \in 1 .. MaxFunctions
                        /\ \A p \in S : <<p[1], p[2], 0>> \in S}

VARIABLES
  machine,
  pc,
  devices,    \* the table, with num_device entries
  err,        \* what scan_all_bus returned
  xhc_dev,    \* the place of the controller, or <<>>
  mmio_base,  \* <<upper, lower>> words of the controller's registers
  routed      \* the ports were switched from EHCI to xHCI
vars == <<machine, pc, devices, err, xhc_dev, mmio_base, routed>>

Present(p) == p \in DOMAIN machine.kind

\* The header of a function that is absent reads as all ones.
IsSingleFunction(bus, dev) == Present(<<bus, dev, 0>>) /\ <<bus, dev>> \notin machine.multi

Init ==
  /\ \E S \in Populations :
       \E k \in [S -> Kind], m \in SUBSET {<<p[1], p[2]>> : p \in S} :
         machine = [kind |-> k, multi |-> m]
  /\ pc = "scan"
  /\ devices = <<>>
  /\ err = "none"
  /\ xhc_dev = <<>>
  /\ mmio_base = <<>>
  /\ routed = FALSE

(***************************************************************************)
(* The scan.  r holds the table and the error so far; after an error each  *)
(* caller returns at once.                                                 *)
(***************************************************************************)
AddDevice(r, p) ==
  IF Len(r.devices) = TableSize
  THEN [r EXCEPT !.err = "FULL"]
  ELSE [r EXCEPT !.devices = Append(@, p)]

\* A loop over numbers that ends at the first error.
Loop(Step(_, _), r, numbers) ==
  FoldLeft(LAMBDA acc, n : IF acc.err = "SUCCESS" THEN Step(acc, n) ELSE acc, r, numbers)

RECURSIVE ScanBus(_, _)

ScanFunction(r, p) ==
  LET added == AddDevice(r, p)
  IN  IF added.err = "SUCCESS" /\ machine.kind[p].class = "bridge"
      THEN ScanBus(added, machine.kind[p].secondary)
      ELSE added

\* A mutated ScanDevice: function 0 only.
ScanDevice_FirstOnly(r, bus, dev) == ScanFunction(r, <<bus, dev, 0>>)

ScanDevice(r, bus, dev) ==
  LET first == ScanFunction(r, <<bus, dev, 0>>)
  IN  IF first.err # "SUCCESS" \/ IsSingleFunction(bus, dev)
      THEN first
      ELSE Loop(LAMBDA acc, f : IF Present(<<bus, dev, f>>)
                                THEN ScanFunction(acc, <<bus, dev, f>>) ELSE acc,
                first, [f \in 1 .. Functions - 1 |-> f])

ScanBus(r, bus) ==
  Loop(LAMBDA acc, d : IF Present(<<bus, d, 0>>) THEN ScanDevice(acc, bus, d) ELSE acc,
       r, [i \in 1 .. Devices |-> i - 1])

\* The buses the scan starts from: bus 0, or with a host bridge of several functions
\* one for each further function.
Roots ==
  IF IsSingleFunction(0, 0) THEN <<0>>
  ELSE SelectSeq([f \in 1 .. Functions - 1 |-> f], LAMBDA f : Present(<<0, 0, f>>))

ScanAllBus ==
  /\ pc = "scan"
  /\ LET r == Loop(ScanBus, [devices |-> <<>>, err |-> "SUCCESS"], Roots)
     IN  /\ devices' = r.devices
         /\ err' = r.err
  /\ pc' = "select"
  /\ UNCHANGED <<machine, xhc_dev, mmio_base, routed>>

IsXhc(p) == machine.kind[p].class = "xhc"
IsIntel(p) == machine.kind[p].class \in {"xhc", "ehci"} /\ machine.kind[p].intel

\* A mutated SelectXhc: the last xHC of all.
SelectXhc_Last == SelectLastInSeq(devices, IsXhc)

\* The index the loop stops at: the first Intel xHC, else the last xHC, else 0.
SelectXhc ==
  LET intel == SelectInSeq(devices, LAMBDA p : IsXhc(p) /\ IsIntel(p))
  IN  IF intel # 0 THEN intel ELSE SelectLastInSeq(devices, IsXhc)

\* Without an xHC a null pointer is used to read its registers.
Select ==
  /\ pc = "select"
  /\ IF SelectXhc = 0
     THEN pc' = "undefined" /\ UNCHANGED xhc_dev
     ELSE pc' = "bar" /\ xhc_dev' = devices[SelectXhc]
  /\ UNCHANGED <<machine, devices, err, mmio_base, routed>>

\* The words of two base address registers: where firmware put the controller, the
\* upper word behind the lower one if the first says so, else another register.
BarRegister(p, i) ==
  IF i = 0 THEN [base |-> "lower", is64 |-> machine.kind[p].bar64]
  ELSE [base |-> IF machine.kind[p].bar64 THEN "upper" ELSE "another", is64 |-> FALSE]

\* read_bar of register 0, without the flags in its low bits.
ReadBar(p) ==
  LET bar == BarRegister(p, 0)
  IN  IF bar.is64 THEN <<BarRegister(p, 1).base, bar.base>> ELSE <<"zero", bar.base>>

\* switch_ehci_to_xhci writes to registers of the xHC if there is an Intel EHCI.
SwitchEhciToXhci(xhc) ==
  /\ IsIntel(xhc)
  /\ \E i \in DOMAIN devices : machine.kind[devices[i]].class = "ehci" /\ IsIntel(devices[i])

OpenXhc ==
  /\ pc = "bar"
  /\ mmio_base' = ReadBar(xhc_dev)
  /\ routed' = SwitchEhciToXhci(xhc_dev)
  /\ pc' = "done"
  /\ UNCHANGED <<machine, devices, err, xhc_dev>>

Next == ScanAllBus \/ Select \/ OpenXhc

Spec == Init /\ [][Next]_vars

--------------------------------------------------------------------------------
(* Reference: which functions there are, by reachability of buses.            *)

VisibleOn(b) ==
  {p \in DOMAIN machine.kind :
     p[1] = b /\ (p[3] = 0 \/ ~IsSingleFunction(b, p[2]))}

BridgesTo(b) == {p \in VisibleOn(b) : machine.kind[p].class = "bridge"}

\* The buses that can be reached in n steps.
ReachableIn[n \in 0 .. Buses] ==
  IF n = 0 THEN {Roots[i] : i \in DOMAIN Roots} \cap Bus
  ELSE ReachableIn[n - 1] \cup
         {machine.kind[p].secondary : p \in UNION {BridgesTo(b) : b \in ReachableIn[n - 1]}}
ReachableBuses == ReachableIn[Buses]
ReachableFunctions == UNION {VisibleOn(b) : b \in ReachableBuses}

\* Every bus is reached in one way only, as firmware numbers them.
IsTree ==
  \A b \in ReachableBuses :
    Cardinality({i \in DOMAIN Roots : Roots[i] = b})
      + Cardinality({p \in ReachableFunctions :
                       machine.kind[p].class = "bridge" /\ machine.kind[p].secondary = b}) = 1

Listed == {devices[i] : i \in DOMAIN devices}

\* SUCCESS means that every function that can be reached is in the table, and on a
\* machine numbered as a tree each is there once, and FULL is returned only if they
\* do not fit; bridges that form a loop end in FULL and not in endless recursion,
\* and the array is never overrun (pci.cpp:25).
ScanComplete ==
  /\ Len(devices) <= TableSize
  /\ err = "SUCCESS" => Listed = ReachableFunctions
  /\ err # "none" /\ IsTree =>
       /\ IsInjective(devices)
       /\ err = IF Cardinality(ReachableFunctions) <= TableSize THEN "SUCCESS" ELSE "FULL"

\* The controller that is started is an xHC, an Intel one if any was found, and is
\* missed only if no xHC can be reached or the table was full (main.cpp:102-114).
\* The driver gets its address, all of it, and registers that only an Intel
\* controller has are written on such a controller only.
XhcFound ==
  /\ xhc_dev # <<>> =>
       /\ IsXhc(xhc_dev)
       /\ (\E p \in Listed : IsXhc(p) /\ IsIntel(p)) => IsIntel(xhc_dev)
  /\ pc = "undefined" => err = "FULL" \/ \A p \in ReachableFunctions : ~IsXhc(p)
  /\ mmio_base # <<>> =>
       mmio_base = IF machine.kind[xhc_dev].bar64 THEN <<"upper", "lower">> ELSE <<"zero", "lower">>
  /\ routed => IsIntel(xhc_dev)
================================================================================
