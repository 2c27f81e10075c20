----------------------------- MODULE EndpointSetup -----------------------------
(***************************************************************************)
(* From the configuration descriptor of a device to the first poll of its  *)
(* interrupt endpoint: the walk over the descriptors (InitializePhase2),   *)
(* the choice of the class driver, SetEndpoint (InitializePhase3), the     *)
(* endpoint contexts and transfer rings of ConfigureEndpoints, and         *)
(* InterruptIn.                                                            *)
(*                                                                         *)
(* Descriptors are well formed and have their lengths in bytes, but the    *)
(* whole configuration may be longer than the buffer it is read into, and  *)
(* an interface may have more endpoints than the driver has room for.      *)
(***************************************************************************)
EXTENDS Integers, Sequences

CONSTANTS
  BufSize,        \* buf_.size(), the bytes asked for
  ConfigEntries,  \* the size of the array ep_configs_
  EndpointNumbers,
  MaxEndpoints,   \* of an interface, whatever the driver has room for
  MaxInterfaces,
  Speeds,         \* port speeds
  Intervals       \* values of bInterval

ASSUME SetupAssumption ==
  /\ BufSize \in Nat /\ BufSize >= 9
  /\ EndpointNumbers \subseteq 1 .. 15
  /\ {ConfigEntries, MaxEndpoints, MaxInterfaces} \subseteq Nat \ {0}
  /\ Speeds \subseteq 1 .. 5
  /\ Intervals \subseteq 1 .. 255

kFullSpeed == 1
kLowSpeed == 2

--------------------------------------------------------------------------------
(* What a device describes.                                                   *)

EndpointDescriptor ==
  [type : {"endpoint"}, number : EndpointNumbers, dir_in : BOOLEAN,
   transfer : {"interrupt", "isochronous", "bulk"}]

\* EndpointID(number, dir_in), the address of an endpoint.
Address(number, dir_in) == number * 2 + (IF dir_in THEN 1 ELSE 0)
Number(addr) == addr \div 2
IsIn(addr) == addr % 2 = 1
AddressOf(d) == Address(d.number, d.dir_in)

\* DeviceContextIndex(ep_id): addresses are chosen so that nothing is converted.
DeviceContextIndex(ep_id) == ep_id

\* The endpoints of an interface, which differ in their addresses.
Endpoints ==
  {e \in UNION {[1 .. n -> EndpointDescriptor] : n \in 0 .. MaxEndpoints} :
     \A i, j \in DOMAIN e : AddressOf(e[i]) = AddressOf(e[j]) => i = j}

\* An interface: whether it is a boot keyboard or mouse, and its endpoints.
Interface == [supported : BOOLEAN, endpoints : Endpoints]

\* No endpoint is described twice in a configuration.
Distinct(c) ==
  \A i, k \in DOMAIN c : \A j \in DOMAIN c[i].endpoints, m \in DOMAIN c[k].endpoints :
    <<i, j>> # <<k, m>> => AddressOf(c[i].endpoints[j]) # AddressOf(c[k].endpoints[m])

\* The descriptors of an interface: itself, the HID descriptor, the endpoints.
Headers(f) == IF f.supported THEN 2 ELSE 1
Described(f, j) ==
  CASE j = 1 -> [type |-> "interface", supported |-> f.supported, num_endpoints |-> Len(f.endpoints)]
    [] j = 2 /\ f.supported -> [type |-> "hid"]
    [] OTHER -> f.endpoints[j - Headers(f)]

Length(d) == CASE d.type = "endpoint" -> 7 [] OTHER -> 9

\* Where the descriptors of interface i end, in bytes; the first interface comes
\* behind the descriptor of the configuration.
Ends(c) ==
  LET end[i \in 0 .. Len(c)] ==
        IF i = 0 THEN 9 ELSE end[i - 1] + 9 * Headers(c[i]) + 7 * Len(c[i].endpoints)
  IN  end
TotalLength(c) == Ends(c)[Len(c)]

VARIABLES
  interfaces,     \* what the device is
  timing,         \* the port's speed and bInterval of the endpoints
  pc,
  p,              \* p_, in bytes from the beginning of buf_
  at,             \* the descriptor at p_: its interface, and its index there
  driver,         \* the interface a class driver was made for, 0 for none
  num_endpoints,  \* of that interface
  ep_configs,
  class_drivers,  \* endpoint numbers to interfaces, 0 for none
  ep_interrupt,   \* ep_interrupt_in_ and ep_interrupt_out_, 0 as constructed
  contexts        \* device context indices to endpoint contexts with a ring
reader == <<p, at>>
device == <<interfaces, timing>>
vars == <<device, pc, reader, driver, num_endpoints, ep_configs, class_drivers, ep_interrupt,
          contexts>>

\* A mutated len: only the configuration descriptor itself.
len_Header == 9

\* The bytes that were transferred.
len == IF TotalLength(interfaces) < BufSize THEN TotalLength(interfaces) ELSE BufSize

Init ==
  /\ \E n \in 1 .. MaxInterfaces : interfaces \in {c \in [1 .. n -> Interface] : Distinct(c)}
  /\ timing \in [speed : Speeds, interval : Intervals]
  /\ pc = "interface"
  /\ p = 0
  /\ at = [interface |-> 0, index |-> 1]
  /\ driver = 0
  /\ num_endpoints = 0
  /\ ep_configs = <<>>
  /\ class_drivers = [n \in EndpointNumbers |-> 0]
  /\ ep_interrupt = [in |-> 0, out |-> 0]
  /\ contexts = <<>>

\* The descriptor at place q of the buffer, that of the configuration in front.
DescriptorAt(q) ==
  IF q.interface = 0 THEN [type |-> "configuration"]
                     ELSE Described(interfaces[q.interface], q.index)

\* The place behind q.
Behind(q) ==
  IF q.interface > 0 /\ q.index < Headers(interfaces[q.interface]) + Len(interfaces[q.interface].endpoints)
  THEN [q EXCEPT !.index = q.index + 1]
  ELSE [interface |-> q.interface + 1, index |-> 1]

\* p_ += p_[0].
NextP == p + Length(DescriptorAt(at))

\* The reader moves on, whatever it then finds.
Advance ==
  /\ p' = NextP
  /\ at' = Behind(at)

\* ConfigurationDescriptorReader::Next: is there a descriptor behind p_?
HasNext == NextP < len

\* The next descriptor begins in the buffer and ends behind it.
NextIsCut == NextP + Length(DescriptorAt(Behind(at))) > len

\* Is d an interface for which NewClassDriver has a driver?
NewClassDriver(d) == d.type = "interface" /\ d.supported

\* One turn of Next<InterfaceDescriptor> and NewClassDriver: descriptors of other
\* types and interfaces without a driver are passed over.
NextInterface ==
  /\ pc = "interface"
  /\ Advance
  /\ \/ /\ ~HasNext
        /\ pc' = "unsupported"
        /\ UNCHANGED <<driver, num_endpoints>>
     \/ /\ HasNext /\ NextIsCut
        /\ pc' = "undefined"
        /\ UNCHANGED <<driver, num_endpoints>>
     \/ /\ HasNext /\ ~NextIsCut
        /\ LET d == DescriptorAt(at')
           IN  IF NewClassDriver(d)
               THEN /\ pc' = "endpoint"
                    /\ driver' = at'.interface
                    /\ num_endpoints' = d.num_endpoints
               ELSE UNCHANGED <<pc, driver, num_endpoints>>
  /\ UNCHANGED <<device, ep_configs, class_drivers, ep_interrupt, contexts>>

\* MakeEPConfig.
MakeEPConfig(d) == [ep_id |-> AddressOf(d), ep_type |-> d.transfer, interval |-> timing.interval]

\* A mutated MoreEndpoints: one endpoint too many is looked for.
MoreEndpoints_OffByOne == Len(ep_configs) <= num_endpoints

\* num_ep_configs_ < if_desc->num_endpoints.
MoreEndpoints == Len(ep_configs) < num_endpoints

\* ep_configs_[num_ep_configs_] = conf, and the driver under the endpoint's number.
\* There is no test for room: with the array full the store goes behind it, into the
\* members that follow.
StoreEndpoint(d) ==
  IF Len(ep_configs) < ConfigEntries
  THEN /\ ep_configs' = Append(ep_configs, MakeEPConfig(d))
       /\ class_drivers' = [class_drivers EXCEPT ![d.number] = driver]
       /\ UNCHANGED pc
  ELSE /\ pc' = "undefined"
       /\ UNCHANGED <<ep_configs, class_drivers>>

\* One turn of the loop that collects num_endpoints endpoints; the end of the buffer
\* yields a null pointer, whose type is read.
NextEndpoint ==
  /\ pc = "endpoint" /\ MoreEndpoints
  /\ Advance
  /\ \/ /\ ~(HasNext /\ ~NextIsCut)
        /\ pc' = "undefined"
        /\ UNCHANGED <<ep_configs, class_drivers>>
     \/ /\ HasNext /\ ~NextIsCut
        /\ LET d == DescriptorAt(at')
           IN  IF d.type = "endpoint"
               THEN StoreEndpoint(d)
               ELSE UNCHANGED <<pc, ep_configs, class_drivers>>
  /\ UNCHANGED <<device, driver, num_endpoints, ep_interrupt, contexts>>

\* HIDBaseDriver::SetEndpoint: the interrupt endpoint of each direction, the last
\* one if there are several.
SetEndpoint(e, c) ==
  CASE c.ep_type = "interrupt" /\ IsIn(c.ep_id)  -> [e EXCEPT !.in = c.ep_id]
    [] c.ep_type = "interrupt" /\ ~IsIn(c.ep_id) -> [e EXCEPT !.out = c.ep_id]
    [] OTHER -> e

\* InitializePhase3, when Set Configuration has completed.
InitializePhase3 ==
  /\ pc = "endpoint" /\ ~MoreEndpoints
  /\ ep_interrupt' =
       LET after[i \in 0 .. Len(ep_configs)] ==
             IF i = 0 THEN ep_interrupt ELSE SetEndpoint(after[i - 1], ep_configs[i])
       IN  after[Len(ep_configs)]
  /\ pc' = "configure"
  /\ UNCHANGED <<device, reader, driver, num_endpoints, ep_configs, class_drivers, contexts>>

\* The index of the highest bit that is 1, or -1.
MostSignificantBit(v) ==
  IF v = 0 THEN -1 ELSE CHOOSE i \in 0 .. 7 : 2 ^ i <= v /\ v < 2 ^ (i + 1)

\* A mutated ConvertInterval: the code for high speed whatever the speed.
ConvertInterval_HighSpeed(speed, type, interval) == interval - 1

\* The logarithm of the period in units of 125 microseconds.
ConvertInterval(speed, type, interval) ==
  IF speed \in {kFullSpeed, kLowSpeed}
  THEN IF type = "isochronous" THEN interval + 2 ELSE MostSignificantBit(interval) + 3
  ELSE interval - 1

\* A mutated EpType: the codes of the directions exchanged.
EpType_Swapped(type, in) ==
  CASE type = "isochronous" -> IF in THEN 1 ELSE 5
    [] type = "bulk"        -> IF in THEN 2 ELSE 6
    [] type = "interrupt"   -> IF in THEN 3 ELSE 7

\* The endpoint type of an endpoint context.
EpType(type, in) ==
  CASE type = "isochronous" -> IF in THEN 5 ELSE 1
    [] type = "bulk"        -> IF in THEN 6 ELSE 2
    [] type = "interrupt"   -> IF in THEN 7 ELSE 3

\* The context field has 8 bits.
EndpointContext(c) ==
  [ep_type  |-> EpType(c.ep_type, IsIn(c.ep_id)),
   interval |-> ConvertInterval(timing.speed, c.ep_type, c.interval) % 256]

\* The configuration whose context is stored last under dci.
LastFor(dci) ==
  ep_configs[CHOOSE i \in DOMAIN ep_configs :
               /\ DeviceContextIndex(ep_configs[i].ep_id) = dci
               /\ \A j \in DOMAIN ep_configs :
                    DeviceContextIndex(ep_configs[j].ep_id) = dci => j <= i]

\* ConfigureEndpoints: a context and a ring for each endpoint.
ConfigureEndpoints ==
  /\ pc = "configure"
  /\ contexts' = [dci \in {DeviceContextIndex(ep_configs[i].ep_id) : i \in DOMAIN ep_configs} |->
                    EndpointContext(LastFor(dci))]
  /\ pc' = "poll"
  /\ UNCHANGED <<device, reader, driver, num_endpoints, ep_configs, class_drivers, ep_interrupt>>

\* InterruptIn on the driver's endpoint; with the index 0 of an endpoint that was
\* never set, the ring is looked up in front of the array.
InterruptIn ==
  /\ pc = "poll"
  /\ pc' = IF DeviceContextIndex(ep_interrupt.in) = 0 THEN "undefined" ELSE "polling"
  /\ UNCHANGED <<device, reader, driver, num_endpoints, ep_configs, class_drivers, ep_interrupt,
                 contexts>>

Next == NextInterface \/ NextEndpoint \/ InitializePhase3 \/ ConfigureEndpoints \/ InterruptIn

Spec == Init /\ [][Next]_vars

--------------------------------------------------------------------------------
\* Interface k is the first one with a driver.
FirstSupported(k) ==
  /\ k \in DOMAIN interfaces
  /\ interfaces[k].supported
  /\ \A i \in 1 .. k - 1 : ~interfaces[i].supported

\* The first interface with a driver, 0 if there is none.
Chosen ==
  IF \E k \in DOMAIN interfaces : interfaces[k].supported
  THEN CHOOSE k \in DOMAIN interfaces : FirstSupported(k)
  ELSE 0

HasInterruptIn(f) ==
  \E i \in DOMAIN f.endpoints :
    f.endpoints[i].transfer = "interrupt" /\ f.endpoints[i].dir_in

\* While it goes on, the walk stands at a descriptor that lies in the buffer as a
\* whole.  It reads no null pointer and stores nothing behind ep_configs_, and the
\* poll finds its ring, unless the configuration is longer than the buffer
\* (device.cpp:295), the chosen interface has more endpoints than ep_configs_ has
\* entries (device.cpp:303, device.hpp:86), or it lacks the interrupt IN endpoint it
\* must have (xhci/device.cpp:269); other interfaces do not matter.  No context is
\* stored outside the array of contexts.
WalkSafe ==
  /\ pc \in {"interface", "endpoint"} => NextP <= len
  /\ pc = "undefined" =>
       \/ TotalLength(interfaces) > BufSize
       \/ Len(interfaces[Chosen].endpoints) > ConfigEntries
       \/ ~HasInterruptIn(interfaces[Chosen])
  /\ \A dci \in DOMAIN contexts : dci \in 2 .. 31

\* The endpoints that are configured, and the numbers whose events reach the driver,
\* are those of the first supported interface and of no other one; and a device with
\* such an interface is not taken for one without (device.cpp:316).
RightInterface ==
  /\ pc = "unsupported" => Chosen = 0 \/ TotalLength(interfaces) > BufSize
  /\ pc \in {"configure", "poll", "polling"} =>
       /\ driver = Chosen
       /\ [i \in DOMAIN ep_configs |-> ep_configs[i].ep_id]
            = [i \in DOMAIN interfaces[Chosen].endpoints |->
                 AddressOf(interfaces[Chosen].endpoints[i])]
       /\ \A n \in EndpointNumbers :
            class_drivers[n] = IF \E i \in DOMAIN ep_configs : Number(ep_configs[i].ep_id) = n
                               THEN Chosen ELSE 0

\* What is polled is an interrupt IN endpoint with a context and a ring, and its
\* events go to the driver that polls it.
PollFinds ==
  pc = "polling" =>
    /\ ep_interrupt.in \in DOMAIN contexts
    /\ contexts[ep_interrupt.in].ep_type = 7
    /\ class_drivers[Number(ep_interrupt.in)] = driver

\* The period an endpoint asks for, in units of 125 microseconds.
AskedPeriod(speed, type, interval) ==
  CASE speed \in {kFullSpeed, kLowSpeed} /\ type = "interrupt" -> 8 * interval
    [] speed \in {kFullSpeed, kLowSpeed} /\ type = "isochronous" -> 8 * 2 ^ (interval - 1)
    [] OTHER -> 2 ^ (interval - 1)

\* What USB allows: full and low speed interrupt endpoints give a number of frames,
\* all others a logarithm.
LegalInterval(speed, type, interval) ==
  \/ speed \in {kFullSpeed, kLowSpeed} /\ type = "interrupt"
  \/ interval \in 1 .. 16

\* No endpoint is polled less often than it asks for, or more than twice as often
\* (xhci.cpp:531-543).
PeriodFits ==
  \A dci \in DOMAIN contexts :
    \A c \in {ep_configs[i] : i \in DOMAIN ep_configs} :
      c.ep_id = dci /\ c.ep_type # "bulk" /\ LegalInterval(timing.speed, c.ep_type, c.interval) =>
        LET asked == AskedPeriod(timing.speed, c.ep_type, c.interval)
        IN  /\ 2 ^ contexts[dci].interval <= asked
            /\ asked < 2 ^ (contexts[dci].interval + 1)
================================================================================
