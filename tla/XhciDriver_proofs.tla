-------------------------- MODULE XhciDriver_proofs --------------------------
(***************************************************************************)
(* Theorems about XhciDriver for every number of ports, slots, endpoints   *)
(* and faults, from three inductive invariants: who is being addressed and *)
(* which device belongs to which port (Inv); what is in flight for each    *)
(* slot (Flown), which needs the first; and that no port is forgotten as   *)
(* long as nothing was unplugged and nothing failed (Seen).                *)
(***************************************************************************)
EXTENDS XhciDriver, FiniteSetTheorems, SequenceTheorems, WellFoundedInduction, TLAPS

-----------------------------------------------------------------------------
(* Induction and sequences.                                                *)

(* A set of natural numbers has a least element.                           *)
LEMMA LeastNat ==
    ASSUME NEW T, T \subseteq Nat, T # {}
    PROVE  \E x \in T : \A y \in T : x <= y
<1>1. PICK x \in T : \A y \in T : ~(<<y, x>> \in OpToRel(<, Nat))
  BY WFMin, NatLessThanWellFounded
<1>2. \A y \in T : ~(y < x)
  BY <1>1 DEF OpToRel
<1> QED
  BY <1>2

(* A set with 0 and the successors of its elements has all of Nat.         *)
LEMMA SetInduction ==
    ASSUME NEW S, 0 \in S, \A n \in Nat : n \in S => n + 1 \in S
    PROVE  Nat \subseteq S
<1> SUFFICES ASSUME ~(Nat \subseteq S) PROVE FALSE
  OBVIOUS
<1>1. PICK x \in Nat \ S : \A y \in Nat \ S : x <= y
  <2>1. Nat \ S # {} /\ Nat \ S \subseteq Nat
    OBVIOUS
  <2> QED
    BY <2>1, LeastNat
<1>2. x # 0 /\ x - 1 \in Nat /\ x - 1 \in S
  BY <1>1
<1> QED
  BY <1>1, <1>2

(* The same for the numbers up to n.                                       *)
LEMMA BoundedInduction ==
    ASSUME NEW n \in Nat, NEW S, 0 \in S, \A i \in 1..n : i - 1 \in S => i \in S
    PROVE  0..n \subseteq S
<1> DEFINE T == {i \in Nat : i <= n => i \in S}
<1>1. 0 \in T
  OBVIOUS
<1>2. ASSUME NEW i \in Nat, i \in T PROVE i + 1 \in T
  <2> SUFFICES ASSUME i + 1 <= n PROVE i + 1 \in S
    OBVIOUS
  <2>1. i + 1 \in 1..n /\ (i + 1) - 1 = i /\ i \in S
    BY <1>2
  <2> QED
    BY <2>1
<1>3. Nat \subseteq T
  <2> HIDE DEF T
  <2> QED
    BY <1>1, <1>2, SetInduction
<1> QED
  BY <1>3

(* A function on 1..n is a sequence of length n.                           *)
LEMMA FcnLen ==
    ASSUME NEW S, NEW n \in Nat, NEW F \in [1..n -> S]
    PROVE  F \in Seq(S) /\ Len(F) = n
<1>1. F \in Seq(S)
  BY IsASeq
<1>2. Len(F) \in Nat /\ DOMAIN F = 1..Len(F)
  BY <1>1, LenProperties
<1>3. DOMAIN F = 1..n
  OBVIOUS
<1>4. 1..n = 1..Len(F)
  BY <1>2, <1>3
<1> QED
  BY <1>1, <1>2, <1>4

(* How many elements of a queue belong to a set, and how that changes.     *)
Matches(q, S) == {i \in 1..Len(q) : q[i] \in S}
Occurrences(q, S) == Cardinality(Matches(q, S))

(* A count is a number, and 0 exactly if nothing matches.                  *)
LEMMA CountType ==
    ASSUME NEW X, NEW q \in Seq(X), NEW S
    PROVE  /\ IsFiniteSet(Matches(q, S)) /\ Occurrences(q, S) \in Nat
           /\ Occurrences(q, S) = 0 <=> \A i \in 1..Len(q) : q[i] \notin S
<1>1. Len(q) \in Nat
  BY LenProperties
<1>2. IsFiniteSet(1..Len(q)) /\ Matches(q, S) \in SUBSET (1..Len(q))
  BY <1>1, FS_Interval DEF Matches
<1>3. IsFiniteSet(Matches(q, S))
  BY <1>2, FS_Subset
<1>4. Occurrences(q, S) = 0 <=> Matches(q, S) = {}
  BY <1>3, FS_EmptySet DEF Occurrences
<1> QED
  BY <1>3, <1>4, FS_CardinalityType DEF Occurrences, Matches

(* Nothing matches in the empty sequence.                                  *)
LEMMA CountEmpty ==
    ASSUME NEW S
    PROVE  Occurrences(<<>>, S) = 0
<1>1. Matches(<<>>, S) = {}
  BY DEF Matches
<1> QED
  BY <1>1, FS_EmptySet DEF Occurrences

(* What appending an element adds.                                         *)
LEMMA CountAppend ==
    ASSUME NEW X, NEW q \in Seq(X), NEW e \in X, NEW S
    PROVE  Occurrences(Append(q, e), S) = Occurrences(q, S) + (IF e \in S THEN 1 ELSE 0)
<1> DEFINE n == Len(q)
           r == Append(q, e)
<1>1. /\ n \in Nat /\ Len(r) = n + 1 /\ \A i \in 1..n : r[i] = q[i]
      /\ r[n + 1] = e
  BY LenProperties, AppendProperties
<1>2. IsFiniteSet(Matches(q, S)) /\ Occurrences(q, S) \in Nat
  BY CountType
<1> HIDE DEF n, r
<1>3. Matches(q, S) = {i \in 1..n : q[i] \in S}
  BY DEF Matches, n
<1>4. Matches(r, S) = {i \in 1..(n + 1) : r[i] \in S}
  BY <1>1 DEF Matches
<1>5. CASE e \in S
  <2>1. Matches(r, S) = Matches(q, S) \cup {n + 1} /\ n + 1 \notin Matches(q, S)
    BY <1>1, <1>3, <1>4, <1>5
  <2> QED
    BY <1>2, <1>5, <2>1, FS_AddElement DEF Occurrences, r
<1>6. CASE e \notin S
  <2>1. Matches(r, S) = Matches(q, S)
    BY <1>1, <1>3, <1>4, <1>6
  <2> QED
    BY <1>2, <1>6, <2>1 DEF Occurrences, r
<1> QED
  BY <1>5, <1>6

(* What removing the first element takes away.                             *)
LEMMA CountTail ==
    ASSUME NEW X, NEW q \in Seq(X), q # <<>>, NEW S
    PROVE  Occurrences(q, S) = Occurrences(Tail(q), S) + (IF Head(q) \in S THEN 1 ELSE 0)
<1> DEFINE n == Len(q)
           r == Tail(q)
           A == Matches(q, S) \ {1}
           B == Matches(r, S)
           f == [i \in B |-> i + 1]
<1>1. /\ n \in Nat \ {0} /\ r \in Seq(X) /\ Len(r) = n - 1 /\ \A i \in 1..(n - 1) : r[i] = q[i + 1]
      /\ Head(q) = q[1]
  BY LenProperties, HeadTailProperties, EmptySeq
<1>2. /\ IsFiniteSet(Matches(q, S)) /\ Occurrences(q, S) \in Nat
      /\ IsFiniteSet(B) /\ Cardinality(B) \in Nat /\ Cardinality(B) = Occurrences(r, S)
  BY <1>1, CountType DEF Occurrences
<1>3. /\ A = {i \in 2..n : q[i] \in S}
      /\ B = {i \in 1..(n - 1) : q[i + 1] \in S}
  BY <1>1 DEF Matches
<1>4. f \in Bijection(B, A)
  <2> HIDE DEF A, B
  <2>1. f \in [B -> A]
    BY <1>1, <1>3
  <2>2. \A i, j \in B : f[i] = f[j] => i = j
    BY <1>1, <1>3
  <2>3. \A k \in A : \E i \in B : f[i] = k
    <3> SUFFICES ASSUME NEW k \in A PROVE \E i \in B : f[i] = k
      OBVIOUS
    <3>1. k - 1 \in B /\ f[k - 1] = k
      BY <1>1, <1>3
    <3> QED
      BY <3>1
  <2> QED
    BY <2>1, <2>2, <2>3 DEF Bijection, Injection, Surjection, IsInjective
<1>5. Cardinality(A) = Cardinality(B)
  <2> HIDE DEF A, B
  <2>1. ExistsBijection(B, A)
    BY <1>4 DEF ExistsBijection
  <2> QED
    BY <1>2, <2>1, FS_Bijection
<1>6. Cardinality(A) = IF 1 \in Matches(q, S) THEN Occurrences(q, S) - 1 ELSE Occurrences(q, S)
  BY <1>2, FS_RemoveElement DEF Occurrences
<1>7. 1 \in Matches(q, S) <=> Head(q) \in S
  BY <1>1 DEF Matches
<1> HIDE DEF A, B
<1> QED
  BY <1>2, <1>5, <1>6, <1>7

(* The counts of disjoint sets add up.                                     *)
LEMMA CountUnion ==
    ASSUME NEW X, NEW q \in Seq(X), NEW S, NEW T, S \cap T = {}
    PROVE  Occurrences(q, S \cup T) = Occurrences(q, S) + Occurrences(q, T)
<1>1. /\ IsFiniteSet(Matches(q, S)) /\ IsFiniteSet(Matches(q, T))
      /\ Occurrences(q, S) \in Nat /\ Occurrences(q, T) \in Nat
  BY CountType
<1>2. Matches(q, S \cup T) = Matches(q, S) \cup Matches(q, T) /\ Matches(q, S) \cap Matches(q, T) = {}
  BY DEF Matches
<1>3. Cardinality(Matches(q, S) \cup Matches(q, T)) =
        Cardinality(Matches(q, S)) + Cardinality(Matches(q, T)) - Cardinality({})
  BY <1>1, <1>2, FS_Union
<1>4. Cardinality({}) = 0
  BY FS_EmptySet
<1>5. /\ Occurrences(q, S) = Cardinality(Matches(q, S)) /\ Occurrences(q, T) = Cardinality(Matches(q, T))
      /\ Occurrences(q, S \cup T) = Cardinality(Matches(q, S) \cup Matches(q, T))
  BY <1>2, Zenon DEF Occurrences
<1> QED
  BY <1>1, <1>3, <1>4, <1>5

-----------------------------------------------------------------------------
USE MaxPortsAssumption, DeviceSizeAssumption, MaxEndpointsAssumption,
    MaxFaultsAssumption
USE DEF Allocated

-----------------------------------------------------------------------------
(* A nonempty set of naturals has a smallest element, so Min chooses one   *)
(* of its elements.                                                        *)
LEMMA MinInSet ==
    ASSUME NEW S \in SUBSET Nat, S # {}
    PROVE  Min(S) \in S
<1>1. \E x \in S : \A y \in S : x <= y
  BY LeastNat
<1> QED
  BY <1>1 DEF Min

-----------------------------------------------------------------------------
(* What every driver step maintains about addressing_port and              *)
(* port_config_phase, for values they have in the middle of a handler.     *)
GoodPhases(ap, phase) ==
    /\ ap \in 0..MaxPorts
    /\ phase \in [0..MaxPorts -> ConfigPhase]
    /\ phase[0] = "kNotConnected"
    /\ \A p \in Ports : phase[p] \in Busy <=> p = ap

(* No port falls back from phase to phase2.                                *)
Advances(phase, phase2) ==
    \A p \in Ports : Rank(phase[p]) <= Rank(phase2[p])

(* The inductive invariant.                                                *)
Inv == TypeOK /\ AddressingExclusive /\ SlotBinding

(* Inv contains GoodPhases of the two variables.                           *)
LEMMA InvGoodPhases ==
    ASSUME Inv
    PROVE  GoodPhases(addressing_port, port_config_phase)
BY DEF Inv, TypeOK, AddressingExclusive, GoodPhases

(* Moving a port along within Busy, or from one phase outside to another,  *)
(* keeps GoodPhases.                                                       *)
LEMMA SetPhase ==
    ASSUME NEW ap, NEW phase, GoodPhases(ap, phase),
           NEW p \in Ports, NEW new \in ConfigPhase,
           new \in Busy <=> phase[p] \in Busy,
           Rank(phase[p]) <= Rank(new)
    PROVE  /\ GoodPhases(ap, [phase EXCEPT ![p] = new])
           /\ Advances(phase, [phase EXCEPT ![p] = new])
<1>1. \A q \in Ports : phase[q] \in ConfigPhase
  BY DEF GoodPhases, Ports
<1>2. \A q \in Ports : Rank(phase[q]) \in Nat
  BY <1>1 DEF Rank, ConfigPhase
<1> QED
  BY <1>2 DEF GoodPhases, Advances, Ports

(* ResetPort, called for a port that is not connected or waits.            *)
LEMMA ResetPortGood ==
    ASSUME NEW ap, NEW phase, GoodPhases(ap, phase),
           NEW p \in Ports, phase[p] \in {"kNotConnected", "kWaitingAddressed"}
    PROVE  LET r == ResetPort(p, ap, phase) IN
           /\ GoodPhases(r.ap, r.phase)
           /\ Advances(phase, r.phase)
           /\ \A q \in Ports \ {p} : r.phase[q] = phase[q]
           /\ r.resets \in SUBSET Ports
           /\ r.err \in ErrorCode
<1> DEFINE r == ResetPort(p, ap, phase)
<1>1. \A q \in Ports : phase[q] \in ConfigPhase /\ Rank(phase[q]) \in Nat
  BY DEF GoodPhases, Ports, Rank, ConfigPhase
<1>2. Advances(phase, phase)
  BY <1>1 DEF Advances
<1>3. CASE "ccs" \notin portsc[p]
  <2>1. r = [ap |-> ap, phase |-> phase, resets |-> {}, err |-> "SUCCESS"]
    BY <1>3 DEF ResetPort, ResetPortResult
  <2> QED BY <2>1, <1>2 DEF ErrorCode
<1>4. CASE "ccs" \in portsc[p] /\ ap # 0
  <2> DEFINE new == [phase EXCEPT ![p] = "kWaitingAddressed"]
  <2>1. r = [ap |-> ap, phase |-> new, resets |-> {}, err |-> "SUCCESS"]
    BY <1>4 DEF ResetPort, ResetPortResult
  <2>2. GoodPhases(ap, new) /\ Advances(phase, new)
    <3>1. /\ "kWaitingAddressed" \in ConfigPhase
          /\ "kWaitingAddressed" \in Busy <=> phase[p] \in Busy
          /\ Rank(phase[p]) <= Rank("kWaitingAddressed")
      BY DEF ConfigPhase, Busy, Rank
    <3> QED BY <3>1, SetPhase
  <2>3. \A q \in Ports \ {p} : new[q] = phase[q]
    BY DEF GoodPhases, Ports
  <2> HIDE DEF new
  <2> QED BY <2>1, <2>2, <2>3 DEF ErrorCode
<1>5. CASE "ccs" \in portsc[p] /\ ap = 0
  <2> DEFINE new == [phase EXCEPT ![p] = "kResettingPort"]
  <2>1. r = [ap |-> p, phase |-> new, resets |-> {p}, err |-> "SUCCESS"]
    BY <1>5 DEF ResetPort, ResetPortResult
  <2>2. GoodPhases(p, new)
    BY <1>5 DEF GoodPhases, Ports, ConfigPhase, Busy
  <2>3. Advances(phase, new)
    <3>1. Rank(phase[p]) <= Rank("kResettingPort")
      BY DEF Rank
    <3> QED BY <3>1, <1>1 DEF Advances, GoodPhases, Ports
  <2>4. \A q \in Ports \ {p} : new[q] = phase[q]
    BY DEF GoodPhases, Ports
  <2> HIDE DEF new
  <2> QED BY <2>1, <2>2, <2>3, <2>4 DEF ErrorCode
<1> QED
  BY <1>3, <1>4, <1>5

(* The phases of a port whose device is being initialised or is.           *)
Late == {"kInitializingDevice", "kConfiguringEndpoints", "kConfigured"}

(* The ports of one step that keep their phase, or their distance to Late. *)
QuietPort(phase, phase2, p) ==
    phase2[p] = phase[p] \/ (phase[p] \notin Late /\ phase2[p] \notin Late)

(* What ResetPort means for the commands in flight: it never disturbs the  *)
(* port that is being addressed.                                           *)
QuietReset(ap, phase, ap2, phase2) ==
    /\ \A q \in 0..MaxPorts : QuietPort(phase, phase2, q)
    /\ \/ ap2 = ap /\ phase2[ap] = phase[ap]
       \/ ap = 0 /\ phase2[ap2] = "kResettingPort"

(* ResetPort is quiet in that sense.                                       *)
LEMMA ResetPortQuiet ==
    ASSUME NEW ap, NEW phase, GoodPhases(ap, phase),
           NEW p \in Ports, phase[p] \in {"kNotConnected", "kWaitingAddressed"}
    PROVE  LET r == ResetPort(p, ap, phase) IN QuietReset(ap, phase, r.ap, r.phase)
<1> DEFINE r == ResetPort(p, ap, phase)
<1>1. /\ phase \in [0..MaxPorts -> ConfigPhase] /\ p \in 0..MaxPorts /\ ap \in 0..MaxPorts
      /\ p # ap /\ phase[0] = "kNotConnected" /\ p # 0
  BY DEF GoodPhases, Ports, Busy
<1> DEFINE waiting == [phase EXCEPT ![p] = "kWaitingAddressed"]
           resetting == [phase EXCEPT ![p] = "kResettingPort"]
<1>2. \/ r = [ap |-> ap, phase |-> phase, resets |-> {}, err |-> "SUCCESS"]
      \/ r = [ap |-> ap, phase |-> waiting, resets |-> {}, err |-> "SUCCESS"]
      \/ ap = 0 /\ r = [ap |-> p, phase |-> resetting, resets |-> {p}, err |-> "SUCCESS"]
  BY DEF ResetPort, ResetPortResult
<1> HIDE DEF r, waiting, resetting
<1>3. \/ r.ap = ap /\ r.phase = phase
      \/ r.ap = ap /\ r.phase = waiting
      \/ r.ap = p /\ ap = 0 /\ r.phase = resetting
  BY <1>2
<1>4. \A q \in 0..MaxPorts : QuietPort(phase, r.phase, q)
  BY <1>1, <1>3 DEF QuietPort, Late, waiting, resetting
<1>5. \/ r.ap = ap /\ r.phase[ap] = phase[ap]
      \/ ap = 0 /\ r.phase[r.ap] = "kResettingPort"
  BY <1>1, <1>3 DEF waiting, resetting
<1> QED
  BY <1>4, <1>5 DEF QuietReset, r

(* The registers and the events after resetting ports have their types.    *)
LEMMA PortscAfterType ==
    ASSUME TypeOK, NEW resets \in SUBSET Ports
    PROVE  PortscAfter(resets) \in [Ports -> SUBSET PortBits]
BY DEF TypeOK, PortscAfter, PortReset, ResetWrite, PortscWrite, PortBits

(* The events a port posts are events.                                     *)
LEMMA PortStatusChangeType ==
    ASSUME NEW p \in Ports, NEW before
    PROVE  PortStatusChange(p, before) \in Seq(Event)
<1>1. [type |-> "PortStatusChange", port |-> p] \in Event
  BY DEF Event, PortStatusChangeEvent
<1> QED
  BY <1>1 DEF PortStatusChange

(* So are those of a reset.                                                *)
LEMMA EventsAfterType ==
    ASSUME NEW resets \in SUBSET Ports
    PROVE  EventsAfter(resets) \in Seq(Event)
<1>1. CASE resets = {}
  BY <1>1 DEF EventsAfter
<1>2. CASE resets # {}
  <2> DEFINE p == CHOOSE q \in resets : TRUE
  <2>1. p \in Ports
    BY <1>2
  <2>2. EventsAfter(resets) = PortStatusChange(p, ResetWrite(portsc[p]))
    BY <1>2 DEF EventsAfter
  <2> HIDE DEF p
  <2> QED BY <2>1, <2>2, PortStatusChangeType
<1> QED
  BY <1>1, <1>2

-----------------------------------------------------------------------------
(* What a step has to show about the phases and the devices to preserve    *)
(* everything but the types.                                               *)
PhasesStep ==
    /\ GoodPhases(addressing_port', port_config_phase')
    /\ Advances(port_config_phase, port_config_phase')

SameBinding ==
    \A s \in SlotIds : /\ devices'[s].in_port = devices[s].in_port

(* A step that leaves the phases alone.                                    *)
LEMMA PhasesUnchanged ==
    ASSUME Inv, UNCHANGED <<addressing_port, port_config_phase>>
    PROVE  PhasesStep
<1>1. \A q \in Ports : Rank(port_config_phase[q]) \in Nat
  BY DEF Inv, TypeOK, Ports, Rank, ConfigPhase
<1> QED
  BY <1>1, InvGoodPhases DEF PhasesStep, Advances, GoodPhases

(* SlotBinding survives as long as no device is bound: its port can only   *)
(* advance.                                                                *)
LEMMA BindingKept ==
    ASSUME Inv, PhasesStep, SameBinding
    PROVE  SlotBinding'
<1> SUFFICES ASSUME NEW s \in SlotIds, Allocated(devices'[s])
             PROVE  /\ Rank(port_config_phase'[devices'[s].in_port]) >= Rank("kAddressingDevice")
                    /\ \A t \in SlotIds \ {s} :
                         Allocated(devices'[t]) => devices'[s].in_port # devices'[t].in_port
  BY DEF SlotBinding
<1> DEFINE p == devices[s].in_port
<1>1. /\ Allocated(devices[s])
      /\ devices'[s].in_port = p
      /\ p # 0
      /\ Rank(port_config_phase[p]) >= Rank("kAddressingDevice")
  BY DEF SameBinding, Inv, SlotBinding
<1>2. p \in Ports
  <2>1. devices[s] \in Device
    BY DEF Inv, TypeOK
  <2> QED BY <1>1, <2>1 DEF Device, Ports
<1>3. Rank(port_config_phase'[p]) >= Rank("kAddressingDevice")
  <2>1. port_config_phase[p] \in ConfigPhase /\ port_config_phase'[p] \in ConfigPhase
    BY <1>2 DEF Inv, TypeOK, PhasesStep, GoodPhases, Ports
  <2>2. Rank(port_config_phase[p]) \in Nat /\ Rank(port_config_phase'[p]) \in Nat
    BY <2>1 DEF Rank, ConfigPhase
  <2>3. Rank(port_config_phase[p]) <= Rank(port_config_phase'[p])
    BY <1>2 DEF PhasesStep, Advances
  <2>4. Rank("kAddressingDevice") = 4
    BY DEF Rank
  <2> QED BY <1>1, <2>2, <2>3, <2>4
<1>4. \A t \in SlotIds \ {s} : Allocated(devices'[t]) => p # devices'[t].in_port
  BY <1>1 DEF SameBinding, Inv, SlotBinding
<1> QED
  BY <1>1, <1>3, <1>4

(* The types of what is not about the phases.                              *)
OtherTypes ==
    /\ scan \in 1..(MaxPorts + 1)
    /\ devices \in [SlotIds -> Device]
    /\ dcbaa \in [SlotIds -> DcbaaEntry]
    /\ err \in ErrorCode
    /\ cmds \in Seq(Command)
    /\ events \in Seq(Event)
    /\ ep0 \in [SlotIds -> Seq(ControlRequest)]
    /\ intr \in [SlotIds -> Nat]
    /\ portsc \in [Ports -> SUBSET PortBits]
    /\ slot_state \in [SlotIds -> SlotState]
    /\ endpoints \in [Ports -> 0..MaxEndpoints]
    /\ faults \in 0..MaxFaults

(* The inductive invariant contains them.                                  *)
LEMMA InvOtherTypes == Inv => OtherTypes
BY DEF Inv, TypeOK, OtherTypes

(* The goal of a step, put together.                                       *)
Step == Inv' /\ Advances(port_config_phase, port_config_phase')

(* The phases, the other types and the binding make a step.                *)
LEMMA StepFromParts ==
    ASSUME PhasesStep, OtherTypes', SlotBinding'
    PROVE  Step
<1>1. TypeOK'
  BY DEF PhasesStep, GoodPhases, OtherTypes, TypeOK
<1>2. AddressingExclusive'
  BY DEF PhasesStep, GoodPhases, AddressingExclusive
<1> QED
  BY <1>1, <1>2 DEF Step, Inv, PhasesStep

(* A front event is an event, and the rest of the ring is a ring.          *)
LEMMA FrontType ==
    ASSUME Inv, NEW type, EventFront(type)
    PROVE  /\ Head(events) \in Event
           /\ Tail(events) \in Seq(Event)
           /\ Head(events).type = type
BY HeadTailProperties DEF Inv, TypeOK, EventFront

-----------------------------------------------------------------------------
(* One lemma per action.                                                   *)

(* A handler that only returns an error.                                   *)
LEMMA FailStep ==
    ASSUME Inv, NEW type, EventFront(type), NEW code \in ErrorCode, Fail(code)
    PROVE  Step
<1>1. PhasesStep
  BY PhasesUnchanged DEF Fail
<1>2. SlotBinding'
  BY <1>1, BindingKept DEF Fail, SameBinding
<1>3. OtherTypes'
  BY FrontType, InvOtherTypes DEF Fail, OtherTypes, hcVars
<1> QED
  BY <1>1, <1>2, <1>3, StepFromParts

(* What ApplyReset of a result of ResetPort does.                          *)
LEMMA ApplyResetTypes ==
    ASSUME Inv, NEW r, NEW rest \in Seq(Event), r.resets \in SUBSET Ports,
           r.err \in ErrorCode, ApplyReset(r, rest)
    PROVE  /\ portsc' \in [Ports -> SUBSET PortBits]
           /\ events' \in Seq(Event)
           /\ err' \in ErrorCode
<1>1. portsc' \in [Ports -> SUBSET PortBits]
  BY PortscAfterType DEF Inv, ApplyReset
<1>2. EventsAfter(r.resets) \in Seq(Event)
  BY EventsAfterType
<1>3. events' \in Seq(Event)
  BY <1>2, ConcatProperties DEF ApplyReset
<1> QED
  BY <1>1, <1>3 DEF ApplyReset

(* One turn of the boot loop.                                              *)
LEMMA ConfigurePortStep ==
    ASSUME Inv, ConfigurePort
    PROVE  Step
<1> DEFINE r == ResetPort(scan, addressing_port, port_config_phase)
<1>0. scan \in Ports
  BY DEF Inv, TypeOK, ConfigurePort, Ports
<1>1. CASE "ccs" \in portsc[scan] /\ port_config_phase[scan] = "kNotConnected"
  <2>1. ApplyReset(r, events)
    BY <1>1 DEF ConfigurePort
  <2>2. /\ GoodPhases(r.ap, r.phase)
        /\ Advances(port_config_phase, r.phase)
        /\ r.resets \in SUBSET Ports
        /\ r.err \in ErrorCode
    BY <1>0, <1>1, InvGoodPhases, ResetPortGood
  <2>3. events \in Seq(Event)
    BY DEF Inv, TypeOK
  <2> HIDE DEF r
  <2>4. PhasesStep
    BY <2>1, <2>2 DEF ApplyReset, PhasesStep
  <2>5. SlotBinding'
    BY <2>4, BindingKept DEF ConfigurePort, SameBinding
  <2>6. portsc' \in [Ports -> SUBSET PortBits] /\ events' \in Seq(Event) /\ err' \in ErrorCode
    BY <2>1, <2>2, <2>3, ApplyResetTypes
  <2>7. OtherTypes'
    BY <2>6, <1>0, InvOtherTypes DEF ConfigurePort, OtherTypes, Ports
  <2> QED BY <2>4, <2>5, <2>7, StepFromParts
<1>2. CASE ~("ccs" \in portsc[scan] /\ port_config_phase[scan] = "kNotConnected")
  <2>1. PhasesStep
    BY <1>2, PhasesUnchanged DEF ConfigurePort
  <2>2. SlotBinding'
    BY <2>1, BindingKept DEF ConfigurePort, SameBinding
  <2>3. OtherTypes'
    BY <1>2, <1>0, InvOtherTypes DEF ConfigurePort, OtherTypes, Ports
  <2> QED BY <2>1, <2>2, <2>3, StepFromParts
<1> QED
  BY <1>1, <1>2

(* Ring::Push on the command ring.                                         *)
LEMMA PushCommand ==
    ASSUME Inv, NEW c \in Command
    PROVE  Append(cmds, c) \in Seq(Command)
BY AppendProperties DEF Inv, TypeOK

(* EnableSlot, for a port in kResettingPort.                               *)
LEMMA EnableSlotStep ==
    ASSUME Inv, EventFront("PortStatusChange"), NEW p \in Ports,
           port_config_phase[p] = "kResettingPort", EnableSlot(p)
    PROVE  Step
<1> DEFINE new == [port_config_phase EXCEPT ![p] = "kEnablingSlot"]
<1>1. PhasesStep
  <2>1. GoodPhases(addressing_port, new) /\ Advances(port_config_phase, new)
    <3>1. /\ "kEnablingSlot" \in ConfigPhase
          /\ "kEnablingSlot" \in Busy <=> port_config_phase[p] \in Busy
          /\ Rank(port_config_phase[p]) <= Rank("kEnablingSlot")
      BY DEF ConfigPhase, Busy, Rank
    <3> QED BY <3>1, InvGoodPhases, SetPhase
  <2> QED BY <2>1, PhasesUnchanged DEF EnableSlot, PhasesStep
<1>2. SlotBinding'
  BY <1>1, BindingKept DEF EnableSlot, SameBinding
<1>3. OtherTypes'
  <2>1. portsc' \in [Ports -> SUBSET PortBits]
    BY InvOtherTypes DEF EnableSlot, OtherTypes, ClearPortResetChange, PortscWrite
  <2>2. cmds' \in Seq(Command)
    <3>1. [type |-> "EnableSlot", slot |-> 0] \in Command
      BY DEF Command, CommandType, SlotIds
    <3>2. Append(cmds, [type |-> "EnableSlot", slot |-> 0]) \in Seq(Command)
      BY <3>1, PushCommand
    <3> QED BY <3>2, InvOtherTypes DEF EnableSlot, OtherTypes
  <2> QED
    BY <2>1, <2>2, FrontType, InvOtherTypes DEF EnableSlot, OtherTypes, ErrorCode
<1> QED
  BY <1>1, <1>2, <1>3, StepFromParts

(* OnEvent(PortStatusChangeEventTRB).                                      *)
LEMMA OnPortStatusChangeStep ==
    ASSUME Inv, OnPortStatusChange
    PROVE  Step
<1> DEFINE p == Head(events).port
           r == ResetPort(p, addressing_port, port_config_phase)
<1>1. EventFront("PortStatusChange")
  BY DEF OnPortStatusChange
<1>2. p \in Ports /\ Tail(events) \in Seq(Event)
  BY <1>1, FrontType DEF Event, PortStatusChangeEvent, CommandCompletionEvent, TransferEvent
<1>3. CASE port_config_phase[p] = "kNotConnected"
  <2>1. ApplyReset(r, Tail(events))
    BY <1>3 DEF OnPortStatusChange
  <2>2. /\ GoodPhases(r.ap, r.phase)
        /\ Advances(port_config_phase, r.phase)
        /\ r.resets \in SUBSET Ports
        /\ r.err \in ErrorCode
    BY <1>2, <1>3, InvGoodPhases, ResetPortGood
  <2>3. UNCHANGED <<scan, devices, dcbaa, cmds, ep0, intr, slot_state, endpoints, faults>>
    BY <1>3 DEF OnPortStatusChange
  <2> HIDE DEF r
  <2>4. PhasesStep
    BY <2>1, <2>2 DEF ApplyReset, PhasesStep
  <2>5. SlotBinding'
    BY <2>3, <2>4, BindingKept DEF SameBinding
  <2>6. portsc' \in [Ports -> SUBSET PortBits] /\ events' \in Seq(Event) /\ err' \in ErrorCode
    BY <2>1, <2>2, <1>2, ApplyResetTypes
  <2>7. OtherTypes'
    BY <2>3, <2>6, InvOtherTypes DEF OtherTypes
  <2> QED BY <2>4, <2>5, <2>7, StepFromParts
<1>4. CASE port_config_phase[p] = "kResettingPort"
  <2>1. EnableSlot(p)
    BY <1>4 DEF OnPortStatusChange
  <2> QED BY <1>1, <1>2, <1>4, <2>1, EnableSlotStep
<1>5. CASE port_config_phase[p] \notin {"kNotConnected", "kResettingPort"}
  <2>1. Fail("INVALID_PHASE")
    BY <1>5 DEF OnPortStatusChange
  <2> QED BY <1>1, <2>1, FailStep DEF ErrorCode
<1> QED
  BY <1>3, <1>4, <1>5

(* AddressDevice, for a port in kEnablingSlot: its port has no device yet, *)
(* as a port with a device is past kEnablingSlot.                          *)
LEMMA AddressDeviceStep ==
    ASSUME Inv, EventFront("CommandCompletion"), NEW p \in Ports, NEW s \in SlotIds,
           port_config_phase[p] = "kEnablingSlot", AddressDevice(p, s)
    PROVE  Step
<1> DEFINE new == [port_config_phase EXCEPT ![p] = "kAddressingDevice"]
<1>1. GoodPhases(addressing_port, new) /\ Advances(port_config_phase, new)
  <2>1. /\ "kAddressingDevice" \in ConfigPhase
        /\ "kAddressingDevice" \in Busy <=> port_config_phase[p] \in Busy
        /\ Rank(port_config_phase[p]) <= Rank("kAddressingDevice")
    BY DEF ConfigPhase, Busy, Rank
  <2> QED BY <2>1, InvGoodPhases, SetPhase
<1>2. PhasesStep
  BY <1>1 DEF AddressDevice, PhasesStep
<1>3. devices \in [SlotIds -> Device]
  BY DEF Inv, TypeOK
<1> DEFINE kept == [devices[s] EXCEPT !.in_port = p]
           fresh == NewDevice(p)
<1>a. kept \in Device /\ kept.in_port = p
  BY <1>3 DEF Device, Ports
<1>b. fresh \in Device /\ fresh.in_port = p
  BY DEF NewDevice, Device, Ports
<1>c. \/ devices' = [devices EXCEPT ![s] = kept]
      \/ devices' = [devices EXCEPT ![s] = fresh]
  BY DEF AddressDevice, AllocDevice
<1> HIDE DEF kept, fresh
<1>4. devices' \in [SlotIds -> Device]
  BY <1>3, <1>a, <1>b, <1>c
<1>5. /\ devices'[s].in_port = p
      /\ \A t \in SlotIds \ {s} : devices'[t] = devices[t]
  BY <1>3, <1>a, <1>b, <1>c
<1>6. \A t \in SlotIds \ {s} : Allocated(devices[t]) => devices[t].in_port # p
  <2>1. Rank("kEnablingSlot") = 3 /\ Rank("kAddressingDevice") = 4
    BY DEF Rank
  <2> QED BY <2>1 DEF Inv, SlotBinding
<1>7. SlotBinding'
  <2> SUFFICES ASSUME NEW t \in SlotIds, Allocated(devices'[t])
               PROVE  /\ Rank(port_config_phase'[devices'[t].in_port]) >= Rank("kAddressingDevice")
                      /\ \A u \in SlotIds \ {t} :
                           Allocated(devices'[u]) => devices'[t].in_port # devices'[u].in_port
    BY DEF SlotBinding
  <2>1. CASE t = s
    <3>1. port_config_phase'[p] = "kAddressingDevice"
      BY DEF AddressDevice, Inv, TypeOK, Ports
    <3>2. Rank("kAddressingDevice") = 4
      BY DEF Rank
    <3>3. p # 0
      BY DEF Ports
    <3> QED BY <2>1, <3>1, <3>2, <3>3, <1>5, <1>6
  <2>2. CASE t # s
    <3> DEFINE q == devices[t].in_port
    <3>1. /\ Allocated(devices[t])
          /\ devices'[t].in_port = q
          /\ q # p
      BY <2>2, <1>5, <1>6
    <3>2. q # 0 /\ Rank(port_config_phase[q]) >= Rank("kAddressingDevice")
      BY <3>1 DEF Inv, SlotBinding
    <3>3. q \in Ports
      BY <3>2, <1>3 DEF Device, Ports
    <3>4. port_config_phase'[q] = port_config_phase[q]
      BY <3>1, <3>3 DEF AddressDevice, Inv, TypeOK, Ports
    <3>5. \A u \in SlotIds \ {t} : Allocated(devices'[u]) => q # devices'[u].in_port
      BY <3>1, <1>5, <2>2 DEF Inv, SlotBinding
    <3> QED BY <3>1, <3>2, <3>4, <3>5
  <2> QED BY <2>1, <2>2
<1>8. cmds' \in Seq(Command)
  <2>1. [type |-> "AddressDevice", slot |-> s] \in Command
    BY DEF Command, CommandType
  <2> QED BY <2>1, PushCommand DEF AddressDevice
<1>9. dcbaa' \in [SlotIds -> DcbaaEntry]
  BY InvOtherTypes DEF AddressDevice, LoadDCBAA, OtherTypes, DcbaaEntry
<1>10. OtherTypes'
  BY <1>4, <1>8, <1>9, FrontType, InvOtherTypes DEF AddressDevice, OtherTypes, ErrorCode, hcVars
<1> QED
  BY <1>2, <1>7, <1>10, StepFromParts

(* The slot of a completion is a slot.                                     *)
LEMMA CompletionSlot ==
    ASSUME Inv, EventFront("CommandCompletion")
    PROVE  Head(events).slot \in SlotIds
BY FrontType DEF Event, PortStatusChangeEvent, CommandCompletionEvent, TransferEvent

(* OnEvent(CommandCompletionEventTRB) for Enable Slot.                     *)
LEMMA OnEnableSlotCompletedStep ==
    ASSUME Inv, OnEnableSlotCompleted
    PROVE  Step
<1>1. EventFront("CommandCompletion")
  BY DEF OnEnableSlotCompleted
<1>2. CASE port_config_phase[addressing_port] = "kEnablingSlot"
  <2>1. addressing_port \in Ports
    BY <1>2 DEF Inv, TypeOK, Ports
  <2>2. AddressDevice(addressing_port, Head(events).slot)
    BY <1>2 DEF OnEnableSlotCompleted
  <2> QED BY <1>1, <1>2, <2>1, <2>2, CompletionSlot, AddressDeviceStep
<1>3. CASE port_config_phase[addressing_port] # "kEnablingSlot"
  <2>1. Fail("INVALID_PHASE")
    BY <1>3 DEF OnEnableSlotCompleted
  <2> QED BY <1>1, <2>1, FailStep DEF ErrorCode
<1> QED
  BY <1>2, <1>3

(* When the address of port p is assigned, addressing_port becomes 0 or    *)
(* the first waiting port, and p leaves the exclusive phases.              *)
LEMMA ResetFirstWaitingGood ==
    ASSUME Inv, NEW p \in Ports, p = addressing_port,
           port_config_phase[p] = "kAddressingDevice"
    PROVE  LET r == ResetFirstWaiting(port_config_phase)
               new == [r.phase EXCEPT ![p] = "kInitializingDevice"]
           IN  /\ GoodPhases(r.ap, new)
               /\ Advances(port_config_phase, new)
               /\ r.resets \in SUBSET Ports
               /\ r.err \in ErrorCode
               /\ r = [ap |-> r.ap, phase |-> r.phase, resets |-> r.resets, err |-> r.err]
               /\ r.phase \in [0..MaxPorts -> ConfigPhase]
               /\ QuietReset(0, [port_config_phase EXCEPT ![p] = "kInitializingDevice"],
                             r.ap, new)
<1> DEFINE W == WaitingPorts(port_config_phase)
           r == ResetFirstWaiting(port_config_phase)
           new == [r.phase EXCEPT ![p] = "kInitializingDevice"]
           mid == [port_config_phase EXCEPT ![p] = "kInitializingDevice"]
<1>1. GoodPhases(0, mid)
  BY DEF Inv, TypeOK, AddressingExclusive, GoodPhases, Ports, ConfigPhase, Busy
<1>2. Advances(port_config_phase, mid)
  <2>1. \A q \in Ports : Rank(port_config_phase[q]) \in Nat
    BY DEF Inv, TypeOK, Ports, Rank, ConfigPhase
  <2>2. Rank(port_config_phase[p]) <= Rank("kInitializingDevice")
    BY DEF Rank
  <2> QED BY <2>1, <2>2 DEF Advances, Inv, TypeOK, Ports
<1>3. CASE W = {}
  <2>1. r = [ap |-> 0, phase |-> port_config_phase, resets |-> {}, err |-> "SUCCESS"]
    BY <1>3 DEF ResetFirstWaiting, ResetPortResult
  <2>2. port_config_phase \in [0..MaxPorts -> ConfigPhase]
    BY DEF Inv, TypeOK
  <2>3. new = mid
    BY <2>1
  <2> HIDE DEF r, new, mid
  <2>4. r.ap = 0 /\ r.resets = {} /\ r.err = "SUCCESS" /\ r.phase = port_config_phase
    BY <2>1
  <2>5. QuietReset(0, mid, 0, mid)
    BY DEF QuietReset, QuietPort
  <2> QED BY <2>1, <2>2, <2>3, <2>4, <2>5, <1>1, <1>2 DEF ErrorCode, r, new, mid
<1>4. CASE W # {}
  <2> DEFINE w == Min(W)
             m == ResetPort(w, 0, mid)
  <2>1. W \in SUBSET Nat /\ W \subseteq Ports
    BY DEF WaitingPorts, Ports
  <2>2. w \in W
    BY <2>1, <1>4, MinInSet
  <2>3. w \in Ports /\ port_config_phase[w] = "kWaitingAddressed" /\ w # p
    BY <2>2 DEF WaitingPorts
  <2>4. mid[w] = "kWaitingAddressed"
    BY <2>3 DEF Inv, TypeOK, Ports
  <2>5. /\ GoodPhases(m.ap, m.phase)
        /\ Advances(mid, m.phase)
        /\ m.resets \in SUBSET Ports
        /\ m.err \in ErrorCode
        /\ QuietReset(0, mid, m.ap, m.phase)
    BY <2>3, <2>4, <1>1, ResetPortGood, ResetPortQuiet
  <2>6. r = ResetPort(w, 0, port_config_phase)
    BY <1>4 DEF ResetFirstWaiting
  <2> HIDE DEF w
  <2>7. \/ /\ m = [ap |-> 0, phase |-> mid, resets |-> {}, err |-> "SUCCESS"]
           /\ r = [ap |-> 0, phase |-> port_config_phase, resets |-> {}, err |-> "SUCCESS"]
        \/ /\ m = [ap |-> w, phase |-> [mid EXCEPT ![w] = "kResettingPort"],
                   resets |-> {w}, err |-> "SUCCESS"]
           /\ r = [ap |-> w, phase |-> [port_config_phase EXCEPT ![w] = "kResettingPort"],
                   resets |-> {w}, err |-> "SUCCESS"]
    BY <2>3, <2>4, <2>6 DEF ResetPort, ResetPortResult
  <2>8. port_config_phase \in [0..MaxPorts -> ConfigPhase] /\ w \in 0..MaxPorts /\ p \in 0..MaxPorts
    BY <2>3 DEF Inv, TypeOK, Ports
  <2>9. [[port_config_phase EXCEPT ![w] = "kResettingPort"] EXCEPT ![p] = "kInitializingDevice"]
          = [mid EXCEPT ![w] = "kResettingPort"]
    BY <2>3, <2>8
  <2> HIDE DEF m, r, mid
  <2>10. /\ m.ap = r.ap /\ m.resets = r.resets /\ m.err = r.err
         /\ r = [ap |-> r.ap, phase |-> r.phase, resets |-> r.resets, err |-> r.err]
    BY <2>7
  <2>11. m.phase = new
    BY <2>7, <2>9 DEF mid
  <2>12. r.phase \in [0..MaxPorts -> ConfigPhase]
    BY <2>7, <2>8 DEF ConfigPhase
  <2>13. Advances(port_config_phase, m.phase)
    <3>1. \A q \in Ports : /\ port_config_phase[q] \in ConfigPhase
                           /\ mid[q] \in ConfigPhase
                           /\ m.phase[q] \in ConfigPhase
      BY <1>1, <2>5, <2>8 DEF GoodPhases, Ports
    <3>2. \A q \in Ports : /\ Rank(port_config_phase[q]) \in Nat
                           /\ Rank(mid[q]) \in Nat
                           /\ Rank(m.phase[q]) \in Nat
      BY <3>1 DEF Rank, ConfigPhase
    <3> QED BY <3>2, <1>2, <2>5 DEF Advances
  <2> HIDE DEF new
  <2> QED BY <2>5, <2>10, <2>11, <2>12, <2>13 DEF r, new, mid
<1> QED
  BY <1>3, <1>4

(* OnEvent(CommandCompletionEventTRB) for Address Device.                  *)
LEMMA OnAddressDeviceCompletedStep ==
    ASSUME Inv, OnAddressDeviceCompleted
    PROVE  Step
<1> DEFINE s == Head(events).slot
           p == devices[s].ctx_port
           r == ResetFirstWaiting(port_config_phase)
           r2 == [r EXCEPT !.phase[p] = "kInitializingDevice"]
<1>1. EventFront("CommandCompletion")
  BY DEF OnAddressDeviceCompleted
<1>2. s \in SlotIds
  BY <1>1, CompletionSlot
<1>3. devices \in [SlotIds -> Device] /\ devices[s] \in Device
  BY <1>2 DEF Inv, TypeOK
<1>4. CASE ~Allocated(devices[s])
  <2>1. Fail("INVALID_SLOT_ID")
    BY <1>4 DEF OnAddressDeviceCompleted
  <2> QED BY <1>1, <2>1, FailStep DEF ErrorCode
<1>5. CASE /\ Allocated(devices[s])
           /\ p # addressing_port \/ port_config_phase[p] # "kAddressingDevice"
  <2>1. Fail("INVALID_PHASE")
    BY <1>5 DEF OnAddressDeviceCompleted
  <2> QED BY <1>1, <2>1, FailStep DEF ErrorCode
<1>6. CASE /\ Allocated(devices[s])
           /\ p = addressing_port
           /\ port_config_phase[p] = "kAddressingDevice"
  <2>1. p \in Ports
    BY <1>3, <1>6 DEF Inv, TypeOK, Device, Ports
  <2>2. /\ ApplyReset(r2, Tail(events))
        /\ devices' = [devices EXCEPT ![s] = StartInitialize(@)]
        /\ ep0' = [ep0 EXCEPT ![s] = Append(@, "GetDeviceDescriptor")]
        /\ UNCHANGED <<scan, dcbaa, cmds, intr, slot_state, endpoints, faults>>
    BY <1>6 DEF OnAddressDeviceCompleted, InitializeDevice
  <2> DEFINE new == [r.phase EXCEPT ![p] = "kInitializingDevice"]
  <2>3. /\ GoodPhases(r.ap, new)
        /\ Advances(port_config_phase, new)
        /\ r.resets \in SUBSET Ports
        /\ r.err \in ErrorCode
        /\ r = [ap |-> r.ap, phase |-> r.phase, resets |-> r.resets, err |-> r.err]
    BY <1>6, <2>1, ResetFirstWaitingGood
  <2> HIDE DEF r
  <2>4. r2.ap = r.ap /\ r2.phase = new /\ r2.resets = r.resets /\ r2.err = r.err
    BY <2>3
  <2> HIDE DEF r2, new
  <2>5. PhasesStep
    BY <2>2, <2>3, <2>4 DEF ApplyReset, PhasesStep
  <2> DEFINE d == StartInitialize(devices[s])
  <2>6. d \in Device /\ d.in_port = devices[s].in_port
    BY <1>3 DEF StartInitialize, Device
  <2> HIDE DEF d
  <2>7. devices' = [devices EXCEPT ![s] = d]
    BY <2>2 DEF d
  <2>8. SameBinding
    BY <2>6, <2>7, <1>2, <1>3 DEF SameBinding
  <2>9. SlotBinding'
    BY <2>5, <2>8, BindingKept
  <2>10. portsc' \in [Ports -> SUBSET PortBits] /\ events' \in Seq(Event) /\ err' \in ErrorCode
    BY <1>1, <2>2, <2>3, <2>4, FrontType, ApplyResetTypes
  <2>11. devices' \in [SlotIds -> Device]
    BY <2>6, <2>7, <1>3
  <2>12. ep0' \in [SlotIds -> Seq(ControlRequest)]
    <3>1. ep0 \in [SlotIds -> Seq(ControlRequest)] /\ "GetDeviceDescriptor" \in ControlRequest
      BY DEF Inv, TypeOK, ControlRequest
    <3>2. Append(ep0[s], "GetDeviceDescriptor") \in Seq(ControlRequest)
      BY <3>1, <1>2, AppendProperties
    <3> QED BY <3>1, <3>2, <2>2
  <2>13. OtherTypes'
    BY <2>2, <2>10, <2>11, <2>12, InvOtherTypes DEF OtherTypes
  <2> QED BY <2>5, <2>9, <2>13, StepFromParts
<1> QED
  BY <1>4, <1>5, <1>6

(* OnEvent(CommandCompletionEventTRB) for Configure Endpoint.              *)
LEMMA OnConfigureEndpointCompletedStep ==
    ASSUME Inv, OnConfigureEndpointCompleted
    PROVE  Step
<1> DEFINE s == Head(events).slot
           p == devices[s].ctx_port
           n == devices[s].class_drivers
           new == [port_config_phase EXCEPT ![p] = "kConfigured"]
<1>1. EventFront("CommandCompletion")
  BY DEF OnConfigureEndpointCompleted
<1>2. s \in SlotIds
  BY <1>1, CompletionSlot
<1>3. devices \in [SlotIds -> Device] /\ devices[s] \in Device
  BY <1>2 DEF Inv, TypeOK
<1>4. CASE ~Allocated(devices[s])
  <2>1. Fail("INVALID_SLOT_ID")
    BY <1>4 DEF OnConfigureEndpointCompleted
  <2> QED BY <1>1, <2>1, FailStep DEF ErrorCode
<1>5. CASE Allocated(devices[s]) /\ port_config_phase[p] # "kConfiguringEndpoints"
  <2>1. Fail("INVALID_PHASE")
    BY <1>5 DEF OnConfigureEndpointCompleted
  <2> QED BY <1>1, <2>1, FailStep DEF ErrorCode
<1>6. CASE Allocated(devices[s]) /\ port_config_phase[p] = "kConfiguringEndpoints"
  <2>1. p \in Ports
    BY <1>3, <1>6 DEF Inv, TypeOK, Device, Ports
  <2> DEFINE d == [devices[s] EXCEPT !.hid_phase = IF n = 0 THEN @ ELSE 1]
  <2>2. /\ devices' = [devices EXCEPT ![s] = d]
        /\ ep0' = [ep0 EXCEPT ![s] = @ \o [i \in 1..n |-> "SetProtocol"]]
        /\ port_config_phase' = new
        /\ err' = "SUCCESS"
        /\ events' = Tail(events)
        /\ UNCHANGED <<scan, addressing_port, dcbaa, cmds, intr, hcVars>>
    <3>1. CompleteConfiguration(p, s)
      BY <1>6 DEF OnConfigureEndpointCompleted
    <3> QED
      BY <3>1, <1>2, <1>3 DEF CompleteConfiguration, OnEndpointsConfigured,
                              HidOnEndpointsConfigured
  <2>3. PhasesStep
    <3>1. /\ "kConfigured" \in ConfigPhase
          /\ "kConfigured" \in Busy <=> port_config_phase[p] \in Busy
          /\ Rank(port_config_phase[p]) <= Rank("kConfigured")
      BY <1>6 DEF ConfigPhase, Busy, Rank
    <3>2. GoodPhases(addressing_port, new) /\ Advances(port_config_phase, new)
      BY <2>1, <3>1, InvGoodPhases, SetPhase
    <3> QED BY <2>2, <3>2 DEF PhasesStep
  <2>4. d \in Device /\ d.in_port = devices[s].in_port
    BY <1>3 DEF Device
  <2>5. devices' = [devices EXCEPT ![s] = d]
    BY <2>2
  <2> HIDE DEF d
  <2>6. SameBinding
    BY <2>4, <2>5, <1>2, <1>3 DEF SameBinding
  <2>7. SlotBinding'
    BY <2>3, <2>6, BindingKept
  <2>8. ep0' \in [SlotIds -> Seq(ControlRequest)]
    <3>1. ep0 \in [SlotIds -> Seq(ControlRequest)] /\ "SetProtocol" \in ControlRequest
      BY DEF Inv, TypeOK, ControlRequest
    <3>2. n \in Nat
      BY <1>3 DEF Device
    <3>3. [i \in 1..n |-> "SetProtocol"] \in Seq(ControlRequest)
      BY <3>1, <3>2, IsASeq
    <3>4. ep0[s] \o [i \in 1..n |-> "SetProtocol"] \in Seq(ControlRequest)
      BY <3>1, <3>3, <1>2, ConcatProperties
    <3> QED BY <3>1, <3>4, <2>2
  <2>9. devices' \in [SlotIds -> Device]
    BY <2>4, <2>5, <1>3
  <2>10. OtherTypes'
    BY <2>2, <2>8, <2>9, <1>1, FrontType, InvOtherTypes DEF OtherTypes, ErrorCode, hcVars
  <2> QED BY <2>3, <2>7, <2>10, StepFromParts
<1> QED
  BY <1>4, <1>5, <1>6

(* What handling a transfer event may do to a device.                      *)
GoodEffect(d, r) ==
    /\ r.dev \in Device
    /\ r.dev.in_port = d.in_port
    /\ r.requests \in Seq(ControlRequest)
    /\ r.polls \in Nat
    /\ r.err \in ErrorCode

(* An effect is good if its parts have their types and the device keeps    *)
(* its port.                                                               *)
LEMMA TransferEffectGood ==
    ASSUME NEW d \in Device, NEW d2 \in Device, d2.in_port = d.in_port,
           NEW requests \in Seq(ControlRequest), NEW polls \in Nat,
           NEW code \in ErrorCode
    PROVE  GoodEffect(d, TransferEffect(d2, requests, polls, code))
BY DEF TransferEffect, GoodEffect

(* Every branch of Device::OnTransferEventReceived has a good effect.      *)
LEMMA OnTransferEventReceivedGood ==
    ASSUME NEW d \in Device, NEW e, NEW n \in 0..MaxEndpoints
    PROVE  GoodEffect(d, OnTransferEventReceived(d, e, n))
<1>1. /\ {"SUCCESS", "NOT_IMPLEMENTED", "NO_WAITER", "INVALID_PHASE", "TRANSFER_FAILED"}
             \subseteq ErrorCode
      /\ 0 \in Nat /\ 1 \in Nat
  BY DEF ErrorCode
<1>2. /\ <<>> \in Seq(ControlRequest)
      /\ <<"GetConfigDescriptor">> \in Seq(ControlRequest)
      /\ <<"SetConfiguration">> \in Seq(ControlRequest)
  BY DEF ControlRequest
<1>3. GoodEffect(d, HidOnControlCompleted(d))
  <2> DEFINE d2 == [d EXCEPT !.hid_phase = 2]
  <2>1. d2 \in Device /\ d2.in_port = d.in_port
    BY DEF Device
  <2> HIDE DEF d2
  <2>2. \/ HidOnControlCompleted(d) = TransferEffect(d2, <<>>, 1, "SUCCESS")
        \/ HidOnControlCompleted(d) = TransferEffect(d, <<>>, 0, "NOT_IMPLEMENTED")
    BY DEF HidOnControlCompleted, InterruptIn, d2
  <2> QED BY <1>1, <1>2, <2>1, <2>2, TransferEffectGood
<1>4. GoodEffect(d, InitializePhase1(d))
  <2> DEFINE d2 == [d EXCEPT !.initialize_phase = 2]
  <2>1. d2 \in Device /\ d2.in_port = d.in_port
    BY DEF Device
  <2> HIDE DEF d2
  <2>2. InitializePhase1(d) = TransferEffect(d2, <<"GetConfigDescriptor">>, 0, "SUCCESS")
    BY DEF InitializePhase1, d2
  <2> QED BY <1>1, <1>2, <2>1, <2>2, TransferEffectGood
<1>5. GoodEffect(d, InitializePhase2(d, n))
  <2> DEFINE d1 == [d EXCEPT !.initialize_phase = 3]
             d2 == [d EXCEPT !.initialize_phase = 3, !.class_drivers = n]
  <2>0. d1 \in Device /\ d1.in_port = d.in_port
    BY DEF Device
  <2>a. d2 = [d1 EXCEPT !.class_drivers = n]
    OBVIOUS
  <2> HIDE DEF d1, d2
  <2>1. d2 \in Device /\ d2.in_port = d.in_port
    BY <2>0, <2>a DEF Device
  <2>2. \/ InitializePhase2(d, n) = TransferEffect(d, <<>>, 0, "SUCCESS")
        \/ InitializePhase2(d, n) = TransferEffect(d2, <<"SetConfiguration">>, 0, "SUCCESS")
    BY DEF InitializePhase2, d2
  <2> QED BY <1>1, <1>2, <2>1, <2>2, TransferEffectGood
<1>6. GoodEffect(d, InitializePhase3(d))
  <2> DEFINE d2 == [d EXCEPT !.initialize_phase = 4]
  <2>1. d2 \in Device /\ d2.in_port = d.in_port
    BY DEF Device
  <2> HIDE DEF d2
  <2>2. InitializePhase3(d) = TransferEffect(d2, <<>>, 0, "SUCCESS")
    BY DEF InitializePhase3, d2
  <2> QED BY <1>1, <1>2, <2>1, <2>2, TransferEffectGood
<1>7. \A code \in {"SUCCESS", "NOT_IMPLEMENTED", "NO_WAITER", "INVALID_PHASE", "TRANSFER_FAILED"},
         k \in {0, 1} : GoodEffect(d, TransferEffect(d, <<>>, k, code))
  BY <1>1, <1>2, TransferEffectGood
<1>8. GoodEffect(d, OnControlCompleted(d, e.issuer, e.result, n))
  <2>1. CASE IsInitialized(d)
    <3>1. OnControlCompleted(d, e.issuer, e.result, n) =
            IF e.issuer = "SetProtocol" THEN HidOnControlCompleted(d)
            ELSE TransferEffect(d, <<>>, 0, "NO_WAITER")
      BY <2>1 DEF OnControlCompleted, IsInitialized
    <3> QED BY <3>1, <1>3, <1>7
  <2>2. CASE ~IsInitialized(d)
    <3>1. d.initialize_phase \in 0..4
      BY DEF Device
    <3> QED
      BY <2>2, <3>1, <1>4, <1>5, <1>6, <1>7 DEF OnControlCompleted, IsInitialized
  <2> QED BY <2>1, <2>2
<1>9. GoodEffect(d, OnInterruptCompleted(d))
  BY <1>7 DEF OnInterruptCompleted, HidOnInterruptCompleted, InterruptIn
<1> QED
  BY <1>7, <1>8, <1>9 DEF OnTransferEventReceived

(* OnEvent(TransferEventTRB).                                              *)
LEMMA OnTransferStep ==
    ASSUME Inv, OnTransfer
    PROVE  Step
<1> DEFINE e == Head(events)
           s == e.slot
           d == devices[s]
           r == OnTransferEventReceived(d, e, endpoints[d.in_port])
           q == r.dev.ctx_port
           new == [port_config_phase EXCEPT ![q] = "kConfiguringEndpoints"]
<1>1. EventFront("Transfer")
  BY DEF OnTransfer
<1>2. s \in SlotIds
  BY <1>1, FrontType DEF Event, PortStatusChangeEvent, CommandCompletionEvent, TransferEvent
<1>3. devices \in [SlotIds -> Device] /\ d \in Device
  BY <1>2 DEF Inv, TypeOK
<1>4. CASE ~Allocated(d)
  <2>1. Fail("INVALID_SLOT_ID")
    BY <1>4 DEF OnTransfer
  <2> QED BY <1>1, <2>1, FailStep DEF ErrorCode
<1>5. CASE Allocated(d)
  <2>1. /\ devices' = [devices EXCEPT ![s] = r.dev]
        /\ ep0' = [ep0 EXCEPT ![s] = @ \o r.requests]
        /\ intr' = [intr EXCEPT ![s] = @ + r.polls]
        /\ events' = Tail(events)
        /\ UNCHANGED <<scan, addressing_port, dcbaa, hcVars>>
    BY <1>5 DEF OnTransfer
  <2>2. \/ /\ ReadyToConfigure(r.dev)
           /\ \E known \in BOOLEAN : ConfigureEndpoints(r.dev, s, known)
        \/ err' = r.err /\ UNCHANGED <<port_config_phase, cmds>>
    BY <1>5 DEF OnTransfer
  <2>3. GoodEffect(d, r)
    <3>1. d.in_port \in Ports
      BY <1>3, <1>5 DEF Device, Ports
    <3>2. endpoints[d.in_port] \in 0..MaxEndpoints
      BY <3>1 DEF Inv, TypeOK
    <3> QED BY <1>3, <3>2, OnTransferEventReceivedGood
  <2> HIDE DEF r
  <2>4. \/ /\ q \in Ports
           /\ port_config_phase[q] = "kInitializingDevice"
           /\ port_config_phase' = new
           /\ cmds' = Append(cmds, [type |-> "ConfigureEndpoint", slot |-> s])
           /\ err' = "SUCCESS"
        \/ UNCHANGED <<port_config_phase, cmds>> /\ err' \in ErrorCode
    <3>1. CASE err' = r.err /\ UNCHANGED <<port_config_phase, cmds>>
      BY <3>1, <2>3 DEF GoodEffect
    <3>2. ASSUME ReadyToConfigure(r.dev), NEW known \in BOOLEAN,
                 ConfigureEndpoints(r.dev, s, known)
          PROVE  <2>4
      <4>1. q \in Ports /\ port_config_phase[q] = "kInitializingDevice"
        BY <3>2, <2>3 DEF ReadyToConfigure, GoodEffect, Device, Inv, TypeOK, Ports
      <4> QED BY <3>2, <4>1 DEF ConfigureEndpoints, ErrorCode
    <3> QED BY <3>1, <3>2, <2>2
  <2>5. PhasesStep
    <3>1. CASE /\ q \in Ports
               /\ port_config_phase[q] = "kInitializingDevice"
               /\ port_config_phase' = new
      <4>1. /\ "kConfiguringEndpoints" \in ConfigPhase
            /\ "kConfiguringEndpoints" \in Busy <=> port_config_phase[q] \in Busy
            /\ Rank(port_config_phase[q]) <= Rank("kConfiguringEndpoints")
        BY <3>1 DEF ConfigPhase, Busy, Rank
      <4>2. GoodPhases(addressing_port, new) /\ Advances(port_config_phase, new)
        BY <3>1, <4>1, InvGoodPhases, SetPhase
      <4> QED BY <2>1, <3>1, <4>2 DEF PhasesStep
    <3>2. CASE UNCHANGED port_config_phase
      BY <2>1, <3>2, PhasesUnchanged
    <3> QED BY <2>4, <3>1, <3>2
  <2>6. SameBinding
    BY <1>2, <1>3, <2>1, <2>3 DEF SameBinding, GoodEffect
  <2>7. SlotBinding'
    BY <2>5, <2>6, BindingKept
  <2>8. cmds' \in Seq(Command) /\ err' \in ErrorCode
    <3>1. [type |-> "ConfigureEndpoint", slot |-> s] \in Command
      BY <1>2 DEF Command, CommandType
    <3>2. Append(cmds, [type |-> "ConfigureEndpoint", slot |-> s]) \in Seq(Command)
      BY <3>1, PushCommand
    <3>3. cmds \in Seq(Command)
      BY DEF Inv, TypeOK
    <3> QED BY <2>4, <3>2, <3>3 DEF ErrorCode
  <2>9. ep0' \in [SlotIds -> Seq(ControlRequest)]
    <3>1. ep0 \in [SlotIds -> Seq(ControlRequest)]
      BY DEF Inv, TypeOK
    <3>2. ep0[s] \o r.requests \in Seq(ControlRequest)
      BY <3>1, <1>2, <2>3, ConcatProperties DEF GoodEffect
    <3> QED BY <2>1, <3>1, <3>2
  <2>10. devices' \in [SlotIds -> Device] /\ intr' \in [SlotIds -> Nat]
    <3>1. r.dev \in Device /\ r.polls \in Nat
      BY <2>3 DEF GoodEffect
    <3>2. intr \in [SlotIds -> Nat] /\ intr[s] + r.polls \in Nat
      BY <1>2, <3>1 DEF Inv, TypeOK
    <3> QED BY <1>2, <1>3, <2>1, <3>1, <3>2
  <2>11. OtherTypes'
    BY <1>1, <2>1, <2>8, <2>9, <2>10, FrontType, InvOtherTypes DEF OtherTypes, hcVars
  <2> QED BY <2>5, <2>7, <2>11, StepFromParts
<1> QED
  BY <1>4, <1>5

(* ProcessEvent with an empty ring.                                        *)
LEMMA PollIdleStep ==
    ASSUME Inv, PollIdle
    PROVE  Step
<1>1. PhasesStep
  BY PhasesUnchanged DEF PollIdle
<1>2. SlotBinding'
  BY <1>1, BindingKept DEF PollIdle, SameBinding
<1>3. OtherTypes'
  BY InvOtherTypes DEF PollIdle, OtherTypes, ErrorCode, ringVars, hcVars
<1> QED
  BY <1>1, <1>2, <1>3, StepFromParts

-----------------------------------------------------------------------------
(* The environment never touches the phases or binds a device.             *)

(* So only the types are left to show.                                     *)
LEMMA EnvStep ==
    ASSUME Inv, UNCHANGED <<addressing_port, port_config_phase>>, SameBinding, OtherTypes'
    PROVE  Step
<1>1. PhasesStep
  BY PhasesUnchanged
<1>2. SlotBinding'
  BY <1>1, BindingKept
<1> QED
  BY <1>1, <1>2, StepFromParts

(* The controller takes the front command and posts an event.              *)
LEMMA CommandFrontType ==
    ASSUME Inv, NEW type, CommandFront(type)
    PROVE  Head(cmds).slot \in SlotIds /\ Tail(cmds) \in Seq(Command)
<1>1. Head(cmds) \in Command /\ Tail(cmds) \in Seq(Command)
  BY HeadTailProperties DEF Inv, TypeOK, CommandFront
<1> QED
  BY <1>1 DEF Command

(* Posting an event keeps the ring a ring.                                 *)
LEMMA PostEvent ==
    ASSUME Inv, NEW e \in Event
    PROVE  Append(events, e) \in Seq(Event)
BY AppendProperties DEF Inv, TypeOK

(* The events of the controller are events.                                *)
LEMMA CompletionType ==
    ASSUME NEW type \in CommandType, NEW s \in SlotIds
    PROVE  Completion(type, s) \in Event
BY DEF Completion, Event, CommandCompletionEvent

(* A transfer event is an event.                                           *)
LEMMA TransferredType ==
    ASSUME NEW s \in SlotIds, NEW issuer \in ControlRequest \cup {"Normal"},
           NEW result \in TransferResult
    PROVE  Transferred(s, issuer, result) \in Event
BY DEF Transferred, Event, TransferEvent

(* The fault budget is kept.                                               *)
LEMMA MayFailType ==
    ASSUME Inv, NEW failed \in BOOLEAN, MayFail(failed)
    PROVE  faults' \in 0..MaxFaults
BY DEF Inv, TypeOK, MayFail

(* The controller executes Enable Slot.                                    *)
LEMMA HcEnableSlotStep ==
    ASSUME Inv, HcEnableSlot
    PROVE  Step
<1>1. PICK s \in (IF FreeSlots = {} THEN {0} ELSE FreeSlots) :
         /\ slot_state' = IF s = 0 THEN slot_state ELSE [slot_state EXCEPT ![s] = "Enabled"]
         /\ events' = Append(events, Completion("EnableSlot", s))
  BY DEF HcEnableSlot
<1>2. s \in SlotIds
  BY DEF FreeSlots, SlotIds
<1>3. events' \in Seq(Event)
  BY <1>1, <1>2, CompletionType, PostEvent DEF CommandType
<1>4. slot_state' \in [SlotIds -> SlotState]
  BY <1>1, <1>2 DEF Inv, TypeOK, SlotState
<1>5. cmds' \in Seq(Command)
  BY CommandFrontType DEF HcEnableSlot
<1>6. OtherTypes'
  BY <1>3, <1>4, <1>5, InvOtherTypes DEF HcEnableSlot, OtherTypes, driverVars
<1> QED
  BY <1>6, EnvStep DEF HcEnableSlot, SameBinding, driverVars

(* The controller executes Address Device.                                 *)
LEMMA HcAddressDeviceStep ==
    ASSUME Inv, HcAddressDevice
    PROVE  Step
<1> DEFINE s == Head(cmds).slot
           d == [devices[s] EXCEPT !.ctx_port = devices[s].in_port]
<1>1. s \in SlotIds /\ cmds' \in Seq(Command)
  BY CommandFrontType DEF HcAddressDevice
<1>2. PICK failed \in BOOLEAN :
         /\ MayFail(failed)
         /\ \/ /\ slot_state' = [slot_state EXCEPT ![s] = "Addressed"]
               /\ devices' = [devices EXCEPT ![s] = d]
            \/ UNCHANGED <<slot_state, devices>>
  BY DEF HcAddressDevice
<1>3. devices \in [SlotIds -> Device] /\ devices[s] \in Device
  BY <1>1 DEF Inv, TypeOK
<1>4. d \in Device /\ d.in_port = devices[s].in_port
  BY <1>3 DEF Device
<1> HIDE DEF d
<1>5. devices' \in [SlotIds -> Device] /\ SameBinding
  BY <1>1, <1>2, <1>3, <1>4 DEF SameBinding
<1>6. events' \in Seq(Event)
  BY <1>1, CompletionType, PostEvent DEF HcAddressDevice, CommandType
<1>7. slot_state' \in [SlotIds -> SlotState]
  BY <1>1, <1>2 DEF Inv, TypeOK, SlotState
<1>8. faults' \in 0..MaxFaults
  BY <1>2, MayFailType
<1>9. OtherTypes'
  BY <1>1, <1>5, <1>6, <1>7, <1>8, InvOtherTypes DEF HcAddressDevice, OtherTypes
<1> QED
  BY <1>5, <1>9, EnvStep DEF HcAddressDevice

(* The controller executes Configure Endpoint.                             *)
LEMMA HcConfigureEndpointStep ==
    ASSUME Inv, HcConfigureEndpoint
    PROVE  Step
<1> DEFINE s == Head(cmds).slot
<1>1. s \in SlotIds /\ cmds' \in Seq(Command)
  BY CommandFrontType DEF HcConfigureEndpoint
<1>2. PICK failed \in BOOLEAN :
         /\ MayFail(failed)
         /\ \/ slot_state' = [slot_state EXCEPT ![s] = "Configured"]
            \/ UNCHANGED slot_state
  BY DEF HcConfigureEndpoint
<1>3. events' \in Seq(Event)
  BY <1>1, CompletionType, PostEvent DEF HcConfigureEndpoint, CommandType
<1>4. slot_state' \in [SlotIds -> SlotState]
  BY <1>1, <1>2 DEF Inv, TypeOK, SlotState
<1>5. faults' \in 0..MaxFaults
  BY <1>2, MayFailType
<1>6. OtherTypes'
  BY <1>1, <1>3, <1>4, <1>5, InvOtherTypes DEF HcConfigureEndpoint, OtherTypes, driverVars
<1> QED
  BY <1>6, EnvStep DEF HcConfigureEndpoint, SameBinding, driverVars

(* A control transfer completes or fails.                                  *)
LEMMA HcControlTransferStep ==
    ASSUME Inv, NEW s \in SlotIds, HcControlTransfer(s)
    PROVE  Step
<1>1. PICK result \in TransferResult :
         /\ MayFail(result # "ok" /\ Reachable(s))
         /\ events' = Append(events, Transferred(s, Head(ep0[s]), result))
         /\ ep0' = [ep0 EXCEPT ![s] = IF result = "failed" THEN <<>> ELSE Tail(@)]
  BY DEF HcControlTransfer
<1>2. ep0 \in [SlotIds -> Seq(ControlRequest)] /\ ep0[s] # <<>>
  BY DEF HcControlTransfer, Inv, TypeOK
<1>3. Head(ep0[s]) \in ControlRequest /\ Tail(ep0[s]) \in Seq(ControlRequest)
  BY <1>2, HeadTailProperties
<1>4. events' \in Seq(Event)
  BY <1>1, <1>3, TransferredType, PostEvent
<1>5. ep0' \in [SlotIds -> Seq(ControlRequest)]
  BY <1>1, <1>2, <1>3
<1>6. faults' \in 0..MaxFaults
  BY <1>1, MayFailType DEF Reachable
<1>7. OtherTypes'
  BY <1>4, <1>5, <1>6, InvOtherTypes DEF HcControlTransfer, OtherTypes, driverVars
<1> QED
  BY <1>7, EnvStep DEF HcControlTransfer, SameBinding, driverVars

(* An interrupt transfer completes or fails.                               *)
LEMMA HcInterruptTransferStep ==
    ASSUME Inv, NEW s \in SlotIds, HcInterruptTransfer(s)
    PROVE  Step
<1>1. PICK result \in {"ok", "failed"} :
         /\ MayFail(result = "failed" /\ Reachable(s))
         /\ events' = Append(events, Transferred(s, "Normal", result))
         /\ intr' = [intr EXCEPT ![s] = IF result = "failed" THEN 0 ELSE @ - 1]
  BY DEF HcInterruptTransfer
<1>2. intr \in [SlotIds -> Nat] /\ intr[s] > 0
  BY DEF HcInterruptTransfer, Inv, TypeOK
<1>3. events' \in Seq(Event)
  BY <1>1, TransferredType, PostEvent DEF TransferResult
<1>4. intr' \in [SlotIds -> Nat]
  BY <1>1, <1>2
<1>5. faults' \in 0..MaxFaults
  BY <1>1, MayFailType DEF Reachable
<1>6. OtherTypes'
  BY <1>3, <1>4, <1>5, InvOtherTypes DEF HcInterruptTransfer, OtherTypes, driverVars
<1> QED
  BY <1>6, EnvStep DEF HcInterruptTransfer, SameBinding, driverVars

(* A device is plugged in or out.                                          *)
LEMMA PlugStep ==
    ASSUME Inv, NEW p \in Ports, Plug(p) \/ Unplug(p)
    PROVE  Step
<1>1. events' = events \o PortStatusChange(p, portsc[p])
  BY DEF Plug, Unplug
<1>2. events' \in Seq(Event)
  BY <1>1, PortStatusChangeType, ConcatProperties DEF Inv, TypeOK
<1>3. portsc' \in [Ports -> SUBSET PortBits]
  <2>1. portsc \in [Ports -> SUBSET PortBits] /\ portsc[p] \in SUBSET PortBits
    BY DEF Inv, TypeOK
  <2>2. PICK new : portsc' = [portsc EXCEPT ![p] = new] /\ new \in SUBSET PortBits
    <3>1. CASE Plug(p)
      <4>1. portsc' = [portsc EXCEPT ![p] = portsc[p] \cup {"ccs", "csc"}]
        BY <3>1, <2>1 DEF Plug
      <4>2. portsc[p] \cup {"ccs", "csc"} \in SUBSET PortBits
        BY <2>1 DEF PortBits
      <4> QED
        BY <4>1, <4>2
    <3>2. CASE Unplug(p)
      <4>1. portsc' = [portsc EXCEPT ![p] = (portsc[p] \ {"ccs", "ped"}) \cup {"csc"}]
        BY <3>2, <2>1 DEF Unplug
      <4>2. (portsc[p] \ {"ccs", "ped"}) \cup {"csc"} \in SUBSET PortBits
        BY <2>1 DEF PortBits
      <4> QED
        BY <4>1, <4>2
    <3> QED
      BY <3>1, <3>2
  <2> QED
    BY <2>1, <2>2
<1>4. faults' \in 0..MaxFaults
  BY DEF Plug, Unplug, Inv, TypeOK
<1>5. OtherTypes'
  BY <1>2, <1>3, <1>4, InvOtherTypes DEF Plug, Unplug, OtherTypes, driverVars
<1> QED
  BY <1>5, EnvStep DEF Plug, Unplug, SameBinding, driverVars

-----------------------------------------------------------------------------
(* The inductive invariant holds initially, and every step preserves it    *)
(* and takes no port back.                                                 *)
LEMMA InitInv == Init => Inv
<1> SUFFICES ASSUME Init PROVE Inv
  OBVIOUS
<1>1. NewDevice(0) \in Device /\ NewDevice(0).in_port = 0
  BY DEF NewDevice, Device
<1>2. TypeOK
  BY <1>1 DEF Init, TypeOK, ConfigPhase, DcbaaEntry, ErrorCode, SlotState
<1>3. AddressingExclusive
  BY DEF Init, AddressingExclusive, Busy, Ports
<1>4. SlotBinding
  BY <1>1 DEF Init, SlotBinding
<1> QED
  BY <1>2, <1>3, <1>4 DEF Inv

(* One case for each disjunct of Next.                                     *)
LEMMA NextInv == Inv /\ [Next]_vars => Step
<1> SUFFICES ASSUME Inv, [Next]_vars PROVE Step
  OBVIOUS
<1>1. CASE ConfigurePort
  BY <1>1, ConfigurePortStep
<1>2. CASE ProcessEvent
  BY <1>2, OnPortStatusChangeStep, OnEnableSlotCompletedStep,
     OnAddressDeviceCompletedStep, OnConfigureEndpointCompletedStep,
     OnTransferStep, PollIdleStep DEF ProcessEvent
<1>3. CASE HcCommand
  BY <1>3, HcEnableSlotStep, HcAddressDeviceStep, HcConfigureEndpointStep DEF HcCommand
<1>4. CASE \E s \in SlotIds : HcControlTransfer(s) \/ HcInterruptTransfer(s)
  BY <1>4, HcControlTransferStep, HcInterruptTransferStep
<1>5. CASE \E p \in Ports : Plug(p) \/ Unplug(p)
  BY <1>5, PlugStep
<1>6. CASE UNCHANGED vars
  BY <1>6, EnvStep, InvOtherTypes
     DEF vars, driverVars, ringVars, hcVars, SameBinding, OtherTypes
<1> QED
  BY <1>1, <1>2, <1>3, <1>4, <1>5, <1>6 DEF Next

(* Every reachable state satisfies the inductive invariant.                *)
THEOREM SpecInv == Spec => []Inv
<1>1. Inv /\ [Next]_vars => Inv'
  BY NextInv DEF Step
<1> QED
  BY <1>1, InitInv, PTL DEF Spec

(* The driver and the controller keep their types, whatever is plugged in  *)
(* and out of the ports and whatever fails.                                *)
THEOREM TypeCorrect == Spec => []TypeOK
<1>1. Inv => TypeOK
  BY DEF Inv
<1> QED
  BY <1>1, SpecInv, PTL

(* A port that is reset, given a slot or addressed is alone in that: the   *)
(* port number in addressing_port (xhci.cpp) is the lock it claims to be.  *)
THEOREM Exclusive == Spec => []AddressingExclusive
<1>1. Inv => AddressingExclusive
  BY DEF Inv
<1> QED
  BY <1>1, SpecInv, PTL

(* AddressDevice never binds a port that already has a device.             *)
THEOREM OneSlotPerPort == Spec => []SlotBinding
<1>1. Inv => SlotBinding
  BY DEF Inv
<1> QED
  BY <1>1, SpecInv, PTL

(* No handler of xhci.cpp takes a port back to a phase it has left.        *)
THEOREM Monotone == Spec => PhaseMonotone
<1>1. Inv /\ [Next]_vars =>
        [\A p \in Ports : Rank(port_config_phase[p]) <= Rank(port_config_phase'[p])]_vars
  BY NextInv DEF Step, Advances
<1> QED
  BY <1>1, SpecInv, PTL DEF Spec, PhaseMonotone

-----------------------------------------------------------------------------
(* The second invariant: what is in flight for each slot.  It counts the   *)
(* entries of the two queues that belong to a set.                         *)
CommandsOf(type, slots) == {c \in Command : c.type = type /\ c.slot \in slots}

CompletionsOf(type, slots) ==
    {e \in Event : e.type = "CommandCompletion" /\ e.issuer = type /\ e.slot \in slots}

TransfersOf(s, issuers) ==
    {e \in Event : e.type = "Transfer" /\ e.slot = s /\ e.issuer \in issuers}

(* The commands among c and their completions among e, and the transfer    *)
(* events among e.                                                         *)
Flight(c, e, type, slots) ==
    Occurrences(c, CommandsOf(type, slots)) + Occurrences(e, CompletionsOf(type, slots))

Moves(e, s, issuers) == Occurrences(e, TransfersOf(s, issuers))

(* These are the counts of the properties.                                 *)
LEMMA FlightIs ==
    ASSUME TypeOK, NEW type, NEW slots
    PROVE  InFlight(type, slots) = Flight(cmds, events, type, slots)
<1>1. /\ \A i \in 1..Len(cmds) : cmds[i] \in Command
      /\ \A i \in 1..Len(events) : events[i] \in Event
  BY DEF TypeOK
<1>2. /\ {i \in 1..Len(cmds) : cmds[i].type = type /\ cmds[i].slot \in slots}
           = Matches(cmds, CommandsOf(type, slots))
      /\ {i \in 1..Len(events) : /\ events[i].type = "CommandCompletion"
                                  /\ events[i].issuer = type
                                  /\ events[i].slot \in slots}
           = Matches(events, CompletionsOf(type, slots))
  BY <1>1 DEF Matches, CommandsOf, CompletionsOf
<1> QED
  BY <1>2 DEF InFlight, Flight, Occurrences

(* The same for the transfer events.                                       *)
LEMMA MovesIs ==
    ASSUME TypeOK, NEW s, NEW issuers
    PROVE  TransferEvents(s, issuers) = Moves(events, s, issuers)
<1>1. \A i \in 1..Len(events) : events[i] \in Event
  BY DEF TypeOK
<1>2. {i \in 1..Len(events) : /\ events[i].type = "Transfer"
                              /\ events[i].slot = s
                              /\ events[i].issuer \in issuers}
        = Matches(events, TransfersOf(s, issuers))
  BY <1>1 DEF Matches, TransfersOf
<1> QED
  BY <1>2 DEF TransferEvents, Moves, Occurrences

(* The counts are numbers.                                                 *)
LEMMA CountsAreNat ==
    ASSUME NEW c \in Seq(Command), NEW e \in Seq(Event)
    PROVE  /\ \A type, slots : /\ Flight(c, e, type, slots) \in Nat
                               /\ Occurrences(c, CommandsOf(type, slots)) \in Nat
                               /\ Occurrences(e, CompletionsOf(type, slots)) \in Nat
           /\ \A s, issuers : Moves(e, s, issuers) \in Nat
<1>1. \A S : Occurrences(c, S) \in Nat /\ Occurrences(e, S) \in Nat
  BY CountType
<1> QED
  BY <1>1 DEF Flight, Moves

(* Nothing of a set is in a queue, so nothing of a subset is.              *)
LEMMA NoneOfSubset ==
    ASSUME NEW X, NEW q \in Seq(X), NEW S, NEW T, S \subseteq T, Occurrences(q, T) = 0
    PROVE  Occurrences(q, S) = 0
  BY CountType

(* What a command counts for.                                              *)
LEMMA CommandCounts ==
    ASSUME NEW c \in Command, NEW type, NEW slots
    PROVE  c \in CommandsOf(type, slots) <=> c.type = type /\ c.slot \in slots
  BY DEF CommandsOf

-----------------------------------------------------------------------------
(* What the operations on the two queues do to the counts.                 *)

(* The event at the front, by what it counts for.                          *)
LEMMA FrontCounts ==
    ASSUME NEW x \in Event
    PROVE  /\ \A type, slots : x \in CompletionsOf(type, slots) <=>
                 x.type = "CommandCompletion" /\ x.issuer = type /\ x.slot \in slots
           /\ \A s, issuers : x \in TransfersOf(s, issuers) <=>
                 x.type = "Transfer" /\ x.slot = s /\ x.issuer \in issuers
  BY DEF CompletionsOf, TransfersOf

(* Popping an event.                                                       *)
LEMMA PopCounts ==
    ASSUME NEW e \in Seq(Event), e # <<>>
    PROVE  LET x == Head(e) IN
           /\ \A type, slots : Occurrences(e, CompletionsOf(type, slots)) =
                Occurrences(Tail(e), CompletionsOf(type, slots))
                + (IF x.type = "CommandCompletion" /\ x.issuer = type /\ x.slot \in slots
                   THEN 1 ELSE 0)
           /\ \A s, issuers : Moves(e, s, issuers) =
                Moves(Tail(e), s, issuers)
                + (IF x.type = "Transfer" /\ x.slot = s /\ x.issuer \in issuers
                   THEN 1 ELSE 0)
<1> DEFINE x == Head(e)
<1>1. x \in Event
  BY HeadTailProperties
<1>2. \A S : Occurrences(e, S) = Occurrences(Tail(e), S) + (IF x \in S THEN 1 ELSE 0)
  BY CountTail
<1> HIDE DEF x
<1>3. ASSUME NEW type, NEW slots
      PROVE  Occurrences(e, CompletionsOf(type, slots)) =
                Occurrences(Tail(e), CompletionsOf(type, slots))
                + (IF x.type = "CommandCompletion" /\ x.issuer = type /\ x.slot \in slots
                   THEN 1 ELSE 0)
  <2>1. x \in CompletionsOf(type, slots) <=>
          x.type = "CommandCompletion" /\ x.issuer = type /\ x.slot \in slots
    BY <1>1, FrontCounts
  <2> QED
    BY <1>2, <2>1
<1>4. ASSUME NEW s, NEW issuers
      PROVE  Moves(e, s, issuers) =
                Moves(Tail(e), s, issuers)
                + (IF x.type = "Transfer" /\ x.slot = s /\ x.issuer \in issuers
                   THEN 1 ELSE 0)
  <2>1. x \in TransfersOf(s, issuers) <=>
          x.type = "Transfer" /\ x.slot = s /\ x.issuer \in issuers
    BY <1>1, FrontCounts
  <2> QED
    BY <1>2, <2>1 DEF Moves
<1> QED
  BY <1>3, <1>4 DEF x

(* Posting an event.                                                       *)
LEMMA PostCounts ==
    ASSUME NEW e \in Seq(Event), NEW x \in Event
    PROVE  /\ \A type, slots : Occurrences(Append(e, x), CompletionsOf(type, slots)) =
                Occurrences(e, CompletionsOf(type, slots))
                + (IF x.type = "CommandCompletion" /\ x.issuer = type /\ x.slot \in slots
                   THEN 1 ELSE 0)
           /\ \A s, issuers : Moves(Append(e, x), s, issuers) =
                Moves(e, s, issuers)
                + (IF x.type = "Transfer" /\ x.slot = s /\ x.issuer \in issuers
                   THEN 1 ELSE 0)
<1>2. \A S : Occurrences(Append(e, x), S) = Occurrences(e, S) + (IF x \in S THEN 1 ELSE 0)
  BY CountAppend
<1>3. ASSUME NEW type, NEW slots
      PROVE  Occurrences(Append(e, x), CompletionsOf(type, slots)) =
                Occurrences(e, CompletionsOf(type, slots))
                + (IF x.type = "CommandCompletion" /\ x.issuer = type /\ x.slot \in slots
                   THEN 1 ELSE 0)
  <2>1. x \in CompletionsOf(type, slots) <=>
          x.type = "CommandCompletion" /\ x.issuer = type /\ x.slot \in slots
    BY FrontCounts
  <2> QED
    BY <1>2, <2>1
<1>4. ASSUME NEW s, NEW issuers
      PROVE  Moves(Append(e, x), s, issuers) =
                Moves(e, s, issuers)
                + (IF x.type = "Transfer" /\ x.slot = s /\ x.issuer \in issuers
                   THEN 1 ELSE 0)
  <2>1. x \in TransfersOf(s, issuers) <=>
          x.type = "Transfer" /\ x.slot = s /\ x.issuer \in issuers
    BY FrontCounts
  <2> QED
    BY <1>2, <2>1 DEF Moves
<1> QED
  BY <1>3, <1>4

(* Two event rings that count alike.                                       *)
SameCounts(e, e2) ==
    /\ \A type, slots : Occurrences(e2, CompletionsOf(type, slots)) =
                          Occurrences(e, CompletionsOf(type, slots))
    /\ \A s, issuers : Moves(e2, s, issuers) = Moves(e, s, issuers)

(* A Port Status Change event does not count.                              *)
LEMMA PortEventSame ==
    ASSUME NEW e \in Seq(Event), NEW p \in Ports, NEW before
    PROVE  SameCounts(e, e \o PortStatusChange(p, before))
<1> DEFINE x == [type |-> "PortStatusChange", port |-> p]
<1>1. x \in Event /\ x.type = "PortStatusChange"
  BY DEF Event, PortStatusChangeEvent
<1>2. e \o <<x>> = Append(e, x) /\ e \o <<>> = e
  <2>1. x \in Event
    BY <1>1
  <2> HIDE DEF x
  <2> QED
    BY <2>1, AppendIsConcat, ConcatEmptySeq
<1>3. \/ PortStatusChange(p, before) = <<x>>
      \/ PortStatusChange(p, before) = <<>>
  BY DEF PortStatusChange
<1>4. /\ \A type, slots : Occurrences(e, CompletionsOf(type, slots)) \in Nat
      /\ \A s, issuers : Moves(e, s, issuers) \in Nat
  BY CountType DEF Moves
<1> HIDE DEF x
<1>5. SameCounts(e, Append(e, x))
  BY <1>1, <1>4, PostCounts DEF SameCounts
<1>6. SameCounts(e, e)
  BY DEF SameCounts
<1> QED
  BY <1>2, <1>3, <1>5, <1>6

(* Nor do the events that resetting ports leaves.                          *)
LEMMA ResetEventsSame ==
    ASSUME NEW e \in Seq(Event), NEW resets \in SUBSET Ports
    PROVE  SameCounts(e, e \o EventsAfter(resets))
<1>1. CASE resets = {}
  <2>1. EventsAfter(resets) = <<>> /\ e \o <<>> = e
    BY <1>1, ConcatEmptySeq DEF EventsAfter
  <2> QED
    BY <2>1 DEF SameCounts
<1>2. CASE resets # {}
  <2> DEFINE p == CHOOSE q \in resets : TRUE
  <2>1. p \in Ports
    BY <1>2
  <2>2. EventsAfter(resets) = PortStatusChange(p, ResetWrite(portsc[p]))
    BY <1>2 DEF EventsAfter
  <2> HIDE DEF p
  <2> QED
    BY <2>1, <2>2, PortEventSame
<1> QED
  BY <1>1, <1>2

(* Pushing a command.                                                      *)
LEMMA PushCounts ==
    ASSUME NEW c \in Seq(Command), NEW x \in Command, NEW type, NEW slots
    PROVE  Occurrences(Append(c, x), CommandsOf(type, slots)) =
             Occurrences(c, CommandsOf(type, slots))
             + (IF x.type = type /\ x.slot \in slots THEN 1 ELSE 0)
<1>1. \A S : Occurrences(Append(c, x), S) = Occurrences(c, S) + (IF x \in S THEN 1 ELSE 0)
  BY CountAppend
<1>2. x \in CommandsOf(type, slots) <=> x.type = type /\ x.slot \in slots
  BY CommandCounts
<1> QED
  BY <1>1, <1>2

(* Taking the command at the front.                                        *)
LEMMA TakeCounts ==
    ASSUME NEW c \in Seq(Command), c # <<>>, NEW type, NEW slots
    PROVE  Occurrences(c, CommandsOf(type, slots)) =
             Occurrences(Tail(c), CommandsOf(type, slots))
             + (IF Head(c).type = type /\ Head(c).slot \in slots THEN 1 ELSE 0)
<1>0. Head(c) \in Command
  BY HeadTailProperties
<1>1. \A S : Occurrences(c, S) = Occurrences(Tail(c), S) + (IF Head(c) \in S THEN 1 ELSE 0)
  BY CountTail
<1>2. Head(c) \in CommandsOf(type, slots) <=> Head(c).type = type /\ Head(c).slot \in slots
  BY <1>0, CommandCounts
<1> QED
  BY <1>1, <1>2

-----------------------------------------------------------------------------
(* The invariant.                                                          *)

(* How far a device is and how far its port is go together.                *)
InStep(d, phase) ==
    /\ d.initialize_phase # 0 => phase \in Late
    /\ phase \in {"kConfiguringEndpoints", "kConfigured"} => d.initialize_phase = 4
    /\ d.hid_phase # 0 => phase = "kConfigured"

(* The control transfers a device can have outstanding or unhandled.       *)
Allowance(d, phase) ==
    CASE d.initialize_phase = 0 -> 0
      [] d.initialize_phase \in 1..3 -> 1
      [] d.initialize_phase = 4 -> IF phase = "kConfigured" THEN d.class_drivers ELSE 0

(* Slot s, whose device is d, with its port in phase, the control requests *)
(* q, n Normal TRBs and f Configure Endpoint commands in flight, and e as  *)
(* the event ring.                                                         *)
SlotOK(s, d, phase, q, n, f, e) ==
    /\ f = IF phase = "kConfiguringEndpoints" THEN 1 ELSE 0
    /\ InStep(d, phase)
    /\ n + Moves(e, s, {"Normal"}) <= IF d.hid_phase = 2 THEN 1 ELSE 0
    /\ \A i \in 1..Len(q) : q[i] \in Expected(d)
    /\ Moves(e, s, ControlRequest \ Expected(d)) = 0
    /\ Len(q) + Moves(e, s, ControlRequest) <= Allowance(d, phase)

PhaseOf(s) == port_config_phase[devices[s].ctx_port]
Configuring(s) == Flight(cmds, events, "ConfigureEndpoint", {s})

SlotHolds(s) == SlotOK(s, devices[s], PhaseOf(s), ep0[s], intr[s], Configuring(s), events)

(* The commands for the addressing port.                                   *)
Addressing ==
    LET phase == port_config_phase[addressing_port] IN
    /\ Flight(cmds, events, "EnableSlot", SlotIds) =
         IF phase = "kEnablingSlot" THEN 1 ELSE 0
    /\ Flight(cmds, events, "AddressDevice", SlotIds) <=
         IF phase = "kAddressingDevice" THEN 1 ELSE 0

(* An Address Device command is for a device at the addressing port.       *)
Target ==
    \A s \in SlotIds : Occurrences(cmds, CommandsOf("AddressDevice", {s})) # 0 =>
                         devices[s].in_port = addressing_port

(* Slot 0 is never enabled; a device context names the port of the input   *)
(* context; a slot that is not enabled, or whose completion is on its way, *)
(* has no device.                                                          *)
Fresh ==
    /\ slot_state[0] = "Disabled"
    /\ \A s \in SlotIds : devices[s].ctx_port # 0 => devices[s].ctx_port = devices[s].in_port
    /\ \A s \in SlotIds : slot_state[s] \in {"Disabled", "Enabled"} => devices[s].ctx_port = 0
    /\ \A s \in 1..kDeviceSize :
         /\ slot_state[s] = "Disabled" => ~Allocated(devices[s])
         /\ Occurrences(events, CompletionsOf("EnableSlot", {s})) # 0 =>
              ~Allocated(devices[s]) /\ slot_state[s] # "Disabled"

Flown == Addressing /\ Target /\ Fresh /\ \A s \in SlotIds : SlotHolds(s)

(* The parts of the state the invariant speaks about have their types.     *)
LEMMA SlotTypes ==
    ASSUME Inv, NEW s \in SlotIds
    PROVE  /\ devices[s] \in Device /\ PhaseOf(s) \in ConfigPhase
           /\ ep0[s] \in Seq(ControlRequest) /\ Len(ep0[s]) \in Nat /\ intr[s] \in Nat
           /\ cmds \in Seq(Command) /\ events \in Seq(Event)
           /\ devices[s].ctx_port \in 0..MaxPorts /\ devices[s].in_port \in 0..MaxPorts
<1>1. /\ devices[s] \in Device /\ ep0[s] \in Seq(ControlRequest) /\ intr[s] \in Nat
      /\ cmds \in Seq(Command) /\ events \in Seq(Event)
      /\ port_config_phase \in [0..MaxPorts -> ConfigPhase]
  BY DEF Inv, TypeOK
<1>2. devices[s].ctx_port \in 0..MaxPorts /\ devices[s].in_port \in 0..MaxPorts
  BY <1>1 DEF Device
<1> QED
  BY <1>1, <1>2, LenProperties DEF PhaseOf

(* A slot is not disturbed by a step that leaves its device and its queues *)
(* alone, adds no event of it, and moves its port only outside Late.       *)
LEMMA SameSlot ==
    ASSUME NEW s, NEW d \in Device, NEW phase, NEW phase2, NEW q \in Seq(ControlRequest),
           NEW n \in Nat, NEW f, NEW e \in Seq(Event), NEW e2 \in Seq(Event),
           \A issuers : Moves(e2, s, issuers) <= Moves(e, s, issuers),
           phase2 = phase \/ (phase \notin Late /\ phase2 \notin Late),
           SlotOK(s, d, phase, q, n, f, e)
    PROVE  SlotOK(s, d, phase2, q, n, f, e2)
<1>1. \A issuers : Moves(e, s, issuers) \in Nat /\ Moves(e2, s, issuers) \in Nat
  BY CountType DEF Moves
<1>2. /\ d.initialize_phase \in 0..4 /\ d.class_drivers \in Nat
      /\ Len(q) \in Nat
  BY LenProperties DEF Device
<1>3. phase2 = "kConfiguringEndpoints" <=> phase = "kConfiguringEndpoints"
  BY DEF Late
<1>4. InStep(d, phase2)
  BY DEF InStep, Late, SlotOK
<1>5. Allowance(d, phase2) = Allowance(d, phase)
  BY DEF SlotOK, InStep, Late, Allowance
<1>6. Allowance(d, phase) \in Nat
  BY <1>2 DEF Allowance
<1>7. n + Moves(e2, s, {"Normal"}) <= IF d.hid_phase = 2 THEN 1 ELSE 0
  <2>1. n + Moves(e, s, {"Normal"}) <= IF d.hid_phase = 2 THEN 1 ELSE 0
    BY DEF SlotOK
  <2> QED
    BY <2>1, <1>1
<1>8. Moves(e2, s, ControlRequest \ Expected(d)) = 0
  <2>1. Moves(e, s, ControlRequest \ Expected(d)) = 0
    BY DEF SlotOK
  <2> QED
    BY <2>1, <1>1
<1>9. Len(q) + Moves(e2, s, ControlRequest) <= Allowance(d, phase2)
  <2>1. Len(q) + Moves(e, s, ControlRequest) <= Allowance(d, phase)
    BY DEF SlotOK
  <2>2. Moves(e2, s, ControlRequest) <= Moves(e, s, ControlRequest)
    OBVIOUS
  <2> QED
    BY <2>1, <2>2, <1>1, <1>2, <1>5, <1>6
<1> QED
  BY <1>3, <1>4, <1>7, <1>8, <1>9 DEF SlotOK

(* The same for a step of the system.                                      *)
LEMMA SlotKept ==
    ASSUME Inv, Inv', Flown, NEW s \in SlotIds,
           devices'[s] = devices[s], ep0'[s] = ep0[s], intr'[s] = intr[s],
           Configuring(s)' = Configuring(s),
           \A issuers : Moves(events', s, issuers) <= Moves(events, s, issuers),
           \/ PhaseOf(s)' = PhaseOf(s)
           \/ PhaseOf(s) \notin Late /\ PhaseOf(s)' \notin Late
    PROVE  SlotHolds(s)'
<1>1. /\ devices[s] \in Device /\ ep0[s] \in Seq(ControlRequest) /\ intr[s] \in Nat
      /\ events \in Seq(Event)
  BY SlotTypes
<1>2. events' \in Seq(Event)
  BY DEF Inv, TypeOK
<1>3. SlotOK(s, devices[s], PhaseOf(s), ep0[s], intr[s], Configuring(s), events)
  BY DEF Flown, SlotHolds
<1>4. SlotOK(s, devices[s], PhaseOf(s)', ep0[s], intr[s], Configuring(s), events')
  BY <1>1, <1>2, <1>3, SameSlot
<1> QED
  BY <1>4 DEF SlotHolds

-----------------------------------------------------------------------------
(* The port of a device is quiet if all ports are.                         *)
LEMMA QuietSlot ==
    ASSUME Inv, NEW s \in SlotIds, devices'[s].ctx_port = devices[s].ctx_port,
           QuietPort(port_config_phase, port_config_phase', devices[s].ctx_port)
    PROVE  \/ PhaseOf(s)' = PhaseOf(s)
           \/ PhaseOf(s) \notin Late /\ PhaseOf(s)' \notin Late
  BY DEF PhaseOf, QuietPort

(* While port 0 stands for none, no command for the addressing port flies. *)
LEMMA NoneAddressing ==
    ASSUME Inv, Flown, port_config_phase[addressing_port] \notin {"kEnablingSlot", "kAddressingDevice"}
    PROVE  /\ Flight(cmds, events, "EnableSlot", SlotIds) = 0
           /\ Flight(cmds, events, "AddressDevice", SlotIds) = 0
<1>1. \A type : Flight(cmds, events, type, SlotIds) \in Nat
  BY CountsAreNat DEF Inv, TypeOK
<1> QED
  BY <1>1 DEF Flown, Addressing

(* Nothing for all slots is nothing for each of them.                      *)
LEMMA NoneForSlot ==
    ASSUME NEW c \in Seq(Command), NEW e \in Seq(Event), NEW type,
           Flight(c, e, type, SlotIds) = 0, NEW s \in SlotIds
    PROVE  /\ Occurrences(c, CommandsOf(type, {s})) = 0
           /\ Occurrences(e, CompletionsOf(type, {s})) = 0
<1>1. /\ Occurrences(c, CommandsOf(type, SlotIds)) = 0
      /\ Occurrences(e, CompletionsOf(type, SlotIds)) = 0
  BY CountsAreNat DEF Flight
<1>2. /\ CommandsOf(type, {s}) \subseteq CommandsOf(type, SlotIds)
      /\ CompletionsOf(type, {s}) \subseteq CompletionsOf(type, SlotIds)
  BY DEF CommandsOf, CompletionsOf
<1> QED
  BY <1>1, <1>2, NoneOfSubset

(* The counts of commands do not change.                                   *)
SameCompletions ==
    \A type, slots : Occurrences(events', CompletionsOf(type, slots)) =
                       Occurrences(events, CompletionsOf(type, slots))

FewerMoves == \A s, issuers : Moves(events', s, issuers) <= Moves(events, s, issuers)

(* A step that handles no completion and changes no device.                *)
LEMMA QuietStep ==
    ASSUME Inv, Inv', Flown, UNCHANGED <<devices, ep0, intr, cmds, slot_state>>,
           SameCompletions, FewerMoves,
           QuietReset(addressing_port, port_config_phase, addressing_port', port_config_phase')
    PROVE  Flown'
<1>1. \A type, slots : Flight(cmds, events, type, slots)' = Flight(cmds, events, type, slots)
  BY DEF Flight, SameCompletions
<1>2. Addressing'
  <2>1. CASE addressing_port' = addressing_port
             /\ port_config_phase'[addressing_port] = port_config_phase[addressing_port]
    BY <1>1, <2>1 DEF Flown, Addressing
  <2>2. CASE addressing_port = 0 /\ port_config_phase'[addressing_port'] = "kResettingPort"
    <3>1. port_config_phase[0] = "kNotConnected"
      BY DEF Inv, TypeOK
    <3>2. /\ Flight(cmds, events, "EnableSlot", SlotIds) = 0
          /\ Flight(cmds, events, "AddressDevice", SlotIds) = 0
      BY <2>2, <3>1, NoneAddressing
    <3> QED
      BY <1>1, <2>2, <3>2 DEF Addressing
  <2> QED
    BY <2>1, <2>2 DEF QuietReset
<1>3. Target'
  <2>1. CASE addressing_port' = addressing_port
    BY <2>1 DEF Flown, Target
  <2>2. CASE addressing_port = 0
    <3>1. port_config_phase[0] = "kNotConnected"
      BY DEF Inv, TypeOK
    <3>2. Flight(cmds, events, "AddressDevice", SlotIds) = 0
      BY <2>2, <3>1, NoneAddressing
    <3>3. cmds \in Seq(Command) /\ events \in Seq(Event)
      BY DEF Inv, TypeOK
    <3>4. \A s \in SlotIds : Occurrences(cmds, CommandsOf("AddressDevice", {s})) = 0
      BY <3>2, <3>3, NoneForSlot
    <3> QED
      BY <3>4 DEF Target
  <2> QED
    BY <2>1, <2>2 DEF QuietReset
<1>4. Fresh'
  BY DEF Flown, Fresh, SameCompletions
<1>5. ASSUME NEW s \in SlotIds PROVE SlotHolds(s)'
  <2>1. devices[s].ctx_port \in 0..MaxPorts
    BY SlotTypes
  <2>2. \/ PhaseOf(s)' = PhaseOf(s)
        \/ PhaseOf(s) \notin Late /\ PhaseOf(s)' \notin Late
    BY <2>1, QuietSlot DEF QuietReset
  <2>3. Configuring(s)' = Configuring(s)
    BY <1>1 DEF Configuring
  <2>4. \A issuers : Moves(events', s, issuers) <= Moves(events, s, issuers)
    BY DEF FewerMoves
  <2> QED
    BY <2>2, <2>3, <2>4, SlotKept
<1> QED
  BY <1>2, <1>3, <1>4, <1>5 DEF Flown

(* Fresh is about the ports of the devices and the Enable Slot completions.*)
LEMMA FreshKept ==
    ASSUME Flown, UNCHANGED slot_state,
           \A s \in SlotIds : /\ devices'[s].ctx_port = devices[s].ctx_port
                              /\ devices'[s].in_port = devices[s].in_port,
           \A s \in 1..kDeviceSize : Occurrences(events', CompletionsOf("EnableSlot", {s})) =
                                     Occurrences(events, CompletionsOf("EnableSlot", {s}))
    PROVE  Fresh'
<1>1. \A s \in 1..kDeviceSize : s \in SlotIds
  BY DEF SlotIds
<1> QED
  BY <1>1 DEF Flown, Fresh

(* Equal counts are enough for QuietStep.                                  *)
LEMMA SameCountsQuiet ==
    ASSUME Inv, SameCounts(events, events')
    PROVE  SameCompletions /\ FewerMoves
<1>1. \A s, issuers : Moves(events, s, issuers) \in Nat
  BY CountsAreNat DEF Inv, TypeOK
<1> QED
  BY <1>1 DEF SameCounts, SameCompletions, FewerMoves

(* Popping a Port Status Change event keeps the counts.                    *)
LEMMA PopPortEvent ==
    ASSUME Inv, EventFront("PortStatusChange")
    PROVE  Tail(events) \in Seq(Event) /\ SameCounts(events, Tail(events))
<1>1. /\ events \in Seq(Event) /\ events # <<>> /\ Tail(events) \in Seq(Event)
      /\ Head(events).type = "PortStatusChange"
  BY FrontType DEF Inv, TypeOK, EventFront
<1>2. /\ \A type, slots : Occurrences(Tail(events), CompletionsOf(type, slots)) \in Nat
      /\ \A s, issuers : Moves(Tail(events), s, issuers) \in Nat
  BY <1>1, CountType DEF Moves
<1> QED
  BY <1>1, <1>2, PopCounts DEF SameCounts

(* Two steps that change no count.                                         *)
LEMMA SameCountsTrans ==
    ASSUME NEW e1, NEW e2, NEW e3, SameCounts(e1, e2), SameCounts(e2, e3)
    PROVE  SameCounts(e1, e3)
  BY DEF SameCounts

(* No phase changes.                                                       *)
LEMMA NoReset ==
    ASSUME Inv, UNCHANGED <<addressing_port, port_config_phase>>
    PROVE  QuietReset(addressing_port, port_config_phase, addressing_port', port_config_phase')
  BY DEF QuietReset, QuietPort

(* One turn of the boot loop keeps the second invariant.                   *)
LEMMA ConfigurePortFlown ==
    ASSUME Inv, Inv', Flown, ConfigurePort
    PROVE  Flown'
<1> DEFINE r == ResetPort(scan, addressing_port, port_config_phase)
<1>0. scan \in Ports
  BY DEF Inv, TypeOK, ConfigurePort, Ports
<1>1. events \in Seq(Event) /\ UNCHANGED <<devices, ep0, intr, cmds, slot_state>>
  BY DEF Inv, TypeOK, ConfigurePort
<1>2. CASE "ccs" \in portsc[scan] /\ port_config_phase[scan] = "kNotConnected"
  <2>1. ApplyReset(r, events)
    BY <1>2 DEF ConfigurePort
  <2>2. r.resets \in SUBSET Ports /\ QuietReset(addressing_port, port_config_phase, r.ap, r.phase)
    BY <1>0, <1>2, InvGoodPhases, ResetPortGood, ResetPortQuiet
  <2> HIDE DEF r
  <2>3. SameCounts(events, events')
    BY <1>1, <2>1, <2>2, ResetEventsSame DEF ApplyReset
  <2>4. QuietReset(addressing_port, port_config_phase, addressing_port', port_config_phase')
    BY <2>1, <2>2 DEF ApplyReset
  <2> QED
    BY <1>1, <2>3, <2>4, SameCountsQuiet, QuietStep
<1>3. CASE ~("ccs" \in portsc[scan] /\ port_config_phase[scan] = "kNotConnected")
  <2>1. UNCHANGED <<addressing_port, port_config_phase, events>>
    BY <1>3 DEF ConfigurePort
  <2>2. SameCounts(events, events')
    BY <2>1 DEF SameCounts
  <2> QED
    BY <1>1, <2>1, <2>2, NoReset, SameCountsQuiet, QuietStep
<1> QED
  BY <1>2, <1>3

(* A handler that fails, for an event that is no completion.               *)
LEMMA FailFlown ==
    ASSUME Inv, Inv', Flown, NEW type, type # "CommandCompletion", EventFront(type),
           NEW code, Fail(code)
    PROVE  Flown'
<1>1. /\ events \in Seq(Event) /\ events # <<>> /\ Tail(events) \in Seq(Event)
      /\ Head(events).type = type
  BY FrontType DEF Inv, TypeOK, EventFront
<1>2. events' = Tail(events) /\ UNCHANGED <<devices, ep0, intr, cmds, slot_state>>
      /\ UNCHANGED <<addressing_port, port_config_phase>>
  BY DEF Fail, hcVars
<1>3. /\ \A t, slots : Occurrences(Tail(events), CompletionsOf(t, slots)) \in Nat
      /\ \A s, issuers : Moves(Tail(events), s, issuers) \in Nat
  BY <1>1, CountType DEF Moves
<1>4. SameCompletions
  BY <1>1, <1>2, <1>3, PopCounts DEF SameCompletions
<1>5. FewerMoves
  <2> SUFFICES ASSUME NEW s, NEW issuers
               PROVE  Moves(Tail(events), s, issuers) <= Moves(events, s, issuers)
    BY <1>2 DEF FewerMoves
  <2>1. Moves(events, s, issuers) = Moves(Tail(events), s, issuers)
          + (IF Head(events).type = "Transfer" /\ Head(events).slot = s
                  /\ Head(events).issuer \in issuers THEN 1 ELSE 0)
    BY <1>1, PopCounts
  <2> QED
    BY <2>1, <1>3
<1> QED
  BY <1>2, <1>4, <1>5, NoReset, QuietStep

(* Plugging in and out only posts port events.                             *)
LEMMA PlugFlown ==
    ASSUME Inv, Inv', Flown, NEW p \in Ports, Plug(p) \/ Unplug(p)
    PROVE  Flown'
<1>1. /\ events' = events \o PortStatusChange(p, portsc[p])
      /\ UNCHANGED <<devices, ep0, intr, cmds, slot_state>>
      /\ UNCHANGED <<addressing_port, port_config_phase>>
  BY DEF Plug, Unplug, driverVars
<1>2. SameCounts(events, events')
  BY <1>1, PortEventSame DEF Inv, TypeOK
<1> QED
  BY <1>1, <1>2, NoReset, SameCountsQuiet, QuietStep

(* An idle poll changes nothing.                                           *)
LEMMA IdleFlown ==
    ASSUME Inv, Inv', Flown, PollIdle \/ UNCHANGED vars
    PROVE  Flown'
<1>1. /\ UNCHANGED <<devices, ep0, intr, cmds, slot_state>>
      /\ UNCHANGED <<addressing_port, port_config_phase, events>>
  BY DEF PollIdle, vars, driverVars, ringVars, hcVars
<1>2. SameCounts(events, events')
  BY <1>1 DEF SameCounts
<1> QED
  BY <1>1, <1>2, NoReset, SameCountsQuiet, QuietStep

(* Pushing a command is one more in flight.                                *)
LEMMA PushFlight ==
    ASSUME Inv, NEW x \in Command, cmds' = Append(cmds, x), SameCompletions
    PROVE  \A type, slots : Flight(cmds, events, type, slots)' =
             Flight(cmds, events, type, slots)
             + (IF x.type = type /\ x.slot \in slots THEN 1 ELSE 0)
<1> SUFFICES ASSUME NEW type, NEW slots
             PROVE  Flight(cmds', events', type, slots) =
                      Flight(cmds, events, type, slots)
                      + (IF x.type = type /\ x.slot \in slots THEN 1 ELSE 0)
  OBVIOUS
<1>1. cmds \in Seq(Command) /\ events \in Seq(Event)
  BY DEF Inv, TypeOK
<1>2. /\ Occurrences(cmds, CommandsOf(type, slots)) \in Nat
      /\ Occurrences(events, CompletionsOf(type, slots)) \in Nat
  BY <1>1, CountsAreNat
<1>3. Occurrences(cmds', CommandsOf(type, slots)) =
        Occurrences(cmds, CommandsOf(type, slots))
        + (IF x.type = type /\ x.slot \in slots THEN 1 ELSE 0)
  BY <1>1, PushCounts
<1>4. Occurrences(events', CompletionsOf(type, slots)) =
        Occurrences(events, CompletionsOf(type, slots))
  BY DEF SameCompletions
<1> QED
  BY <1>2, <1>3, <1>4 DEF Flight

(* EnableSlot: the reset is done, the addressing port asks for a slot.     *)
LEMMA EnableSlotFlown ==
    ASSUME Inv, Inv', Flown, EventFront("PortStatusChange"), NEW p \in Ports,
           port_config_phase[p] = "kResettingPort", EnableSlot(p)
    PROVE  Flown'
<1>1. /\ events' = Tail(events) /\ UNCHANGED <<devices, ep0, intr, slot_state>>
      /\ addressing_port' = addressing_port
  BY DEF EnableSlot
<1>2. SameCounts(events, events')
  BY <1>1, PopPortEvent
<1>3. SameCompletions /\ FewerMoves
  BY <1>2, SameCountsQuiet
<1>4. CASE UNCHANGED <<port_config_phase, cmds>>
  BY <1>1, <1>3, <1>4, NoReset, QuietStep
<1>5. CASE /\ port_config_phase' = [port_config_phase EXCEPT ![p] = "kEnablingSlot"]
           /\ cmds' = Append(cmds, [type |-> "EnableSlot", slot |-> 0])
  <2> DEFINE x == [type |-> "EnableSlot", slot |-> 0]
  <2>1. x \in Command /\ x.type = "EnableSlot" /\ x.slot = 0 /\ 0 \in SlotIds
    BY DEF Command, CommandType, SlotIds
  <2>2. /\ p = addressing_port /\ p \in 0..MaxPorts /\ p # 0
        /\ port_config_phase \in [0..MaxPorts -> ConfigPhase]
        /\ cmds \in Seq(Command) /\ events \in Seq(Event)
    BY DEF Inv, TypeOK, AddressingExclusive, Busy, Ports
  <2>3. port_config_phase'[p] = "kEnablingSlot"
    BY <1>5, <2>2
  <2>4. \A q \in 0..MaxPorts : QuietPort(port_config_phase, port_config_phase', q)
    BY <1>5, <2>2 DEF QuietPort, Late
  <2> HIDE DEF x
  <2>5. \A type, slots : Flight(cmds, events, type, slots)' =
             Flight(cmds, events, type, slots)
             + (IF "EnableSlot" = type /\ 0 \in slots THEN 1 ELSE 0)
    BY <1>3, <1>5, <2>1, PushFlight DEF x
  <2>6. \A type, slots : Flight(cmds, events, type, slots) \in Nat
    BY <2>2, CountsAreNat
  <2>7. /\ Flight(cmds, events, "EnableSlot", SlotIds) = 0
        /\ Flight(cmds, events, "AddressDevice", SlotIds) = 0
    BY <2>2, NoneAddressing
  <2>8. Addressing'
    <3>1. Flight(cmds, events, "EnableSlot", SlotIds)' = 1
      BY <2>1, <2>5, <2>7
    <3>2. Flight(cmds, events, "AddressDevice", SlotIds)' = 0
      BY <2>5, <2>7
    <3> QED
      BY <1>1, <2>2, <2>3, <3>1, <3>2 DEF Addressing
  <2>9. Target'
    <3>1. cmds' \in Seq(Command) /\ events' \in Seq(Event)
      BY DEF Inv, TypeOK
    <3>2. Flight(cmds', events', "AddressDevice", SlotIds) = 0
      BY <2>5, <2>7
    <3>3. \A s \in SlotIds : Occurrences(cmds', CommandsOf("AddressDevice", {s})) = 0
      BY <3>1, <3>2, NoneForSlot
    <3> QED
      BY <3>3 DEF Target
  <2>10. Fresh'
    <3>1. devices' = devices /\ slot_state' = slot_state
      BY <1>1
    <3>2. \A s : Occurrences(events', CompletionsOf("EnableSlot", {s})) =
                   Occurrences(events, CompletionsOf("EnableSlot", {s}))
      BY <1>3 DEF SameCompletions
    <3>3. Fresh
      BY DEF Flown
    <3> QED
      BY <3>1, <3>2, <3>3 DEF Fresh
  <2>11. ASSUME NEW s \in SlotIds PROVE SlotHolds(s)'
    <3>1. devices[s].ctx_port \in 0..MaxPorts
      BY SlotTypes
    <3>2. \/ PhaseOf(s)' = PhaseOf(s)
          \/ PhaseOf(s) \notin Late /\ PhaseOf(s)' \notin Late
      BY <1>1, <2>4, <3>1, QuietSlot
    <3>3. Configuring(s)' = Configuring(s)
      BY <2>5, <2>6 DEF Configuring
    <3>4. \A issuers : Moves(events', s, issuers) <= Moves(events, s, issuers)
      BY <1>3 DEF FewerMoves
    <3> QED
      BY <1>1, <3>2, <3>3, <3>4, SlotKept
  <2> QED
    BY <2>8, <2>9, <2>10, <2>11 DEF Flown
<1> QED
  BY <1>4, <1>5 DEF EnableSlot

(* OnEvent(PortStatusChangeEventTRB) keeps the second invariant.           *)
LEMMA OnPortStatusChangeFlown ==
    ASSUME Inv, Inv', Flown, OnPortStatusChange
    PROVE  Flown'
<1> DEFINE p == Head(events).port
           r == ResetPort(p, addressing_port, port_config_phase)
<1>1. EventFront("PortStatusChange")
  BY DEF OnPortStatusChange
<1>2. p \in Ports /\ Tail(events) \in Seq(Event)
  BY <1>1, FrontType DEF Event, PortStatusChangeEvent, CommandCompletionEvent, TransferEvent
<1>3. CASE port_config_phase[p] = "kNotConnected"
  <2>1. ApplyReset(r, Tail(events)) /\ UNCHANGED <<devices, ep0, intr, cmds, slot_state>>
    BY <1>3 DEF OnPortStatusChange
  <2>2. r.resets \in SUBSET Ports /\ QuietReset(addressing_port, port_config_phase, r.ap, r.phase)
    BY <1>2, <1>3, InvGoodPhases, ResetPortGood, ResetPortQuiet
  <2> HIDE DEF r
  <2>3. SameCounts(Tail(events), events')
    BY <1>2, <2>1, <2>2, ResetEventsSame DEF ApplyReset
  <2>4. SameCounts(events, events')
    BY <1>1, <2>3, PopPortEvent, SameCountsTrans
  <2>5. QuietReset(addressing_port, port_config_phase, addressing_port', port_config_phase')
    BY <2>1, <2>2 DEF ApplyReset
  <2> QED
    BY <2>1, <2>4, <2>5, SameCountsQuiet, QuietStep
<1>4. CASE port_config_phase[p] = "kResettingPort"
  <2>1. EnableSlot(p)
    BY <1>4 DEF OnPortStatusChange
  <2> QED
    BY <1>1, <1>2, <1>4, <2>1, EnableSlotFlown
<1>5. CASE port_config_phase[p] \notin {"kNotConnected", "kResettingPort"}
  <2>1. Fail("INVALID_PHASE")
    BY <1>5 DEF OnPortStatusChange
  <2> QED
    BY <1>1, <2>1, FailFlown
<1> QED
  BY <1>3, <1>4, <1>5

-----------------------------------------------------------------------------
(* The completions.                                                        *)

(* Popping a completion is one less in flight.                             *)
LEMMA PopCompletion ==
    ASSUME Inv, EventFront("CommandCompletion"), NEW type, Head(events).issuer = type
    PROVE  LET s == Head(events).slot IN
           /\ s \in SlotIds /\ Tail(events) \in Seq(Event)
           /\ \A t, slots : Occurrences(events, CompletionsOf(t, slots)) =
                Occurrences(Tail(events), CompletionsOf(t, slots))
                + (IF t = type /\ s \in slots THEN 1 ELSE 0)
           /\ \A t, slots : Flight(cmds, events, t, slots) =
                Flight(cmds, Tail(events), t, slots)
                + (IF t = type /\ s \in slots THEN 1 ELSE 0)
           /\ \A u, issuers : Moves(Tail(events), u, issuers) = Moves(events, u, issuers)
<1> DEFINE s == Head(events).slot
<1>1. /\ events \in Seq(Event) /\ events # <<>> /\ Tail(events) \in Seq(Event)
      /\ Head(events).type = "CommandCompletion" /\ s \in SlotIds /\ cmds \in Seq(Command)
  BY FrontType, CompletionSlot DEF Inv, TypeOK, EventFront
<1>2. /\ \A t, slots : Occurrences(Tail(events), CompletionsOf(t, slots)) \in Nat
      /\ \A t, slots : Occurrences(cmds, CommandsOf(t, slots)) \in Nat
      /\ \A u, issuers : Moves(Tail(events), u, issuers) \in Nat
  BY <1>1, CountType DEF Moves
<1>3. ASSUME NEW t, NEW slots
      PROVE  Occurrences(events, CompletionsOf(t, slots)) =
                Occurrences(Tail(events), CompletionsOf(t, slots))
                + (IF t = type /\ s \in slots THEN 1 ELSE 0)
  <2>1. Occurrences(events, CompletionsOf(t, slots)) =
                Occurrences(Tail(events), CompletionsOf(t, slots))
                + (IF Head(events).type = "CommandCompletion" /\ Head(events).issuer = t
                      /\ s \in slots THEN 1 ELSE 0)
    BY <1>1, PopCounts
  <2> QED
    BY <1>1, <2>1
<1>4. ASSUME NEW t, NEW slots
      PROVE  Flight(cmds, events, t, slots) =
                Flight(cmds, Tail(events), t, slots)
                + (IF t = type /\ s \in slots THEN 1 ELSE 0)
  <2>1. /\ Occurrences(Tail(events), CompletionsOf(t, slots)) \in Nat
        /\ Occurrences(cmds, CommandsOf(t, slots)) \in Nat
    BY <1>2
  <2> QED
    BY <1>3, <2>1 DEF Flight
<1>5. \A u, issuers : Moves(Tail(events), u, issuers) = Moves(events, u, issuers)
  BY <1>1, <1>2, PopCounts
<1> QED
  BY <1>1, <1>3, <1>4, <1>5

(* A slot has no more in flight than all slots.                            *)
LEMMA FrontFlight ==
    ASSUME Inv, EventFront("CommandCompletion"), NEW type, Head(events).issuer = type
    PROVE  /\ Flight(cmds, events, type, SlotIds) >= 1
           /\ Flight(cmds, events, type, {Head(events).slot}) >= 1
           /\ Occurrences(events, CompletionsOf(type, {Head(events).slot})) >= 1
<1> DEFINE s == Head(events).slot
<1>1. /\ s \in SlotIds /\ Tail(events) \in Seq(Event) /\ cmds \in Seq(Command)
      /\ Flight(cmds, events, type, SlotIds) = Flight(cmds, Tail(events), type, SlotIds) + 1
      /\ Flight(cmds, events, type, {s}) = Flight(cmds, Tail(events), type, {s}) + 1
      /\ Occurrences(events, CompletionsOf(type, {s})) =
           Occurrences(Tail(events), CompletionsOf(type, {s})) + 1
  <2>1. cmds \in Seq(Command) /\ events \in Seq(Event)
    BY DEF Inv, TypeOK
  <2> QED
    BY <2>1, PopCompletion, SMTT(30)
<1>2. /\ Flight(cmds, Tail(events), type, SlotIds) \in Nat
      /\ Flight(cmds, Tail(events), type, {s}) \in Nat
      /\ Occurrences(Tail(events), CompletionsOf(type, {s})) \in Nat
  BY <1>1, CountsAreNat
<1> QED
  BY <1>1, <1>2

(* The ports of a device do not matter for its slot, nor do class drivers  *)
(* that are not there yet.                                                 *)
LEMMA AlikeSlot ==
    ASSUME NEW s, NEW d \in Device, NEW d2 \in Device, NEW phase, NEW q, NEW n, NEW f, NEW e,
           d2.initialize_phase = d.initialize_phase, d2.hid_phase = d.hid_phase,
           d2.initialize_phase = 4 => d2.class_drivers = d.class_drivers,
           SlotOK(s, d, phase, q, n, f, e)
    PROVE  SlotOK(s, d2, phase, q, n, f, e)
<1>1. Expected(d2) = Expected(d)
  BY DEF Expected
<1>2. Allowance(d2, phase) = Allowance(d, phase)
  <2>1. d.initialize_phase \in 0..4
    BY DEF Device
  <2> QED
    BY <2>1 DEF Allowance
<1>3. InStep(d2, phase)
  BY DEF SlotOK, InStep
<1> QED
  BY <1>1, <1>2, <1>3 DEF SlotOK

(* AddressDevice, with the slot of the completion: it is fresh, or slot 0. *)
LEMMA AddressDeviceFlown ==
    ASSUME Inv, Inv', Flown, EventFront("CommandCompletion"),
           Head(events).issuer = "EnableSlot",
           port_config_phase[addressing_port] = "kEnablingSlot",
           AddressDevice(addressing_port, Head(events).slot)
    PROVE  Flown'
<1> DEFINE p == addressing_port
<1>0. PICK s \in SlotIds : s = Head(events).slot
  BY CompletionSlot
<1> DEFINE x == [type |-> "AddressDevice", slot |-> s]
<1>1. /\ devices' = AllocDevice(s, p)
      /\ port_config_phase' = [port_config_phase EXCEPT ![p] = "kAddressingDevice"]
      /\ cmds' = Append(cmds, x)
      /\ events' = Tail(events)
      /\ UNCHANGED <<addressing_port, ep0, intr, slot_state>>
  BY <1>0 DEF AddressDevice, hcVars
<1>2. /\ s \in SlotIds /\ p \in 0..MaxPorts /\ cmds \in Seq(Command) /\ events \in Seq(Event)
      /\ port_config_phase \in [0..MaxPorts -> ConfigPhase]
      /\ port_config_phase[0] = "kNotConnected" /\ p # 0
      /\ cmds' \in Seq(Command) /\ events' \in Seq(Event) /\ devices \in [SlotIds -> Device]
  BY PopCompletion DEF Inv, TypeOK
<1>3. x \in Command /\ x.type = "AddressDevice" /\ x.slot = s
  BY <1>2 DEF Command, CommandType
<1> HIDE DEF x
<1>4. /\ \A t, slots : Flight(cmds, events, t, slots) = Flight(cmds, Tail(events), t, slots)
              + (IF t = "EnableSlot" /\ s \in slots THEN 1 ELSE 0)
      /\ \A u, issuers : Moves(events', u, issuers) = Moves(events, u, issuers)
  BY <1>0, <1>1, PopCompletion
<1>5. ASSUME NEW t, NEW slots
      PROVE  /\ Occurrences(cmds', CommandsOf(t, slots)) = Occurrences(cmds, CommandsOf(t, slots))
                  + (IF t = "AddressDevice" /\ s \in slots THEN 1 ELSE 0)
             /\ Flight(cmds', events', t, slots) = Flight(cmds, Tail(events), t, slots)
                  + (IF t = "AddressDevice" /\ s \in slots THEN 1 ELSE 0)
             /\ Occurrences(cmds, CommandsOf(t, slots)) \in Nat
             /\ Flight(cmds, Tail(events), t, slots) \in Nat
             /\ Flight(cmds, events, t, slots) \in Nat
  <2>1. Occurrences(cmds', CommandsOf(t, slots)) = Occurrences(cmds, CommandsOf(t, slots))
                  + (IF t = "AddressDevice" /\ s \in slots THEN 1 ELSE 0)
    BY <1>1, <1>2, <1>3, PushCounts
  <2>2. /\ Occurrences(cmds, CommandsOf(t, slots)) \in Nat
        /\ Occurrences(events', CompletionsOf(t, slots)) \in Nat
        /\ Flight(cmds, Tail(events), t, slots) \in Nat
        /\ Flight(cmds, events, t, slots) \in Nat
    BY <1>1, <1>2, CountsAreNat
  <2> QED
    BY <1>1, <2>1, <2>2 DEF Flight
<1>6. /\ Flight(cmds, events, "EnableSlot", SlotIds) = 1
      /\ Flight(cmds, events, "AddressDevice", SlotIds) = 0
  <2>1. Flight(cmds, events, "AddressDevice", SlotIds) \in Nat
    BY <1>5
  <2> QED
    BY <2>1 DEF Flown, Addressing
<1>7. /\ Flight(cmds', events', "EnableSlot", SlotIds) = 0
      /\ Flight(cmds', events', "AddressDevice", SlotIds) = 1
  <2>1. /\ Flight(cmds, events, "EnableSlot", SlotIds) =
             Flight(cmds, Tail(events), "EnableSlot", SlotIds) + 1
        /\ Flight(cmds, events, "AddressDevice", SlotIds) =
             Flight(cmds, Tail(events), "AddressDevice", SlotIds) + 0
    BY <1>4
  <2>2. /\ Flight(cmds', events', "EnableSlot", SlotIds) =
             Flight(cmds, Tail(events), "EnableSlot", SlotIds) + 0
        /\ Flight(cmds', events', "AddressDevice", SlotIds) =
             Flight(cmds, Tail(events), "AddressDevice", SlotIds) + 1
    BY <1>5
  <2>3. /\ Flight(cmds, Tail(events), "EnableSlot", SlotIds) \in Nat
        /\ Flight(cmds, Tail(events), "AddressDevice", SlotIds) \in Nat
    BY <1>5
  <2> QED
    BY <1>6, <2>1, <2>2, <2>3
<1>8. Addressing'
  <2>1. port_config_phase'[addressing_port'] = "kAddressingDevice"
    BY <1>1, <1>2
  <2> QED
    BY <1>7, <2>1 DEF Addressing
<1>9. /\ \A t \in SlotIds \ {s} : devices'[t] = devices[t]
      /\ devices'[s] \in Device /\ devices'[s].in_port = p
      /\ \/ devices'[s] = NewDevice(p)
         \/ Allocated(devices[s]) /\ devices'[s] = [devices[s] EXCEPT !.in_port = p]
  <2>1. devices' \in [SlotIds -> Device] /\ devices[s] \in Device
    BY <1>2 DEF Inv, TypeOK
  <2>2. CASE Allocated(devices[s])
    <3>1. devices' = [devices EXCEPT ![s] = [devices[s] EXCEPT !.in_port = p]]
      BY <1>1, <1>2, <2>2 DEF AllocDevice
    <3>2. [devices[s] EXCEPT !.in_port = p].in_port = p
      BY <2>1 DEF Device
    <3> QED
      BY <1>2, <2>1, <2>2, <3>1, <3>2
  <2>3. CASE ~Allocated(devices[s])
    <3>1. devices' = [devices EXCEPT ![s] = NewDevice(p)] /\ NewDevice(p).in_port = p
      BY <1>1, <2>3 DEF AllocDevice, NewDevice
    <3> QED
      BY <1>2, <2>1, <2>3, <3>1
  <2> QED
    BY <2>2, <2>3
<1>10. devices[s].ctx_port = 0 /\ (s # 0 => ~Allocated(devices[s]) /\ slot_state[s] # "Disabled")
  <2>1. Occurrences(events, CompletionsOf("EnableSlot", {s})) # 0
    <3>1. Occurrences(events, CompletionsOf("EnableSlot", {s})) >= 1
      BY <1>0, FrontFlight
    <3> QED
      BY <3>1
  <2>2. CASE s = 0
    BY <1>2, <2>2 DEF Flown, Fresh
  <2>3. CASE s # 0
    <3>1. s \in 1..kDeviceSize
      BY <1>2, <2>3 DEF SlotIds
    <3>2. ~Allocated(devices[s]) /\ slot_state[s] # "Disabled"
      BY <2>1, <3>1 DEF Flown, Fresh
    <3> QED
      BY <1>2, <3>2 DEF Flown, Fresh
  <2> QED
    BY <2>2, <2>3
<1>11. devices'[s].ctx_port = 0
  <2>1. NewDevice(p).ctx_port = 0
    BY DEF NewDevice
  <2>2. [devices[s] EXCEPT !.in_port = p].ctx_port = devices[s].ctx_port
    BY <1>2 DEF Device
  <2> QED
    BY <1>9, <1>10, <2>1, <2>2
<1>12. Target'
  <2> SUFFICES ASSUME NEW t \in SlotIds, Occurrences(cmds', CommandsOf("AddressDevice", {t})) # 0
               PROVE  devices'[t].in_port = p
    BY <1>1 DEF Target
  <2>1. Occurrences(cmds, CommandsOf("AddressDevice", {t})) = 0
    BY <1>2, <1>6, NoneForSlot
  <2>2. t = s
    BY <1>5, <2>1
  <2> QED
    BY <1>9, <2>2
<1>13. Fresh'
  <2>1. \A t \in SlotIds : Occurrences(events', CompletionsOf("EnableSlot", {t})) = 0
    <3>1. cmds' \in Seq(Command) /\ events' \in Seq(Event)
      BY <1>2
    <3>2. Flight(cmds', events', "EnableSlot", SlotIds) = 0
      BY <1>7
    <3> DEFINE c == cmds'
               e == events'
    <3>3. c \in Seq(Command) /\ e \in Seq(Event) /\ Flight(c, e, "EnableSlot", SlotIds) = 0
      BY <3>1, <3>2
    <3> HIDE DEF c, e
    <3>4. \A t \in SlotIds : Occurrences(e, CompletionsOf("EnableSlot", {t})) = 0
      BY <3>3, NoneForSlot
    <3> QED
      BY <3>4 DEF e
  <2>2. \A t \in 1..kDeviceSize : t \in SlotIds
    BY DEF SlotIds
  <2>3. slot_state'[0] = "Disabled"
    BY <1>1 DEF Flown, Fresh
  <2>4. \A t \in SlotIds : devices'[t].ctx_port # 0 => devices'[t].ctx_port = devices'[t].in_port
    BY <1>9, <1>11 DEF Flown, Fresh
  <2>5. \A t \in SlotIds : slot_state'[t] \in {"Disabled", "Enabled"} => devices'[t].ctx_port = 0
    BY <1>1, <1>9, <1>11 DEF Flown, Fresh
  <2>6. \A t \in 1..kDeviceSize : slot_state'[t] = "Disabled" => ~Allocated(devices'[t])
    <3> SUFFICES ASSUME NEW t \in 1..kDeviceSize, slot_state[t] = "Disabled"
                 PROVE  ~Allocated(devices'[t])
      BY <1>1
    <3>1. t # s
      BY <1>10
    <3> QED
      BY <1>9, <2>2, <3>1 DEF Flown, Fresh
  <2> QED
    BY <2>1, <2>2, <2>3, <2>4, <2>5, <2>6 DEF Fresh
<1>14. ASSUME NEW t \in SlotIds PROVE SlotHolds(t)'
  <2>1. \A issuers : Moves(events', t, issuers) <= Moves(events, t, issuers)
    <3>1. \A issuers : Moves(events, t, issuers) \in Nat
      BY <1>2, CountsAreNat
    <3> QED
      BY <1>4, <3>1
  <2>2. Configuring(t)' = Configuring(t)
    <3>1. /\ Flight(cmds', events', "ConfigureEndpoint", {t}) = Flight(cmds, Tail(events), "ConfigureEndpoint", {t}) + 0
          /\ Flight(cmds, events, "ConfigureEndpoint", {t}) = Flight(cmds, Tail(events), "ConfigureEndpoint", {t}) + 0
      BY <1>4, <1>5
    <3> QED
      BY <3>1 DEF Configuring
  <2>3. CASE t # s
    <3>1. devices[t].ctx_port \in 0..MaxPorts
      BY SlotTypes
    <3>2. QuietPort(port_config_phase, port_config_phase', devices[t].ctx_port)
      BY <1>1, <1>2, <3>1 DEF QuietPort, Late
    <3>3. \/ PhaseOf(t)' = PhaseOf(t)
          \/ PhaseOf(t) \notin Late /\ PhaseOf(t)' \notin Late
      BY <1>9, <2>3, <3>2, QuietSlot
    <3> QED
      BY <1>1, <1>9, <2>1, <2>2, <2>3, <3>3, SlotKept
  <2>4. CASE t = s
    <3>1. PhaseOf(s) = "kNotConnected" /\ PhaseOf(s)' = "kNotConnected"
      BY <1>1, <1>2, <1>10, <1>11 DEF PhaseOf
    <3>2. SlotOK(s, devices[s], PhaseOf(s), ep0[s], intr[s], Configuring(s), events)
      BY <1>2 DEF Flown, SlotHolds
    <3>3. /\ devices[s] \in Device /\ ep0[s] \in Seq(ControlRequest) /\ intr[s] \in Nat
      BY <1>2, SlotTypes
    <3>4. devices[s].initialize_phase = 0 /\ devices[s].hid_phase = 0
      BY <3>1, <3>2 DEF SlotOK, InStep, Late
    <3>5. devices'[s].initialize_phase = 0 /\ devices'[s].hid_phase = 0
      <4>1. NewDevice(p).initialize_phase = 0 /\ NewDevice(p).hid_phase = 0
        BY DEF NewDevice
      <4>2. [devices[s] EXCEPT !.in_port = p].initialize_phase = devices[s].initialize_phase
            /\ [devices[s] EXCEPT !.in_port = p].hid_phase = devices[s].hid_phase
        BY <3>3 DEF Device
      <4> QED
        BY <1>9, <3>4, <4>1, <4>2
    <3>6. SlotOK(s, devices[s], PhaseOf(s)', ep0[s], intr[s], Configuring(s), events')
      BY <1>2, <2>1, <2>4, <3>1, <3>2, <3>3, SameSlot
    <3>7. SlotOK(s, devices'[s], PhaseOf(s)', ep0[s], intr[s], Configuring(s), events')
      BY <1>9, <3>3, <3>4, <3>5, <3>6, AlikeSlot
    <3> QED
      BY <1>1, <2>2, <2>4, <3>7 DEF SlotHolds
  <2> QED
    BY <2>3, <2>4
<1> QED
  BY <1>8, <1>12, <1>13, <1>14 DEF Flown

(* OnEvent(CommandCompletionEventTRB) for Enable Slot keeps it.            *)
LEMMA OnEnableSlotCompletedFlown ==
    ASSUME Inv, Inv', Flown, OnEnableSlotCompleted
    PROVE  Flown'
<1>1. EventFront("CommandCompletion") /\ Head(events).issuer = "EnableSlot"
  BY DEF OnEnableSlotCompleted
<1>2. port_config_phase[addressing_port] = "kEnablingSlot"
  <2>1. Flight(cmds, events, "EnableSlot", SlotIds) >= 1
    BY <1>1, FrontFlight
  <2> QED
    BY <2>1 DEF Flown, Addressing
<1>3. AddressDevice(addressing_port, Head(events).slot)
  BY <1>2 DEF OnEnableSlotCompleted
<1> QED
  BY <1>1, <1>2, <1>3, AddressDeviceFlown

(* The device context of one slot alone names a port.                      *)
LEMMA OneContext ==
    ASSUME Inv, Flown, NEW s \in SlotIds, NEW t \in SlotIds \ {s}, devices[s].ctx_port # 0
    PROVE  devices[t].ctx_port # devices[s].ctx_port
<1> SUFFICES ASSUME devices[t].ctx_port = devices[s].ctx_port PROVE FALSE
  OBVIOUS
<1>1. /\ devices[s].ctx_port = devices[s].in_port /\ devices[t].ctx_port = devices[t].in_port
      /\ devices[t].in_port = devices[s].in_port
  BY DEF Flown, Fresh
<1>2. Allocated(devices[s]) /\ Allocated(devices[t])
  BY <1>1
<1> QED
  BY <1>1, <1>2 DEF Inv, SlotBinding

(* StartInitialize finds the device's queues empty.                        *)
LEMMA StartSlot ==
    ASSUME NEW s, NEW d \in Device, NEW q \in Seq(ControlRequest), NEW n \in Nat, NEW f,
           NEW e \in Seq(Event), SlotOK(s, d, "kAddressingDevice", q, n, f, e)
    PROVE  SlotOK(s, StartInitialize(d), "kInitializingDevice",
                  Append(q, "GetDeviceDescriptor"), n, f, e)
<1> DEFINE d2 == StartInitialize(d)
           q2 == Append(q, "GetDeviceDescriptor")
<1>1. d.initialize_phase = 0 /\ d.hid_phase = 0
  BY DEF SlotOK, InStep, Late
<1>2. /\ d2.initialize_phase = 1 /\ d2.hid_phase = 0
      /\ Expected(d2) = {"GetDeviceDescriptor"}
  BY <1>1 DEF StartInitialize, Device, Expected
<1>3. Allowance(d, "kAddressingDevice") = 0 /\ Allowance(d2, "kInitializingDevice") = 1
  BY <1>1, <1>2 DEF Allowance
<1>4. Len(q) \in Nat /\ \A issuers : Moves(e, s, issuers) \in Nat
  BY LenProperties, CountType DEF Moves
<1>5. Len(q) = 0 /\ Moves(e, s, ControlRequest) = 0
  <2>1. Len(q) + Moves(e, s, ControlRequest) <= 0
    BY <1>3 DEF SlotOK
  <2>2. Moves(e, s, ControlRequest) \in Nat
    BY <1>4
  <2> QED
    BY <2>1, <2>2, <1>4
<1>6. Len(q2) = 1 /\ q2[1] = "GetDeviceDescriptor"
  BY <1>5, AppendProperties DEF ControlRequest
<1>7. Moves(e, s, ControlRequest \ {"GetDeviceDescriptor"}) = 0
  <2>1. TransfersOf(s, ControlRequest \ {"GetDeviceDescriptor"}) \subseteq TransfersOf(s, ControlRequest)
    BY DEF TransfersOf
  <2> QED
    BY <1>5, <2>1, NoneOfSubset DEF Moves
<1> HIDE DEF d2, q2
<1>8. InStep(d2, "kInitializingDevice")
  BY <1>2 DEF InStep, Late
<1>9. f = 0 /\ n + Moves(e, s, {"Normal"}) <= 0
  BY <1>1 DEF SlotOK
<1>10. SlotOK(s, d2, "kInitializingDevice", q2, n, f, e)
  <2>1. \A i \in 1..Len(q2) : q2[i] \in Expected(d2)
    BY <1>2, <1>6
  <2>2. Len(q2) + Moves(e, s, ControlRequest) <= Allowance(d2, "kInitializingDevice")
    BY <1>3, <1>5, <1>6
  <2> QED
    BY <1>2, <1>7, <1>8, <1>9, <2>1, <2>2 DEF SlotOK
<1> QED
  BY <1>10 DEF d2, q2

(* A failed Address Device: the completion is dropped.                     *)
LEMMA AddressFailedFlown ==
    ASSUME Inv, Inv', Flown, EventFront("CommandCompletion"),
           Head(events).issuer = "AddressDevice", NEW code, Fail(code)
    PROVE  Flown'
<1>1. /\ events' = Tail(events) /\ UNCHANGED <<devices, ep0, intr, cmds, slot_state>>
      /\ UNCHANGED <<addressing_port, port_config_phase>>
      /\ cmds \in Seq(Command) /\ events \in Seq(Event) /\ events' \in Seq(Event)
  BY DEF Fail, hcVars, Inv, TypeOK
<1>2. PICK s \in SlotIds : s = Head(events).slot
  BY CompletionSlot
<1>3. /\ \A t, slots : Occurrences(events, CompletionsOf(t, slots)) =
           Occurrences(events', CompletionsOf(t, slots))
           + (IF t = "AddressDevice" /\ s \in slots THEN 1 ELSE 0)
      /\ \A t, slots : Flight(cmds, events, t, slots) =
           Flight(cmds', events', t, slots)
           + (IF t = "AddressDevice" /\ s \in slots THEN 1 ELSE 0)
      /\ \A u, issuers : Moves(events', u, issuers) = Moves(events, u, issuers)
  BY <1>1, <1>2, PopCompletion
<1>4. /\ \A t, slots : Flight(cmds', events', t, slots) \in Nat
      /\ \A t, slots : Occurrences(events', CompletionsOf(t, slots)) \in Nat
      /\ \A u, issuers : Moves(events, u, issuers) \in Nat
  BY <1>1, CountsAreNat
<1>5. Addressing'
  <2> DEFINE a == Flight(cmds, events, "AddressDevice", SlotIds)
             b == Flight(cmds', events', "AddressDevice", SlotIds)
             g == Flight(cmds, events, "EnableSlot", SlotIds)
             h == Flight(cmds', events', "EnableSlot", SlotIds)
  <2>1. a = b + 1 /\ g = h + 0 /\ b \in Nat /\ h \in Nat
    BY <1>3, <1>4
  <2>2. /\ g = IF port_config_phase[addressing_port] = "kEnablingSlot" THEN 1 ELSE 0
        /\ a <= IF port_config_phase[addressing_port] = "kAddressingDevice" THEN 1 ELSE 0
    BY DEF Flown, Addressing
  <2> HIDE DEF a, b, g, h
  <2>3. /\ h = IF port_config_phase[addressing_port] = "kEnablingSlot" THEN 1 ELSE 0
        /\ b <= IF port_config_phase[addressing_port] = "kAddressingDevice" THEN 1 ELSE 0
    BY <2>1, <2>2
  <2> QED
    BY <1>1, <2>3 DEF Addressing, b, h
<1>6. Target'
  BY <1>1 DEF Flown, Target
<1>7. Fresh'
  <2>1. \A u \in 1..kDeviceSize : Occurrences(events', CompletionsOf("EnableSlot", {u})) =
                                  Occurrences(events, CompletionsOf("EnableSlot", {u}))
    BY <1>3, <1>4
  <2> QED
    BY <1>1, <2>1 DEF Flown, Fresh
<1>8. ASSUME NEW t \in SlotIds PROVE SlotHolds(t)'
  <2>1. Configuring(t)' = Configuring(t)
    BY <1>3, <1>4 DEF Configuring
  <2>2. PhaseOf(t)' = PhaseOf(t)
    BY <1>1 DEF PhaseOf
  <2>3. \A issuers : Moves(events', t, issuers) <= Moves(events, t, issuers)
    BY <1>3, <1>4
  <2> QED
    BY <1>1, <2>1, <2>2, <2>3, SlotKept
<1> QED
  BY <1>5, <1>6, <1>7, <1>8 DEF Flown

(* OnEvent(CommandCompletionEventTRB) for Address Device keeps it.         *)
LEMMA OnAddressDeviceCompletedFlown ==
    ASSUME Inv, Inv', Flown, OnAddressDeviceCompleted
    PROVE  Flown'
<1>1. EventFront("CommandCompletion") /\ Head(events).issuer = "AddressDevice"
  BY DEF OnAddressDeviceCompleted
<1>2. PICK s \in SlotIds : s = Head(events).slot
  BY <1>1, CompletionSlot
<1>3. PICK p \in 0..MaxPorts : p = devices[s].ctx_port
  BY SlotTypes
<1>4. CASE ~Allocated(devices[s])
  <2>1. Fail("INVALID_SLOT_ID")
    BY <1>2, <1>4 DEF OnAddressDeviceCompleted
  <2> QED BY <1>1, <2>1, AddressFailedFlown
<1>5. CASE /\ Allocated(devices[s])
           /\ p # addressing_port \/ port_config_phase[p] # "kAddressingDevice"
  <2>1. Fail("INVALID_PHASE")
    BY <1>2, <1>3, <1>5 DEF OnAddressDeviceCompleted
  <2> QED BY <1>1, <2>1, AddressFailedFlown
<1>6. CASE /\ Allocated(devices[s])
           /\ p = addressing_port
           /\ port_config_phase[p] = "kAddressingDevice"
  <2> DEFINE r == ResetFirstWaiting(port_config_phase)
             r2 == [r EXCEPT !.phase[p] = "kInitializingDevice"]
             new == [r.phase EXCEPT ![p] = "kInitializingDevice"]
             mid == [port_config_phase EXCEPT ![p] = "kInitializingDevice"]
  <2>1. /\ p \in Ports /\ p # 0 /\ port_config_phase \in [0..MaxPorts -> ConfigPhase]
        /\ port_config_phase[0] = "kNotConnected"
        /\ devices \in [SlotIds -> Device] /\ ep0 \in [SlotIds -> Seq(ControlRequest)]
        /\ cmds \in Seq(Command) /\ events \in Seq(Event) /\ events' \in Seq(Event)
        /\ cmds' \in Seq(Command)
    BY <1>3, <1>6, SMTT(30) DEF Inv, TypeOK, Ports
  <2>2. /\ ApplyReset(r2, Tail(events))
        /\ devices' = [devices EXCEPT ![s] = StartInitialize(@)]
        /\ ep0' = [ep0 EXCEPT ![s] = Append(@, "GetDeviceDescriptor")]
        /\ UNCHANGED <<cmds, intr, slot_state>>
    BY <1>2, <1>3, <1>6 DEF OnAddressDeviceCompleted, InitializeDevice
  <2>3. /\ r.resets \in SUBSET Ports
        /\ r = [ap |-> r.ap, phase |-> r.phase, resets |-> r.resets, err |-> r.err]
        /\ r.phase \in [0..MaxPorts -> ConfigPhase]
        /\ QuietReset(0, mid, r.ap, new)
    BY <1>6, <2>1, ResetFirstWaitingGood
  <2> HIDE DEF r
  <2>4. r2.ap = r.ap /\ r2.phase = new /\ r2.resets = r.resets
    BY <2>3
  <2>5. new[p] = "kInitializingDevice"
    BY <2>3
  <2> HIDE DEF r2, new, mid
  <2>6. /\ addressing_port' = r.ap /\ port_config_phase' = new
        /\ QuietReset(0, mid, addressing_port', port_config_phase')
        /\ events' = Tail(events) \o EventsAfter(r.resets)
    BY <2>2, <2>3, <2>4 DEF ApplyReset
  <2>7. Tail(events) \in Seq(Event) /\ SameCounts(Tail(events), events')
    BY <1>1, <2>3, <2>6, PopCompletion, ResetEventsSame
  <2>8. /\ \A t, slots : Occurrences(events, CompletionsOf(t, slots)) =
             Occurrences(events', CompletionsOf(t, slots))
             + (IF t = "AddressDevice" /\ s \in slots THEN 1 ELSE 0)
        /\ \A u, issuers : Moves(events', u, issuers) = Moves(events, u, issuers)
    BY <1>1, <1>2, <2>7, PopCompletion DEF SameCounts
  <2>9. /\ \A t, slots : Flight(cmds', events', t, slots) \in Nat
        /\ \A t, slots : Occurrences(cmds, CommandsOf(t, slots)) \in Nat
        /\ \A t, slots : Occurrences(events', CompletionsOf(t, slots)) \in Nat
        /\ \A u, issuers : Moves(events, u, issuers) \in Nat
    BY <2>1, CountsAreNat
  <2>10. ASSUME NEW t, NEW slots
         PROVE  Flight(cmds, events, t, slots) = Flight(cmds', events', t, slots)
                  + (IF t = "AddressDevice" /\ s \in slots THEN 1 ELSE 0)
    <3>1. Occurrences(cmds, CommandsOf(t, slots)) \in Nat
          /\ Occurrences(events', CompletionsOf(t, slots)) \in Nat
      BY <2>9
    <3> QED
      BY <2>2, <2>8, <3>1 DEF Flight
  <2>11. /\ Flight(cmds', events', "EnableSlot", SlotIds) = 0
         /\ Flight(cmds', events', "AddressDevice", SlotIds) = 0
    <3> DEFINE a == Flight(cmds, events, "AddressDevice", SlotIds)
               b == Flight(cmds', events', "AddressDevice", SlotIds)
               g == Flight(cmds, events, "EnableSlot", SlotIds)
               h == Flight(cmds', events', "EnableSlot", SlotIds)
    <3>1. a = b + 1 /\ g = h + 0 /\ b \in Nat /\ h \in Nat
      BY <2>9, <2>10
    <3>2. a <= 1 /\ g = 0
      BY <1>6 DEF Flown, Addressing
    <3> HIDE DEF a, b, g, h
    <3>3. b = 0 /\ h = 0
      BY <3>1, <3>2
    <3> QED
      BY <3>3 DEF b, h
  <2>12. mid[0] = "kNotConnected" /\ \A q \in 0..MaxPorts : q # p => mid[q] = port_config_phase[q]
    BY <2>1 DEF mid
  <2>13. Addressing'
    <3>1. port_config_phase'[addressing_port'] \notin {"kEnablingSlot", "kAddressingDevice"}
      BY <2>6, <2>12 DEF QuietReset
    <3> QED
      BY <2>11, <3>1 DEF Addressing
  <2>14. Target'
    <3>1. \A t \in SlotIds : Occurrences(cmds', CommandsOf("AddressDevice", {t})) = 0
      <4>1. Flight(cmds', events', "AddressDevice", SlotIds) = 0
        BY <2>11
      <4>2. cmds' \in Seq(Command) /\ events' \in Seq(Event)
        BY <2>1
      <4> QED
        BY <4>1, <4>2, NoneForSlot
    <3> QED
      BY <3>1 DEF Target
  <2>15. /\ \A t \in SlotIds \ {s} : devices'[t] = devices[t] /\ ep0'[t] = ep0[t]
         /\ devices'[s] = StartInitialize(devices[s])
         /\ ep0'[s] = Append(ep0[s], "GetDeviceDescriptor")
         /\ devices[s] \in Device
    BY <2>1, <2>2
  <2>16. /\ devices'[s].ctx_port = devices[s].ctx_port
         /\ devices'[s].in_port = devices[s].in_port
    BY <2>15 DEF StartInitialize, Device
  <2>17. \A t \in SlotIds : /\ devices'[t].ctx_port = devices[t].ctx_port
                            /\ devices'[t].in_port = devices[t].in_port
    BY <2>15, <2>16
  <2>18. Fresh'
    <3>1. \A u \in 1..kDeviceSize : Occurrences(events', CompletionsOf("EnableSlot", {u})) =
                                    Occurrences(events, CompletionsOf("EnableSlot", {u}))
      BY <2>8, <2>9
    <3> QED
      BY <2>2, <2>17, <3>1, FreshKept
  <2>19. ASSUME NEW t \in SlotIds PROVE SlotHolds(t)'
    <3>1. Configuring(t)' = Configuring(t)
      BY <2>9, <2>10 DEF Configuring
    <3>2. \A issuers : Moves(events', t, issuers) <= Moves(events, t, issuers)
      BY <2>8, <2>9
    <3>3. CASE t # s
      <4>1. devices[t].ctx_port \in 0..MaxPorts /\ devices[t].ctx_port # p
        BY <1>3, <2>1, <3>3, SlotTypes, OneContext
      <4>2. QuietPort(port_config_phase, port_config_phase', devices[t].ctx_port)
        BY <2>6, <2>12, <4>1 DEF QuietReset, QuietPort
      <4>3. \/ PhaseOf(t)' = PhaseOf(t)
            \/ PhaseOf(t) \notin Late /\ PhaseOf(t)' \notin Late
        BY <2>17, <4>2, QuietSlot
      <4> QED
        BY <2>2, <2>15, <3>1, <3>2, <3>3, <4>3, SlotKept
    <3>4. CASE t = s
      <4>1. PhaseOf(s) = "kAddressingDevice" /\ PhaseOf(s)' = "kInitializingDevice"
        BY <1>3, <1>6, <2>5, <2>6, <2>16 DEF PhaseOf
      <4>2. ep0[s] \in Seq(ControlRequest) /\ intr[s] \in Nat
        BY SlotTypes
      <4>3. SlotOK(s, devices[s], "kAddressingDevice", ep0[s], intr[s], Configuring(s), events)
        BY <4>1 DEF Flown, SlotHolds
      <4>4. SlotOK(s, devices'[s], "kInitializingDevice", ep0'[s], intr[s], Configuring(s), events)
        BY <2>1, <2>15, <4>2, <4>3, StartSlot
      <4>5. devices'[s] \in Device /\ ep0'[s] \in Seq(ControlRequest)
        BY DEF Inv, TypeOK
      <4>6. SlotOK(s, devices'[s], "kInitializingDevice", ep0'[s], intr[s], Configuring(s), events')
        BY <2>1, <3>2, <3>4, <4>2, <4>4, <4>5, SameSlot
      <4> QED
        BY <2>2, <3>1, <3>4, <4>1, <4>6 DEF SlotHolds
    <3> QED
      BY <3>3, <3>4
  <2> QED
    BY <2>13, <2>14, <2>18, <2>19 DEF Flown
<1> QED
  BY <1>4, <1>5, <1>6

(* OnEndpointsConfigured finds the device's queues empty and asks once for *)
(* every class driver.                                                     *)
LEMMA ConfiguredSlot ==
    ASSUME NEW s, NEW d \in Device, NEW q \in Seq(ControlRequest), NEW n \in Nat, NEW f,
           NEW e \in Seq(Event), SlotOK(s, d, "kConfiguringEndpoints", q, n, f, e)
    PROVE  SlotOK(s, OnEndpointsConfigured(d), "kConfigured",
                  q \o HidOnEndpointsConfigured(d), n, 0, e)
<1> DEFINE d2 == OnEndpointsConfigured(d)
           k == d.class_drivers
           a == [i \in 1..k |-> "SetProtocol"]
           q2 == q \o a
<1>1. d.initialize_phase = 4 /\ d.hid_phase = 0
  BY DEF SlotOK, InStep
<1>2. /\ d2.initialize_phase = 4 /\ d2.hid_phase # 2 /\ d2.class_drivers = k /\ k \in Nat
  BY <1>1 DEF OnEndpointsConfigured, Device
<1>3. Expected(d2) = {"SetProtocol"} /\ Expected(d) = {"SetProtocol"}
  BY <1>1, <1>2 DEF Expected
<1>4. Allowance(d, "kConfiguringEndpoints") = 0 /\ Allowance(d2, "kConfigured") = k
  BY <1>1, <1>2 DEF Allowance
<1> HIDE DEF k, d2
<1>5. Len(q) \in Nat /\ \A issuers : Moves(e, s, issuers) \in Nat
  BY LenProperties, CountType DEF Moves
<1>6. Len(q) = 0 /\ Moves(e, s, ControlRequest) = 0
  <2>1. Len(q) + Moves(e, s, ControlRequest) <= 0
    BY <1>4 DEF SlotOK
  <2>2. Moves(e, s, ControlRequest) \in Nat
    BY <1>5
  <2> QED
    BY <2>1, <2>2, <1>5
<1>7. a \in Seq(ControlRequest) /\ Len(a) = k /\ \A i \in 1..k : a[i] = "SetProtocol"
  <2>1. a \in [1..k -> ControlRequest]
    BY DEF ControlRequest
  <2> QED
    BY <1>2, <2>1, FcnLen
<1> HIDE DEF a
<1>8. q2 = a
  <2>1. q = <<>>
    BY <1>6, EmptySeq
  <2> QED
    BY <1>7, <2>1, ConcatEmptySeq
<1>9. InStep(d2, "kConfigured")
  BY <1>2 DEF InStep, Late
<1>10. n + Moves(e, s, {"Normal"}) <= 0 /\ Moves(e, s, ControlRequest \ {"SetProtocol"}) = 0
  BY <1>1, <1>3 DEF SlotOK
<1>11. SlotOK(s, d2, "kConfigured", a, n, 0, e)
  <2>1. \A i \in 1..Len(a) : a[i] \in Expected(d2)
    BY <1>3, <1>7
  <2>2. Len(a) + Moves(e, s, ControlRequest) <= Allowance(d2, "kConfigured")
    BY <1>2, <1>4, <1>6, <1>7
  <2> QED
    BY <1>2, <1>3, <1>9, <1>10, <2>1, <2>2 DEF SlotOK
<1> QED
  BY <1>8, <1>11 DEF d2, a, k, HidOnEndpointsConfigured

(* OnEvent(CommandCompletionEventTRB) for Configure Endpoint keeps it.     *)
LEMMA OnConfigureEndpointCompletedFlown ==
    ASSUME Inv, Inv', Flown, OnConfigureEndpointCompleted
    PROVE  Flown'
<1>1. EventFront("CommandCompletion") /\ Head(events).issuer = "ConfigureEndpoint"
  BY DEF OnConfigureEndpointCompleted
<1>2. PICK s \in SlotIds : s = Head(events).slot
  BY <1>1, CompletionSlot
<1>3. PICK p \in 0..MaxPorts : p = devices[s].ctx_port
  BY SlotTypes
<1>4. /\ port_config_phase \in [0..MaxPorts -> ConfigPhase]
      /\ port_config_phase[0] = "kNotConnected" /\ addressing_port \in 0..MaxPorts
      /\ devices \in [SlotIds -> Device] /\ ep0 \in [SlotIds -> Seq(ControlRequest)]
      /\ cmds \in Seq(Command) /\ events \in Seq(Event) /\ events' \in Seq(Event)
      /\ cmds' \in Seq(Command)
  BY DEF Inv, TypeOK
<1>5. /\ \A t, slots : Flight(cmds, events, t, slots) \in Nat
      /\ \A u, issuers : Moves(events, u, issuers) \in Nat
  BY <1>4, CountsAreNat
<1>6. port_config_phase[p] = "kConfiguringEndpoints" /\ Configuring(s) = 1
  <2>1. Configuring(s) >= 1
    BY <1>1, <1>2, FrontFlight DEF Configuring
  <2>2. Configuring(s) = IF port_config_phase[p] = "kConfiguringEndpoints" THEN 1 ELSE 0
    BY <1>3 DEF Flown, SlotHolds, SlotOK, PhaseOf
  <2> QED
    BY <2>1, <2>2
<1>7. p # 0 /\ Allocated(devices[s]) /\ p # addressing_port
  <2>1. p # 0
    BY <1>4, <1>6
  <2>2. devices[s].ctx_port = devices[s].in_port
    BY <1>3, <2>1 DEF Flown, Fresh
  <2>3. p \in Ports
    BY <2>1 DEF Ports
  <2>4. p # addressing_port
    BY <1>6, <2>3 DEF Inv, AddressingExclusive, Busy
  <2> QED
    BY <1>3, <2>1, <2>2, <2>4
<1>8. CompleteConfiguration(p, s)
  BY <1>2, <1>3, <1>6, <1>7 DEF OnConfigureEndpointCompleted
<1>9. /\ devices' = [devices EXCEPT ![s] = OnEndpointsConfigured(@)]
      /\ ep0' = [ep0 EXCEPT ![s] = @ \o HidOnEndpointsConfigured(devices[s])]
      /\ port_config_phase' = [port_config_phase EXCEPT ![p] = "kConfigured"]
      /\ events' = Tail(events)
      /\ UNCHANGED <<addressing_port, cmds, intr, slot_state>>
  BY <1>8 DEF CompleteConfiguration, hcVars
<1>10. /\ \A t \in SlotIds \ {s} : devices'[t] = devices[t] /\ ep0'[t] = ep0[t]
       /\ devices'[s] = OnEndpointsConfigured(devices[s])
       /\ ep0'[s] = ep0[s] \o HidOnEndpointsConfigured(devices[s])
       /\ devices[s] \in Device
       /\ port_config_phase'[p] = "kConfigured"
       /\ \A q \in 0..MaxPorts \ {p} : port_config_phase'[q] = port_config_phase[q]
  BY <1>4, <1>9
<1>11. /\ devices'[s].ctx_port = devices[s].ctx_port
       /\ devices'[s].in_port = devices[s].in_port
  BY <1>10 DEF OnEndpointsConfigured, Device
<1>12. \A t \in SlotIds : /\ devices'[t].ctx_port = devices[t].ctx_port
                          /\ devices'[t].in_port = devices[t].in_port
  BY <1>10, <1>11
<1>13. /\ \A t, slots : Occurrences(events, CompletionsOf(t, slots)) =
            Occurrences(events', CompletionsOf(t, slots))
            + (IF t = "ConfigureEndpoint" /\ s \in slots THEN 1 ELSE 0)
       /\ \A t, slots : Flight(cmds, events, t, slots) =
            Flight(cmds', events', t, slots)
            + (IF t = "ConfigureEndpoint" /\ s \in slots THEN 1 ELSE 0)
       /\ \A u, issuers : Moves(events', u, issuers) = Moves(events, u, issuers)
  BY <1>1, <1>2, <1>9, PopCompletion
<1>14. /\ \A t, slots : Flight(cmds', events', t, slots) \in Nat
       /\ \A t, slots : Occurrences(events', CompletionsOf(t, slots)) \in Nat
  BY <1>4, CountsAreNat
<1>15. Addressing'
  <2>1. \A t \in {"EnableSlot", "AddressDevice"} :
          Flight(cmds', events', t, SlotIds) = Flight(cmds, events, t, SlotIds)
    BY <1>13, <1>14
  <2>2. port_config_phase'[addressing_port'] = port_config_phase[addressing_port]
    BY <1>4, <1>7, <1>9, <1>10
  <2> QED
    BY <2>1, <2>2 DEF Flown, Addressing
<1>16. Target'
  BY <1>9, <1>12 DEF Flown, Target
<1>17. Fresh'
  <2>1. \A u \in 1..kDeviceSize : Occurrences(events', CompletionsOf("EnableSlot", {u})) =
                                  Occurrences(events, CompletionsOf("EnableSlot", {u}))
    BY <1>13, <1>14
  <2> QED
    BY <1>9, <1>12, <2>1, FreshKept
<1>18. ASSUME NEW t \in SlotIds PROVE SlotHolds(t)'
  <2>1. \A issuers : Moves(events', t, issuers) <= Moves(events, t, issuers)
    BY <1>5, <1>13
  <2>2. CASE t # s
    <3>1. devices[t].ctx_port \in 0..MaxPorts \ {p}
      BY <1>3, <1>7, <2>2, SlotTypes, OneContext
    <3>2. PhaseOf(t)' = PhaseOf(t)
      BY <1>10, <1>12, <3>1 DEF PhaseOf
    <3>3. Configuring(t)' = Configuring(t)
      <4>1. s \notin {t}
        BY <2>2
      <4> QED
        BY <1>13, <1>14, <4>1 DEF Configuring
    <3> QED
      BY <1>9, <1>10, <2>1, <2>2, <3>2, <3>3, SlotKept
  <2>3. CASE t = s
    <3>1. PhaseOf(s) = "kConfiguringEndpoints" /\ PhaseOf(s)' = "kConfigured"
      BY <1>3, <1>6, <1>10, <1>11 DEF PhaseOf
    <3>2. Configuring(s)' = 0
      <4>1. Configuring(s) = Configuring(s)' + 1 /\ Configuring(s)' \in Nat
        BY <1>13, <1>14 DEF Configuring
      <4> QED
        BY <1>6, <4>1
    <3>3. ep0[s] \in Seq(ControlRequest) /\ intr[s] \in Nat
      BY SlotTypes
    <3>4. SlotOK(s, devices[s], "kConfiguringEndpoints", ep0[s], intr[s], Configuring(s), events)
      BY <3>1 DEF Flown, SlotHolds
    <3>5. SlotOK(s, devices'[s], "kConfigured", ep0'[s], intr[s], 0, events)
      BY <1>4, <1>10, <3>3, <3>4, ConfiguredSlot
    <3>6. devices'[s] \in Device /\ ep0'[s] \in Seq(ControlRequest)
      BY DEF Inv, TypeOK
    <3>7. SlotOK(s, devices'[s], "kConfigured", ep0'[s], intr[s], 0, events')
      BY <1>4, <2>1, <2>3, <3>3, <3>5, <3>6, SameSlot
    <3> QED
      BY <1>9, <2>3, <3>1, <3>2, <3>7 DEF SlotHolds
  <2> QED
    BY <2>2, <2>3
<1> QED
  BY <1>15, <1>16, <1>17, <1>18 DEF Flown

-----------------------------------------------------------------------------
(* Transfer events.                                                        *)

(* A step of usb::Device::OnControlCompleted: the one request outstanding  *)
(* is handled, so the queues are empty and take the next one.              *)
LEMMA AdvanceSlot ==
    ASSUME NEW s, NEW d \in Device, NEW d2 \in Device, NEW phase, NEW q \in Seq(ControlRequest),
           NEW a \in Seq(ControlRequest), NEW n \in Nat, NEW f, NEW e \in Seq(Event), e # <<>>,
           SlotOK(s, d, phase, q, n, f, e),
           Head(e).type = "Transfer", Head(e).slot = s, Head(e).issuer \in ControlRequest,
           d.initialize_phase \in 1..3, d2.initialize_phase \in 2..4,
           d2.hid_phase = d.hid_phase,
           \A i \in 1..Len(a) : a[i] \in Expected(d2),
           Len(a) <= IF d2.initialize_phase = 4 THEN 0 ELSE 1
    PROVE  SlotOK(s, d2, phase, q \o a, n, f, Tail(e))
<1>1. phase = "kInitializingDevice"
  BY DEF SlotOK, InStep, Late
<1>2. /\ Len(q) \in Nat /\ Len(a) \in Nat /\ Tail(e) \in Seq(Event)
      /\ \A issuers : Moves(e, s, issuers) \in Nat
  BY LenProperties, HeadTailProperties, CountType DEF Moves
<1>3. \A issuers : Moves(Tail(e), s, issuers) \in Nat
  BY <1>2, CountType DEF Moves
<1>4. ASSUME NEW issuers
      PROVE  Moves(e, s, issuers) = Moves(Tail(e), s, issuers)
               + (IF Head(e).issuer \in issuers THEN 1 ELSE 0)
  BY PopCounts
<1>5. Len(q) = 0 /\ Moves(Tail(e), s, ControlRequest) = 0
  <2>1. Len(q) + Moves(e, s, ControlRequest) <= 1
    BY DEF SlotOK, Allowance
  <2>2. Moves(e, s, ControlRequest) = Moves(Tail(e), s, ControlRequest) + 1
    BY <1>4
  <2>3. Moves(Tail(e), s, ControlRequest) \in Nat
    BY <1>3
  <2> QED
    BY <2>1, <2>2, <2>3, <1>2
<1>6. q \o a = a
  <2>1. q = <<>>
    BY <1>5, EmptySeq
  <2> QED
    BY <2>1, ConcatEmptySeq
<1>7. Moves(Tail(e), s, ControlRequest \ Expected(d2)) = 0
  <2>1. TransfersOf(s, ControlRequest \ Expected(d2)) \subseteq TransfersOf(s, ControlRequest)
    BY DEF TransfersOf
  <2> QED
    BY <1>2, <1>5, <2>1, NoneOfSubset DEF Moves
<1>8. n + Moves(Tail(e), s, {"Normal"}) <= IF d2.hid_phase = 2 THEN 1 ELSE 0
  <2>1. n + Moves(e, s, {"Normal"}) <= IF d.hid_phase = 2 THEN 1 ELSE 0
    BY DEF SlotOK
  <2>2. Moves(Tail(e), s, {"Normal"}) <= Moves(e, s, {"Normal"})
    BY <1>3, <1>4
  <2>3. Moves(Tail(e), s, {"Normal"}) \in Nat /\ Moves(e, s, {"Normal"}) \in Nat
    BY <1>2, <1>3
  <2> QED
    BY <2>1, <2>2, <2>3
<1>9. InStep(d2, phase)
  <2>1. d.hid_phase = 0
    BY <1>1 DEF SlotOK, InStep
  <2> QED
    BY <1>1, <2>1 DEF InStep, Late
<1>10. Len(a) + Moves(Tail(e), s, ControlRequest) <= Allowance(d2, phase)
  BY <1>1, <1>2, <1>5 DEF Allowance
<1>11. f = IF phase = "kConfiguringEndpoints" THEN 1 ELSE 0
  BY DEF SlotOK
<1> QED
  BY <1>6, <1>7, <1>8, <1>9, <1>10, <1>11 DEF SlotOK

(* The answers to requests other than the driver's own.                    *)
LEMMA DropSlot ==
    ASSUME NEW s, NEW d \in Device, NEW phase, NEW q \in Seq(ControlRequest),
           NEW n \in Nat, NEW f, NEW e \in Seq(Event), e # <<>>,
           SlotOK(s, d, phase, q, n, f, e)
    PROVE  SlotOK(s, d, phase, q \o <<>>, n + 0, f, Tail(e))
<1>1. /\ Tail(e) \in Seq(Event) /\ q \o <<>> = q /\ n + 0 = n
  BY HeadTailProperties, ConcatEmptySeq
<1>2. \A issuers : Moves(Tail(e), s, issuers) \in Nat
  BY <1>1, CountType DEF Moves
<1>3. \A issuers : Moves(Tail(e), s, issuers) <= Moves(e, s, issuers)
  <2> TAKE issuers
  <2>1. Moves(e, s, issuers) = Moves(Tail(e), s, issuers)
          + (IF Head(e).type = "Transfer" /\ Head(e).slot = s /\ Head(e).issuer \in issuers
             THEN 1 ELSE 0)
    BY PopCounts
  <2>2. Moves(Tail(e), s, issuers) \in Nat
    BY <1>2
  <2> QED
    BY <2>1, <2>2
<1>4. SlotOK(s, d, phase, q, n, f, Tail(e))
  BY <1>1, <1>3, SameSlot
<1> QED
  BY <1>1, <1>4

(* HIDBaseDriver asks for a report: no other one is outstanding.           *)
LEMMA PollSlot ==
    ASSUME NEW s, NEW d \in Device, NEW d2 \in Device, NEW phase, NEW q \in Seq(ControlRequest),
           NEW n \in Nat, NEW f, NEW e \in Seq(Event), e # <<>>,
           SlotOK(s, d, phase, q, n, f, e),
           d2.initialize_phase = d.initialize_phase, d2.class_drivers = d.class_drivers,
           d2.hid_phase = 2, d.hid_phase # 0,
           Head(e).type = "Transfer", Head(e).slot = s,
           d.hid_phase = 2 => Head(e).issuer = "Normal"
    PROVE  SlotOK(s, d2, phase, q \o <<>>, n + 1, f, Tail(e))
<1>1. SlotOK(s, d, phase, q \o <<>>, n + 0, f, Tail(e))
  BY DropSlot
<1>2. /\ q \o <<>> = q /\ n + 0 = n /\ Tail(e) \in Seq(Event)
      /\ Moves(e, s, {"Normal"}) \in Nat
  BY ConcatEmptySeq, HeadTailProperties, CountType DEF Moves
<1>3. Moves(Tail(e), s, {"Normal"}) \in Nat
  BY <1>2, CountType DEF Moves
<1>4. n + Moves(Tail(e), s, {"Normal"}) = 0
  <2>1. Moves(e, s, {"Normal"}) = Moves(Tail(e), s, {"Normal"})
          + (IF Head(e).issuer \in {"Normal"} THEN 1 ELSE 0)
    BY PopCounts
  <2>2. n + Moves(e, s, {"Normal"}) <= IF d.hid_phase = 2 THEN 1 ELSE 0
    BY DEF SlotOK
  <2>3. CASE d.hid_phase = 2
    <3>1. Moves(e, s, {"Normal"}) = Moves(Tail(e), s, {"Normal"}) + 1
      BY <2>1, <2>3
    <3>2. n + Moves(e, s, {"Normal"}) <= 1
      BY <2>2, <2>3
    <3> QED
      BY <3>1, <3>2, <1>3
  <2>4. CASE d.hid_phase # 2
    <3>1. n + Moves(e, s, {"Normal"}) <= 0 /\ Moves(Tail(e), s, {"Normal"}) <= Moves(e, s, {"Normal"})
      BY <1>2, <1>3, <2>1, <2>2, <2>4
    <3> QED
      BY <3>1, <1>2, <1>3
  <2> QED
    BY <2>3, <2>4
<1>5. InStep(d2, phase)
  BY <1>1 DEF SlotOK, InStep
<1>6. Expected(d2) = Expected(d) /\ Allowance(d2, phase) = Allowance(d, phase)
  BY DEF Expected, Allowance
<1>7. (n + 1) + Moves(Tail(e), s, {"Normal"}) <= 1
  BY <1>3, <1>4
<1> QED
  BY <1>1, <1>2, <1>5, <1>6, <1>7 DEF SlotOK

(* What a transfer event leaves of its slot, whatever it is about.         *)
EffectOK(s, d, r, phase, q, n, f, e) ==
    /\ SlotOK(s, r.dev, phase, q \o r.requests, n + r.polls, f, e)
    /\ r.dev.ctx_port = d.ctx_port

(* An effect that keeps SlotOK of the device and the queues it leaves.     *)
LEMMA EffectFromSlot ==
    ASSUME NEW s, NEW d, NEW d2, NEW a, NEW k, NEW code, NEW phase, NEW q, NEW n, NEW f, NEW e,
           SlotOK(s, d2, phase, q \o a, n + k, f, e), d2.ctx_port = d.ctx_port
    PROVE  EffectOK(s, d, TransferEffect(d2, a, k, code), phase, q, n, f, e)
  BY DEF EffectOK, TransferEffect

(* What the handlers change of a device.                                   *)
LEMMA AdvancedDevice ==
    ASSUME NEW d \in Device, NEW phase \in {2, 3, 4}
    PROVE  LET d2 == [d EXCEPT !.initialize_phase = phase] IN
           /\ d2 \in Device /\ d2.initialize_phase = phase /\ d2.hid_phase = d.hid_phase
           /\ d2.ctx_port = d.ctx_port /\ d2.class_drivers = d.class_drivers
  BY DEF Device

(* The device after its configuration showed class drivers.                *)
LEMMA DrivenDevice ==
    ASSUME NEW d \in Device, NEW k \in 0..MaxEndpoints
    PROVE  LET d2 == [d EXCEPT !.initialize_phase = 3, !.class_drivers = k] IN
           /\ d2 \in Device /\ d2.initialize_phase = 3 /\ d2.hid_phase = d.hid_phase
           /\ d2.ctx_port = d.ctx_port
<1> DEFINE d1 == [d EXCEPT !.initialize_phase = 3]
           d2 == [d EXCEPT !.initialize_phase = 3, !.class_drivers = k]
<1>1. /\ d1 \in Device /\ d1.initialize_phase = 3 /\ d1.hid_phase = d.hid_phase
      /\ d1.ctx_port = d.ctx_port
  BY AdvancedDevice
<1>2. d2 = [d1 EXCEPT !.class_drivers = k]
  OBVIOUS
<1> HIDE DEF d1, d2
<1>3. /\ d2 \in Device /\ d2.initialize_phase = 3 /\ d2.hid_phase = d.hid_phase
      /\ d2.ctx_port = d.ctx_port
  BY <1>1, <1>2 DEF Device
<1> QED
  BY <1>3 DEF d2

(* The device after its HID driver went on to polling.                     *)
LEMMA PolledDevice ==
    ASSUME NEW d \in Device
    PROVE  LET d2 == [d EXCEPT !.hid_phase = 2] IN
           /\ d2 \in Device /\ d2.initialize_phase = d.initialize_phase /\ d2.hid_phase = 2
           /\ d2.ctx_port = d.ctx_port /\ d2.class_drivers = d.class_drivers
  BY DEF Device

(* Every branch of Device::OnTransferEventReceived keeps the slot.         *)
LEMMA TransferSlot ==
    ASSUME NEW s, NEW d \in Device, NEW phase, NEW q \in Seq(ControlRequest),
           NEW n \in Nat, NEW f, NEW e \in Seq(Event), e # <<>>,
           SlotOK(s, d, phase, q, n, f, e), NEW k \in 0..MaxEndpoints,
           Head(e).type = "Transfer", Head(e).slot = s,
           Head(e).issuer \in ControlRequest \cup {"Normal"}
    PROVE  EffectOK(s, d, OnTransferEventReceived(d, Head(e), k), phase, q, n, f, Tail(e))
<1> DEFINE x == Head(e)
           OK(r) == EffectOK(s, d, r, phase, q, n, f, Tail(e))
<1>1. \A code : OK(TransferEffect(d, <<>>, 0, code))
  BY DropSlot, EffectFromSlot
<1>2. CASE x.result = "failed"
  BY <1>1, <1>2 DEF OnTransferEventReceived
<1>3. CASE x.result # "failed" /\ x.issuer = "Normal"
  <2>1. d.hid_phase = 2
    <3>1. Tail(e) \in Seq(Event)
      BY HeadTailProperties
    <3>2. Moves(Tail(e), s, {"Normal"}) \in Nat
      BY <3>1, CountType DEF Moves
    <3>3. Moves(e, s, {"Normal"}) = Moves(Tail(e), s, {"Normal"}) + 1
      BY <1>3, PopCounts
    <3>4. n + Moves(e, s, {"Normal"}) <= IF d.hid_phase = 2 THEN 1 ELSE 0
      BY DEF SlotOK
    <3> QED
      BY <3>2, <3>3, <3>4
  <2>2. SlotOK(s, d, phase, q \o <<>>, n + 1, f, Tail(e))
    BY <1>3, <2>1, PollSlot
  <2>3. OK(TransferEffect(d, <<>>, 1, "SUCCESS"))
    BY <2>2, EffectFromSlot
  <2> QED
    BY <1>1, <1>3, <2>3 DEF OnTransferEventReceived, OnInterruptCompleted,
                            HidOnInterruptCompleted, InterruptIn
<1>4. CASE x.result # "failed" /\ x.issuer # "Normal"
  <2>1. OnTransferEventReceived(d, x, k) = OnControlCompleted(d, x.issuer, x.result, k)
    BY <1>4 DEF OnTransferEventReceived
  <2>2. x.issuer \in ControlRequest /\ x.issuer \in Expected(d) /\ d.initialize_phase \in 0..4
    <3>0. x.issuer \in ControlRequest /\ d.initialize_phase \in 0..4
      BY <1>4 DEF Device
    <3>1. Tail(e) \in Seq(Event)
      BY HeadTailProperties
    <3>2. Moves(Tail(e), s, ControlRequest \ Expected(d)) \in Nat
      BY <3>1, CountType DEF Moves
    <3>3. Moves(e, s, ControlRequest \ Expected(d)) = 0
      BY DEF SlotOK
    <3>4. Moves(e, s, ControlRequest \ Expected(d)) = Moves(Tail(e), s, ControlRequest \ Expected(d))
            + (IF x.issuer \in ControlRequest \ Expected(d) THEN 1 ELSE 0)
      BY PopCounts
    <3>5. x.issuer \notin ControlRequest \ Expected(d)
      BY <3>2, <3>3, <3>4
    <3> QED
      BY <3>0, <3>5
  <2>3. CASE d.initialize_phase = 4
    <3>1. x.issuer = "SetProtocol"
      BY <2>2, <2>3 DEF Expected
    <3>2. OnControlCompleted(d, x.issuer, x.result, k) = HidOnControlCompleted(d)
      BY <2>3, <3>1 DEF OnControlCompleted, IsInitialized
    <3>3. CASE d.hid_phase = 1
      <4> DEFINE d2 == [d EXCEPT !.hid_phase = 2]
      <4>1. /\ d2 \in Device /\ d2.initialize_phase = d.initialize_phase
            /\ d2.class_drivers = d.class_drivers /\ d2.hid_phase = 2
            /\ d2.ctx_port = d.ctx_port
        BY PolledDevice
      <4> HIDE DEF d2
      <4>2. SlotOK(s, d2, phase, q \o <<>>, n + 1, f, Tail(e))
        BY <3>3, <4>1, PollSlot
      <4>3. OK(TransferEffect(d2, <<>>, 1, "SUCCESS"))
        BY <4>1, <4>2, EffectFromSlot
      <4> QED
        BY <2>1, <3>2, <3>3, <4>3 DEF HidOnControlCompleted, InterruptIn, d2
    <3>4. CASE d.hid_phase # 1
      BY <1>1, <2>1, <3>2, <3>4 DEF HidOnControlCompleted
    <3> QED
      BY <3>3, <3>4
  <2>4. CASE d.initialize_phase = 1
    <3> DEFINE d2 == [d EXCEPT !.initialize_phase = 2]
               a == <<"GetConfigDescriptor">>
    <3>1. /\ d2 \in Device /\ d2.initialize_phase = 2 /\ d2.hid_phase = d.hid_phase
          /\ d2.ctx_port = d.ctx_port
      BY AdvancedDevice
    <3>2. a \in Seq(ControlRequest) /\ Len(a) = 1 /\ a[1] = "GetConfigDescriptor"
      BY DEF ControlRequest
    <3> HIDE DEF d2, a
    <3>3. \A i \in 1..Len(a) : a[i] \in Expected(d2)
      BY <3>1, <3>2 DEF Expected
    <3>4. SlotOK(s, d2, phase, q \o a, n, f, Tail(e))
      <4>1. /\ d.initialize_phase \in 1..3 /\ d2.initialize_phase \in 2..4
            /\ Len(a) <= IF d2.initialize_phase = 4 THEN 0 ELSE 1
        BY <2>4, <3>1, <3>2
      <4>2. d2 \in Device /\ d2.hid_phase = d.hid_phase /\ a \in Seq(ControlRequest)
        BY <3>1, <3>2
      <4> QED
        BY <2>2, <3>3, <4>1, <4>2, AdvanceSlot
    <3>5. n + 0 = n
      OBVIOUS
    <3>6. OK(TransferEffect(d2, a, 0, "SUCCESS"))
      BY <3>1, <3>4, <3>5, EffectFromSlot
    <3>7. \/ OnControlCompleted(d, x.issuer, x.result, k) = TransferEffect(d2, a, 0, "SUCCESS")
          \/ OnControlCompleted(d, x.issuer, x.result, k) = TransferEffect(d, <<>>, 0, "INVALID_PHASE")
      BY <2>4 DEF OnControlCompleted, IsInitialized, InitializePhase1, d2, a
    <3> QED
      BY <1>1, <2>1, <3>6, <3>7
  <2>5. CASE d.initialize_phase = 2
    <3> DEFINE d2 == [d EXCEPT !.initialize_phase = 3, !.class_drivers = k]
               a == <<"SetConfiguration">>
    <3>1. /\ d2 \in Device /\ d2.initialize_phase = 3 /\ d2.hid_phase = d.hid_phase
          /\ d2.ctx_port = d.ctx_port
      BY DrivenDevice
    <3>2. a \in Seq(ControlRequest) /\ Len(a) = 1 /\ a[1] = "SetConfiguration"
      BY DEF ControlRequest
    <3> HIDE DEF d2, a
    <3>3. \A i \in 1..Len(a) : a[i] \in Expected(d2)
      BY <3>1, <3>2 DEF Expected
    <3>4. SlotOK(s, d2, phase, q \o a, n, f, Tail(e))
      <4>1. /\ d.initialize_phase \in 1..3 /\ d2.initialize_phase \in 2..4
            /\ Len(a) <= IF d2.initialize_phase = 4 THEN 0 ELSE 1
        BY <2>5, <3>1, <3>2
      <4>2. d2 \in Device /\ d2.hid_phase = d.hid_phase /\ a \in Seq(ControlRequest)
        BY <3>1, <3>2
      <4> QED
        BY <2>2, <3>3, <4>1, <4>2, AdvanceSlot
    <3>5. n + 0 = n
      OBVIOUS
    <3>6. OK(TransferEffect(d2, a, 0, "SUCCESS"))
      BY <3>1, <3>4, <3>5, EffectFromSlot
    <3>7. \/ OnControlCompleted(d, x.issuer, x.result, k) = TransferEffect(d2, a, 0, "SUCCESS")
          \/ OnControlCompleted(d, x.issuer, x.result, k) = TransferEffect(d, <<>>, 0, "INVALID_PHASE")
          \/ OnControlCompleted(d, x.issuer, x.result, k) = TransferEffect(d, <<>>, 0, "SUCCESS")
      BY <2>5 DEF OnControlCompleted, IsInitialized, InitializePhase2, d2, a
    <3> QED
      BY <1>1, <2>1, <3>6, <3>7
  <2>6. CASE d.initialize_phase = 3
    <3> DEFINE d2 == [d EXCEPT !.initialize_phase = 4]
               a == <<>>
    <3>1. /\ d2 \in Device /\ d2.initialize_phase = 4 /\ d2.hid_phase = d.hid_phase
          /\ d2.ctx_port = d.ctx_port
      BY AdvancedDevice
    <3>2. a \in Seq(ControlRequest) /\ Len(a) = 0
      OBVIOUS
    <3> HIDE DEF d2, a
    <3>3. \A i \in 1..Len(a) : a[i] \in Expected(d2)
      BY <3>2
    <3>4. SlotOK(s, d2, phase, q \o a, n, f, Tail(e))
      <4>1. /\ d.initialize_phase \in 1..3 /\ d2.initialize_phase \in 2..4
            /\ Len(a) <= IF d2.initialize_phase = 4 THEN 0 ELSE 1
        BY <2>6, <3>1, <3>2
      <4>2. d2 \in Device /\ d2.hid_phase = d.hid_phase /\ a \in Seq(ControlRequest)
        BY <3>1, <3>2
      <4> QED
        BY <2>2, <3>3, <4>1, <4>2, AdvanceSlot
    <3>5. n + 0 = n
      OBVIOUS
    <3>6. OK(TransferEffect(d2, a, 0, "SUCCESS"))
      BY <3>1, <3>4, <3>5, EffectFromSlot
    <3>7. \/ OnControlCompleted(d, x.issuer, x.result, k) = TransferEffect(d2, a, 0, "SUCCESS")
          \/ OnControlCompleted(d, x.issuer, x.result, k) = TransferEffect(d, <<>>, 0, "INVALID_PHASE")
      BY <2>6 DEF OnControlCompleted, IsInitialized, InitializePhase3, d2, a
    <3> QED
      BY <1>1, <2>1, <3>6, <3>7
  <2>7. d.initialize_phase # 0
    BY <2>2 DEF Expected
  <2> QED
    BY <2>2, <2>3, <2>4, <2>5, <2>6, <2>7
<1> QED
  BY <1>2, <1>3, <1>4

(* ConfigureEndpoints, for a device that has just been initialised.        *)
LEMMA ConfigureSlot ==
    ASSUME NEW s, NEW d \in Device, NEW q \in Seq(ControlRequest), NEW n \in Nat, NEW f,
           NEW e \in Seq(Event), d.initialize_phase = 4,
           SlotOK(s, d, "kInitializingDevice", q, n, f, e)
    PROVE  f = 0 /\ SlotOK(s, d, "kConfiguringEndpoints", q, n, 1, e)
<1>1. InStep(d, "kConfiguringEndpoints")
  BY DEF SlotOK, InStep, Late
<1>2. Allowance(d, "kConfiguringEndpoints") = Allowance(d, "kInitializingDevice")
  BY DEF Allowance
<1> QED
  BY <1>1, <1>2 DEF SlotOK

(* A transfer event changes its own slot only.                             *)
LEMMA OnTransferFlown ==
    ASSUME Inv, Inv', Flown, OnTransfer
    PROVE  Flown'
<1>1. EventFront("Transfer")
  BY DEF OnTransfer
<1>2. /\ Head(events).slot \in SlotIds /\ Tail(events) \in Seq(Event)
      /\ Head(events).issuer \in ControlRequest \cup {"Normal"}
      /\ Head(events).type = "Transfer"
  BY <1>1, FrontType DEF Event, PortStatusChangeEvent, CommandCompletionEvent, TransferEvent
<1>3. PICK s \in SlotIds : s = Head(events).slot
  BY <1>2
<1>4. PICK d \in Device : d = devices[s]
  BY SlotTypes
<1>5. PICK p \in 0..MaxPorts : p = d.ctx_port
  BY <1>4, SlotTypes
<1>6. CASE ~Allocated(d)
  <2>1. Fail("INVALID_SLOT_ID")
    BY <1>3, <1>4, <1>6 DEF OnTransfer
  <2> QED
    BY <1>1, <2>1, FailFlown
<1>7. CASE Allocated(d)
  <2>1. PICK r : r = OnTransferEventReceived(d, Head(events), endpoints[d.in_port])
    OBVIOUS
  <2>2. /\ devices' = [devices EXCEPT ![s] = r.dev]
        /\ ep0' = [ep0 EXCEPT ![s] = @ \o r.requests]
        /\ intr' = [intr EXCEPT ![s] = @ + r.polls]
        /\ events' = Tail(events)
        /\ UNCHANGED <<addressing_port, slot_state>>
    BY <1>3, <1>4, <1>7, <2>1 DEF OnTransfer, hcVars
  <2>3. \/ /\ ReadyToConfigure(r.dev)
           /\ \E known \in BOOLEAN : ConfigureEndpoints(r.dev, s, known)
        \/ UNCHANGED <<port_config_phase, cmds>>
    BY <1>3, <1>4, <1>7, <2>1 DEF OnTransfer
  <2>4. /\ port_config_phase \in [0..MaxPorts -> ConfigPhase]
        /\ port_config_phase[0] = "kNotConnected" /\ addressing_port \in 0..MaxPorts
        /\ devices \in [SlotIds -> Device] /\ ep0 \in [SlotIds -> Seq(ControlRequest)]
        /\ intr \in [SlotIds -> Nat]
        /\ cmds \in Seq(Command) /\ events \in Seq(Event) /\ events' \in Seq(Event)
        /\ cmds' \in Seq(Command) /\ events # <<>>
    BY <1>1 DEF Inv, TypeOK, EventFront
  <2>5. endpoints[d.in_port] \in 0..MaxEndpoints
    <3>1. d.in_port \in Ports
      BY <1>7 DEF Device, Ports
    <3> QED
      BY <3>1 DEF Inv, TypeOK
  <2>6. SlotOK(s, d, PhaseOf(s), ep0[s], intr[s], Configuring(s), events)
    BY <1>4 DEF Flown, SlotHolds
  <2>7. /\ SlotOK(s, r.dev, PhaseOf(s), ep0[s] \o r.requests, intr[s] + r.polls,
                  Configuring(s), events')
        /\ r.dev.ctx_port = p
    <3>1. EffectOK(s, d, r, PhaseOf(s), ep0[s], intr[s], Configuring(s), Tail(events))
      BY <1>2, <1>3, <2>1, <2>4, <2>5, <2>6, TransferSlot
    <3> QED
      BY <1>5, <2>2, <3>1 DEF EffectOK
  <2>8. r.dev \in Device /\ r.dev.in_port = d.in_port
    BY <2>1, <2>5, OnTransferEventReceivedGood DEF GoodEffect
  <2>9. /\ devices'[s] = r.dev /\ ep0'[s] = ep0[s] \o r.requests /\ intr'[s] = intr[s] + r.polls
        /\ \A t \in SlotIds \ {s} :
             devices'[t] = devices[t] /\ ep0'[t] = ep0[t] /\ intr'[t] = intr[t]
    BY <2>2, <2>4
  <2>10. \A t \in SlotIds : /\ devices'[t].ctx_port = devices[t].ctx_port
                            /\ devices'[t].in_port = devices[t].in_port
    BY <1>4, <1>5, <2>7, <2>8, <2>9
  <2>11. SameCompletions /\ FewerMoves
    <3>1. /\ \A t, slots : Occurrences(events', CompletionsOf(t, slots)) \in Nat
          /\ \A u, issuers : Moves(events', u, issuers) \in Nat
      BY <2>4, CountsAreNat
    <3>2. SameCompletions
      <4> SUFFICES ASSUME NEW type, NEW slots
                   PROVE  Occurrences(events', CompletionsOf(type, slots)) =
                            Occurrences(events, CompletionsOf(type, slots))
        BY DEF SameCompletions
      <4>1. Occurrences(events, CompletionsOf(type, slots)) =
              Occurrences(events', CompletionsOf(type, slots))
              + (IF Head(events).type = "CommandCompletion" /\ Head(events).issuer = type
                      /\ Head(events).slot \in slots THEN 1 ELSE 0)
        BY <2>2, <2>4, PopCounts
      <4>2. Occurrences(events', CompletionsOf(type, slots)) \in Nat
        BY <3>1
      <4> QED
        BY <1>2, <4>1, <4>2
    <3>3. FewerMoves
      <4> SUFFICES ASSUME NEW u, NEW issuers
                   PROVE  Moves(events', u, issuers) <= Moves(events, u, issuers)
        BY DEF FewerMoves
      <4>1. Moves(events, u, issuers) = Moves(events', u, issuers)
              + (IF Head(events).type = "Transfer" /\ Head(events).slot = u
                      /\ Head(events).issuer \in issuers THEN 1 ELSE 0)
        BY <2>2, <2>4, PopCounts
      <4>2. Moves(events', u, issuers) \in Nat
        BY <3>1
      <4> QED
        BY <4>1, <4>2
    <3> QED
      BY <3>2, <3>3
  <2>12. Fresh'
    <3>1. \A u \in 1..kDeviceSize : Occurrences(events', CompletionsOf("EnableSlot", {u})) =
                                    Occurrences(events, CompletionsOf("EnableSlot", {u}))
      BY <2>11 DEF SameCompletions
    <3> QED
      BY <2>2, <2>10, <3>1, FreshKept
  <2>13. \A t, slots : Flight(cmds, events, t, slots) \in Nat
    BY <2>4, CountsAreNat
  <2>14. r.dev \in Device /\ ep0'[s] \in Seq(ControlRequest) /\ intr'[s] \in Nat
    BY <2>8 DEF Inv, TypeOK
  <2>15. CASE UNCHANGED <<port_config_phase, cmds>>
    <3>1. \A type, slots : Flight(cmds, events, type, slots)' = Flight(cmds, events, type, slots)
      BY <2>11, <2>15 DEF Flight, SameCompletions
    <3>2. Addressing' /\ Target'
      BY <2>2, <2>10, <2>15, <3>1 DEF Flown, Addressing, Target
    <3>3. ASSUME NEW t \in SlotIds PROVE SlotHolds(t)'
      <4>1. PhaseOf(t)' = PhaseOf(t) /\ Configuring(t)' = Configuring(t)
        BY <2>10, <2>15, <3>1 DEF PhaseOf, Configuring
      <4>2. CASE t # s
        BY <2>9, <2>11, <4>1, <4>2, SlotKept DEF FewerMoves
      <4>3. CASE t = s
        BY <2>7, <2>9, <4>1, <4>3 DEF SlotHolds
      <4> QED
        BY <4>2, <4>3
    <3> QED
      BY <2>12, <3>2, <3>3 DEF Flown
  <2>16. CASE /\ ReadyToConfigure(r.dev)
              /\ \E known \in BOOLEAN : ConfigureEndpoints(r.dev, s, known)
              /\ ~UNCHANGED <<port_config_phase, cmds>>
    <3> DEFINE x == [type |-> "ConfigureEndpoint", slot |-> s]
    <3>1. /\ port_config_phase' = [port_config_phase EXCEPT ![p] = "kConfiguringEndpoints"]
          /\ cmds' = Append(cmds, x)
      BY <2>7, <2>16 DEF ConfigureEndpoints
    <3>2. r.dev.initialize_phase = 4 /\ port_config_phase[p] = "kInitializingDevice"
      BY <2>7, <2>16 DEF ReadyToConfigure, IsInitialized
    <3>3. x \in Command /\ x.type = "ConfigureEndpoint" /\ x.slot = s
      BY DEF Command, CommandType
    <3>4. p # 0 /\ p # addressing_port
      <4>1. p # 0
        BY <2>4, <3>2
      <4>2. p \in Ports
        BY <4>1 DEF Ports
      <4> QED
        BY <3>2, <4>1, <4>2 DEF Inv, AddressingExclusive, Busy
    <3> HIDE DEF x
    <3>5. \A type, slots : Flight(cmds, events, type, slots)' =
             Flight(cmds, events, type, slots)
             + (IF "ConfigureEndpoint" = type /\ s \in slots THEN 1 ELSE 0)
      BY <2>11, <3>1, <3>3, PushFlight
    <3>6. Addressing'
      <4>1. \A t \in {"EnableSlot", "AddressDevice"} :
              Flight(cmds', events', t, SlotIds) = Flight(cmds, events, t, SlotIds)
        BY <2>13, <3>5
      <4>2. port_config_phase'[addressing_port'] = port_config_phase[addressing_port]
        BY <2>2, <2>4, <3>1, <3>4
      <4> QED
        BY <4>1, <4>2 DEF Flown, Addressing
    <3>7. Target'
      <4>1. ASSUME NEW t \in SlotIds
            PROVE  Occurrences(cmds', CommandsOf("AddressDevice", {t})) =
                     Occurrences(cmds, CommandsOf("AddressDevice", {t}))
        <5>1. Occurrences(cmds', CommandsOf("AddressDevice", {t})) =
                Occurrences(cmds, CommandsOf("AddressDevice", {t}))
                + (IF x.type = "AddressDevice" /\ x.slot \in {t} THEN 1 ELSE 0)
          BY <2>4, <3>1, <3>3, PushCounts
        <5>2. Occurrences(cmds, CommandsOf("AddressDevice", {t})) \in Nat
          BY <2>4, CountsAreNat
        <5> QED
          BY <3>3, <5>1, <5>2
      <4> QED
        BY <2>2, <2>10, <4>1 DEF Flown, Target
    <3>8. ASSUME NEW t \in SlotIds PROVE SlotHolds(t)'
      <4>1. CASE t # s
        <5>1. devices[t].ctx_port \in 0..MaxPorts \ {p}
          BY <1>4, <1>5, <3>4, <4>1, SlotTypes, OneContext
        <5>2. PhaseOf(t)' = PhaseOf(t)
          BY <2>4, <2>10, <3>1, <5>1 DEF PhaseOf
        <5>3. Configuring(t)' = Configuring(t)
          <6>1. s \notin {t}
            BY <4>1
          <6> QED
            BY <2>13, <3>5, <6>1 DEF Configuring
        <5> QED
          BY <2>9, <2>11, <4>1, <5>2, <5>3, SlotKept DEF FewerMoves
      <4>2. CASE t = s
        <5>1. PhaseOf(s) = "kInitializingDevice" /\ PhaseOf(s)' = "kConfiguringEndpoints"
          BY <1>4, <1>5, <2>4, <2>10, <3>1, <3>2 DEF PhaseOf
        <5>2. SlotOK(s, r.dev, "kInitializingDevice", ep0'[s], intr'[s], Configuring(s), events')
          BY <2>7, <2>9, <5>1
        <5>3. Configuring(s) = 0
              /\ SlotOK(s, r.dev, "kConfiguringEndpoints", ep0'[s], intr'[s], 1, events')
          BY <2>4, <2>14, <3>2, <5>2, ConfigureSlot
        <5>4. Configuring(s)' = 1
          <6>1. Configuring(s)' = Configuring(s) + 1
            BY <3>5 DEF Configuring
          <6> QED
            BY <5>3, <6>1
        <5> QED
          BY <2>9, <4>2, <5>1, <5>3, <5>4 DEF SlotHolds
      <4> QED
        BY <4>1, <4>2
    <3> QED
      BY <2>12, <3>6, <3>7, <3>8 DEF Flown
  <2> QED
    BY <2>3, <2>15, <2>16
<1> QED
  BY <1>6, <1>7

-----------------------------------------------------------------------------
(* The controller.                                                         *)

(* Executing a command keeps it in flight.                                 *)
LEMMA ExecuteCounts ==
    ASSUME Inv, Inv', NEW type \in CommandType, CommandFront(type), NEW u \in SlotIds,
           cmds' = Tail(cmds), events' = Append(events, Completion(type, u))
    PROVE  /\ \A t, slots : (t # type \/ (Head(cmds).slot \in slots <=> u \in slots)) =>
                Flight(cmds', events', t, slots) = Flight(cmds, events, t, slots)
           /\ \A t, slots : Occurrences(cmds, CommandsOf(t, slots)) = 0 =>
                              Occurrences(cmds', CommandsOf(t, slots)) = 0
           /\ \A t, slots : Occurrences(events', CompletionsOf(t, slots)) =
                Occurrences(events, CompletionsOf(t, slots))
                + (IF t = type /\ u \in slots THEN 1 ELSE 0)
           /\ \A s, issuers : Moves(events', s, issuers) = Moves(events, s, issuers)
<1> DEFINE s == Head(cmds).slot
           x == Completion(type, u)
<1>1. /\ cmds \in Seq(Command) /\ events \in Seq(Event) /\ cmds # <<>> /\ cmds' \in Seq(Command)
      /\ events' \in Seq(Event) /\ Head(cmds).type = type
  BY DEF Inv, TypeOK, CommandFront
<1>2. x \in Event /\ x.type = "CommandCompletion" /\ x.issuer = type /\ x.slot = u
  BY CompletionType DEF Completion
<1> HIDE DEF x
<1>3. ASSUME NEW t, NEW slots
      PROVE  /\ Occurrences(cmds, CommandsOf(t, slots)) =
                  Occurrences(cmds', CommandsOf(t, slots))
                  + (IF type = t /\ s \in slots THEN 1 ELSE 0)
             /\ Occurrences(events', CompletionsOf(t, slots)) =
                  Occurrences(events, CompletionsOf(t, slots))
                  + (IF t = type /\ u \in slots THEN 1 ELSE 0)
             /\ Occurrences(cmds', CommandsOf(t, slots)) \in Nat
             /\ Occurrences(events, CompletionsOf(t, slots)) \in Nat
  <2>1. Occurrences(cmds, CommandsOf(t, slots)) =
          Occurrences(cmds', CommandsOf(t, slots))
          + (IF Head(cmds).type = t /\ s \in slots THEN 1 ELSE 0)
    BY <1>1, TakeCounts
  <2>2. Occurrences(Append(events, x), CompletionsOf(t, slots)) =
          Occurrences(events, CompletionsOf(t, slots))
          + (IF x.type = "CommandCompletion" /\ x.issuer = t /\ x.slot \in slots THEN 1 ELSE 0)
    BY <1>1, <1>2, PostCounts
  <2>3. /\ Occurrences(cmds', CommandsOf(t, slots)) \in Nat
        /\ Occurrences(events, CompletionsOf(t, slots)) \in Nat
    BY <1>1, CountType
  <2>4. events' = Append(events, x)
    BY DEF x
  <2> QED
    BY <1>1, <1>2, <2>1, <2>2, <2>3, <2>4
<1>4. ASSUME NEW t, NEW slots, t # type \/ (s \in slots <=> u \in slots)
      PROVE  Flight(cmds', events', t, slots) = Flight(cmds, events, t, slots)
  <2>1. (IF type = t /\ s \in slots THEN 1 ELSE 0) = (IF t = type /\ u \in slots THEN 1 ELSE 0)
    BY <1>4
  <2> DEFINE k == IF t = type /\ u \in slots THEN 1 ELSE 0
  <2>2. k \in Nat
    OBVIOUS
  <2>3. /\ Occurrences(cmds, CommandsOf(t, slots)) = Occurrences(cmds', CommandsOf(t, slots)) + k
        /\ Occurrences(events', CompletionsOf(t, slots)) =
             Occurrences(events, CompletionsOf(t, slots)) + k
        /\ Occurrences(cmds', CommandsOf(t, slots)) \in Nat
        /\ Occurrences(events, CompletionsOf(t, slots)) \in Nat
    BY <1>3, <2>1
  <2> HIDE DEF k
  <2> QED
    BY <2>2, <2>3 DEF Flight
<1>5. ASSUME NEW t, NEW slots, Occurrences(cmds, CommandsOf(t, slots)) = 0
      PROVE  Occurrences(cmds', CommandsOf(t, slots)) = 0
  <2>1. /\ Occurrences(cmds', CommandsOf(t, slots)) \in Nat
        /\ Occurrences(cmds, CommandsOf(t, slots)) =
             Occurrences(cmds', CommandsOf(t, slots)) + (IF type = t /\ s \in slots THEN 1 ELSE 0)
    BY <1>3
  <2> QED
    BY <1>5, <2>1
<1>6. \A v, issuers : Moves(events', v, issuers) = Moves(events, v, issuers)
  <2> TAKE v, issuers
  <2>1. Moves(Append(events, x), v, issuers) = Moves(events, v, issuers)
          + (IF x.type = "Transfer" /\ x.slot = v /\ x.issuer \in issuers THEN 1 ELSE 0)
    BY <1>1, <1>2, PostCounts
  <2>2. Moves(events, v, issuers) \in Nat
    BY <1>1, CountsAreNat
  <2> QED
    BY <1>2, <2>1, <2>2 DEF x
<1> QED
  BY <1>3, <1>4, <1>5, <1>6

(* What the three commands have in common: everything but the slot states  *)
(* and the ports in the device contexts.                                   *)
LEMMA ExecuteKeeps ==
    ASSUME Inv, Inv', Flown, NEW type \in CommandType, CommandFront(type), NEW u \in SlotIds,
           cmds' = Tail(cmds), events' = Append(events, Completion(type, u)),
           type # "EnableSlot" => u = Head(cmds).slot,
           UNCHANGED <<addressing_port, port_config_phase, ep0, intr>>,
           \A s \in SlotIds : devices'[s].in_port = devices[s].in_port
    PROVE  /\ Addressing' /\ Target'
           /\ \A s \in SlotIds : devices'[s] = devices[s] => SlotHolds(s)'
           /\ \A s \in SlotIds : Configuring(s)' = Configuring(s)
           /\ \A s \in SlotIds : \A issuers : Moves(events', s, issuers) <= Moves(events, s, issuers)
<1>1. Head(cmds).slot \in SlotIds
  BY CommandFrontType
<1>2. \A t : Flight(cmds', events', t, SlotIds) = Flight(cmds, events, t, SlotIds)
  BY <1>1, ExecuteCounts
<1>3. ASSUME NEW s \in SlotIds PROVE Configuring(s)' = Configuring(s)
  <2>1. Flight(cmds', events', "ConfigureEndpoint", {s}) = Flight(cmds, events, "ConfigureEndpoint", {s})
    BY ExecuteCounts
  <2> QED
    BY <2>1 DEF Configuring
<1>4. Addressing'
  BY <1>2 DEF Flown, Addressing
<1>5. Target'
  <2>1. \A s \in SlotIds : Occurrences(cmds, CommandsOf("AddressDevice", {s})) = 0 =>
                             Occurrences(cmds', CommandsOf("AddressDevice", {s})) = 0
    BY ExecuteCounts
  <2> QED
    BY <2>1 DEF Flown, Target
<1>6. ASSUME NEW s \in SlotIds, NEW issuers
      PROVE  Moves(events', s, issuers) <= Moves(events, s, issuers)
  <2>1. Moves(events, s, issuers) \in Nat
    BY CountsAreNat DEF Inv, TypeOK
  <2>2. Moves(events', s, issuers) = Moves(events, s, issuers)
    BY ExecuteCounts
  <2> QED
    BY <2>1, <2>2
<1>7. ASSUME NEW s \in SlotIds, devices'[s] = devices[s] PROVE SlotHolds(s)'
  <2>1. PhaseOf(s)' = PhaseOf(s)
    BY <1>7 DEF PhaseOf
  <2> QED
    BY <1>3, <1>6, <1>7, <2>1, SlotKept
<1> QED
  BY <1>3, <1>4, <1>5, <1>6, <1>7

(* The controller executes Enable Slot.                                    *)
LEMMA HcEnableSlotFlown ==
    ASSUME Inv, Inv', Flown, HcEnableSlot
    PROVE  Flown'
<1>1. PICK u \in (IF FreeSlots = {} THEN {0} ELSE FreeSlots) :
         /\ slot_state' = IF u = 0 THEN slot_state ELSE [slot_state EXCEPT ![u] = "Enabled"]
         /\ events' = Append(events, Completion("EnableSlot", u))
  BY DEF HcEnableSlot
<1>2. u \in SlotIds /\ (u # 0 => u \in 1..kDeviceSize /\ slot_state[u] = "Disabled")
  BY DEF FreeSlots, SlotIds
<1>3. /\ CommandFront("EnableSlot") /\ "EnableSlot" \in CommandType /\ cmds' = Tail(cmds)
      /\ UNCHANGED <<addressing_port, port_config_phase, ep0, intr, devices>>
  BY DEF HcEnableSlot, CommandType, driverVars
<1>4. Addressing' /\ Target' /\ \A s \in SlotIds : SlotHolds(s)'
  BY <1>1, <1>2, <1>3, ExecuteKeeps
<1>5. ASSUME NEW s \in 1..kDeviceSize, s # u
      PROVE  Occurrences(events', CompletionsOf("EnableSlot", {s})) =
               Occurrences(events, CompletionsOf("EnableSlot", {s}))
  <2>1. Occurrences(events', CompletionsOf("EnableSlot", {s})) =
          Occurrences(events, CompletionsOf("EnableSlot", {s}))
          + (IF u \in {s} THEN 1 ELSE 0)
    BY <1>1, <1>2, <1>3, ExecuteCounts
  <2>2. Occurrences(events, CompletionsOf("EnableSlot", {s})) \in Nat
    BY CountsAreNat DEF Inv, TypeOK
  <2> QED
    BY <1>5, <2>1, <2>2
<1>6. \A s \in 1..kDeviceSize : s \in SlotIds /\ s # 0
  BY DEF SlotIds
<1>7. slot_state \in [SlotIds -> SlotState] /\ 0 \in SlotIds
  BY DEF Inv, TypeOK, SlotIds
<1>8. /\ \A s \in SlotIds \ {u} : slot_state'[s] = slot_state[s]
      /\ u = 0 => slot_state' = slot_state
      /\ u # 0 => slot_state'[u] = "Enabled"
  BY <1>1, <1>2, <1>7
<1>9. Fresh'
  <2>1. slot_state'[0] = "Disabled"
    BY <1>7, <1>8 DEF Flown, Fresh
  <2>2. \A s \in SlotIds : devices'[s].ctx_port # 0 => devices'[s].ctx_port = devices'[s].in_port
    BY <1>3 DEF Flown, Fresh
  <2>3. \A s \in SlotIds : slot_state'[s] \in {"Disabled", "Enabled"} => devices'[s].ctx_port = 0
    BY <1>2, <1>3, <1>8 DEF Flown, Fresh
  <2>4. ASSUME NEW s \in 1..kDeviceSize
        PROVE  /\ slot_state'[s] = "Disabled" => ~Allocated(devices'[s])
               /\ Occurrences(events', CompletionsOf("EnableSlot", {s})) # 0 =>
                    ~Allocated(devices'[s]) /\ slot_state'[s] # "Disabled"
    <3>1. CASE s = u
      BY <1>2, <1>3, <1>6, <1>8, <3>1 DEF Flown, Fresh
    <3>2. CASE s # u
      BY <1>3, <1>5, <1>6, <1>8, <3>2 DEF Flown, Fresh
    <3> QED
      BY <3>1, <3>2
  <2> QED
    BY <2>1, <2>2, <2>3, <2>4 DEF Fresh
<1> QED
  BY <1>4, <1>9 DEF Flown

(* Address Device: the slot is enabled and its port is the addressing one, *)
(* so the device context names a port in kAddressingDevice.                *)
LEMMA HcAddressDeviceFlown ==
    ASSUME Inv, Inv', Flown, HcAddressDevice
    PROVE  Flown'
<1>1. PICK s \in SlotIds : s = Head(cmds).slot
  BY CommandFrontType DEF HcAddressDevice
<1> DEFINE d2 == [devices[s] EXCEPT !.ctx_port = devices[s].in_port]
<1>2. /\ CommandFront("AddressDevice") /\ "AddressDevice" \in CommandType /\ cmds' = Tail(cmds)
      /\ events' = Append(events, Completion("AddressDevice", s))
      /\ UNCHANGED <<addressing_port, port_config_phase, ep0, intr>>
  BY <1>1 DEF HcAddressDevice, CommandType
<1>3. \/ /\ slot_state[s] = "Enabled"
         /\ slot_state' = [slot_state EXCEPT ![s] = "Addressed"]
         /\ devices' = [devices EXCEPT ![s] = d2]
      \/ UNCHANGED <<slot_state, devices>>
  BY <1>1 DEF HcAddressDevice
<1>4. /\ devices \in [SlotIds -> Device] /\ devices[s] \in Device
      /\ slot_state \in [SlotIds -> SlotState]
      /\ port_config_phase[0] = "kNotConnected"
  BY DEF Inv, TypeOK
<1>5. /\ d2.in_port = devices[s].in_port /\ d2.ctx_port = devices[s].in_port
      /\ d2.initialize_phase = devices[s].initialize_phase
      /\ d2.hid_phase = devices[s].hid_phase /\ d2.class_drivers = devices[s].class_drivers
      /\ d2 \in Device
  BY <1>4 DEF Device
<1> HIDE DEF d2
<1>6. \A t \in SlotIds : devices'[t].in_port = devices[t].in_port
  BY <1>3, <1>4, <1>5
<1>7. /\ Addressing' /\ Target'
      /\ \A t \in SlotIds : devices'[t] = devices[t] => SlotHolds(t)'
      /\ \A t \in SlotIds : Configuring(t)' = Configuring(t)
      /\ \A t \in SlotIds : \A issuers : Moves(events', t, issuers) <= Moves(events, t, issuers)
  BY <1>1, <1>2, <1>6, ExecuteKeeps
<1>8. ASSUME NEW t \in 1..kDeviceSize
      PROVE  Occurrences(events', CompletionsOf("EnableSlot", {t})) =
               Occurrences(events, CompletionsOf("EnableSlot", {t}))
  <2>1. Occurrences(events', CompletionsOf("EnableSlot", {t})) =
          Occurrences(events, CompletionsOf("EnableSlot", {t})) + 0
    BY <1>1, <1>2, ExecuteCounts
  <2>2. Occurrences(events, CompletionsOf("EnableSlot", {t})) \in Nat
    BY CountsAreNat DEF Inv, TypeOK
  <2> QED
    BY <2>1, <2>2
<1>9. CASE UNCHANGED <<slot_state, devices>>
  <2>1. Fresh'
    BY <1>8, <1>9, FreshKept
  <2> QED
    BY <1>7, <1>9, <2>1 DEF Flown
<1>10. CASE /\ slot_state[s] = "Enabled"
            /\ slot_state' = [slot_state EXCEPT ![s] = "Addressed"]
            /\ devices' = [devices EXCEPT ![s] = d2]
  <2>1. /\ slot_state'[s] = "Addressed" /\ devices'[s] = d2
        /\ \A t \in SlotIds \ {s} : slot_state'[t] = slot_state[t] /\ devices'[t] = devices[t]
    BY <1>4, <1>10
  <2>2. Fresh'
    <3>1. slot_state'[0] = "Disabled"
      <4>1. slot_state[0] = "Disabled" /\ 0 \in SlotIds
        BY DEF Flown, Fresh, SlotIds
      <4> QED
        BY <1>10, <2>1, <4>1
    <3>2. \A t \in SlotIds : devices'[t].ctx_port # 0 => devices'[t].ctx_port = devices'[t].in_port
      BY <1>5, <2>1 DEF Flown, Fresh
    <3>3. \A t \in SlotIds : slot_state'[t] \in {"Disabled", "Enabled"} => devices'[t].ctx_port = 0
      BY <2>1 DEF Flown, Fresh
    <3>4. ASSUME NEW t \in 1..kDeviceSize
          PROVE  /\ slot_state'[t] = "Disabled" => ~Allocated(devices'[t])
                 /\ Occurrences(events', CompletionsOf("EnableSlot", {t})) # 0 =>
                      ~Allocated(devices'[t]) /\ slot_state'[t] # "Disabled"
      <4>1. t \in SlotIds
        BY DEF SlotIds
      <4>2. /\ slot_state'[t] = "Disabled" => slot_state[t] = "Disabled"
            /\ slot_state[t] # "Disabled" => slot_state'[t] # "Disabled"
        BY <1>10, <2>1, <4>1
      <4> QED
        BY <1>6, <1>8, <4>1, <4>2 DEF Flown, Fresh
    <3> QED
      BY <3>1, <3>2, <3>3, <3>4 DEF Fresh
  <2>3. PhaseOf(s) \notin Late /\ PhaseOf(s)' \notin Late
    <3>1. Head(cmds) \in Command /\ cmds \in Seq(Command) /\ cmds # <<>>
          /\ Head(cmds).type = "AddressDevice" /\ Tail(cmds) \in Seq(Command)
      BY <1>2, HeadTailProperties DEF Inv, TypeOK, CommandFront
    <3>2. /\ Occurrences(cmds, CommandsOf("AddressDevice", {s})) # 0
          /\ Occurrences(cmds, CommandsOf("AddressDevice", SlotIds)) # 0
      <4>1. /\ Occurrences(cmds, CommandsOf("AddressDevice", {s})) =
                 Occurrences(Tail(cmds), CommandsOf("AddressDevice", {s})) + 1
            /\ Occurrences(cmds, CommandsOf("AddressDevice", SlotIds)) =
                 Occurrences(Tail(cmds), CommandsOf("AddressDevice", SlotIds)) + 1
        BY <1>1, <3>1, TakeCounts
      <4>2. /\ Occurrences(Tail(cmds), CommandsOf("AddressDevice", {s})) \in Nat
            /\ Occurrences(Tail(cmds), CommandsOf("AddressDevice", SlotIds)) \in Nat
        BY <3>1, CountType
      <4> QED
        BY <4>1, <4>2
    <3>3. devices[s].in_port = addressing_port
      BY <3>2 DEF Flown, Target
    <3>4. port_config_phase[addressing_port] = "kAddressingDevice"
      <4>1. /\ Occurrences(cmds, CommandsOf("AddressDevice", SlotIds)) \in Nat
            /\ Occurrences(events, CompletionsOf("AddressDevice", SlotIds)) \in Nat
        BY CountsAreNat DEF Inv, TypeOK
      <4>2. Flight(cmds, events, "AddressDevice", SlotIds) >= 1
        BY <3>2, <4>1 DEF Flight
      <4>3. Flight(cmds, events, "AddressDevice", SlotIds) <=
              IF port_config_phase[addressing_port] = "kAddressingDevice" THEN 1 ELSE 0
        BY DEF Flown, Addressing
      <4>4. Flight(cmds, events, "AddressDevice", SlotIds) \in Nat
        BY CountsAreNat DEF Inv, TypeOK
      <4> QED
        BY <4>2, <4>3, <4>4
    <3>5. devices[s].ctx_port = 0
      BY <1>10 DEF Flown, Fresh
    <3> QED
      BY <1>2, <1>4, <1>5, <2>1, <3>3, <3>4, <3>5 DEF PhaseOf, Late
  <2>4. SlotHolds(s)'
    <3>1. SlotOK(s, devices[s], PhaseOf(s), ep0[s], intr[s], Configuring(s), events)
      BY DEF Flown, SlotHolds
    <3>2. ep0[s] \in Seq(ControlRequest) /\ intr[s] \in Nat /\ events \in Seq(Event)
      BY SlotTypes
    <3>3. events' \in Seq(Event)
      BY DEF Inv, TypeOK
    <3>4. \A issuers : Moves(events', s, issuers) <= Moves(events, s, issuers)
      BY <1>7
    <3>5. SlotOK(s, devices[s], PhaseOf(s)', ep0[s], intr[s], Configuring(s), events')
      BY <1>4, <2>3, <3>1, <3>2, <3>3, <3>4, SameSlot
    <3>6. SlotOK(s, d2, PhaseOf(s)', ep0[s], intr[s], Configuring(s), events')
      BY <1>4, <1>5, <3>5, AlikeSlot
    <3> QED
      BY <1>2, <1>7, <2>1, <3>6 DEF SlotHolds
  <2>5. \A t \in SlotIds : SlotHolds(t)'
    BY <1>7, <2>1, <2>4
  <2> QED
    BY <1>7, <2>2, <2>5 DEF Flown
<1> QED
  BY <1>3, <1>9, <1>10

(* The controller executes Configure Endpoint.                             *)
LEMMA HcConfigureEndpointFlown ==
    ASSUME Inv, Inv', Flown, HcConfigureEndpoint
    PROVE  Flown'
<1>1. PICK s \in SlotIds : s = Head(cmds).slot
  BY CommandFrontType DEF HcConfigureEndpoint
<1>2. /\ CommandFront("ConfigureEndpoint") /\ "ConfigureEndpoint" \in CommandType
      /\ cmds' = Tail(cmds)
      /\ events' = Append(events, Completion("ConfigureEndpoint", s))
      /\ UNCHANGED <<addressing_port, port_config_phase, ep0, intr, devices>>
  BY <1>1 DEF HcConfigureEndpoint, CommandType, driverVars
<1>3. \/ slot_state[s] = "Addressed" /\ slot_state' = [slot_state EXCEPT ![s] = "Configured"]
      \/ UNCHANGED slot_state
  BY <1>1 DEF HcConfigureEndpoint
<1>4. slot_state \in [SlotIds -> SlotState]
  BY DEF Inv, TypeOK
<1>5. \A t \in SlotIds : /\ slot_state'[t] = "Disabled" <=> slot_state[t] = "Disabled"
                         /\ slot_state'[t] = "Enabled" => slot_state[t] = "Enabled"
  BY <1>3, <1>4
<1>6. Addressing' /\ Target' /\ \A t \in SlotIds : SlotHolds(t)'
  BY <1>1, <1>2, ExecuteKeeps
<1>7. ASSUME NEW t \in 1..kDeviceSize
      PROVE  Occurrences(events', CompletionsOf("EnableSlot", {t})) =
               Occurrences(events, CompletionsOf("EnableSlot", {t}))
  <2>1. Occurrences(events', CompletionsOf("EnableSlot", {t})) =
          Occurrences(events, CompletionsOf("EnableSlot", {t})) + 0
    BY <1>1, <1>2, ExecuteCounts
  <2>2. Occurrences(events, CompletionsOf("EnableSlot", {t})) \in Nat
    BY CountsAreNat DEF Inv, TypeOK
  <2> QED
    BY <2>1, <2>2
<1>8. Fresh'
  <2>1. 0 \in SlotIds /\ \A t \in 1..kDeviceSize : t \in SlotIds
    BY DEF SlotIds
  <2> QED
    BY <1>2, <1>5, <1>7, <2>1 DEF Flown, Fresh
<1> QED
  BY <1>6, <1>8 DEF Flown

(* The completion of a transfer disturbs at most the slot it is about.     *)
LEMMA TransferKeeps ==
    ASSUME Inv, Inv', Flown, NEW s \in SlotIds, NEW i \in ControlRequest \cup {"Normal"},
           NEW r \in TransferResult, events' = Append(events, Transferred(s, i, r)),
           UNCHANGED <<addressing_port, port_config_phase, devices, slot_state, cmds>>,
           \A t \in SlotIds \ {s} : ep0'[t] = ep0[t] /\ intr'[t] = intr[t]
    PROVE  /\ Addressing' /\ Target' /\ Fresh'
           /\ \A t \in SlotIds \ {s} : SlotHolds(t)'
           /\ \A issuers : Moves(events', s, issuers) = Moves(events, s, issuers)
                             + (IF i \in issuers THEN 1 ELSE 0)
           /\ Configuring(s)' = Configuring(s) /\ PhaseOf(s)' = PhaseOf(s)
<1> DEFINE x == Transferred(s, i, r)
<1>1. x \in Event /\ x.type = "Transfer" /\ x.slot = s /\ x.issuer = i
  BY TransferredType DEF Transferred
<1>2. events \in Seq(Event) /\ cmds \in Seq(Command) /\ events' = Append(events, x)
  BY DEF Inv, TypeOK
<1> HIDE DEF x
<1>3. /\ \A t, slots : Occurrences(events, CompletionsOf(t, slots)) \in Nat
      /\ \A u, issuers : Moves(events, u, issuers) \in Nat
  BY <1>2, CountsAreNat
<1>4. SameCompletions
  <2> SUFFICES ASSUME NEW t, NEW slots
               PROVE  Occurrences(events', CompletionsOf(t, slots)) =
                        Occurrences(events, CompletionsOf(t, slots))
    BY DEF SameCompletions
  <2>1. Occurrences(events', CompletionsOf(t, slots)) =
          Occurrences(events, CompletionsOf(t, slots))
          + (IF x.type = "CommandCompletion" /\ x.issuer = t /\ x.slot \in slots THEN 1 ELSE 0)
    BY <1>1, <1>2, PostCounts
  <2>2. Occurrences(events, CompletionsOf(t, slots)) \in Nat
    BY <1>3
  <2> QED
    BY <1>1, <2>1, <2>2
<1>5. ASSUME NEW u, NEW issuers
      PROVE  Moves(events', u, issuers) = Moves(events, u, issuers)
               + (IF s = u /\ i \in issuers THEN 1 ELSE 0)
  <2>1. Moves(events', u, issuers) = Moves(events, u, issuers)
          + (IF x.type = "Transfer" /\ x.slot = u /\ x.issuer \in issuers THEN 1 ELSE 0)
    BY <1>1, <1>2, PostCounts
  <2> QED
    BY <1>1, <2>1
<1>6. \A type, slots : Flight(cmds, events, type, slots)' = Flight(cmds, events, type, slots)
  BY <1>4 DEF Flight, SameCompletions
<1>7. \A t \in SlotIds : Configuring(t)' = Configuring(t) /\ PhaseOf(t)' = PhaseOf(t)
  BY <1>6 DEF Configuring, PhaseOf
<1>8. Addressing' /\ Target'
  BY <1>6 DEF Flown, Addressing, Target
<1>9. Fresh'
  BY <1>4, FreshKept DEF SameCompletions
<1>10. ASSUME NEW t \in SlotIds \ {s} PROVE SlotHolds(t)'
  <2>1. \A issuers : Moves(events', t, issuers) <= Moves(events, t, issuers)
    <3> TAKE issuers
    <3>1. Moves(events', t, issuers) = Moves(events, t, issuers) + 0
      BY <1>5
    <3>2. Moves(events, t, issuers) \in Nat
      BY <1>3
    <3> QED
      BY <3>1, <3>2
  <2> QED
    BY <1>7, <2>1, SlotKept
<1> QED
  BY <1>5, <1>7, <1>8, <1>9, <1>10

(* A control transfer turns a request into an event.                       *)
LEMMA HcControlTransferFlown ==
    ASSUME Inv, Inv', Flown, NEW s \in SlotIds, HcControlTransfer(s)
    PROVE  Flown'
<1>1. PICK q : q = ep0[s]
  OBVIOUS
<1>2. q \in Seq(ControlRequest) /\ q # <<>>
  BY <1>1 DEF HcControlTransfer, Inv, TypeOK
<1>3. PICK h : h = Head(q)
  OBVIOUS
<1>4. PICK result \in TransferResult :
         /\ events' = Append(events, Transferred(s, h, result))
         /\ ep0' = [ep0 EXCEPT ![s] = IF result = "failed" THEN <<>> ELSE Tail(@)]
  BY <1>1, <1>3 DEF HcControlTransfer
<1>5. /\ UNCHANGED <<addressing_port, port_config_phase, devices, slot_state, cmds, intr>>
      /\ ep0 \in [SlotIds -> Seq(ControlRequest)]
  BY DEF HcControlTransfer, driverVars, Inv, TypeOK
<1>6. ep0'[s] = (IF result = "failed" THEN <<>> ELSE Tail(q))
      /\ \A t \in SlotIds \ {s} : ep0'[t] = ep0[t] /\ intr'[t] = intr[t]
  BY <1>1, <1>4, <1>5
<1>7. /\ h \in ControlRequest /\ h = q[1] /\ Tail(q) \in Seq(ControlRequest)
      /\ Len(q) \in Nat \ {0} /\ Len(Tail(q)) = Len(q) - 1
      /\ \A i \in 1..Len(Tail(q)) : Tail(q)[i] = q[i + 1]
  BY <1>2, <1>3, HeadTailProperties, LenProperties, EmptySeq
<1>8. /\ Addressing' /\ Target' /\ Fresh'
      /\ \A t \in SlotIds \ {s} : SlotHolds(t)'
      /\ \A issuers : Moves(events', s, issuers) = Moves(events, s, issuers)
                        + (IF h \in issuers THEN 1 ELSE 0)
      /\ Configuring(s)' = Configuring(s) /\ PhaseOf(s)' = PhaseOf(s)
  BY <1>4, <1>5, <1>6, <1>7, TransferKeeps
<1>9. PICK d \in Device : d = devices[s]
  BY SlotTypes
<1>10. SlotOK(s, d, PhaseOf(s), q, intr[s], Configuring(s), events)
  BY <1>1, <1>9 DEF Flown, SlotHolds
<1>11. \A issuers : Moves(events, s, issuers) \in Nat
  BY CountsAreNat DEF Inv, TypeOK
<1>12. SlotOK(s, d, PhaseOf(s), ep0'[s], intr[s], Configuring(s), events')
  <2>1. h \in Expected(d)
    BY <1>7, <1>10 DEF SlotOK
  <2>2. intr[s] + Moves(events', s, {"Normal"}) <= IF d.hid_phase = 2 THEN 1 ELSE 0
    <3>1. h \notin {"Normal"}
      BY <1>7 DEF ControlRequest
    <3>2. Moves(events', s, {"Normal"}) = Moves(events, s, {"Normal"})
      BY <1>8, <1>11, <3>1
    <3> QED
      BY <1>10, <3>2 DEF SlotOK
  <2>3. Moves(events', s, ControlRequest \ Expected(d)) = 0
    <3>1. Moves(events', s, ControlRequest \ Expected(d)) =
            Moves(events, s, ControlRequest \ Expected(d)) + 0
      BY <1>8, <2>1
    <3>2. Moves(events, s, ControlRequest \ Expected(d)) = 0
      BY <1>10 DEF SlotOK
    <3> QED
      BY <3>1, <3>2
  <2>4. Len(ep0'[s]) \in Nat /\ Len(ep0'[s]) <= Len(q) - 1
        /\ \A i \in 1..Len(ep0'[s]) : ep0'[s][i] \in Expected(d)
    <3>1. CASE result = "failed"
      <4>1. ep0'[s] = <<>>
        BY <1>6, <3>1
      <4> QED
        BY <1>7, <4>1
    <3>2. CASE result # "failed"
      <4>1. ep0'[s] = Tail(q)
        BY <1>6, <3>2
      <4>2. \A i \in 1..Len(q) : q[i] \in Expected(d)
        BY <1>10 DEF SlotOK
      <4> QED
        BY <1>7, <4>1, <4>2
    <3> QED
      BY <3>1, <3>2
  <2>5. Len(ep0'[s]) + Moves(events', s, ControlRequest) <= Allowance(d, PhaseOf(s))
    <3>1. Moves(events', s, ControlRequest) = Moves(events, s, ControlRequest) + 1
      BY <1>7, <1>8
    <3>2. Len(q) + Moves(events, s, ControlRequest) <= Allowance(d, PhaseOf(s))
      BY <1>10 DEF SlotOK
    <3>3. Moves(events, s, ControlRequest) \in Nat /\ Allowance(d, PhaseOf(s)) \in Nat
      <4>1. d.initialize_phase \in 0..4 /\ d.class_drivers \in Nat
        BY DEF Device
      <4> QED
        BY <1>11, <4>1 DEF Allowance
    <3> QED
      BY <1>7, <2>4, <3>1, <3>2, <3>3
  <2> QED
    BY <1>10, <2>2, <2>3, <2>4, <2>5 DEF SlotOK
<1>13. SlotHolds(s)'
  BY <1>5, <1>8, <1>9, <1>12 DEF SlotHolds
<1> QED
  BY <1>8, <1>13 DEF Flown

(* An interrupt transfer turns a Normal TRB into an event.                 *)
LEMMA HcInterruptTransferFlown ==
    ASSUME Inv, Inv', Flown, NEW s \in SlotIds, HcInterruptTransfer(s)
    PROVE  Flown'
<1>1. PICK result \in {"ok", "failed"} :
         /\ events' = Append(events, Transferred(s, "Normal", result))
         /\ intr' = [intr EXCEPT ![s] = IF result = "failed" THEN 0 ELSE @ - 1]
  BY DEF HcInterruptTransfer
<1>2. /\ UNCHANGED <<addressing_port, port_config_phase, devices, slot_state, cmds, ep0>>
      /\ intr \in [SlotIds -> Nat] /\ intr[s] \in Nat \ {0}
  BY DEF HcInterruptTransfer, driverVars, Inv, TypeOK
<1>3. /\ intr'[s] \in Nat /\ intr'[s] + 1 <= intr[s]
      /\ \A t \in SlotIds \ {s} : ep0'[t] = ep0[t] /\ intr'[t] = intr[t]
  BY <1>1, <1>2
<1>4. /\ Addressing' /\ Target' /\ Fresh'
      /\ \A t \in SlotIds \ {s} : SlotHolds(t)'
      /\ \A issuers : Moves(events', s, issuers) = Moves(events, s, issuers)
                        + (IF "Normal" \in issuers THEN 1 ELSE 0)
      /\ Configuring(s)' = Configuring(s) /\ PhaseOf(s)' = PhaseOf(s)
  <2>1. "Normal" \in ControlRequest \cup {"Normal"} /\ result \in TransferResult
    BY DEF TransferResult
  <2> QED
    BY <1>1, <1>2, <1>3, <2>1, TransferKeeps
<1>5. PICK d \in Device : d = devices[s]
  BY SlotTypes
<1>6. SlotOK(s, d, PhaseOf(s), ep0[s], intr[s], Configuring(s), events)
  BY <1>5 DEF Flown, SlotHolds
<1>7. \A issuers : Moves(events, s, issuers) \in Nat
  BY CountsAreNat DEF Inv, TypeOK
<1>8. intr'[s] + Moves(events', s, {"Normal"}) <= IF d.hid_phase = 2 THEN 1 ELSE 0
  <2>1. Moves(events', s, {"Normal"}) = Moves(events, s, {"Normal"}) + 1
    BY <1>4
  <2>2. intr[s] + Moves(events, s, {"Normal"}) <= IF d.hid_phase = 2 THEN 1 ELSE 0
    BY <1>6 DEF SlotOK
  <2>3. Moves(events, s, {"Normal"}) \in Nat
    BY <1>7
  <2> QED
    BY <1>2, <1>3, <2>1, <2>2, <2>3
<1>9. /\ Moves(events', s, ControlRequest) = Moves(events, s, ControlRequest)
      /\ Moves(events', s, ControlRequest \ Expected(d)) = Moves(events, s, ControlRequest \ Expected(d))
  <2>1. "Normal" \notin ControlRequest
    BY DEF ControlRequest
  <2>2. /\ Moves(events', s, ControlRequest) = Moves(events, s, ControlRequest) + 0
        /\ Moves(events', s, ControlRequest \ Expected(d)) = Moves(events, s, ControlRequest \ Expected(d)) + 0
    BY <1>4, <2>1
  <2>3. Moves(events, s, ControlRequest) \in Nat /\ Moves(events, s, ControlRequest \ Expected(d)) \in Nat
    BY <1>7
  <2> QED
    BY <2>2, <2>3
<1>10. SlotOK(s, d, PhaseOf(s), ep0[s], intr'[s], Configuring(s), events')
  BY <1>6, <1>8, <1>9 DEF SlotOK
<1>11. SlotHolds(s)'
  BY <1>2, <1>4, <1>5, <1>10 DEF SlotHolds
<1> QED
  BY <1>4, <1>11 DEF Flown


-----------------------------------------------------------------------------
(* The second invariant holds initially and every step preserves it.       *)
LEMMA InitFlown == Init => Flown
<1> SUFFICES ASSUME Init PROVE Flown
  OBVIOUS
<1>1. Inv
  BY InitInv
<1>2. /\ cmds = <<>> /\ events = <<>> /\ addressing_port = 0
      /\ port_config_phase = [p \in 0..MaxPorts |-> "kNotConnected"]
  BY DEF Init
<1>3. /\ \A type, slots : /\ Flight(cmds, events, type, slots) = 0
                          /\ Occurrences(cmds, CommandsOf(type, slots)) = 0
                          /\ Occurrences(events, CompletionsOf(type, slots)) = 0
      /\ \A s, issuers : Moves(events, s, issuers) = 0
  <2>1. \A S : Occurrences(cmds, S) = 0 /\ Occurrences(events, S) = 0
    BY <1>2, CountEmpty
  <2> QED
    BY <2>1 DEF Flight, Moves
<1>4. port_config_phase[addressing_port] = "kNotConnected"
  BY <1>1, <1>2 DEF Inv, TypeOK
<1>5. Addressing
  BY <1>3, <1>4 DEF Addressing
<1>6. Target
  BY <1>3 DEF Target
<1>7. \A s \in SlotIds : /\ devices[s].ctx_port = 0 /\ devices[s].in_port = 0
                         /\ devices[s].initialize_phase = 0 /\ devices[s].hid_phase = 0
                         /\ ep0[s] = <<>> /\ intr[s] = 0 /\ slot_state[s] = "Disabled"
  BY DEF Init, NewDevice
<1>8. Fresh
  BY <1>3, <1>7, DeviceSizeAssumption DEF Fresh, Allocated, SlotIds
<1>9. ASSUME NEW s \in SlotIds PROVE SlotHolds(s)
  <2>1. PhaseOf(s) = "kNotConnected"
    BY <1>7, <1>2, MaxPortsAssumption DEF PhaseOf
  <2>2. InStep(devices[s], PhaseOf(s)) /\ Allowance(devices[s], PhaseOf(s)) = 0
    BY <1>7, <2>1 DEF InStep, Allowance
  <2>3. /\ Configuring(s) = 0 /\ \A issuers : Moves(events, s, issuers) = 0
        /\ Len(ep0[s]) = 0 /\ intr[s] = 0 /\ devices[s].hid_phase = 0
    BY <1>3, <1>7 DEF Configuring
  <2> QED
    BY <2>1, <2>2, <2>3 DEF SlotHolds, SlotOK
<1> QED
  BY <1>5, <1>6, <1>8, <1>9 DEF Flown

(* One case for each disjunct of Next.                                     *)
LEMMA NextFlown == Inv /\ Inv' /\ Flown /\ [Next]_vars => Flown'
<1> SUFFICES ASSUME Inv, Inv', Flown, [Next]_vars PROVE Flown'
  OBVIOUS
<1>1. CASE ConfigurePort
  BY <1>1, ConfigurePortFlown
<1>2. CASE ProcessEvent
  BY <1>2, OnPortStatusChangeFlown, OnEnableSlotCompletedFlown,
     OnAddressDeviceCompletedFlown, OnConfigureEndpointCompletedFlown,
     OnTransferFlown, IdleFlown DEF ProcessEvent
<1>3. CASE HcCommand
  BY <1>3, HcEnableSlotFlown, HcAddressDeviceFlown, HcConfigureEndpointFlown DEF HcCommand
<1>4. CASE \E s \in SlotIds : HcControlTransfer(s) \/ HcInterruptTransfer(s)
  BY <1>4, HcControlTransferFlown, HcInterruptTransferFlown
<1>5. CASE \E p \in Ports : Plug(p) \/ Unplug(p)
  BY <1>5, PlugFlown
<1>6. CASE UNCHANGED vars
  BY <1>6, IdleFlown
<1> QED
  BY <1>1, <1>2, <1>3, <1>4, <1>5, <1>6 DEF Next

(* Every reachable state satisfies the second invariant: what is in flight *)
(* for a slot is what its device and its port wait for.                    *)
THEOREM SpecFlown == Spec => []Flown
<1>1. Inv /\ Inv' /\ Flown /\ [Next]_vars => Flown'
  BY NextFlown
<1> QED
  BY <1>1, InitFlown, SpecInv, PTL DEF Spec

(* A completion finds the port it belongs to in the phase that issued the  *)
(* command, although the event names no port (OnEvent, xhci.cpp).          *)
THEOREM Owner == Spec => []CommandOwner
<1>1. Inv /\ Flown => CommandOwner
  <2> SUFFICES ASSUME Inv, Flown PROVE CommandOwner
    OBVIOUS
  <2>1. \A type, slots : InFlight(type, slots) = Flight(cmds, events, type, slots)
    BY FlightIs DEF Inv
  <2>2. \A s \in SlotIds : Configuring(s) =
           IF port_config_phase[devices[s].ctx_port] = "kConfiguringEndpoints" THEN 1 ELSE 0
    BY DEF Flown, SlotHolds, SlotOK, PhaseOf
  <2> QED
    BY <2>1, <2>2 DEF CommandOwner, Flown, Addressing, Configuring
<1> QED
  BY <1>1, SpecInv, SpecFlown, PTL

(* A control completion is the one usb::Device waits for, and the control  *)
(* ring holds no more requests than it is sized for.                       *)
THEOREM RequestsInStep == Spec => []RequestMatchesPhase
<1>1. Inv /\ Flown => RequestMatchesPhase
  <2> SUFFICES ASSUME Inv, Flown, NEW s \in SlotIds
               PROVE  /\ \A i \in 1..Len(ep0[s]) : ep0[s][i] \in Expected(devices[s])
                      /\ TransferEvents(s, ControlRequest \ Expected(devices[s])) = 0
                      /\ Len(ep0[s]) + TransferEvents(s, ControlRequest)
                           <= IF IsInitialized(devices[s]) THEN devices[s].class_drivers ELSE 1
    BY DEF RequestMatchesPhase
  <2>1. \A issuers : TransferEvents(s, issuers) = Moves(events, s, issuers)
    BY MovesIs DEF Inv
  <2>2. SlotOK(s, devices[s], PhaseOf(s), ep0[s], intr[s], Configuring(s), events)
    BY DEF Flown, SlotHolds
  <2>3. /\ devices[s].initialize_phase \in 0..4 /\ devices[s].class_drivers \in Nat
        /\ Len(ep0[s]) \in Nat
    BY SlotTypes, MaxEndpointsAssumption DEF Device
  <2>4. Moves(events, s, ControlRequest) \in Nat
    BY CountsAreNat DEF Inv, TypeOK
  <2>5. /\ Allowance(devices[s], PhaseOf(s)) \in Nat
        /\ Allowance(devices[s], PhaseOf(s))
             <= IF IsInitialized(devices[s]) THEN devices[s].class_drivers ELSE 1
    BY <2>3 DEF Allowance, IsInitialized
  <2>6. Len(ep0[s]) + Moves(events, s, ControlRequest) <= Allowance(devices[s], PhaseOf(s))
    BY <2>2 DEF SlotOK
  <2>7. Len(ep0[s]) + TransferEvents(s, ControlRequest)
          <= IF IsInitialized(devices[s]) THEN devices[s].class_drivers ELSE 1
    BY <2>1, <2>3, <2>4, <2>5, <2>6
  <2> QED
    BY <2>1, <2>2, <2>7 DEF SlotOK
<1> QED
  BY <1>1, SpecInv, SpecFlown, PTL

(* At most one interrupt IN transfer of a device is outstanding, so its    *)
(* one report buffer is never overwritten while it is read.                *)
THEOREM PolledOnce == Spec => []PollOnce
<1>1. Inv /\ Flown => PollOnce
  <2> SUFFICES ASSUME Inv, Flown, NEW s \in SlotIds
               PROVE  intr[s] + TransferEvents(s, {"Normal"}) <= 1
    BY DEF PollOnce
  <2>1. TransferEvents(s, {"Normal"}) = Moves(events, s, {"Normal"})
    BY MovesIs DEF Inv
  <2>2. intr[s] + Moves(events, s, {"Normal"}) <= IF devices[s].hid_phase = 2 THEN 1 ELSE 0
    BY DEF Flown, SlotHolds, SlotOK
  <2>3. Moves(events, s, {"Normal"}) \in Nat /\ intr[s] \in Nat
    BY CountsAreNat, SlotTypes DEF Inv, TypeOK
  <2> QED
    BY <2>1, <2>2, <2>3
<1> QED
  BY <1>1, SpecInv, SpecFlown, PTL

-----------------------------------------------------------------------------
(* The commands in flight for two disjoint sets of slots add up.           *)
LEMMA FlightUnion ==
    ASSUME NEW c \in Seq(Command), NEW e \in Seq(Event), NEW type, NEW A, NEW B, A \cap B = {}
    PROVE  Flight(c, e, type, A \cup B) = Flight(c, e, type, A) + Flight(c, e, type, B)
<1>1. /\ CommandsOf(type, A \cup B) = CommandsOf(type, A) \cup CommandsOf(type, B)
      /\ CommandsOf(type, A) \cap CommandsOf(type, B) = {}
  BY DEF CommandsOf
<1>2. /\ CompletionsOf(type, A \cup B) = CompletionsOf(type, A) \cup CompletionsOf(type, B)
      /\ CompletionsOf(type, A) \cap CompletionsOf(type, B) = {}
  BY DEF CompletionsOf
<1>3. Occurrences(c, CommandsOf(type, A \cup B)) =
        Occurrences(c, CommandsOf(type, A)) + Occurrences(c, CommandsOf(type, B))
  <2>1. Occurrences(c, CommandsOf(type, A) \cup CommandsOf(type, B)) =
          Occurrences(c, CommandsOf(type, A)) + Occurrences(c, CommandsOf(type, B))
    BY <1>1, CountUnion, Zenon
  <2> QED
    BY <1>1, <2>1, Zenon
<1>4. Occurrences(e, CompletionsOf(type, A \cup B)) =
        Occurrences(e, CompletionsOf(type, A)) + Occurrences(e, CompletionsOf(type, B))
  <2>1. Occurrences(e, CompletionsOf(type, A) \cup CompletionsOf(type, B)) =
          Occurrences(e, CompletionsOf(type, A)) + Occurrences(e, CompletionsOf(type, B))
    BY <1>2, CountUnion, Zenon
  <2> QED
    BY <1>2, <2>1, Zenon
<1>5. /\ Occurrences(c, CommandsOf(type, A)) \in Nat /\ Occurrences(c, CommandsOf(type, B)) \in Nat
      /\ Occurrences(e, CompletionsOf(type, A)) \in Nat
      /\ Occurrences(e, CompletionsOf(type, B)) \in Nat
  BY CountsAreNat
<1> QED
  BY <1>3, <1>4, <1>5 DEF Flight

(* At most one Configure Endpoint is in flight for each slot but slot 0,   *)
(* which has none, so no more than there are such slots.                   *)
LEMMA ConfigureFlight ==
    ASSUME Inv, Flown
    PROVE  Flight(cmds, events, "ConfigureEndpoint", SlotIds) <= kDeviceSize
<1> DEFINE F(slots) == Flight(cmds, events, "ConfigureEndpoint", slots)
           S == {n \in 0..kDeviceSize : F(0..n) <= n}
<1>1. cmds \in Seq(Command) /\ events \in Seq(Event) /\ kDeviceSize \in Nat
  BY DeviceSizeAssumption DEF Inv, TypeOK
<1>2. \A slots : F(slots) \in Nat
  BY <1>1, CountsAreNat
<1>3. \A s \in SlotIds : F({s}) = IF PhaseOf(s) = "kConfiguringEndpoints" THEN 1 ELSE 0
  BY DEF Flown, SlotHolds, SlotOK, Configuring
<1>4. 0 \in S
  <2>1. 0 \in SlotIds /\ PhaseOf(0) = "kNotConnected"
    BY <1>1 DEF Flown, Fresh, SlotIds, PhaseOf, Inv, TypeOK
  <2>2. F({0}) = 0
    BY <1>3, <2>1
  <2>3. 0..0 = {0}
    OBVIOUS
  <2> HIDE DEF F
  <2> QED
    BY <1>1, <2>2, <2>3
<1>5. ASSUME NEW n \in 1..kDeviceSize, n - 1 \in S PROVE n \in S
  <2>1. n \in SlotIds /\ n \in Nat /\ n - 1 \in Nat
    BY <1>1 DEF SlotIds
  <2>2. 0..n = (0..(n - 1)) \cup {n} /\ (0..(n - 1)) \cap {n} = {}
    BY <2>1
  <2>3. F(0..n) = F(0..(n - 1)) + F({n})
    BY <1>1, <2>2, FlightUnion
  <2> HIDE DEF F
  <2>4. F({n}) \in Nat /\ F({n}) <= 1 /\ F(0..(n - 1)) \in Nat /\ F(0..(n - 1)) <= n - 1
    BY <1>2, <1>3, <1>5, <2>1
  <2> QED
    BY <1>1, <2>1, <2>3, <2>4
<1>6. 0..kDeviceSize \subseteq S
  <2> HIDE DEF S
  <2> QED
    BY <1>1, <1>4, <1>5, BoundedInduction
<1>7. kDeviceSize \in S
  BY <1>1, <1>6
<1> QED
  BY <1>7 DEF SlotIds

(* Every command and every completion is of one of the three types.        *)
LEMMA AllFlight ==
    ASSUME TypeOK
    PROVE  Len(cmds) + Cardinality({i \in 1..Len(events) : events[i].type = "CommandCompletion"})
             = Flight(cmds, events, "EnableSlot", SlotIds)
                 + Flight(cmds, events, "AddressDevice", SlotIds)
                 + Flight(cmds, events, "ConfigureEndpoint", SlotIds)
<1> DEFINE C(type) == CommandsOf(type, SlotIds)
           E(type) == CompletionsOf(type, SlotIds)
<1>1. cmds \in Seq(Command) /\ events \in Seq(Event) /\ Len(cmds) \in Nat
  BY LenProperties DEF TypeOK
<1>2. /\ Command = (C("EnableSlot") \cup C("AddressDevice")) \cup C("ConfigureEndpoint")
      /\ C("EnableSlot") \cap C("AddressDevice") = {}
      /\ (C("EnableSlot") \cup C("AddressDevice")) \cap C("ConfigureEndpoint") = {}
  BY DEF CommandsOf, Command, CommandType
<1>3. /\ \A e \in Event : e.type = "CommandCompletion" <=>
                            e \in (E("EnableSlot") \cup E("AddressDevice")) \cup E("ConfigureEndpoint")
      /\ E("EnableSlot") \cap E("AddressDevice") = {}
      /\ (E("EnableSlot") \cup E("AddressDevice")) \cap E("ConfigureEndpoint") = {}
  BY DEF CompletionsOf, Event, CommandType, CommandCompletionEvent, PortStatusChangeEvent, TransferEvent
<1> HIDE DEF C, E
<1>4. Occurrences(cmds, Command) =
        Occurrences(cmds, C("EnableSlot")) + Occurrences(cmds, C("AddressDevice"))
          + Occurrences(cmds, C("ConfigureEndpoint"))
  <2>1. Occurrences(cmds, (C("EnableSlot") \cup C("AddressDevice")) \cup C("ConfigureEndpoint")) =
          Occurrences(cmds, C("EnableSlot") \cup C("AddressDevice"))
            + Occurrences(cmds, C("ConfigureEndpoint"))
    BY <1>1, <1>2, CountUnion
  <2>2. Occurrences(cmds, C("EnableSlot") \cup C("AddressDevice")) =
          Occurrences(cmds, C("EnableSlot")) + Occurrences(cmds, C("AddressDevice"))
    BY <1>1, <1>2, CountUnion
  <2> QED
    BY <1>2, <2>1, <2>2
<1>5. Occurrences(events, (E("EnableSlot") \cup E("AddressDevice")) \cup E("ConfigureEndpoint")) =
        Occurrences(events, E("EnableSlot")) + Occurrences(events, E("AddressDevice"))
          + Occurrences(events, E("ConfigureEndpoint"))
  <2>1. Occurrences(events, (E("EnableSlot") \cup E("AddressDevice")) \cup E("ConfigureEndpoint")) =
          Occurrences(events, E("EnableSlot") \cup E("AddressDevice"))
            + Occurrences(events, E("ConfigureEndpoint"))
    BY <1>1, <1>3, CountUnion
  <2>2. Occurrences(events, E("EnableSlot") \cup E("AddressDevice")) =
          Occurrences(events, E("EnableSlot")) + Occurrences(events, E("AddressDevice"))
    BY <1>1, <1>3, CountUnion
  <2> QED
    BY <2>1, <2>2
<1>6. Occurrences(cmds, Command) = Len(cmds)
  <2>1. Matches(cmds, Command) = 1..Len(cmds)
    BY <1>1 DEF Matches
  <2>2. Cardinality(1..Len(cmds)) = IF 1 > Len(cmds) THEN 0 ELSE Len(cmds) - 1 + 1
    <3>1. 1 \in Int /\ Len(cmds) \in Int
      BY <1>1
    <3> QED
      BY <3>1, FS_Interval, Zenon
  <2> QED
    BY <1>1, <2>1, <2>2 DEF Occurrences
<1>7. {i \in 1..Len(events) : events[i].type = "CommandCompletion"} =
        Matches(events, (E("EnableSlot") \cup E("AddressDevice")) \cup E("ConfigureEndpoint"))
  <2>1. \A i \in 1..Len(events) : events[i] \in Event
    BY <1>1
  <2> QED
    BY <2>1, <1>3 DEF Matches
<1>8. \A type : Flight(cmds, events, type, SlotIds)
                  = Occurrences(cmds, C(type)) + Occurrences(events, E(type))
  BY DEF Flight, C, E
<1>9. \A S : Occurrences(cmds, S) \in Nat /\ Occurrences(events, S) \in Nat
  BY <1>1, CountType
<1>10. /\ Occurrences(cmds, C("EnableSlot")) \in Nat /\ Occurrences(cmds, C("AddressDevice")) \in Nat
       /\ Occurrences(cmds, C("ConfigureEndpoint")) \in Nat
       /\ Occurrences(events, E("EnableSlot")) \in Nat
       /\ Occurrences(events, E("AddressDevice")) \in Nat
       /\ Occurrences(events, E("ConfigureEndpoint")) \in Nat
  BY <1>9
<1>11. Len(cmds) + Cardinality({i \in 1..Len(events) : events[i].type = "CommandCompletion"})
         = Occurrences(cmds, C("EnableSlot")) + Occurrences(cmds, C("AddressDevice"))
             + Occurrences(cmds, C("ConfigureEndpoint"))
             + (Occurrences(events, E("EnableSlot")) + Occurrences(events, E("AddressDevice"))
                  + Occurrences(events, E("ConfigureEndpoint")))
  BY <1>4, <1>5, <1>6, <1>7 DEF Occurrences
<1> QED
  BY <1>8, <1>10, <1>11

(* The command ring cannot overrun as long as it holds kDeviceSize + 1     *)
(* TRBs: Ring::Push tests for no full ring, and a command TRB is read      *)
(* again when its completion is handled.                                   *)
THEOREM RingSuffices == Spec => []CommandRingBound
<1>1. Inv /\ Flown => CommandRingBound
  <2> SUFFICES ASSUME Inv, Flown PROVE CommandRingBound
    OBVIOUS
  <2>1. \A type : Flight(cmds, events, type, SlotIds) \in Nat
    BY CountsAreNat DEF Inv, TypeOK
  <2>2. Flight(cmds, events, "ConfigureEndpoint", SlotIds) <= kDeviceSize
    BY ConfigureFlight
  <2>3. Flight(cmds, events, "EnableSlot", SlotIds)
          + Flight(cmds, events, "AddressDevice", SlotIds) <= 1
    BY <2>1 DEF Flown, Addressing
  <2>4. Len(cmds) + Cardinality({i \in 1..Len(events) : events[i].type = "CommandCompletion"})
          = Flight(cmds, events, "EnableSlot", SlotIds)
              + Flight(cmds, events, "AddressDevice", SlotIds)
              + Flight(cmds, events, "ConfigureEndpoint", SlotIds)
    BY AllFlight DEF Inv
  <2> QED
    BY <2>1, <2>2, <2>3, <2>4, DeviceSizeAssumption DEF CommandRingBound
<1> QED
  BY <1>1, SpecInv, SpecFlown, PTL

-----------------------------------------------------------------------------
(* The third invariant: as long as nothing was unplugged and nothing       *)
(* failed, no port with a device is forgotten.                             *)

(* A Port Status Change event for port p among e.                          *)
Pending(e, p) == \E i \in 1..Len(e) : e[i].type = "PortStatusChange" /\ e[i].port = p

(* A port whose register has a bit set or whose phase has moved has a      *)
(* device.                                                                 *)
Wired ==
    \A p \in Ports :
      (portsc[p] # {} \/ port_config_phase[p] # "kNotConnected") => "ccs" \in portsc[p]

Seen == faults = 0 => Wired /\ NoIdleWaiter /\ NoMissedPlug

(* An event that is posted stays until it is popped.                       *)
LEMMA PendingConcat ==
    ASSUME NEW e \in Seq(Event), NEW f \in Seq(Event), NEW p, Pending(e, p)
    PROVE  Pending(e \o f, p)
<1>1. PICK i \in 1..Len(e) : e[i].type = "PortStatusChange" /\ e[i].port = p
  BY DEF Pending
<1>2. /\ Len(e) \in Nat /\ Len(f) \in Nat /\ Len(e \o f) = Len(e) + Len(f)
      /\ \A j \in 1..Len(e) : (e \o f)[j] = e[j]
  BY LenProperties, ConcatProperties
<1>3. i \in 1..Len(e \o f) /\ (e \o f)[i] = e[i]
  BY <1>2
<1> QED
  BY <1>1, <1>3 DEF Pending

(* The same for a single event, which is pending itself.                   *)
LEMMA PendingAppend ==
    ASSUME NEW e \in Seq(Event), NEW x \in Event, NEW p
    PROVE  /\ Pending(e, p) => Pending(Append(e, x), p)
           /\ x.type = "PortStatusChange" /\ x.port = p => Pending(Append(e, x), p)
<1>1. /\ Len(e) \in Nat /\ Len(Append(e, x)) = Len(e) + 1
      /\ \A j \in 1..Len(e) : Append(e, x)[j] = e[j]
      /\ Append(e, x)[Len(e) + 1] = x
  BY LenProperties, AppendProperties
<1>2. ASSUME Pending(e, p) PROVE Pending(Append(e, x), p)
  <2>1. PICK i \in 1..Len(e) : e[i].type = "PortStatusChange" /\ e[i].port = p
    BY <1>2 DEF Pending
  <2>2. i \in 1..Len(Append(e, x)) /\ Append(e, x)[i] = e[i]
    BY <1>1
  <2> QED
    BY <2>1, <2>2 DEF Pending
<1>3. ASSUME x.type = "PortStatusChange", x.port = p PROVE Pending(Append(e, x), p)
  <2>1. Len(e) + 1 \in 1..Len(Append(e, x))
    BY <1>1
  <2> QED
    BY <1>1, <1>3, <2>1 DEF Pending
<1> QED
  BY <1>2, <1>3

(* Popping another event leaves it pending.                                *)
LEMMA PendingTail ==
    ASSUME NEW e \in Seq(Event), e # <<>>, NEW p, Pending(e, p),
           ~(Head(e).type = "PortStatusChange" /\ Head(e).port = p)
    PROVE  Pending(Tail(e), p)
<1>1. PICK i \in 1..Len(e) : e[i].type = "PortStatusChange" /\ e[i].port = p
  BY DEF Pending
<1>2. /\ Len(e) \in Nat \ {0} /\ Head(e) = e[1] /\ Len(Tail(e)) = Len(e) - 1
      /\ \A j \in 1..(Len(e) - 1) : Tail(e)[j] = e[j + 1]
  BY LenProperties, HeadTailProperties, EmptySeq
<1>3. i # 1
  BY <1>1, <1>2
<1>4. i - 1 \in 1..Len(Tail(e)) /\ Tail(e)[i - 1] = e[i]
  BY <1>2, <1>3
<1> QED
  BY <1>1, <1>4 DEF Pending

(* What a step has to show.                                                *)
LEMMA SeenStep ==
    ASSUME Inv, Inv', Seen, Advances(port_config_phase, port_config_phase'),
           faults' = 0 => faults = 0,
           \A p \in Ports : "ccs" \in portsc'[p] <=> "ccs" \in portsc[p],
           \A p \in Ports : portsc[p] = {} => portsc'[p] = {},
           \A p \in Ports : port_config_phase[p] = "kNotConnected" =>
             \/ "ccs" \in portsc[p]
             \/ port_config_phase'[p] = "kNotConnected",
           \A p \in Ports : port_config_phase'[p] = "kNotConnected" /\ "ccs" \in portsc[p] =>
             /\ scan <= p => scan' <= p
             /\ Pending(events, p) => Pending(events', p),
           addressing_port' = 0 =>
             \/ \A p \in Ports : port_config_phase'[p] # "kWaitingAddressed"
             \/ /\ addressing_port = 0
                /\ \A p \in Ports : port_config_phase'[p] = "kWaitingAddressed" =>
                                      port_config_phase[p] = "kWaitingAddressed"
    PROVE  Seen'
<1> SUFFICES ASSUME faults' = 0 PROVE Wired' /\ NoIdleWaiter' /\ NoMissedPlug'
  BY DEF Seen
<1>1. Wired /\ NoIdleWaiter /\ NoMissedPlug
  BY DEF Seen
<1>2. Wired'
  BY <1>1 DEF Wired
<1>3. NoIdleWaiter'
  BY <1>1 DEF NoIdleWaiter
<1>4. \A p \in Ports : port_config_phase'[p] = "kNotConnected" => port_config_phase[p] = "kNotConnected"
  <2> SUFFICES ASSUME NEW p \in Ports, port_config_phase'[p] = "kNotConnected"
               PROVE  port_config_phase[p] = "kNotConnected"
    OBVIOUS
  <2>1. Rank(port_config_phase[p]) <= 0
    BY DEF Advances, Rank
  <2>2. port_config_phase[p] \in ConfigPhase
    BY DEF Inv, TypeOK, Ports
  <2> QED
    BY <2>1, <2>2 DEF Rank, ConfigPhase
<1>5. NoMissedPlug'
  <2> SUFFICES ASSUME NEW p \in Ports, port_config_phase'[p] = "kNotConnected", "ccs" \in portsc'[p]
               PROVE  scan' <= p \/ Pending(events', p)
    BY DEF NoMissedPlug, Pending
  <2>1. scan <= p \/ Pending(events, p)
    BY <1>1, <1>4 DEF NoMissedPlug, Pending
  <2> QED
    BY <2>1
<1> QED
  BY <1>2, <1>3, <1>5

(* A step that leaves the ports alone and keeps the events of the ports    *)
(* the driver does not know of.                                            *)
LEMMA SeenKept ==
    ASSUME Inv, Inv', Seen, UNCHANGED <<scan, addressing_port, port_config_phase, portsc>>,
           faults' = 0 => faults = 0,
           \A p \in Ports : port_config_phase[p] = "kNotConnected" /\ Pending(events, p)
                              => Pending(events', p)
    PROVE  Seen'
<1>1. Advances(port_config_phase, port_config_phase')
  BY PhasesUnchanged DEF PhasesStep
<1> QED
  BY <1>1, SeenStep

(* Posting an event that is about no port.                                 *)
LEMMA PostSeen ==
    ASSUME Inv, Inv', Seen, UNCHANGED <<scan, addressing_port, port_config_phase, portsc>>,
           faults' = 0 => faults = 0, NEW x \in Event, events' = Append(events, x)
    PROVE  Seen'
<1>1. \A p \in Ports : Pending(events, p) => Pending(events', p)
  BY PendingAppend DEF Inv, TypeOK
<1> QED
  BY <1>1, SeenKept

(* A fault is never taken back.                                            *)
LEMMA MayFailSeen ==
    ASSUME Inv, NEW failed \in BOOLEAN, MayFail(failed)
    PROVE  faults' = 0 => faults = 0
  BY DEF MayFail, Inv, TypeOK

(* Popping an event of no port, or of one the driver knows of.             *)
LEMMA PopSeen ==
    ASSUME Inv, NEW type, EventFront(type),
           type = "PortStatusChange" => port_config_phase[Head(events).port] # "kNotConnected"
    PROVE  \A p \in Ports : port_config_phase[p] = "kNotConnected" /\ Pending(events, p)
                              => Pending(Tail(events), p)
<1>1. events \in Seq(Event) /\ events # <<>> /\ Head(events).type = type
  BY DEF EventFront, Inv, TypeOK
<1> QED
  BY <1>1, PendingTail

(* A handler that only returns an error.                                   *)
LEMMA FailSeen ==
    ASSUME Inv, Inv', Seen, NEW type, EventFront(type), NEW code, Fail(code),
           type = "PortStatusChange" => port_config_phase[Head(events).port] # "kNotConnected"
    PROVE  Seen'
<1>1. \A p \in Ports : port_config_phase[p] = "kNotConnected" /\ Pending(events, p)
                              => Pending(Tail(events), p)
  BY PopSeen
<1> QED
  BY <1>1, SeenKept DEF Fail, hcVars

(* The steps of the environment.                                           *)
LEMMA HcCommandSeen ==
    ASSUME Inv, Inv', Seen, HcCommand
    PROVE  Seen'
<1>1. CASE HcEnableSlot
  <2>1. PICK s \in (IF FreeSlots = {} THEN {0} ELSE FreeSlots) :
           events' = Append(events, Completion("EnableSlot", s))
    BY <1>1 DEF HcEnableSlot
  <2>2. Completion("EnableSlot", s) \in Event
    BY CompletionType DEF FreeSlots, SlotIds, CommandType
  <2> QED
    BY <1>1, <2>1, <2>2, PostSeen DEF HcEnableSlot, driverVars
<1>2. CASE HcAddressDevice
  <2>1. Completion("AddressDevice", Head(cmds).slot) \in Event
    BY <1>2, CommandFrontType, CompletionType DEF HcAddressDevice, CommandType
  <2>2. faults' = 0 => faults = 0
    BY <1>2, MayFailSeen DEF HcAddressDevice
  <2> QED
    BY <1>2, <2>1, <2>2, PostSeen DEF HcAddressDevice
<1>3. CASE HcConfigureEndpoint
  <2>1. Completion("ConfigureEndpoint", Head(cmds).slot) \in Event
    BY <1>3, CommandFrontType, CompletionType DEF HcConfigureEndpoint, CommandType
  <2>2. faults' = 0 => faults = 0
    BY <1>3, MayFailSeen DEF HcConfigureEndpoint
  <2> QED
    BY <1>3, <2>1, <2>2, PostSeen DEF HcConfigureEndpoint, driverVars
<1> QED
  BY <1>1, <1>2, <1>3 DEF HcCommand

(* The events of transfers are about no port.                              *)
LEMMA HcTransferSeen ==
    ASSUME Inv, Inv', Seen, NEW s \in SlotIds, HcControlTransfer(s) \/ HcInterruptTransfer(s)
    PROVE  Seen'
<1>1. CASE HcControlTransfer(s)
  <2>1. PICK result \in TransferResult :
           /\ MayFail(result # "ok" /\ Reachable(s))
           /\ events' = Append(events, Transferred(s, Head(ep0[s]), result))
    BY <1>1 DEF HcControlTransfer
  <2>2. Head(ep0[s]) \in ControlRequest
    BY <1>1, HeadTailProperties DEF HcControlTransfer, Inv, TypeOK
  <2>3. Transferred(s, Head(ep0[s]), result) \in Event
    BY <2>2, TransferredType
  <2>4. faults' = 0 => faults = 0
    BY <2>1, MayFailSeen DEF Reachable
  <2> QED
    BY <1>1, <2>1, <2>3, <2>4, PostSeen DEF HcControlTransfer, driverVars
<1>2. CASE HcInterruptTransfer(s)
  <2>1. PICK result \in {"ok", "failed"} :
           /\ MayFail(result = "failed" /\ Reachable(s))
           /\ events' = Append(events, Transferred(s, "Normal", result))
    BY <1>2 DEF HcInterruptTransfer
  <2>2. Transferred(s, "Normal", result) \in Event
    BY TransferredType DEF TransferResult
  <2>3. faults' = 0 => faults = 0
    BY <2>1, MayFailSeen DEF Reachable
  <2> QED
    BY <1>2, <2>1, <2>2, <2>3, PostSeen DEF HcInterruptTransfer, driverVars
<1> QED
  BY <1>1, <1>2

(* A device that is plugged in is announced: no change bit was set before. *)
LEMMA PlugSeen ==
    ASSUME Inv, Inv', Seen, NEW p \in Ports, Plug(p) \/ Unplug(p)
    PROVE  Seen'
<1>1. CASE Unplug(p)
  <2>1. faults' # 0
    BY <1>1 DEF Unplug, Inv, TypeOK
  <2> QED
    BY <2>1 DEF Seen
<1>2. CASE Plug(p)
  <2>1. /\ UNCHANGED <<scan, addressing_port, port_config_phase, faults>>
        /\ portsc' = [portsc EXCEPT ![p] = portsc[p] \cup {"ccs", "csc"}]
        /\ events' = events \o PortStatusChange(p, portsc[p])
        /\ "ccs" \notin portsc[p]
    BY <1>2 DEF Plug, driverVars, Inv, TypeOK
  <2>2. portsc \in [Ports -> SUBSET PortBits] /\ events \in Seq(Event)
    BY DEF Inv, TypeOK
  <2>3. "ccs" \in portsc'[p] /\ \A q \in Ports \ {p} : portsc'[q] = portsc[q]
    BY <2>1, <2>2
  <2> SUFFICES ASSUME faults = 0 PROVE Wired' /\ NoIdleWaiter' /\ NoMissedPlug'
    BY <2>1 DEF Seen
  <2>4. Wired /\ NoIdleWaiter /\ NoMissedPlug
    BY DEF Seen
  <2>5. portsc[p] = {} /\ port_config_phase[p] = "kNotConnected"
    BY <2>1, <2>4 DEF Wired
  <2>6. Wired'
    BY <2>1, <2>3, <2>4 DEF Wired
  <2>7. NoIdleWaiter'
    BY <2>1, <2>3, <2>4, <2>5 DEF NoIdleWaiter
  <2> DEFINE x == [type |-> "PortStatusChange", port |-> p]
  <2>8. x \in Event /\ x.type = "PortStatusChange" /\ x.port = p
    BY DEF Event, PortStatusChangeEvent
  <2>9. events' = Append(events, x)
    <3>1. PortStatusChange(p, portsc[p]) = <<x>>
      BY <2>5 DEF PortStatusChange
    <3> HIDE DEF x
    <3>2. events \o <<x>> = Append(events, x)
      BY <2>2, <2>8
    <3> QED
      BY <2>1, <3>1, <3>2
  <2> HIDE DEF x
  <2>10. Pending(events', p) /\ \A q \in Ports : Pending(events, q) => Pending(events', q)
    BY <2>2, <2>8, <2>9, PendingAppend
  <2>11. NoMissedPlug'
    <3> SUFFICES ASSUME NEW q \in Ports, port_config_phase'[q] = "kNotConnected", "ccs" \in portsc'[q]
                 PROVE  scan' <= q \/ Pending(events', q)
      BY DEF NoMissedPlug, Pending
    <3>1. CASE q = p
      BY <3>1, <2>10
    <3>2. CASE q # p
      <4>1. scan <= q \/ Pending(events, q)
        BY <3>2, <2>1, <2>3, <2>4 DEF NoMissedPlug, Pending
      <4> QED
        BY <4>1, <2>1, <2>10
    <3> QED
      BY <3>1, <3>2
  <2> QED
    BY <2>6, <2>7, <2>11
<1> QED
  BY <1>1, <1>2

(* Resetting connected ports connects and disconnects none.                *)
LEMMA PortscAfterKeeps ==
    ASSUME Inv, NEW resets, \A p \in resets : "ccs" \in portsc[p]
    PROVE  \A p \in Ports : /\ "ccs" \in PortscAfter(resets)[p] <=> "ccs" \in portsc[p]
                            /\ portsc[p] = {} => PortscAfter(resets)[p] = {}
<1> SUFFICES ASSUME NEW p \in Ports
             PROVE  /\ "ccs" \in PortscAfter(resets)[p] <=> "ccs" \in portsc[p]
                    /\ portsc[p] = {} => PortscAfter(resets)[p] = {}
  OBVIOUS
<1>1. PortscAfter(resets)[p] = IF p \in resets THEN PortReset(portsc[p]) ELSE portsc[p]
  BY DEF PortscAfter
<1>2. "ccs" \in PortReset(portsc[p]) <=> "ccs" \in portsc[p]
  BY DEF PortReset, ResetWrite, PortscWrite, WriteOneClears
<1> QED
  BY <1>1, <1>2

(* ResetPort of a port the driver does not know of, whose event is popped  *)
(* or whose turn in the boot loop is over.                                 *)
LEMMA ResetSeen ==
    ASSUME Inv, Inv', Seen, NEW p \in Ports, port_config_phase[p] = "kNotConnected",
           NEW rest \in Seq(Event),
           ApplyReset(ResetPort(p, addressing_port, port_config_phase), rest),
           faults' = faults,
           \A q \in Ports \ {p} : /\ scan <= q => scan' <= q
                                  /\ Pending(events, q) => Pending(rest, q)
    PROVE  Seen'
<1> DEFINE r == ResetPort(p, addressing_port, port_config_phase)
<1>1. /\ addressing_port' = r.ap /\ port_config_phase' = r.phase
      /\ portsc' = PortscAfter(r.resets) /\ events' = rest \o EventsAfter(r.resets)
  BY DEF ApplyReset
<1>2. /\ Advances(port_config_phase, r.phase) /\ r.resets \in SUBSET Ports
      /\ \A q \in Ports \ {p} : r.phase[q] = port_config_phase[q]
  BY InvGoodPhases, ResetPortGood
<1>3. /\ port_config_phase \in [0..MaxPorts -> ConfigPhase] /\ p \in 0..MaxPorts /\ p # 0
  BY SMTT(30) DEF Inv, TypeOK, Ports
<1> DEFINE waiting == [port_config_phase EXCEPT ![p] = "kWaitingAddressed"]
           resetting == [port_config_phase EXCEPT ![p] = "kResettingPort"]
<1>4. \/ /\ "ccs" \notin portsc[p]
         /\ r = [ap |-> addressing_port, phase |-> port_config_phase, resets |-> {}, err |-> "SUCCESS"]
      \/ /\ "ccs" \in portsc[p] /\ addressing_port # 0
         /\ r = [ap |-> addressing_port, phase |-> waiting, resets |-> {}, err |-> "SUCCESS"]
      \/ /\ "ccs" \in portsc[p] /\ addressing_port = 0
         /\ r = [ap |-> p, phase |-> resetting, resets |-> {p}, err |-> "SUCCESS"]
  BY DEF ResetPort, ResetPortResult
<1> HIDE DEF r
<1>5. \/ /\ "ccs" \notin portsc[p]
         /\ r.ap = addressing_port /\ r.phase = port_config_phase /\ r.resets = {}
      \/ /\ "ccs" \in portsc[p] /\ r.ap # 0 /\ r.resets \subseteq {p}
         /\ r.phase[p] # "kNotConnected"
  <2>1. waiting[p] = "kWaitingAddressed" /\ resetting[p] = "kResettingPort"
    BY <1>3
  <2> HIDE DEF waiting, resetting
  <2> QED
    BY <1>3, <1>4, <2>1
<1>6. EventsAfter(r.resets) \in Seq(Event)
  BY <1>2, EventsAfterType
<1>7. \A q \in Ports : Pending(rest, q) => Pending(events', q)
  BY <1>1, <1>6, PendingConcat
<1>8. \A q \in Ports : /\ "ccs" \in portsc'[q] <=> "ccs" \in portsc[q]
                       /\ portsc[q] = {} => portsc'[q] = {}
  <2>1. \A q \in r.resets : "ccs" \in portsc[q]
    BY <1>5
  <2> QED
    BY <1>1, <2>1, PortscAfterKeeps
<1>9. \A q \in Ports : port_config_phase[q] = "kNotConnected" =>
         "ccs" \in portsc[q] \/ port_config_phase'[q] = "kNotConnected"
  BY <1>1, <1>2, <1>5
<1>10. \A q \in Ports : port_config_phase'[q] = "kNotConnected" /\ "ccs" \in portsc[q] =>
         (scan <= q => scan' <= q) /\ (Pending(events, q) => Pending(events', q))
  <2>1. \A q \in Ports : port_config_phase'[q] = "kNotConnected" /\ "ccs" \in portsc[q] => q # p
    BY <1>1, <1>5
  <2> QED
    BY <2>1, <1>7
<1>11. addressing_port' = 0 =>
         /\ addressing_port = 0
         /\ \A q \in Ports : port_config_phase'[q] = port_config_phase[q]
  BY <1>1, <1>5
<1>12. Advances(port_config_phase, port_config_phase')
  BY <1>1, <1>2
<1> QED
  BY <1>8, <1>9, <1>10, <1>11, <1>12, SeenStep

(* The boot loop passes a port only after it has looked at it.             *)
LEMMA ConfigurePortSeen ==
    ASSUME Inv, Inv', Seen, ConfigurePort
    PROVE  Seen'
<1>1. scan \in Ports /\ scan' = scan + 1 /\ faults' = faults /\ events \in Seq(Event)
  BY DEF Inv, TypeOK, ConfigurePort, Ports
<1>2. \A q \in Ports \ {scan} : scan <= q => scan' <= q
  BY <1>1 DEF Ports
<1>3. CASE "ccs" \in portsc[scan] /\ port_config_phase[scan] = "kNotConnected"
  <2>1. ApplyReset(ResetPort(scan, addressing_port, port_config_phase), events)
    BY <1>3 DEF ConfigurePort
  <2> QED
    BY <1>1, <1>2, <1>3, <2>1, ResetSeen
<1>4. CASE ~("ccs" \in portsc[scan] /\ port_config_phase[scan] = "kNotConnected")
  <2>1. UNCHANGED <<addressing_port, port_config_phase, portsc, events>>
    BY <1>4 DEF ConfigurePort
  <2>2. Advances(port_config_phase, port_config_phase')
    BY <2>1, PhasesUnchanged DEF PhasesStep
  <2> QED
    BY <1>1, <1>2, <1>4, <2>1, <2>2, SeenStep
<1> QED
  BY <1>3, <1>4

(* The event of a port is popped only when the port is looked at.          *)
LEMMA OnPortStatusChangeSeen ==
    ASSUME Inv, Inv', Seen, OnPortStatusChange
    PROVE  Seen'
<1>1. PICK p : p = Head(events).port
  OBVIOUS
<1>2. EventFront("PortStatusChange") /\ events \in Seq(Event) /\ events # <<>>
  BY DEF OnPortStatusChange, EventFront, Inv, TypeOK
<1>3. p \in Ports /\ Tail(events) \in Seq(Event)
  BY <1>1, <1>2, FrontType DEF Event, PortStatusChangeEvent, CommandCompletionEvent, TransferEvent
<1>4. CASE port_config_phase[p] = "kNotConnected"
  <2>1. /\ ApplyReset(ResetPort(p, addressing_port, port_config_phase), Tail(events))
        /\ UNCHANGED <<scan, faults>>
    BY <1>1, <1>4 DEF OnPortStatusChange
  <2>2. \A q \in Ports \ {p} : Pending(events, q) => Pending(Tail(events), q)
    BY <1>1, <1>2, PendingTail
  <2> QED
    BY <1>3, <1>4, <2>1, <2>2, ResetSeen
<1>5. CASE port_config_phase[p] = "kResettingPort"
  <2>1. EnableSlot(p)
    BY <1>1, <1>5 DEF OnPortStatusChange
  <2>2. /\ UNCHANGED <<scan, addressing_port, faults>> /\ events' = Tail(events)
        /\ \/ UNCHANGED <<portsc, port_config_phase>>
           \/ /\ portsc' = [portsc EXCEPT ![p] = ClearPortResetChange(portsc[p])]
              /\ port_config_phase' = [port_config_phase EXCEPT ![p] = "kEnablingSlot"]
    BY <1>3, <2>1 DEF EnableSlot, Inv, TypeOK
  <2>3. portsc \in [Ports -> SUBSET PortBits] /\ port_config_phase \in [0..MaxPorts -> ConfigPhase]
    BY DEF Inv, TypeOK
  <2>4. Advances(port_config_phase, port_config_phase')
    BY OnPortStatusChangeStep DEF Step
  <2>5. \A q \in Ports : port_config_phase[q] = "kNotConnected" /\ Pending(events, q)
                           => Pending(events', q)
    BY <1>1, <1>2, <1>5, <2>2, PopSeen
  <2>6. /\ "ccs" \in ClearPortResetChange(portsc[p]) <=> "ccs" \in portsc[p]
        /\ portsc[p] = {} => ClearPortResetChange(portsc[p]) = {}
    BY DEF ClearPortResetChange, PortscWrite, WriteOneClears
  <2>7. \A q \in Ports : /\ "ccs" \in portsc'[q] <=> "ccs" \in portsc[q]
                         /\ portsc[q] = {} => portsc'[q] = {}
    BY <2>2, <2>3, <2>6, <1>3
  <2>8. \A q \in Ports : \/ port_config_phase'[q] = port_config_phase[q]
                         \/ /\ port_config_phase[q] = "kResettingPort"
                            /\ port_config_phase'[q] = "kEnablingSlot"
    BY <2>2, <2>3, <1>5 DEF Ports
  <2> QED
    BY <2>2, <2>4, <2>5, <2>7, <2>8, SeenStep
<1>6. CASE port_config_phase[p] \notin {"kNotConnected", "kResettingPort"}
  <2>1. Fail("INVALID_PHASE")
    BY <1>1, <1>6 DEF OnPortStatusChange
  <2> QED
    BY <1>1, <1>2, <1>6, <2>1, FailSeen
<1> QED
  BY <1>4, <1>5, <1>6

(* A handler that moves a known port along.                                *)
LEMMA MoveSeen ==
    ASSUME Inv, Inv', Seen, Step, UNCHANGED <<scan, addressing_port, portsc, faults>>,
           NEW type, EventFront(type), type # "PortStatusChange", events' = Tail(events),
           \A q \in Ports : \/ port_config_phase'[q] = port_config_phase[q]
                            \/ /\ port_config_phase[q] # "kNotConnected"
                               /\ port_config_phase'[q] \notin {"kNotConnected", "kWaitingAddressed"}
    PROVE  Seen'
<1>1. Advances(port_config_phase, port_config_phase')
  BY DEF Step
<1>2. \A q \in Ports : port_config_phase[q] = "kNotConnected" /\ Pending(events, q)
                         => Pending(events', q)
  BY PopSeen
<1> QED
  BY <1>1, <1>2, SeenStep

(* The addressing port moves along.                                        *)
LEMMA OnEnableSlotCompletedSeen ==
    ASSUME Inv, Inv', Seen, OnEnableSlotCompleted
    PROVE  Seen'
<1>1. EventFront("CommandCompletion") /\ Step
  BY OnEnableSlotCompletedStep DEF OnEnableSlotCompleted
<1>2. CASE port_config_phase[addressing_port] = "kEnablingSlot"
  <2>1. /\ UNCHANGED <<scan, addressing_port, portsc, faults>> /\ events' = Tail(events)
        /\ port_config_phase' = [port_config_phase EXCEPT ![addressing_port] = "kAddressingDevice"]
    BY <1>2 DEF OnEnableSlotCompleted, AddressDevice, hcVars
  <2>2. port_config_phase \in [0..MaxPorts -> ConfigPhase]
    BY DEF Inv, TypeOK
  <2>3. \A q \in Ports : \/ port_config_phase'[q] = port_config_phase[q]
                         \/ /\ port_config_phase[q] # "kNotConnected"
                            /\ port_config_phase'[q] \notin {"kNotConnected", "kWaitingAddressed"}
    BY <1>2, <2>1, <2>2 DEF Ports
  <2> QED
    BY <1>1, <2>1, <2>3, MoveSeen
<1>3. CASE port_config_phase[addressing_port] # "kEnablingSlot"
  <2>1. Fail("INVALID_PHASE")
    BY <1>3 DEF OnEnableSlotCompleted
  <2> QED
    BY <1>1, <2>1, FailSeen
<1> QED
  BY <1>2, <1>3

(* The port of the device moves along.                                     *)
LEMMA OnConfigureEndpointCompletedSeen ==
    ASSUME Inv, Inv', Seen, OnConfigureEndpointCompleted
    PROVE  Seen'
<1>1. EventFront("CommandCompletion") /\ Step
  BY OnConfigureEndpointCompletedStep DEF OnConfigureEndpointCompleted
<1>2. PICK p : p = devices[Head(events).slot].ctx_port
  OBVIOUS
<1>3. \/ Fail("INVALID_SLOT_ID") \/ Fail("INVALID_PHASE")
      \/ /\ port_config_phase[p] = "kConfiguringEndpoints"
         /\ CompleteConfiguration(p, Head(events).slot)
  BY <1>2 DEF OnConfigureEndpointCompleted
<1>4. CASE Fail("INVALID_SLOT_ID") \/ Fail("INVALID_PHASE")
  BY <1>1, <1>4, FailSeen
<1>5. CASE /\ port_config_phase[p] = "kConfiguringEndpoints"
           /\ CompleteConfiguration(p, Head(events).slot)
  <2>1. /\ UNCHANGED <<scan, addressing_port, portsc, faults>> /\ events' = Tail(events)
        /\ port_config_phase' = [port_config_phase EXCEPT ![p] = "kConfigured"]
    BY <1>5 DEF CompleteConfiguration, hcVars
  <2>2. port_config_phase \in [0..MaxPorts -> ConfigPhase]
    BY DEF Inv, TypeOK
  <2>3. \A q \in Ports : \/ port_config_phase'[q] = port_config_phase[q]
                         \/ /\ port_config_phase[q] # "kNotConnected"
                            /\ port_config_phase'[q] \notin {"kNotConnected", "kWaitingAddressed"}
    BY <1>5, <2>1, <2>2 DEF Ports
  <2> QED
    BY <1>1, <2>1, <2>3, MoveSeen
<1> QED
  BY <1>3, <1>4, <1>5

(* The port of an initialised device moves along.                          *)
LEMMA OnTransferSeen ==
    ASSUME Inv, Inv', Seen, OnTransfer
    PROVE  Seen'
<1> DEFINE s == Head(events).slot
           r == OnTransferEventReceived(devices[s], Head(events), endpoints[devices[s].in_port])
<1>1. EventFront("Transfer") /\ Step
  BY OnTransferStep DEF OnTransfer
<1>2. CASE ~Allocated(devices[s])
  <2>1. Fail("INVALID_SLOT_ID")
    BY <1>2 DEF OnTransfer
  <2> QED
    BY <1>1, <2>1, FailSeen
<1>3. CASE Allocated(devices[s])
  <2>1. PICK p : p = r.dev.ctx_port
    OBVIOUS
  <2>2. /\ UNCHANGED <<scan, addressing_port, portsc, faults>> /\ events' = Tail(events)
        /\ \/ UNCHANGED port_config_phase
           \/ /\ port_config_phase[p] = "kInitializingDevice"
              /\ port_config_phase' = [port_config_phase EXCEPT ![p] = "kConfiguringEndpoints"]
    <3> HIDE DEF r
    <3>1. /\ events' = Tail(events) /\ UNCHANGED <<scan, addressing_port, dcbaa, hcVars>>
          /\ IF r.err = "SUCCESS" /\ ReadyToConfigure(r.dev)
             THEN \E speed_known \in BOOLEAN : ConfigureEndpoints(r.dev, s, speed_known)
             ELSE UNCHANGED port_config_phase
      BY <1>3 DEF OnTransfer, r
    <3> QED
      BY <3>1, <2>1 DEF ConfigureEndpoints, ReadyToConfigure, hcVars
  <2>3. port_config_phase \in [0..MaxPorts -> ConfigPhase]
    BY DEF Inv, TypeOK
  <2>4. \A q \in Ports : \/ port_config_phase'[q] = port_config_phase[q]
                         \/ /\ port_config_phase[q] # "kNotConnected"
                            /\ port_config_phase'[q] \notin {"kNotConnected", "kWaitingAddressed"}
    BY <2>2, <2>3 DEF Ports
  <2> QED
    BY <1>1, <2>2, <2>4, MoveSeen
<1> QED
  BY <1>2, <1>3

(* When an address is assigned, the first waiting port takes over: it is   *)
(* connected, so ResetPort resets it.                                      *)
LEMMA ResetFirstWaitingSeen ==
    ASSUME Inv, Wired
    PROVE  LET r == ResetFirstWaiting(port_config_phase) IN
           /\ \A q \in r.resets : "ccs" \in portsc[q]
           /\ r.ap = 0 => /\ r.phase = port_config_phase
                          /\ \A q \in Ports : port_config_phase[q] # "kWaitingAddressed"
           /\ \A q \in Ports : \/ r.phase[q] = port_config_phase[q]
                               \/ /\ port_config_phase[q] = "kWaitingAddressed"
                                  /\ r.phase[q] = "kResettingPort"
<1> DEFINE W == WaitingPorts(port_config_phase)
           r == ResetFirstWaiting(port_config_phase)
<1>1. CASE W = {}
  <2>1. r = [ap |-> 0, phase |-> port_config_phase, resets |-> {}, err |-> "SUCCESS"]
    BY <1>1 DEF ResetFirstWaiting, ResetPortResult
  <2>2. \A q \in Ports : port_config_phase[q] # "kWaitingAddressed"
    BY <1>1 DEF WaitingPorts
  <2> QED
    BY <2>1, <2>2
<1>2. CASE W # {}
  <2>1. PICK w : w = Min(W)
    OBVIOUS
  <2>2. W \in SUBSET Nat
    BY DEF WaitingPorts, Ports
  <2>3. w \in W
    BY <2>1, <2>2, <1>2, MinInSet
  <2>4. /\ w \in Ports /\ port_config_phase[w] = "kWaitingAddressed" /\ w # 0 /\ w \in 0..MaxPorts
        /\ "ccs" \in portsc[w]
    BY <2>3 DEF WaitingPorts, Wired, Ports
  <2>5. r = [ap |-> w, phase |-> [port_config_phase EXCEPT ![w] = "kResettingPort"],
             resets |-> {w}, err |-> "SUCCESS"]
    BY <1>2, <2>1, <2>4 DEF ResetFirstWaiting, ResetPort, ResetPortResult
  <2>6. port_config_phase \in [0..MaxPorts -> ConfigPhase]
    BY DEF Inv, TypeOK
  <2> DEFINE new == [port_config_phase EXCEPT ![w] = "kResettingPort"]
  <2>7. \A q \in Ports : \/ new[q] = port_config_phase[q]
                         \/ /\ port_config_phase[q] = "kWaitingAddressed"
                            /\ new[q] = "kResettingPort"
    BY <2>4, <2>6 DEF Ports
  <2> HIDE DEF new
  <2>8. r.ap = w /\ r.phase = new /\ r.resets = {w}
    BY <2>5 DEF new
  <2> QED
    BY <2>4, <2>7, <2>8
<1> QED
  BY <1>1, <1>2

(* The port moves along and a waiting one takes its place.                 *)
LEMMA OnAddressDeviceCompletedSeen ==
    ASSUME Inv, Inv', Seen, OnAddressDeviceCompleted
    PROVE  Seen'
<1> DEFINE s == Head(events).slot
           r == ResetFirstWaiting(port_config_phase)
<1>1. EventFront("CommandCompletion") /\ Step
  BY OnAddressDeviceCompletedStep DEF OnAddressDeviceCompleted
<1>2. PICK p : p = devices[s].ctx_port
  OBVIOUS
<1>3. \/ Fail("INVALID_SLOT_ID") \/ Fail("INVALID_PHASE")
      \/ /\ p = addressing_port /\ port_config_phase[p] = "kAddressingDevice"
         /\ ApplyReset(InitializeDevice(r, p), Tail(events))
         /\ UNCHANGED <<scan, faults>>
  BY <1>2 DEF OnAddressDeviceCompleted
<1>4. CASE Fail("INVALID_SLOT_ID") \/ Fail("INVALID_PHASE")
  BY <1>1, <1>4, FailSeen
<1>5. CASE /\ p = addressing_port /\ port_config_phase[p] = "kAddressingDevice"
           /\ ApplyReset(InitializeDevice(r, p), Tail(events))
           /\ UNCHANGED <<scan, faults>>
  <2> SUFFICES ASSUME faults = 0 PROVE Seen'
    BY <1>5 DEF Seen
  <2>1. Wired
    BY DEF Seen
  <2>2. p \in Ports
    BY <1>5 DEF Inv, TypeOK, Ports
  <2>3. /\ r = [ap |-> r.ap, phase |-> r.phase, resets |-> r.resets, err |-> r.err]
        /\ r.phase \in [0..MaxPorts -> ConfigPhase] /\ r.resets \in SUBSET Ports
    BY <1>5, <2>2, ResetFirstWaitingGood
  <2>4. /\ \A q \in r.resets : "ccs" \in portsc[q]
        /\ r.ap = 0 => /\ r.phase = port_config_phase
                       /\ \A q \in Ports : port_config_phase[q] # "kWaitingAddressed"
        /\ \A q \in Ports : \/ r.phase[q] = port_config_phase[q]
                            \/ /\ port_config_phase[q] = "kWaitingAddressed"
                               /\ r.phase[q] = "kResettingPort"
    BY <2>1, ResetFirstWaitingSeen
  <2> HIDE DEF r
  <2>5. /\ addressing_port' = r.ap
        /\ port_config_phase' = [r.phase EXCEPT ![p] = "kInitializingDevice"]
        /\ portsc' = PortscAfter(r.resets)
        /\ events' = Tail(events) \o EventsAfter(r.resets)
    BY <1>5, <2>3 DEF ApplyReset, InitializeDevice
  <2>6. \A q \in Ports : /\ "ccs" \in portsc'[q] <=> "ccs" \in portsc[q]
                         /\ portsc[q] = {} => portsc'[q] = {}
    BY <2>4, <2>5, PortscAfterKeeps
  <2>7. \A q \in Ports : \/ port_config_phase'[q] = port_config_phase[q]
                         \/ /\ port_config_phase[q] # "kNotConnected"
                            /\ port_config_phase'[q] \notin {"kNotConnected", "kWaitingAddressed"}
    BY <1>5, <2>2, <2>3, <2>4, <2>5 DEF Ports
  <2>8. \A q \in Ports : port_config_phase[q] = "kNotConnected" /\ Pending(events, q)
                           => Pending(events', q)
    <3>1. Tail(events) \in Seq(Event) /\ EventsAfter(r.resets) \in Seq(Event)
      BY <1>1, <2>3, FrontType, EventsAfterType
    <3>2. \A q \in Ports : port_config_phase[q] = "kNotConnected" /\ Pending(events, q)
                             => Pending(Tail(events), q)
      BY <1>1, PopSeen
    <3> QED
      BY <2>5, <3>1, <3>2, PendingConcat
  <2>9. Advances(port_config_phase, port_config_phase')
    BY <1>1 DEF Step
  <2>10. addressing_port' = 0 => \A q \in Ports : port_config_phase'[q] # "kWaitingAddressed"
    BY <2>4, <2>5, <2>7
  <2> QED
    BY <1>5, <2>6, <2>7, <2>8, <2>9, <2>10, SeenStep
<1> QED
  BY <1>3, <1>4, <1>5

-----------------------------------------------------------------------------
(* The third invariant holds initially and every step preserves it.        *)
LEMMA InitSeen == Init => Seen
<1> SUFFICES ASSUME Init PROVE Wired /\ NoIdleWaiter /\ NoMissedPlug
  BY DEF Seen
<1>1. \A p \in Ports : portsc[p] = {} /\ port_config_phase[p] = "kNotConnected"
  BY DEF Init, Ports
<1> QED
  BY <1>1 DEF Wired, NoIdleWaiter, NoMissedPlug

(* One case for each action.                                               *)
LEMMA NextSeen == Inv /\ Inv' /\ Seen /\ [Next]_vars => Seen'
<1> SUFFICES ASSUME Inv, Inv', Seen, [Next]_vars PROVE Seen'
  OBVIOUS
<1>1. CASE ConfigurePort
  BY <1>1, ConfigurePortSeen
<1>2. CASE OnPortStatusChange
  BY <1>2, OnPortStatusChangeSeen
<1>3. CASE OnEnableSlotCompleted \/ OnAddressDeviceCompleted \/ OnConfigureEndpointCompleted
  BY <1>3, OnEnableSlotCompletedSeen, OnAddressDeviceCompletedSeen, OnConfigureEndpointCompletedSeen
<1>4. CASE OnTransfer
  BY <1>4, OnTransferSeen
<1>5. CASE PollIdle \/ UNCHANGED vars
  <2>1. UNCHANGED <<scan, addressing_port, port_config_phase, portsc, faults, events>>
    BY <1>5 DEF PollIdle, vars, driverVars, ringVars, hcVars
  <2> QED
    BY <2>1, SeenKept
<1>6. CASE HcCommand
  BY <1>6, HcCommandSeen
<1>7. CASE \E s \in SlotIds : HcControlTransfer(s) \/ HcInterruptTransfer(s)
  BY <1>7, HcTransferSeen
<1>8. CASE \E p \in Ports : Plug(p) \/ Unplug(p)
  BY <1>8, PlugSeen
<1> QED
  BY <1>1, <1>2, <1>3, <1>4, <1>5, <1>6, <1>7, <1>8 DEF Next, ProcessEvent

(* Every reachable state satisfies the third invariant.                    *)
THEOREM SpecSeen == Spec => []Seen
<1>1. Inv /\ Inv' /\ Seen /\ [Next]_vars => Seen'
  BY NextSeen
<1> QED
  BY <1>1, InitSeen, SpecInv, PTL DEF Spec

(* Until something is unplugged or fails, a connected port that waits for  *)
(* its turn waits for a port that is being addressed (ResetPort and the    *)
(* scan for a waiting port in OnEvent, xhci.cpp).                          *)
THEOREM WaitersWaitForSomeone == Spec => [](faults = 0 => NoIdleWaiter)
<1>1. Seen => (faults = 0 => NoIdleWaiter)
  BY DEF Seen
<1> QED
  BY <1>1, SpecSeen, PTL

(* Until something is unplugged or fails, a connected port the driver does *)
(* not know of will be looked at: the boot loop has not passed it, or a    *)
(* Port Status Change event for it is in the ring.                         *)
THEOREM PlugsAnnounced == Spec => [](faults = 0 => NoMissedPlug)
<1>1. Seen => (faults = 0 => NoMissedPlug)
  BY DEF Seen
<1> QED
  BY <1>1, SpecSeen, PTL
=============================================================================
