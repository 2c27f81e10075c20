-------------------------- MODULE EndpointSetup_proofs --------------------------
(***************************************************************************)
(* The walk over the descriptors, the choice of the class driver and the   *)
(* endpoint contexts, for every configuration, buffer size, set of         *)
(* endpoint numbers, speed and interval.                                   *)
(*                                                                         *)
(* The reader's pointer is a sum of lengths.  The invariant says which     *)
(* descriptor it stands at (Place, Start), that the endpoints collected so *)
(* far are the ones in front of it (Collected), and what SetEndpoint and   *)
(* ConfigureEndpoints made of them (Connected, Contexts).                  *)
(***************************************************************************)
EXTENDS EndpointSetup, SequenceTheorems, WellFoundedInduction, TLAPS

--------------------------------------------------------------------------------
(* Induction and sequences.                                                *)

(* A set of natural numbers has a least element.                           *)
LEMMA LeastNat ==
    ASSUME NEW T, T \subseteq Nat, T # {}
    PROVE  \E x \in T : \A y \in T : x <= y
<1>1. PICK x \in T : \A y \in T : ~(<<y, x>> \in OpToRel(<, Nat))
  BY WFMin, NatLessThanWellFounded
<1>2. \A y \in T : ~(y < x)
  BY <1>1 DEF OpToRel
<1> QED
  BY <1>2

(* A set with 0 and the successors of its elements has all of Nat.         *)
LEMMA SetInduction ==
    ASSUME NEW S, 0 \in S, \A n \in Nat : n \in S => n + 1 \in S
    PROVE  Nat \subseteq S
<1> SUFFICES ASSUME ~(Nat \subseteq S) PROVE FALSE
  OBVIOUS
<1>1. PICK x \in Nat \ S : \A y \in Nat \ S : x <= y
  <2>1. Nat \ S # {} /\ Nat \ S \subseteq Nat
    OBVIOUS
  <2> QED
    BY <2>1, LeastNat
<1>2. x # 0 /\ x - 1 \in Nat /\ x - 1 \in S
  BY <1>1
<1> QED
  BY <1>1, <1>2

(* The same for the numbers up to n.                                       *)
LEMMA BoundedInduction ==
    ASSUME NEW n \in Nat, NEW S, 0 \in S, \A i \in 1..n : i - 1 \in S => i \in S
    PROVE  0..n \subseteq S
<1> DEFINE T == {i \in Nat : i <= n => i \in S}
<1>1. 0 \in T
  OBVIOUS
<1>2. ASSUME NEW i \in Nat, i \in T PROVE i + 1 \in T
  <2> SUFFICES ASSUME i + 1 <= n PROVE i + 1 \in S
    OBVIOUS
  <2>1. i + 1 \in 1..n /\ (i + 1) - 1 = i /\ i \in S
    BY <1>2
  <2> QED
    BY <2>1
<1>3. Nat \subseteq T
  <2> HIDE DEF T
  <2> QED
    BY <1>1, <1>2, SetInduction
<1> QED
  BY <1>3

(* The value of f at 0 is b, and the function G[i] gives its value at i    *)
(* from its value at i - 1.                                                *)
RecursiveOn(f, m, b, G) == f[0] = b /\ \A i \in 1..m : f[i] = G[i][f[i - 1]]

(* A function on 0..m can be defined by recursion.                         *)
LEMMA RecursionExists ==
    ASSUME NEW S, NEW b \in S, NEW G \in [Nat -> [S -> S]], NEW m \in Nat
    PROVE  \E f \in [0..m -> S] : RecursiveOn(f, m, b, G)
<1> DEFINE P(n) == \E f \in [0..n -> S] :
                     f[0] = b /\ \A i \in 1..n : f[i] = G[i][f[i - 1]]
           T == {n \in Nat : P(n)}
<1>1. 0 \in T
  <2> DEFINE c == [i \in 0..0 |-> b]
  <2>1. c \in [0..0 -> S] /\ c[0] = b
    OBVIOUS
  <2>2. P(0)
    <3> HIDE DEF c
    <3> QED
      BY <2>1
  <2> QED
    BY <2>2
<1>2. ASSUME NEW n \in Nat, n \in T PROVE n + 1 \in T
  <2>1. PICK f \in [0..n -> S] : f[0] = b /\ \A i \in 1..n : f[i] = G[i][f[i - 1]]
    BY <1>2
  <2> DEFINE v == G[n + 1][f[n]]
             g == [i \in 0..(n + 1) |-> IF i = n + 1 THEN v ELSE f[i]]
  <2>2. v \in S
    BY <2>1
  <2>3. g \in [0..(n + 1) -> S]
    BY <2>1, <2>2
  <2>4. g[0] = b
    BY <2>1
  <2>5. ASSUME NEW i \in 1..(n + 1) PROVE g[i] = G[i][g[i - 1]]
    <3>1. CASE i = n + 1
      <4>1. g[i] = v /\ g[i - 1] = f[n]
        BY <3>1
      <4> QED
        BY <3>1, <4>1
    <3>2. CASE i \in 1..n
      <4>1. g[i] = f[i] /\ g[i - 1] = f[i - 1]
        BY <3>2
      <4> QED
        BY <2>1, <3>2, <4>1
    <3> QED
      BY <3>1, <3>2
  <2>6. P(n + 1)
    BY <2>3, <2>4, <2>5
  <2> QED
    BY <2>6
<1> HIDE DEF P
<1>3. Nat \subseteq T
  <2> HIDE DEF T
  <2> QED
    BY <1>1, <1>2, SetInduction
<1>4. P(m)
  BY <1>3
<1> QED
  BY <1>4 DEF P, RecursiveOn

(* A function on 1..n is a sequence of length n.                           *)
LEMMA FcnLen ==
    ASSUME NEW S, NEW n \in Nat, NEW F \in [1..n -> S]
    PROVE  F \in Seq(S) /\ Len(F) = n
<1>1. F \in Seq(S)
  BY IsASeq
<1>2. Len(F) \in Nat /\ DOMAIN F = 1..Len(F)
  BY <1>1, LenProperties
<1>3. DOMAIN F = 1..n
  OBVIOUS
<1>4. 1..n = 1..Len(F)
  BY <1>2, <1>3
<1> QED
  BY <1>1, <1>2, <1>4

--------------------------------------------------------------------------------
(* What a configuration looks like in bytes.                                  *)

\* The descriptors of an interface.
Size(f) == Headers(f) + Len(f.endpoints)

\* The bytes of f in front of its descriptor j.
Before(f, j) ==
  IF j <= Headers(f) THEN 9 * (j - 1) ELSE 9 * Headers(f) + 7 * (j - 1 - Headers(f))

\* A configuration is a sequence of interfaces.
Configurations == UNION {[1 .. n -> Interface] : n \in 1 .. MaxInterfaces}

\* The parts of an interface.
LEMMA InterfaceParts ==
  ASSUME NEW f \in Interface
  PROVE  /\ f.supported \in BOOLEAN
         /\ Len(f.endpoints) \in 0 .. MaxEndpoints
         /\ f.endpoints \in [1 .. Len(f.endpoints) -> EndpointDescriptor]
         /\ DOMAIN f.endpoints = 1 .. Len(f.endpoints)
         /\ Headers(f) = IF f.supported THEN 2 ELSE 1
<1>1. PICK n \in 0 .. MaxEndpoints : f.endpoints \in [1 .. n -> EndpointDescriptor]
  BY DEF Interface, Endpoints
<1>2. n \in Nat
  BY SetupAssumption
<1>3. Len(f.endpoints) = n
  BY <1>1, <1>2, FcnLen
<1>4. f.supported \in BOOLEAN
  BY DEF Interface
<1> QED
  BY <1>1, <1>3, <1>4 DEF Headers

\* The parts of a configuration.
LEMMA ConfigurationParts ==
  ASSUME NEW c \in Configurations
  PROVE  /\ Len(c) \in 1 .. MaxInterfaces
         /\ c \in [1 .. Len(c) -> Interface]
         /\ DOMAIN c = 1 .. Len(c)
<1>1. PICK n \in 1 .. MaxInterfaces : c \in [1 .. n -> Interface]
  BY DEF Configurations
<1>2. n \in Nat
  BY SetupAssumption
<1>3. Len(c) = n
  BY <1>1, <1>2, FcnLen
<1> QED
  BY <1>1, <1>3

\* The bytes of an interface.
Bytes(f) == 9 * Headers(f) + 7 * Len(f.endpoints)

\* Ends computes what its recursive definition says.
LEMMA EndsByRecursion ==
  ASSUME NEW c \in Configurations
  PROVE  /\ Ends(c) \in [0 .. Len(c) -> Nat]
         /\ Ends(c)[0] = 9
         /\ \A i \in 1 .. Len(c) : Bytes(c[i]) \in Nat /\ Ends(c)[i] = Ends(c)[i - 1] + Bytes(c[i])
<1> DEFINE m == Len(c)
           step(i, x) == x + 9 * Headers(c[i]) + 7 * Len(c[i].endpoints)
           G == [i \in Nat |-> [x \in Nat |-> IF i \in 1 .. m THEN step(i, x) ELSE x]]
<1>1. m \in Nat /\ c \in [1 .. m -> Interface]
  BY ConfigurationParts, SetupAssumption
<1>2. \A i \in 1 .. m : Headers(c[i]) \in Nat /\ Len(c[i].endpoints) \in Nat
  <2> TAKE i \in 1 .. m
  <2>1. c[i] \in Interface
    BY <1>1
  <2>2. Len(c[i].endpoints) \in 0 .. MaxEndpoints /\ Headers(c[i]) \in {1, 2}
    BY <2>1, InterfaceParts
  <2> QED
    BY <2>2, SetupAssumption
<1>3. \A i \in 1 .. m : Bytes(c[i]) \in Nat /\ \A x \in Nat : step(i, x) = x + Bytes(c[i])
  BY <1>2 DEF Bytes
<1>4. Ends(c) = CHOOSE f : f = [i \in 0 .. m |-> IF i = 0 THEN 9 ELSE step(i, f[i - 1])]
  BY DEF Ends
<1> HIDE DEF step, m
<1>5. \A i \in 1 .. m, x \in Nat : step(i, x) \in Nat
  BY <1>3
<1>6. G \in [Nat -> [Nat -> Nat]]
  BY <1>5
<1>7. PICK f \in [0 .. m -> Nat] : RecursiveOn(f, m, 9, G)
  <2>1. 9 \in Nat
    OBVIOUS
  <2> HIDE DEF G
  <2> QED
    BY <1>1, <1>6, <2>1, RecursionExists
<1>8. \A i \in 1 .. m : f[i] = step(i, f[i - 1])
  <2> TAKE i \in 1 .. m
  <2>1. f[i] = G[i][f[i - 1]] /\ i \in Nat /\ f[i - 1] \in Nat
    <3> HIDE DEF G
    <3> QED
      BY <1>1, <1>7 DEF RecursiveOn
  <2> QED
    BY <2>1
<1>9. f = [i \in 0 .. m |-> IF i = 0 THEN 9 ELSE step(i, f[i - 1])]
  <2>1. f[0] = 9
    BY <1>7 DEF RecursiveOn
  <2> QED
    BY <1>1, <1>7, <1>8, <2>1
<1>10. Ends(c) = [i \in 0 .. m |-> IF i = 0 THEN 9 ELSE step(i, Ends(c)[i - 1])]
  BY <1>4, <1>9
<1>11. Ends(c)[0] = 9 /\ \A i \in 1 .. m : Ends(c)[i] = step(i, Ends(c)[i - 1])
  BY <1>1, <1>10
<1>12. Ends(c) \in [0 .. m -> Nat]
  <2> DEFINE T == {i \in 0 .. m : Ends(c)[i] \in Nat}
  <2>1. 0 \in T
    BY <1>1, <1>11
  <2>2. ASSUME NEW i \in 1 .. m, i - 1 \in T PROVE i \in T
    <3>1. Ends(c)[i - 1] \in Nat
      BY <2>2
    <3>2. step(i, Ends(c)[i - 1]) \in Nat
      BY <1>5, <3>1
    <3>3. Ends(c)[i] \in Nat
      BY <1>11, <3>2
    <3> QED
      BY <1>1, <3>3
  <2>3. 0 .. m \subseteq T
    <3> HIDE DEF T
    <3> QED
      BY <1>1, <2>1, <2>2, BoundedInduction
  <2>4. \A i \in 0 .. m : Ends(c)[i] \in Nat
    BY <2>3
  <2> HIDE DEF G, T
  <2> QED
    BY <1>10, <2>4
<1>13. \A i \in 1 .. m : Ends(c)[i] = Ends(c)[i - 1] + Bytes(c[i])
  BY <1>1, <1>3, <1>11, <1>12, SMTT(30)
<1> QED
  BY <1>3, <1>11, <1>12, <1>13 DEF m

\* An interface takes up its bytes before the end of the configuration.
LEMMA EndsGrow ==
  ASSUME NEW c \in Configurations
  PROVE  /\ TotalLength(c) \in Nat
         /\ \A i \in 0 .. Len(c) : Ends(c)[i] <= TotalLength(c)
         /\ \A i \in 1 .. Len(c) : Ends(c)[i - 1] + Bytes(c[i]) <= TotalLength(c)
<1> DEFINE m == Len(c)
           T(i) == {j \in Nat : j <= m /\ i <= j => Ends(c)[i] <= Ends(c)[j]}
<1>1. m \in Nat
  BY ConfigurationParts, SetupAssumption
<1>2. /\ Ends(c) \in [0 .. m -> Nat]
      /\ \A i \in 1 .. m : Bytes(c[i]) \in Nat /\ Ends(c)[i] = Ends(c)[i - 1] + Bytes(c[i])
  BY EndsByRecursion
<1>3. TotalLength(c) = Ends(c)[m]
  BY DEF TotalLength
<1> HIDE DEF m
<1>4. ASSUME NEW i \in 0 .. m PROVE Ends(c)[i] <= Ends(c)[m]
  <2>1. 0 \in T(i)
    BY <1>1, <1>2
  <2>2. ASSUME NEW j \in 1 .. m, j - 1 \in T(i) PROVE j \in T(i)
    <3> SUFFICES ASSUME i <= j PROVE Ends(c)[i] <= Ends(c)[j]
      BY <1>1
    <3>1. CASE i = j
      BY <1>1, <1>2, <3>1
    <3>2. CASE i # j
      <4>1. j - 1 \in 0 .. m /\ i <= j - 1
        BY <1>1, <3>2
      <4>2. Ends(c)[i] <= Ends(c)[j - 1]
        BY <2>2, <4>1
      <4>3. Ends(c)[j] = Ends(c)[j - 1] + Bytes(c[j]) /\ Bytes(c[j]) \in Nat
        BY <1>2
      <4> QED
        BY <1>1, <1>2, <4>1, <4>2, <4>3
    <3> QED
      BY <3>1, <3>2
  <2> DEFINE U == T(i)
  <2>3. 0 \in U /\ \A j \in 1 .. m : j - 1 \in U => j \in U
    BY <2>1, <2>2
  <2> HIDE DEF U
  <2>4. 0 .. m \subseteq U
    BY <1>1, <2>3, BoundedInduction
  <2>5. m \in U
    BY <1>1, <2>4
  <2> QED
    BY <1>1, <2>5 DEF U
<1>5. ASSUME NEW i \in 1 .. m PROVE Ends(c)[i - 1] + Bytes(c[i]) <= Ends(c)[m]
  <2>1. i \in 0 .. m
    BY <1>1
  <2> QED
    BY <1>2, <1>4, <2>1
<1> QED
  BY <1>1, <1>2, <1>3, <1>4, <1>5 DEF m

--------------------------------------------------------------------------------
(* Places in the buffer.                                                      *)

\* q is the place of a descriptor.
Place(q) ==
  /\ q \in [interface : 0 .. Len(interfaces), index : Nat \ {0}]
  /\ IF q.interface = 0 THEN q.index = 1 ELSE q.index <= Size(interfaces[q.interface])

\* Where it begins, in bytes.
Start(q) ==
  IF q.interface = 0 THEN 0
  ELSE Ends(interfaces)[q.interface - 1] + Before(interfaces[q.interface], q.index)

\* Behind the last descriptor.
TheEnd == [interface |-> Len(interfaces) + 1, index |-> 1]

\* What is found at a place.
LEMMA DescriptorKinds ==
  ASSUME interfaces \in Configurations, NEW q, Place(q), q.interface # 0,
         NEW f, f = interfaces[q.interface], NEW d, d = DescriptorAt(q)
  PROVE  /\ f \in Interface
         /\ q.index = 1 => /\ d.type = "interface"
                           /\ d.supported = f.supported
                           /\ d.num_endpoints = Len(f.endpoints)
                           /\ Length(d) = 9
         /\ q.index > 1 /\ q.index <= Headers(f) => d.type = "hid" /\ Length(d) = 9
         /\ q.index > Headers(f) => /\ d = f.endpoints[q.index - Headers(f)]
                                    /\ q.index - Headers(f) \in 1 .. Len(f.endpoints)
                                    /\ d \in EndpointDescriptor
                                    /\ d.type = "endpoint"
                                    /\ Length(d) = 7
<1>1. f \in Interface
  <2>1. q.interface \in 1 .. Len(interfaces)
    BY DEF Place
  <2> QED
    BY <2>1, ConfigurationParts
<1>2. /\ f.supported \in BOOLEAN
      /\ Len(f.endpoints) \in Nat
      /\ f.endpoints \in [1 .. Len(f.endpoints) -> EndpointDescriptor]
      /\ Headers(f) = IF f.supported THEN 2 ELSE 1
  BY <1>1, InterfaceParts, SetupAssumption
<1>3. d = Described(f, q.index)
  BY DEF DescriptorAt
<1>4. q.index \in Nat \ {0} /\ q.index <= Headers(f) + Len(f.endpoints)
  BY DEF Place, Size
<1>5. ASSUME q.index = 1
      PROVE  d.type = "interface" /\ d.supported = f.supported /\ d.num_endpoints = Len(f.endpoints)
  <2>1. d = [type |-> "interface", supported |-> f.supported, num_endpoints |-> Len(f.endpoints)]
    BY <1>3, <1>5 DEF Described
  <2> QED
    BY <2>1
<1>6. ASSUME q.index > 1, q.index <= Headers(f) PROVE d.type = "hid"
  <2>1. q.index = 2 /\ f.supported
    BY <1>2, <1>4, <1>6
  <2>2. d = [type |-> "hid"]
    BY <1>3, <2>1 DEF Described
  <2> QED
    BY <2>2
<1>7. ASSUME q.index > Headers(f)
      PROVE  /\ d = f.endpoints[q.index - Headers(f)]
             /\ q.index - Headers(f) \in 1 .. Len(f.endpoints)
             /\ d \in EndpointDescriptor /\ d.type = "endpoint"
  <2>1. q.index # 1 /\ ~(q.index = 2 /\ f.supported)
    BY <1>2, <1>4, <1>7
  <2>2. d = f.endpoints[q.index - Headers(f)]
    BY <1>3, <2>1 DEF Described
  <2>3. q.index - Headers(f) \in 1 .. Len(f.endpoints)
    <3>1. Headers(f) \in {1, 2} /\ Len(f.endpoints) \in Nat
      BY <1>2
    <3> QED
      BY <1>4, <1>7, <3>1
  <2>4. d \in EndpointDescriptor
    BY <1>2, <2>2, <2>3
  <2> QED
    BY <2>2, <2>3, <2>4 DEF EndpointDescriptor
<1> QED
  BY <1>1, <1>5, <1>6, <1>7 DEF Length

\* Where the next descriptor of an interface begins.
LEMMA BeforeSteps ==
  ASSUME NEW f, NEW h \in {1, 2}, Headers(f) = h, NEW m \in Nat, Len(f.endpoints) = m,
         NEW j \in Nat \ {0}, j <= h + m, NEW l, l = IF j <= h THEN 9 ELSE 7
  PROVE  /\ Before(f, j) \in Nat /\ Bytes(f) \in Nat
         /\ Before(f, j) + l = IF j < h + m THEN Before(f, j + 1) ELSE Bytes(f)
         /\ Before(f, j) + l <= Bytes(f)
<1>1. Bytes(f) = 9 * h + 7 * m
  BY DEF Bytes
<1>2. \A i : Before(f, i) = IF i <= h THEN 9 * (i - 1) ELSE 9 * h + 7 * (i - 1 - h)
  BY DEF Before
<1>3. CASE h = 1
  BY <1>1, <1>2, <1>3
<1>4. CASE h = 2
  BY <1>1, <1>2, <1>4
<1> QED
  BY <1>3, <1>4

\* The bytes in front of a descriptor and its own stay below the end.
LEMMA PlaceBytes ==
  ASSUME interfaces \in Configurations, NEW q, Place(q)
  PROVE  /\ Start(q) \in Nat
         /\ Length(DescriptorAt(q)) \in {7, 9}
         /\ Start(q) + Length(DescriptorAt(q)) <= TotalLength(interfaces)
         /\ q.interface # 0 =>
              LET f == interfaces[q.interface]
              IN  Start(q) + Length(DescriptorAt(q)) =
                    IF q.index < Size(f) THEN Ends(interfaces)[q.interface - 1] + Before(f, q.index + 1)
                                         ELSE Ends(interfaces)[q.interface]
<1>1. /\ Ends(interfaces) \in [0 .. Len(interfaces) -> Nat]
      /\ Ends(interfaces)[0] = 9
      /\ \A i \in 1 .. Len(interfaces) :
           /\ Bytes(interfaces[i]) \in Nat
           /\ Ends(interfaces)[i] = Ends(interfaces)[i - 1] + Bytes(interfaces[i])
  BY EndsByRecursion
<1>2. /\ TotalLength(interfaces) \in Nat
      /\ \A i \in 0 .. Len(interfaces) : Ends(interfaces)[i] <= TotalLength(interfaces)
  BY EndsGrow
<1>3. Len(interfaces) \in Nat
  BY ConfigurationParts, SetupAssumption
<1>4. CASE q.interface = 0
  <2>1. Start(q) = 0
    BY <1>4 DEF Start
  <2>2. Length(DescriptorAt(q)) = 9
    <3>1. DescriptorAt(q) = [type |-> "configuration"]
      BY <1>4 DEF DescriptorAt
    <3> QED
      BY <3>1 DEF Length
  <2>3. 9 <= TotalLength(interfaces)
    BY <1>1, <1>2, <1>3
  <2> QED
    BY <1>4, <2>1, <2>2, <2>3
<1>5. CASE q.interface # 0
  <2> DEFINE f == interfaces[q.interface]
             d == DescriptorAt(q)
             b == Ends(interfaces)[q.interface - 1]
  <2>1. q.interface \in 1 .. Len(interfaces) /\ q.index \in Nat \ {0} /\ q.index <= Size(f)
    BY <1>5 DEF Place
  <2>2. /\ f \in Interface
        /\ q.index <= Headers(f) => Length(d) = 9
        /\ q.index > Headers(f) => Length(d) = 7
    BY <1>5, <2>1, DescriptorKinds
  <2>3. Headers(f) \in {1, 2} /\ Len(f.endpoints) \in Nat
    BY <2>2, InterfaceParts, SetupAssumption
  <2>4. b \in Nat /\ Ends(interfaces)[q.interface] = b + Bytes(f)
    BY <1>1, <1>3, <2>1
  <2>5. Start(q) = b + Before(f, q.index)
    BY <1>5 DEF Start
  <2>6. Ends(interfaces)[q.interface] <= TotalLength(interfaces)
    BY <1>2, <1>3, <2>1
  <2> HIDE DEF f, d, b
  <2>7. Length(d) = IF q.index <= Headers(f) THEN 9 ELSE 7
    BY <2>1, <2>2, <2>3
  <2>8. /\ Before(f, q.index) \in Nat /\ Bytes(f) \in Nat
        /\ Before(f, q.index) + Length(d) = IF q.index < Size(f) THEN Before(f, q.index + 1) ELSE Bytes(f)
        /\ Before(f, q.index) + Length(d) <= Bytes(f)
    BY <2>1, <2>3, <2>7, BeforeSteps DEF Size
  <2>9. Length(d) \in {7, 9}
    BY <2>7
  <2>10. Start(q) + Length(d) = b + (Before(f, q.index) + Length(d))
    BY <2>4, <2>5, <2>8, <2>9
  <2>11. Start(q) \in Nat /\ Start(q) + Length(d) <= b + Bytes(f)
    BY <2>4, <2>5, <2>8, <2>9
  <2>12. Start(q) + Length(d) <= TotalLength(interfaces)
    BY <1>2, <2>4, <2>6, <2>8, <2>9, <2>11
  <2>13. Start(q) + Length(d) = IF q.index < Size(f) THEN b + Before(f, q.index + 1)
                                ELSE Ends(interfaces)[q.interface]
    BY <2>4, <2>8, <2>10
  <2> QED
    BY <2>9, <2>11, <2>12, <2>13 DEF f, d, b
<1> QED
  BY <1>4, <1>5

\* What p_ += p_[0] does to a reader that stands at a descriptor.
LEMMA StepBehind ==
  ASSUME interfaces \in Configurations, NEW q, Place(q),
         NEW e, e = Start(q) + Length(DescriptorAt(q)),
         NEW n, n = Behind(q)
  PROVE  /\ e \in Nat
         /\ IF q.interface > 0 /\ q.index < Size(interfaces[q.interface])
            THEN Place(n) /\ n.interface = q.interface /\ n.index = q.index + 1
            ELSE /\ n = [interface |-> q.interface + 1, index |-> 1]
                 /\ IF q.interface < Len(interfaces) THEN Place(n) ELSE n = TheEnd
         /\ Place(n) => Start(n) = e
         /\ n = TheEnd => e = TotalLength(interfaces)
<1>1. /\ Ends(interfaces) \in [0 .. Len(interfaces) -> Nat]
      /\ Ends(interfaces)[0] = 9
      /\ TotalLength(interfaces) = Ends(interfaces)[Len(interfaces)]
  BY EndsByRecursion DEF TotalLength
<1>2. Len(interfaces) \in Nat /\ Len(interfaces) > 0
  BY ConfigurationParts, SetupAssumption
<1>3. /\ Start(q) \in Nat /\ Length(DescriptorAt(q)) \in {7, 9}
      /\ q.interface # 0 =>
           e = IF q.index < Size(interfaces[q.interface])
               THEN Ends(interfaces)[q.interface - 1] + Before(interfaces[q.interface], q.index + 1)
               ELSE Ends(interfaces)[q.interface]
  BY PlaceBytes
<1>4. q \in [interface : 0 .. Len(interfaces), index : Nat \ {0}]
  BY DEF Place
<1>5. n = IF q.interface > 0 /\ q.index < Size(interfaces[q.interface])
          THEN [q EXCEPT !.index = q.index + 1]
          ELSE [interface |-> q.interface + 1, index |-> 1]
  BY DEF Behind, Size
<1>6. CASE q.interface > 0 /\ q.index < Size(interfaces[q.interface])
  <2>1. /\ n \in [interface : 0 .. Len(interfaces), index : Nat \ {0}]
        /\ n.interface = q.interface /\ n.index = q.index + 1
    BY <1>4, <1>5, <1>6
  <2>2. Headers(interfaces[q.interface]) \in Nat /\ Len(interfaces[q.interface].endpoints) \in Nat
    <3>1. interfaces[q.interface] \in Interface
      BY <1>2, <1>4, <1>6, ConfigurationParts
    <3> QED
      BY <3>1, InterfaceParts, SetupAssumption
  <2>3. Place(n)
    <3>1. q.index + 1 <= Size(interfaces[q.interface])
      BY <1>4, <1>6, <2>2 DEF Size
    <3> QED
      BY <1>4, <1>6, <2>1, <3>1 DEF Place
  <2>4. Start(n) = e
    BY <1>3, <1>4, <1>6, <2>1 DEF Start
  <2>5. n # TheEnd
    BY <1>2, <1>4, <2>1 DEF TheEnd
  <2> QED
    BY <1>3, <1>6, <2>1, <2>3, <2>4, <2>5
<1>7. CASE ~(q.interface > 0 /\ q.index < Size(interfaces[q.interface]))
  <2>1. n = [interface |-> q.interface + 1, index |-> 1]
    BY <1>5, <1>7
  <2>2. e = Ends(interfaces)[q.interface]
    <3>1. CASE q.interface = 0
      <4>1. Start(q) = 0 /\ DescriptorAt(q) = [type |-> "configuration"]
        BY <3>1 DEF Start, DescriptorAt
      <4>2. Length(DescriptorAt(q)) = 9
        BY <4>1 DEF Length
      <4> QED
        BY <1>1, <3>1, <4>1, <4>2
    <3>2. CASE q.interface # 0
      BY <1>3, <1>4, <1>7, <3>2
    <3> QED
      BY <3>1, <3>2
  <2>3. CASE q.interface < Len(interfaces)
    <3>1. n.interface \in 1 .. Len(interfaces) /\ n.index = 1
      BY <1>2, <1>4, <2>1, <2>3
    <3>2. interfaces[n.interface] \in Interface
      BY <3>1, ConfigurationParts
    <3>3. Headers(interfaces[n.interface]) \in {1, 2} /\ Len(interfaces[n.interface].endpoints) \in Nat
      BY <3>2, InterfaceParts, SetupAssumption
    <3>4. Place(n)
      BY <1>2, <2>1, <3>1, <3>3 DEF Place, Size
    <3>5. Before(interfaces[n.interface], 1) = 0
      BY <3>3 DEF Before
    <3>6. Start(n) = e
      BY <1>1, <1>4, <2>1, <2>2, <2>3, <3>1, <3>5 DEF Start
    <3>7. n # TheEnd
      BY <1>2, <3>1 DEF TheEnd
    <3> QED
      BY <1>1, <1>4, <1>7, <2>1, <2>2, <2>3, <3>4, <3>6, <3>7
  <2>4. CASE ~(q.interface < Len(interfaces))
    <3>1. q.interface = Len(interfaces)
      BY <1>2, <1>4, <2>4
    <3>2. n = TheEnd /\ ~Place(n)
      BY <1>2, <2>1, <3>1 DEF TheEnd, Place
    <3> QED
      BY <1>1, <1>2, <1>7, <2>1, <2>2, <2>4, <3>1, <3>2
  <2> QED
    BY <2>3, <2>4
<1> QED
  BY <1>6, <1>7

--------------------------------------------------------------------------------
(* The invariant.                                                             *)

EPConfig ==
  [ep_id : 2 .. 31, ep_type : {"interrupt", "isochronous", "bulk"}, interval : {timing.interval}]

\* Where a class driver has been made, and where its endpoints are known.
Bound == {"endpoint", "configure", "poll", "polling"}
Known == {"configure", "poll", "polling"}

Types ==
  /\ interfaces \in Configurations /\ Distinct(interfaces)
  /\ timing \in [speed : Speeds, interval : Intervals]
  /\ pc \in {"interface", "unsupported", "undefined"} \cup Bound
  /\ class_drivers \in [EndpointNumbers -> Nat]
  /\ ep_configs \in Seq(EPConfig)
  /\ \A i, j \in 1 .. Len(ep_configs) : ep_configs[i].ep_id = ep_configs[j].ep_id => i = j

\* The reader stands at the beginning of a descriptor that ends in the buffer.
Walk ==
  pc \in {"interface", "endpoint"} => Place(at) /\ p = Start(at) /\ NextP <= len

\* Until an interface has a driver there is nothing to connect.
Searching ==
  pc = "interface" =>
    /\ ep_configs = <<>>
    /\ \A n \in EndpointNumbers : class_drivers[n] = 0
    /\ \A i \in 1 .. at.interface : ~interfaces[i].supported

\* The endpoints collected are the first ones of the first supported interface, in
\* order, and the driver of that interface is bound to their numbers.
Collected ==
  pc \in Bound =>
    /\ FirstSupported(driver)
    /\ num_endpoints = Len(interfaces[driver].endpoints)
    /\ Len(ep_configs) <= num_endpoints
    /\ \A i \in 1 .. Len(ep_configs) :
         ep_configs[i] = MakeEPConfig(interfaces[driver].endpoints[i])
    /\ \A n \in EndpointNumbers :
         class_drivers[n] = IF \E i \in 1 .. Len(ep_configs) : Number(ep_configs[i].ep_id) = n
                            THEN driver ELSE 0

\* How many there are follows from where the reader stands.
Counted ==
  pc = "endpoint" =>
    /\ at.interface = driver
    /\ Len(ep_configs) = IF at.index <= 2 THEN 0 ELSE at.index - 2

\* The driver polls one of its interrupt IN endpoints, if there is any.
Connected ==
  /\ pc \in {"interface", "endpoint"} => ep_interrupt = [in |-> 0, out |-> 0]
  /\ pc \in Known =>
       /\ Len(ep_configs) = num_endpoints
       /\ IF ep_interrupt.in = 0
          THEN \A i \in 1 .. Len(ep_configs) :
                 ~(ep_configs[i].ep_type = "interrupt" /\ IsIn(ep_configs[i].ep_id))
          ELSE \E i \in 1 .. Len(ep_configs) :
                 /\ ep_configs[i].ep_type = "interrupt" /\ IsIn(ep_configs[i].ep_id)
                 /\ ep_configs[i].ep_id = ep_interrupt.in
  /\ pc = "polling" => ep_interrupt.in # 0

\* Every context is that of the endpoint with its index.
Contexts ==
  /\ pc \in {"interface", "endpoint", "configure"} => contexts = <<>>
  /\ \A dci \in DOMAIN contexts : \E i \in 1 .. Len(ep_configs) :
       ep_configs[i].ep_id = dci /\ contexts[dci] = EndpointContext(ep_configs[i])
  /\ pc \in {"poll", "polling"} =>
       \A i \in 1 .. Len(ep_configs) : ep_configs[i].ep_id \in DOMAIN contexts

\* Why the walk or the poll ended otherwise.
Ended ==
  /\ pc = "unsupported" => Chosen = 0 \/ TotalLength(interfaces) > BufSize
  /\ pc = "undefined" =>
       \/ TotalLength(interfaces) > BufSize
       \/ Len(interfaces[Chosen].endpoints) > ConfigEntries
       \/ ~HasInterruptIn(interfaces[Chosen])

Inv ==
  /\ Types /\ Walk /\ Searching /\ Collected /\ Counted /\ Connected /\ Contexts /\ Ended

--------------------------------------------------------------------------------
(* What holds of endpoints and interfaces.                                    *)

\* An address is an index beyond those of the device and endpoint 0.
LEMMA AddressFacts ==
  ASSUME NEW d \in EndpointDescriptor
  PROVE  /\ AddressOf(d) \in 2 .. 31
         /\ Number(AddressOf(d)) = d.number
         /\ IsIn(AddressOf(d)) <=> d.dir_in
         /\ d.number \in EndpointNumbers
         /\ d.transfer \in {"interrupt", "isochronous", "bulk"}
<1>1. /\ d.number \in 1 .. 15 /\ d.number \in EndpointNumbers /\ d.dir_in \in BOOLEAN
      /\ d.transfer \in {"interrupt", "isochronous", "bulk"}
  BY SetupAssumption DEF EndpointDescriptor
<1>2. CASE d.dir_in
  <2>1. AddressOf(d) = d.number * 2 + 1
    BY <1>2 DEF AddressOf, Address
  <2> QED
    BY <1>1, <1>2, <2>1 DEF Number, IsIn
<1>3. CASE ~d.dir_in
  <2>1. AddressOf(d) = d.number * 2 + 0
    BY <1>3 DEF AddressOf, Address
  <2> QED
    BY <1>1, <1>3, <2>1 DEF Number, IsIn
<1> QED
  BY <1>2, <1>3

\* What MakeEPConfig keeps of a descriptor.
LEMMA ConfigFacts ==
  ASSUME NEW d \in EndpointDescriptor
  PROVE  /\ MakeEPConfig(d) \in EPConfig
         /\ MakeEPConfig(d).ep_id = AddressOf(d)
         /\ MakeEPConfig(d).ep_type = d.transfer
<1>1. AddressOf(d) \in 2 .. 31 /\ d.transfer \in {"interrupt", "isochronous", "bulk"}
  BY AddressFacts
<1> QED
  BY <1>1 DEF MakeEPConfig, EPConfig

\* There is only one first supported interface.
LEMMA ChosenIsFirst ==
  ASSUME interfaces \in Configurations
  PROVE  /\ \A k : FirstSupported(k) => Chosen = k
         /\ (\A i \in 1 .. Len(interfaces) : ~interfaces[i].supported) => Chosen = 0
<1>1. DOMAIN interfaces = 1 .. Len(interfaces) /\ Len(interfaces) \in Nat
  BY ConfigurationParts, SetupAssumption
<1>2. ASSUME NEW k, FirstSupported(k) PROVE Chosen = k
  <2>1. k \in DOMAIN interfaces /\ interfaces[k].supported
    BY <1>2 DEF FirstSupported
  <2>2. ASSUME NEW j \in DOMAIN interfaces, FirstSupported(j) PROVE j = k
    BY <1>1, <1>2, <2>2 DEF FirstSupported
  <2>3. Chosen = CHOOSE j \in DOMAIN interfaces : FirstSupported(j)
    BY <2>1 DEF Chosen
  <2> QED
    BY <1>2, <2>1, <2>2, <2>3
<1> QED
  BY <1>1, <1>2 DEF Chosen

\* The endpoints of a first supported interface, and their addresses.
LEMMA EndpointFacts ==
  ASSUME interfaces \in Configurations, Distinct(interfaces), NEW k, FirstSupported(k),
         NEW e, e = interfaces[k].endpoints
  PROVE  /\ k \in 1 .. Len(interfaces) /\ k \in Nat /\ k # 0
         /\ interfaces[k] \in Interface
         /\ Headers(interfaces[k]) = 2
         /\ Len(e) \in 0 .. MaxEndpoints /\ Len(e) \in Nat
         /\ e \in [1 .. Len(e) -> EndpointDescriptor]
         /\ \A i, j \in 1 .. Len(e) : AddressOf(e[i]) = AddressOf(e[j]) => i = j
<1>1. k \in 1 .. Len(interfaces) /\ interfaces[k].supported
  BY ConfigurationParts DEF FirstSupported
<1>2. k \in Nat /\ k # 0
  BY <1>1
<1>3. interfaces[k] \in Interface
  BY <1>1, ConfigurationParts
<1>4. /\ Len(e) \in 0 .. MaxEndpoints
      /\ e \in [1 .. Len(e) -> EndpointDescriptor]
      /\ DOMAIN e = 1 .. Len(e)
      /\ Headers(interfaces[k]) = 2
  BY <1>1, <1>3, InterfaceParts
<1>5. ASSUME NEW i \in 1 .. Len(e), NEW j \in 1 .. Len(e), AddressOf(e[i]) = AddressOf(e[j])
      PROVE  i = j
  <2> SUFFICES ASSUME i # j PROVE FALSE
    OBVIOUS
  <2>1. <<k, i>> # <<k, j>>
    OBVIOUS
  <2>2. k \in DOMAIN interfaces /\ i \in DOMAIN interfaces[k].endpoints
        /\ j \in DOMAIN interfaces[k].endpoints
    BY <1>1, <1>4, ConfigurationParts
  <2> QED
    BY <1>5, <2>1, <2>2 DEF Distinct
<1>6. Len(e) \in Nat
  BY <1>4, SetupAssumption
<1> QED
  BY <1>1, <1>2, <1>3, <1>4, <1>5, <1>6

--------------------------------------------------------------------------------
(* Every step keeps the invariant.                                            *)

\* Before the walk.
LEMMA InitInv == Init => Inv
<1> SUFFICES ASSUME Init PROVE Inv
  OBVIOUS
<1>1. interfaces \in Configurations /\ Distinct(interfaces)
  BY DEF Init, Configurations
<1>2. Types
  <2>1. class_drivers \in [EndpointNumbers -> Nat] /\ timing \in [speed : Speeds, interval : Intervals]
    BY DEF Init
  <2>2. ep_configs = <<>> /\ ep_configs \in Seq(EPConfig) /\ Len(ep_configs) = 0
    BY DEF Init
  <2>3. pc = "interface"
    BY DEF Init
  <2> QED
    BY <1>1, <2>1, <2>2, <2>3 DEF Types
<1>3. Place(at) /\ p = Start(at)
  BY DEF Init, Place, Start
<1>4. Walk
  <2>1. NextP = 9
    BY DEF Init, NextP, DescriptorAt, Length
  <2>2. 9 <= TotalLength(interfaces)
    BY <1>1, <1>3, <2>1, PlaceBytes DEF NextP
  <2>3. 9 <= len
    BY <2>2, SetupAssumption DEF len
  <2> QED
    BY <1>3, <2>1, <2>3 DEF Walk
<1>5. Searching
  BY DEF Init, Searching
<1>6. Collected /\ Counted /\ Connected /\ Ended
  BY DEF Init, Collected, Counted, Connected, Ended, Bound, Known
<1>7. Contexts
  <2>1. contexts = <<>> /\ DOMAIN contexts = {} /\ pc = "interface"
    BY DEF Init
  <2> QED
    BY <2>1 DEF Contexts
<1> QED
  BY <1>2, <1>4, <1>5, <1>6, <1>7 DEF Inv

\* What Advance finds: a descriptor, of which the buffer holds all if it holds all of
\* the configuration, or the end.
LEMMA ReaderStep ==
  ASSUME Inv, pc \in {"interface", "endpoint"}, Advance, UNCHANGED device,
         NEW n, n = Behind(at)
  PROVE  /\ at' = n
         /\ IF at.interface > 0 /\ at.index < Size(interfaces[at.interface])
            THEN Place(n) /\ n.interface = at.interface /\ n.index = at.index + 1
            ELSE n.interface = at.interface + 1 /\ n.index = 1
         /\ HasNext => Place(n)
         /\ HasNext /\ ~NextIsCut => Place(at)' /\ p' = Start(at)' /\ NextP' <= len'
         /\ TotalLength(interfaces) <= BufSize =>
              /\ HasNext => ~NextIsCut
              /\ Place(n) => HasNext
              /\ ~HasNext => at.interface = Len(interfaces)
<1> DEFINE e == Start(at) + Length(DescriptorAt(at))
           total == TotalLength(interfaces)
<1>1. interfaces \in Configurations /\ Place(at) /\ p = Start(at)
  BY DEF Inv, Types, Walk
<1>2. NextP = e
  BY <1>1 DEF NextP
<1>3. /\ e \in Nat
      /\ IF at.interface > 0 /\ at.index < Size(interfaces[at.interface])
         THEN Place(n) /\ n.interface = at.interface /\ n.index = at.index + 1
         ELSE /\ n = [interface |-> at.interface + 1, index |-> 1]
              /\ IF at.interface < Len(interfaces) THEN Place(n) ELSE n = TheEnd
      /\ Place(n) => Start(n) = e
      /\ n = TheEnd => e = total
  BY <1>1, StepBehind
<1>4. total \in Nat /\ BufSize \in Nat /\ len = IF total < BufSize THEN total ELSE BufSize
  BY <1>1, EndsGrow, SetupAssumption DEF len
<1>5. Place(n) => Length(DescriptorAt(n)) \in {7, 9} /\ e + Length(DescriptorAt(n)) <= total
  BY <1>1, <1>3, PlaceBytes
<1>6. at' = n /\ p' = e /\ interfaces' = interfaces
  BY <1>2 DEF Advance, device
<1>7. HasNext <=> e < len
  BY <1>2 DEF HasNext
<1>8. NextIsCut <=> e + Length(DescriptorAt(n)) > len
  BY <1>2 DEF NextIsCut
<1>9. Place(n) \/ n = TheEnd
  BY <1>3
<1>10. at.interface \in 0 .. Len(interfaces) /\ Len(interfaces) \in Nat
  BY <1>1, ConfigurationParts, SetupAssumption DEF Place
<1>11. Place(at)' <=> Place(n)
  BY <1>6 DEF Place
<1>12. Start(at)' = Start(n)
  BY <1>6 DEF Start
<1>13. NextP' = p' + Length(DescriptorAt(n)) /\ len' = len
  BY <1>6 DEF NextP, DescriptorAt, len
<1>14. IF at.interface > 0 /\ at.index < Size(interfaces[at.interface])
       THEN Place(n) /\ n.interface = at.interface /\ n.index = at.index + 1
       ELSE n.interface = at.interface + 1 /\ n.index = 1
  <2>1. n = [interface |-> at.interface + 1, index |-> 1]
          => n.interface = at.interface + 1 /\ n.index = 1
    OBVIOUS
  <2> QED
    BY <1>3, <2>1, Zenon
<1> HIDE DEF e, total
<1>15. HasNext => Place(n)
  BY <1>3, <1>4, <1>7, <1>9
<1>16. HasNext /\ ~NextIsCut => Place(at)' /\ p' = Start(at)' /\ NextP' <= len'
  <2> SUFFICES ASSUME HasNext, ~NextIsCut PROVE Place(at)' /\ p' = Start(at)' /\ NextP' <= len'
    OBVIOUS
  <2>1. Place(n) /\ Length(DescriptorAt(n)) \in {7, 9} /\ Start(n) = e
    BY <1>3, <1>5, <1>15
  <2>2. ~(e + Length(DescriptorAt(n)) > len)
    BY <1>8
  <2> QED
    BY <1>3, <1>4, <1>6, <1>11, <1>12, <1>13, <2>1, <2>2
<1>17. ASSUME total <= BufSize
       PROVE  /\ HasNext => ~NextIsCut
              /\ Place(n) => HasNext
              /\ ~HasNext => at.interface = Len(interfaces)
  <2>1. len = total
    BY <1>4, <1>17
  <2>2. Place(n) => HasNext
    BY <1>3, <1>4, <1>5, <1>7, <2>1
  <2>3. HasNext => ~NextIsCut
    BY <1>3, <1>4, <1>5, <1>8, <1>15, <2>1
  <2>4. ~HasNext => at.interface = Len(interfaces)
    BY <1>3, <1>10, <2>2
  <2> QED
    BY <2>2, <2>3, <2>4
<1> QED
  BY <1>6, <1>14, <1>15, <1>16, <1>17 DEF total

\* The walk to the first interface with a driver.
LEMMA NextInterfaceInv == Inv /\ NextInterface => Inv'
<1> SUFFICES ASSUME Inv, NextInterface PROVE Inv'
  OBVIOUS
<1> DEFINE n == Behind(at)
           total == TotalLength(interfaces)
<1>1. /\ pc = "interface" /\ Advance
      /\ UNCHANGED <<interfaces, timing, ep_configs, class_drivers, ep_interrupt, contexts>>
  BY DEF NextInterface, device
<1>2. /\ interfaces \in Configurations
      /\ ep_configs = <<>> /\ contexts = <<>> /\ ep_interrupt = [in |-> 0, out |-> 0]
      /\ \A i \in 1 .. at.interface : ~interfaces[i].supported
      /\ \A i \in EndpointNumbers : class_drivers[i] = 0
  BY <1>1 DEF Inv, Types, Searching, Connected, Contexts
<1>3. /\ at' = n
      /\ IF at.interface > 0 /\ at.index < Size(interfaces[at.interface])
         THEN Place(n) /\ n.interface = at.interface /\ n.index = at.index + 1
         ELSE n.interface = at.interface + 1 /\ n.index = 1
      /\ HasNext => Place(n)
      /\ HasNext /\ ~NextIsCut => Place(at)' /\ p' = Start(at)' /\ NextP' <= len'
      /\ total <= BufSize =>
           /\ HasNext => ~NextIsCut
           /\ ~HasNext => at.interface = Len(interfaces)
  BY <1>1, ReaderStep DEF device
<1>4. total \in Nat /\ BufSize \in Nat
  BY <1>2, EndsGrow, SetupAssumption
<1>5. Chosen' = Chosen /\ TotalLength(interfaces)' = total /\ EPConfig' = EPConfig
  BY <1>1 DEF Chosen, FirstSupported, EPConfig
<1>6. at.interface \in Nat /\ at.index \in Nat \ {0}
  BY <1>1 DEF Inv, Walk, Place
<1>7. /\ DOMAIN contexts' = {} /\ contexts' = <<>> /\ ep_configs' = <<>> /\ Len(ep_configs') = 0
      /\ ep_interrupt' = [in |-> 0, out |-> 0]
      /\ \A i \in EndpointNumbers : class_drivers'[i] = 0
  BY <1>1, <1>2
<1>8. ASSUME pc' \in {"interface", "unsupported", "undefined", "endpoint"} PROVE Types'
  <2>1. pc' \in {"interface", "unsupported", "undefined"} \cup Bound
    BY <1>8 DEF Bound
  <2>2. UNCHANGED <<interfaces, timing, ep_configs, class_drivers>>
    BY <1>1
  <2> QED
    BY <1>5, <2>1, <2>2 DEF Inv, Types
<1>9. CASE ~HasNext /\ pc' = "unsupported"
  <2>1. total <= BufSize => Chosen = 0
    BY <1>2, <1>3, <1>9, ChosenIsFirst
  <2>2. Ended'
    BY <1>4, <1>5, <1>9, <2>1 DEF Ended
  <2> QED
    BY <1>7, <1>8, <1>9, <2>2
       DEF Inv, Walk, Searching, Collected, Counted, Connected, Contexts, Bound, Known
<1>10. CASE HasNext /\ NextIsCut /\ pc' = "undefined"
  <2>1. total > BufSize
    BY <1>3, <1>4, <1>10
  <2>2. Ended'
    BY <1>5, <1>10, <2>1 DEF Ended
  <2> QED
    BY <1>7, <1>8, <1>10, <2>2
       DEF Inv, Walk, Searching, Collected, Counted, Connected, Contexts, Bound, Known
<1>11. CASE /\ HasNext /\ ~NextIsCut
            /\ LET d == DescriptorAt(at')
               IN  IF NewClassDriver(d)
                   THEN pc' = "endpoint" /\ driver' = at'.interface /\ num_endpoints' = d.num_endpoints
                   ELSE UNCHANGED <<pc, driver, num_endpoints>>
  <2> DEFINE d == DescriptorAt(n)
             f == interfaces[n.interface]
  <2>1. Place(n) /\ Place(at)' /\ p' = Start(at)' /\ NextP' <= len'
    BY <1>3, <1>11
  <2>2. n.interface # 0 /\ n.interface \in Nat /\ n.index \in Nat \ {0}
    BY <1>3, <1>6
  <2>3. /\ f \in Interface
        /\ n.index = 1 => /\ d.type = "interface" /\ d.supported = f.supported
                                         /\ d.num_endpoints = Len(f.endpoints)
        /\ n.index # 1 => d.type # "interface"
    <3>1. f \in Interface
      BY <1>2, <2>1, <2>2, DescriptorKinds
    <3>2. n.index = 1 => /\ d.type = "interface" /\ d.supported = f.supported
                         /\ d.num_endpoints = Len(f.endpoints)
      BY <1>2, <2>1, <2>2, DescriptorKinds
    <3>3. n.index > 1 /\ n.index <= Headers(f) => d.type = "hid"
      BY <1>2, <2>1, <2>2, DescriptorKinds
    <3>4. n.index > Headers(f) => d.type = "endpoint"
      BY <1>2, <2>1, <2>2, DescriptorKinds
    <3>5. Headers(f) \in Nat
      BY <3>1, InterfaceParts
    <3> QED
      BY <2>2, <3>1, <3>2, <3>3, <3>4, <3>5
  <2>4. \A i \in 1 .. n.interface - 1 : ~interfaces[i].supported
    BY <1>2, <1>3, <1>6
  <2>5. DescriptorAt(at)' = d /\ DescriptorAt(at') = d
    BY <1>1, <1>3 DEF DescriptorAt
  <2> HIDE DEF d
  <2>6. CASE NewClassDriver(d)
    <3>1. n.index = 1 /\ f.supported
      BY <2>3, <2>6 DEF NewClassDriver
    <3>2. pc' = "endpoint" /\ driver' = n.interface /\ num_endpoints' = Len(f.endpoints)
      BY <1>3, <1>11, <2>3, <2>5, <2>6, <3>1
    <3>3. FirstSupported(n.interface)
      <4>1. n.interface \in 1 .. Len(interfaces)
        BY <2>1, <2>2 DEF Place
      <4> QED
        BY <1>2, <2>4, <3>1, <4>1, ConfigurationParts DEF FirstSupported
    <3>4. FirstSupported(driver)'
      BY <1>1, <3>2, <3>3 DEF FirstSupported
    <3>5. Len(f.endpoints) \in Nat
      BY <2>3, InterfaceParts, SetupAssumption
    <3>6. Collected'
      BY <1>1, <1>7, <3>2, <3>4, <3>5 DEF Collected
    <3>7. Counted'
      BY <1>3, <1>7, <3>1, <3>2 DEF Counted
    <3>8. Walk'
      BY <2>1 DEF Walk
    <3> QED
      BY <1>7, <1>8, <3>2, <3>6, <3>7, <3>8
         DEF Inv, Searching, Connected, Contexts, Ended, Known
  <2>7. CASE ~NewClassDriver(d)
    <3>1. pc' = "interface"
      BY <1>1, <1>11, <2>5, <2>7
    <3>2. \A i \in 1 .. n.interface : ~interfaces[i].supported
      <4>1. CASE n.interface = at.interface
        BY <1>2, <4>1
      <4>2. CASE n.interface # at.interface
        <5>1. n.index = 1
          BY <1>3, <4>2
        <5>2. ~f.supported
          BY <2>3, <2>7, <5>1 DEF NewClassDriver
        <5> QED
          BY <2>2, <2>4, <5>2
      <4> QED
        BY <4>1, <4>2
    <3>3. Searching'
      BY <1>1, <1>3, <1>7, <3>2 DEF Searching
    <3>4. Walk'
      BY <2>1 DEF Walk
    <3> QED
      BY <1>7, <1>8, <3>1, <3>3, <3>4
         DEF Inv, Collected, Counted, Connected, Contexts, Ended, Bound, Known
  <2> QED
    BY <2>6, <2>7
<1> QED
  BY <1>9, <1>10, <1>11 DEF NextInterface

\* One more endpoint collected: the rest of what the invariant says of them.
LEMMA CollectOne ==
  ASSUME Inv, pc = "endpoint", UNCHANGED <<interfaces, timing, pc, driver, num_endpoints>>,
         Len(ep_configs) < num_endpoints,
         NEW d, d = interfaces[driver].endpoints[Len(ep_configs) + 1],
         ep_configs' = Append(ep_configs, MakeEPConfig(d)),
         class_drivers' = [class_drivers EXCEPT ![d.number] = driver]
  PROVE  Types' /\ Collected' /\ Len(ep_configs') = Len(ep_configs) + 1
<1> DEFINE m == Len(ep_configs)
           e == interfaces[driver].endpoints
           c == MakeEPConfig(d)
<1>1. /\ interfaces \in Configurations /\ Distinct(interfaces) /\ FirstSupported(driver)
      /\ num_endpoints = Len(e)
      /\ \A i \in 1 .. m : ep_configs[i] = MakeEPConfig(e[i])
      /\ \A n \in EndpointNumbers :
           class_drivers[n] = IF \E i \in 1 .. m : Number(ep_configs[i].ep_id) = n THEN driver ELSE 0
      /\ class_drivers \in [EndpointNumbers -> Nat]
      /\ ep_configs \in Seq(EPConfig)
  BY DEF Inv, Types, Collected, Bound
<1>2. /\ driver \in Nat
      /\ Len(e) \in 0 .. MaxEndpoints /\ Len(e) \in Nat
      /\ e \in [1 .. Len(e) -> EndpointDescriptor]
      /\ \A i, j \in 1 .. Len(e) : AddressOf(e[i]) = AddressOf(e[j]) => i = j
  BY <1>1, EndpointFacts
<1>3. m \in Nat /\ m + 1 \in 1 .. Len(e) /\ \A i \in 1 .. m : i \in 1 .. Len(e)
  <2>1. m \in Nat
    BY <1>1, LenProperties
  <2> QED
    BY <1>1, <1>2, <2>1
<1>4. d \in EndpointDescriptor
  BY <1>2, <1>3
<1>5. /\ c \in EPConfig /\ c.ep_id = AddressOf(d)
      /\ Number(AddressOf(d)) = d.number /\ d.number \in EndpointNumbers
  BY <1>4, AddressFacts, ConfigFacts
<1>6. \A i \in 1 .. m : ep_configs[i].ep_id = AddressOf(e[i])
  BY <1>1, <1>2, <1>3, ConfigFacts
<1> HIDE DEF m, e, c
<1>7. /\ ep_configs' \in Seq(EPConfig) /\ Len(ep_configs') = m + 1
      /\ \A i \in 1 .. m : ep_configs'[i] = ep_configs[i]
      /\ ep_configs'[m + 1] = c
  BY <1>1, <1>5, AppendProperties DEF m, c
<1>8. \A i \in 1 .. m + 1 : i \in 1 .. m \/ i = m + 1
  BY <1>3
<1>9. \A i \in 1 .. m + 1 : ep_configs'[i] = MakeEPConfig(e[i])
  BY <1>1, <1>7, <1>8 DEF c, e, m
<1>10. \A i \in 1 .. m + 1 : ep_configs'[i].ep_id = AddressOf(e[i]) /\ i \in 1 .. Len(e)
  BY <1>3, <1>5, <1>6, <1>7, <1>8 DEF e, m
<1>11. \A i, j \in 1 .. m + 1 : ep_configs'[i].ep_id = ep_configs'[j].ep_id => i = j
  <2> TAKE i, j \in 1 .. m + 1
  <2> HAVE ep_configs'[i].ep_id = ep_configs'[j].ep_id
  <2>1. AddressOf(e[i]) = AddressOf(e[j]) /\ i \in 1 .. Len(e) /\ j \in 1 .. Len(e)
    BY <1>10
  <2> QED
    BY <1>2, <2>1
<1>12. m + 1 <= num_endpoints
  <2>1. m + 1 <= Len(e) /\ num_endpoints = Len(e)
    BY <1>1, <1>2, <1>3 DEF e
  <2> QED
    BY <1>2, <1>3, <2>1 DEF e
<1>13. class_drivers' \in [EndpointNumbers -> Nat]
  <2>1. class_drivers \in [EndpointNumbers -> Nat] /\ driver \in Nat
    BY <1>1, <1>2
  <2>2. class_drivers' = [class_drivers EXCEPT ![d.number] = driver]
    OBVIOUS
  <2> QED
    BY <2>1, <2>2
<1>14. \A n \in EndpointNumbers :
         class_drivers'[n] = IF \E i \in 1 .. m + 1 : Number(ep_configs'[i].ep_id) = n
                             THEN driver ELSE 0
  <2> TAKE n \in EndpointNumbers
  <2>1. Number(ep_configs'[m + 1].ep_id) = d.number /\ m + 1 \in 1 .. m + 1
    BY <1>3, <1>5, <1>7
  <2>2. \A i \in 1 .. m : i \in 1 .. m + 1 /\ ep_configs'[i] = ep_configs[i]
    BY <1>3, <1>7
  <2>3. CASE n = d.number
    <3>1. class_drivers'[n] = driver
      BY <1>1, <2>3
    <3> QED
      BY <2>1, <2>3, <3>1
  <2>4. CASE n # d.number
    <3>1. class_drivers'[n] = class_drivers[n]
      BY <1>1, <2>4
    <3>2. (\E i \in 1 .. m + 1 : Number(ep_configs'[i].ep_id) = n)
            <=> (\E i \in 1 .. m : Number(ep_configs[i].ep_id) = n)
      BY <1>8, <2>1, <2>2, <2>4
    <3> QED
      BY <1>1, <3>1, <3>2 DEF m
  <2> QED
    BY <2>3, <2>4
<1>15. EPConfig' = EPConfig
  BY DEF EPConfig
<1>16. Types'
  BY <1>7, <1>11, <1>13, <1>15 DEF Inv, Types
<1>17. Collected'
  <2>1. FirstSupported(driver)' /\ interfaces' = interfaces /\ driver' = driver
    BY <1>1 DEF FirstSupported
  <2>2. num_endpoints' = Len(interfaces[driver].endpoints)
    BY <1>1 DEF e
  <2>3. \A i \in 1 .. Len(ep_configs') : ep_configs'[i] = MakeEPConfig(interfaces[driver].endpoints[i])'
    BY <1>7, <1>9, <2>1 DEF e, MakeEPConfig
  <2> QED
    BY <1>7, <1>12, <1>14, <2>1, <2>2, <2>3 DEF Collected
<1> QED
  BY <1>7, <1>16, <1>17 DEF m

\* The walk over the endpoints of the interface.
LEMMA NextEndpointInv == Inv /\ NextEndpoint => Inv'
<1> SUFFICES ASSUME Inv, NextEndpoint PROVE Inv'
  OBVIOUS
<1> DEFINE n == Behind(at)
           m == Len(ep_configs)
           f == interfaces[driver]
           total == TotalLength(interfaces)
<1>1. /\ pc = "endpoint" /\ m < num_endpoints /\ Advance
      /\ UNCHANGED <<interfaces, timing, driver, num_endpoints, ep_interrupt, contexts>>
  BY DEF NextEndpoint, MoreEndpoints, device
<1>2. /\ interfaces \in Configurations /\ Distinct(interfaces) /\ FirstSupported(driver)
      /\ num_endpoints = Len(f.endpoints)
      /\ at.interface = driver /\ m = IF at.index <= 2 THEN 0 ELSE at.index - 2
      /\ ep_interrupt = [in |-> 0, out |-> 0] /\ contexts = <<>>
      /\ ep_configs \in Seq(EPConfig)
  BY <1>1 DEF Inv, Types, Collected, Counted, Connected, Contexts, Bound
<1>3. /\ f \in Interface /\ driver \in Nat /\ driver > 0
      /\ Headers(f) = 2 /\ Len(f.endpoints) \in Nat
  <2>1. driver \in Nat /\ driver # 0
    BY <1>2, EndpointFacts
  <2> QED
    BY <1>2, <2>1, EndpointFacts
<1>4. m \in Nat /\ at.index \in Nat \ {0}
  <2>1. Place(at)
    BY <1>1 DEF Inv, Walk
  <2> QED
    BY <1>2, <2>1, LenProperties DEF Place
<1>5. at.index < Size(f)
  BY <1>1, <1>2, <1>3, <1>4 DEF Size
<1>6. /\ at' = n /\ Place(n) /\ n.interface = driver /\ n.index = at.index + 1
      /\ HasNext /\ ~NextIsCut => Place(at)' /\ p' = Start(at)' /\ NextP' <= len'
      /\ total <= BufSize => HasNext /\ ~NextIsCut
  BY <1>1, <1>2, <1>3, <1>5, ReaderStep DEF device
<1>7. total \in Nat /\ BufSize \in Nat
  BY <1>2, EndsGrow, SetupAssumption
<1>8. Chosen' = Chosen /\ TotalLength(interfaces)' = total /\ EPConfig' = EPConfig
  BY <1>1 DEF Chosen, FirstSupported, EPConfig
<1>9. DOMAIN contexts' = {} /\ contexts' = <<>> /\ ep_interrupt' = [in |-> 0, out |-> 0]
  BY <1>1, <1>2
<1>10. CASE ~(HasNext /\ ~NextIsCut) /\ pc' = "undefined" /\ UNCHANGED <<ep_configs, class_drivers>>
  <2>1. total > BufSize
    BY <1>6, <1>7, <1>10
  <2>2. Ended'
    BY <1>8, <1>10, <2>1 DEF Ended
  <2>3. Types'
    BY <1>1, <1>8, <1>10 DEF Inv, Types
  <2> QED
    BY <1>9, <1>10, <2>2, <2>3
       DEF Inv, Walk, Searching, Collected, Counted, Connected, Contexts, Bound, Known
<1>11. CASE /\ HasNext /\ ~NextIsCut
            /\ LET d == DescriptorAt(at')
               IN  IF d.type = "endpoint"
                   THEN StoreEndpoint(d)
                   ELSE UNCHANGED <<pc, ep_configs, class_drivers>>
            /\ pc' = pc
  <2> DEFINE d == DescriptorAt(n)
  <2>1. Place(at)' /\ p' = Start(at)' /\ NextP' <= len' /\ pc' = "endpoint"
    BY <1>1, <1>6, <1>11
  <2>0. IF d.type = "endpoint"
        THEN /\ ep_configs' = Append(ep_configs, MakeEPConfig(d))
             /\ class_drivers' = [class_drivers EXCEPT ![d.number] = driver]
        ELSE UNCHANGED <<ep_configs, class_drivers>>
    <3>1. DescriptorAt(at') = d
      BY <1>6
    <3>2. pc' # "undefined"
      BY <2>1
    <3> HIDE DEF d
    <3> QED
      BY <1>11, <3>1, <3>2 DEF StoreEndpoint
  <2>2. /\ n.index <= 2 => d.type = "hid"
        /\ n.index > 2 => d = f.endpoints[n.index - 2] /\ d.type = "endpoint"
    <3>1. n.interface # 0 /\ f = interfaces[n.interface] /\ n.index \in Nat /\ n.index > 1
      BY <1>3, <1>4, <1>6
    <3>2. n.index > 1 /\ n.index <= Headers(f) => d.type = "hid"
      BY <1>2, <1>6, <3>1, DescriptorKinds
    <3>3. n.index > Headers(f) => d = f.endpoints[n.index - Headers(f)] /\ d.type = "endpoint"
      BY <1>2, <1>6, <3>1, DescriptorKinds
    <3> QED
      BY <1>3, <3>1, <3>2, <3>3
  <2>3. n.index > 2 => m + 1 = n.index - 2
    BY <1>2, <1>4, <1>6
  <2>4. Types' /\ Collected' /\ Len(ep_configs') = IF n.index <= 2 THEN 0 ELSE n.index - 2
    <3>1. CASE n.index <= 2
      <4>1. UNCHANGED <<ep_configs, class_drivers>>
        BY <2>0, <2>2, <3>1
      <4>2. m = 0
        BY <1>2, <1>4, <1>6, <3>1
      <4>3. Types' /\ Collected'
        BY <1>1, <1>8, <1>11, <4>1
           DEF Inv, Types, Collected, FirstSupported, MakeEPConfig, Bound
      <4> QED
        BY <3>1, <4>1, <4>2, <4>3
    <3>2. CASE n.index > 2
      <4>1. /\ ep_configs' = Append(ep_configs, MakeEPConfig(d))
            /\ class_drivers' = [class_drivers EXCEPT ![d.number] = driver]
        BY <2>0, <2>2, <3>2
      <4>2. d = f.endpoints[m + 1]
        BY <2>2, <2>3, <3>2
      <4>3. UNCHANGED <<interfaces, timing, pc, driver, num_endpoints>>
        BY <1>1, <1>11
      <4> HIDE DEF d
      <4>4. Types' /\ Collected' /\ Len(ep_configs') = m + 1
        BY <1>1, <4>1, <4>2, <4>3, CollectOne
      <4> QED
        BY <1>4, <1>6, <2>3, <3>2, <4>4
    <3> QED
      BY <1>4, <1>6, <3>1, <3>2
  <2>5. Counted'
    BY <1>1, <1>6, <2>1, <2>4 DEF Counted
  <2>6. Walk'
    BY <2>1 DEF Walk
  <2> QED
    BY <1>9, <2>1, <2>4, <2>5, <2>6 DEF Inv, Searching, Connected, Contexts, Ended, Known
<1>12. CASE /\ pc' # pc
            /\ LET d == DescriptorAt(at')
               IN  IF d.type = "endpoint"
                   THEN StoreEndpoint(d)
                   ELSE UNCHANGED <<pc, ep_configs, class_drivers>>
  <2>1. /\ pc' = "undefined" /\ UNCHANGED <<ep_configs, class_drivers>>
        /\ ~(m < ConfigEntries)
    BY <1>12 DEF StoreEndpoint
  <2>2. Len(f.endpoints) > ConfigEntries
    BY <1>1, <1>2, <1>3, <1>4, <2>1, SetupAssumption
  <2>3. f = interfaces[Chosen]
    BY <1>2, ChosenIsFirst
  <2>4. Ended'
    BY <1>1, <1>8, <2>1, <2>2, <2>3 DEF Ended
  <2>5. Types'
    BY <1>1, <1>8, <2>1 DEF Inv, Types
  <2> QED
    BY <1>9, <2>1, <2>4, <2>5
       DEF Inv, Walk, Searching, Collected, Counted, Connected, Contexts, Bound, Known
<1> QED
  BY <1>10, <1>11, <1>12 DEF NextEndpoint

\* What SetEndpoint, called for the first k endpoints, has stored.
Stored(e, k) ==
  IF e.in = 0
  THEN \A i \in 1 .. k : ~(ep_configs[i].ep_type = "interrupt" /\ IsIn(ep_configs[i].ep_id))
  ELSE \E i \in 1 .. k : /\ ep_configs[i].ep_type = "interrupt" /\ IsIn(ep_configs[i].ep_id)
                         /\ ep_configs[i].ep_id = e.in

\* One more call.
LEMMA StoredByOne ==
  ASSUME NEW k \in Nat, k > 0, NEW e \in [in : Nat, out : Nat], Stored(e, k - 1),
         NEW c, c = ep_configs[k], c.ep_id \in 2 .. 31
  PROVE  SetEndpoint(e, c) \in [in : Nat, out : Nat] /\ Stored(SetEndpoint(e, c), k)
<1> DEFINE n == SetEndpoint(e, c)
<1>1. k \in 1 .. k /\ (\A i \in 1 .. k : i \in 1 .. k - 1 \/ i = k)
      /\ \A i \in 1 .. k - 1 : i \in 1 .. k
  OBVIOUS
<1>2. CASE c.ep_type = "interrupt" /\ IsIn(c.ep_id)
  <2>1. n = [e EXCEPT !.in = c.ep_id]
    BY <1>2 DEF SetEndpoint
  <2>2. n \in [in : Nat, out : Nat] /\ n.in = c.ep_id /\ n.in # 0
    BY <2>1
  <2> HIDE DEF n
  <2>3. Stored(n, k)
    BY <1>1, <1>2, <2>2 DEF Stored
  <2> QED
    BY <2>2, <2>3 DEF n
<1>3. CASE ~(c.ep_type = "interrupt" /\ IsIn(c.ep_id))
  <2>1. n = IF c.ep_type = "interrupt" THEN [e EXCEPT !.out = c.ep_id] ELSE e
    BY <1>3 DEF SetEndpoint
  <2>2. n \in [in : Nat, out : Nat] /\ n.in = e.in
    BY <2>1
  <2> HIDE DEF n
  <2>3. Stored(n, k)
    <3>1. CASE e.in = 0
      <4>1. \A i \in 1 .. k - 1 : ~(ep_configs[i].ep_type = "interrupt" /\ IsIn(ep_configs[i].ep_id))
        BY <3>1 DEF Stored
      <4> QED
        BY <1>1, <1>3, <2>2, <3>1, <4>1 DEF Stored
    <3>2. CASE e.in # 0
      <4>1. PICK i \in 1 .. k - 1 : /\ ep_configs[i].ep_type = "interrupt" /\ IsIn(ep_configs[i].ep_id)
                                    /\ ep_configs[i].ep_id = e.in
        BY <3>2 DEF Stored
      <4>2. i \in 1 .. k
        BY <1>1
      <4> QED
        BY <2>2, <3>2, <4>1, <4>2 DEF Stored
    <3> QED
      BY <3>1, <3>2
  <2> QED
    BY <2>2, <2>3 DEF n
<1> QED
  BY <1>2, <1>3

\* All of them.
LEMMA StoredByAll ==
  ASSUME ep_configs \in Seq(EPConfig), ep_interrupt = [in |-> 0, out |-> 0],
         InitializePhase3
  PROVE  Stored(ep_interrupt', Len(ep_configs))
<1> DEFINE S == [in : Nat, out : Nat]
           m == Len(ep_configs)
           b == ep_interrupt
           step(i, x) == SetEndpoint(x, ep_configs[i])
           G == [i \in Nat |-> [x \in S |-> IF i \in 1 .. m THEN step(i, x) ELSE x]]
           F == CHOOSE f : f = [i \in 0 .. m |-> IF i = 0 THEN b ELSE step(i, f[i - 1])]
<1>1. m \in Nat
  BY LenProperties
<1>2. b \in S /\ Stored(b, 0)
  BY DEF Stored
<1>3. \A i \in 1 .. m : ep_configs[i].ep_id \in 2 .. 31
  <2> TAKE i \in 1 .. m
  <2>1. ep_configs[i] \in EPConfig
    BY ElementOfSeq
  <2> QED
    BY <2>1 DEF EPConfig
<1>4. ep_interrupt' = F[m]
  BY DEF InitializePhase3
<1> HIDE DEF m, b
<1>5. \A i \in 1 .. m, x \in S : Stored(x, i - 1) => step(i, x) \in S /\ Stored(step(i, x), i)
  <2> TAKE i \in 1 .. m, x \in S
  <2> HAVE Stored(x, i - 1)
  <2>1. i \in Nat /\ i > 0 /\ ep_configs[i].ep_id \in 2 .. 31
    BY <1>1, <1>3
  <2> QED
    BY <2>1, StoredByOne
<1>6. \A i \in 1 .. m, x \in S : step(i, x) \in S
  <2> TAKE i \in 1 .. m, x \in S
  <2> DEFINE c == ep_configs[i]
             v == c.ep_id
  <2>1. v \in Nat
    <3>1. v \in 2 .. 31
      BY <1>3
    <3> HIDE DEF v
    <3> QED
      BY <3>1
  <2>2. SetEndpoint(x, c) \in {[x EXCEPT !.in = v], [x EXCEPT !.out = v], x}
    <3>1. CASE c.ep_type = "interrupt" /\ IsIn(c.ep_id)
      BY <3>1 DEF SetEndpoint
    <3>2. CASE c.ep_type = "interrupt" /\ ~IsIn(c.ep_id)
      BY <3>2 DEF SetEndpoint
    <3>3. CASE c.ep_type # "interrupt"
      BY <3>3 DEF SetEndpoint
    <3> QED
      BY <3>1, <3>2, <3>3
  <2> HIDE DEF c, v
  <2>3. [x EXCEPT !.in = v] \in S /\ [x EXCEPT !.out = v] \in S
    BY <2>1
  <2>4. SetEndpoint(x, c) \in S
    <3> HIDE DEF S
    <3> QED
      BY <2>2, <2>3
  <2> QED
    BY <2>4 DEF c
<1> HIDE DEF step, S
<1>7. G \in [Nat -> [S -> S]]
  BY <1>6
<1>8. PICK f \in [0 .. m -> S] : RecursiveOn(f, m, b, G)
  <2> HIDE DEF G
  <2> QED
    BY <1>1, <1>2, <1>7, RecursionExists
<1>9. \A i \in 1 .. m : f[i] = step(i, f[i - 1])
  <2> TAKE i \in 1 .. m
  <2>1. f[i] = G[i][f[i - 1]] /\ i \in Nat /\ f[i - 1] \in S
    <3> HIDE DEF G
    <3> QED
      BY <1>1, <1>8 DEF RecursiveOn
  <2> QED
    BY <2>1
<1>10. f = [i \in 0 .. m |-> IF i = 0 THEN b ELSE step(i, f[i - 1])]
  <2>1. f[0] = b
    BY <1>8 DEF RecursiveOn
  <2> HIDE DEF G
  <2> QED
    BY <1>1, <1>8, <1>9, <2>1
<1>11. F = [i \in 0 .. m |-> IF i = 0 THEN b ELSE step(i, F[i - 1])]
  BY <1>10
<1> HIDE DEF F, G
<1>12. F[0] = b /\ \A i \in 1 .. m : F[i] = step(i, F[i - 1])
  BY <1>1, <1>11
<1> DEFINE T == {i \in 0 .. m : F[i] \in S /\ Stored(F[i], i)}
<1>13. 0 \in T
  BY <1>1, <1>2, <1>12
<1>14. ASSUME NEW i \in 1 .. m, i - 1 \in T PROVE i \in T
  <2>1. F[i - 1] \in S /\ Stored(F[i - 1], i - 1)
    BY <1>14
  <2>2. step(i, F[i - 1]) \in S /\ Stored(step(i, F[i - 1]), i)
    BY <1>5, <2>1
  <2>3. F[i] = step(i, F[i - 1]) /\ i \in 0 .. m
    BY <1>1, <1>12
  <2> QED
    BY <2>2, <2>3
<1>15. 0 .. m \subseteq T
  <2> HIDE DEF T
  <2> QED
    BY <1>1, <1>13, <1>14, BoundedInduction
<1>16. m \in T
  <2> HIDE DEF T
  <2> QED
    BY <1>1, <1>15
<1> QED
  BY <1>4, <1>16 DEF m

\* SetEndpoint for each of the endpoints.
LEMMA InitializePhase3Inv == Inv /\ InitializePhase3 => Inv'
<1> SUFFICES ASSUME Inv, InitializePhase3 PROVE Inv'
  OBVIOUS
<1>1. /\ pc = "endpoint" /\ pc' = "configure" /\ ~(Len(ep_configs) < num_endpoints)
      /\ UNCHANGED <<interfaces, timing, at, p, driver, num_endpoints, ep_configs, class_drivers, contexts>>
  BY DEF InitializePhase3, MoreEndpoints, device, reader
<1>2. /\ ep_configs \in Seq(EPConfig) /\ ep_interrupt = [in |-> 0, out |-> 0] /\ contexts = <<>>
      /\ FirstSupported(driver) /\ num_endpoints = Len(interfaces[driver].endpoints)
      /\ Len(ep_configs) <= num_endpoints
      /\ interfaces \in Configurations /\ Distinct(interfaces)
  BY <1>1 DEF Inv, Types, Connected, Contexts, Collected, Bound
<1>3. Len(ep_configs) = num_endpoints
  <2>1. Len(ep_configs) \in Nat /\ num_endpoints \in Nat
    BY <1>2, LenProperties, EndpointFacts
  <2> QED
    BY <1>1, <1>2, <2>1
<1>4. Stored(ep_interrupt', Len(ep_configs))
  BY <1>2, StoredByAll
<1>5. EPConfig' = EPConfig
  BY <1>1 DEF EPConfig
<1>6. Types' /\ Collected'
  BY <1>1, <1>5 DEF Inv, Types, Collected, Bound, FirstSupported, MakeEPConfig
<1>7. Connected'
  BY <1>1, <1>3, <1>4 DEF Connected, Stored, Known
<1>8. Contexts'
  <2>1. contexts' = <<>> /\ DOMAIN contexts' = {}
    BY <1>1, <1>2
  <2> QED
    BY <1>1, <2>1 DEF Contexts
<1> QED
  BY <1>1, <1>6, <1>7, <1>8 DEF Inv, Walk, Searching, Counted, Ended

\* No two endpoints share a context.
LEMMA OwnContext ==
  ASSUME ep_configs \in Seq(EPConfig), NEW k \in 1 .. Len(ep_configs),
         \A i, j \in 1 .. Len(ep_configs) : ep_configs[i].ep_id = ep_configs[j].ep_id => i = j
  PROVE  LastFor(ep_configs[k].ep_id) = ep_configs[k]
<1> DEFINE P(i) == /\ DeviceContextIndex(ep_configs[i].ep_id) = ep_configs[k].ep_id
                   /\ \A j \in DOMAIN ep_configs :
                        DeviceContextIndex(ep_configs[j].ep_id) = ep_configs[k].ep_id => j <= i
<1>1. DOMAIN ep_configs = 1 .. Len(ep_configs) /\ Len(ep_configs) \in Nat
  BY LenProperties
<1>2. P(k)
  BY <1>1 DEF DeviceContextIndex
<1>3. ASSUME NEW i \in DOMAIN ep_configs, P(i) PROVE i = k
  BY <1>1, <1>3 DEF DeviceContextIndex
<1>4. LastFor(ep_configs[k].ep_id) = ep_configs[CHOOSE i \in DOMAIN ep_configs : P(i)]
  BY DEF LastFor
<1>5. k \in DOMAIN ep_configs
  BY <1>1
<1> HIDE DEF P
<1>6. (CHOOSE i \in DOMAIN ep_configs : P(i)) = k
  BY <1>2, <1>3, <1>5
<1> QED
  BY <1>4, <1>6

\* A context for each of the endpoints.
LEMMA ConfigureEndpointsInv == Inv /\ ConfigureEndpoints => Inv'
<1> SUFFICES ASSUME Inv, ConfigureEndpoints PROVE Inv'
  OBVIOUS
<1> DEFINE m == Len(ep_configs)
           D == {DeviceContextIndex(ep_configs[i].ep_id) : i \in DOMAIN ep_configs}
<1>1. /\ pc = "configure" /\ pc' = "poll"
      /\ contexts' = [dci \in D |-> EndpointContext(LastFor(dci))]
      /\ UNCHANGED <<interfaces, timing, at, p, driver, num_endpoints, ep_configs, class_drivers,
                     ep_interrupt>>
  BY DEF ConfigureEndpoints, device, reader
<1>2. /\ ep_configs \in Seq(EPConfig)
      /\ \A i, j \in 1 .. m : ep_configs[i].ep_id = ep_configs[j].ep_id => i = j
  BY DEF Inv, Types
<1>3. D = {ep_configs[i].ep_id : i \in 1 .. m}
  BY <1>2, LenProperties DEF DeviceContextIndex
<1> HIDE DEF D, m
<1>4. ASSUME NEW i \in 1 .. m
      PROVE  ep_configs[i].ep_id \in D /\ contexts'[ep_configs[i].ep_id] = EndpointContext(ep_configs[i])
  <2>1. ep_configs[i].ep_id \in D
    BY <1>3
  <2>2. LastFor(ep_configs[i].ep_id) = ep_configs[i]
    BY <1>2, OwnContext DEF m
  <2> QED
    BY <1>1, <2>1, <2>2
<1>5. Contexts'
  <2>1. DOMAIN contexts' = D /\ Len(ep_configs') = m /\ ep_configs' = ep_configs
    BY <1>1 DEF m
  <2>2. ASSUME NEW dci \in D
        PROVE  \E i \in 1 .. m : ep_configs[i].ep_id = dci /\ contexts'[dci] = EndpointContext(ep_configs[i])
    <3>1. PICK i \in 1 .. m : ep_configs[i].ep_id = dci
      BY <1>3
    <3> QED
      BY <1>4, <3>1
  <2>3. \A i \in 1 .. m : EndpointContext(ep_configs[i])' = EndpointContext(ep_configs[i])
    BY <1>1 DEF EndpointContext
  <2>4. \A dci \in DOMAIN contexts' : \E i \in 1 .. Len(ep_configs') :
          ep_configs'[i].ep_id = dci /\ contexts'[dci] = EndpointContext(ep_configs[i])'
    BY <2>1, <2>2, <2>3
  <2> QED
    BY <1>1, <1>4, <2>1, <2>4 DEF Contexts
<1>6. EPConfig' = EPConfig
  BY <1>1 DEF EPConfig
<1>7. Types' /\ Collected' /\ Connected'
  BY <1>1, <1>6
     DEF Inv, Types, Collected, Connected, Bound, Known, FirstSupported, MakeEPConfig
<1> QED
  BY <1>1, <1>5, <1>7 DEF Inv, Walk, Searching, Counted, Ended

\* The driver's first poll.
LEMMA InterruptInInv == Inv /\ InterruptIn => Inv'
<1> SUFFICES ASSUME Inv, InterruptIn PROVE Inv'
  OBVIOUS
<1>1. /\ pc = "poll"
      /\ pc' = IF ep_interrupt.in = 0 THEN "undefined" ELSE "polling"
      /\ UNCHANGED <<interfaces, timing, at, p, driver, num_endpoints, ep_configs, class_drivers,
                     ep_interrupt, contexts>>
  BY DEF InterruptIn, device, reader, DeviceContextIndex
<1>2. EPConfig' = EPConfig /\ Chosen' = Chosen
  BY <1>1 DEF EPConfig, Chosen, FirstSupported
<1>3. Types'
  BY <1>1, <1>2 DEF Inv, Types, Bound
<1>4. Contexts'
  BY <1>1 DEF Inv, Contexts, EndpointContext
<1>5. CASE ep_interrupt.in # 0
  <2>1. pc' = "polling"
    BY <1>1, <1>5
  <2>2. Collected' /\ Connected'
    BY <1>1, <1>5, <2>1
       DEF Inv, Collected, Connected, Bound, Known, FirstSupported, MakeEPConfig
  <2> QED
    BY <1>3, <1>4, <2>1, <2>2 DEF Inv, Walk, Searching, Counted, Ended
<1>6. CASE ep_interrupt.in = 0
  <2>1. pc' = "undefined"
    BY <1>1, <1>6
  <2>2. /\ interfaces \in Configurations /\ Distinct(interfaces) /\ FirstSupported(driver)
        /\ Len(ep_configs) = Len(interfaces[driver].endpoints)
        /\ \A i \in 1 .. Len(ep_configs) :
             /\ ep_configs[i] = MakeEPConfig(interfaces[driver].endpoints[i])
             /\ ~(ep_configs[i].ep_type = "interrupt" /\ IsIn(ep_configs[i].ep_id))
    BY <1>1, <1>6 DEF Inv, Types, Collected, Connected, Bound, Known
  <2>3. driver = Chosen
    BY <2>2, ChosenIsFirst
  <2>4. ~HasInterruptIn(interfaces[driver])
    <3> DEFINE e == interfaces[driver].endpoints
    <3>1. Len(e) \in Nat /\ e \in [1 .. Len(e) -> EndpointDescriptor]
      BY <2>2, EndpointFacts
    <3>2. ASSUME NEW i \in 1 .. Len(e) PROVE ~(e[i].transfer = "interrupt" /\ e[i].dir_in)
      <4>1. e[i] \in EndpointDescriptor
        BY <3>1
      <4>2. ep_configs[i].ep_type = e[i].transfer /\ ep_configs[i].ep_id = AddressOf(e[i])
        BY <2>2, <4>1, ConfigFacts
      <4>3. IsIn(AddressOf(e[i])) <=> e[i].dir_in
        BY <4>1, AddressFacts
      <4> QED
        BY <2>2, <4>2, <4>3
    <3>3. DOMAIN e = 1 .. Len(e)
      BY <3>1
    <3> QED
      BY <3>2, <3>3 DEF HasInterruptIn
  <2>5. Ended'
    BY <1>1, <1>2, <2>1, <2>3, <2>4 DEF Ended
  <2> QED
    BY <1>1, <1>3, <1>4, <2>1, <2>5
       DEF Inv, Walk, Searching, Collected, Counted, Connected, Bound, Known
<1> QED
  BY <1>5, <1>6

\* Nothing happens.
LEMMA StutterInv == Inv /\ UNCHANGED vars => Inv'
<1> SUFFICES ASSUME Inv, UNCHANGED vars PROVE Inv'
  OBVIOUS
<1>1. UNCHANGED <<interfaces, timing, pc, p, at, driver, num_endpoints, ep_configs, class_drivers,
                  ep_interrupt, contexts>>
  BY DEF vars, device, reader
<1>2. EPConfig' = EPConfig /\ Chosen' = Chosen
  BY <1>1 DEF EPConfig, Chosen, FirstSupported
<1>3. Types'
  BY <1>1, <1>2 DEF Inv, Types
<1>4. Walk'
  BY <1>1 DEF Inv, Walk, Place, Start, NextP, DescriptorAt, len
<1>5. Searching' /\ Collected' /\ Counted' /\ Connected'
  BY <1>1 DEF Inv, Searching, Collected, Counted, Connected, FirstSupported, MakeEPConfig
<1>6. Contexts'
  BY <1>1 DEF Inv, Contexts, EndpointContext
<1>7. Ended'
  BY <1>1, <1>2 DEF Inv, Ended
<1> QED
  BY <1>3, <1>4, <1>5, <1>6, <1>7 DEF Inv

\* The invariant is inductive.
LEMMA NextInv == Inv /\ [Next]_vars => Inv'
<1> SUFFICES ASSUME Inv, [Next]_vars PROVE Inv'
  OBVIOUS
<1>1. CASE NextInterface
  BY <1>1, NextInterfaceInv
<1>2. CASE NextEndpoint
  BY <1>2, NextEndpointInv
<1>3. CASE InitializePhase3
  BY <1>3, InitializePhase3Inv
<1>4. CASE ConfigureEndpoints
  BY <1>4, ConfigureEndpointsInv
<1>5. CASE InterruptIn
  BY <1>5, InterruptInInv
<1>6. CASE UNCHANGED vars
  BY <1>6, StutterInv
<1> QED
  BY <1>1, <1>2, <1>3, <1>4, <1>5, <1>6 DEF Next

\* It holds in every reachable state.
LEMMA InvHolds == Spec => []Inv
  BY InitInv, NextInv, PTL DEF Spec

--------------------------------------------------------------------------------
(* What the invariant implies.                                                *)

\* The walk never leaves the buffer, and for an interface with no more endpoints than
\* ep_configs_ has entries, of which one is an interrupt IN endpoint, in a
\* configuration that fits the buffer, it reads no null pointer, stores nothing behind
\* an array, and the poll finds its ring (usb/device.cpp:23-31, :272-329,
\* usb/device.hpp:86, usb/xhci/device.cpp:269).
THEOREM Walks == Spec => []WalkSafe
<1>1. Inv => WalkSafe
  <2> SUFFICES ASSUME Inv PROVE WalkSafe
    OBVIOUS
  <2>1. pc \in {"interface", "endpoint"} => NextP <= len
    BY DEF Inv, Walk
  <2>2. ASSUME NEW dci \in DOMAIN contexts PROVE dci \in 2 .. 31
    <3>1. PICK i \in 1 .. Len(ep_configs) : ep_configs[i].ep_id = dci
      BY <2>2 DEF Inv, Contexts
    <3>2. ep_configs[i] \in EPConfig
      BY <3>1, ElementOfSeq DEF Inv, Types
    <3> QED
      BY <3>1, <3>2 DEF EPConfig
  <2> QED
    BY <2>1, <2>2 DEF Inv, Ended, WalkSafe
<1> QED
  BY <1>1, InvHolds, PTL

\* What each collected endpoint is.
LEMMA CollectedFacts ==
  ASSUME Inv, pc \in Known
  PROVE  /\ driver = Chosen
         /\ Len(ep_configs) = Len(interfaces[driver].endpoints) /\ Len(ep_configs) \in Nat
         /\ DOMAIN ep_configs = 1 .. Len(ep_configs)
         /\ DOMAIN interfaces[driver].endpoints = 1 .. Len(ep_configs)
         /\ \A i \in 1 .. Len(ep_configs) :
              /\ interfaces[driver].endpoints[i] \in EndpointDescriptor
              /\ ep_configs[i].ep_id = AddressOf(interfaces[driver].endpoints[i])
<1>1. pc \in Bound
  BY DEF Known, Bound
<1>2. /\ interfaces \in Configurations /\ Distinct(interfaces) /\ FirstSupported(driver)
      /\ Len(ep_configs) = Len(interfaces[driver].endpoints)
      /\ ep_configs \in Seq(EPConfig)
      /\ \A i \in 1 .. Len(ep_configs) : ep_configs[i] = MakeEPConfig(interfaces[driver].endpoints[i])
  BY <1>1 DEF Inv, Types, Collected, Connected
<1>3. /\ Len(interfaces[driver].endpoints) \in Nat
      /\ interfaces[driver].endpoints \in [1 .. Len(interfaces[driver].endpoints) -> EndpointDescriptor]
  BY <1>2, EndpointFacts
<1>4. ASSUME NEW i \in 1 .. Len(ep_configs)
      PROVE  /\ interfaces[driver].endpoints[i] \in EndpointDescriptor
             /\ ep_configs[i].ep_id = AddressOf(interfaces[driver].endpoints[i])
  <2>1. interfaces[driver].endpoints[i] \in EndpointDescriptor
    BY <1>2, <1>3
  <2> QED
    BY <1>2, <2>1, ConfigFacts
<1>5. driver = Chosen
  BY <1>2, ChosenIsFirst
<1>6. DOMAIN ep_configs = 1 .. Len(ep_configs)
  BY <1>2, LenProperties
<1>7. DOMAIN interfaces[driver].endpoints = 1 .. Len(ep_configs)
  BY <1>2, <1>3
<1> QED
  BY <1>2, <1>3, <1>4, <1>5, <1>6, <1>7

\* The endpoints configured and the numbers bound are those of the first supported
\* interface, and a device that has one is not given up (usb/device.cpp:282-316).
THEOREM Interfaces == Spec => []RightInterface
<1>1. Inv => RightInterface
  <2> SUFFICES ASSUME Inv PROVE RightInterface
    OBVIOUS
  <2>1. pc = "unsupported" => Chosen = 0 \/ TotalLength(interfaces) > BufSize
    BY DEF Inv, Ended
  <2>2. ASSUME pc \in Known
        PROVE  /\ driver = Chosen
               /\ [i \in DOMAIN ep_configs |-> ep_configs[i].ep_id]
                    = [i \in DOMAIN interfaces[Chosen].endpoints |->
                         AddressOf(interfaces[Chosen].endpoints[i])]
               /\ \A n \in EndpointNumbers :
                    class_drivers[n] = IF \E i \in DOMAIN ep_configs : Number(ep_configs[i].ep_id) = n
                                       THEN Chosen ELSE 0
    <3>1. /\ driver = Chosen
          /\ DOMAIN ep_configs = 1 .. Len(ep_configs)
          /\ DOMAIN interfaces[Chosen].endpoints = 1 .. Len(ep_configs)
          /\ \A i \in 1 .. Len(ep_configs) :
               ep_configs[i].ep_id = AddressOf(interfaces[Chosen].endpoints[i])
      BY <2>2, CollectedFacts
    <3>2. [i \in DOMAIN ep_configs |-> ep_configs[i].ep_id]
            = [i \in DOMAIN interfaces[Chosen].endpoints |->
                 AddressOf(interfaces[Chosen].endpoints[i])]
      BY <3>1
    <3>3. pc \in Bound
      BY <2>2 DEF Known, Bound
    <3>4. \A n \in EndpointNumbers :
            class_drivers[n] = IF \E i \in 1 .. Len(ep_configs) : Number(ep_configs[i].ep_id) = n
                               THEN driver ELSE 0
      BY <3>3 DEF Inv, Collected
    <3> QED
      BY <3>1, <3>2, <3>4
  <2> QED
    BY <2>1, <2>2 DEF RightInterface, Known
<1> QED
  BY <1>1, InvHolds, PTL

\* The driver polls an interrupt IN endpoint of its own that has a ring
\* (usb/classdriver/hid.cpp:23-34, usb/xhci/device.cpp:260-285).
THEOREM Polls == Spec => []PollFinds
<1>1. Inv => PollFinds
  <2> SUFFICES ASSUME Inv, pc = "polling" PROVE PollFinds
    BY DEF PollFinds
  <2>1. pc \in Known /\ pc \in Bound
    BY DEF Known, Bound
  <2>2. PICK i \in 1 .. Len(ep_configs) :
          /\ ep_configs[i].ep_type = "interrupt" /\ IsIn(ep_configs[i].ep_id)
          /\ ep_configs[i].ep_id = ep_interrupt.in
    BY <2>1 DEF Inv, Connected
  <2>3. ep_interrupt.in \in DOMAIN contexts
    BY <2>2 DEF Inv, Contexts
  <2>4. contexts[ep_interrupt.in] = EndpointContext(ep_configs[i])
    <3>1. PICK j \in 1 .. Len(ep_configs) :
            ep_configs[j].ep_id = ep_interrupt.in
              /\ contexts[ep_interrupt.in] = EndpointContext(ep_configs[j])
      BY <2>3 DEF Inv, Contexts
    <3>2. j = i
      BY <2>2, <3>1 DEF Inv, Types
    <3> QED
      BY <3>1, <3>2
  <2>5. contexts[ep_interrupt.in].ep_type = 7
    <3>1. contexts[ep_interrupt.in].ep_type = EpType(ep_configs[i].ep_type, IsIn(ep_configs[i].ep_id))
      BY <2>4 DEF EndpointContext
    <3>2. EpType("interrupt", TRUE) = 7
      BY DEF EpType
    <3>3. IsIn(ep_configs[i].ep_id) = TRUE
      BY <2>2 DEF IsIn
    <3> QED
      BY <2>2, <3>1, <3>2, <3>3
  <2>6. class_drivers[Number(ep_interrupt.in)] = driver
    <3> DEFINE d == interfaces[driver].endpoints[i]
    <3>1. d \in EndpointDescriptor /\ ep_configs[i].ep_id = AddressOf(d)
      BY <2>1, CollectedFacts
    <3>2. Number(ep_interrupt.in) \in EndpointNumbers
      BY <2>2, <3>1, AddressFacts
    <3>3. \A n \in EndpointNumbers :
            class_drivers[n] = IF \E k \in 1 .. Len(ep_configs) : Number(ep_configs[k].ep_id) = n
                               THEN driver ELSE 0
      BY <2>1 DEF Inv, Collected
    <3> QED
      BY <2>2, <3>2, <3>3
  <2> QED
    BY <2>3, <2>5, <2>6 DEF PollFinds
<1> QED
  BY <1>1, InvHolds, PTL

\* Each power of two is twice the one before.
LEMMA Doubling ==
  ASSUME NEW i \in 0 .. 18
  PROVE  2 ^ i \in Nat \ {0} /\ 2 ^ (i + 1) = 2 * 2 ^ i
<1> DEFINE P(k) == 2 ^ k
<1>1. /\ P(0) = 1 /\ P(1) = 2 /\ P(2) = 4 /\ P(3) = 8 /\ P(4) = 16 /\ P(5) = 32
      /\ P(6) = 64 /\ P(7) = 128 /\ P(8) = 256 /\ P(9) = 512 /\ P(10) = 1024 /\ P(11) = 2048
      /\ P(12) = 4096 /\ P(13) = 8192 /\ P(14) = 16384 /\ P(15) = 32768 /\ P(16) = 65536 /\ P(17) = 131072
      /\ P(18) = 262144 /\ P(19) = 524288
  OBVIOUS
<1>2. \/ i = 0 \/ i = 1 \/ i = 2 \/ i = 3 \/ i = 4 \/ i = 5 \/ i = 6 \/ i = 7 \/ i = 8 \/ i = 9
      \/ i = 10 \/ i = 11 \/ i = 12 \/ i = 13 \/ i = 14 \/ i = 15 \/ i = 16 \/ i = 17 \/ i = 18
  OBVIOUS
<1> HIDE DEF P
<1>3. P(i) \in Nat \ {0} /\ P(i + 1) = 2 * P(i)
  BY <1>1, <1>2
<1> QED
  BY <1>3 DEF P

\* The highest bit of a byte that is not zero.
LEMMA HighestBit ==
  ASSUME NEW v \in 1 .. 255
  PROVE  LET i == MostSignificantBit(v)
         IN  i \in 0 .. 7 /\ 2 ^ i <= v /\ v < 2 ^ (i + 1)
<1> DEFINE P(k) == 2 ^ k
<1>1. /\ P(0) = 1 /\ P(1) = 2 /\ P(2) = 4 /\ P(3) = 8 /\ P(4) = 16
      /\ P(5) = 32 /\ P(6) = 64 /\ P(7) = 128 /\ P(8) = 256
  OBVIOUS
<1>2. MostSignificantBit(v) = CHOOSE i \in 0 .. 7 : P(i) <= v /\ v < P(i + 1)
  <2>1. v # 0
    OBVIOUS
  <2> QED
    BY <2>1, Zenon DEF MostSignificantBit
<1> HIDE DEF P
<1>3. \E i \in 0 .. 7 : P(i) <= v /\ v < P(i + 1)
  <2>1. \/ v < 2 \/ (2 <= v /\ v < 4) \/ (4 <= v /\ v < 8) \/ (8 <= v /\ v < 16)
        \/ (16 <= v /\ v < 32) \/ (32 <= v /\ v < 64) \/ (64 <= v /\ v < 128) \/ 128 <= v
    OBVIOUS
  <2>2. \/ (P(0) <= v /\ v < P(0 + 1)) \/ (P(1) <= v /\ v < P(1 + 1))
        \/ (P(2) <= v /\ v < P(2 + 1)) \/ (P(3) <= v /\ v < P(3 + 1))
        \/ (P(4) <= v /\ v < P(4 + 1)) \/ (P(5) <= v /\ v < P(5 + 1))
        \/ (P(6) <= v /\ v < P(6 + 1)) \/ (P(7) <= v /\ v < P(7 + 1))
    BY <1>1, <2>1
  <2> QED
    BY <2>2
<1>4. MostSignificantBit(v) \in 0 .. 7 /\ P(MostSignificantBit(v)) <= v
      /\ v < P(MostSignificantBit(v) + 1)
  BY <1>2, <1>3
<1> QED
  BY <1>4 DEF P

\* The code of an interval says the period asked for, rounded down to a power of two.
LEMMA PeriodOfCode ==
  ASSUME NEW s, NEW t \in {"interrupt", "isochronous"}, NEW v \in 1 .. 255,
         LegalInterval(s, t, v), NEW x, x = ConvertInterval(s, t, v) % 256
  PROVE  2 ^ x <= AskedPeriod(s, t, v) /\ AskedPeriod(s, t, v) < 2 ^ (x + 1)
<1> DEFINE P(k) == 2 ^ k
<1>1. \A i \in 0 .. 18 : P(i) \in Nat \ {0} /\ P(i + 1) = 2 * P(i)
  BY Doubling
<1>2. CASE s \in {kFullSpeed, kLowSpeed} /\ t = "interrupt"
  <2> DEFINE i == MostSignificantBit(v)
  <2>1. i \in 0 .. 7 /\ P(i) <= v /\ v < P(i + 1)
    BY HighestBit
  <2>2. AskedPeriod(s, t, v) = 8 * v
    BY <1>2 DEF AskedPeriod
  <2>3. ConvertInterval(s, t, v) = i + 3
    BY <1>2 DEF ConvertInterval
  <2> HIDE DEF i, P
  <2>4. x = i + 3
    BY <2>1, <2>3
  <2>5. i + 1 \in 0 .. 18 /\ i + 2 \in 0 .. 18 /\ i + 3 \in 0 .. 18
        /\ (i + 1) + 1 = i + 2 /\ (i + 2) + 1 = i + 3
    BY <2>1
  <2>6. P(i + 3) = 8 * P(i) /\ P(i + 3 + 1) = 8 * P(i + 1) /\ P(i) \in Nat
    BY <1>1, <2>1, <2>5
  <2>7. P(x) <= 8 * v /\ 8 * v < P(x + 1)
    BY <1>1, <2>1, <2>4, <2>5, <2>6
  <2> QED
    BY <2>2, <2>7 DEF P
<1>3. CASE ~(s \in {kFullSpeed, kLowSpeed} /\ t = "interrupt")
  <2>1. v \in 1 .. 16
    BY <1>3 DEF LegalInterval
  <2>2. P(v - 1) \in Nat \ {0} /\ P(v) = 2 * P(v - 1) /\ P(v + 1) = 2 * P(v) /\ P(v + 2) = 2 * P(v + 1)
        /\ P(v + 3) = 2 * P(v + 2)
    <3>1. v - 1 \in 0 .. 18 /\ v \in 0 .. 18 /\ v + 1 \in 0 .. 18 /\ v + 2 \in 0 .. 18
          /\ (v - 1) + 1 = v /\ (v + 1) + 1 = v + 2 /\ (v + 2) + 1 = v + 3
      BY <2>1
    <3> HIDE DEF P
    <3> QED
      BY <1>1, <3>1
  <2>3. CASE s \in {kFullSpeed, kLowSpeed}
    <3>1. t = "isochronous"
      BY <1>3, <2>3
    <3>2. AskedPeriod(s, t, v) = 8 * P(v - 1)
      BY <2>3, <3>1 DEF AskedPeriod
    <3>3. ConvertInterval(s, t, v) = v + 2
      BY <2>3, <3>1 DEF ConvertInterval
    <3> HIDE DEF P
    <3>4. x = v + 2 /\ x + 1 = v + 3
      BY <2>1, <3>3
    <3>5. P(x) <= 8 * P(v - 1) /\ 8 * P(v - 1) < P(x + 1)
      BY <2>1, <2>2, <3>4
    <3> QED
      BY <3>2, <3>5 DEF P
  <2>4. CASE s \notin {kFullSpeed, kLowSpeed}
    <3>1. AskedPeriod(s, t, v) = P(v - 1)
      BY <2>4 DEF AskedPeriod
    <3>2. ConvertInterval(s, t, v) = v - 1
      BY <2>4 DEF ConvertInterval
    <3> HIDE DEF P
    <3>3. x = v - 1 /\ x + 1 = v
      BY <2>1, <3>2
    <3>4. P(x) <= P(v - 1) /\ P(v - 1) < P(x + 1)
      BY <2>1, <2>2, <3>3
    <3> QED
      BY <3>1, <3>4 DEF P
  <2> QED
    BY <2>3, <2>4
<1> QED
  BY <1>2, <1>3

\* No endpoint is polled less often than it asks for, or more than twice as often
\* (xhci.cpp:531-543).
THEOREM Periods == Spec => []PeriodFits
<1>1. Inv => PeriodFits
  <2> SUFFICES ASSUME Inv,
                      NEW dci \in DOMAIN contexts,
                      NEW i \in DOMAIN ep_configs,
                      NEW c, c = ep_configs[i],
                      c.ep_id = dci, c.ep_type # "bulk",
                      LegalInterval(timing.speed, c.ep_type, c.interval)
               PROVE  LET asked == AskedPeriod(timing.speed, c.ep_type, c.interval)
                      IN  /\ 2 ^ contexts[dci].interval <= asked
                          /\ asked < 2 ^ (contexts[dci].interval + 1)
    BY DEF PeriodFits
  <2>1. ep_configs \in Seq(EPConfig) /\ timing \in [speed : Speeds, interval : Intervals]
    BY DEF Inv, Types
  <2>2. i \in 1 .. Len(ep_configs)
    BY <2>1, LenProperties
  <2>3. c \in EPConfig
    BY <2>1, <2>2, ElementOfSeq
  <2>4. c.ep_type \in {"interrupt", "isochronous"} /\ c.interval \in 1 .. 255
    <3>1. /\ c.ep_type \in {"interrupt", "isochronous", "bulk"}
          /\ c.interval = timing.interval
      BY <2>3 DEF EPConfig
    <3>2. timing.interval \in Intervals
      BY <2>1
    <3>3. c.interval \in 1 .. 255
      BY <3>1, <3>2, SetupAssumption
    <3> QED
      BY <3>1, <3>3
  <2>5. contexts[dci] = EndpointContext(c)
    <3>1. PICK j \in 1 .. Len(ep_configs) :
            ep_configs[j].ep_id = dci /\ contexts[dci] = EndpointContext(ep_configs[j])
      BY DEF Inv, Contexts
    <3>2. j = i
      BY <2>2, <3>1 DEF Inv, Types
    <3> QED
      BY <3>1, <3>2
  <2>6. contexts[dci].interval = ConvertInterval(timing.speed, c.ep_type, c.interval) % 256
    BY <2>5 DEF EndpointContext
  <2> QED
    BY <2>4, <2>6, PeriodOfCode, SMTT(30)
<1> QED
  BY <1>1, InvHolds, PTL

================================================================================
