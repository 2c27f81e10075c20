--------------------------- MODULE HidReports_proofs ---------------------------
(***************************************************************************)
(* The polling of a keyboard with any number of slots, or of a mouse, for  *)
(* any reports and any number of transfers: the four invariants of         *)
(* HidReports.                                                             *)
(*                                                                         *)
(* None of them is inductive.  What they rest on is that exactly one of    *)
(* the controller and the driver holds the buffer (Turn), what the two     *)
(* buffers hold for as long as a report is pending (Pending, Buffers),     *)
(* what the keyboard has pushed (Pushed), and where the cursor is going    *)
(* (Cursor).                                                               *)
(***************************************************************************)
EXTENDS HidReports, SequenceTheorems, WellFoundedInduction, TLAPS

--------------------------------------------------------------------------------
(* Induction.                                                              *)

(* A set of natural numbers has a least element.                           *)
LEMMA LeastNat ==
    ASSUME NEW T, T \subseteq Nat, T # {}
    PROVE  \E x \in T : \A y \in T : x <= y
<1>1. PICK x \in T : \A y \in T : ~(<<y, x>> \in OpToRel(<, Nat))
  BY WFMin, NatLessThanWellFounded
<1>2. \A y \in T : ~(y < x)
  BY <1>1 DEF OpToRel
<1> QED
  BY <1>2

(* A set with 0 and the successors of its elements has all of Nat.         *)
LEMMA SetInduction ==
    ASSUME NEW S, 0 \in S, \A n \in Nat : n \in S => n + 1 \in S
    PROVE  Nat \subseteq S
<1> SUFFICES ASSUME ~(Nat \subseteq S) PROVE FALSE
  OBVIOUS
<1>1. PICK x \in Nat \ S : \A y \in Nat \ S : x <= y
  <2>1. Nat \ S # {} /\ Nat \ S \subseteq Nat
    OBVIOUS
  <2> QED
    BY <2>1, LeastNat
<1>2. x # 0 /\ x - 1 \in Nat /\ x - 1 \in S
  BY <1>1
<1> QED
  BY <1>1, <1>2

(* The same for the numbers up to n.                                       *)
LEMMA BoundedInduction ==
    ASSUME NEW n \in Nat, NEW S, 0 \in S, \A i \in 1..n : i - 1 \in S => i \in S
    PROVE  0..n \subseteq S
<1> DEFINE T == {i \in Nat : i <= n => i \in S}
<1>1. 0 \in T
  OBVIOUS
<1>2. ASSUME NEW i \in Nat, i \in T PROVE i + 1 \in T
  <2> SUFFICES ASSUME i + 1 <= n PROVE i + 1 \in S
    OBVIOUS
  <2>1. i + 1 \in 1..n /\ (i + 1) - 1 = i /\ i \in S
    BY <1>2
  <2> QED
    BY <2>1
<1>3. Nat \subseteq T
  <2> HIDE DEF T
  <2> QED
    BY <1>1, <1>2, SetInduction
<1> QED
  BY <1>3

(* The value of f at 0 is b, and the function G[i] gives its value at i    *)
(* from its value at i - 1.                                                *)
RecursiveOn(f, m, b, G) == f[0] = b /\ \A i \in 1..m : f[i] = G[i][f[i - 1]]

(* A function on 0..m can be defined by recursion.                         *)
LEMMA RecursionExists ==
    ASSUME NEW S, NEW b \in S, NEW G \in [Nat -> [S -> S]], NEW m \in Nat
    PROVE  \E f \in [0..m -> S] : RecursiveOn(f, m, b, G)
<1> DEFINE P(n) == \E f \in [0..n -> S] :
                     f[0] = b /\ \A i \in 1..n : f[i] = G[i][f[i - 1]]
           T == {n \in Nat : P(n)}
<1>1. 0 \in T
  <2> DEFINE c == [i \in 0..0 |-> b]
  <2>1. c \in [0..0 -> S] /\ c[0] = b
    OBVIOUS
  <2>2. P(0)
    <3> HIDE DEF c
    <3> QED
      BY <2>1
  <2> QED
    BY <2>2
<1>2. ASSUME NEW n \in Nat, n \in T PROVE n + 1 \in T
  <2>1. PICK f \in [0..n -> S] : f[0] = b /\ \A i \in 1..n : f[i] = G[i][f[i - 1]]
    BY <1>2
  <2> DEFINE v == G[n + 1][f[n]]
             g == [i \in 0..(n + 1) |-> IF i = n + 1 THEN v ELSE f[i]]
  <2>2. v \in S
    BY <2>1
  <2>3. g \in [0..(n + 1) -> S]
    BY <2>1, <2>2
  <2>4. g[0] = b
    BY <2>1
  <2>5. ASSUME NEW i \in 1..(n + 1) PROVE g[i] = G[i][g[i - 1]]
    <3>1. CASE i = n + 1
      <4>1. g[i] = v /\ g[i - 1] = f[n]
        BY <3>1
      <4> QED
        BY <3>1, <4>1
    <3>2. CASE i \in 1..n
      <4>1. g[i] = f[i] /\ g[i - 1] = f[i - 1]
        BY <3>2
      <4> QED
        BY <2>1, <3>2, <4>1
    <3> QED
      BY <3>1, <3>2
  <2>6. P(n + 1)
    BY <2>3, <2>4, <2>5
  <2> QED
    BY <2>6
<1> HIDE DEF P
<1>3. Nat \subseteq T
  <2> HIDE DEF T
  <2> QED
    BY <1>1, <1>2, SetInduction
<1>4. P(m)
  BY <1>3
<1> QED
  BY <1>4 DEF P, RecursiveOn

--------------------------------------------------------------------------------
Slots == 2 .. 1 + KeySlots

Buffer == [Bytes -> 0 .. 255]

Vector == [x : Int, y : Int]

Events ==
  {<<>>} \union {<<e>> : e \in [code : {"success", "error"}, residual : 0 .. in_packet_size]}

TypeOK ==
  /\ kind \in {"keyboard", "mouse"}
  /\ buf \in Buffer
  /\ previous_buf \in Buffer
  /\ armed \in BOOLEAN
  /\ event \in Events
  /\ pc \in {"idle", "decode", "copy", "arm"}
  /\ len \in 0 .. in_packet_size
  /\ position \in Vector
  /\ transfers \in Nat
  /\ image[1] \in Buffer /\ image[2] \in Buffer
  /\ travel \in [full : BOOLEAN, sum : Vector]

\* Either a TRB is queued, or its event is, or the driver handles one.
Turn ==
  /\ armed => event = <<>>
  /\ armed \/ event # <<>> => pc = "idle"

\* The report whose first n bytes are in buf is not yet handled.
Pending(n) ==
  \/ /\ pc = "idle"
     /\ event # <<>>
     /\ event[1].code = "success"
     /\ n = in_packet_size - event[1].residual
  \/ pc \in {"decode", "copy"} /\ n = len

Quiet == \A n \in 0 .. in_packet_size : ~Pending(n)

\* Two slots with the same key, out of the first n bytes of a report.
Repeated(i, j, n) == i # j /\ i < n /\ j < n /\ buf[i] = buf[j]

\* The report before is in previous_buf until CopyToPrevious; bytes that the transfer
\* did not reach are still those of that report.
Buffers ==
  /\ buf = image[1]
  /\ Quiet => previous_buf = buf
  /\ kind = "keyboard" => buf[1] = 0 /\ previous_buf[1] = 0
  /\ \A n \in 0 .. in_packet_size :
       Pending(n) =>
         /\ previous_buf = image[2]
         /\ \A i \in Bytes : i >= n => buf[i] = previous_buf[i]
         /\ kind = "keyboard" =>
              \A i, j \in Slots : Repeated(i, j, n) => buf[i] \in {0, ErrorRollOver}

\* What OnDataReceived has pushed, as a set, and that it pushed nothing twice.
PushedKeys(s, n) ==
  /\ ToSet(s) = {buf[i] : i \in {j \in 2 .. n : IsNew(j)}}
  /\ ErrorRollOver \notin KeysIn(buf) => IsInjective(s)

Pushed == pc = "copy" /\ kind = "keyboard" => PushedKeys(pushed, 1 + KeySlots)

\* The cursor is behind what the mouse reported by the report that is not decoded.
Undecoded == pc = "decode" \/ (event # <<>> /\ event[1].code = "success")

Cursor ==
  travel.full =>
    IF kind = "mouse" /\ Undecoded
    THEN travel.sum = Plus(position, Displacement(buf))
    ELSE travel.sum = position

Inv == TypeOK /\ Turn /\ Buffers /\ Pushed /\ Cursor

--------------------------------------------------------------------------------
\* The sizes of the reports of both drivers.
LEMMA SizeFacts ==
  kind \in {"keyboard", "mouse"} =>
    /\ in_packet_size \in Nat /\ in_packet_size >= 3
    /\ kind = "keyboard" => in_packet_size = 2 + KeySlots
    /\ kind = "mouse" => in_packet_size = 3
    /\ KeySlots \in Nat
  BY HidAssumption DEF in_packet_size

\* Whatever a device reports are bytes.
LEMMA ReportType ==
  ASSUME NEW r \in Report, kind \in {"keyboard", "mouse"}
  PROVE  r \in Buffer
<1> USE DEF Buffer
<1>1. Modifiers \union Keys \union {0, ErrorRollOver} \subseteq 0 .. 255
  BY HidAssumption DEF ErrorRollOver
<1>2. Motions \union {0} \subseteq 0 .. 255
  BY HidAssumption
<1>3. CASE kind = "keyboard"
  <2>1. r \in [Bytes -> Modifiers \union Keys \union {0, ErrorRollOver}]
    BY <1>3 DEF Report
  <2> QED
    BY <1>1, <2>1
<1>4. CASE kind = "mouse"
  <2>1. r \in [Bytes -> Motions \union {0}]
    BY <1>4 DEF Report
  <2> QED
    BY <1>2, <2>1
<1> QED
  BY <1>3, <1>4

\* Both readings of a displacement byte agree.
LEMMA SignedIsMoved == \A b \in 0 .. 255 : Moved(b) = Signed(b) /\ Signed(b) \in Int
  BY DEF Moved, Signed

\* What appending does to the elements of a sequence and to their being distinct.
LEMMA AppendElement ==
  ASSUME NEW S, NEW s \in Seq(S), NEW e \in S
  PROVE  /\ ToSet(Append(s, e)) = ToSet(s) \union {e}
         /\ IsInjective(s) /\ e \notin ToSet(s) => IsInjective(Append(s, e))
<1> DEFINE a == Append(s, e)
<1>1. /\ a \in Seq(S) /\ Len(a) = Len(s) + 1 /\ Len(s) \in Nat
      /\ DOMAIN s = 1 .. Len(s) /\ DOMAIN a = 1 .. Len(a)
      /\ \A i \in 1 .. Len(s) : a[i] = s[i]
      /\ a[Len(s) + 1] = e
  BY AppendProperties
<1> HIDE DEF a
<1>2. ToSet(a) = ToSet(s) \union {e}
  <2>1. ASSUME NEW x \in ToSet(a) PROVE x \in ToSet(s) \union {e}
    BY <1>1, <2>1 DEF ToSet
  <2>2. ASSUME NEW x \in ToSet(s) PROVE x \in ToSet(a)
    BY <1>1, <2>2 DEF ToSet
  <2>3. e \in ToSet(a)
    BY <1>1 DEF ToSet
  <2> QED
    BY <2>1, <2>2, <2>3
<1>3. ASSUME IsInjective(s), e \notin ToSet(s) PROVE IsInjective(a)
  BY <1>1, <1>3 DEF IsInjective, ToSet
<1> QED
  BY <1>2, <1>3 DEF a

\* The loop over the slots computes what its definition says.
LEMMA PushedByRecursion ==
  ASSUME TypeOK, kind = "keyboard"
  PROVE  /\ PushedBy \in [0 .. KeySlots -> Seq(0 .. 255)]
         /\ PushedBy[0] = <<>>
         /\ \A i \in 1 .. KeySlots :
              PushedBy[i] = IF IsNew(i + 1) THEN Append(PushedBy[i - 1], buf[i + 1])
                            ELSE PushedBy[i - 1]
<1> DEFINE S == Seq(0 .. 255)
           b == <<>>
           step(i, s) == IF IsNew(i + 1) THEN Append(s, buf[i + 1]) ELSE s
           G == [i \in Nat |-> [s \in S |-> IF i \in 1 .. KeySlots THEN step(i, s) ELSE s]]
<1>1. KeySlots \in Nat /\ Bytes = 0 .. 1 + KeySlots
  BY SizeFacts DEF Bytes, TypeOK
<1>2. b \in S
  OBVIOUS
<1>3. \A i \in 1 .. KeySlots, s \in S : step(i, s) \in S
  <2> TAKE i \in 1 .. KeySlots, s \in S
  <2>1. buf[i + 1] \in 0 .. 255
    BY <1>1 DEF TypeOK, Buffer
  <2> QED
    BY <2>1
<1>4. PushedBy = CHOOSE f : f = [i \in 0 .. KeySlots |->
                                  IF i = 0 THEN b ELSE step(i, f[i - 1])]
  BY DEF PushedBy
<1> HIDE DEF S, b, step
<1>5. G \in [Nat -> [S -> S]]
  BY <1>3
<1>6. PICK f \in [0 .. KeySlots -> S] : RecursiveOn(f, KeySlots, b, G)
  <2> HIDE DEF G
  <2> QED
    BY <1>1, <1>2, <1>5, RecursionExists
<1>7. \A i \in 1 .. KeySlots : f[i] = step(i, f[i - 1])
  <2> TAKE i \in 1 .. KeySlots
  <2>1. f[i] = G[i][f[i - 1]] /\ i \in Nat /\ f[i - 1] \in S
    <3> HIDE DEF G
    <3> QED
      BY <1>1, <1>6 DEF RecursiveOn
  <2> QED
    BY <2>1
<1>8. f = [i \in 0 .. KeySlots |-> IF i = 0 THEN b ELSE step(i, f[i - 1])]
  <2>1. f[0] = b
    BY <1>6 DEF RecursiveOn
  <2> QED
    BY <1>1, <1>6, <1>7, <2>1
<1>9. PushedBy = [i \in 0 .. KeySlots |-> IF i = 0 THEN b ELSE step(i, PushedBy[i - 1])]
  BY <1>4, <1>8
<1>10. PushedBy[0] = b /\ \A i \in 1 .. KeySlots : PushedBy[i] = step(i, PushedBy[i - 1])
  BY <1>1, <1>9
<1>11. PushedBy \in [0 .. KeySlots -> S]
  <2> DEFINE T == {i \in 0 .. KeySlots : PushedBy[i] \in S}
  <2>1. 0 \in T
    BY <1>1, <1>2, <1>10
  <2>2. ASSUME NEW i \in 1 .. KeySlots, i - 1 \in T PROVE i \in T
    BY <1>1, <1>3, <1>10, <2>2
  <2>3. 0 .. KeySlots \subseteq T
    <3> HIDE DEF T
    <3> QED
      BY <1>1, <2>1, <2>2, BoundedInduction
  <2> QED
    BY <1>9, <2>3
<1> QED
  BY <1>10, <1>11 DEF S, b, step

\* OnDataReceived pushes every new key, and none twice.
LEMMA NewKeysPushed ==
  ASSUME TypeOK, kind = "keyboard",
         NEW n \in 0 .. in_packet_size,
         \A i \in Bytes : i >= n => buf[i] = previous_buf[i],
         \A i, j \in Slots : Repeated(i, j, n) => buf[i] \in {0, ErrorRollOver}
  PROVE  PushedKeys(NewKeys, 1 + KeySlots)
<1> DEFINE T == {i \in 0 .. KeySlots : PushedKeys(PushedBy[i], i + 1)}
<1>1. KeySlots \in Nat /\ Bytes = 0 .. 1 + KeySlots
  BY SizeFacts DEF Bytes, TypeOK
<1>2. /\ PushedBy \in [0 .. KeySlots -> Seq(0 .. 255)]
      /\ PushedBy[0] = <<>>
      /\ \A i \in 1 .. KeySlots :
           PushedBy[i] = IF IsNew(i + 1) THEN Append(PushedBy[i - 1], buf[i + 1])
                         ELSE PushedBy[i - 1]
  BY PushedByRecursion
<1>3. 0 \in T
  <2>1. ToSet(<<>>) = {} /\ IsInjective(<<>>)
    BY DEF ToSet, IsInjective
  <2>2. {j \in 2 .. 1 : IsNew(j)} = {}
    OBVIOUS
  <2> QED
    BY <1>1, <1>2, <2>1, <2>2 DEF PushedKeys
<1>4. ASSUME NEW i \in 1 .. KeySlots, i - 1 \in T PROVE i \in T
  <2> DEFINE s == PushedBy[i - 1]
             e == buf[i + 1]
  <2>1. s \in Seq(0 .. 255) /\ e \in 0 .. 255
    <3>1. i - 1 \in 0 .. KeySlots /\ i + 1 \in Bytes
      BY <1>1
    <3>2. s \in Seq(0 .. 255)
      BY <1>2, <3>1
    <3> QED
      BY <3>1, <3>2 DEF TypeOK, Buffer
  <2>2. PushedKeys(s, i)
    BY <1>1, <1>4
  <2>3. CASE ~IsNew(i + 1)
    <3>1. {j \in 2 .. i + 1 : IsNew(j)} = {j \in 2 .. i : IsNew(j)}
      BY <1>1, <2>3
    <3>2. PushedBy[i] = s
      BY <1>2, <2>3
    <3> QED
      BY <1>1, <2>2, <3>1, <3>2 DEF PushedKeys
  <2>4. CASE IsNew(i + 1)
    <3>1. {buf[k] : k \in {j \in 2 .. i + 1 : IsNew(j)}}
            = {buf[k] : k \in {j \in 2 .. i : IsNew(j)}} \union {e}
      BY <1>1, <2>4
    <3>2. PushedBy[i] = Append(s, e)
      BY <1>2, <2>4
    <3>3. ASSUME ErrorRollOver \notin KeysIn(buf) PROVE e \notin ToSet(s)
      <4> SUFFICES ASSUME e \in ToSet(s) PROVE FALSE
        OBVIOUS
      <4>1. PICK j \in 2 .. i : IsNew(j) /\ buf[j] = e
        BY <2>2 DEF PushedKeys
      <4>2. i + 1 \in Slots /\ j \in Slots /\ i + 1 \in Bytes /\ j \in Bytes
        BY <1>1 DEF Slots
      <4>3. i + 1 < n /\ j < n
        BY <1>1, <2>4, <4>1, <4>2, SizeFacts DEF IsNew, TypeOK, Buffer
      <4>4. Repeated(i + 1, j, n)
        BY <1>1, <4>1, <4>3 DEF Repeated
      <4>5. e \in {0, ErrorRollOver}
        BY <4>2, <4>4
      <4>6. e # 0
        BY <2>4 DEF IsNew
      <4>7. e \in KeysIn(buf)
        BY <4>2, <4>6 DEF KeysIn, Slots
      <4> QED
        BY <3>3, <4>5, <4>6, <4>7
    <3>4. /\ ToSet(Append(s, e)) = ToSet(s) \union {e}
          /\ IsInjective(s) /\ e \notin ToSet(s) => IsInjective(Append(s, e))
      <4> HIDE DEF s, e
      <4> QED
        BY <2>1, AppendElement
    <3> DEFINE a == Append(s, e)
    <3>5. ErrorRollOver \notin KeysIn(buf) => IsInjective(a)
      BY <2>2, <3>3, <3>4 DEF PushedKeys
    <3>6. ToSet(a) = ToSet(s) \union {e} /\ PushedBy[i] = a
      BY <3>2, <3>4
    <3> HIDE DEF a
    <3>7. PushedKeys(a, i + 1)
      BY <2>2, <3>1, <3>5, <3>6 DEF PushedKeys
    <3> QED
      BY <1>1, <3>6, <3>7
  <2> QED
    BY <2>3, <2>4
<1>5. 0 .. KeySlots \subseteq T
  <2> HIDE DEF T
  <2> QED
    BY <1>1, <1>3, <1>4, BoundedInduction
<1>6. PushedKeys(PushedBy[KeySlots], KeySlots + 1) /\ KeySlots + 1 = 1 + KeySlots
  BY <1>1, <1>5
<1> QED
  BY <1>6 DEF NewKeys


--------------------------------------------------------------------------------
\* The device stays what it is, and so do the sizes.
LEMMA SameSizes ==
  kind' = kind => in_packet_size' = in_packet_size /\ Bytes' = Bytes
                /\ Buffer' = Buffer /\ Events' = Events
<1> SUFFICES ASSUME kind' = kind
             PROVE  in_packet_size' = in_packet_size /\ Bytes' = Bytes
                /\ Buffer' = Buffer /\ Events' = Events
  OBVIOUS
<1>1. in_packet_size' = in_packet_size
  BY DEF in_packet_size
<1> QED
  BY <1>1 DEF Bytes, Buffer, Events

\* The first element of an event.
LEMMA EventFields ==
  ASSUME TypeOK, event # <<>>
  PROVE  /\ event[1].code \in {"success", "error"}
         /\ event[1].residual \in 0 .. in_packet_size
  BY DEF TypeOK, Events

\* The first TRB is queued with both buffers clear.
LEMMA InitInv == Init => Inv
<1> SUFFICES ASSUME Init PROVE Inv
  OBVIOUS
<1>1. TypeOK
  <2>1. buf \in Buffer
    BY DEF Init, Buffer
  <2>2. image[1] \in Buffer /\ image[2] \in Buffer
    BY <2>1 DEF Init
  <2>3. event \in Events
    BY DEF Init, Events
  <2>4. position \in Vector /\ travel \in [full : BOOLEAN, sum : Vector]
    BY DEF Init, Vector, Origin
  <2>5. len \in 0 .. in_packet_size
    BY SizeFacts DEF Init
  <2> QED
    BY <2>1, <2>2, <2>3, <2>4, <2>5 DEF Init, TypeOK
<1>2. Turn
  BY DEF Init, Turn
<1>3. Quiet
  BY DEF Init, Quiet, Pending
<1>4. Buffers
  <2>1. buf = image[1] /\ previous_buf = buf
    BY DEF Init
  <2>2. kind = "keyboard" => buf[1] = 0
    BY SizeFacts DEF Init, Bytes
  <2> QED
    BY <1>3, <2>1, <2>2 DEF Buffers, Quiet
<1>5. Pushed /\ Cursor
  BY DEF Init, Pushed, Cursor, Undecoded
<1> QED
  BY <1>1, <1>2, <1>4, <1>5 DEF Inv

\* The controller has the buffer to itself while the TRB is queued.
LEMMA TransferInv ==
  ASSUME NEW r \in Report, NEW n \in 0 .. in_packet_size
  PROVE  Inv /\ Transfer(r, n) => Inv'
<1> SUFFICES ASSUME Inv, Transfer(r, n) PROVE Inv'
  OBVIOUS
<1> USE DEF Inv
<1>0. kind' = kind /\ in_packet_size' = in_packet_size /\ Bytes' = Bytes
                /\ Buffer' = Buffer /\ Events' = Events
  BY SameSizes DEF Transfer
<1>1. r \in Buffer
  BY ReportType DEF TypeOK, Buffer
<1>s. /\ in_packet_size \in Nat /\ in_packet_size >= 3
      /\ kind = "keyboard" => in_packet_size = 2 + KeySlots
      /\ kind = "mouse" => in_packet_size = 3
      /\ KeySlots \in Nat
  BY SizeFacts DEF TypeOK, Buffer
<1>2. /\ pc = "idle" /\ event = <<>> /\ pc' = "idle"
      /\ Quiet /\ previous_buf = buf /\ buf = image[1]
  <2>1. pc = "idle" /\ event = <<>> /\ pc' = pc
    BY DEF Transfer, Turn, driver
  <2>2. Quiet
    BY <2>1 DEF Quiet, Pending
  <2> QED
    BY <2>1, <2>2 DEF Buffers
<1>3. event' = <<[code |-> "success", residual |-> in_packet_size - n]>>
  BY DEF Transfer
<1>4. event' \in Events /\ event' # <<>> /\ event'[1].code = "success"
      /\ in_packet_size - event'[1].residual = n
  <2>1. in_packet_size - n \in 0 .. in_packet_size /\ in_packet_size - (in_packet_size - n) = n
    BY <1>s
  <2> QED
    BY <1>3, <2>1 DEF Events
<1>5. /\ buf' \in Buffer
      /\ \A i \in Bytes : buf'[i] = IF i < n THEN r[i] ELSE buf[i]
  <2>1. buf' = [i \in Bytes |-> IF i < n THEN r[i] ELSE buf[i]]
    BY DEF Transfer
  <2> QED
    BY <1>1, <2>1 DEF TypeOK, Buffer
<1>6. image'[1] = buf' /\ image'[2] = image[1]
  BY DEF Transfer
<1>7. travel' \in [full : BOOLEAN, sum : Vector]
  <2>1. CASE kind = "mouse"
    <3>1. r[1] \in 0 .. 255 /\ r[2] \in 0 .. 255
      BY <1>1, <1>s, <2>1 DEF Bytes, Buffer
    <3>2. Moved(r[1]) \in Int /\ Moved(r[2]) \in Int
      BY <3>1, SignedIsMoved
    <3> QED
      BY <2>1, <3>2 DEF Transfer, TypeOK, Vector, Plus
  <2>2. CASE kind # "mouse"
    BY <2>2 DEF Transfer, TypeOK
  <2> QED
    BY <2>1, <2>2
<1>8. TypeOK'
  <2>1. armed' = FALSE /\ transfers' = transfers + 1
    BY DEF Transfer
  <2>2. UNCHANGED <<kind, previous_buf, pc, len, position>>
    BY DEF Transfer, driver
  <2>3. armed' \in BOOLEAN /\ transfers' \in Nat
    <3>1. armed' \in BOOLEAN
      BY <2>1
    <3>2. transfers \in Nat
      BY DEF TypeOK
    <3> QED
      BY <2>1, <3>1, <3>2
  <2>4. /\ buf' \in Buffer' /\ previous_buf' \in Buffer'
        /\ image'[1] \in Buffer' /\ image'[2] \in Buffer'
    BY <1>0, <1>5, <1>6, <2>2 DEF TypeOK
  <2> QED
    BY <1>0, <1>4, <1>7, <2>2, <2>3, <2>4 DEF TypeOK
<1>9. Turn'
  BY <1>2 DEF Turn, Transfer
<1>10. \A m \in 0 .. in_packet_size : Pending(m)' <=> m = n
  BY <1>0, <1>2, <1>4 DEF Pending
<1>11. Buffers'
  <2>1. ~Quiet'
    BY <1>0, <1>10 DEF Quiet
  <2>2. previous_buf' = image'[2]
    BY <1>2, <1>6 DEF Transfer, driver
  <2>3. \A i \in Bytes : i >= n => buf'[i] = previous_buf'[i]
    BY <1>2, <1>5, <1>s DEF Bytes, Transfer, driver
  <2>4. ASSUME kind = "keyboard"
        PROVE  /\ buf'[1] = 0 /\ previous_buf'[1] = 0
               /\ \A i, j \in Slots : Repeated(i, j, n)' => buf'[i] \in {0, ErrorRollOver}
    <3>1. KeyReport(r) /\ Bytes = 0 .. 1 + KeySlots /\ buf[1] = 0 /\ 1 \in Bytes
      BY <1>s, <2>4 DEF Report, Bytes, Buffers
    <3>2. buf'[1] = 0 /\ previous_buf'[1] = 0
      BY <1>2, <1>5, <3>1 DEF KeyReport, Transfer, driver
    <3>3. ASSUME NEW i \in Slots, NEW j \in Slots, Repeated(i, j, n)'
          PROVE  buf'[i] \in {0, ErrorRollOver}
      <4>1. i \in Bytes /\ j \in Bytes /\ i # j /\ i < n /\ j < n /\ buf'[i] = buf'[j]
        BY <3>1, <3>3, <1>s DEF Repeated, Slots
      <4>2. buf'[i] = r[i] /\ r[i] = r[j]
        BY <1>5, <4>1
      <4> QED
        BY <3>1, <4>1, <4>2 DEF KeyReport, Slots
    <3> QED
      BY <3>2, <3>3
  <2>5. Slots' = Slots
    BY DEF Slots
  <2> QED
    BY <1>0, <1>6, <1>10, <2>1, <2>2, <2>3, <2>4, <2>5 DEF Buffers
<1>12. Pushed'
  BY <1>2 DEF Pushed
<1>13. Cursor'
  <2> SUFFICES ASSUME travel'.full PROVE IF kind' = "mouse" /\ Undecoded'
                                        THEN travel'.sum = Plus(position', Displacement(buf'))
                                        ELSE travel'.sum = position'
    BY DEF Cursor
  <2>1. Undecoded' /\ ~Undecoded
    BY <1>2, <1>4 DEF Undecoded
  <2>2. CASE kind = "mouse"
    <3>1. travel.full /\ n = in_packet_size
      BY <2>2 DEF Transfer, TypeOK
    <3>2. travel.sum = position /\ position' = position
      BY <2>1, <2>2, <3>1 DEF Cursor, Transfer, driver
    <3>3. buf'[1] = r[1] /\ buf'[2] = r[2] /\ r[1] \in 0 .. 255 /\ r[2] \in 0 .. 255
      BY <1>1, <1>5, <1>s, <2>2, <3>1 DEF Bytes, Buffer
    <3>4. Displacement(buf') = [x |-> Moved(r[1]), y |-> Moved(r[2])]
      BY <3>3, SignedIsMoved DEF Displacement
    <3>5. travel'.sum = Plus(travel.sum, [x |-> Moved(r[1]), y |-> Moved(r[2])])
      BY <2>2 DEF Transfer
    <3> QED
      BY <1>0, <2>1, <2>2, <3>2, <3>4, <3>5
  <2>3. CASE kind # "mouse"
    BY <1>0, <2>3 DEF Transfer, Cursor, driver
  <2> QED
    BY <2>2, <2>3
<1> QED
  BY <1>8, <1>9, <1>11, <1>12, <1>13


\* A failed transfer leaves the buffer alone, and its event is no report.
LEMMA TransferFailsInv == Inv /\ TransferFails => Inv'
<1> SUFFICES ASSUME Inv, TransferFails PROVE Inv'
  OBVIOUS
<1> USE DEF Inv
<1>0. /\ in_packet_size' = in_packet_size /\ Bytes' = Bytes
      /\ Buffer' = Buffer /\ Events' = Events
  BY SameSizes DEF TransferFails
<1>1. /\ UNCHANGED <<kind, buf, previous_buf, pc, len, pushed, position, image, travel>>
      /\ armed /\ armed' = FALSE /\ transfers' = transfers + 1
      /\ event' = <<[code |-> "error", residual |-> in_packet_size]>>
  BY DEF TransferFails, driver
<1>2. pc = "idle" /\ event = <<>>
  BY <1>1 DEF Turn
<1>3. event' \in Events /\ event' # <<>> /\ event'[1].code = "error"
  BY <1>1, SizeFacts DEF Events, TypeOK
<1>4. TypeOK'
  <2>1. armed' \in BOOLEAN
    BY <1>1
  <2>2. transfers \in Nat /\ transfers' = transfers + 1
    BY <1>1 DEF TypeOK
  <2>3. transfers' \in Nat
    BY <2>2
  <2> QED
    BY <1>0, <1>1, <1>3, <2>1, <2>3 DEF TypeOK
<1>5. Turn'
  BY <1>1, <1>2 DEF Turn
<1>6. Quiet /\ \A n : ~Pending(n)'
  BY <1>1, <1>2, <1>3 DEF Quiet, Pending
<1>7. Buffers'
  BY <1>0, <1>1, <1>6 DEF Buffers
<1>8. Pushed'
  BY <1>1, <1>2 DEF Pushed
<1>9. Cursor'
  <2>1. ~Undecoded /\ ~Undecoded'
    BY <1>1, <1>2, <1>3 DEF Undecoded
  <2> QED
    BY <1>1, <2>1 DEF Cursor
<1> QED
  BY <1>4, <1>5, <1>7, <1>8, <1>9

\* The report that the event announces is the one the driver goes on to decode.
LEMMA OnTransferEventReceivedInv == Inv /\ OnTransferEventReceived => Inv'
<1> SUFFICES ASSUME Inv, OnTransferEventReceived PROVE Inv'
  OBVIOUS
<1> USE DEF Inv
<1>0. /\ in_packet_size' = in_packet_size /\ Bytes' = Bytes
      /\ Buffer' = Buffer /\ Events' = Events
  BY SameSizes DEF OnTransferEventReceived
<1>1. /\ UNCHANGED <<kind, buf, previous_buf, armed, pushed, position, transfers, image, travel>>
      /\ pc = "idle" /\ event # <<>> /\ event' = <<>>
      /\ IF event[1].code = "success"
         THEN pc' = "decode" /\ len' = in_packet_size - event[1].residual
         ELSE UNCHANGED <<pc, len>>
  BY DEF OnTransferEventReceived
<1>2. /\ event[1].code \in {"success", "error"} /\ event[1].residual \in 0 .. in_packet_size
      /\ in_packet_size \in Nat /\ ~armed
  BY <1>1, EventFields, SizeFacts DEF TypeOK, Turn
<1>3. TypeOK'
  <2>1. event' \in Events
    BY <1>1 DEF Events
  <2>2. len' \in 0 .. in_packet_size /\ pc' \in {"idle", "decode", "copy", "arm"}
    <3>1. len \in 0 .. in_packet_size /\ pc \in {"idle", "decode", "copy", "arm"}
      BY DEF TypeOK
    <3> QED
      BY <1>1, <1>2, <3>1
  <2> QED
    BY <1>0, <1>1, <2>1, <2>2 DEF TypeOK
<1>4. Turn'
  BY <1>1, <1>2 DEF Turn
<1>5. \A n \in 0 .. in_packet_size : Pending(n)' <=> Pending(n)
  BY <1>0, <1>1 DEF Pending
<1>6. Quiet' <=> Quiet
  BY <1>0, <1>5 DEF Quiet
<1>7. Buffers'
  <2>1. \A i, j \in Slots : \A n \in 0 .. in_packet_size : Repeated(i, j, n)' <=> Repeated(i, j, n)
    BY <1>1 DEF Repeated
  <2> QED
    BY <1>0, <1>1, <1>5, <1>6, <2>1 DEF Buffers, Slots
<1>8. Pushed'
  BY <1>1 DEF Pushed
<1>9. Cursor'
  <2>1. Undecoded' <=> Undecoded
    BY <1>1 DEF Undecoded
  <2> QED
    BY <1>1, <2>1 DEF Cursor
<1> QED
  BY <1>3, <1>4, <1>7, <1>8, <1>9

\* The keys are pushed, or the cursor is moved.
LEMMA OnDataReceivedInv == Inv /\ OnDataReceived => Inv'
<1> SUFFICES ASSUME Inv, OnDataReceived PROVE Inv'
  OBVIOUS
<1> USE DEF Inv
<1>0. /\ in_packet_size' = in_packet_size /\ Bytes' = Bytes
      /\ Buffer' = Buffer /\ Events' = Events
  BY SameSizes DEF OnDataReceived
<1>1. /\ UNCHANGED <<kind, buf, previous_buf, armed, event, len, transfers, image, travel>>
      /\ pc = "decode" /\ pc' = "copy"
      /\ IF kind = "keyboard"
         THEN pushed' = NewKeys /\ UNCHANGED position
         ELSE position' = Plus(position, Displacement(buf)) /\ UNCHANGED pushed
  BY DEF OnDataReceived
<1>2. ~armed /\ event = <<>> /\ len \in 0 .. in_packet_size
  BY <1>1 DEF Turn, TypeOK
<1>3. TypeOK'
  <2>1. position' \in Vector
    <3>1. CASE kind = "keyboard"
      BY <1>1, <3>1 DEF TypeOK
    <3>2. CASE kind = "mouse"
      <4>1. buf[1] \in 0 .. 255 /\ buf[2] \in 0 .. 255
        BY <3>2, SizeFacts DEF TypeOK, Buffer, Bytes
      <4>2. Signed(buf[1]) \in Int /\ Signed(buf[2]) \in Int
        BY <4>1, SignedIsMoved
      <4>3. position \in Vector
        BY DEF TypeOK
      <4> QED
        BY <1>1, <3>2, <4>2, <4>3 DEF Vector, Plus, Displacement
    <3> QED
      BY <3>1, <3>2 DEF TypeOK
  <2> QED
    BY <1>0, <1>1, <2>1 DEF TypeOK
<1>4. Turn'
  BY <1>1, <1>2 DEF Turn
<1>5. \A n \in 0 .. in_packet_size : Pending(n)' <=> Pending(n)
  BY <1>0, <1>1 DEF Pending
<1>6. Quiet' <=> Quiet
  BY <1>0, <1>5 DEF Quiet
<1>7. Buffers'
  <2>1. \A i, j \in Slots : \A n \in 0 .. in_packet_size : Repeated(i, j, n)' <=> Repeated(i, j, n)
    BY <1>1 DEF Repeated
  <2> QED
    BY <1>0, <1>1, <1>5, <1>6, <2>1 DEF Buffers, Slots
<1>8. Pushed'
  <2> SUFFICES ASSUME kind = "keyboard" PROVE PushedKeys(pushed, 1 + KeySlots)'
    BY <1>1 DEF Pushed
  <2>1. Pending(len)
    BY <1>1 DEF Pending
  <2>2. PushedKeys(NewKeys, 1 + KeySlots)
    <3>1. /\ \A i \in Bytes : i >= len => buf[i] = previous_buf[i]
          /\ \A i, j \in Slots : Repeated(i, j, len) => buf[i] \in {0, ErrorRollOver}
      BY <1>2, <2>1 DEF Buffers
    <3> QED
      BY <1>2, <3>1, NewKeysPushed
  <2>3. pushed' = NewKeys
    BY <1>1
  <2>4. \A i : IsNew(i)' <=> IsNew(i)
    BY <1>0, <1>1 DEF IsNew
  <2>5. KeysIn(buf)' = KeysIn(buf)
    BY <1>1 DEF KeysIn
  <2> HIDE DEF Inv
  <2> QED
    BY <1>1, <2>2, <2>3, <2>4, <2>5 DEF PushedKeys
<1>9. Cursor'
  <2>1. Undecoded /\ ~Undecoded'
    BY <1>1, <1>2 DEF Undecoded
  <2> QED
    BY <1>1, <2>1 DEF Cursor, TypeOK
<1> QED
  BY <1>3, <1>4, <1>7, <1>8, <1>9


\* Afterwards both buffers hold the report, also where the transfer did not reach.
LEMMA CopyToPreviousInv == Inv /\ CopyToPrevious => Inv'
<1> SUFFICES ASSUME Inv, CopyToPrevious PROVE Inv'
  OBVIOUS
<1> USE DEF Inv
<1>0. /\ in_packet_size' = in_packet_size /\ Bytes' = Bytes
      /\ Buffer' = Buffer /\ Events' = Events
  BY SameSizes DEF CopyToPrevious
<1>1. /\ UNCHANGED <<kind, buf, armed, event, len, pushed, position, transfers, image, travel>>
      /\ pc = "copy" /\ pc' = "arm"
      /\ previous_buf' = [i \in Bytes |-> IF Remembered(i) THEN buf[i] ELSE previous_buf[i]]
  BY DEF CopyToPrevious
<1>2. ~armed /\ event = <<>> /\ len \in 0 .. in_packet_size /\ in_packet_size \in Nat
  BY <1>1, SizeFacts DEF Turn, TypeOK
<1>3. previous_buf' = buf
  <2>1. Pending(len)
    BY <1>1 DEF Pending
  <2>2. \A i \in Bytes : i >= len => buf[i] = previous_buf[i]
    BY <1>2, <2>1 DEF Buffers
  <2>3. \A i \in Bytes : previous_buf'[i] = buf[i]
    BY <1>1, <1>2, <2>2 DEF Remembered, Bytes
  <2>4. buf \in [Bytes -> 0 .. 255]
    BY DEF TypeOK, Buffer
  <2> QED
    BY <1>1, <2>3, <2>4
<1>4. TypeOK'
  BY <1>0, <1>1, <1>3 DEF TypeOK
<1>5. Turn'
  BY <1>1, <1>2 DEF Turn
<1>6. \A n : ~Pending(n)'
  BY <1>1 DEF Pending
<1>7. Buffers'
  BY <1>0, <1>1, <1>3, <1>6 DEF Buffers
<1>8. Pushed'
  BY <1>1 DEF Pushed
<1>9. Cursor'
  <2>1. ~Undecoded /\ ~Undecoded'
    BY <1>1, <1>2 DEF Undecoded
  <2> QED
    BY <1>1, <2>1 DEF Cursor
<1> QED
  BY <1>4, <1>5, <1>7, <1>8, <1>9

\* The controller gets the buffer back.
LEMMA InterruptInInv == Inv /\ InterruptIn => Inv'
<1> SUFFICES ASSUME Inv, InterruptIn PROVE Inv'
  OBVIOUS
<1> USE DEF Inv
<1>0. /\ in_packet_size' = in_packet_size /\ Bytes' = Bytes
      /\ Buffer' = Buffer /\ Events' = Events
  BY SameSizes DEF InterruptIn
<1>1. /\ UNCHANGED <<kind, buf, previous_buf, event, len, position, transfers, image, travel>>
      /\ pc = "arm" /\ pc' = "idle" /\ armed' = TRUE
  BY DEF InterruptIn
<1>2. event = <<>>
  BY <1>1 DEF Turn
<1>3. TypeOK'
  BY <1>0, <1>1 DEF TypeOK
<1>4. Turn'
  BY <1>1, <1>2 DEF Turn
<1>5. Quiet /\ \A n : ~Pending(n)'
  BY <1>1, <1>2 DEF Quiet, Pending
<1>6. Buffers'
  BY <1>0, <1>1, <1>5 DEF Buffers
<1>7. Pushed'
  BY <1>1 DEF Pushed
<1>8. Cursor'
  <2>1. ~Undecoded /\ ~Undecoded'
    BY <1>1, <1>2 DEF Undecoded
  <2> QED
    BY <1>1, <2>1 DEF Cursor
<1> QED
  BY <1>3, <1>4, <1>6, <1>7, <1>8

\* Nothing changes in a step that changes no variable.
LEMMA StutterInv == Inv /\ UNCHANGED vars => Inv'
<1> SUFFICES ASSUME Inv, UNCHANGED vars PROVE Inv'
  OBVIOUS
<1> USE DEF vars, Inv
<1>0. /\ in_packet_size' = in_packet_size /\ Bytes' = Bytes
      /\ Buffer' = Buffer /\ Events' = Events
  BY SameSizes
<1>1. TypeOK' /\ Turn'
  BY <1>0 DEF TypeOK, Turn
<1>2. \A n : Pending(n)' <=> Pending(n)
  BY <1>0 DEF Pending
<1>3. Quiet' <=> Quiet
  BY <1>0, <1>2 DEF Quiet
<1>4. Buffers'
  <2>1. \A i, j, n : Repeated(i, j, n)' <=> Repeated(i, j, n)
    BY DEF Repeated
  <2> QED
    BY <1>0, <1>2, <1>3, <2>1 DEF Buffers, Slots
<1>5. Pushed'
  <2>1. \A i : IsNew(i)' <=> IsNew(i)
    BY <1>0 DEF IsNew
  <2>2. KeysIn(buf)' = KeysIn(buf)
    BY DEF KeysIn
  <2> QED
    BY <2>1, <2>2 DEF Pushed, PushedKeys
<1>6. Cursor'
  BY DEF Cursor, Undecoded
<1> QED
  BY <1>1, <1>4, <1>5, <1>6

\* Every step keeps the invariant.
LEMMA NextInv == Inv /\ [Next]_vars => Inv'
<1> SUFFICES ASSUME Inv, [Next]_vars PROVE Inv'
  OBVIOUS
<1>1. CASE \E r \in Report, n \in 0 .. in_packet_size : Transfer(r, n)
  BY <1>1, TransferInv
<1>2. CASE TransferFails
  BY <1>2, TransferFailsInv
<1>3. CASE OnTransferEventReceived
  BY <1>3, OnTransferEventReceivedInv
<1>4. CASE OnDataReceived
  BY <1>4, OnDataReceivedInv
<1>5. CASE CopyToPrevious
  BY <1>5, CopyToPreviousInv
<1>6. CASE InterruptIn
  BY <1>6, InterruptInInv
<1>7. CASE UNCHANGED vars
  BY <1>7, StutterInv
<1> QED
  BY <1>1, <1>2, <1>3, <1>4, <1>5, <1>6, <1>7 DEF Next, Driver, OnInterruptCompleted

(* Every reachable state satisfies the invariant.                          *)
LEMMA InvHolds == Spec => []Inv
  BY InitInv, NextInv, PTL DEF Spec

--------------------------------------------------------------------------------
\* A report is never overwritten before it is decoded and remembered, whatever is
\* reported, however long the reports are and however often a transfer is short.
THEOREM ReportsKept == Spec => []PreviousKept
<1>1. Inv => PreviousKept
  <2> SUFFICES ASSUME Inv, pc = "idle", armed PROVE previous_buf = buf /\ buf = image[1]
    BY DEF PreviousKept
  <2>1. event = <<>>
    BY DEF Inv, Turn
  <2>2. Quiet
    BY <2>1 DEF Quiet, Pending
  <2> QED
    BY <2>2 DEF Inv, Buffers
<1> QED
  BY <1>1, InvHolds, PTL

\* A key that stays down is pushed once, and a short report brings back no key of an
\* older one, for any number of slots.
THEOREM HeldOnce == Spec => []HeldNotRepeated
<1>1. Inv => HeldNotRepeated
  <2> SUFFICES ASSUME Inv, pc = "copy", kind = "keyboard"
               PROVE  /\ ToSet(pushed) \intersect KeysIn(image[2]) = {}
                      /\ ToSet(pushed) \subseteq {buf[i] : i \in 2 .. len - 1}
    BY DEF HeldNotRepeated
  <2>1. len \in 0 .. in_packet_size /\ in_packet_size = 2 + KeySlots /\ KeySlots \in Nat
    BY SizeFacts DEF Inv, TypeOK
  <2>2. /\ previous_buf = image[2]
        /\ \A i \in Bytes : i >= len => buf[i] = previous_buf[i]
    BY <2>1 DEF Inv, Buffers, Pending
  <2>3. ASSUME NEW x \in ToSet(pushed)
        PROVE  x \notin KeysIn(image[2]) /\ x \in {buf[i] : i \in 2 .. len - 1}
    <3>1. PICK i \in 2 .. 1 + KeySlots : IsNew(i) /\ x = buf[i]
      BY <2>3 DEF Inv, Pushed, PushedKeys
    <3>2. i \in Bytes /\ \A j \in 2 .. 1 + KeySlots : j \in Bytes
      BY <2>1 DEF Bytes
    <3>3. i < len
      BY <2>1, <2>2, <3>1, <3>2 DEF IsNew, Bytes
    <3>4. \A j \in 2 .. 1 + KeySlots : image[2][j] # x
      BY <2>2, <3>1, <3>2 DEF IsNew
    <3> QED
      BY <2>1, <3>1, <3>3, <3>4 DEF KeysIn
  <2> QED
    BY <2>3
<1> QED
  BY <1>1, InvHolds, PTL

\* HIDKeyboardDriver::OnDataReceived pushes each new key once, but for the collision
\* with the modifier byte and reports of too many keys.
THEOREM PushesComplete == Spec => []PushNotLost
<1>1. Inv => PushNotLost
  <2> SUFFICES ASSUME Inv, pc = "copy", kind = "keyboard"
               PROVE  /\ (KeysIn(image[1]) \ KeysIn(image[2])) \ {image[2][0]} \subseteq ToSet(pushed)
                      /\ ErrorRollOver \notin KeysIn(image[1]) => IsInjective(pushed)
    BY DEF PushNotLost
  <2>1. len \in 0 .. in_packet_size /\ in_packet_size = 2 + KeySlots /\ KeySlots \in Nat
    BY SizeFacts DEF Inv, TypeOK
  <2>2. previous_buf = image[2] /\ buf = image[1] /\ previous_buf[1] = 0
    BY <2>1 DEF Inv, Buffers, Pending
  <2>3. ASSUME NEW x \in (KeysIn(buf) \ KeysIn(previous_buf)) \ {previous_buf[0]}
        PROVE  x \in ToSet(pushed)
    <3>1. PICK i \in 2 .. 1 + KeySlots : x = buf[i] /\ buf[i] # 0
      BY <2>3 DEF KeysIn
    <3>2. ASSUME NEW j \in Bytes PROVE previous_buf[j] # x
      <4>1. j = 0 \/ j = 1 \/ j \in 2 .. 1 + KeySlots
        BY <2>1 DEF Bytes
      <4>2. ASSUME j \in 2 .. 1 + KeySlots PROVE previous_buf[j] # x
        BY <2>3, <3>1, <4>2 DEF KeysIn
      <4> QED
        BY <2>2, <2>3, <3>1, <4>1, <4>2
    <3>3. IsNew(i)
      BY <3>1, <3>2 DEF IsNew
    <3> QED
      BY <3>1, <3>3 DEF Inv, Pushed, PushedKeys
  <2> QED
    BY <2>2, <2>3 DEF Inv, Pushed, PushedKeys
<1> QED
  BY <1>1, InvHolds, PTL

\* The cursor is where the reports that HIDMouseDriver::OnDataReceived decoded put it,
\* if none was short.
THEOREM CursorRight == Spec => []CursorFollows
<1>1. Inv => CursorFollows
  <2> SUFFICES ASSUME Inv, pc = "idle", event = <<>>, travel.full PROVE position = travel.sum
    BY DEF CursorFollows
  <2>1. ~Undecoded
    BY DEF Undecoded
  <2> QED
    BY <2>1 DEF Inv, Cursor
<1> QED
  BY <1>1, InvHolds, PTL

================================================================================
