-------------------------- MODULE EventRing_proofs --------------------------
(***************************************************************************)
(* The event ring for every size of its segment: the invariant on the      *)
(* cycle bits, and that the ring implements the queue of TrbFifo.          *)
(***************************************************************************)
EXTENDS EventRing, SequenceTheorems, TLAPS

-----------------------------------------------------------------------------
(* Sequences given as functions on 1..n.                                   *)

(* A function on 1..n is a sequence of length n.                           *)
LEMMA FcnLen ==
    ASSUME NEW S, NEW n \in Nat, NEW F \in [1..n -> S]
    PROVE  F \in Seq(S) /\ Len(F) = n
<1>1. F \in Seq(S)
  BY IsASeq
<1>2. Len(F) \in Nat /\ DOMAIN F = 1..Len(F)
  BY <1>1, LenProperties
<1>3. DOMAIN F = 1..n
  OBVIOUS
<1>4. 1..n = 1..Len(F)
  BY <1>2, <1>3
<1> QED
  BY <1>1, <1>2, <1>4

(* Adding nothing.                                                         *)
LEMMA AddZero == \A k \in Int : k + 0 = k /\ k - 0 = k
  OBVIOUS

(* On 1..0 it is the empty sequence.                                       *)
LEMMA FcnEmpty ==
    ASSUME NEW S, NEW F \in [1..0 -> S]
    PROVE  F = <<>>
<1>1. F \in Seq(S) /\ Len(F) = 0
  BY FcnLen
<1> QED
  BY <1>1, EmptySeq

(* Dropping the first element shifts the others.                           *)
LEMMA FcnTail ==
    ASSUME NEW S, NEW n \in Nat, NEW F \in [1..(n + 1) -> S], NEW G \in [1..n -> S],
           \A i \in 1..n : G[i] = F[i + 1]
    PROVE  F # <<>> /\ Head(F) = F[1] /\ Tail(F) = G
<1>1. F \in Seq(S) /\ Len(F) = n + 1
  BY FcnLen
<1>2. G \in Seq(S) /\ Len(G) = n
  BY FcnLen
<1>3. F # <<>>
  BY <1>1, EmptySeq
<1>4. Head(F) = F[1] /\ Tail(F) \in Seq(S) /\ Len(Tail(F)) = n
  BY <1>1, <1>3, HeadTailProperties
<1>5. \A i \in 1..n : Tail(F)[i] = F[i + 1]
  BY <1>1, <1>3, <1>4, HeadTailProperties
<1>6. Tail(F) = G
  BY <1>2, <1>4, <1>5, SeqEqual
<1> QED
  BY <1>3, <1>4, <1>6

(* With its only element a sequence loses all.                             *)
LEMMA FcnTailOne ==
    ASSUME NEW S, NEW F \in [1..1 -> S]
    PROVE  F # <<>> /\ Tail(F) = <<>>
<1> DEFINE n == 1
<1>0. n \in Nat /\ F \in [1..n -> S]
  OBVIOUS
<1> HIDE DEF n
<1>1. F \in Seq(S) /\ Len(F) = 1
  BY <1>0, FcnLen DEF n
<1>2. F # <<>>
  <2>1. Len(F) # 0
    BY <1>1
  <2> QED
    BY <1>1, <2>1, EmptySeq, Zenon
<1>3. Tail(F) \in Seq(S) /\ Len(Tail(F)) = 0
  BY <1>1, <1>2, HeadTailProperties
<1> QED
  BY <1>2, <1>3, EmptySeq

(* Adding a last element keeps the others.                                 *)
LEMMA FcnAppend ==
    ASSUME NEW S, NEW n \in Nat, NEW F \in [1..n -> S], NEW G \in [1..(n + 1) -> S],
           \A i \in 1..n : G[i] = F[i]
    PROVE  G = Append(F, G[n + 1])
<1>1. F \in Seq(S) /\ Len(F) = n
  BY FcnLen
<1>2. G \in Seq(S) /\ Len(G) = n + 1
  BY FcnLen
<1>3. G[n + 1] \in S
  OBVIOUS
<1> DEFINE A == Append(F, G[n + 1])
<1>4. /\ A \in Seq(S)
      /\ Len(A) = n + 1
      /\ \A i \in 1..n : A[i] = F[i]
      /\ A[n + 1] = G[n + 1]
  BY <1>1, <1>3, AppendProperties
<1> HIDE DEF A
<1>5. \A i \in 1..Len(G) : G[i] = A[i]
  BY <1>2, <1>4
<1> QED
  BY <1>2, <1>4, <1>5, SeqEqual DEF A

-----------------------------------------------------------------------------
Inv == TypeOK /\ CycleInv

(* EventRing::Initialize establishes the invariant.                        *)
LEMMA InitInv == Init => Inv
<1> SUFFICES ASSUME Init PROVE Inv
  OBVIOUS
<1> USE RingSegmentSizeAssumption DEF Init, Indices
<1>1. [data |-> Cleared, cycle |-> 0] \in Trb
  BY DEF Trb
<1>2. TypeOK
  <2>1. buf \in [Indices -> Trb] /\ cycle_bit \in 0..1 /\ erdp \in Indices
        /\ enq \in Indices /\ pcs \in 0..1
    BY <1>1
  <2>2. handling \in BOOLEAN /\ half \in BOOLEAN
    BY Zenon
  <2> QED
    BY <2>1, <2>2, Zenon DEF TypeOK
<1>3. \A i \in Indices : buf[i].cycle = IF i < enq THEN pcs ELSE 1 - pcs
  OBVIOUS
<1>4. cycle_bit = pcs <=> erdp <= enq
  OBVIOUS
<1>5. ~handling /\ ~half
  OBVIOUS
<1> QED
  BY <1>2, <1>3, <1>4, <1>5 DEF Inv, CycleInv

(* Every step of the driver and of the controller preserves it.            *)
LEMMA NextInv == Inv /\ [Next]_vars => Inv'
<1> SUFFICES ASSUME Inv, [Next]_vars PROVE Inv'
  OBVIOUS
<1> USE RingSegmentSizeAssumption DEF Inv, Indices
<1>1. CASE TakeFront
  <2>1. TypeOK'
    BY <1>1 DEF TakeFront, TypeOK
  <2>2. (\A i \in Indices : buf[i].cycle = IF i < enq THEN pcs ELSE 1 - pcs)'
    BY <1>1 DEF TakeFront, CycleInv
  <2>3. Count > 0
    BY <1>1 DEF TakeFront, HasFront, TypeOK, CycleInv, Count
  <2> QED
    BY <1>1, <2>1, <2>2, <2>3 DEF TakeFront, CycleInv, Count, NextIndex
<1>2. CASE Pop
  <2>1. TypeOK'
    <3>1. erdp' \in Indices /\ cycle_bit' \in 0..1
      BY <1>2 DEF Pop, TypeOK, NextIndex, NextCycle
    <3>2. handling' \in BOOLEAN
      BY <1>2, Zenon DEF Pop
    <3> QED
      BY <1>2, <3>1, <3>2, Zenon DEF Pop, TypeOK
  <2>2. (cycle_bit = pcs <=> erdp <= enq)'
    BY <1>2 DEF Pop, TypeOK, CycleInv, NextIndex, NextCycle, Count
  <2>3. half' => NextIndex(enq') # erdp'
    BY <1>2 DEF Pop, TypeOK, CycleInv, NextIndex, Count
  <2> QED
    BY <1>2, <2>1, <2>2, <2>3 DEF Pop, CycleInv, NextIndex
<1>3. ASSUME NEW x \in Payload, HcWriteData(x) PROVE Inv'
  <2>1. \A i \in Indices : buf'[i] = IF i = enq THEN [buf[i] EXCEPT !.data = x] ELSE buf[i]
    BY <1>3 DEF HcWriteData, TypeOK
  <2>2. \A i \in Indices : buf'[i] \in Trb /\ buf'[i].cycle = buf[i].cycle
    BY <2>1 DEF TypeOK, Trb
  <2>3. buf' \in [Indices -> Trb]
    BY <1>3, <2>2 DEF HcWriteData, TypeOK
  <2>4. TypeOK'
    BY <1>3, <2>3 DEF HcWriteData, TypeOK
  <2>5. NextIndex(enq') # erdp'
    BY <1>3 DEF HcWriteData, NextIndex
  <2>6. buf'[enq'].data \in Payload
    BY <1>3, <2>1 DEF HcWriteData, TypeOK, Trb
  <2> QED
    BY <1>3, <2>2, <2>4, <2>5, <2>6 DEF HcWriteData, CycleInv, Count
<1>4. CASE HcWriteControl
  <2>1. \A i \in Indices : buf'[i] = IF i = enq THEN [buf[i] EXCEPT !.cycle = pcs] ELSE buf[i]
    BY <1>4 DEF HcWriteControl, TypeOK
  <2>2. \A i \in Indices : buf'[i] \in Trb
    BY <2>1 DEF TypeOK, Trb
  <2>3. \A i \in Indices : buf'[i].cycle = IF i = enq THEN pcs ELSE buf[i].cycle
    BY <2>1 DEF TypeOK, Trb
  <2>4. buf' \in [Indices -> Trb]
    BY <1>4, <2>2 DEF HcWriteControl, TypeOK
  <2>5. TypeOK'
    <3>1. enq' \in Indices /\ pcs' \in 0..1
      BY <1>4 DEF HcWriteControl, TypeOK, NextIndex, NextCycle
    <3>2. half' \in BOOLEAN
      BY <1>4, Zenon DEF HcWriteControl
    <3> QED
      BY <1>4, <2>4, <3>1, <3>2, Zenon DEF HcWriteControl, TypeOK
  <2>6. \A i \in Indices : buf'[i].cycle = IF i < enq' THEN pcs' ELSE 1 - pcs'
    BY <1>4, <2>3 DEF HcWriteControl, TypeOK, CycleInv, NextIndex, NextCycle
  <2>7. cycle_bit' = pcs' <=> erdp' <= enq'
    BY <1>4 DEF HcWriteControl, TypeOK, CycleInv, NextIndex, NextCycle
  <2>8. handling' => Count' > 0
    BY <1>4 DEF HcWriteControl, TypeOK, CycleInv, NextIndex, Count
  <2> QED
    BY <1>4, <2>5, <2>6, <2>7, <2>8 DEF HcWriteControl, CycleInv
<1>5. CASE UNCHANGED vars
  BY <1>5 DEF vars, TypeOK, CycleInv, Count, NextIndex
<1> QED
  BY <1>1, <1>2, <1>3, <1>4, <1>5 DEF Next, PollIdle

(* HasFront is true for the events written and not popped and never for a  *)
(* stale one, in every state the ring can be in.                           *)
THEOREM CycleBits == Spec => []RingInv
<1>1. Inv /\ UNCHANGED vars => Inv'
  BY NextInv
<1> QED
  BY InitInv, NextInv, PTL DEF Spec, Inv, RingInv

-----------------------------------------------------------------------------
(* Contents an entry may have.                                             *)
Data == Payload \cup {Cleared}

(* The number of events waiting, and what the two views of the mapping are.*)
ViewFacts ==
    /\ Count \in 0..(RingSegmentSize - 1)
    /\ Handled \in 0..1
    /\ Count - Handled \in Nat
    /\ Waiting \in [1..(Count - Handled) -> Data]
    /\ InHand \in [1..Handled -> Data]
    /\ \A i \in 1..(Count - Handled) :
         Waiting[i] = buf[EntryAt(erdp + Handled + i - 1)].data
    /\ \A i \in 1..Handled : InHand[i] = buf[erdp].data

(* The invariant makes them so.                                            *)
LEMMA Views == Inv => ViewFacts
<1> SUFFICES ASSUME Inv PROVE ViewFacts
  OBVIOUS
<1> USE RingSegmentSizeAssumption DEF Indices
<1>1. Count \in 0..(RingSegmentSize - 1)
  BY DEF Inv, TypeOK, Count
<1>2. Handled \in 0..1
  BY DEF Handled
<1>3. Count - Handled \in Nat
  BY <1>1, <1>2 DEF Inv, CycleInv, Handled
<1>4. \A i \in Indices : buf[i].data \in Data
  BY DEF Inv, TypeOK, Trb, Data
<1>5. \A i \in 1..(Count - Handled) : EntryAt(erdp + Handled + i - 1) \in Indices
  BY <1>1, <1>2, <1>3 DEF Inv, TypeOK, EntryAt
<1>6. erdp \in Indices
  BY DEF Inv, TypeOK
<1> QED
  BY <1>1, <1>2, <1>3, <1>4, <1>5, <1>6 DEF ViewFacts, Waiting, InHand

(* At first nothing waits.                                                 *)
LEMMA InitFifo == Init => Fifo!Init
<1> SUFFICES ASSUME Init PROVE Fifo!Init
  OBVIOUS
<1>1. Inv
  BY InitInv
<1>2. Count = 0 /\ Handled = 0
  <2>1. Count = 0
    BY DEF Init, Count
  <2>2. ~handling
    BY DEF Init
  <2> QED
    BY <2>1, <2>2 DEF Handled
<1>3. Waiting \in [1..0 -> Data] /\ InHand \in [1..0 -> Data]
  BY <1>1, <1>2, Views DEF ViewFacts
<1>4. Waiting = <<>> /\ InHand = <<>>
  BY <1>3, FcnEmpty
<1> QED
  BY <1>4 DEF Fifo!Init

(* TakeFront takes the event that has waited longest.                      *)
LEMMA TakeFrontStep == Inv /\ Inv' /\ TakeFront => Fifo!Execute
<1> SUFFICES ASSUME Inv, Inv', TakeFront PROVE Fifo!Execute
  OBVIOUS
<1> USE RingSegmentSizeAssumption
<1>v. ViewFacts /\ ViewFacts'
  BY Views, PTL
<1>1. Handled = 0 /\ Handled' = 1 /\ Count' = Count
  BY DEF TakeFront, Handled, Count
<1>2. /\ Count \in Nat /\ Count - 1 \in Nat /\ Count >= 1
      /\ Waiting \in [1..((Count - 1) + 1) -> Data]
      /\ \A i \in 1..((Count - 1) + 1) : Waiting[i] = buf[EntryAt(erdp + i - 1)].data
      /\ InHand \in [1..0 -> Data]
  <2>1. Count \in Nat /\ Count' - 1 \in Nat
    BY <1>1, <1>v DEF ViewFacts
  <2>2. Count - 1 \in Nat /\ Count - 0 = (Count - 1) + 1 /\ Count >= 1
    BY <1>1, <2>1
  <2>3. erdp + 0 = erdp
    BY DEF Inv, TypeOK, Indices
  <2> QED
    BY <1>1, <2>1, <2>2, <2>3, <1>v DEF ViewFacts
<1>3. /\ Waiting' \in [1..(Count - 1) -> Data]
      /\ \A i \in 1..(Count - 1) : Waiting'[i] = buf[EntryAt(erdp + 1 + i - 1)].data
      /\ InHand' \in [1..(0 + 1) -> Data]
      /\ InHand'[1] = buf[erdp].data
  BY <1>1, <1>v DEF TakeFront, ViewFacts
<1>4. \A i \in 1..(Count - 1) : Waiting'[i] = Waiting[i + 1]
  <2> TAKE i \in 1..(Count - 1)
  <2>1. i + 1 \in 1..((Count - 1) + 1) /\ erdp + 1 + i - 1 = erdp + (i + 1) - 1
    BY <1>2 DEF Inv, TypeOK, Indices
  <2> QED
    BY <1>2, <1>3, <2>1
<1>5. Waiting # <<>> /\ Head(Waiting) = Waiting[1] /\ Tail(Waiting) = Waiting'
  BY <1>2, <1>3, <1>4, FcnTail
<1>6. InHand' = Append(InHand, InHand'[0 + 1])
  BY <1>2, <1>3, FcnAppend
<1>7. Waiting[1] = InHand'[1]
  BY <1>2, <1>3 DEF Inv, TypeOK, Indices, EntryAt
<1> QED
  BY <1>5, <1>6, <1>7 DEF Fifo!Execute

(* Pop ends the handling of the event in hand, and the others wait on.     *)
LEMMA PopStep == Inv /\ Inv' /\ Pop => Fifo!Handle
<1> SUFFICES ASSUME Inv, Inv', Pop PROVE Fifo!Handle
  OBVIOUS
<1> USE RingSegmentSizeAssumption
<1>v. ViewFacts /\ ViewFacts'
  BY Views, PTL
<1>1. Handled = 1 /\ Handled' = 0
  BY DEF Pop, Handled
<1>2. erdp \in Indices /\ enq \in Indices /\ enq' = enq /\ buf' = buf
  BY DEF Pop, Inv, TypeOK
<1>3. Count > 0
  BY DEF Pop, Inv, CycleInv
<1>4. Count' = Count - 1
  BY <1>2, <1>3 DEF Pop, NextIndex, Count, Indices
<1>5. InHand \in [1..1 -> Data] /\ InHand' \in [1..0 -> Data]
  BY <1>v, <1>1 DEF ViewFacts
<1>6. InHand # <<>> /\ Tail(InHand) = InHand'
  BY <1>5, FcnTailOne, FcnEmpty
<1>7. \A i \in 1..(Count - 1) : EntryAt(erdp' + i - 1) = EntryAt(erdp + 1 + i - 1)
  <2>1. Count \in 0..(RingSegmentSize - 1)
    BY <1>v DEF ViewFacts
  <2>2. erdp' = IF erdp + 1 = RingSegmentSize THEN 0 ELSE erdp + 1
    BY DEF Pop, NextIndex
  <2>3. erdp \in 0..(RingSegmentSize - 1)
    BY <1>2 DEF Indices
  <2> QED
    BY <2>1, <2>2, <2>3 DEF EntryAt
<1>8. Waiting' = Waiting
  <2>1. /\ Waiting \in [1..(Count - 1) -> Data]
        /\ \A i \in 1..(Count - 1) : Waiting[i] = buf[EntryAt(erdp + 1 + i - 1)].data
    BY <1>v, <1>1 DEF ViewFacts
  <2>2. Count' - 0 = Count - 1 /\ erdp' + 0 = erdp'
    <3>1. Count \in Int
      BY <1>v DEF ViewFacts
    <3>2. erdp' \in Int
      BY DEF Inv, TypeOK, Indices
    <3>3. Count' - 0 = Count - 1
      BY <1>4, <3>1
    <3>4. erdp' + 0 = erdp'
      BY <3>2, AddZero
    <3> QED
      BY <3>3, <3>4
  <2>3. /\ Waiting' \in [1..(Count - 1) -> Data]
        /\ \A i \in 1..(Count - 1) : Waiting'[i] = buf[EntryAt(erdp' + i - 1)].data
    BY <1>v, <1>1, <1>2, <2>2 DEF ViewFacts
  <2>4. \A i \in 1..(Count - 1) : Waiting'[i] = Waiting[i]
    BY <1>7, <2>1, <2>3
  <2>5. Count - 1 \in Int
    BY <1>v DEF ViewFacts
  <2> QED
    BY <2>1, <2>3, <2>4, <2>5
<1> QED
  BY <1>6, <1>8 DEF Fifo!Handle

(* An event half written is not seen.                                      *)
LEMMA WriteDataStep ==
    ASSUME NEW x \in Payload
    PROVE  Inv /\ Inv' /\ HcWriteData(x) => UNCHANGED <<Waiting, InHand>>
<1> SUFFICES ASSUME Inv, Inv', HcWriteData(x) PROVE UNCHANGED <<Waiting, InHand>>
  OBVIOUS
<1> USE RingSegmentSizeAssumption
<1>v. ViewFacts /\ ViewFacts'
  BY Views, PTL
<1>1. Handled' = Handled /\ Count' = Count /\ erdp' = erdp
  BY DEF HcWriteData, Handled, Count
<1>2. \A i \in Indices : i # enq => buf'[i] = buf[i]
  BY DEF HcWriteData, Inv, TypeOK
<1>3. \A i \in 1..(Count - Handled) :
        /\ EntryAt(erdp + Handled + i - 1) \in Indices
        /\ EntryAt(erdp + Handled + i - 1) # enq
  BY <1>v, SMTT(30) DEF ViewFacts, EntryAt, Count, Inv, TypeOK, Indices
<1>4. Handled = 1 => erdp \in Indices /\ erdp # enq
  BY <1>v DEF ViewFacts, Count, Inv, TypeOK, Indices
<1>5. Waiting' = Waiting
  <2>1. \A i \in 1..(Count - Handled) : Waiting'[i] = Waiting[i]
    BY <1>v, <1>1, <1>2, <1>3 DEF ViewFacts
  <2> QED
    BY <1>v, <1>1, <2>1 DEF ViewFacts
<1>6. InHand' = InHand
  <2>1. \A i \in 1..Handled : InHand'[i] = InHand[i]
    BY <1>v, <1>1, <1>2, <1>4 DEF ViewFacts
  <2> QED
    BY <1>v, <1>1, <2>1 DEF ViewFacts
<1> QED
  BY <1>5, <1>6

(* With its cycle bit an event joins the queue, which has room for it.     *)
LEMMA WriteControlStep == Inv /\ Inv' /\ HcWriteControl => Fifo!Next
<1> SUFFICES ASSUME Inv, Inv', HcWriteControl PROVE Fifo!Put(buf[enq].data)
  BY DEF Fifo!Next, HcWriteControl, Inv, CycleInv
<1> USE RingSegmentSizeAssumption
<1> DEFINE n == Count - Handled
<1>v. ViewFacts /\ ViewFacts'
  BY Views, PTL
<1>1. Handled' = Handled /\ erdp' = erdp
  BY DEF HcWriteControl, Handled
<1>2. Count < RingSegmentSize - 1 /\ Count' = Count + 1
  <2>1. erdp \in 0..(RingSegmentSize - 1) /\ enq \in 0..(RingSegmentSize - 1)
    BY DEF Inv, TypeOK, Indices
  <2>2. NextIndex(enq) # erdp /\ enq' = NextIndex(enq)
    BY DEF HcWriteControl, Inv, CycleInv
  <2> QED
    BY <1>1, <2>1, <2>2 DEF Count, NextIndex
<1>3. \A i \in Indices : buf'[i].data = buf[i].data
  BY DEF HcWriteControl, Inv, TypeOK, Trb
<1>4. n \in Nat /\ Count' - Handled' = n + 1 /\ n + 1 \in 1..(n + 1)
  BY <1>v, <1>1, <1>2 DEF ViewFacts
<1>5. /\ \A i \in 1..(n + 1) : EntryAt(erdp + Handled + i - 1) \in Indices
      /\ EntryAt(erdp + Handled + (n + 1) - 1) = enq
  BY <1>v, <1>2 DEF ViewFacts, EntryAt, Count, Inv, TypeOK, Indices
<1>6. /\ Waiting \in [1..n -> Data]
      /\ \A i \in 1..n : Waiting[i] = buf[EntryAt(erdp + Handled + i - 1)].data
  BY <1>v DEF ViewFacts
<1>7. /\ Waiting' \in [1..(n + 1) -> Data]
      /\ \A i \in 1..(n + 1) : Waiting'[i] = buf'[EntryAt(erdp + Handled + i - 1)].data
  BY <1>v, <1>1, <1>4 DEF ViewFacts
<1> HIDE DEF n
<1>8. \A i \in 1..n : Waiting'[i] = Waiting[i]
  BY <1>3, <1>4, <1>5, <1>6, <1>7
<1>9. Waiting' = Append(Waiting, Waiting'[n + 1])
  BY <1>4, <1>6, <1>7, <1>8, FcnAppend
<1>10. Waiting'[n + 1] = buf[enq].data
  BY <1>3, <1>4, <1>5, <1>7
<1>11. InHand' = InHand
  <2>1. erdp \in Indices
    BY DEF Inv, TypeOK
  <2>2. \A i \in 1..Handled : InHand'[i] = InHand[i]
    BY <1>v, <1>1, <1>3, <2>1 DEF ViewFacts
  <2> QED
    BY <1>v, <1>1, <2>2 DEF ViewFacts
<1>12. Len(Waiting) = n /\ Len(InHand) = Handled
  <2>1. Handled \in Nat /\ InHand \in [1..Handled -> Data]
    BY <1>v DEF ViewFacts
  <2>2. Len(Waiting) = n
    BY <1>4, <1>6, FcnLen
  <2> QED
    BY <2>1, <2>2, FcnLen
<1>13. Len(Waiting) + Len(InHand) < RingSegmentSize - 1
  BY <1>v, <1>2, <1>12 DEF n, ViewFacts
<1> QED
  BY <1>9, <1>10, <1>11, <1>13 DEF Fifo!Put

(* For every size of the segment the event ring is a queue: the driver     *)
(* handles each event once, in the order the controller wrote them, and    *)
(* none is overwritten before Pop gives its entry back.                    *)
THEOREM EventRingIsFifo == Spec => ImplementsFifo
<1>1. Inv /\ Inv' /\ [Next]_vars => [Fifo!Next]_(Fifo!vars)
  <2> SUFFICES ASSUME Inv, Inv', [Next]_vars
               PROVE  Fifo!Next \/ UNCHANGED <<Waiting, InHand>>
    BY DEF Fifo!vars
  <2>1. CASE TakeFront
    BY <2>1, TakeFrontStep DEF Fifo!Next
  <2>2. CASE Pop
    BY <2>2, PopStep DEF Fifo!Next
  <2>3. ASSUME NEW x \in Payload, HcWriteData(x) PROVE UNCHANGED <<Waiting, InHand>>
    BY <2>3, WriteDataStep
  <2>4. CASE HcWriteControl
    BY <2>4, WriteControlStep
  <2>5. CASE UNCHANGED vars
    BY <2>5 DEF vars, Waiting, InHand, Count, Handled, EntryAt
  <2> QED
    BY <2>1, <2>2, <2>3, <2>4, <2>5 DEF Next, PollIdle
<1> QED
  BY <1>1, InitFifo, CycleBits, PTL DEF Spec, ImplementsFifo, Fifo!Spec, Inv, RingInv
=============================================================================
