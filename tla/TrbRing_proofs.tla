--------------------------- MODULE TrbRing_proofs ---------------------------
(***************************************************************************)
(* The ring for every buffer size and every bound on the outstanding TRBs  *)
(* that leaves two entries free: the invariants on the cycle bits and on   *)
(* the window of entries in use, and that Ring::Push and the controller    *)
(* implement the queue of TrbFifo.                                         *)
(***************************************************************************)
EXTENDS TrbRing, SequenceTheorems, TLAPS

-----------------------------------------------------------------------------
(* Sequences given as functions on 1..n.                                   *)

(* A function on 1..n is a sequence of length n.                           *)
LEMMA FcnLen ==
    ASSUME NEW S, NEW n \in Nat, NEW F \in [1..n -> S]
    PROVE  F \in Seq(S) /\ Len(F) = n
<1>1. F \in Seq(S)
  BY IsASeq
<1>2. Len(F) \in Nat /\ DOMAIN F = 1..Len(F)
  BY <1>1, LenProperties
<1>3. DOMAIN F = 1..n
  OBVIOUS
<1>4. 1..n = 1..Len(F)
  BY <1>2, <1>3
<1> QED
  BY <1>1, <1>2, <1>4

(* On 1..0 it is the empty sequence.                                       *)
LEMMA FcnEmpty ==
    ASSUME NEW S, NEW F \in [1..0 -> S]
    PROVE  F = <<>>
<1>1. F \in Seq(S) /\ Len(F) = 0
  BY FcnLen
<1> QED
  BY <1>1, EmptySeq

(* Dropping the first element shifts the others.                           *)
LEMMA FcnTail ==
    ASSUME NEW S, NEW n \in Nat, NEW F \in [1..(n + 1) -> S], NEW G \in [1..n -> S],
           \A i \in 1..n : G[i] = F[i + 1]
    PROVE  F # <<>> /\ Head(F) = F[1] /\ Tail(F) = G
<1>1. F \in Seq(S) /\ Len(F) = n + 1
  BY FcnLen
<1>2. G \in Seq(S) /\ Len(G) = n
  BY FcnLen
<1>3. F # <<>>
  BY <1>1, EmptySeq
<1>4. Head(F) = F[1] /\ Tail(F) \in Seq(S) /\ Len(Tail(F)) = n
  BY <1>1, <1>3, HeadTailProperties
<1>5. \A i \in 1..n : Tail(F)[i] = F[i + 1]
  BY <1>1, <1>3, <1>4, HeadTailProperties
<1>6. Tail(F) = G
  BY <1>2, <1>4, <1>5, SeqEqual
<1> QED
  BY <1>3, <1>4, <1>6

(* Adding a last element keeps the others.                                 *)
LEMMA FcnAppend ==
    ASSUME NEW S, NEW n \in Nat, NEW F \in [1..n -> S], NEW G \in [1..(n + 1) -> S],
           \A i \in 1..n : G[i] = F[i]
    PROVE  G = Append(F, G[n + 1])
<1>1. F \in Seq(S) /\ Len(F) = n
  BY FcnLen
<1>2. G \in Seq(S) /\ Len(G) = n + 1
  BY FcnLen
<1>3. G[n + 1] \in S
  OBVIOUS
<1> DEFINE A == Append(F, G[n + 1])
<1>4. /\ A \in Seq(S)
      /\ Len(A) = n + 1
      /\ \A i \in 1..n : A[i] = F[i]
      /\ A[n + 1] = G[n + 1]
  BY <1>1, <1>3, AppendProperties
<1> HIDE DEF A
<1>5. \A i \in 1..Len(G) : G[i] = A[i]
  BY <1>2, <1>4
<1> QED
  BY <1>2, <1>4, <1>5, SeqEqual DEF A

-----------------------------------------------------------------------------
Inv == TypeOK /\ CycleInv /\ WindowInv

(* The entry that completion number i of n points at.                      *)
Completed(d, n, i) ==
    LET k == d - 1 - n + i IN IF k < 0 THEN k + LinkIndex ELSE k

(* Ring::Initialize establishes the invariant.                             *)
LEMMA InitInv == Init => Inv
<1> SUFFICES ASSUME Init PROVE Inv
  OBVIOUS
<1> USE BufSizeAssumption, MaxOutstandingAssumption DEF Init, LinkIndex
<1>1. [data |-> Cleared, link |-> FALSE, cycle |-> 0] \in Trb
  BY DEF Trb
<1>2. TypeOK
  BY <1>1 DEF TypeOK
<1>3. Pending = 0 /\ Len(completions) = 0
  BY DEF Pending
<1>4. CycleInv
  <2>1. \A i \in 0..LinkIndex : ~buf[i].link /\ buf[i].cycle = 0
    OBVIOUS
  <2> QED
    BY <1>3, <2>1 DEF CycleInv
<1>5. WindowInv
  BY <1>3 DEF WindowInv
<1> QED
  BY <1>2, <1>4, <1>5 DEF Inv

(* The bounds that follow from the invariant.                              *)
Bounds ==
    /\ LinkIndex \in Nat /\ LinkIndex >= 1
    /\ MaxOutstanding \in Nat /\ MaxOutstanding <= LinkIndex - 1
    /\ write_index \in 0..LinkIndex /\ deq \in 0..LinkIndex
    /\ cycle_bit \in 0..1 /\ ccs \in 0..1
    /\ Pending \in Nat /\ Len(completions) \in Nat
    /\ Pending + Len(completions) <= MaxOutstanding
    /\ ccs = cycle_bit => Pending = write_index - deq
    /\ ccs # cycle_bit => Pending = LinkIndex - deq + write_index

(* They do follow.                                                         *)
LEMMA BoundsHold == Inv => Bounds
<1> SUFFICES ASSUME Inv PROVE Bounds
  OBVIOUS
<1> USE BufSizeAssumption, MaxOutstandingAssumption DEF Inv, TypeOK
<1>1. LinkIndex \in Nat /\ LinkIndex >= 1 /\ MaxOutstanding <= LinkIndex - 1
  BY DEF LinkIndex
<1>2. Pending \in Nat
  BY <1>1 DEF CycleInv, Pending
<1>3. Len(completions) \in Nat
  OBVIOUS
<1> QED
  BY <1>1, <1>2, <1>3 DEF Bounds, WindowInv, Pending

(* What a store of Ring::CopyToLast does to the buffer.                    *)
LEMMA StoreDataEffect ==
    ASSUME TypeOK, NEW x \in Payload \cup {LinkTarget}, StoreData(x)
    PROVE  /\ buf' \in [0..LinkIndex -> Trb]
           /\ \A i \in 0..LinkIndex :
                /\ buf'[i].link = buf[i].link /\ buf'[i].cycle = buf[i].cycle
                /\ buf'[i].data = IF i = write_index THEN x ELSE buf[i].data
<1>1. \A i \in 0..LinkIndex :
        buf'[i] = IF i = write_index THEN [buf[i] EXCEPT !.data = x] ELSE buf[i]
  BY DEF StoreData, TypeOK
<1>2. \A i \in 0..LinkIndex : buf'[i] \in Trb
  BY <1>1 DEF TypeOK, Trb
<1>3. buf' \in [0..LinkIndex -> Trb]
  BY <1>2 DEF StoreData, TypeOK
<1> QED
  BY <1>1, <1>3 DEF TypeOK, Trb

(* The same for the word with the cycle bit.                               *)
LEMMA StoreControlEffect ==
    ASSUME TypeOK, NEW link \in BOOLEAN, StoreControl(link)
    PROVE  /\ buf' \in [0..LinkIndex -> Trb]
           /\ \A i \in 0..LinkIndex :
                /\ buf'[i].data = buf[i].data
                /\ i # write_index => buf'[i] = buf[i]
           /\ buf'[write_index].link = link
           /\ buf'[write_index].cycle = cycle_bit
<1>1. \A i \in 0..LinkIndex :
        buf'[i] = IF i = write_index
                  THEN [buf[i] EXCEPT !.link = link, !.cycle = cycle_bit] ELSE buf[i]
  BY DEF StoreControl, TypeOK
<1>2. \A i \in 0..LinkIndex : buf'[i] \in Trb
  BY <1>1 DEF TypeOK, Trb
<1>3. buf' \in [0..LinkIndex -> Trb]
  BY <1>2 DEF StoreControl, TypeOK
<1> QED
  BY <1>1, <1>3 DEF TypeOK, Trb

-----------------------------------------------------------------------------
(* The first store of Push touches nothing that anybody looks at.          *)
LEMMA PushDataInv ==
    ASSUME NEW x \in Payload
    PROVE  Inv /\ PushData(x) => Inv'
<1> SUFFICES ASSUME Inv, PushData(x) PROVE Inv'
  OBVIOUS
<1>b. Bounds
  BY BoundsHold
<1>1. /\ buf' \in [0..LinkIndex -> Trb]
      /\ \A i \in 0..LinkIndex :
           /\ buf'[i].link = buf[i].link /\ buf'[i].cycle = buf[i].cycle
           /\ buf'[i].data = IF i = write_index THEN x ELSE buf[i].data
  BY StoreDataEffect DEF PushData, Inv
<1>2. TypeOK'
  BY <1>1 DEF PushData, Inv, TypeOK
<1>3. Pending' = Pending
  BY DEF PushData, Pending
<1>4. write_index # LinkIndex
  BY DEF PushData, Inv, CycleInv
<1>5. CycleInv'
  BY <1>b, <1>1, <1>3, <1>4 DEF PushData, Inv, CycleInv, Bounds
<1>6. WindowInv'
  BY <1>3 DEF PushData, Inv, WindowInv
<1> QED
  BY <1>2, <1>5, <1>6 DEF Inv

(* The second one hands the TRB over.                                      *)
LEMMA PushControlInv == Inv /\ PushControl => Inv'
<1> SUFFICES ASSUME Inv, PushControl PROVE Inv'
  OBVIOUS
<1>b. Bounds
  BY BoundsHold
<1>1. /\ buf' \in [0..LinkIndex -> Trb]
      /\ \A i \in 0..LinkIndex :
           /\ buf'[i].data = buf[i].data
           /\ i # write_index => buf'[i] = buf[i]
      /\ buf'[write_index].link = FALSE
      /\ buf'[write_index].cycle = cycle_bit
  BY StoreControlEffect DEF PushControl, Inv
<1>2. write_index # LinkIndex /\ write_index' = write_index + 1
  BY DEF PushControl, Inv, CycleInv
<1>3. pc' = IF write_index' = LinkIndex THEN "link_data" ELSE "idle"
  BY <1>2 DEF PushControl, LinkIndex
<1>4. TypeOK'
  BY <1>b, <1>1, <1>2, <1>3 DEF PushControl, Inv, TypeOK, Bounds
<1>5. Pending' = Pending + 1
  BY <1>b, <1>2 DEF PushControl, Pending, Bounds
<1>6. CycleInv'
  <2>1. \A i \in 0..(LinkIndex - 1) :
          /\ ~buf'[i].link
          /\ buf'[i].cycle = IF i < write_index' THEN cycle_bit' ELSE 1 - cycle_bit'
    BY <1>b, <1>1, <1>2, SMTT(30) DEF PushControl, Inv, CycleInv, Bounds
  <2>2. buf'[LinkIndex] = buf[LinkIndex]
    BY <1>b, <1>1, <1>2 DEF Bounds
  <2> QED
    BY <1>b, <1>3, <1>5, <2>1, <2>2 DEF PushControl, Inv, CycleInv, Bounds
<1>7. WindowInv'
  BY <1>b, <1>3, <1>5 DEF PushControl, Inv, WindowInv, Bounds
<1> QED
  BY <1>4, <1>6, <1>7 DEF Inv

(* The link TRB is stored while the controller is in the same lap.         *)
LEMMA LinkSameLap == Inv /\ write_index = LinkIndex => ccs = cycle_bit
  BY BoundsHold DEF Bounds

(* The first store of the link TRB.                                        *)
LEMMA PushLinkDataInv == Inv /\ PushLinkData => Inv'
<1> SUFFICES ASSUME Inv, PushLinkData PROVE Inv'
  OBVIOUS
<1>b. Bounds
  BY BoundsHold
<1>1. /\ buf' \in [0..LinkIndex -> Trb]
      /\ \A i \in 0..LinkIndex :
           /\ buf'[i].link = buf[i].link /\ buf'[i].cycle = buf[i].cycle
           /\ buf'[i].data = IF i = write_index THEN LinkTarget ELSE buf[i].data
  BY StoreDataEffect DEF PushLinkData, Inv
<1>2. write_index = LinkIndex /\ ccs = cycle_bit
  BY LinkSameLap DEF PushLinkData, Inv, CycleInv
<1>3. TypeOK'
  BY <1>1 DEF PushLinkData, Inv, TypeOK
<1>4. Pending' = Pending
  BY DEF PushLinkData, Pending
<1>5. CycleInv'
  <2>1. \A i \in 0..(LinkIndex - 1) :
          /\ ~buf'[i].link
          /\ buf'[i].cycle = IF i < write_index' THEN cycle_bit' ELSE 1 - cycle_bit'
    BY <1>b, <1>1, <1>2 DEF PushLinkData, Inv, CycleInv, Bounds
  <2>2. buf'[LinkIndex].cycle = 1 - cycle_bit' /\ buf'[LinkIndex].data = LinkTarget
    BY <1>b, <1>1, <1>2 DEF PushLinkData, Inv, CycleInv, Bounds
  <2>3. /\ pc' = "link_control"
        /\ write_index' = write_index /\ ccs' = ccs /\ cycle_bit' = cycle_bit
    BY DEF PushLinkData
  <2> QED
    BY <1>b, <1>2, <1>4, <2>1, <2>2, <2>3 DEF CycleInv, Bounds
<1>6. WindowInv'
  BY <1>4 DEF PushLinkData, Inv, WindowInv
<1> QED
  BY <1>3, <1>5, <1>6 DEF Inv

(* The second one begins a new lap.                                        *)
LEMMA PushLinkControlInv == Inv /\ PushLinkControl => Inv'
<1> SUFFICES ASSUME Inv, PushLinkControl PROVE Inv'
  OBVIOUS
<1>b. Bounds
  BY BoundsHold
<1>1. /\ buf' \in [0..LinkIndex -> Trb]
      /\ \A i \in 0..LinkIndex :
           /\ buf'[i].data = buf[i].data
           /\ i # write_index => buf'[i] = buf[i]
      /\ buf'[write_index].link = TRUE
      /\ buf'[write_index].cycle = cycle_bit
  BY StoreControlEffect DEF PushLinkControl, Inv
<1>2. write_index = LinkIndex /\ ccs = cycle_bit
  BY LinkSameLap DEF PushLinkControl, Inv, CycleInv
<1>3. cycle_bit' = 1 - cycle_bit /\ write_index' = 0 /\ pc' = "idle"
  BY DEF PushLinkControl
<1>4. TypeOK'
  BY <1>b, <1>1, <1>3 DEF PushLinkControl, Inv, TypeOK, Bounds
<1>5. Pending' = Pending
  BY <1>b, <1>2, <1>3 DEF PushLinkControl, Pending, Bounds
<1>6. CycleInv'
  <2>1. \A i \in 0..(LinkIndex - 1) :
          /\ ~buf'[i].link
          /\ buf'[i].cycle = IF i < write_index' THEN cycle_bit' ELSE 1 - cycle_bit'
    BY <1>b, <1>1, <1>2, <1>3 DEF Inv, CycleInv, Bounds
  <2>2. buf'[LinkIndex].link /\ buf'[LinkIndex].cycle = 1 - cycle_bit'
    BY <1>b, <1>1, <1>2, <1>3 DEF Bounds
  <2>3. buf'[LinkIndex].data = LinkTarget
    BY <1>b, <1>1, <1>2 DEF PushLinkControl, Inv, CycleInv, Bounds
  <2> QED
    BY <1>b, <1>3, <1>5, <2>1, <2>2, <2>3 DEF CycleInv, Bounds
<1>7. WindowInv'
  BY <1>3, <1>5 DEF PushLinkControl, Inv, WindowInv
<1> QED
  BY <1>4, <1>6, <1>7 DEF Inv

(* The controller takes a TRB only from a payload entry, when one is       *)
(* pending.                                                                *)
LEMMA FetchPending ==
    Inv /\ Fetch => deq < LinkIndex /\ Pending >= 1
<1> SUFFICES ASSUME Inv, Fetch PROVE deq < LinkIndex /\ Pending >= 1
  OBVIOUS
<1>b. Bounds
  BY BoundsHold
<1>1. deq # LinkIndex
  BY <1>b DEF Fetch, Inv, CycleInv, Bounds
<1>2. deq \in 0..(LinkIndex - 1)
  BY <1>b, <1>1 DEF Bounds
<1>3. buf[deq].cycle = ccs
  BY DEF Fetch
<1>4. buf[deq].cycle = IF deq < write_index THEN cycle_bit ELSE 1 - cycle_bit
  BY <1>2 DEF Inv, CycleInv
<1> QED
  BY <1>b, <1>2, <1>3, <1>4 DEF Bounds

(* Fetching moves a TRB from the pending ones to the completions.          *)
LEMMA FetchInv == Inv /\ Fetch => Inv'
<1> SUFFICES ASSUME Inv, Fetch PROVE Inv'
  OBVIOUS
<1>b. Bounds
  BY BoundsHold
<1>1. deq < LinkIndex /\ Pending >= 1
  BY FetchPending
<1>2. completions \in Seq(0..LinkIndex) /\ completions' = Append(completions, deq)
      /\ deq' = deq + 1 /\ deq \in 0..LinkIndex
  BY DEF Fetch, Inv, TypeOK
<1>3. /\ completions' \in Seq(0..LinkIndex)
      /\ Len(completions') = Len(completions) + 1
      /\ \A i \in 1..Len(completions) : completions'[i] = completions[i]
      /\ completions'[Len(completions) + 1] = deq
  BY <1>2, AppendProperties
<1>4. TypeOK'
  BY <1>b, <1>1, <1>2, <1>3 DEF Fetch, Inv, TypeOK, Bounds
<1>5. Pending' = Pending - 1
  BY <1>b, <1>2, SMTT(30) DEF Fetch, Pending, Bounds
<1>6. CycleInv'
  BY <1>b, <1>1, <1>5, SMTT(30) DEF Fetch, Inv, CycleInv, Bounds
<1>7. WindowInv'
  <2>1. ASSUME NEW i \in 1..Len(completions')
        PROVE  completions'[i] = Completed(deq', Len(completions'), i)
    <3>1. CASE i \in 1..Len(completions)
      <4>1. completions[i] = Completed(deq, Len(completions), i)
        BY <3>1 DEF Inv, WindowInv, Completed
      <4>2. deq' - 1 - Len(completions') + i = deq - 1 - Len(completions) + i
        BY <1>b, <1>2, <1>3 DEF Bounds
      <4> QED
        BY <1>3, <3>1, <4>1, <4>2 DEF Completed
    <3>2. CASE i = Len(completions) + 1
      BY <1>b, <1>1, <1>2, <1>3, <3>2 DEF Completed, Bounds
    <3> QED
      BY <1>b, <1>3, <3>1, <3>2 DEF Bounds
  <2>2. Pending' + Len(completions') = Pending + Len(completions)
    BY <1>b, <1>3, <1>5 DEF Bounds
  <2> QED
    BY <2>1, <2>2 DEF Fetch, Inv, WindowInv, Completed
<1> QED
  BY <1>4, <1>6, <1>7 DEF Inv

(* Following the link takes the controller into the producer's lap.        *)
LEMMA FollowLinkInv == Inv /\ FollowLink => Inv' /\ deq = LinkIndex /\ Pending' = Pending
<1> SUFFICES ASSUME Inv, FollowLink PROVE Inv' /\ deq = LinkIndex /\ Pending' = Pending
  OBVIOUS
<1>b. Bounds
  BY BoundsHold
<1>1. deq = LinkIndex
  BY <1>b DEF FollowLink, Inv, CycleInv, Bounds
<1>2. ccs = 1 - cycle_bit /\ deq' = 0 /\ ccs' = 1 - ccs
  BY <1>1 DEF FollowLink, Inv, CycleInv
<1>3. ccs' = cycle_bit
  BY <1>b, <1>2 DEF Bounds
<1>4. TypeOK'
  BY <1>b, <1>2, <1>3 DEF FollowLink, Inv, TypeOK, Bounds
<1>5. Pending' = Pending
  BY <1>b, <1>1, <1>2, <1>3 DEF FollowLink, Pending, Bounds
<1>6. CycleInv'
  BY <1>b, <1>3, <1>5 DEF FollowLink, Inv, CycleInv, Bounds
<1>7. WindowInv'
  <2>1. \A i \in 1..Len(completions) :
          Completed(0, Len(completions), i) = Completed(LinkIndex, Len(completions), i)
    BY <1>b DEF Completed, Bounds
  <2>2. \A i \in 1..Len(completions) : completions[i] = Completed(deq, Len(completions), i)
    BY DEF Inv, WindowInv, Completed
  <2>3. \A i \in 1..Len(completions) : completions[i] = Completed(deq', Len(completions), i)
    BY <1>1, <1>2, <2>1, <2>2
  <2> QED
    BY <1>5, <2>3 DEF FollowLink, Inv, WindowInv, Completed
<1> QED
  BY <1>1, <1>4, <1>5, <1>6, <1>7 DEF Inv

(* Handling a completion forgets the oldest one.                           *)
LEMMA HandleCompletionInv == Inv /\ HandleCompletion => Inv'
<1> SUFFICES ASSUME Inv, HandleCompletion PROVE Inv'
  OBVIOUS
<1>b. Bounds
  BY BoundsHold
<1>1. completions \in Seq(0..LinkIndex) /\ completions # <<>>
      /\ completions' = Tail(completions)
  BY DEF HandleCompletion, Inv, TypeOK
<1>2. /\ completions' \in Seq(0..LinkIndex)
      /\ Len(completions') = Len(completions) - 1
      /\ \A i \in 1..Len(completions') : completions'[i] = completions[i + 1]
  BY <1>1, HeadTailProperties
<1>3. TypeOK'
  BY <1>2 DEF HandleCompletion, Inv, TypeOK
<1>4. Pending' = Pending
  BY DEF HandleCompletion, Pending
<1>5. CycleInv'
  BY <1>4 DEF HandleCompletion, Inv, CycleInv
<1>6. WindowInv'
  <2>1. ASSUME NEW i \in 1..Len(completions')
        PROVE  completions'[i] = Completed(deq', Len(completions'), i)
    <3>1. i + 1 \in 1..Len(completions)
      BY <1>b, <1>2 DEF Bounds
    <3>2. completions[i + 1] = Completed(deq, Len(completions), i + 1)
      BY <3>1 DEF Inv, WindowInv, Completed
    <3>3. deq' - 1 - Len(completions') + i = deq - 1 - Len(completions) + (i + 1)
      BY <1>b, <1>2 DEF HandleCompletion, Bounds
    <3> QED
      BY <1>2, <3>2, <3>3 DEF Completed
  <2>2. Pending' + Len(completions') <= MaxOutstanding
    BY <1>b, <1>2, <1>4 DEF Bounds
  <2> QED
    BY <2>1, <2>2 DEF HandleCompletion, Inv, WindowInv, Completed
<1> QED
  BY <1>3, <1>5, <1>6 DEF Inv

(* Every step preserves the invariant.                                     *)
LEMMA NextInv == Inv /\ [Next]_vars => Inv'
<1> SUFFICES ASSUME Inv, [Next]_vars PROVE Inv'
  OBVIOUS
<1>1. CASE UNCHANGED vars
  BY <1>1 DEF vars, Inv, TypeOK, CycleInv, WindowInv, Pending
<1> QED
  BY <1>1, PushDataInv, PushControlInv, PushLinkDataInv, PushLinkControlInv,
     FetchInv, FollowLinkInv, HandleCompletionInv DEF Next, PushStep, PollIdle

(* For every buffer size: the cycle bits say exactly which entries are the *)
(* controller's, and the entries in use never reach round to the one that  *)
(* Push writes.                                                            *)
THEOREM RingInvariants == Spec => []RingInv
  BY InitInv, NextInv, PTL DEF Spec, Inv, RingInv

-----------------------------------------------------------------------------
(* Contents the first words of an entry may have.                          *)
Data == Payload \cup {Cleared, LinkTarget}

(* What the two views of the refinement mapping are.  Neither contains the *)
(* entry that Push writes next, nor the link TRB.                          *)
ViewFacts ==
    /\ Bounds
    /\ PendingData \in [1..Pending -> Data]
    /\ CompletedData \in [1..Len(completions) -> Data]
    /\ \A i \in 1..Pending :
         /\ PendingData[i] = buf[EntryAt(deq + i - 1)].data
         /\ EntryAt(deq + i - 1) \in 0..(LinkIndex - 1)
         /\ EntryAt(deq + i - 1) # write_index
    /\ \A i \in 1..Len(completions) :
         /\ CompletedData[i] = buf[completions[i]].data
         /\ completions[i] \in 0..(LinkIndex - 1)
         /\ completions[i] # write_index

(* The invariant makes them so.                                            *)
LEMMA Views == Inv => ViewFacts
<1> SUFFICES ASSUME Inv PROVE ViewFacts
  OBVIOUS
<1>b. Bounds
  BY BoundsHold
<1>1. \A i \in 1..Pending : /\ EntryAt(deq + i - 1) \in 0..(LinkIndex - 1)
                            /\ EntryAt(deq + i - 1) # write_index
  BY <1>b DEF Bounds, EntryAt
<1>2. \A i \in 1..Len(completions) :
        /\ completions[i] \in 0..(LinkIndex - 1)
        /\ completions[i] # write_index
  <2>1. \A i \in 1..Len(completions) : completions[i] = Completed(deq, Len(completions), i)
    BY DEF Inv, WindowInv, Completed
  <2>2. \A i \in 1..Len(completions) :
          /\ Completed(deq, Len(completions), i) \in 0..(LinkIndex - 1)
          /\ Completed(deq, Len(completions), i) # write_index
    BY <1>b DEF Bounds, Completed
  <2> QED
    BY <2>1, <2>2
<1>3. \A i \in 0..(LinkIndex - 1) : buf[i].data \in Data
  BY <1>b DEF Bounds, Inv, TypeOK, Trb, Data
<1>4. PendingData \in [1..Pending -> Data]
  BY <1>1, <1>3 DEF PendingData
<1>5. CompletedData \in [1..Len(completions) -> Data]
  BY <1>2, <1>3 DEF CompletedData
<1> QED
  BY <1>b, <1>1, <1>2, <1>4, <1>5 DEF ViewFacts, PendingData, CompletedData

(* At first nothing is pending or completed.                               *)
LEMMA InitFifo == Init => Fifo!Init
<1> SUFFICES ASSUME Init PROVE Fifo!Init
  OBVIOUS
<1>1. ViewFacts
  BY InitInv, Views
<1>2. Pending = 0 /\ Len(completions) = 0
  BY DEF Init, Pending
<1>3. PendingData \in [1..0 -> Data] /\ CompletedData \in [1..0 -> Data]
  BY <1>1, <1>2 DEF ViewFacts
<1> QED
  BY <1>3, FcnEmpty DEF Fifo!Init

(* Steps that leave the position of both sides and the data of all entries *)
(* in use alone leave the views alone.                                     *)
LEMMA SameViews ==
    ASSUME Inv, Inv', Pending' = Pending, deq' = deq, completions' = completions,
           \A i \in 0..(LinkIndex - 1) : i # write_index => buf'[i].data = buf[i].data
    PROVE  UNCHANGED <<PendingData, CompletedData>>
<1>v. ViewFacts /\ ViewFacts'
  BY Views, PTL
<1>1. Pending \in Int /\ Len(completions) \in Int
  BY <1>v DEF ViewFacts, Bounds
<1>2. \A i \in 1..Pending : PendingData'[i] = PendingData[i]
  BY <1>v DEF ViewFacts
<1>3. \A i \in 1..Len(completions) : CompletedData'[i] = CompletedData[i]
  BY <1>v DEF ViewFacts
<1>4. PendingData' = PendingData
  BY <1>v, <1>1, <1>2 DEF ViewFacts
<1>5. CompletedData' = CompletedData
  BY <1>v, <1>1, <1>3 DEF ViewFacts
<1> QED
  BY <1>4, <1>5

(* A TRB half written is not seen.                                         *)
LEMMA PushDataStep ==
    ASSUME NEW x \in Payload
    PROVE  Inv /\ Inv' /\ PushData(x) => UNCHANGED <<PendingData, CompletedData>>
<1> SUFFICES ASSUME Inv, Inv', PushData(x)
             PROVE  UNCHANGED <<PendingData, CompletedData>>
  OBVIOUS
<1>b. Bounds
  BY BoundsHold
<1>1. \A i \in 0..(LinkIndex - 1) : i # write_index => buf'[i].data = buf[i].data
  BY <1>b, StoreDataEffect DEF PushData, Inv, Bounds
<1>2. Pending' = Pending /\ deq' = deq /\ completions' = completions
  BY DEF PushData, Pending
<1> QED
  BY <1>1, <1>2, SameViews

(* The link TRB is not part of the queue.                                  *)
LEMMA PushLinkDataStep ==
    Inv /\ Inv' /\ PushLinkData => UNCHANGED <<PendingData, CompletedData>>
<1> SUFFICES ASSUME Inv, Inv', PushLinkData
             PROVE  UNCHANGED <<PendingData, CompletedData>>
  OBVIOUS
<1>b. Bounds
  BY BoundsHold
<1>1. \A i \in 0..(LinkIndex - 1) : i # write_index => buf'[i].data = buf[i].data
  BY <1>b, StoreDataEffect DEF PushLinkData, Inv, Bounds
<1>2. Pending' = Pending /\ deq' = deq /\ completions' = completions
  BY DEF PushLinkData, Pending
<1> QED
  BY <1>1, <1>2, SameViews

(* Nor does a new lap change what is pending.                              *)
LEMMA PushLinkControlStep ==
    Inv /\ Inv' /\ PushLinkControl => UNCHANGED <<PendingData, CompletedData>>
<1> SUFFICES ASSUME Inv, Inv', PushLinkControl
             PROVE  UNCHANGED <<PendingData, CompletedData>>
  OBVIOUS
<1>b. Bounds
  BY BoundsHold
<1>1. \A i \in 0..(LinkIndex - 1) : i # write_index => buf'[i].data = buf[i].data
  <2>1. \A i \in 0..LinkIndex : buf'[i].data = buf[i].data
    BY StoreControlEffect DEF PushLinkControl, Inv
  <2> QED
    BY <1>b, <2>1 DEF Bounds
<1>2. write_index = LinkIndex /\ ccs = cycle_bit
  BY LinkSameLap DEF PushLinkControl, Inv, CycleInv
<1>3. Pending' = Pending
  BY <1>b, <1>2 DEF PushLinkControl, Pending, Bounds
<1>4. deq' = deq /\ completions' = completions
  BY DEF PushLinkControl
<1> QED
  BY <1>1, <1>3, <1>4, SameViews

(* With its cycle bit a TRB joins the queue, which has room for it.        *)
LEMMA PushControlStep == Inv /\ Inv' /\ PushControl => Fifo!Next
<1> SUFFICES ASSUME Inv, Inv', PushControl PROVE Fifo!Put(buf[write_index].data)
  BY DEF Fifo!Next, PushControl, Inv, CycleInv
<1>v. ViewFacts /\ ViewFacts'
  BY Views, PTL
<1>b. Bounds
  BY BoundsHold
<1>1. write_index # LinkIndex /\ write_index' = write_index + 1
  BY DEF PushControl, Inv, CycleInv
<1>2. Pending' = Pending + 1 /\ deq' = deq /\ completions' = completions
  BY <1>b, <1>1 DEF PushControl, Pending, Bounds
<1>3. \A i \in 0..(LinkIndex - 1) : buf'[i].data = buf[i].data
  <2>1. \A i \in 0..LinkIndex : buf'[i].data = buf[i].data
    BY StoreControlEffect DEF PushControl, Inv
  <2> QED
    BY <1>b, <2>1 DEF Bounds
<1>4. Pending + Len(completions) < MaxOutstanding
  BY DEF PushControl, Inv, WindowInv
<1>5. EntryAt(deq + (Pending + 1) - 1) = write_index
  BY <1>b, <1>1, <1>4 DEF Bounds, EntryAt
<1>6. Pending \in Nat /\ Pending + 1 \in 1..(Pending + 1) /\ Len(completions) \in Nat
  BY <1>b DEF Bounds
<1>7. /\ PendingData \in [1..Pending -> Data]
      /\ \A i \in 1..Pending : /\ PendingData[i] = buf[EntryAt(deq + i - 1)].data
                               /\ EntryAt(deq + i - 1) \in 0..(LinkIndex - 1)
      /\ CompletedData \in [1..Len(completions) -> Data]
  BY <1>v DEF ViewFacts
<1>8. /\ PendingData' \in [1..(Pending + 1) -> Data]
      /\ \A i \in 1..(Pending + 1) :
           PendingData'[i] = buf'[EntryAt(deq + i - 1)].data
  BY <1>v, <1>2 DEF ViewFacts, EntryAt
<1>9. \A i \in 1..Pending : PendingData'[i] = PendingData[i]
  <2> TAKE i \in 1..Pending
  <2>1. i \in 1..(Pending + 1)
    BY <1>6
  <2> QED
    BY <1>3, <1>7, <1>8, <2>1
<1>10. PendingData' = Append(PendingData, PendingData'[Pending + 1])
  BY <1>6, <1>7, <1>8, <1>9, FcnAppend
<1>11. PendingData'[Pending + 1] = buf[write_index].data
  <2>1. write_index \in 0..(LinkIndex - 1)
    BY <1>b, <1>1 DEF Bounds
  <2> QED
    BY <1>3, <1>5, <1>6, <1>8, <2>1, SMTT(30)
<1>12. CompletedData' = CompletedData
  <2>1. \A i \in 1..Len(completions) : CompletedData'[i] = CompletedData[i]
    BY <1>v, <1>2, <1>3 DEF ViewFacts
  <2> QED
    BY <1>v, <1>2, <1>6, <2>1 DEF ViewFacts
<1>13. Len(PendingData) = Pending /\ Len(CompletedData) = Len(completions)
  BY <1>6, <1>7, FcnLen
<1> QED
  BY <1>4, <1>10, <1>11, <1>12, <1>13 DEF Fifo!Put

(* The controller executes the TRB that was pushed first.                  *)
LEMMA FetchStep == Inv /\ Inv' /\ Fetch => Fifo!Execute
<1> SUFFICES ASSUME Inv, Inv', Fetch PROVE Fifo!Execute
  OBVIOUS
<1>v. ViewFacts /\ ViewFacts'
  BY Views, PTL
<1>b. Bounds
  BY BoundsHold
<1> DEFINE n == Pending - 1
           m == Len(completions)
<1>1. deq < LinkIndex /\ Pending >= 1
  BY FetchPending
<1>2. /\ completions' = Append(completions, deq) /\ deq' = deq + 1 /\ buf' = buf
      /\ completions \in Seq(0..LinkIndex) /\ deq \in 0..LinkIndex
  BY DEF Fetch, Inv, TypeOK
<1>3. /\ Len(completions') = m + 1
      /\ \A i \in 1..m : completions'[i] = completions[i]
      /\ completions'[m + 1] = deq
  BY <1>2, AppendProperties
<1>4. Pending' = n
  BY <1>b, <1>2 DEF Fetch, Pending, Bounds
<1>5. n \in Nat /\ m \in Nat /\ Pending = n + 1
  BY <1>b, <1>1 DEF Bounds
<1>6. /\ PendingData \in [1..(n + 1) -> Data]
      /\ \A i \in 1..(n + 1) : PendingData[i] = buf[EntryAt(deq + i - 1)].data
      /\ CompletedData \in [1..m -> Data]
      /\ \A i \in 1..m : CompletedData[i] = buf[completions[i]].data
  BY <1>v, <1>5 DEF ViewFacts
<1>7. /\ PendingData' \in [1..n -> Data]
      /\ \A i \in 1..n : PendingData'[i] = buf[EntryAt(deq + 1 + i - 1)].data
      /\ CompletedData' \in [1..(m + 1) -> Data]
      /\ \A i \in 1..(m + 1) : CompletedData'[i] = buf[completions'[i]].data
  BY <1>v, <1>2, <1>3, <1>4 DEF ViewFacts, EntryAt
<1> HIDE DEF n, m
<1>8. \A i \in 1..n : PendingData'[i] = PendingData[i + 1]
  <2> TAKE i \in 1..n
  <2>1. i + 1 \in 1..(n + 1) /\ deq + 1 + i - 1 = deq + (i + 1) - 1
    BY <1>2, <1>5
  <2> QED
    BY <1>6, <1>7, <2>1
<1>9. /\ PendingData # <<>> /\ Head(PendingData) = PendingData[1]
      /\ Tail(PendingData) = PendingData'
  BY <1>5, <1>6, <1>7, <1>8, FcnTail
<1>10. \A i \in 1..m : CompletedData'[i] = CompletedData[i]
  <2> TAKE i \in 1..m
  <2>1. i \in 1..(m + 1)
    BY <1>5
  <2> QED
    BY <1>3, <1>6, <1>7, <2>1
<1>11. CompletedData' = Append(CompletedData, CompletedData'[m + 1])
  BY <1>5, <1>6, <1>7, <1>10, FcnAppend
<1>12. CompletedData'[m + 1] = PendingData[1]
  <2>1. EntryAt(deq + 1 - 1) = deq
    BY <1>1, <1>2 DEF EntryAt
  <2>2. PendingData[1] = buf[deq].data
    BY <1>5, <1>6, <2>1
  <2>3. CompletedData'[m + 1] = buf[deq].data
    BY <1>3, <1>5, <1>7
  <2> QED
    BY <2>2, <2>3
<1> QED
  BY <1>9, <1>11, <1>12 DEF Fifo!Execute

(* Following the link leaves the queue as it is.                           *)
LEMMA FollowLinkStep ==
    Inv /\ Inv' /\ FollowLink => UNCHANGED <<PendingData, CompletedData>>
<1> SUFFICES ASSUME Inv, Inv', FollowLink
             PROVE  UNCHANGED <<PendingData, CompletedData>>
  OBVIOUS
<1>v. ViewFacts /\ ViewFacts'
  BY Views, PTL
<1>b. Bounds
  BY BoundsHold
<1>1. deq = LinkIndex /\ Pending' = Pending
  BY FollowLinkInv
<1>2. deq' = 0 /\ buf' = buf /\ completions' = completions
  BY DEF FollowLink
<1>3. Pending \in Int /\ Len(completions) \in Int
  BY <1>b DEF Bounds
<1>4. \A i \in 1..Pending : EntryAt(deq' + i - 1) = EntryAt(deq + i - 1)
  BY <1>b, <1>1, <1>2 DEF Bounds, EntryAt
<1>5. \A i \in 1..Pending : PendingData[i] = buf[EntryAt(deq + i - 1)].data
  BY <1>v DEF ViewFacts
<1>6. \A i \in 1..Pending : PendingData'[i] = buf[EntryAt(deq' + i - 1)].data
  BY <1>v, <1>1, <1>2 DEF ViewFacts, EntryAt
<1>7. PendingData' = PendingData
  <2>1. \A i \in 1..Pending : PendingData'[i] = PendingData[i]
    BY <1>4, <1>5, <1>6
  <2>2. PendingData \in [1..Pending -> Data] /\ PendingData' \in [1..Pending -> Data]
    BY <1>v, <1>1 DEF ViewFacts
  <2> QED
    BY <1>3, <2>1, <2>2
<1>8. CompletedData' = CompletedData
  <2>1. \A i \in 1..Len(completions) : CompletedData'[i] = CompletedData[i]
    BY <1>v, <1>2 DEF ViewFacts
  <2> QED
    BY <1>v, <1>2, <1>3, <2>1 DEF ViewFacts
<1> QED
  BY <1>7, <1>8

(* The driver handles the TRB that was executed first.                     *)
LEMMA HandleCompletionStep == Inv /\ Inv' /\ HandleCompletion => Fifo!Handle
<1> SUFFICES ASSUME Inv, Inv', HandleCompletion PROVE Fifo!Handle
  OBVIOUS
<1>v. ViewFacts /\ ViewFacts'
  BY Views, PTL
<1>b. Bounds
  BY BoundsHold
<1> DEFINE n == Len(completions')
<1>1. /\ completions \in Seq(0..LinkIndex) /\ completions # <<>>
      /\ completions' = Tail(completions) /\ buf' = buf /\ deq' = deq
  BY DEF HandleCompletion, Inv, TypeOK
<1>2. /\ Len(completions) = n + 1 /\ n \in Nat
      /\ \A i \in 1..n : completions'[i] = completions[i + 1]
  <2>1. /\ completions' \in Seq(0..LinkIndex)
        /\ Len(completions') = Len(completions) - 1
        /\ \A i \in 1..Len(completions') : completions'[i] = completions[i + 1]
    BY <1>1, HeadTailProperties
  <2>2. n \in Nat
    BY <2>1, LenProperties
  <2> QED
    BY <1>b, <2>1, <2>2 DEF Bounds
<1>3. /\ CompletedData \in [1..(n + 1) -> Data]
      /\ \A i \in 1..(n + 1) : CompletedData[i] = buf[completions[i]].data
  BY <1>v, <1>2 DEF ViewFacts
<1>4. /\ CompletedData' \in [1..n -> Data]
      /\ \A i \in 1..n : CompletedData'[i] = buf[completions'[i]].data
  BY <1>v, <1>1 DEF ViewFacts
<1> HIDE DEF n
<1>5. \A i \in 1..n : CompletedData'[i] = CompletedData[i + 1]
  BY <1>2, <1>3, <1>4
<1>6. CompletedData # <<>> /\ Tail(CompletedData) = CompletedData'
  BY <1>2, <1>3, <1>4, <1>5, FcnTail
<1>7. PendingData' = PendingData
  BY DEF HandleCompletion, PendingData, Pending, EntryAt
<1> QED
  BY <1>6, <1>7 DEF Fifo!Handle

(* For every buffer size the ring is a queue: the controller executes each *)
(* TRB that was pushed once, complete and in order, and a completion event *)
(* points at the TRB it is about until the driver has handled it.          *)
THEOREM TrbRingIsFifo == Spec => ImplementsFifo
<1>1. Inv /\ Inv' /\ [Next]_vars => [Fifo!Next]_(Fifo!vars)
  <2> SUFFICES ASSUME Inv, Inv', [Next]_vars
               PROVE  Fifo!Next \/ UNCHANGED <<PendingData, CompletedData>>
    BY DEF Fifo!vars
  <2>1. ASSUME NEW x \in Payload, PushData(x)
        PROVE  UNCHANGED <<PendingData, CompletedData>>
    BY <2>1, PushDataStep
  <2>2. CASE PushControl
    BY <2>2, PushControlStep
  <2>3. CASE PushLinkData
    BY <2>3, PushLinkDataStep
  <2>4. CASE PushLinkControl
    BY <2>4, PushLinkControlStep
  <2>5. CASE Fetch
    BY <2>5, FetchStep DEF Fifo!Next
  <2>6. CASE FollowLink
    BY <2>6, FollowLinkStep
  <2>7. CASE HandleCompletion
    BY <2>7, HandleCompletionStep DEF Fifo!Next
  <2>8. CASE UNCHANGED vars
    BY <2>8 DEF vars, PendingData, CompletedData, Pending, EntryAt
  <2> QED
    BY <2>1, <2>2, <2>3, <2>4, <2>5, <2>6, <2>7, <2>8 DEF Next, PushStep, PollIdle
<1> QED
  BY <1>1, InitFifo, RingInvariants, PTL DEF Spec, ImplementsFifo, Fifo!Spec, Inv, RingInv
=============================================================================
