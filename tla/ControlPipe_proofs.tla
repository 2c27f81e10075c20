------------------------- MODULE ControlPipe_proofs -------------------------
(***************************************************************************)
(* The default control pipe for every size of the ring and of both maps    *)
(* that leaves room for a request: a completion always finds its setup     *)
(* stage and its class driver, and an event is always handled as the       *)
(* completion of the request whose TRB it names.                           *)
(***************************************************************************)
EXTENDS ControlPipe, FiniteSetTheorems, SequenceTheorems, WellFoundedInduction, TLAPS

-----------------------------------------------------------------------------
(* Numbers and sequences.                                                  *)

(* A set of natural numbers has a least element.                           *)
LEMMA LeastNat ==
    ASSUME NEW T, T \subseteq Nat, T # {}
    PROVE  \E x \in T : \A y \in T : x <= y
<1>1. PICK x \in T : \A y \in T : ~(<<y, x>> \in OpToRel(<, Nat))
  BY WFMin, NatLessThanWellFounded
<1>2. \A y \in T : ~(y < x)
  BY <1>1 DEF OpToRel
<1> QED
  BY <1>2

(* A function on 1..n is a sequence of length n.                           *)
LEMMA FcnLen ==
    ASSUME NEW S, NEW n \in Nat, NEW F \in [1..n -> S]
    PROVE  F \in Seq(S) /\ Len(F) = n
<1>1. F \in Seq(S)
  BY IsASeq
<1>2. Len(F) \in Nat /\ DOMAIN F = 1..Len(F)
  BY <1>1, LenProperties
<1>3. DOMAIN F = 1..n
  OBVIOUS
<1>4. 1..n = 1..Len(F)
  BY <1>2, <1>3
<1> QED
  BY <1>1, <1>2, <1>4

-----------------------------------------------------------------------------
(* The places TRBs are pushed to in turn, without the link TRB.            *)
M == BufSize - 1

(* How many TRBs ago place p was written, and the place before it.         *)
Behind(p) == IF p < write_index THEN write_index - p ELSE write_index + M - p
Before(p) == IF p = 0 THEN M - 1 ELSE p - 1

(* How far back the ring must be kept for the TRB at p: to its setup stage *)
(* at least.                                                               *)
Kept(p) == Behind(p) + (IF ring[p].type = "Setup" THEN 0 ELSE 1)

(* What the controller has not executed is what was pushed last, in order. *)
QueueInv ==
    \A i \in 1..Len(queued) :
      Behind(queued[i]) = Len(queued) + 1 - i /\ Kept(queued[i]) <= M - 1

(* Events not handled are about TRBs before these, again in order; only    *)
(* one that failed is about the first of them.                             *)
EventInv ==
    /\ \A i \in 1..Len(events) :
         /\ Kept(events[i].at) <= M - 1
         /\ events[i].failed => /\ halted
                                /\ i = Len(events)
                                /\ queued # <<>>
                                /\ events[i].at = queued[1]
         /\ ~events[i].failed => /\ Behind(events[i].at) > Len(queued)
                                 /\ ring[events[i].at].ioc
    /\ \A i, j \in 1..Len(events) :
         i < j => Behind(events[i].at) > Behind(events[j].at)

(* In front of a TRB whose event is due stands the setup stage of its      *)
(* request.                                                                *)
StageInv ==
    \A p \in Due :
      /\ ring[p].ioc
      /\ ring[p].type # "Setup" /\ ring[p].of \in SetupData
      /\ ring[Before(p)].type = "Setup" /\ ring[Before(p)].of = ring[p].of

(* setup_stage_map_ has one entry for each of these TRBs and no other.     *)
MapInv ==
    /\ \A i \in 1..MapSize :
         LET e == setup_stage_map[i] IN
         e.key # None => e.key \in Due /\ e.value = Before(e.key)
    /\ \A i, j \in 1..MapSize :
         setup_stage_map[i].key = setup_stage_map[j].key =>
           i = j \/ setup_stage_map[i].key = None
    /\ \A p \in Due : \E i \in 1..MapSize : setup_stage_map[i].key = p

(* event_waiters_ only ever holds the one request a class driver makes,    *)
(* and does so once the request has been made.                             *)
WaiterInv ==
    /\ \A i \in 1..WaiterSize :
         \/ event_waiters[i].key = None
         \/ event_waiters[i] = [key |-> "SetProtocol", value |-> "HIDBaseDriver"]
    /\ \A p \in Places :
         ring[p].of = "SetProtocol" =>
           \E i \in 1..WaiterSize : event_waiters[i].key = "SetProtocol"
    /\ delivered.err = "SUCCESS" /\ delivered.request # None =>
         delivered.waiter = Issuer(delivered.request)

Inv == TypeOK /\ QueueInv /\ EventInv /\ StageInv /\ MapInv /\ WaiterInv

-----------------------------------------------------------------------------
(* Places as numbers.                                                      *)
LEMMA Sizes == M \in Nat /\ M >= 4 /\ BufSize - 1 = M /\ BufSize - 2 = M - 1 /\ Places = 0..(M - 1)
  BY BufSizeAssumption DEF M, Places

(* Counting round a ring of m places.                                      *)
LEMMA Round ==
    ASSUME NEW m \in Nat \ {0}, NEW x \in Int
    PROVE  /\ 0 <= x /\ x < m => x % m = x
           /\ m <= x /\ x < 2 * m => x % m = x - m
           /\ 0 - m <= x /\ x < 0 => x % m = x + m
<1> DEFINE q == x \div m
           r == x % m
<1>1. q \in Int /\ r \in 0..(m - 1) /\ x = m * q + r
  OBVIOUS
<1> HIDE DEF q, r
<1>2. q >= 1 => m * q >= m
  BY <1>1
<1>3. q >= 2 => m * q >= 2 * m
  BY <1>1
<1>4. q <= 0 - 1 => m * q <= 0 - m
  BY <1>1
<1>5. q <= 0 - 2 => m * q <= 0 - 2 * m
  BY <1>1
<1>6. (q = 0 => m * q = 0) /\ (q = 1 => m * q = m) /\ (q = 0 - 1 => m * q = 0 - m)
  BY <1>1
<1>7. 0 <= x /\ x < m => r = x
  BY <1>1, <1>2, <1>4, <1>6
<1>8. m <= x /\ x < 2 * m => r = x - m
  BY <1>1, <1>2, <1>3, <1>4, <1>6
<1>9. 0 - m <= x /\ x < 0 => r = x + m
  BY <1>1, <1>2, <1>4, <1>5, <1>6
<1> QED
  BY <1>7, <1>8, <1>9 DEF r

(* The place k pushes on, and the push that reaches place p.               *)
LEMMA PlaceRound ==
    ASSUME write_index \in Places, NEW p \in Places, NEW k \in 0..(M - 1)
    PROVE  /\ PlaceAt(k) = IF write_index + k < M THEN write_index + k ELSE write_index + k - M
           /\ (p - write_index) % (BufSize - 1) = M - Behind(p)
           /\ (write_index - p) % (BufSize - 1) = IF p = write_index THEN 0 ELSE Behind(p)
<1>1. PlaceAt(k) = IF write_index + k < M THEN write_index + k ELSE write_index + k - M
  <2> DEFINE x == write_index + k
  <2>1. M \in Nat \ {0} /\ x \in Int /\ 0 - M <= x /\ x < 2 * M
    BY Sizes
  <2> HIDE DEF x
  <2>2. /\ 0 <= x /\ x < M => x % M = x
        /\ M <= x /\ x < 2 * M => x % M = x - M
        /\ 0 - M <= x /\ x < 0 => x % M = x + M
    BY <2>1, Round
  <2>3. x % M = IF x < 0 THEN x + M ELSE IF x < M THEN x ELSE x - M
    BY <2>1, <2>2
  <2> QED
    BY Sizes, <2>3 DEF x, PlaceAt
<1>2. (p - write_index) % (BufSize - 1) = M - Behind(p)
  <2> DEFINE x == p - write_index
  <2>1. M \in Nat \ {0} /\ x \in Int /\ 0 - M <= x /\ x < 2 * M
    BY Sizes
  <2> HIDE DEF x
  <2>2. /\ 0 <= x /\ x < M => x % M = x
        /\ M <= x /\ x < 2 * M => x % M = x - M
        /\ 0 - M <= x /\ x < 0 => x % M = x + M
    BY <2>1, Round
  <2>3. x % M = IF x < 0 THEN x + M ELSE IF x < M THEN x ELSE x - M
    BY <2>1, <2>2
  <2> QED
    BY Sizes, <2>3 DEF x, Behind
<1>3. (write_index - p) % (BufSize - 1) = IF p = write_index THEN 0 ELSE Behind(p)
  <2> DEFINE x == write_index - p
  <2>1. M \in Nat \ {0} /\ x \in Int /\ 0 - M <= x /\ x < 2 * M
    BY Sizes
  <2> HIDE DEF x
  <2>2. /\ 0 <= x /\ x < M => x % M = x
        /\ M <= x /\ x < 2 * M => x % M = x - M
        /\ 0 - M <= x /\ x < 0 => x % M = x + M
    BY <2>1, Round
  <2>3. x % M = IF x < 0 THEN x + M ELSE IF x < M THEN x ELSE x - M
    BY <2>1, <2>2
  <2> QED
    BY Sizes, <2>3 DEF x, Behind
<1> QED
  BY <1>1, <1>2, <1>3

(* A place is told by how far behind it is, and the place before it is one *)
(* further behind.                                                         *)
LEMMA BehindPlaces ==
    ASSUME write_index \in Places, NEW p \in Places, NEW q \in Places
    PROVE  /\ Behind(p) \in 1..M
           /\ Behind(p) = Behind(q) => p = q
           /\ Before(p) \in Places
           /\ Behind(p) < M => Behind(Before(p)) = Behind(p) + 1
           /\ Before(p) = Before(q) => p = q
  BY Sizes DEF Behind, Before

-----------------------------------------------------------------------------
(* TRBs whose event is posted, and those whose event is still to come.     *)
Posted(p) == \E i \in 1..Len(events) : ~events[i].failed /\ events[i].at = p
Coming(p) == \E i \in 1..Len(queued) : queued[i] = p /\ ring[p].ioc

(* These are the ones whose event is due, now and after a step.            *)
LEMMA DueMeans == \A p : p \in Due <=> Posted(p) \/ Coming(p)
  BY DEF Due, Posted, Coming

LEMMA DueMeansNext == (\A p : p \in Due <=> Posted(p) \/ Coming(p))'
  BY DueMeans, PTL

(* Types of what is in the two queues.                                     *)
LEMMA QueueTypes ==
    ASSUME TypeOK
    PROVE  /\ Len(events) \in Nat /\ Len(queued) \in Nat
           /\ \A i \in 1..Len(events) : /\ events[i] \in [at : Places, failed : BOOLEAN]
                                        /\ events[i].at \in Places
                                        /\ events[i].failed \in BOOLEAN
           /\ \A i \in 1..Len(queued) : queued[i] \in Places
           /\ Due \subseteq Places
<1>1. /\ events \in Seq([at : Places, failed : BOOLEAN]) /\ queued \in Seq(Places)
  BY DEF TypeOK
<1>2. Len(events) \in Nat /\ Len(queued) \in Nat
  BY <1>1, LenProperties
<1>3. \A i \in 1..Len(events) : events[i] \in [at : Places, failed : BOOLEAN]
  BY <1>1, ElementOfSeq
<1>4. \A i \in 1..Len(queued) : queued[i] \in Places
  BY <1>1, ElementOfSeq
<1>5. Due \subseteq Places
  BY <1>3, <1>4 DEF Due
<1> QED
  BY <1>2, <1>3, <1>4, <1>5

(* As long as neither the ring nor what is due changes, the maps lead      *)
(* where they did.                                                         *)
LEMMA MapsKept ==
    ASSUME StageInv, MapInv, Due' = Due, UNCHANGED <<ring, setup_stage_map>>
    PROVE  StageInv' /\ MapInv'
<1>1. StageInv'
  BY DEF StageInv
<1>2. MapInv'
  BY DEF MapInv
<1> QED
  BY <1>1, <1>2

(* Nothing is under way at the start.                                      *)
LEMMA InitInv == Init => Inv
<1> SUFFICES ASSUME Init PROVE Inv
  OBVIOUS
<1> USE DEF Init
<1>1. Len(events) = 0 /\ Len(queued) = 0
  OBVIOUS
<1>2. Due = {}
  BY <1>1 DEF Due
<1>3. TypeOK
  <2>1. MakeTrb("Cleared", None, FALSE) \in Trb
    BY DEF MakeTrb, Trb
  <2>2. write_index \in Places
    BY Sizes
  <2>3. delivered \in Outcome
    BY DEF Outcome
  <2>4. /\ events \in Seq([at : Places, failed : BOOLEAN]) /\ queued \in Seq(Places)
    OBVIOUS
  <2> QED
    BY <2>1, <2>2, <2>3, <2>4 DEF TypeOK, EmptyMap
<1>4. QueueInv /\ EventInv
  BY <1>1 DEF QueueInv, EventInv
<1>5. StageInv
  BY <1>2 DEF StageInv
<1>6. MapInv
  BY <1>2 DEF MapInv, EmptyMap
<1>7. WaiterInv
  <2>1. \A p \in Places : ring[p].of = None
    BY DEF MakeTrb
  <2>2. None # "SetProtocol"
    BY NoneAssumption DEF SetupData
  <2>3. delivered.request = None
    OBVIOUS
  <2> QED
    BY <2>1, <2>2, <2>3 DEF WaiterInv, EmptyMap
<1> QED
  BY <1>3, <1>4, <1>5, <1>6, <1>7 DEF Inv

(* The controller executes a TRB: what was due is still due, from the      *)
(* event ring if no longer from the transfer ring.                         *)
LEMMA ExecuteInv == Inv /\ HcExecute => Inv'
<1> SUFFICES ASSUME Inv, HcExecute PROVE Inv'
  OBVIOUS
<1> DEFINE n == Len(queued)
           k == Len(events)
           h == queued[1]
<1>1. /\ n \in Nat /\ k \in Nat /\ n >= 1 /\ h \in Places
      /\ queued' \in Seq(Places) /\ Len(queued') = n - 1
      /\ \A i \in 1..(n - 1) : queued'[i] = queued[i + 1]
      /\ Head(queued) = h
  <2>1. queued \in Seq(Places) /\ events \in Seq([at : Places, failed : BOOLEAN])
    BY DEF Inv, TypeOK
  <2>2. queued # <<>> /\ queued' = Tail(queued)
    BY DEF HcExecute
  <2> QED
    BY <2>1, <2>2, LenProperties, HeadTailProperties, EmptySeq, QueueTypes DEF Inv
<1>2. UNCHANGED <<ring, write_index, setup_stage_map, event_waiters, halted, delivered>> /\ ~halted
  BY DEF HcExecute
<1>3. IF ring[h].ioc
      THEN /\ events' \in Seq([at : Places, failed : BOOLEAN])
           /\ Len(events') = k + 1
           /\ \A i \in 1..k : events'[i] = events[i]
           /\ events'[k + 1] = [at |-> h, failed |-> FALSE]
      ELSE events' = events
  <2> DEFINE e == [at |-> h, failed |-> FALSE]
  <2>1. events \in Seq([at : Places, failed : BOOLEAN]) /\ e \in [at : Places, failed : BOOLEAN]
    BY <1>1 DEF Inv, TypeOK
  <2>2. events' = IF ring[h].ioc THEN Append(events, e) ELSE events
    BY <1>1 DEF HcExecute
  <2> HIDE DEF e
  <2>3. /\ Append(events, e) \in Seq([at : Places, failed : BOOLEAN])
        /\ Len(Append(events, e)) = k + 1
        /\ \A i \in 1..k : Append(events, e)[i] = events[i]
        /\ Append(events, e)[k + 1] = e
    BY <2>1, AppendProperties
  <2> QED
    BY <2>2, <2>3 DEF e
<1>4. \A p : Behind(p)' = Behind(p) /\ Kept(p)' = Kept(p)
  BY <1>2 DEF Behind, Kept
<1>5. TypeOK'
  BY <1>1, <1>2, <1>3 DEF Inv, TypeOK
<1> HIDE DEF n, k, h
<1>6. Behind(h) = n /\ Kept(h) <= M - 1
  BY <1>1 DEF Inv, QueueInv, h, n
<1>7. QueueInv'
  <2> SUFFICES ASSUME NEW i \in 1..(n - 1)
               PROVE  Behind(queued[i])' = (n - 1) + 1 - i /\ Kept(queued[i])' <= M - 1
    BY <1>1 DEF QueueInv
  <2>1. queued'[i] = queued[i + 1] /\ i + 1 \in 1..n
    BY <1>1
  <2>2. Behind(queued[i + 1]) = n + 1 - (i + 1) /\ Kept(queued[i + 1]) <= M - 1
    BY <2>1 DEF Inv, QueueInv, n
  <2> QED
    BY <1>1, <1>4, <2>1, <2>2
<1>8. \A i \in 1..k : /\ Kept(events[i].at) <= M - 1
                      /\ ~events[i].failed /\ Behind(events[i].at) > n /\ ring[events[i].at].ioc
  BY <1>2 DEF Inv, EventInv, n, k
<1>0. \A i \in 1..k : Behind(events[i].at) \in Nat
  <2> TAKE i \in 1..k
  <2>1. events[i].at \in Places
    BY QueueTypes DEF Inv, k
  <2>2. Behind(events[i].at) \in 1..M
    BY <2>1, BehindPlaces DEF Inv, TypeOK
  <2> QED
    BY <2>2, Sizes
<1>9. EventInv'
  <2>1. CASE ring[h].ioc
    <3>1. ASSUME NEW i \in 1..(k + 1)
          PROVE  /\ Kept(events'[i].at) <= M - 1
                 /\ ~events'[i].failed /\ Behind(events'[i].at) > n - 1 /\ ring[events'[i].at].ioc
      <4>1. CASE i \in 1..k
        <5>1. events'[i] = events[i]
          BY <1>3, <2>1, <4>1
        <5> QED
          BY <1>0, <1>1, <1>8, <4>1, <5>1
      <4>2. CASE i = k + 1
        BY <1>1, <1>3, <1>6, <2>1, <4>2
      <4> QED
        BY <1>1, <4>1, <4>2
    <3>2. ASSUME NEW i \in 1..(k + 1), NEW j \in 1..(k + 1), i < j
          PROVE  Behind(events'[i].at) > Behind(events'[j].at)
      <4>1. CASE j \in 1..k
        <5>1. i \in 1..k /\ Behind(events[i].at) > Behind(events[j].at)
          BY <1>1, <3>2, <4>1, SMTT(30) DEF Inv, EventInv, k
        <5> QED
          BY <1>3, <2>1, <4>1, <5>1
      <4>2. CASE j = k + 1
        BY <1>1, <1>3, <1>6, <1>8, <2>1, <3>2, <4>2
      <4> QED
        BY <1>1, <4>1, <4>2
    <3> QED
      BY <1>1, <1>2, <1>3, <1>4, <2>1, <3>1, <3>2 DEF EventInv
  <2>2. CASE ~ring[h].ioc
    <3>1. \A i \in 1..k : Behind(events[i].at) > n - 1
      BY <1>0, <1>1, <1>8
    <3>2. events' = events /\ \A i, j \in 1..k : i < j => Behind(events[i].at) > Behind(events[j].at)
      BY <1>3, <2>2 DEF Inv, EventInv, k
    <3> QED
      BY <1>1, <1>2, <1>4, <1>8, <3>1, <3>2 DEF EventInv, k
  <2> QED
    BY <2>1, <2>2
<1>10. Due' = Due
  <2> SUFFICES ASSUME NEW p PROVE p \in Due' <=> p \in Due
    OBVIOUS
  <2>1. Coming(p) <=> (p = h /\ ring[h].ioc) \/ Coming(p)'
    <3>1. ASSUME Coming(p) PROVE (p = h /\ ring[h].ioc) \/ Coming(p)'
      <4>1. PICK i \in 1..n : queued[i] = p /\ ring[p].ioc
        BY <3>1 DEF Coming, n
      <4>2. CASE i = 1
        BY <4>1, <4>2 DEF h
      <4>3. CASE i # 1
        <5>1. i - 1 \in 1..(n - 1) /\ queued'[i - 1] = p
          BY <1>1, <4>1, <4>3
        <5> QED
          BY <1>1, <1>2, <4>1, <5>1 DEF Coming
      <4> QED
        BY <4>2, <4>3
    <3>2. ASSUME Coming(p)' PROVE Coming(p)
      <4>1. PICK i \in 1..(n - 1) : queued'[i] = p /\ ring[p].ioc
        BY <1>1, <1>2, <3>2 DEF Coming
      <4>2. i + 1 \in 1..n /\ queued[i + 1] = p
        BY <1>1, <4>1
      <4> QED
        BY <4>1, <4>2 DEF Coming, n
    <3>3. ASSUME p = h, ring[h].ioc PROVE Coming(p)
      <4>1. 1 \in 1..n /\ queued[1] = p
        BY <1>1, <3>3 DEF h
      <4> QED
        BY <3>3, <4>1 DEF Coming, n
    <3> QED
      BY <3>1, <3>2, <3>3
  <2>2. Posted(p)' <=> Posted(p) \/ (p = h /\ ring[h].ioc)
    <3>1. CASE ring[h].ioc
      <4>1. ASSUME Posted(p)' PROVE Posted(p) \/ p = h
        <5>1. PICK i \in 1..(k + 1) : ~events'[i].failed /\ events'[i].at = p
          BY <1>3, <3>1, <4>1 DEF Posted
        <5>2. CASE i \in 1..k
          BY <1>3, <3>1, <5>1, <5>2 DEF Posted, k
        <5>3. CASE i = k + 1
          BY <1>3, <3>1, <5>1, <5>3
        <5> QED
          BY <1>1, <5>2, <5>3
      <4>2. ASSUME Posted(p) PROVE Posted(p)'
        <5>1. PICK i \in 1..k : ~events[i].failed /\ events[i].at = p
          BY <4>2 DEF Posted, k
        <5>2. i \in 1..(k + 1) /\ events'[i] = events[i]
          BY <1>1, <1>3, <3>1
        <5> QED
          BY <1>3, <3>1, <5>1, <5>2 DEF Posted
      <4>3. ASSUME p = h PROVE Posted(p)'
        <5>1. k + 1 \in 1..(k + 1) /\ ~events'[k + 1].failed /\ events'[k + 1].at = p
          BY <1>1, <1>3, <3>1, <4>3
        <5> QED
          BY <1>3, <3>1, <5>1 DEF Posted
      <4> QED
        BY <3>1, <4>1, <4>2, <4>3
    <3>2. CASE ~ring[h].ioc
      BY <1>3, <3>2 DEF Posted
    <3> QED
      BY <3>1, <3>2
  <2> QED
    BY <2>1, <2>2, DueMeans, DueMeansNext
<1>11. StageInv' /\ MapInv'
  BY <1>2, <1>10, MapsKept DEF Inv
<1>12. WaiterInv'
  BY <1>2 DEF Inv, WaiterInv
<1> QED
  BY <1>5, <1>7, <1>9, <1>11, <1>12 DEF Inv

(* A TRB fails: it stays where it is, and so does everything that is due.  *)
LEMMA FailInv == Inv /\ HcFail => Inv'
<1> SUFFICES ASSUME Inv, HcFail PROVE Inv'
  OBVIOUS
<1> DEFINE k == Len(events)
           h == queued[1]
           e == [at |-> h, failed |-> TRUE]
<1>1. /\ queued # <<>> /\ Len(queued) \in Nat /\ Len(queued) >= 1 /\ h \in Places
      /\ Head(queued) = h /\ k \in Nat
  <2>1. queued \in Seq(Places) /\ queued # <<>>
    BY DEF Inv, TypeOK, HcFail
  <2> QED
    BY <2>1, LenProperties, HeadTailProperties, EmptySeq, QueueTypes DEF Inv
<1>2. /\ UNCHANGED <<ring, write_index, setup_stage_map, event_waiters, queued, delivered>>
      /\ ~halted /\ halted' = TRUE
  BY DEF HcFail
<1>3. /\ events' \in Seq([at : Places, failed : BOOLEAN])
      /\ Len(events') = k + 1
      /\ \A i \in 1..k : events'[i] = events[i]
      /\ events'[k + 1] = e
  <2>1. events \in Seq([at : Places, failed : BOOLEAN]) /\ e \in [at : Places, failed : BOOLEAN]
    BY <1>1 DEF Inv, TypeOK
  <2>2. events' = Append(events, e)
    BY <1>1 DEF HcFail
  <2> HIDE DEF e
  <2> QED
    BY <2>1, <2>2, AppendProperties
<1>4. \A p : Behind(p)' = Behind(p) /\ Kept(p)' = Kept(p)
  BY <1>2 DEF Behind, Kept
<1>5. TypeOK'
  BY <1>2, <1>3 DEF Inv, TypeOK
<1> HIDE DEF k, h
<1>6. Behind(h) = Len(queued) /\ Kept(h) <= M - 1
  BY <1>1 DEF Inv, QueueInv, h
<1>7. QueueInv'
  BY <1>2, <1>4 DEF Inv, QueueInv
<1>8. \A i \in 1..k : /\ Kept(events[i].at) <= M - 1
                      /\ ~events[i].failed
                      /\ Behind(events[i].at) > Len(queued)
                      /\ ring[events[i].at].ioc
  BY <1>2 DEF Inv, EventInv, k
<1>9. EventInv'
  <2>1. ASSUME NEW i \in 1..(k + 1)
        PROVE  /\ Kept(events'[i].at) <= M - 1
               /\ events'[i].failed => i = k + 1 /\ events'[i].at = h
               /\ ~events'[i].failed => /\ Behind(events'[i].at) > Len(queued)
                                        /\ ring[events'[i].at].ioc
    <3>1. CASE i \in 1..k
      <4>1. events'[i] = events[i]
        BY <1>3, <3>1
      <4> QED
        BY <1>8, <3>1, <4>1
    <3>2. CASE i = k + 1
      BY <1>3, <1>6, <3>2
    <3> QED
      BY <1>1, <3>1, <3>2
  <2>2. ASSUME NEW i \in 1..(k + 1), NEW j \in 1..(k + 1), i < j
        PROVE  Behind(events'[i].at) > Behind(events'[j].at)
    <3>1. CASE j \in 1..k
      <4>1. i \in 1..k /\ Behind(events[i].at) > Behind(events[j].at)
        BY <1>1, <2>2, <3>1 DEF Inv, EventInv, k
      <4> QED
        BY <1>3, <3>1, <4>1
    <3>2. CASE j = k + 1
      <4>1. i \in 1..k /\ events'[i] = events[i] /\ events'[j].at = h
        BY <1>1, <1>3, <2>2, <3>2
      <4> QED
        BY <1>6, <1>8, <4>1
    <3> QED
      BY <1>1, <3>1, <3>2
  <2> QED
    BY <1>1, <1>2, <1>3, <1>4, <2>1, <2>2 DEF EventInv, h
<1>10. Due' = Due
  <2> SUFFICES ASSUME NEW p PROVE p \in Due' <=> p \in Due
    OBVIOUS
  <2>1. Coming(p)' <=> Coming(p)
    BY <1>2 DEF Coming
  <2>2. ASSUME Posted(p)' PROVE Posted(p)
    <3>1. PICK i \in 1..(k + 1) : ~events'[i].failed /\ events'[i].at = p
      BY <1>3, <2>2 DEF Posted
    <3>2. i \in 1..k
      BY <1>1, <1>3, <3>1
    <3> QED
      BY <1>3, <3>1, <3>2 DEF Posted, k
  <2>3. ASSUME Posted(p) PROVE Posted(p)'
    <3>1. PICK i \in 1..k : ~events[i].failed /\ events[i].at = p
      BY <2>3 DEF Posted, k
    <3>2. i \in 1..(k + 1) /\ events'[i] = events[i]
      BY <1>1, <1>3
    <3> QED
      BY <1>3, <3>1, <3>2 DEF Posted
  <2> QED
    BY <2>1, <2>2, <2>3, DueMeans, DueMeansNext
<1>11. StageInv' /\ MapInv'
  BY <1>2, <1>10, MapsKept DEF Inv
<1>12. WaiterInv'
  BY <1>2 DEF Inv, WaiterInv
<1> QED
  BY <1>5, <1>7, <1>9, <1>11, <1>12 DEF Inv

-----------------------------------------------------------------------------
(* The least of some numbers is one of them.                               *)
LEMMA MinIn ==
    ASSUME NEW S, S \subseteq Nat, S # {}
    PROVE  Min(S) \in S
  BY LeastNat DEF Min

(* The entry for a TRB whose event is due: Get finds it, Delete clears it. *)
LEMMA DueEntry ==
    ASSUME Inv, NEW p \in Due
    PROVE  /\ p \in Places /\ p # None /\ Get(setup_stage_map, p) = Before(p)
           /\ \E i \in 1..MapSize :
                /\ setup_stage_map[i].key = p
                /\ Delete(setup_stage_map, p) = [setup_stage_map EXCEPT ![i].key = None]
<1>1. p \in Places /\ p # None
  BY QueueTypes, Sizes, NoneAssumption DEF Inv
<1>2. PICK i \in 1..MapSize : setup_stage_map[i].key = p
  BY DEF Inv, MapInv
<1>3. DOMAIN setup_stage_map = 1..MapSize
  BY DEF Inv, TypeOK
<1>4. Holding(setup_stage_map, p) = {i}
  BY <1>1, <1>2, <1>3 DEF Inv, MapInv, Holding
<1>5. Min({i}) = i
  <2>1. {i} \subseteq Nat
    BY MapSizeAssumption
  <2> QED
    BY <2>1, MinIn
<1>6. setup_stage_map[i].value = Before(p)
  BY <1>1, <1>2 DEF Inv, MapInv
<1>7. Get(setup_stage_map, p) = Before(p)
  BY <1>4, <1>5, <1>6 DEF Get
<1>8. Delete(setup_stage_map, p) = [setup_stage_map EXCEPT ![i].key = None]
  BY <1>4, <1>5 DEF Delete
<1> QED
  BY <1>1, <1>2, <1>7, <1>8

(* event_waiters_ names the class driver that made a request which is in   *)
(* the ring, and none for a request of usb::Device.                        *)
LEMMA WaiterOf ==
    ASSUME Inv, NEW p \in Places, ring[p].of \in SetupData
    PROVE  Get(event_waiters, ring[p].of) = Issuer(ring[p].of)
<1> DEFINE r == ring[p].of
           H == Holding(event_waiters, r)
<1>1. DOMAIN event_waiters = 1..WaiterSize /\ H \subseteq 1..WaiterSize /\ H \subseteq Nat
  BY WaiterSizeAssumption DEF Inv, TypeOK, Holding
<1>2. r # None
  BY NoneAssumption
<1>3. \A i \in H : event_waiters[i] = [key |-> "SetProtocol", value |-> "HIDBaseDriver"]
  BY <1>1, <1>2 DEF Inv, WaiterInv, Holding
<1>4. CASE r = "SetProtocol"
  <2>1. H # {}
    BY <1>1, <1>4 DEF Inv, WaiterInv, Holding
  <2>2. Min(H) \in H
    BY <1>1, <2>1, MinIn
  <2> QED
    BY <1>3, <1>4, <2>1, <2>2 DEF Get, Issuer
<1>5. CASE r # "SetProtocol"
  <2>1. H = {}
    <3> SUFFICES ASSUME NEW i \in H PROVE FALSE
      OBVIOUS
    <3>1. event_waiters[i].key = r
      BY DEF Holding
    <3> QED
      BY <1>3, <1>5, <3>1
  <2> QED
    BY <1>5, <2>1 DEF Get, Issuer
<1> QED
  BY <1>4, <1>5

(* What the handling of an event amounts to.                               *)
LEMMA HandleEffect ==
    ASSUME Inv, OnTransferEventReceived
    PROVE  LET e == events[1] IN
           /\ Len(events) \in Nat \ {0} /\ e.at \in Places
           /\ e.failed =>
                /\ delivered' = [err |-> "TRANSFER_FAILED", request |-> None, waiter |-> None]
                /\ setup_stage_map' = setup_stage_map
           /\ ~e.failed =>
                /\ e.at \in Due /\ ring[e.at].of \in SetupData
                /\ delivered' = [err |-> "SUCCESS", request |-> ring[e.at].of,
                                 waiter |-> Issuer(ring[e.at].of)]
                /\ setup_stage_map' = Delete(setup_stage_map, e.at)
<1> DEFINE e == events[1]
<1>1. Len(events) \in Nat \ {0} /\ Head(events) = e /\ e.at \in Places /\ 1 \in 1..Len(events)
  <2>1. events \in Seq([at : Places, failed : BOOLEAN]) /\ events # <<>>
    BY DEF Inv, TypeOK, OnTransferEventReceived
  <2> QED
    BY <2>1, LenProperties, HeadTailProperties, EmptySeq, QueueTypes DEF Inv
<1> HIDE DEF e
<1>2. CASE e.failed
  BY <1>1, <1>2 DEF OnTransferEventReceived, e
<1>3. CASE ~e.failed
  <2>1. e.at \in Due
    <3>1. Posted(e.at)
      BY <1>1, <1>3 DEF Posted, e
    <3> QED
      BY <3>1, DueMeans
  <2>2. /\ Get(setup_stage_map, e.at) = Before(e.at)
        /\ Before(e.at) \in Places /\ Before(e.at) # None
    <3>1. write_index \in Places
      BY DEF Inv, TypeOK
    <3>2. Before(e.at) \in Places
      BY <1>1, <3>1, BehindPlaces
    <3> QED
      BY <2>1, <3>2, DueEntry, Sizes, NoneAssumption
  <2>3. ring[Before(e.at)].of = ring[e.at].of /\ ring[e.at].of \in SetupData
    BY <2>1 DEF Inv, StageInv
  <2>4. Get(event_waiters, ring[e.at].of) = Issuer(ring[e.at].of)
    BY <1>1, <2>3, WaiterOf
  <2>5. /\ delivered' = [err |-> "SUCCESS", request |-> ring[Before(e.at)].of,
                         waiter |-> Get(event_waiters, ring[Before(e.at)].of)]
        /\ setup_stage_map' = Delete(setup_stage_map, e.at)
    BY <1>1, <1>3, <2>2 DEF OnTransferEventReceived
  <2> QED
    BY <1>1, <1>3, <2>1, <2>3, <2>4, <2>5 DEF e
<1> QED
  BY <1>2, <1>3 DEF e

(* An event is handled: its TRB is no longer due, and has no entry in the  *)
(* map any more, unless it failed.                                         *)
LEMMA HandleInv == Inv /\ OnTransferEventReceived => Inv'
<1> SUFFICES ASSUME Inv, OnTransferEventReceived PROVE Inv'
  OBVIOUS
<1> DEFINE k == Len(events)
           e == events[1]
<1>1. /\ k \in Nat \ {0} /\ e.at \in Places
      /\ e.failed \in BOOLEAN
      /\ events' \in Seq([at : Places, failed : BOOLEAN])
      /\ Len(events') = k - 1
      /\ \A i \in 1..(k - 1) : events'[i] = events[i + 1]
  <2>1. events \in Seq([at : Places, failed : BOOLEAN]) /\ events # <<>> /\ events' = Tail(events)
    BY DEF Inv, TypeOK, OnTransferEventReceived
  <2>2. k \in Nat \ {0} /\ 1 \in 1..k
    BY <2>1, HandleEffect
  <2> QED
    BY <2>1, <2>2, HandleEffect, HeadTailProperties, QueueTypes DEF Inv
<1>2. UNCHANGED <<ring, write_index, event_waiters, queued, halted>>
  BY DEF OnTransferEventReceived
<1>3. \A p : Behind(p)' = Behind(p) /\ Kept(p)' = Kept(p)
  BY <1>2 DEF Behind, Kept
<1>4. /\ e.failed => /\ delivered' = [err |-> "TRANSFER_FAILED", request |-> None, waiter |-> None]
                     /\ setup_stage_map' = setup_stage_map
      /\ ~e.failed =>
           /\ e.at \in Due /\ ring[e.at].of \in SetupData
           /\ delivered' = [err |-> "SUCCESS", request |-> ring[e.at].of,
                            waiter |-> Issuer(ring[e.at].of)]
           /\ setup_stage_map' = Delete(setup_stage_map, e.at)
  BY HandleEffect
<1> HIDE DEF k, e
<1>5. TypeOK'
  <2>1. delivered' \in Outcome
    BY <1>1, <1>4 DEF Outcome, Issuer
  <2>2. setup_stage_map' \in [1..MapSize -> [key : Places \cup {None}, value : Places \cup {None}]]
    <3>1. CASE e.failed
      BY <1>4, <3>1 DEF Inv, TypeOK
    <3>2. CASE ~e.failed
      <4>1. PICK i \in 1..MapSize : setup_stage_map' = [setup_stage_map EXCEPT ![i].key = None]
        BY <1>4, <3>2, DueEntry
      <4> QED
        BY <4>1 DEF Inv, TypeOK
    <3> QED
      BY <1>1, <3>1, <3>2
  <2> QED
    BY <1>1, <1>2, <2>1, <2>2 DEF Inv, TypeOK
<1>6. QueueInv'
  BY <1>2, <1>3 DEF Inv, QueueInv
<1>7. EventInv'
  <2>1. ASSUME NEW i \in 1..(k - 1)
        PROVE  /\ Kept(events'[i].at) <= M - 1
               /\ events'[i].failed => /\ halted /\ i = k - 1
                                       /\ queued # <<>> /\ events'[i].at = queued[1]
               /\ ~events'[i].failed => /\ Behind(events'[i].at) > Len(queued)
                                        /\ ring[events'[i].at].ioc
    <3>1. i + 1 \in 1..k /\ events'[i] = events[i + 1] /\ (i + 1 = k => i = k - 1)
      BY <1>1
    <3> QED
      BY <3>1 DEF Inv, EventInv, k
  <2>2. ASSUME NEW i \in 1..(k - 1), NEW j \in 1..(k - 1), i < j
        PROVE  Behind(events'[i].at) > Behind(events'[j].at)
    <3>1. /\ i + 1 \in 1..k /\ j + 1 \in 1..k /\ i + 1 < j + 1
          /\ events'[i] = events[i + 1] /\ events'[j] = events[j + 1]
      BY <1>1, <2>2
    <3>2. Behind(events[i + 1].at) > Behind(events[j + 1].at)
      BY <3>1 DEF Inv, EventInv, k
    <3> QED
      BY <3>1, <3>2
  <2> QED
    BY <1>1, <1>2, <1>3, <2>1, <2>2 DEF EventInv
<1>8. Due' = Due \ (IF e.failed THEN {} ELSE {e.at})
  <2> SUFFICES ASSUME NEW p
               PROVE  p \in Due' <=> p \in Due /\ (e.failed \/ p # e.at)
    OBVIOUS
  <2>1. Coming(p)' <=> Coming(p)
    BY <1>2 DEF Coming
  <2>2. ASSUME Posted(p)' PROVE Posted(p) /\ (e.failed \/ p # e.at)
    <3>1. PICK i \in 1..(k - 1) : ~events'[i].failed /\ events'[i].at = p
      BY <1>1, <2>2 DEF Posted
    <3>2. 1 \in 1..k /\ i + 1 \in 1..k /\ 1 < i + 1 /\ ~events[i + 1].failed /\ events[i + 1].at = p
      BY <1>1, <3>1
    <3>3. Behind(e.at) > Behind(p)
      BY <3>2 DEF Inv, EventInv, k, e
    <3>4. Behind(e.at) \in Int
      <4>1. write_index \in Places
        BY DEF Inv, TypeOK
      <4>2. Behind(e.at) \in 1..M
        BY <1>1, <4>1, BehindPlaces
      <4> QED
        BY <4>2, Sizes
    <3> QED
      BY <3>2, <3>3, <3>4 DEF Posted, k
  <2>3. ASSUME Posted(p), e.failed \/ p # e.at PROVE Posted(p)'
    <3>1. PICK i \in 1..k : ~events[i].failed /\ events[i].at = p
      BY <2>3 DEF Posted, k
    <3>2. i # 1
      BY <2>3, <3>1 DEF e
    <3>3. i - 1 \in 1..(k - 1) /\ events'[i - 1] = events[i]
      BY <1>1, <3>1, <3>2
    <3> QED
      BY <1>1, <3>1, <3>3 DEF Posted
  <2>4. ASSUME Coming(p) PROVE e.failed \/ p # e.at
    <3> SUFFICES ASSUME ~e.failed, p = e.at PROVE FALSE
      OBVIOUS
    <3>1. PICK i \in 1..Len(queued) : queued[i] = p
      BY <2>4 DEF Coming
    <3>2. Behind(p) = Len(queued) + 1 - i /\ Len(queued) \in Nat
      BY <3>1, QueueTypes DEF Inv, QueueInv
    <3>3. Behind(p) > Len(queued)
      <4>1. 1 \in 1..k
        BY <1>1
      <4> QED
        BY <4>1 DEF Inv, EventInv, e, k
    <3> QED
      BY <3>2, <3>3
  <2> QED
    BY <2>1, <2>2, <2>3, <2>4, DueMeans, DueMeansNext
<1>9. StageInv' /\ MapInv'
  <2>1. CASE e.failed
    <3>1. Due' = Due /\ UNCHANGED <<ring, setup_stage_map>>
      BY <1>2, <1>4, <1>8, <2>1
    <3> QED
      BY <3>1, MapsKept DEF Inv
  <2>2. CASE ~e.failed
    <3>1. Due' = Due \ {e.at} /\ e.at \in Due
      BY <1>4, <1>8, <2>2
    <3>2. PICK i \in 1..MapSize :
            /\ setup_stage_map[i].key = e.at
            /\ setup_stage_map' = [setup_stage_map EXCEPT ![i].key = None]
      BY <1>4, <2>2, DueEntry
    <3>3. \A j \in 1..MapSize :
            /\ setup_stage_map'[j].value = setup_stage_map[j].value
            /\ setup_stage_map'[j].key = IF j = i THEN None ELSE setup_stage_map[j].key
      BY <3>2 DEF Inv, TypeOK
    <3>4. StageInv'
      BY <1>2, <3>1 DEF Inv, StageInv
    <3>5. e.at # None
      BY <3>1, DueEntry
    <3>6. \A j \in 1..MapSize : setup_stage_map[j].key = e.at => j = i
      BY <3>2, <3>5 DEF Inv, MapInv
    <3>7. MapInv'
      BY <3>1, <3>2, <3>3, <3>6 DEF Inv, MapInv
    <3> QED
      BY <3>4, <3>7
  <2> QED
    BY <2>1, <2>2
<1>10. WaiterInv'
  <2>1. delivered'.err = "SUCCESS" => delivered'.waiter = Issuer(delivered'.request)
    BY <1>4
  <2> QED
    BY <1>2, <2>1 DEF Inv, WaiterInv
<1> QED
  BY <1>5, <1>6, <1>7, <1>9, <1>10 DEF Inv

-----------------------------------------------------------------------------
(* MayPush counts from the oldest TRB that is still needed: none is kept   *)
(* longer than Used says.                                                  *)
LEMMA UsedBound ==
    ASSUME Inv
    PROVE  /\ Used \in Nat
           /\ \A i \in 1..Len(events) : Kept(events[i].at) <= Used
           /\ \A i \in 1..Len(queued) : Kept(queued[i]) <= Used
           /\ \A p \in Due : Kept(p) <= Used
<1> DEFINE k == Len(events)
           n == Len(queued)
           A == [i \in 1..k |-> events[i].at]
<1>1. /\ k \in Nat /\ n \in Nat /\ queued \in Seq(Places) /\ events \in Seq([at : Places, failed : BOOLEAN])
      /\ \A i \in 1..k : events[i].at \in Places
      /\ \A i \in 1..n : queued[i] \in Places
      /\ write_index \in Places
  BY QueueTypes DEF Inv, TypeOK
<1>2. A \in Seq(Places) /\ Len(A) = k
  BY <1>1, FcnLen
<1>3. \A p \in Places : /\ Behind(p) \in 1..M
                        /\ Kept(p) \in {Behind(p), Behind(p) + 1}
                        /\ Kept(p) <= M - 1 =>
                             ((write_index - p) % (BufSize - 1))
                               + (IF ring[p].type = "Setup" THEN 0 ELSE 1) = Kept(p)
  <2> SUFFICES ASSUME NEW p \in Places
               PROVE  /\ Behind(p) \in 1..M
                      /\ Kept(p) \in {Behind(p), Behind(p) + 1}
                      /\ Kept(p) <= M - 1 =>
                           ((write_index - p) % (BufSize - 1))
                             + (IF ring[p].type = "Setup" THEN 0 ELSE 1) = Kept(p)
    OBVIOUS
  <2>1. Behind(p) \in 1..M
    BY <1>1, BehindPlaces
  <2>2. Kept(p) \in {Behind(p), Behind(p) + 1}
    BY <2>1, Sizes DEF Kept
  <2>3. 0 \in 0..(M - 1)
    BY Sizes
  <2>4. (write_index - p) % (BufSize - 1) = IF p = write_index THEN 0 ELSE Behind(p)
    BY <1>1, <2>3, PlaceRound
  <2>5. p = write_index => Behind(p) = M
    BY <1>1, Sizes DEF Behind
  <2>6. Kept(p) <= M - 1 => (write_index - p) % (BufSize - 1) = Behind(p)
    BY <2>1, <2>2, <2>4, <2>5, Sizes
  <2> QED
    BY <2>1, <2>2, <2>6 DEF Kept
<1>4. /\ \A i \in 1..n : Behind(queued[i]) = n + 1 - i /\ Kept(queued[i]) <= M - 1
      /\ \A i \in 1..k : /\ Kept(events[i].at) <= M - 1
                         /\ events[i].failed => i = k /\ n # 0 /\ events[i].at = queued[1]
                         /\ ~events[i].failed => Behind(events[i].at) > n
      /\ \A i, j \in 1..k : i < j => Behind(events[i].at) > Behind(events[j].at)
  BY <1>1 DEF Inv, QueueInv, EventInv
<1>t. \A p \in Places : Behind(p) \in Nat /\ Kept(p) \in Nat /\ Kept(p) <= Behind(p) + 1
  BY <1>3, Sizes
<1>5. CASE k = 0 /\ n = 0
  <2>1. InUse = <<>>
    <3>1. queued = <<>> /\ A = <<>>
      BY <1>1, <1>2, <1>5, EmptySeq
    <3> QED
      BY <3>1 DEF InUse
  <2>2. Used = 0
    BY <2>1 DEF Used
  <2> QED
    BY <1>1, <1>5, <2>2 DEF Due
<1>6. CASE k # 0 \/ n # 0
  <2> DEFINE h == IF k # 0 THEN events[1].at ELSE queued[1]
  <2>1. InUse # <<>> /\ Head(InUse) = h
    <3>1. InUse \in Seq(Places) /\ Len(InUse) = k + n
      BY <1>1, <1>2, ConcatProperties DEF InUse
    <3>2. InUse # <<>>
      BY <1>1, <1>6, <3>1, EmptySeq
    <3>3. Head(InUse) = InUse[1]
      BY <3>1, <3>2, HeadTailProperties
    <3>4. InUse[1] = IF 1 <= k THEN A[1] ELSE queued[1 - k]
      <4>1. InUse = A \o queued
        BY DEF InUse
      <4>2. 1 \in 1..(Len(A) + Len(queued))
        BY <1>1, <1>2, <1>6
      <4> HIDE DEF A
      <4> QED
        BY <1>1, <1>2, <4>1, <4>2, ConcatProperties
    <3>5. k # 0 => 1 \in 1..k /\ A[1] = events[1].at
      BY <1>1
    <3> QED
      BY <1>1, <3>2, <3>3, <3>4, <3>5
  <2>2. h \in Places /\ Kept(h) <= M - 1
    <3>1. CASE k # 0
      <4>1. 1 \in 1..k
        BY <1>1, <3>1
      <4> QED
        BY <1>1, <1>4, <3>1, <4>1
    <3>2. CASE k = 0
      <4>1. 1 \in 1..n
        BY <1>1, <1>6, <3>2
      <4> QED
        BY <1>1, <1>4, <3>2, <4>1
    <3> QED
      BY <3>1, <3>2
  <2> HIDE DEF h
  <2>3. Used = Kept(h) /\ Kept(h) \in Nat /\ Behind(h) \in Nat /\ Behind(h) <= Kept(h)
    BY <1>3, <2>1, <2>2 DEF Used
  <2>4. ASSUME NEW i \in 1..k PROVE Kept(events[i].at) <= Kept(h)
    <3>1. 1 \in 1..k /\ h = events[1].at
      BY <1>1 DEF h
    <3>2. CASE i = 1
      BY <2>3, <3>1, <3>2
    <3>3. CASE i # 1
      <4>1. Behind(events[1].at) > Behind(events[i].at)
        BY <1>1, <1>4, <3>1, <3>3
      <4> QED
        BY <1>1, <1>3, <2>3, <3>1, <4>1, SMTT(30)
    <3> QED
      BY <3>2, <3>3
  <2>5. ASSUME NEW i \in 1..n PROVE Kept(queued[i]) <= Kept(h)
    <3> DEFINE b == Behind(queued[i])
               c == Kept(queued[i])
    <3>0. /\ b = n + 1 - i /\ b \in Nat /\ c \in Nat /\ c <= b + 1
          /\ Behind(queued[1]) = n
      <4>1. queued[i] \in Places /\ b = n + 1 - i
        BY <1>1, <1>4
      <4>2. b \in Nat /\ c \in Nat /\ c <= b + 1
        BY <1>t, <4>1
      <4>3. 1 \in 1..n
        BY <1>1
      <4>4. Behind(queued[1]) = n
        BY <1>1, <1>4, <4>3
      <4> QED
        BY <4>1, <4>2, <4>4
    <3> HIDE DEF b, c
    <3>q. c <= Kept(h) => Kept(queued[i]) <= Kept(h)
      BY DEF c
    <3>1. CASE k = 0
      <4>1. h = queued[1]
        BY <3>1 DEF h
      <4>2. CASE i = 1
        BY <2>3, <4>1, <4>2
      <4>3. CASE i # 1
        BY <1>1, <2>3, <3>0, <3>q, <4>1, <4>3
      <4> QED
        BY <4>2, <4>3
    <3>2. CASE k # 0
      <4>0. h = events[1].at /\ 1 \in 1..k /\ events[1].failed \in BOOLEAN
        BY <1>1, <3>2, QueueTypes DEF h, Inv
      <4>1. CASE events[1].failed
        <5>1. h = queued[1]
          BY <1>4, <4>0, <4>1
        <5>2. CASE i = 1
          BY <2>3, <5>1, <5>2
        <5>3. CASE i # 1
          BY <1>1, <2>3, <3>0, <3>q, <5>1, <5>3
        <5> QED
          BY <5>2, <5>3
      <4>2. CASE ~events[1].failed
        <5>1. Behind(h) > n
          BY <1>4, <4>0, <4>2
        <5> QED
          BY <1>1, <2>3, <3>0, <3>q, <5>1
      <4> QED
        BY <4>0, <4>1, <4>2
    <3> QED
      BY <3>1, <3>2
  <2>6. \A p \in Due : Kept(p) <= Kept(h)
    BY <2>4, <2>5 DEF Due
  <2> QED
    BY <2>3, <2>4, <2>5, <2>6
<1> QED
  BY <1>1, <1>5, <1>6

(* No more TRBs are due than Outstanding counts.                           *)
LEMMA DueFew ==
    ASSUME Inv
    PROVE  IsFiniteSet(Due) /\ Cardinality(Due) \in Nat /\ Cardinality(Due) <= Outstanding
<1> DEFINE k == Len(events)
           Q == {i \in 1..Len(queued) : ring[queued[i]].ioc}
           P == {i \in 1..k : ~events[i].failed}
           A == {events[i].at : i \in P}
           B == {queued[i] : i \in Q}
           f == [i \in P |-> events[i].at]
           g == [i \in Q |-> queued[i]]
<1>1. k \in Nat /\ Len(queued) \in Nat
  BY QueueTypes DEF Inv
<1>2. IsFiniteSet(P) /\ Cardinality(P) \in Nat /\ Cardinality(P) <= k
  <2>1. P \in SUBSET (1..k)
    OBVIOUS
  <2> HIDE DEF P, k
  <2>2. IsFiniteSet(1..k) /\ Cardinality(1..k) = k
    BY <1>1, FS_Interval
  <2> QED
    BY <2>1, <2>2, FS_Subset, FS_CardinalityType
<1>3. IsFiniteSet(Q) /\ Cardinality(Q) \in Nat
  <2>1. IsFiniteSet(1..Len(queued)) /\ Q \in SUBSET (1..Len(queued))
    BY <1>1, FS_Interval
  <2> HIDE DEF Q
  <2> QED
    BY <2>1, FS_Subset, FS_CardinalityType
<1>4. IsFiniteSet(A) /\ Cardinality(A) \in Nat /\ Cardinality(A) <= Cardinality(P)
  <2>1. f \in Surjection(P, A)
    <3> HIDE DEF P
    <3> QED
      BY DEF Surjection
  <2> HIDE DEF f, A, P
  <2> QED
    BY <1>2, <2>1, FS_Surjection, FS_CardinalityType
<1>5. IsFiniteSet(B) /\ Cardinality(B) \in Nat /\ Cardinality(B) <= Cardinality(Q)
  <2>1. g \in Surjection(Q, B)
    <3> HIDE DEF Q
    <3> QED
      BY DEF Surjection
  <2> HIDE DEF g, B, Q
  <2> QED
    BY <1>3, <2>1, FS_Surjection, FS_CardinalityType
<1>6. IsFiniteSet(A \cap B) /\ Cardinality(A \cap B) \in Nat
  <2> HIDE DEF A, B
  <2> QED
    BY <1>4, FS_Intersection, FS_CardinalityType
<1>7. IsFiniteSet(A \cup B) /\ Cardinality(A \cup B) \in Nat
      /\ Cardinality(A \cup B) <= Cardinality(A) + Cardinality(B)
  <2> HIDE DEF A, B
  <2>1. IsFiniteSet(A \cup B)
        /\ Cardinality(A \cup B) = Cardinality(A) + Cardinality(B) - Cardinality(A \cap B)
    BY <1>4, <1>5, FS_Union
  <2>2. Cardinality(A \cup B) \in Nat
    BY <2>1, FS_CardinalityType
  <2> QED
    BY <1>4, <1>5, <1>6, <2>1, <2>2
<1>8. Due = A \cup B /\ Outstanding = k + Cardinality(Q)
  BY DEF Due, Outstanding
<1> HIDE DEF A, B, P, Q, k
<1> QED
  BY <1>1, <1>2, <1>3, <1>4, <1>5, <1>7, <1>8

(* When MayPush lets a request through, setup_stage_map_ has room for it.  *)
LEMMA MapRoom ==
    ASSUME Inv, Outstanding < MapSize, Outstanding \in Nat
    PROVE  \E i \in 1..MapSize : setup_stage_map[i].key = None
<1> SUFFICES ASSUME \A i \in 1..MapSize : setup_stage_map[i].key # None PROVE FALSE
  OBVIOUS
<1> DEFINE f == [i \in 1..MapSize |-> setup_stage_map[i].key]
<1>1. f \in [1..MapSize -> Due]
  BY DEF Inv, MapInv
<1>2. \A i, j \in 1..MapSize : f[i] = f[j] => i = j
  BY DEF Inv, MapInv
<1>3. IsFiniteSet(1..MapSize) /\ Cardinality(1..MapSize) = MapSize
  BY MapSizeAssumption, FS_Interval
<1>4. Cardinality(Due) < MapSize
  BY DueFew, MapSizeAssumption
<1> HIDE DEF f
<1>5. \E i, j \in 1..MapSize : i # j /\ f[i] = f[j]
  BY <1>1, <1>3, <1>4, DueFew, FS_PigeonHole
<1> QED
  BY <1>2, <1>5

(* The stages of a request: the setup stage comes first, the second one    *)
(* interrupts and no other.                                                *)
LEMMA StagesOf ==
    ASSUME NEW request \in SetupData
    PROVE  /\ Len(Stages(request)) \in 2..3
           /\ \A i \in 1..Len(Stages(request)) :
                LET t == Stages(request)[i] IN
                t \in Trb /\ t.of = request /\ (t.ioc <=> i = 2) /\ (t.type = "Setup" <=> i = 1)
<1> DEFINE Is(t, i) == t \in Trb /\ t.of = request /\ (t.ioc <=> i = 2) /\ (t.type = "Setup" <=> i = 1)
<1>1. /\ Is(MakeTrb("Setup", request, FALSE), 1)
      /\ Is(MakeTrb("Data", request, TRUE), 2) /\ Is(MakeTrb("Status", request, TRUE), 2)
      /\ Is(MakeTrb("Status", request, FALSE), 3)
  BY DEF MakeTrb, Trb
<1>2. CASE HasDataStage(request)
  <2>1. Stages(request) = <<MakeTrb("Setup", request, FALSE), MakeTrb("Data", request, TRUE),
                            MakeTrb("Status", request, FALSE)>>
    BY <1>2 DEF Stages
  <2>2. /\ Len(Stages(request)) = 3
        /\ Stages(request)[1] = MakeTrb("Setup", request, FALSE)
        /\ Stages(request)[2] = MakeTrb("Data", request, TRUE)
        /\ Stages(request)[3] = MakeTrb("Status", request, FALSE)
    BY <2>1
  <2> HIDE DEF Is
  <2>3. \A i \in 1..3 : Is(Stages(request)[i], i)
    <3>1. \A i \in 1..3 : i = 1 \/ i = 2 \/ i = 3
      OBVIOUS
    <3> QED
      BY <1>1, <2>2, <3>1
  <2> QED
    BY <2>2, <2>3 DEF Is
<1>3. CASE ~HasDataStage(request)
  <2>1. Stages(request) = <<MakeTrb("Setup", request, FALSE), MakeTrb("Status", request, TRUE)>>
    BY <1>3 DEF Stages
  <2>2. /\ Len(Stages(request)) = 2
        /\ Stages(request)[1] = MakeTrb("Setup", request, FALSE)
        /\ Stages(request)[2] = MakeTrb("Status", request, TRUE)
    BY <2>1
  <2> HIDE DEF Is
  <2>3. \A i \in 1..2 : Is(Stages(request)[i], i)
    <3>1. \A i \in 1..2 : i = 1 \/ i = 2
      OBVIOUS
    <3> QED
      BY <1>1, <2>2, <3>1
  <2> QED
    BY <2>2, <2>3 DEF Is
<1> QED
  BY <1>2, <1>3

(* What pushing a request does to the ring: what is still needed moves     *)
(* away from write_index unchanged, and the stages take the places behind. *)
LEMMA PushEffect ==
    ASSUME Inv, NEW request \in SetupData, Control(request)
    PROVE  LET n == Len(Stages(request)) IN
           /\ ring' \in [Places -> Trb] /\ write_index' \in Places
           /\ \A p \in Places :
                Kept(p) <= Used => /\ ring'[p] = ring[p]
                                   /\ Behind(p)' = Behind(p) + n
                                   /\ Kept(p)' = Kept(p) + n
                                   /\ Kept(p)' <= M - 1
                                   /\ Behind(p) < M - 1
                                   /\ ring[p].type # "Setup" => ring'[Before(p)] = ring[Before(p)]
           /\ \A i \in 1..n : PlaceAt(i - 1) \in Places
           /\ \A i \in 1..n, q \in Places :
                q = PlaceAt(i - 1) =>
                  /\ ring'[q] = Stages(request)[i]
                  /\ Behind(q) = M + 1 - i /\ Behind(q)' = n + 1 - i /\ Kept(q)' <= M - 1
           /\ Before(PlaceAt(1)) = PlaceAt(0)
<1> DEFINE n == Len(Stages(request))
           w == write_index
<1>1. n \in 2..3 /\ w \in Places /\ M \in Nat /\ M >= 4 /\ Places = 0..(M - 1)
  BY StagesOf, Sizes DEF Inv, TypeOK
<1> HIDE DEF n, w
<1>2. Used \in Nat /\ Used + n <= M - 1
  BY UsedBound, Sizes DEF Control, MayPush, n
<1>3. /\ \A k \in 0..(M - 1) : PlaceAt(k) = IF w + k < M THEN w + k ELSE w + k - M
      /\ \A p \in Places : (p - w) % (BufSize - 1) = M - Behind(p)
  <2>1. \A k \in 0..(M - 1), p \in Places :
          /\ PlaceAt(k) = IF w + k < M THEN w + k ELSE w + k - M
          /\ (p - w) % (BufSize - 1) = M - Behind(p)
    BY <1>1, PlaceRound DEF w
  <2>2. 0 \in 0..(M - 1) /\ 0 \in Places
    BY <1>1
  <2> QED
    BY <2>1, <2>2
<1>4. write_index' = (IF w + n < M THEN w + n ELSE w + n - M) /\ write_index' \in Places
  <2>1. n \in 0..(M - 1)
    BY <1>1
  <2>2. write_index' = PlaceAt(n)
    BY DEF Control, n
  <2> QED
    BY <1>1, <1>3, <2>1, <2>2
<1>5. ring' = [p \in Places |-> LET k == (p - w) % (BufSize - 1)
                                IN  IF k < n THEN Stages(request)[k + 1] ELSE ring[p]]
  BY DEF Control, n, w
<1>6. \A p \in Places : ring'[p] = IF M - Behind(p) < n
                                   THEN Stages(request)[M - Behind(p) + 1] ELSE ring[p]
  BY <1>3, <1>5
<1>7. ring' \in [Places -> Trb]
  <2>1. \A p \in Places : ring'[p] \in Trb
    <3> SUFFICES ASSUME NEW p \in Places PROVE ring'[p] \in Trb
      OBVIOUS
    <3>1. Behind(p) \in 1..M
      BY <1>1, BehindPlaces DEF w
    <3>2. CASE M - Behind(p) < n
      <4>1. M - Behind(p) + 1 \in 1..n
        BY <1>1, <3>1, <3>2
      <4> QED
        BY <1>6, <3>2, <4>1, StagesOf DEF n
    <3>3. CASE ~(M - Behind(p) < n)
      BY <1>6, <3>3 DEF Inv, TypeOK
    <3> QED
      BY <3>2, <3>3
  <2> QED
    BY <1>5, <2>1
<1>8. ASSUME NEW p \in Places, Kept(p) <= Used
      PROVE  /\ ring'[p] = ring[p]
             /\ Behind(p)' = Behind(p) + n
             /\ Kept(p)' = Kept(p) + n
             /\ Kept(p)' <= M - 1
             /\ Behind(p) < M - 1
             /\ ring[p].type # "Setup" => ring'[Before(p)] = ring[Before(p)]
  <2>1. Behind(p) \in 1..M /\ Before(p) \in Places
        /\ (Behind(p) < M => Behind(Before(p)) = Behind(p) + 1)
    BY <1>1, BehindPlaces DEF w
  <2>2. /\ Behind(p) <= Kept(p) /\ Kept(p) \in Nat
        /\ ring[p].type # "Setup" => Kept(p) = Behind(p) + 1
    BY <1>1, <2>1 DEF Kept
  <2>3. Behind(p) + n <= M - 1 /\ Kept(p) + n <= M - 1
    BY <1>1, <1>2, <1>8, <2>1, <2>2
  <2>4. Behind(p)' = Behind(p) + n
    BY <1>1, <1>4, <2>3 DEF Behind, w, M
  <2>5. ring'[p] = ring[p]
    BY <1>1, <1>6, <2>1, <2>3
  <2>6. Kept(p)' = Kept(p) + n
    BY <1>1, <2>1, <2>4, <2>5 DEF Kept
  <2>7. ring[p].type # "Setup" => ring'[Before(p)] = ring[Before(p)]
    BY <1>1, <1>6, <2>1, <2>2, <2>3
  <2> QED
    BY <1>1, <2>1, <2>3, <2>4, <2>5, <2>6, <2>7
<1>9. ASSUME NEW i \in 1..n
      PROVE  PlaceAt(i - 1) = (IF w + (i - 1) < M THEN w + (i - 1) ELSE w + (i - 1) - M)
             /\ PlaceAt(i - 1) \in Places
  <2>1. i - 1 \in 0..(M - 1)
    BY <1>1
  <2>2. PlaceAt(i - 1) = (IF w + (i - 1) < M THEN w + (i - 1) ELSE w + (i - 1) - M)
    BY <1>3, <2>1
  <2> QED
    BY <1>1, <2>1, <2>2
<1>11. ASSUME NEW i \in 1..n, NEW q \in Places, q = PlaceAt(i - 1)
       PROVE  /\ ring'[q] = Stages(request)[i]
              /\ Behind(q) = M + 1 - i /\ Behind(q)' = n + 1 - i /\ Kept(q)' <= M - 1
  <2>1. q = (IF w + (i - 1) < M THEN w + (i - 1) ELSE w + (i - 1) - M)
    BY <1>9, <1>11
  <2>2. Behind(q) = M + 1 - i
    BY <1>1, <2>1 DEF Behind, w
  <2>3. Behind(q)' = n + 1 - i
    <3>1. Behind(q)' = IF q < write_index' THEN write_index' - q ELSE write_index' + M - q
      BY DEF Behind, M
    <3>2. i >= 1 /\ i <= n /\ i \in Int /\ n \in Int /\ n < M
      BY <1>1, <1>2
    <3>3. w \in Int /\ w >= 0 /\ w < M /\ M \in Int
      BY <1>1
    <3> QED
      BY <1>4, <2>1, <3>1, <3>2, <3>3
  <2>4. ring'[q] = Stages(request)[i]
    <3>1. M - Behind(q) = i - 1 /\ i - 1 < n /\ M - Behind(q) + 1 = i
      BY <1>1, <2>2
    <3> QED
      BY <1>6, <3>1
  <2>5. Kept(q)' <= M - 1
    <3>1. ring'[q].type = "Setup" <=> i = 1
      BY <2>4, StagesOf DEF n
    <3>2. Kept(q)' = Behind(q)' + (IF i = 1 THEN 0 ELSE 1)
      BY <3>1 DEF Kept
    <3> QED
      BY <1>1, <1>2, <2>3, <3>2
  <2> QED
    BY <2>2, <2>3, <2>4, <2>5
<1>10. Before(PlaceAt(1)) = PlaceAt(0)
  <2>1. 0 \in 0..(M - 1) /\ 1 \in 0..(M - 1)
    BY <1>1
  <2>2. /\ PlaceAt(0) = IF w + 0 < M THEN w + 0 ELSE w + 0 - M
        /\ PlaceAt(1) = IF w + 1 < M THEN w + 1 ELSE w + 1 - M
    BY <1>3, <2>1
  <2> QED
    BY <1>1, <2>2 DEF Before
<1> QED
  BY <1>4, <1>7, <1>8, <1>9, <1>10, <1>11 DEF n

(* The TRBs that are due after a request is pushed: the one that           *)
(* interrupts for it, besides those before.                                *)
LEMMA PushDue ==
    ASSUME Inv, NEW request \in SetupData, Control(request)
    PROVE  LET n == Len(Stages(request)) IN
           /\ queued' \in Seq(Places) /\ Len(queued') = Len(queued) + n
           /\ \A i \in 1..Len(queued) : queued'[i] = queued[i]
           /\ \A i \in 1..n : queued'[Len(queued) + i] = PlaceAt(i - 1)
           /\ Due' = Due \cup {PlaceAt(1)}
           /\ PlaceAt(1) \in Places /\ PlaceAt(1) \notin Due
<1> DEFINE n == Len(Stages(request))
           m == Len(queued)
           q == PlaceAt(1)
           F == [i \in 1..n |-> PlaceAt(i - 1)]
<1>1. /\ n \in 2..3 /\ n \in Nat /\ m \in Nat /\ queued \in Seq(Places)
      /\ \A i \in 1..m : queued[i] \in Places
      /\ \A i \in 1..n : PlaceAt(i - 1) \in Places
  BY StagesOf, QueueTypes, PushEffect DEF Inv, TypeOK
<1> HIDE DEF n, m
<1>2. F \in Seq(Places) /\ Len(F) = n /\ \A i \in 1..n : F[i] = PlaceAt(i - 1)
  <2>1. F \in [1..n -> Places]
    BY <1>1
  <2>2. \A i \in 1..n : F[i] = PlaceAt(i - 1)
    OBVIOUS
  <2> HIDE DEF F
  <2> QED
    BY <1>1, <2>1, <2>2, FcnLen
<1>3. queued' = queued \o F
  BY DEF Control, n
<1> HIDE DEF F
<1>4. /\ queued' \in Seq(Places) /\ Len(queued') = m + n
      /\ \A i \in 1..(m + n) : queued'[i] = IF i <= m THEN queued[i] ELSE F[i - m]
  BY <1>1, <1>2, <1>3, ConcatProperties DEF m
<1>5. \A i \in 1..m : queued'[i] = queued[i]
  BY <1>1, <1>4
<1>6. \A i \in 1..n : queued'[m + i] = PlaceAt(i - 1)
  <2> SUFFICES ASSUME NEW i \in 1..n PROVE queued'[m + i] = PlaceAt(i - 1)
    OBVIOUS
  <2>1. m + i \in 1..(m + n) /\ ~(m + i <= m) /\ (m + i) - m = i
    BY <1>1
  <2> QED
    BY <1>2, <1>4, <2>1
<1>7. \A i \in 1..n : ring'[PlaceAt(i - 1)].ioc <=> i = 2
  BY <1>1, PushEffect, StagesOf DEF n
<1>8. \A i \in 1..m : ring'[queued[i]] = ring[queued[i]]
  BY <1>1, UsedBound, PushEffect DEF m
<1>9. UNCHANGED events
  BY DEF Control
<1>10. q \in Places /\ 2 \in 1..n /\ queued'[m + 2] = q /\ ring'[q].ioc
  <2>1. 2 \in 1..n /\ 2 - 1 = 1
    BY <1>1
  <2> QED
    BY <1>1, <1>6, <1>7, <2>1
<1>11. q \notin Due
  <2> SUFFICES ASSUME q \in Due PROVE FALSE
    OBVIOUS
  <2>1. Behind(q) < M - 1
    BY <1>10, UsedBound, PushEffect
  <2>2. Behind(q) = M + 1 - 2
    BY <1>10, PushEffect DEF n
  <2> QED
    BY <2>1, <2>2, Sizes
<1>12. Due' = Due \cup {q}
  <2> SUFFICES ASSUME NEW p PROVE p \in Due' <=> p \in Due \/ p = q
    OBVIOUS
  <2>1. Posted(p)' <=> Posted(p)
    BY <1>9 DEF Posted
  <2>2. ASSUME Coming(p) PROVE Coming(p)'
    <3>1. PICK i \in 1..m : queued[i] = p /\ ring[p].ioc
      BY <2>2 DEF Coming, m
    <3>2. i \in 1..(m + n) /\ queued'[i] = p /\ ring'[p].ioc
      BY <1>1, <1>5, <1>8, <3>1
    <3> QED
      BY <1>4, <3>2 DEF Coming
  <2>3. ASSUME p = q PROVE Coming(p)'
    <3>1. m + 2 \in 1..(m + n)
      BY <1>1
    <3> QED
      BY <1>4, <1>10, <2>3, <3>1 DEF Coming
  <2>4. ASSUME Coming(p)' PROVE Coming(p) \/ p = q
    <3>1. PICK i \in 1..(m + n) : queued'[i] = p /\ ring'[p].ioc
      BY <1>4, <2>4 DEF Coming
    <3>2. CASE i <= m
      <4>1. i \in 1..m /\ queued[i] = p /\ ring[p].ioc
        BY <1>1, <1>5, <1>8, <3>1, <3>2
      <4> QED
        BY <4>1 DEF Coming, m
    <3>3. CASE i > m
      <4>1. i - m \in 1..n /\ m + (i - m) = i
        BY <1>1, <3>3
      <4>2. p = PlaceAt((i - m) - 1)
        BY <1>6, <3>1, <4>1
      <4>3. i - m = 2
        BY <1>7, <3>1, <4>1, <4>2
      <4> QED
        BY <4>2, <4>3
    <3> QED
      BY <1>1, <3>2, <3>3
  <2> QED
    BY <2>1, <2>2, <2>3, <2>4, DueMeans, DueMeansNext
<1> QED
  BY <1>4, <1>5, <1>6, <1>10, <1>11, <1>12 DEF n, m

(* The waiter is put down, or was before.                                  *)
LEMMA PutWaiter ==
    ASSUME Inv, NEW request \in SetupData, event_waiters' = Waiting(request)
    PROVE  /\ event_waiters' \in
                [1..WaiterSize -> [key : SetupData \cup {None}, value : {"HIDBaseDriver", None}]]
           /\ \A i \in 1..WaiterSize :
                \/ event_waiters'[i].key = None
                \/ event_waiters'[i] = [key |-> "SetProtocol", value |-> "HIDBaseDriver"]
           /\ \A i \in 1..WaiterSize :
                event_waiters[i].key = "SetProtocol" =>
                  event_waiters'[i].key = "SetProtocol"
           /\ request = "SetProtocol" =>
                \E i \in 1..WaiterSize : event_waiters'[i].key = "SetProtocol"
<1> DEFINE H == Holding(event_waiters, None)
           v == [key |-> "SetProtocol", value |-> "HIDBaseDriver"]
<1>1. /\ event_waiters \in
           [1..WaiterSize -> [key : SetupData \cup {None}, value : {"HIDBaseDriver", None}]]
      /\ H \subseteq 1..WaiterSize /\ H \subseteq Nat /\ 1 \in 1..WaiterSize
      /\ \A i \in 1..WaiterSize : event_waiters[i].key = None <=> i \in H
  BY WaiterSizeAssumption DEF Inv, TypeOK, Holding
<1>2. None # "SetProtocol" /\ None # "HIDBaseDriver"
  BY NoneAssumption DEF SetupData
<1>3. \A i \in 1..WaiterSize : event_waiters[i].key = None \/ event_waiters[i] = v
  BY DEF Inv, WaiterInv
<1>4. CASE request # "SetProtocol"
  <2>1. event_waiters' = event_waiters
    BY <1>4 DEF Waiting, Issuer
  <2> QED
    BY <1>1, <1>3, <1>4, <2>1
<1>5. CASE request = "SetProtocol" /\ H = {}
  <2>1. event_waiters' = event_waiters
    BY <1>2, <1>5 DEF Waiting, Issuer, Put
  <2>2. event_waiters[1].key = "SetProtocol"
    BY <1>1, <1>3, <1>5
  <2> QED
    BY <1>1, <1>3, <2>1, <2>2
<1>6. CASE request = "SetProtocol" /\ H # {}
  <2>1. PICK i \in 1..WaiterSize : i \in H /\ i = Min(H)
    BY <1>1, <1>6, MinIn
  <2>2. event_waiters' = [event_waiters EXCEPT ![i] = v]
    BY <1>2, <1>6, <2>1 DEF Waiting, Issuer, Put
  <2>3. v \in [key : SetupData \cup {None}, value : {"HIDBaseDriver", None}]
    BY DEF SetupData
  <2>4. event_waiters[i].key = None
    BY <1>1, <2>1
  <2> QED
    BY <1>1, <1>2, <1>3, <2>2, <2>3, <2>4
<1> QED
  BY <1>4, <1>5, <1>6

(* ControlIn and ControlOut: the request is remembered in both maps, and   *)
(* what they hold for those before it stays.                               *)
LEMMA ControlInv ==
    ASSUME Inv, NEW request \in SetupData, Control(request)
    PROVE  Inv'
<1> DEFINE n == Len(Stages(request))
           m == Len(queued)
           k == Len(events)
<1>1. /\ n \in 2..3 /\ m \in Nat /\ k \in Nat
      /\ \A i \in 1..m : queued[i] \in Places
      /\ \A i \in 1..k : events[i].at \in Places
      /\ Due \subseteq Places /\ write_index \in Places
  BY StagesOf, QueueTypes DEF Inv, TypeOK
<1>2. /\ ring' \in [Places -> Trb] /\ write_index' \in Places
      /\ \A p \in Places :
           Kept(p) <= Used => /\ ring'[p] = ring[p]
                              /\ Behind(p)' = Behind(p) + n
                              /\ Kept(p)' <= M - 1
                              /\ ring[p].type # "Setup" => ring'[Before(p)] = ring[Before(p)]
      /\ \A i \in 1..n : PlaceAt(i - 1) \in Places
      /\ \A i \in 1..n, q \in Places :
           q = PlaceAt(i - 1) =>
             /\ ring'[q] = Stages(request)[i]
             /\ Behind(q) = M + 1 - i /\ Behind(q)' = n + 1 - i /\ Kept(q)' <= M - 1
      /\ Before(PlaceAt(1)) = PlaceAt(0)
  BY PushEffect
<1>3. /\ queued' \in Seq(Places) /\ Len(queued') = m + n
      /\ \A i \in 1..m : queued'[i] = queued[i]
      /\ \A i \in 1..n : queued'[m + i] = PlaceAt(i - 1)
      /\ Due' = Due \cup {PlaceAt(1)}
      /\ PlaceAt(1) \in Places /\ PlaceAt(1) \notin Due
  BY PushDue
<1>4. UNCHANGED <<halted, events, delivered>> /\ event_waiters' = Waiting(request)
      /\ setup_stage_map' = Put(setup_stage_map, PlaceAt(1), PlaceAt(0))
      /\ Outstanding < MapSize
  BY DEF Control, Remembered, MayPush
<1>5. /\ \A i \in 1..k : Kept(events[i].at) <= Used
      /\ \A i \in 1..m : Kept(queued[i]) <= Used
      /\ \A p \in Due : Kept(p) <= Used
  BY UsedBound
<1>6. /\ \A i \in 1..n : LET t == Stages(request)[i] IN
                         t.of = request /\ (t.ioc <=> i = 2) /\ (t.type = "Setup" <=> i = 1)
      /\ 1 \in 1..n /\ 2 \in 1..n
  <2>1. 1 \in 1..n /\ 2 \in 1..n
    <3> HIDE DEF n
    <3> QED
      BY <1>1
  <2> QED
    BY <2>1, StagesOf
<1>7. PlaceAt(0) \in Places /\ ring'[PlaceAt(0)] = Stages(request)[1]
      /\ ring'[PlaceAt(1)] = Stages(request)[2]
  <2>1. 1 - 1 = 0 /\ 2 - 1 = 1
    OBVIOUS
  <2>2. PlaceAt(1 - 1) \in Places /\ PlaceAt(2 - 1) \in Places
    BY <1>2, <1>6
  <2>3. /\ ring'[PlaceAt(1 - 1)] = Stages(request)[1]
        /\ ring'[PlaceAt(2 - 1)] = Stages(request)[2]
    BY <1>2, <1>6, <2>2
  <2> QED
    BY <2>1, <2>2, <2>3
<1>8. PICK e \in 1..MapSize :
        /\ setup_stage_map[e].key = None
        /\ setup_stage_map' =
             [setup_stage_map EXCEPT ![e] = [key |-> PlaceAt(1), value |-> PlaceAt(0)]]
  <2>1. Outstanding \in Nat
    <3>1. LET Q == {i \in 1..m : ring[queued[i]].ioc} IN
          IsFiniteSet(Q) /\ Cardinality(Q) \in Nat
      <4> DEFINE Q == {i \in 1..m : ring[queued[i]].ioc}
      <4>1. Q \in SUBSET (1..m)
        OBVIOUS
      <4> HIDE DEF Q, m
      <4>2. IsFiniteSet(1..m)
        BY <1>1, FS_Interval
      <4>3. IsFiniteSet(Q)
        BY <4>1, <4>2, FS_Subset
      <4> QED
        BY <4>3, FS_CardinalityType DEF Q
    <3> QED
      BY <1>1, <3>1 DEF Outstanding
  <2> DEFINE H == Holding(setup_stage_map, None)
  <2>2. H # {} /\ H \subseteq 1..MapSize /\ H \subseteq Nat
    <3>1. \E i \in 1..MapSize : setup_stage_map[i].key = None
      BY <1>4, <2>1, MapRoom
    <3>2. DOMAIN setup_stage_map = 1..MapSize
      BY DEF Inv, TypeOK
    <3> QED
      BY <3>1, <3>2, MapSizeAssumption DEF Holding
  <2>3. Min(H) \in H
    BY <2>2, MinIn
  <2>4. setup_stage_map[Min(H)].key = None
    BY <2>3 DEF Holding
  <2> QED
    BY <1>4, <2>2, <2>3, <2>4 DEF Put
<1> HIDE DEF n, m, k
<1>9. TypeOK'
  <2>1. setup_stage_map' \in [1..MapSize -> [key : Places \cup {None}, value : Places \cup {None}]]
    BY <1>3, <1>7, <1>8 DEF Inv, TypeOK
  <2>2. event_waiters' \in
          [1..WaiterSize -> [key : SetupData \cup {None}, value : {"HIDBaseDriver", None}]]
    BY <1>4, PutWaiter
  <2> QED
    BY <1>2, <1>3, <1>4, <2>1, <2>2 DEF Inv, TypeOK
<1>10. QueueInv'
  <2>1. ASSUME NEW i \in 1..(m + n), NEW p \in Places, p = queued'[i]
        PROVE  Behind(p)' = (m + n) + 1 - i /\ Kept(p)' <= M - 1
    <3>1. CASE i \in 1..m
      <4>1. p = queued[i] /\ Kept(p) <= Used
        BY <1>3, <1>5, <2>1, <3>1
      <4>2. Behind(p) = m + 1 - i
        BY <3>1, <4>1 DEF Inv, QueueInv, m
      <4> QED
        BY <1>1, <1>2, <4>1, <4>2
    <3>2. CASE i \notin 1..m
      <4>1. i - m \in 1..n /\ m + (i - m) = i
        BY <1>1, <3>2
      <4>2. p = PlaceAt((i - m) - 1)
        BY <1>3, <2>1, <4>1
      <4>3. Behind(p)' = n + 1 - (i - m) /\ Kept(p)' <= M - 1
        BY <1>2, <4>1, <4>2
      <4> QED
        BY <1>1, <4>3
    <3> QED
      BY <3>1, <3>2
  <2>2. \A i \in 1..(m + n) : queued'[i] \in Places
    BY <1>3, ElementOfSeq
  <2> QED
    BY <1>3, <2>1, <2>2 DEF QueueInv
<1>11. EventInv'
  <2>1. \A i \in 1..k :
          /\ Kept(events[i].at) <= Used
          /\ events[i].failed => halted /\ i = k /\ queued # <<>> /\ events[i].at = queued[1]
          /\ ~events[i].failed => Behind(events[i].at) > m /\ ring[events[i].at].ioc
    BY <1>5 DEF Inv, EventInv, k, m
  <2>2. \A i, j \in 1..k : i < j => Behind(events[i].at) > Behind(events[j].at)
    BY DEF Inv, EventInv, k
  <2>3. \A i \in 1..k : Behind(events[i].at) \in Nat
    BY <1>1, BehindPlaces, Sizes
  <2>4. \A i \in 1..k, p \in Places :
          p = events[i].at =>
            ring'[p] = ring[p] /\ Behind(p)' = Behind(p) + n /\ Kept(p)' <= M - 1
    BY <1>2, <2>1
  <2>5. queued # <<>> => queued' # <<>> /\ queued'[1] = queued[1]
    <3> SUFFICES ASSUME queued # <<>> PROVE queued' # <<>> /\ queued'[1] = queued[1]
      OBVIOUS
    <3>1. m # 0
      BY EmptySeq DEF Inv, TypeOK, m
    <3>2. 1 \in 1..m /\ Len(queued') # 0
      BY <1>1, <1>3, <3>1
    <3> QED
      BY <1>3, <3>2, EmptySeq
  <2>6. ASSUME NEW i \in 1..k, NEW p \in Places, p = events[i].at
        PROVE  /\ Kept(p)' <= M - 1
               /\ events[i].failed => halted /\ i = k /\ queued' # <<>> /\ p = queued'[1]
               /\ ~events[i].failed => Behind(p)' > m + n /\ ring'[p].ioc
    BY <1>1, <2>1, <2>3, <2>4, <2>5, <2>6, SMTT(30)
  <2>7. ASSUME NEW i \in 1..k, NEW j \in 1..k, i < j,
               NEW p \in Places, p = events[i].at, NEW q \in Places, q = events[j].at
        PROVE  Behind(p)' > Behind(q)'
    BY <1>1, <2>2, <2>3, <2>4, <2>7
  <2> QED
    BY <1>1, <1>3, <1>4, <2>6, <2>7 DEF EventInv, k
<1>12. StageInv'
  <2>1. ASSUME NEW p \in Due
        PROVE  /\ ring'[p].ioc /\ ring'[p].type # "Setup" /\ ring'[p].of \in SetupData
               /\ ring'[Before(p)].type = "Setup" /\ ring'[Before(p)].of = ring'[p].of
    <3>1. /\ ring[p].ioc /\ ring[p].type # "Setup" /\ ring[p].of \in SetupData
          /\ ring[Before(p)].type = "Setup" /\ ring[Before(p)].of = ring[p].of
      BY DEF Inv, StageInv
    <3>2. ring'[p] = ring[p] /\ ring'[Before(p)] = ring[Before(p)]
      BY <1>1, <1>2, <1>5, <3>1
    <3> QED
      BY <3>1, <3>2
  <2>2. /\ ring'[PlaceAt(1)].ioc /\ ring'[PlaceAt(1)].type # "Setup"
        /\ ring'[PlaceAt(1)].of \in SetupData
        /\ ring'[Before(PlaceAt(1))].type = "Setup"
        /\ ring'[Before(PlaceAt(1))].of = ring'[PlaceAt(1)].of
    BY <1>2, <1>6, <1>7
  <2>3. \A p \in Due' :
          /\ ring'[p].ioc /\ ring'[p].type # "Setup" /\ ring'[p].of \in SetupData
          /\ ring'[Before(p)].type = "Setup" /\ ring'[Before(p)].of = ring'[p].of
    BY <1>3, <2>1, <2>2
  <2>4. \A p : Before(p)' = Before(p)
    BY DEF Before, M
  <2> QED
    BY <2>3, <2>4 DEF StageInv
<1>13. MapInv'
  <2> DEFINE q == PlaceAt(1)
             t == setup_stage_map
  <2>0. q \in Places /\ q # None /\ q \notin Due
    BY <1>3, Sizes, NoneAssumption
  <2>1. \A i \in 1..MapSize : t'[i] = IF i = e THEN [key |-> q, value |-> PlaceAt(0)] ELSE t[i]
    BY <1>8 DEF Inv, TypeOK
  <2>2. /\ \A i \in 1..MapSize : t[i].key # None => t[i].key \in Due /\ t[i].value = Before(t[i].key)
        /\ \A i, j \in 1..MapSize : t[i].key = t[j].key => i = j \/ t[i].key = None
        /\ \A p \in Due : \E i \in 1..MapSize : t[i].key = p
    BY DEF Inv, MapInv
  <2>3. Before(q) = PlaceAt(0)
    BY <1>2
  <2> HIDE DEF q, t
  <2>4. \A i \in 1..MapSize :
          t'[i].key # None => t'[i].key \in Due \cup {q} /\ t'[i].value = Before(t'[i].key)
    BY <2>1, <2>2, <2>3
  <2>5. \A i, j \in 1..MapSize : t'[i].key = t'[j].key => i = j \/ t'[i].key = None
    BY <2>0, <2>1, <2>2
  <2>6. \A p \in Due \cup {q} : \E i \in 1..MapSize : t'[i].key = p
    <3>1. ASSUME NEW p \in Due PROVE \E i \in 1..MapSize : t'[i].key = p
      <4>1. PICK i \in 1..MapSize : t[i].key = p
        BY <2>2
      <4>2. p # None /\ i # e
        BY <1>8, <4>1, DueEntry DEF t
      <4> QED
        BY <2>1, <4>1, <4>2
    <3>2. t'[e].key = q
      BY <2>1
    <3> QED
      BY <3>1, <3>2
  <2>7. \A p : Before(p)' = Before(p)
    BY DEF Before, M
  <2>8. Due' = Due \cup {q}
    BY <1>3 DEF q
  <2>9. \A i \in 1..MapSize :
          t'[i].key # None => t'[i].key \in Due' /\ t'[i].value = Before(t'[i].key)
    BY <2>4, <2>8
  <2> QED
    BY <2>5, <2>6, <2>7, <2>8, <2>9 DEF MapInv, t
<1>14. WaiterInv'
  <2>1. /\ \A i \in 1..WaiterSize :
             \/ event_waiters'[i].key = None
             \/ event_waiters'[i] = [key |-> "SetProtocol", value |-> "HIDBaseDriver"]
        /\ \A i \in 1..WaiterSize :
             event_waiters[i].key = "SetProtocol" => event_waiters'[i].key = "SetProtocol"
        /\ request = "SetProtocol" =>
             \E i \in 1..WaiterSize : event_waiters'[i].key = "SetProtocol"
    BY <1>4, PutWaiter
  <2>2. ASSUME NEW p \in Places, ring'[p].of = "SetProtocol"
        PROVE  \E i \in 1..WaiterSize : event_waiters'[i].key = "SetProtocol"
    <3>1. ring'[p] = ring[p] \/ ring'[p].of = request
      <4>1. ring'[p] = ring[p] \/ \E i \in 1..n : ring'[p] = Stages(request)[i]
        <5> DEFINE d == (p - write_index) % (BufSize - 1)
        <5>1. ring'[p] = IF d < n THEN Stages(request)[d + 1] ELSE ring[p]
          BY DEF Control, n
        <5>2. d \in Nat
          <6>1. 0 \in 0..(M - 1)
            BY Sizes
          <6>2. d = M - Behind(p) /\ Behind(p) \in 1..M
            BY <1>1, <6>1, PlaceRound, BehindPlaces
          <6> QED
            BY <6>2, Sizes
        <5> HIDE DEF d
        <5>3. d < n => d + 1 \in 1..n
          BY <1>1, <5>2
        <5> QED
          BY <5>1, <5>3
      <4> QED
        BY <1>6, <4>1
    <3>2. CASE ring'[p] = ring[p]
      <4>1. \E i \in 1..WaiterSize : event_waiters[i].key = "SetProtocol"
        BY <2>2, <3>2 DEF Inv, WaiterInv
      <4> QED
        BY <2>1, <4>1
    <3>3. CASE ring'[p].of = request
      BY <2>1, <2>2, <3>3
    <3> QED
      BY <3>1, <3>2, <3>3
  <2>3. delivered'.err = "SUCCESS" /\ delivered'.request # None =>
          delivered'.waiter = Issuer(delivered'.request)
    BY <1>4 DEF Inv, WaiterInv
  <2> QED
    BY <2>1, <2>2, <2>3 DEF WaiterInv
<1> QED
  BY <1>9, <1>10, <1>11, <1>12, <1>13, <1>14 DEF Inv

-----------------------------------------------------------------------------
(* Every step keeps the invariant.                                         *)
LEMMA NextInv == Inv /\ [Next]_vars => Inv'
<1> SUFFICES ASSUME Inv, [Next]_vars PROVE Inv'
  OBVIOUS
<1>1. CASE \E request \in SetupData : Control(request)
  BY <1>1, ControlInv
<1>2. CASE OnTransferEventReceived
  BY <1>2, HandleInv
<1>3. CASE HcExecute
  BY <1>3, ExecuteInv
<1>4. CASE HcFail
  BY <1>4, FailInv
<1>5. CASE UNCHANGED vars
  <2>1. /\ \A p : Behind(p)' = Behind(p) /\ Kept(p)' = Kept(p)
        /\ Due' = Due
    BY <1>5 DEF vars, Behind, Kept, Due
  <2>2. StageInv' /\ MapInv'
    BY <1>5, <2>1, MapsKept DEF Inv, vars
  <2>3. TypeOK' /\ QueueInv' /\ EventInv' /\ WaiterInv'
    BY <1>5, <2>1 DEF Inv, vars, TypeOK, QueueInv, EventInv, WaiterInv
  <2> QED
    BY <2>2, <2>3 DEF Inv
<1> QED
  BY <1>1, <1>2, <1>3, <1>4, <1>5 DEF Next

(* So it always holds.                                                     *)
LEMMA InvHolds == Spec => []Inv
  BY InitInv, NextInv, PTL DEF Spec

(* Whatever requests are made, handled and failed, and however often the   *)
(* ring has come round: setup_stage_map_ leads from every TRB whose event  *)
(* is due to the setup stage of its request, and event_waiters_ to the     *)
(* class driver that made it (device.cpp:155-229 and :307-318).            *)
THEOREM Remember == Spec => []RequestsRemembered
<1>1. Inv => RequestsRemembered
  <2> SUFFICES ASSUME Inv PROVE RequestsRemembered
    OBVIOUS
  <2>1. ASSUME NEW p \in Due
        PROVE  LET q == Get(setup_stage_map, p) IN
               q # None /\ ring[q].type = "Setup" /\ ring[q].of = ring[p].of
    <3>1. p \in Places /\ Get(setup_stage_map, p) = Before(p)
      BY DueEntry
    <3>2. Before(p) \in Places
      BY <3>1, BehindPlaces DEF Inv, TypeOK
    <3>3. Before(p) # None
      BY <3>2, Sizes, NoneAssumption
    <3> QED
      BY <3>1, <3>3 DEF Inv, StageInv
  <2>2. ASSUME NEW p \in Due PROVE Get(event_waiters, ring[p].of) = Issuer(ring[p].of)
    <3>1. p \in Places /\ ring[p].of \in SetupData
      BY DueEntry DEF Inv, StageInv
    <3> QED
      BY <3>1, WaiterOf
  <2> QED
    BY <2>1, <2>2 DEF RequestsRemembered, SetupFound, WaiterFound, Inv, WaiterInv
<1> QED
  BY <1>1, InvHolds, PTL

(* An event is handled as the completion of the very request whose TRB it  *)
(* names, or as the failure it reports (device.cpp:307-330).               *)
THEOREM Completions == Spec => RightCompletion
<1> DEFINE A == Len(events') < Len(events) =>
                  IF Head(events).failed THEN delivered'.err = "TRANSFER_FAILED"
                  ELSE /\ delivered'.err = "SUCCESS"
                       /\ delivered'.request = ring[Head(events).at].of
<1>1. Inv /\ [Next]_vars => [A]_vars
  <2> SUFFICES ASSUME Inv, [Next]_vars, Len(events') < Len(events)
               PROVE  IF Head(events).failed THEN delivered'.err = "TRANSFER_FAILED"
                      ELSE /\ delivered'.err = "SUCCESS"
                           /\ delivered'.request = ring[Head(events).at].of
    OBVIOUS
  <2>1. Len(events) \in Nat /\ events \in Seq([at : Places, failed : BOOLEAN])
    BY QueueTypes DEF Inv, TypeOK
  <2>2. OnTransferEventReceived
    <3>1. CASE \E request \in SetupData : Control(request)
      <4>1. events' = events
        BY <3>1 DEF Control
      <4> QED
        BY <2>1, <4>1
    <3>2. ASSUME NEW e \in [at : Places, failed : BOOLEAN], events' = Append(events, e)
          PROVE  FALSE
      BY <2>1, <3>2, AppendProperties
    <3>3. (HcExecute \/ HcFail) => Head(queued) \in Places
      <4>1. queued \in Seq(Places)
        BY DEF Inv, TypeOK
      <4> QED
        BY <4>1, HeadTailProperties DEF HcExecute, HcFail
    <3>4. CASE HcExecute
      BY <2>1, <3>2, <3>3, <3>4 DEF HcExecute
    <3>5. CASE HcFail
      BY <3>2, <3>3, <3>5 DEF HcFail
    <3>6. CASE UNCHANGED vars
      BY <2>1, <3>6 DEF vars
    <3> QED
      BY <3>1, <3>4, <3>5, <3>6 DEF Next
  <2>3. events # <<>> /\ Head(events) = events[1]
    BY <2>1, <2>2, HeadTailProperties DEF OnTransferEventReceived
  <2>4. events[1].failed \in BOOLEAN
    <3>1. 1 \in 1..Len(events)
      BY <2>2, HandleEffect
    <3> QED
      BY <3>1, QueueTypes DEF Inv
  <2>5. /\ events[1].failed => delivered'.err = "TRANSFER_FAILED"
        /\ ~events[1].failed => /\ delivered'.err = "SUCCESS"
                                /\ delivered'.request = ring[events[1].at].of
    BY <2>2, HandleEffect
  <2> QED
    BY <2>3, <2>4, <2>5
<1> QED
  BY <1>1, InvHolds, PTL DEF Spec, RightCompletion

=============================================================================
