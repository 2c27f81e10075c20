------------------------------ MODULE EventRing ------------------------------
(***************************************************************************)
(* The event ring of kernel/usb/xhci/ring.cpp: the controller writes event *)
(* TRBs, the driver polls for them (HasFront), handles the front one in    *)
(* place and then gives the entry back (Pop).                              *)
(*                                                                         *)
(* There is no link TRB: the segment table gives the size of the buffer,   *)
(* and both sides invert their cycle state when they wrap.  The controller *)
(* stops before the entry in ERDP, so that one entry always stays free.    *)
(***************************************************************************)
EXTENDS Integers, Sequences

CONSTANTS
    RingSegmentSize,  \* entries of the only segment
    Payload,          \* contents of an event TRB
    Cleared           \* what memset leaves in the buffer

ASSUME RingSegmentSizeAssumption == RingSegmentSize \in Nat /\ RingSegmentSize >= 2
ASSUME PayloadAssumption == Cleared \notin Payload

VARIABLES
    buf,        \* the TRBs: what they say, and their cycle bit
    cycle_bit,  \* EventRing::cycle_bit_
    erdp,       \* the dequeue pointer register, as an index
    handling,   \* ProcessEvent is between HasFront and Pop
    half,       \* the controller has written an event but for its cycle bit
    enq,        \* the controller's enqueue pointer, as an index
    pcs         \* the controller's producer cycle state

vars == <<buf, cycle_bit, erdp, handling, half, enq, pcs>>

Indices == 0..(RingSegmentSize - 1)

Trb == [data : Payload \cup {Cleared}, cycle : 0..1]

(* EventRing::Initialize; the controller starts at the segment's beginning *)
(* with producer cycle state 1.                                            *)
Init ==
    /\ buf = [i \in Indices |-> [data |-> Cleared, cycle |-> 0]]
    /\ cycle_bit = 1
    /\ erdp = 0
    /\ handling = FALSE
    /\ half = FALSE
    /\ enq = 0
    /\ pcs = 1

(* The entry after i, and the cycle state of one who moves on from i.      *)
NextIndex(i) == IF i + 1 = RingSegmentSize THEN 0 ELSE i + 1
NextCycle(i, cycle) == IF i + 1 = RingSegmentSize THEN 1 - cycle ELSE cycle

-----------------------------------------------------------------------------
(* Mutant of HasFront: any cycle bit will do.                              *)
HasFront_IgnoresCycle == buf[erdp].data # Cleared

HasFront == buf[erdp].cycle = cycle_bit

(* ProcessEvent finds an event at the front and starts its handler, which  *)
(* reads the TRB in the ring.                                              *)
TakeFront ==
    /\ ~handling
    /\ HasFront
    /\ handling' = TRUE
    /\ UNCHANGED <<buf, cycle_bit, erdp, half, enq, pcs>>

(* ProcessEvent without an event at the front.                             *)
PollIdle ==
    /\ ~handling
    /\ ~HasFront
    /\ UNCHANGED vars

(* Mutant of Pop: the cycle bit is not inverted.                           *)
Pop_NoToggle ==
    /\ handling
    /\ erdp' = NextIndex(erdp)
    /\ handling' = FALSE
    /\ UNCHANGED <<buf, cycle_bit, half, enq, pcs>>

(* EventRing::Pop, with WriteDequeuePointer, at the end of ProcessEvent.   *)
Pop ==
    /\ handling
    /\ cycle_bit' = NextCycle(erdp, cycle_bit)
    /\ erdp' = NextIndex(erdp)
    /\ handling' = FALSE
    /\ UNCHANGED <<buf, half, enq, pcs>>

-----------------------------------------------------------------------------
(* The controller (external): an event is written if that leaves an entry  *)
(* free, first what it says and then the word with the cycle bit.          *)
HcWriteData(x) ==
    /\ ~half
    /\ NextIndex(enq) # erdp
    /\ buf' = [buf EXCEPT ![enq].data = x]
    /\ half' = TRUE
    /\ UNCHANGED <<cycle_bit, erdp, handling, enq, pcs>>

HcWriteControl ==
    /\ half
    /\ buf' = [buf EXCEPT ![enq].cycle = pcs]
    /\ pcs' = NextCycle(enq, pcs)
    /\ enq' = NextIndex(enq)
    /\ half' = FALSE
    /\ UNCHANGED <<cycle_bit, erdp, handling>>

Next ==
    \/ TakeFront
    \/ Pop
    \/ PollIdle
    \/ \E x \in Payload : HcWriteData(x)
    \/ HcWriteControl

Spec == Init /\ [][Next]_vars

(* The kernel polls without end.                                           *)
FairSpec == Spec /\ WF_vars(TakeFront) /\ WF_vars(Pop)

-----------------------------------------------------------------------------
(* Type invariant of the ring and its registers.                           *)
TypeOK ==
    /\ buf \in [Indices -> Trb]
    /\ cycle_bit \in 0..1
    /\ erdp \in Indices
    /\ handling \in BOOLEAN
    /\ half \in BOOLEAN
    /\ enq \in Indices
    /\ pcs \in 0..1

(* Events written and not popped.                                          *)
Count == IF erdp <= enq THEN enq - erdp ELSE enq + RingSegmentSize - erdp

(* The cycle bits divide the buffer: entries before enq carry the          *)
(* controller's cycle state and the others its inverse; the driver's cycle *)
(* bit differs from the controller's exactly while the events to be read   *)
(* go round the end of the buffer.  So HasFront is true for the events     *)
(* written and not popped and never for a stale one, an entry being        *)
(* handled is one of the former, and one being written is neither.         *)
CycleInv ==
    /\ \A i \in Indices : buf[i].cycle = IF i < enq THEN pcs ELSE 1 - pcs
    /\ cycle_bit = pcs <=> erdp <= enq
    /\ handling => Count > 0
    /\ half => NextIndex(enq) # erdp /\ buf[enq].data \in Payload

(* The ring is well formed at every step of either side, also while an     *)
(* event is half written or being handled.                                 *)
RingInv == TypeOK /\ CycleInv

(* The entry k steps on from entry 0.                                      *)
EntryAt(k) == IF k < RingSegmentSize THEN k ELSE k - RingSegmentSize

Handled == IF handling THEN 1 ELSE 0

(* What the events hold that wait to be handled, and the one in hand.      *)
Waiting == [i \in 1..(Count - Handled) |-> buf[EntryAt(erdp + Handled + i - 1)].data]
InHand == [i \in 1..Handled |-> buf[erdp].data]

(* The event ring is a queue: the driver handles the events in the order   *)
(* they were written, each once, and the event being handled is not        *)
(* overwritten before Pop, however many follow it.                         *)
Fifo == INSTANCE TrbFifo WITH
          Capacity <- RingSegmentSize - 1, queue <- Waiting, done <- InHand

ImplementsFifo == Fifo!Spec

(* Every event is eventually handled.                                      *)
NothingStuck == Fifo!Fairness
=============================================================================
