------------------------------- MODULE TrbRing -------------------------------
(***************************************************************************)
(* The ring of kernel/usb/xhci/ring.cpp that carries TRBs from the driver  *)
(* to the controller: the command ring and every transfer ring.            *)
(*                                                                         *)
(* Ring::Push and the controller access the buffer concurrently, so Push   *)
(* is modelled at the order of its stores: the first three words of a TRB, *)
(* then the fourth, which holds the cycle bit; then, at the end of the     *)
(* buffer, the same two stores for the link TRB.  The last entry of the    *)
(* buffer is the link TRB; the others carry payload.                       *)
(*                                                                         *)
(* Ring::Push does not know how far the controller is.  That no more than  *)
(* MaxOutstanding TRBs are in use is up to its callers: XhciDriver states  *)
(* it for the command ring (CommandRingBound), the control ring            *)
(* (RequestMatchesPhase) and the interrupt ring (PollOnce).                *)
(***************************************************************************)
EXTENDS Integers, Sequences

CONSTANTS
    BufSize,         \* entries of the buffer, the link TRB included
    MaxOutstanding,  \* TRBs pushed and not handled that a caller allows
    Payload,         \* contents of the first three words of a TRB
    Cleared,         \* what memset leaves there
    LinkTarget       \* a pointer to the beginning of the buffer

ASSUME BufSizeAssumption == BufSize \in Nat /\ BufSize >= 2

(* One less than there are payload entries.  The controller may still stand*)
(* before the link TRB of the last lap, with nothing pending; were a whole *)
(* lap pushed now, Push would store the link TRB again, with the other     *)
(* cycle bit, and the controller would never get past it.                  *)
ASSUME MaxOutstandingAssumption == MaxOutstanding \in Nat /\ MaxOutstanding <= BufSize - 2
ASSUME PayloadAssumption == Cleared \notin Payload /\ LinkTarget \notin Payload

VARIABLES
    buf,          \* the TRBs: words 0 to 2, and cycle and type of word 3
    write_index,
    cycle_bit,
    pc,           \* the store Push makes next
    deq,          \* the controller's dequeue pointer, as an index
    ccs,          \* the controller's consumer cycle state
    completions   \* entries executed whose completion is not handled

vars == <<buf, write_index, cycle_bit, pc, deq, ccs, completions>>

LinkIndex == BufSize - 1

Trb == [data : Payload \cup {Cleared, LinkTarget}, link : BOOLEAN, cycle : 0..1]

(* How many TRBs are pushed and not executed.  The controller is in the    *)
(* producer's lap if the two cycle bits agree, else in the one before.     *)
Pending ==
    IF ccs = cycle_bit THEN write_index - deq ELSE LinkIndex - deq + write_index

(* The entry k steps on from entry 0, not counting link TRBs.              *)
EntryAt(k) == IF k < LinkIndex THEN k ELSE k - LinkIndex

(* Ring::Initialize; the controller starts at the beginning of the buffer  *)
(* with dequeue_cycle_state 1.                                             *)
Init ==
    /\ buf = [i \in 0..LinkIndex |-> [data |-> Cleared, link |-> FALSE, cycle |-> 0]]
    /\ write_index = 0
    /\ cycle_bit = 1
    /\ pc = "idle"
    /\ deq = 0
    /\ ccs = 1
    /\ completions = <<>>

-----------------------------------------------------------------------------
(* The two stores of Ring::CopyToLast.                                     *)
StoreData(x) == buf' = [buf EXCEPT ![write_index].data = x]

StoreControl(link) ==
    buf' = [buf EXCEPT ![write_index].link = link, ![write_index].cycle = cycle_bit]

(* Mutant of PushData: the word with the cycle bit is stored first.        *)
PushData_ControlFirst(x) ==
    /\ pc = "idle"
    /\ Pending + Len(completions) < MaxOutstanding
    /\ StoreControl(FALSE)
    /\ pc' = "control"
    /\ UNCHANGED <<write_index, cycle_bit, deq, ccs, completions>>

(* Mutant of PushData: called however full the ring is.                    *)
PushData_NoBound(x) ==
    /\ pc = "idle"
    /\ StoreData(x)
    /\ pc' = "control"
    /\ UNCHANGED <<write_index, cycle_bit, deq, ccs, completions>>

(* Ring::Push, called by the driver with a TRB.                            *)
PushData(x) ==
    /\ pc = "idle"
    /\ Pending + Len(completions) < MaxOutstanding
    /\ StoreData(x)
    /\ pc' = "control"
    /\ UNCHANGED <<write_index, cycle_bit, deq, ccs, completions>>

(* The fourth word; from here on the controller may take the TRB.          *)
PushControl ==
    /\ pc = "control"
    /\ StoreControl(FALSE)
    /\ write_index' = write_index + 1
    /\ pc' = IF write_index + 1 = BufSize - 1 THEN "link_data" ELSE "idle"
    /\ UNCHANGED <<cycle_bit, deq, ccs, completions>>

PushLinkData ==
    /\ pc = "link_data"
    /\ StoreData(LinkTarget)
    /\ pc' = "link_control"
    /\ UNCHANGED <<write_index, cycle_bit, deq, ccs, completions>>

(* Mutant of PushLinkControl: the cycle bit is not inverted at the wrap.   *)
PushLinkControl_NoToggle ==
    /\ pc = "link_control"
    /\ StoreControl(TRUE)
    /\ write_index' = 0
    /\ pc' = "idle"
    /\ UNCHANGED <<cycle_bit, deq, ccs, completions>>

PushLinkControl ==
    /\ pc = "link_control"
    /\ StoreControl(TRUE)
    /\ write_index' = 0
    /\ cycle_bit' = 1 - cycle_bit
    /\ pc' = "idle"
    /\ UNCHANGED <<deq, ccs, completions>>

-----------------------------------------------------------------------------
(* The controller (external).                                              *)

(* Takes the TRB at its dequeue pointer if it owns it, executes it and     *)
(* posts an event that points at it.                                       *)
Fetch ==
    /\ buf[deq].cycle = ccs
    /\ ~buf[deq].link
    /\ completions' = Append(completions, deq)
    /\ deq' = deq + 1
    /\ UNCHANGED <<buf, write_index, cycle_bit, pc, ccs>>

(* A link TRB with toggle_cycle set.                                       *)
FollowLink ==
    /\ buf[deq].cycle = ccs
    /\ buf[deq].link
    /\ buf[deq].data = LinkTarget
    /\ deq' = 0
    /\ ccs' = 1 - ccs
    /\ UNCHANGED <<buf, write_index, cycle_bit, pc, completions>>

(* The driver handles the oldest completion event, for which it reads the  *)
(* TRB the event points at.  It is not inside Push then.                   *)
HandleCompletion ==
    /\ pc = "idle"
    /\ completions # <<>>
    /\ completions' = Tail(completions)
    /\ UNCHANGED <<buf, write_index, cycle_bit, pc, deq, ccs>>

(* ProcessEvent with no completion to handle.                              *)
PollIdle ==
    /\ pc = "idle"
    /\ completions = <<>>
    /\ UNCHANGED vars

PushStep == PushControl \/ PushLinkData \/ PushLinkControl

Next ==
    \/ \E x \in Payload : PushData(x)
    \/ PushStep
    \/ Fetch
    \/ FollowLink
    \/ HandleCompletion
    \/ PollIdle

Spec == Init /\ [][Next]_vars

(* Push runs to its end, the controller consumes what it owns, and the     *)
(* kernel keeps polling the event ring.  Nobody has to push anything.      *)
FairSpec ==
    /\ Spec
    /\ WF_vars(PushStep)
    /\ WF_vars(Fetch \/ FollowLink)
    /\ WF_vars(HandleCompletion)

-----------------------------------------------------------------------------
(* Type invariant of the ring and of the controller's view of it.          *)
TypeOK ==
    /\ buf \in [0..LinkIndex -> Trb]
    /\ write_index \in 0..LinkIndex
    /\ cycle_bit \in 0..1
    /\ pc \in {"idle", "control", "link_data", "link_control"}
    /\ deq \in 0..LinkIndex
    /\ ccs \in 0..1
    /\ completions \in Seq(0..LinkIndex)

(* The cycle bits say exactly which entries belong to the controller: of   *)
(* the payload entries those before write_index carry cycle_bit and the    *)
(* others its inverse, and so does the link TRB, which is stored last.     *)
(* The controller is never more than one lap behind, is not ahead of the   *)
(* producer, and finds at the end of the buffer a link TRB it may follow.  *)
(* The first words of a TRB are in place before its cycle bit is.          *)
CycleInv ==
    /\ \A i \in 0..(LinkIndex - 1) :
         /\ ~buf[i].link
         /\ buf[i].cycle = IF i < write_index THEN cycle_bit ELSE 1 - cycle_bit
    /\ buf[LinkIndex].cycle = 1 - cycle_bit
    /\ write_index = LinkIndex <=> pc \in {"link_data", "link_control"}
    /\ Pending >= 0
    /\ ccs # cycle_bit => buf[LinkIndex].link /\ buf[LinkIndex].data = LinkTarget
    /\ pc = "control" => buf[write_index].data \in Payload
    /\ pc = "link_control" => buf[LinkIndex].data = LinkTarget

(* Completions point at the entries just behind the controller, oldest     *)
(* first, and there is room for the TRB being pushed: together with what   *)
(* is pending they never reach round to the entry Push writes.             *)
WindowInv ==
    /\ \A i \in 1..Len(completions) :
         completions[i] = LET k == deq - 1 - Len(completions) + i
                          IN  IF k < 0 THEN k + LinkIndex ELSE k
    /\ Pending + Len(completions) <= MaxOutstanding
    /\ pc = "control" => Pending + Len(completions) < MaxOutstanding

(* All of this holds at every step of Push and of the controller: the ring *)
(* is well formed also between the stores of a TRB and of the link TRB.    *)
RingInv == TypeOK /\ CycleInv /\ WindowInv

-----------------------------------------------------------------------------
(* What the TRBs hold that are pending, and those executed and not handled.*)
PendingData == [i \in 1..Pending |-> buf[EntryAt(deq + i - 1)].data]
CompletedData == [i \in 1..Len(completions) |-> buf[completions[i]].data]

(* The ring is a queue: what is pending is what the entries from the       *)
(* controller's position on hold, and what a completion event points at is *)
(* the TRB that was executed.  So no TRB is executed half-written, twice,  *)
(* out of order or not at all, also across the wrap, and the command type  *)
(* that OnEvent reads through the event's pointer is the right one.        *)
Fifo == INSTANCE TrbFifo WITH
          Capacity <- MaxOutstanding, queue <- PendingData, done <- CompletedData

ImplementsFifo == Fifo!Spec

(* Every TRB pushed is eventually executed and its completion handled: the *)
(* controller never stops at the wrap.                                     *)
NothingStuck == Fifo!Fairness
=============================================================================
