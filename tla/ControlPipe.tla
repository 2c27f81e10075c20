----------------------------- MODULE ControlPipe -----------------------------
(***************************************************************************)
(* The default control pipe of a device: ControlIn and ControlOut of       *)
(* kernel/usb/xhci/device.cpp push the stages of a request, and            *)
(* OnTransferEventReceived finds out which request an event completes.     *)
(*                                                                         *)
(* The event names one TRB by its place in the ring, so the driver keeps a *)
(* map from the place of the TRB that will interrupt to the place of the   *)
(* setup stage (setup_stage_map_), and one from the setup data to the      *)
(* class driver that waits (event_waiters_).  Both are arrays of fixed     *)
(* size whose Put does nothing when they are full, places in the ring are  *)
(* used again, and an entry is deleted only when its transfer succeeded.   *)
(*                                                                         *)
(* The ring is the sequence TrbRing shows it to be; its link TRB does not  *)
(* appear.  Transfers on interrupt endpoints do not touch either map; they *)
(* are part of XhciDriver.                                                 *)
(***************************************************************************)
EXTENDS Integers, Sequences, FiniteSets, FiniteSetsExt, SequencesExt

CONSTANTS
    BufSize,      \* entries of the transfer ring, the link TRB included
    MapSize,      \* entries of setup_stage_map_
    WaiterSize,   \* entries of event_waiters_
    None          \* an empty optional, a null pointer

ASSUME BufSizeAssumption == BufSize \in Nat /\ BufSize >= 5
ASSUME MapSizeAssumption == MapSize \in Nat /\ MapSize >= 2
ASSUME WaiterSizeAssumption == WaiterSize \in Nat \ {0}

VARIABLES
    ring,             \* what the entries of the ring hold
    write_index,
    setup_stage_map,  \* setup_stage_map_.table_
    event_waiters,    \* event_waiters_.table_
    queued,           \* places of the TRBs the controller has not executed
    halted,           \* a transfer has failed and halted the endpoint
    events,           \* transfer events not handled
    delivered         \* what the last event handled was taken for

vars == <<ring, write_index, setup_stage_map, event_waiters, queued, halted,
          events, delivered>>

-----------------------------------------------------------------------------
Places == 0..(BufSize - 2)

(* The requests the kernel makes: the setup data stands for the request.   *)
SetupData == {"GetDescriptor", "SetConfiguration", "SetProtocol"}

ASSUME NoneAssumption == None \notin Nat \cup SetupData \cup {"HIDBaseDriver"}

HasDataStage(request) == request = "GetDescriptor"

(* The class driver named as issuer; usb::Device itself names none.        *)
Issuer(request) == IF request = "SetProtocol" THEN "HIDBaseDriver" ELSE None

(* A TRB of a request; ioc is interrupt_on_completion.                     *)
Trb == [type : {"Setup", "Data", "Status", "Cleared"}, of : SetupData \cup {None},
        ioc : BOOLEAN]

MakeTrb(type, request, ioc) == [type |-> type, of |-> request, ioc |-> ioc]

(* The TRBs of a request, in order.  The data stage interrupts if there is *)
(* one, else the status stage.                                             *)
Stages(request) ==
    IF HasDataStage(request)
    THEN <<MakeTrb("Setup", request, FALSE), MakeTrb("Data", request, TRUE),
           MakeTrb("Status", request, FALSE)>>
    ELSE <<MakeTrb("Setup", request, FALSE), MakeTrb("Status", request, TRUE)>>

(* An outcome of OnTransferEventReceived: an error code, or the request    *)
(* and the class driver that OnControlCompleted is called for.             *)
Outcome == [err : {"SUCCESS", "TRANSFER_FAILED", "NO_CORRESPONDING_SETUP_STAGE"},
            request : SetupData \cup {None}, waiter : {"HIDBaseDriver", None}]

-----------------------------------------------------------------------------
(* usb::ArrayMap: a table of pairs, each with an optional key.             *)
EmptyMap(n) == [i \in 1..n |-> [key |-> None, value |-> None]]

Holding(table, k) == {i \in DOMAIN table : table[i].key = k}

(* The value of the first entry with the key.                              *)
Get(table, k) ==
    IF Holding(table, k) = {} THEN None ELSE table[Min(Holding(table, k))].value

(* The first free entry is used; without one nothing happens.              *)
Put(table, k, v) ==
    IF Holding(table, None) = {} THEN table
    ELSE [table EXCEPT ![Min(Holding(table, None))] = [key |-> k, value |-> v]]

(* Mutant of Delete: the entry stays.                                      *)
Delete_Nothing(table, k) == table

(* The first entry with the key loses it and keeps its value.              *)
Delete(table, k) ==
    IF Holding(table, k) = {} THEN table
    ELSE [table EXCEPT ![Min(Holding(table, k))].key = None]

-----------------------------------------------------------------------------
Init ==
    /\ ring = [p \in Places |-> MakeTrb("Cleared", None, FALSE)]
    /\ write_index = 0
    /\ setup_stage_map = EmptyMap(MapSize)
    /\ event_waiters = EmptyMap(WaiterSize)
    /\ queued = <<>>
    /\ halted = FALSE
    /\ events = <<>>
    /\ delivered = [err |-> "SUCCESS", request |-> None, waiter |-> None]

(* The place k pushes after the next one.                                  *)
PlaceAt(k) == (write_index + k) % (BufSize - 1)

(* Requests whose event is not handled: an event posted, or one to come.   *)
Outstanding ==
    Len(events) + Cardinality({i \in 1..Len(queued) : ring[queued[i]].ioc})

(* Places of the TRBs that are not handled or not executed, oldest first.  *)
InUse == [i \in 1..Len(events) |-> events[i].at] \o queued

(* How far the ring is filled.  The setup stage stays in use until the     *)
(* event of the stage behind it is handled.                                *)
Used ==
    IF InUse = <<>> THEN 0
    ELSE ((write_index - Head(InUse)) % (BufSize - 1))
           + (IF ring[Head(InUse)].type = "Setup" THEN 0 ELSE 1)

(* What XhciDriver guarantees (RequestMatchesPhase), as a bound on both    *)
(* resources: one request during initialisation and then at most one for   *)
(* each of the 15 endpoint numbers, that is 30 TRBs, fit in a ring of 32   *)
(* entries, 30 of which can be in use (see TrbRing), and in a map of 16.   *)
MayPush(n) == Used + n <= BufSize - 2 /\ Outstanding < MapSize

(* Mutant of Remembered: the last TRB of a request is remembered, whether  *)
(* it interrupts or not.                                                   *)
Remembered_Last(request) == Len(Stages(request)) - 1

(* Which of its TRBs a request is remembered by: the one that interrupts.  *)
Remembered(request) == 1

(* usb::Device::ControlIn and ControlOut.                                  *)
Waiting(request) ==
    IF Issuer(request) = None THEN event_waiters
    ELSE Put(event_waiters, request, Issuer(request))

(* Device::ControlIn for a request with a data stage, which are the ones   *)
(* that read, and ControlOut for one without.                              *)
Control(request) ==
    LET stages == Stages(request) IN
    /\ MayPush(Len(stages))
    /\ event_waiters' = Waiting(request)
    /\ ring' = [p \in Places |->
                  LET k == (p - write_index) % (BufSize - 1)
                  IN  IF k < Len(stages) THEN stages[k + 1] ELSE ring[p]]
    /\ write_index' = PlaceAt(Len(stages))
    /\ setup_stage_map' = Put(setup_stage_map, PlaceAt(Remembered(request)), PlaceAt(0))
    /\ queued' = queued \o [k \in 1..Len(stages) |-> PlaceAt(k - 1)]
    /\ UNCHANGED <<halted, events, delivered>>

(* Device::OnTransferEventReceived for the control endpoint, up to the     *)
(* call of OnControlCompleted and its search for the waiter.               *)
OnTransferEventReceived ==
    /\ events # <<>>
    /\ LET e == Head(events)
           setup == Get(setup_stage_map, e.at)
       IN  IF e.failed
           THEN /\ delivered' = [err |-> "TRANSFER_FAILED", request |-> None, waiter |-> None]
                /\ UNCHANGED setup_stage_map
           ELSE IF setup = None
           THEN /\ delivered' = [err |-> "NO_CORRESPONDING_SETUP_STAGE",
                                 request |-> None, waiter |-> None]
                /\ UNCHANGED setup_stage_map
           ELSE /\ delivered' = [err |-> "SUCCESS", request |-> ring[setup].of,
                                 waiter |-> Get(event_waiters, ring[setup].of)]
                /\ setup_stage_map' = Delete(setup_stage_map, e.at)
    /\ events' = Tail(events)
    /\ UNCHANGED <<ring, write_index, event_waiters, queued, halted>>

-----------------------------------------------------------------------------
(* The controller (external).  It executes the TRBs in order and posts an  *)
(* event for those that ask for one.  One that fails always has its event, *)
(* and halts the endpoint, which nothing starts again.                     *)
HcExecute ==
    /\ ~halted
    /\ queued # <<>>
    /\ queued' = Tail(queued)
    /\ events' = IF ring[Head(queued)].ioc
                 THEN Append(events, [at |-> Head(queued), failed |-> FALSE])
                 ELSE events
    /\ UNCHANGED <<ring, write_index, setup_stage_map, event_waiters, halted, delivered>>

HcFail ==
    /\ ~halted
    /\ queued # <<>>
    /\ halted' = TRUE
    /\ events' = Append(events, [at |-> Head(queued), failed |-> TRUE])
    /\ UNCHANGED <<ring, write_index, setup_stage_map, event_waiters, queued, delivered>>

Next ==
    \/ \E request \in SetupData : Control(request)
    \/ OnTransferEventReceived
    \/ HcExecute
    \/ HcFail

Spec == Init /\ [][Next]_vars

-----------------------------------------------------------------------------
(* Type invariant of the pipe and its two maps.                            *)
TypeOK ==
    /\ ring \in [Places -> Trb]
    /\ write_index \in Places
    /\ setup_stage_map \in
         [1..MapSize -> [key : Places \cup {None}, value : Places \cup {None}]]
    /\ event_waiters \in
         [1..WaiterSize -> [key : SetupData \cup {None}, value : {"HIDBaseDriver", None}]]
    /\ queued \in Seq(Places)
    /\ halted \in BOOLEAN
    /\ events \in Seq([at : Places, failed : BOOLEAN])
    /\ delivered \in Outcome

(* Places whose event is posted and not handled, or still to come.         *)
Due ==
    {events[i].at : i \in {j \in 1..Len(events) : ~events[j].failed}}
      \cup {queued[i] : i \in {j \in 1..Len(queued) : ring[queued[j]].ioc}}

(* Whenever an event for a TRB is due, setup_stage_map_ leads from its     *)
(* place to a setup stage of the same request, which has not been          *)
(* overwritten: no Put was dropped, no entry of an earlier request for the *)
(* same place is found first, also after a failed transfer left its entry  *)
(* behind and after the ring has come round.                               *)
SetupFound ==
    \A p \in Due :
      LET q == Get(setup_stage_map, p) IN
      q # None /\ ring[q].type = "Setup" /\ ring[q].of = ring[p].of

(* The completion of a class driver's request finds that driver in         *)
(* event_waiters_, although nothing is ever deleted there and the same     *)
(* request may have been put down more often than there are entries.       *)
WaiterFound ==
    /\ \A p \in Due : Get(event_waiters, ring[p].of) = Issuer(ring[p].of)
    /\ delivered.err = "SUCCESS" /\ delivered.request # None =>
         delivered.waiter = Issuer(delivered.request)

(* Both maps always lead a completion home, to its setup stage and to the  *)
(* class driver that waits for it.                                         *)
RequestsRemembered == TypeOK /\ SetupFound /\ WaiterFound

(* An event is handled as the completion of the very request whose TRB it  *)
(* names, or as a failure if it is one, and never as an unknown one.       *)
RightCompletion ==
    [][Len(events') < Len(events) =>
         IF Head(events).failed THEN delivered'.err = "TRANSFER_FAILED"
         ELSE /\ delivered'.err = "SUCCESS"
              /\ delivered'.request = ring[Head(events).at].of]_vars
=============================================================================
