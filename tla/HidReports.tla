------------------------------ MODULE HidReports -------------------------------
(***************************************************************************)
(* The polling of a HID boot keyboard or mouse.  The controller writes a   *)
(* report into buf_ at any time while a Normal TRB is queued; the driver   *)
(* decodes buf_, remembers it in previous_buf_ and queues the next TRB.    *)
(* The driver's steps are separate, as the controller runs beside them.    *)
(*                                                                         *)
(* Of the 1024 bytes of each buffer the first in_packet_size_ are kept:    *)
(* no transfer reaches the others, which stay 0.                           *)
(***************************************************************************)
EXTENDS Integers, Sequences, FiniteSets, SequencesExt

CONSTANTS
  KeySlots,      \* keys in a keyboard report, 6 in the code
  Keys,          \* key codes
  Modifiers,     \* values of the modifier byte
  Motions,       \* displacement bytes of a mouse
  MaxReports     \* bound on the transfers

ASSUME HidAssumption ==
  /\ KeySlots \in Nat \ {0}
  /\ Keys \subseteq 4 .. 255
  /\ 0 \in Modifiers /\ Modifiers \subseteq 0 .. 255
  /\ Motions \subseteq 0 .. 255
  /\ MaxReports \in Nat

ErrorRollOver == 1   \* in every slot when too many keys are down

VARIABLES
  kind,          \* "keyboard" or "mouse"
  buf,           \* buf_
  previous_buf,  \* previous_buf_
  armed,         \* a Normal TRB is queued and its doorbell rung
  event,         \* the transfer event on the event ring, <<>> for none
  pc,            \* where the driver is: "idle", "decode", "copy" or "arm"
  len,           \* the length of the report being handled
  pushed,        \* keys given to NotifyKeyPush for this report
  position,      \* the mouse cursor
  transfers,     \* counts the transfers
  image,         \* buf_ as the last transfer left it, and as the one before did
  travel         \* what the mouse reported, while every report was full
vars == <<kind, buf, previous_buf, armed, event, pc, len, pushed, position, transfers, image,
          travel>>

in_packet_size == IF kind = "keyboard" THEN 2 + KeySlots ELSE 3
Bytes == 0 .. in_packet_size - 1

\* A report of a keyboard: the modifiers, a reserved byte and distinct keys.
KeyReport(r) ==
  /\ r[0] \in Modifiers /\ r[1] = 0
  /\ LET slots == 2 .. 1 + KeySlots
     IN  \/ \A i \in slots : r[i] = ErrorRollOver
         \/ /\ \A i \in slots : r[i] \in Keys \union {0}
            /\ \A i, j \in slots : i # j /\ r[i] = r[j] => r[i] = 0

Report ==
  IF kind = "keyboard"
  THEN {r \in [Bytes -> Modifiers \union Keys \union {0, ErrorRollOver}] : KeyReport(r)}
  ELSE {r \in [Bytes -> Motions \union {0}] : r[0] = 0}

\* What a displacement byte means: two's complement.
Moved(b) == ((b + 128) % 256) - 128

\* A byte as an int8_t.
Signed(b) == IF b >= 128 THEN b - 256 ELSE b

Displacement(r) == [x |-> Signed(r[1]), y |-> Signed(r[2])]

\* Vector2D::operator+=
Plus(v, w) == [x |-> v.x + w.x, y |-> v.y + w.y]
Origin == [x |-> 0, y |-> 0]

\* The driver after OnControlCompleted has queued the first TRB.
Init ==
  /\ kind \in {"keyboard", "mouse"}
  /\ buf = [i \in Bytes |-> 0]
  /\ previous_buf = buf
  /\ armed = TRUE
  /\ event = <<>>
  /\ pc = "idle"
  /\ len = 0
  /\ pushed = <<>>
  /\ position = Origin
  /\ transfers = 0
  /\ image = <<buf, buf>>
  /\ travel = [full |-> TRUE, sum |-> Origin]

driver == <<previous_buf, pc, len, pushed, position>>

\* The controller moves the first n bytes of report r to buf_ and posts its event
\* (interrupt_on_short_packet, interrupt_on_completion).
Transfer(r, n) ==
  /\ armed /\ transfers < MaxReports
  /\ armed' = FALSE
  /\ buf' = [i \in Bytes |-> IF i < n THEN r[i] ELSE buf[i]]
  /\ event' = <<[code |-> "success", residual |-> in_packet_size - n]>>
  /\ transfers' = transfers + 1
  /\ image' = <<buf', image[1]>>
  /\ travel' = IF kind = "mouse"
               THEN [full |-> travel.full /\ n = in_packet_size,
                     sum  |-> Plus(travel.sum, [x |-> Moved(r[1]), y |-> Moved(r[2])])]
               ELSE travel
  /\ UNCHANGED <<kind, driver>>

\* The transfer fails.
TransferFails ==
  /\ armed /\ transfers < MaxReports
  /\ armed' = FALSE
  /\ event' = <<[code |-> "error", residual |-> in_packet_size]>>
  /\ transfers' = transfers + 1
  /\ UNCHANGED <<kind, buf, driver, image, travel>>

\* Device::OnTransferEventReceived: an error ends the polling, as nothing queues
\* the next TRB.
OnTransferEventReceived ==
  /\ pc = "idle" /\ event # <<>>
  /\ event' = <<>>
  /\ IF event[1].code = "success"
     THEN pc' = "decode" /\ len' = in_packet_size - event[1].residual
     ELSE UNCHANGED <<pc, len>>
  /\ UNCHANGED <<kind, buf, previous_buf, armed, pushed, position, transfers, image, travel>>

\* A mutated IsNew: the slot decides, not the key.
IsNew_SameSlot(i) == buf[i] # 0 /\ previous_buf[i] # buf[i]

\* Is the key in byte i found nowhere in the previous buffer?
IsNew(i) == buf[i] # 0 /\ \A j \in Bytes : previous_buf[j] # buf[i]

\* HIDKeyboardDriver::OnDataReceived: the keys pushed in the first i turns of its
\* loop over the slots, which begin at byte 2.
PushedBy[i \in 0 .. KeySlots] ==
  IF i = 0 THEN <<>>
  ELSE IF IsNew(i + 1) THEN Append(PushedBy[i - 1], buf[i + 1])
  ELSE PushedBy[i - 1]

NewKeys == PushedBy[KeySlots]

\* A mutated OnDataReceived: the next TRB is queued before the report is remembered.
OnDataReceived_ArmsFirst ==
  /\ pc = "decode"
  /\ IF kind = "keyboard"
     THEN pushed' = NewKeys /\ UNCHANGED position
     ELSE position' = Plus(position, Displacement(buf)) /\ UNCHANGED pushed
  /\ pc' = "copy"
  /\ armed' = TRUE
  /\ UNCHANGED <<kind, buf, previous_buf, event, len, transfers, image, travel>>

\* OnDataReceived of the driver; NotifyMouseMove reaches mouse_observer, which moves
\* the cursor.
OnDataReceived ==
  /\ pc = "decode"
  /\ IF kind = "keyboard"
     THEN pushed' = NewKeys /\ UNCHANGED position
     ELSE position' = Plus(position, Displacement(buf)) /\ UNCHANGED pushed
  /\ pc' = "copy"
  /\ UNCHANGED <<kind, buf, previous_buf, armed, event, len, transfers, image, travel>>

\* A mutated Remembered: one byte less.
Remembered_OffByOne(i) == i < len - 1

\* The bytes std::copy_n(buf_.begin(), len, previous_buf_.begin()) copies.
Remembered(i) == i < len

CopyToPrevious ==
  /\ pc = "copy"
  /\ previous_buf' = [i \in Bytes |-> IF Remembered(i) THEN buf[i] ELSE previous_buf[i]]
  /\ pc' = "arm"
  /\ UNCHANGED <<kind, buf, armed, event, len, pushed, position, transfers, image, travel>>

\* InterruptIn queues the next TRB.
InterruptIn ==
  /\ pc = "arm"
  /\ armed' = TRUE
  /\ pc' = "idle"
  /\ pushed' = <<>>
  /\ UNCHANGED <<kind, buf, previous_buf, event, len, position, transfers, image, travel>>

OnInterruptCompleted == OnDataReceived \/ CopyToPrevious \/ InterruptIn

Driver == OnTransferEventReceived \/ OnInterruptCompleted

Next ==
  \/ \E r \in Report, n \in 0 .. in_packet_size : Transfer(r, n)
  \/ TransferFails
  \/ Driver

Spec == Init /\ [][Next]_vars

--------------------------------------------------------------------------------
\* The key codes in the slots of a buffer.
KeysIn(b) == {b[i] : i \in 2 .. 1 + KeySlots} \ {0}

\* A key that stays down is pushed once: what is pushed was in no slot of the report
\* before, wherever it stood there (keyboard.cpp:24), and a short report does not
\* bring back keys of an older one (hid.cpp:74).
HeldNotRepeated ==
  pc = "copy" /\ kind = "keyboard" =>
    /\ ToSet(pushed) \intersect KeysIn(image[2]) = {}
    /\ ToSet(pushed) \subseteq {buf[i] : i \in 2 .. len - 1}

\* No key press is lost: a key of this report that was not in the last one is pushed,
\* once, unless the last modifier byte had the same value, which the search also
\* looks at (keyboard.cpp:24), or the report is one of too many keys.
PushNotLost ==
  pc = "copy" /\ kind = "keyboard" =>
    /\ (KeysIn(image[1]) \ KeysIn(image[2])) \ {image[2][0]} \subseteq ToSet(pushed)
    /\ ErrorRollOver \notin KeysIn(image[1]) => IsInjective(pushed)

\* The cursor is where the mouse's reports put it, as long as no report was short;
\* a short one would be decoded with bytes of an older one (mouse.cpp:18, hid.cpp:74).
CursorFollows ==
  pc = "idle" /\ event = <<>> /\ travel.full => position = travel.sum

\* A report is never overwritten before it is decoded and remembered: while a TRB is
\* queued or unanswered the driver holds what the last report was (hid.cpp:73-75).
PreviousKept == pc = "idle" /\ armed => previous_buf = buf /\ buf = image[1]
================================================================================
