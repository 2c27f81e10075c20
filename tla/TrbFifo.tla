------------------------------- MODULE TrbFifo -------------------------------
(***************************************************************************)
(* What a TRB ring promises: a bounded queue between one producer and one  *)
(* consumer.  A TRB is put, executed in the order it was put, and then     *)
(* stays readable until its executor has been told that it is handled.     *)
(* Nothing is lost, duplicated, reordered or altered on the way.           *)
(***************************************************************************)
EXTENDS Naturals, Sequences

CONSTANTS Payload,    \* contents of a TRB
          Capacity    \* TRBs put and not yet handled, at most

VARIABLES queue,      \* put and not yet executed
          done        \* executed and not yet handled

vars == <<queue, done>>

Init == queue = <<>> /\ done = <<>>

Put(x) ==
    /\ Len(queue) + Len(done) < Capacity
    /\ queue' = Append(queue, x)
    /\ UNCHANGED done

Execute ==
    /\ queue # <<>>
    /\ done' = Append(done, Head(queue))
    /\ queue' = Tail(queue)

Handle ==
    /\ done # <<>>
    /\ done' = Tail(done)
    /\ UNCHANGED queue

Next == (\E x \in Payload : Put(x)) \/ Execute \/ Handle

Spec == Init /\ [][Next]_vars

(* Whatever was put is executed, and whatever was executed is handled.     *)
Fairness == WF_vars(Execute) /\ WF_vars(Handle)
=============================================================================
