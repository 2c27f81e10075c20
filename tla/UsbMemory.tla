------------------------------- MODULE UsbMemory -------------------------------
(***************************************************************************)
(* The memory pool of the USB driver (usb/memory.cpp): AllocMem moves one  *)
(* pointer upwards, FreeMem does nothing.                                  *)
(*                                                                         *)
(* blocks records every block handed out; the code keeps no such record.   *)
(***************************************************************************)
EXTENDS PoolAlloc

VARIABLES
  start,      \* the address of memory_pool
  alloc_ptr,
  blocks
vars == <<start, alloc_ptr, blocks>>

PoolEnd == start + PoolSize

Block == [p : start .. PoolEnd, r : Request]

Init ==
  /\ start \in Starts
  /\ alloc_ptr = start
  /\ blocks = {}

Alloc(r) ==
  LET m == AllocMem(alloc_ptr, PoolEnd, r)
  IN  /\ alloc_ptr' = m.alloc_ptr
      /\ blocks' = IF m.p = Null THEN blocks ELSE blocks \cup {[p |-> m.p, r |-> r]}
      /\ UNCHANGED start

FreeMem(b) == UNCHANGED vars

Next ==
  \/ \E r \in Request : Alloc(r)
  \/ \E b \in blocks : FreeMem(b)

Spec == Init /\ [][Next]_vars

--------------------------------------------------------------------------------
\* Every block lies in the pool and below alloc_ptr (memory.cpp:40-47).
TypeOK ==
  /\ start \in Starts
  /\ alloc_ptr \in Nat /\ alloc_ptr >= start
  /\ blocks \subseteq Block
  /\ \A b \in blocks : b.p + b.r.size <= PoolEnd /\ b.p + b.r.size <= alloc_ptr

\* No byte is handed out twice, whatever is asked for, refused or freed between
\* (alloc_ptr only ever moves up over what it has handed out).
NoOverlap ==
  \A b, c \in blocks : b = c \/ b.p + b.r.size <= c.p \/ c.p + c.r.size <= b.p

\* The promise of memory.hpp:18-20: a block is aligned, and one that is not larger
\* than its boundary does not cross it.
Placed ==
  \A b \in blocks :
    /\ MultipleOf(b.p, b.r.alignment)
    /\ b.r.boundary > 0 /\ b.r.size <= b.r.boundary => ~Crosses(b.p, b.r.size, b.r.boundary)

\* Moving up to the boundary only when needed loses nothing: whatever was refused
\* before, the next AllocMem returns the first suitable address at or above
\* alloc_ptr, and refuses only if the pool has none left (memory.cpp:27-44).
FirstFit ==
  \A r \in Request :
    LET m      == AllocMem(alloc_ptr, PoolEnd, r)
        places == {q \in alloc_ptr .. PoolEnd - r.size : Suitable(q, r)}
    IN  IF places = {} THEN m.p = Null
                       ELSE m.p \in places /\ \A q \in places : m.p <= q
================================================================================
