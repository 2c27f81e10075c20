------------------------------- MODULE PoolAlloc -------------------------------
(***************************************************************************)
(* usb::AllocMem (usb/memory.cpp) as a function of the allocation pointer, *)
(* and the pool it works on.                                               *)
(*                                                                         *)
(* A request is a record of the three arguments.  Alignments and           *)
(* boundaries are powers of two wherever the driver calls AllocMem, so     *)
(* that masking out the low bits is rounding down.  Addresses are far      *)
(* below 2^64 and never overflow.                                          *)
(***************************************************************************)
EXTENDS Integers

CONSTANTS
  PoolSize,    \* kMemoryPoolSize
  Starts,      \* where the linker may put memory_pool
  Sizes,       \* the sizes asked for
  Granularity  \* the alignments and boundaries asked for, 0 for none

\* Of two granularities one divides the other, as they are powers of two.
ASSUME PoolAssumption ==
  /\ PoolSize \in Nat
  /\ Starts \subseteq Nat \ {0}
  /\ Sizes \subseteq Nat \ {0}
  /\ Granularity \subseteq Nat
  /\ \A a, b \in Granularity \ {0} :
       (\E k \in 1 .. b : b = k * a) \/ (\E k \in 1 .. a : a = k * b)

Request == [size : Sizes, alignment : Granularity, boundary : Granularity]

Null == 0

\* Rounds value up to the next multiple of alignment.
Ceil(value, alignment) == ((value + alignment - 1) \div alignment) * alignment

\* Where alloc_ptr stands once alignment and boundary are respected.
Aligned(ptr, r) ==
  LET p == IF r.alignment > 0 THEN Ceil(ptr, r.alignment) ELSE ptr
  IN  IF r.boundary > 0 /\ Ceil(p, r.boundary) < p + r.size
      THEN Ceil(p, r.boundary)
      ELSE p

\* The pointer returned and the new alloc_ptr, for a pool that ends before the
\* address end.  A request that does not fit moves alloc_ptr as well.
AllocMem(ptr, end, r) ==
  LET p == Aligned(ptr, r)
  IN  IF end < p + r.size THEN [p |-> Null, alloc_ptr |-> p]
                          ELSE [p |-> p, alloc_ptr |-> p + r.size]

(***************************************************************************)
(* What memory.hpp promises, stated without the arithmetic of the code.    *)
(***************************************************************************)
\* p is a multiple of a; no alignment is asked for with 0.
MultipleOf(p, a) == a = 0 \/ p % a = 0

\* Some multiple of b lies strictly inside the s bytes from p.
Crosses(p, s, b) == \E x \in (p + 1) .. (p + s - 1) : x % b = 0

\* A place for r at p: aligned, and not across the boundary; a block larger
\* than the boundary starts at one.
Suitable(p, r) ==
  /\ MultipleOf(p, r.alignment)
  /\ r.boundary > 0 => p % r.boundary = 0 \/ ~Crosses(p, r.size, r.boundary)
================================================================================
