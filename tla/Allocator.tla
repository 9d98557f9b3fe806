----------------------------- MODULE Allocator -----------------------------
(***************************************************************************)
(* What malloc.c promises: a set of blocks of memory in use.  Allocating   *)
(* adds one block that shares no byte with the others and lies in managed  *)
(* memory; freeing removes one block; nothing else ever changes a block.   *)
(***************************************************************************)
EXTENDS Integers

CONSTANT MinAlign

VARIABLE blocks    \* set of [start, size] records

Bytes(b) == b.start .. b.start + b.size - 1

AllocatorInit == blocks = {}

Alloc ==
  \E b \in blocks' \ blocks :
    /\ blocks' = blocks \cup {b}
    /\ b.size > 0
    /\ b.start % MinAlign = 0
    /\ \A c \in blocks : Bytes(b) \cap Bytes(c) = {}

Free == \E b \in blocks : blocks' = blocks \ {b}

AllocatorSpec == AllocatorInit /\ [][Alloc \/ Free]_blocks
============================================================================
