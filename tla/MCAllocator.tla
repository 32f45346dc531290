---------------------------- MODULE MCAllocator ----------------------------
(* An instance of Allocator small enough for TLC. *)
EXTENDS Allocator, TLC

CONSTANTS t1, t2, t3, b1, b2, b3

(* Nothing distinguishes two threads or two blocks. *)
Interchangeable == Permutations({t1, t2, t3}) \cup Permutations({b1, b2, b3})
=============================================================================
