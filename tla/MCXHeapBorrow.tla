------------------------------ MODULE MCXHeapBorrow ------------------------------
(* TLC instances of XHeapBorrow. *)
EXTENDS XHeapBorrow, TLC

Symmetry == Permutations(Addr) \cup Permutations(Off)
=============================================================================
