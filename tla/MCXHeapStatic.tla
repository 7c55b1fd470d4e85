------------------------------ MODULE MCXHeapStatic ------------------------------
(* TLC instances of XHeapStatic. *)
EXTENDS XHeapStatic, TLC

Symmetry == Permutations(Addr) \cup Permutations(Off)
=============================================================================
