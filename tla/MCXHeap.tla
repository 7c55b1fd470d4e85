------------------------------- MODULE MCXHeap -------------------------------
(* TLC instances of XHeap: which objects there are, and how they commute. *)
EXTENDS XHeap, TLC

Symmetry == Permutations(Addr) \cup Permutations(Off)
=============================================================================
