---------------------------- MODULE MCXHeapFrames ----------------------------
(* TLC instance of XHeapInv and XHeapRefinement: the inductive invariant   *)
(* of the proofs and the abstract collector.                               *)
EXTENDS XHeapInv, XHeapRefinement, TLC

Symmetry == Permutations(Addr) \cup Permutations(Off)
=============================================================================
