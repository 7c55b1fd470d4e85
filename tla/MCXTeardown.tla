------------------------------ MODULE MCXTeardown ------------------------------
(* TLC instances of XTeardown. *)
EXTENDS XTeardown, TLC

Symmetry == Permutations(Addr)
=============================================================================
