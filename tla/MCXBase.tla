-------------------------------- MODULE MCXBase --------------------------------
(* TLC instance of XBase: every program that uses two of the fields and    *)
(* extension points.                                                       *)
EXTENDS XBase

TwoOfThem == kSubset(2, Field \cup DOMAIN Extension)
=============================================================================
