------------------------------- MODULE MCXBaseUse -------------------------------
(***************************************************************************)
(* TLC instance of XBaseIO and XDispatch: a program that redirects its     *)
(* streams while it reads and writes, or one that overrides one of its     *)
(* hooks while any of them run.                                            *)
(***************************************************************************)
EXTENDS XBaseIO, XDispatch

Streams == {"filein", "fileout", "write_buf"}
MCUsedSets == {Streams} \cup kSubset(1, Range(Hooks))

(* Bound: a program does one or the other.  One that redirects its streams *)
(* is run on one of the bases, as no hook plays a part.                    *)
UseInit ==
    /\ IOStart /\ DispatchStart /\ Init
    /\ used = Streams => tree = x_base_make(Valuation(Given))

UseNext ==
    \/ used = Streams /\ IONext /\ UNCHANGED dispatchVars
    \/ used # Streams /\ DispatchNext /\ UNCHANGED ioVars

UseSpec == UseInit /\ [][UseNext]_<<vars, dispatchVars>>

(* Only safety is checked, and one buffer is as good as another. *)
Symmetry == Permutations(Buf)
=============================================================================
