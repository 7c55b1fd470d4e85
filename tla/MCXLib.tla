------------------------------- MODULE MCXLib -------------------------------
(***************************************************************************)
(* XStdlib and XLib for TLC: every memory and every short text.            *)
(***************************************************************************)
EXTENDS XLib

(* Any three of space, "-", "+", "0", "7", "8", "x" and "f", and up to     *)
(* three of the last five behind up to two of the first three: all parts of*)
(* a numeral, what cannot follow them, and values beyond the integers.     *)
Leads == {32, Minus, Plus}
Numerals == {Zero, Zero + 7, Zero + 8, UpperX + 32, LowerA + 5}
MCTexts ==
    BoundedSeq(Leads \cup Numerals, 3)
        \cup {lead \o numeral : lead \in BoundedSeq(Leads, 2), numeral \in BoundedSeq(Numerals, 3)}

(* Bound: the conversions do not look at the memory and are called on one. *)
Zeroed == [p \in Addr |-> 0]
Next == StdlibNext \/ (mem = Zeroed /\ TextNext)
Spec == Init /\ [][Next]_stdlibVars

(* Bound: the conversions only. *)
TextSpec == Init /\ mem = Zeroed /\ [][TextNext]_stdlibVars
=============================================================================
