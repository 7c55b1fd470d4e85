-------------------------------- MODULE XFields --------------------------------
(***************************************************************************)
(* What x-base.h:13-22 promises of the fields of a base: each is a stack   *)
(* of values of its own.  The current value is the newest, pushing an      *)
(* override hides it, popping brings it back, and no operation on one      *)
(* field is seen in another.  Some fields hold lists that grow.            *)
(***************************************************************************)
EXTENDS Naturals, Sequences

CONSTANTS
    Field, Lists,   \* the fields, and those whose values are lists
    Starts,         \* the valuations x_base_make may be called with
    Stored(_),      \* the values a program stores in a field
    Items           \* the elements it adds to a list

VARIABLE stacks     \* of each field, the current value first

Init == \E val \in Starts : stacks = [f \in Field |-> <<val[f]>>]

Push(f) == \E v \in Stored(f) : stacks' = [stacks EXCEPT ![f] = <<v>> \o @]

Pop(f) == Len(stacks[f]) > 1 /\ stacks' = [stacks EXCEPT ![f] = Tail(@)]

Set(f) == \E v \in Stored(f) : stacks' = [stacks EXCEPT ![f][1] = v]

Add(f) ==
    /\ f \in Lists
    /\ \E v \in Items : stacks' = [stacks EXCEPT ![f][1] = <<v>> \o @]

Next ==
    \E f \in Field :
        /\ stacks'[f] # stacks[f]
        /\ Push(f) \/ Pop(f) \/ Set(f) \/ Add(f)

Spec == Init /\ [][Next]_stacks
=============================================================================
