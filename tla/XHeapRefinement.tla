---------------------------- MODULE XHeapRefinement ----------------------------
(***************************************************************************)
(* XHeap implements XCollect.  The abstract collection happens when        *)
(* x_heap_sweep starts: from then on what is garbage no longer counts as   *)
(* existing, whatever the sweep has freed of it so far.                    *)
(***************************************************************************)
EXTENDS XHeap

Survivors == IF pc = "sweep" THEN live \cap (Reachable \cup shared) ELSE live

References ==
    [o \in Obj |-> IF o \in Survivors \cup Registered THEN Kids(o) ELSE {}]

Abstract == INSTANCE XCollect WITH
    objs <- Survivors, refs <- References, perm <- shared, stack <- frames

(* Every behaviour of the collector and of the program around it is one of *)
(* the promise: marking changes nothing, the sweep takes exactly the       *)
(* garbage of the moment it starts, and no other step loses an object.     *)
ImplementsCollect == Abstract!Spec
=============================================================================
