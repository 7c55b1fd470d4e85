------------------------------- MODULE XCollect -------------------------------
(***************************************************************************)
(* What the collector promises its callers (x-heap.h:19-31): objects come  *)
(* into existence and refer to each other as the program pleases, and they *)
(* cease to exist in one way only: a collection takes, in one step, exactly*)
(* the objects that are neither SHARED nor reachable from the base tree or *)
(* from a registered stack object.  XHeapRefinement shows that XHeap, with *)
(* its walks, flags and links, implements this.                            *)
(***************************************************************************)
EXTENDS Naturals, Sequences, Functions, XReach

CONSTANTS Obj, Tree

VARIABLES
    objs,   \* the objects that exist on the heap
    refs,   \* what each existing object, or registered one, refers to
    perm,   \* the SHARED objects
    stack   \* the registered stack objects, oldest first

absVars == <<objs, refs, perm, stack>>

Existing == objs \cup Range(stack)

(* Nothing refers to what does not exist. *)
Sound == \A o \in Existing : refs[o] \subseteq Existing

Init ==
    /\ objs = {Tree} /\ perm = {Tree} /\ stack = <<>>
    /\ refs = [o \in Obj |-> {}]

(* The frames push one node or drop the newest ones. *)
StackStep ==
    \/ UNCHANGED stack
    \/ \E n \in Obj \ Existing : stack' = Append(stack, n)
    \/ \E k \in 0 .. Len(stack) - 1 : stack' = SubSeq(stack, 1, k)

(* A step of the program: it may create objects and change references, but *)
(* it takes no object away and makes no SHARED object ordinary.            *)
Program ==
    /\ objs \subseteq objs'
    /\ perm' \subseteq objs' /\ perm' \cap objs = perm
    /\ StackStep
    /\ Sound'

Reachable == Reach(Obj, refs, {Tree} \cup Range(stack))

Collect ==
    /\ objs' = (objs \cap Reachable) \cup perm
    /\ refs' = [o \in Obj |-> IF o \in Existing' THEN refs[o] ELSE {}]
    /\ UNCHANGED <<perm, stack>>

Next == Program \/ Collect

Spec == Init /\ [][Next]_absVars
=============================================================================
