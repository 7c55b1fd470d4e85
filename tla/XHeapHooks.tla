------------------------------- MODULE XHeapHooks -------------------------------
(***************************************************************************)
(* XHeap with a free hook (x-heap.h:67-78) that allocates: the embedder's  *)
(* hook keeps a note of what is collected, in a pair it pushes onto the    *)
(* list of a base field while the sweep is under way.                      *)
(***************************************************************************)
EXTENDS XHeap

(* The hook is called with the object still in place, so that the pair is  *)
(* another one.  It becomes the head of the chain; then the sweep stores   *)
(* the link it read to where it stands, which may be that head.            *)
SweepFreeNoting(o) ==
    /\ pc = "sweep" /\ node # NULL
    /\ ~Retained(node)
    /\ o \in Addr \ live
    /\ heap' = [LinkAtHead(o) EXCEPT ![prev] = heap[node], ![node] = NULL]
    /\ live' = (live \cup {o}) \ {node}
    /\ kind' = [kind EXCEPT ![o] = "pair", ![node] = "atom"]
    /\ first' = [first EXCEPT ![o] = NULL, ![Tree] = o, ![node] = NULL]
    /\ rest' = [rest EXCEPT ![o] = first[Tree], ![node] = NULL]
    /\ node' = heap[node]
    /\ UNCHANGED <<shared, marked, frames, pc, prev, cur, stk>>

HookedNext == Next \/ \E o \in Addr : SweepFreeNoting(o)

HookedSpec == Init /\ [][HookedNext]_vars

(* "An object survives GC if ... it is stored in a base environment field  *)
(* (reachable when the base tree is marked)" (x-heap.h:19-26), whatever a  *)
(* free hook did in an earlier collection: no sweep frees an object the    *)
(* base tree leads to.                                                     *)
FieldsSurviveHooks ==
    [][(live \ live') \cap Reach(Obj, KidsOf, {Tree}) = {}]_vars
=============================================================================
