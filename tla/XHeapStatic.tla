------------------------------ MODULE XHeapStatic ------------------------------
(***************************************************************************)
(* XHeap with one more thing a program may do: make a static off-chain     *)
(* pair a mark root with x_heap_mark_root_add, which stores it in a base   *)
(* field, instead of registering it on the root chain.  Frames are left    *)
(* out.                                                                    *)
(***************************************************************************)
EXTENDS XHeap

(* The static pair n is initialised and pushed onto the mark-roots list.   *)
AddStaticRoot(n, o, f) ==
    /\ Mutating
    /\ first[n] = NULL
    /\ Make(o, "pair", n, first[Tree], FALSE,
            [first EXCEPT ![Tree] = o, ![n] = f])

StaticNext ==
    \/ Next /\ UNCHANGED frames
    \/ \E n \in Off, o \in Addr, f \in live \cap Addr : AddStaticRoot(n, o, f)

StaticSpec == Init /\ [][StaticNext]_vars

(* A mark root "is marked on every collection and survives GC regardless   *)
(* of other reachability" (x-heap.c:240-242), and what a field stores is   *)
(* reachable when the base tree is marked (x-heap.h:25-26): no collection  *)
(* frees what hangs off such a root.                                       *)
StaticRootsProtect == [][(live \ live') \cap Reachable = {}]_vars
=============================================================================
