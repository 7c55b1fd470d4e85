------------------------------- MODULE XReach -------------------------------
(***************************************************************************)
(* Reachability over object references.  Reach is the least set that holds *)
(* the roots and is closed under the edges.  It is written as an           *)
(* intersection of closed sets, not as a recursion, so that its three laws *)
(* (it holds the roots, it is closed, it is the least such set) follow     *)
(* from the definition alone; XFacts proves them.                          *)
(***************************************************************************)

(* S holds every successor of its members. *)
Closed(S, kids) == \A o \in S : kids[o] \subseteq S

(* The objects reachable from roots; kids maps each object of U to the set *)
(* of objects it refers to.                                                *)
Reach(U, kids, roots) ==
    {o \in U : \A S \in SUBSET U : roots \subseteq S /\ Closed(S, kids) => o \in S}
=============================================================================
