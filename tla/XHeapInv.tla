------------------------------- MODULE XHeapInv -------------------------------
(***************************************************************************)
(* The inductive invariant of XHeap: why no live object is ever freed.     *)
(*                                                                         *)
(* The argument needs the order of the allocation chain.  It is given by a *)
(* rank: a number per object, larger for younger objects, the base above   *)
(* all.  A sweep has visited what ranks at least as high as its p_prev.    *)
(***************************************************************************)
EXTENDS XHeap

(* The links of the allocation chain lead from each object to the next     *)
(* older one: the chain holds the live objects, each once, youngest first. *)
Ordered(rank) ==
    /\ \A o \in live : rank[o] < rank[Base]
    /\ \A o, p \in live : rank[o] = rank[p] => o = p
    /\ \A o \in live \cup {Base} :
          /\ heap[o] # NULL => heap[o] \in live /\ rank[heap[o]] < rank[o]
          /\ \A p \in live : rank[p] < rank[o] =>
                heap[o] # NULL /\ rank[p] <= rank[heap[o]]

(* The sweep stands between prev and node, and has cleared what it passed. *)
SweepPosition(rank) ==
    /\ heap[prev] = node
    /\ \A o \in live : rank[o] >= rank[prev] => o \notin marked

(* The live objects a sweep standing at prev will not free. *)
Keep(rank) == {o \in live : rank[o] < rank[prev] => Retained(o)}

(* What the program or a surviving object refers to is there. *)
RefersTo(S) ==
    \A o \in S \cup Registered : Kids(o) \subseteq (S \cap Addr) \cup Registered

ChainInv(R) ==
    \E rank \in R :
        /\ Ordered(rank)
        /\ IF pc = "sweep"
           THEN SweepPosition(rank) /\ RefersTo(Keep(rank))
           ELSE RefersTo(live)

(* A stack object is registered at most once. *)
FramesDistinct ==
    \A i, j \in DOMAIN frames : frames[i] = frames[j] => i = j

(* Only atoms are allocated SHARED, apart from the base tree: what a SHARED*)
(* object refers to is not retained with it.                               *)
SharedInert == \A o \in shared \ {Tree} : kind[o] = "atom"

PairsStay == \A o \in Off \cup {Tree} : kind[o] = "pair"

(* Where the walks stand. *)
WalkInv ==
    /\ cur \in live \cup Registered \cup {NULL}
    /\ \A i \in DOMAIN stk :
          stk[i] \in marked \cap (live \cup Registered) /\ kind[stk[i]] = "pair"
    /\ pc \notin {"tree", "walk"} => stk = <<>>
    /\ pc \in {"clear", "roots", "walk"} => node \in Registered \cup {NULL}
    /\ pc = "walk" => node # NULL
    /\ pc \in {"sweep", "mutate"} => cur = NULL

(* The objects whose references have been, or are being, marked: in the    *)
(* tree mark a stack object may still have the mark of an earlier          *)
(* collection, which says nothing.                                         *)
Traced == marked \cap (IF pc \in {"tree", "clear"} THEN live ELSE live \cup Registered)

Pending(o, k) ==
    /\ pc \in {"tree", "walk"}
    /\ \/ k = cur
       \/ k = rest[o] /\ \E i \in DOMAIN stk : stk[i] = o

Marking == pc \in {"tree", "clear", "roots", "walk"}

(* A reference out of a traced object leads to a marked object, or the     *)
(* walk has yet to follow it.                                              *)
Tricolor ==
    Marking => \A o \in Traced : \A k \in Kids(o) \cap live : k \in marked \/ Pending(o, k)

TreeIsMarked ==
    Marking => Tree \in marked \/ (pc = "tree" /\ cur = Tree)

(* The registered objects newer than n. *)
Newer(n) == {frames[i] : i \in {j \in DOMAIN frames :
                \A m \in DOMAIN frames : frames[m] = n => m < j}}

RootsProgress ==
    /\ pc = "clear" => Newer(node) \cap marked = {}
    /\ pc \in {"roots", "walk"} => Newer(node) \subseteq marked
    /\ pc = "walk" => node \in marked \/ cur = node

IInv(R) ==
    /\ TypeOK
    /\ RootChainMirrorsFrames /\ FramesDistinct
    /\ SharedInert /\ PairsStay
    /\ ChainInv(R)
    /\ WalkInv /\ Tricolor /\ TreeIsMarked /\ RootsProgress
    /\ MarksClean

(* The rank of an object by its place on the chain, counted from the end.  *)
ChainRank ==
    LET at == Steps(heap[Base])
        n == Cardinality(live)
    IN  [o \in Linked |->
            IF o = Base THEN n + 1
            ELSE IF o \in live THEN n - (CHOOSE i \in 0 .. n - 1 : at[i] = o)
            ELSE 0]

(* What the proofs rest on holds for the chain as a walk along its links   *)
(* finds it: its order, tricolour marking (x-heap.c:41-60), the position   *)
(* of the walks and of the sweep.                                          *)
InductiveInvariant == IInv({ChainRank})

-----------------------------------------------------------------------------
(* Why a collection ends: every step of it lowers the measure.             *)

Phase == CASE pc = "tree" -> 4
           [] pc = "clear" -> 3
           [] pc \in {"roots", "walk"} -> 2
           [] pc = "sweep" -> 1
           [] OTHER -> 0

(* What the walk along a chain that is under way has yet to pass. *)
Unpassed ==
    CASE pc \in {"clear", "roots", "walk"} -> Registered \ Newer(node)
      [] pc = "sweep" -> {o \in live : node # NULL /\ ChainRank[o] <= ChainRank[node]}
      [] OTHER -> {}

Unmarked == (live \cup Registered) \ marked

(* The tree mark pays for an object when it marks it and once more when it *)
(* returns to it.                                                          *)
Measure == <<Phase, Cardinality(Unpassed), IF pc = "roots" THEN 1 ELSE 0,
             2 * Cardinality(Unmarked) + Len(stk)>>
Measures == [1 .. 4 -> Nat]

(* The lexicographic order *)
Lower(m, n) == \E i \in 1 .. 4 : m[i] < n[i] /\ \A j \in 1 .. i - 1 : m[j] = n[j]

(* No loop of the collector (x-heap.c:41, 93, 143, 183) turns without      *)
(* getting on, whatever cycles the objects form and whatever the sweep     *)
(* takes out of the chain it walks along.                                  *)
CollectionRunsDown == [][pc # "mutate" => Lower(Measure', Measure)]_vars
=============================================================================
