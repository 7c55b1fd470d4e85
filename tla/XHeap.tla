-------------------------------- MODULE XHeap --------------------------------
(***************************************************************************)
(* The mark-sweep collector of x-heap.c/.h together with the part of       *)
(* x_obj_alloc, x_obj_push_field and x_obj_pop_field that touches its      *)
(* state: the allocation chain (threaded through x_obj_heap() from the     *)
(* base object), the root chain of registered stack objects (threaded      *)
(* through the same header slot from a base field), and the mark flags.    *)
(*                                                                         *)
(* A collection is the sequence x-heap.h:13-17 prescribes: tree mark of    *)
(* the base tree, x_heap_root_chain_mark (pre-clear pass, mark pass),      *)
(* x_heap_sweep from the head of the allocation chain.  It is modelled one *)
(* loop iteration at a time; between two collections the program allocates *)
(* and stores references, and its C frames register and unregister         *)
(* stack objects, in any order the rules of x-heap.h:142-152 allow.        *)
(*                                                                         *)
(* The base is the untyped one x_base_make returns (no allocation          *)
(* accounting, see XAlloc) and malloc succeeds while an address is free.   *)
(*                                                                         *)
(* Definitions that a comment calls wrong are not part of the              *)
(* specification: each is a plausible slip in the definition after it,     *)
(* which a property of some run must notice.                               *)
(***************************************************************************)
EXTENDS Naturals, FiniteSets, SequencesExt, XReach

CONSTANTS
    Addr,    \* addresses malloc hands out: where heap objects live
    Off,     \* off-chain objects (x_spair_t locals and statics), all pairs
    Base,    \* the base object, head of the allocation chain, never swept here
    Tree,    \* the SHARED base tree, contracted to one pair (see Init)
    Kinds,   \* kinds of object allocated: a subset of {"atom", "pair", "custom"}
    NULL

ASSUME ObjectsAreDistinct ==
    /\ Addr \cap Off = {}
    /\ Base \notin Addr \cup Off
    /\ Tree \notin Addr \cup Off \cup {Base}
    /\ NULL \notin Addr \cup Off \cup {Base, Tree}
ASSUME KindsAreKnown == Kinds \subseteq {"atom", "pair", "custom"}

Obj == Addr \cup Off \cup {Tree}      \* what the collector can visit
Linked == Obj \cup {Base}             \* what has an x_obj_heap() slot
Ref == Obj \cup {NULL}

VARIABLES
    live,    \* objects allocated and not yet freed
    heap,    \* the x_obj_heap() link of every object
    kind,    \* "pair": x_type_pair_obj; "custom": the mark hook follows its
             \* datum; "atom": no references
    shared,  \* objects with X_OBJ_FLAG_SHARED
    marked,  \* objects with the mark flag
    first,   \* data unit 0, where it is an object reference
    rest,    \* data unit 1, where it is an object reference
    frames,  \* the C stack: the registered objects of its frames, oldest first
    pc,      \* where the collector stands; "mutate" outside a collection
    node,    \* p_node of the chain walks
    prev,    \* p_prev of x_heap_sweep
    cur,     \* p_obj of the innermost active x_heap_tree_mark call
    stk      \* p_obj of the suspended x_heap_tree_mark calls, outermost first

vars == <<live, heap, kind, shared, marked, first, rest, frames,
          pc, node, prev, cur, stk>>

-----------------------------------------------------------------------------
(* The state x_base_make leaves: the base heads a chain of SHARED nodes.   *)
(* first[Tree] is the current list of a base field (mark-roots, say) and   *)
(* rest[Tree] is the head of the root chain, a base field like any other,  *)
(* so that the tree mark runs into it.                                     *)
Init ==
    /\ live = {Tree}
    /\ heap = [o \in Linked |-> IF o = Base THEN Tree ELSE NULL]
    /\ kind = [o \in Obj |-> IF o \in Addr THEN "atom" ELSE "pair"]
    /\ shared = {Tree}
    /\ marked = {}
    /\ first = [o \in Obj |-> NULL]
    /\ rest = [o \in Obj |-> NULL]
    /\ frames = <<>>
    /\ pc = "mutate"
    /\ node = NULL /\ prev = Base /\ cur = NULL /\ stk = <<>>

Registered == Range(frames)
RootChain == rest[Tree]

(* What a C program between two collections can store: nil, a heap object  *)
(* or the address of a registered stack object.                            *)
Held == (live \cap Addr) \cup Registered
Payload == Held \cup {NULL}

(* The references x_heap_tree_mark follows out of an object. *)
Kids(o) ==
    (CASE kind[o] = "pair" -> {first[o], rest[o]}
       [] kind[o] = "custom" -> {first[o]}
       [] OTHER -> {}) \ {NULL}

-----------------------------------------------------------------------------
(* The program between collections. *)

(* x_obj_alloc puts the new object at the head of the chain, its flags set. *)
LinkAtHead(o) == [heap EXCEPT ![o] = heap[Base], ![Base] = o]

Make(o, k, f, r, sh, before) ==
    /\ o \in Addr \ live
    /\ k \in Kinds
    /\ live' = live \cup {o}
    /\ heap' = LinkAtHead(o)
    /\ kind' = [kind EXCEPT ![o] = k]
    /\ shared' = IF sh THEN shared \cup {o} ELSE shared
    /\ marked' = marked \ {o}
    /\ first' = [before EXCEPT ![o] = f]
    /\ rest' = [rest EXCEPT ![o] = r]
    /\ UNCHANGED frames

Mutating == pc = "mutate" /\ UNCHANGED <<pc, node, prev, cur, stk>>

(* x_mksatom, with or without X_OBJ_FLAG_SHARED *)
MakeAtom(o, sh) ==
    Mutating /\ Make(o, "atom", NULL, NULL, sh, first)

(* x_mkspair *)
MakePair(o) ==
    Mutating /\ \E f, r \in Payload : Make(o, "pair", f, r, FALSE, first)

(* x_obj_make with a type of the embedder's, which its mark hook can follow *)
MakeCustom(o) ==
    Mutating /\ \E f \in Payload : Make(o, "custom", f, NULL, FALSE, first)

(* x_firstobj(o) = v and x_restobj(o) = v in the program *)
SetFirst(o, v) ==
    /\ Mutating
    /\ kind[o] \in {"pair", "custom"}
    /\ first' = [first EXCEPT ![o] = v]
    /\ UNCHANGED <<live, heap, kind, shared, marked, rest, frames>>

SetRest(o, v) ==
    /\ Mutating
    /\ kind[o] = "pair"
    /\ rest' = [rest EXCEPT ![o] = v]
    /\ UNCHANGED <<live, heap, kind, shared, marked, first, frames>>

(* x_heap_mark_root_add and its siblings: x_obj_push_field on the current  *)
(* list of a base field                                                    *)
PushField(o) ==
    /\ Mutating
    /\ \E v \in Payload :
          Make(o, "pair", v, first[Tree], FALSE, [first EXCEPT ![Tree] = o])

(* x_obj_pop_field: the popped pair is left to the collector *)
PopField ==
    /\ Mutating
    /\ first[Tree] # NULL /\ kind[first[Tree]] = "pair"
    /\ first' = [first EXCEPT ![Tree] = rest[first[Tree]]]
    /\ UNCHANGED <<live, heap, kind, shared, marked, rest, frames>>

(* A C frame initialises an off-chain pair and registers it with           *)
(* x_heap_root_push.  An initialised local has no flags; static storage    *)
(* keeps the mark flag an earlier collection left on it.                   *)
EnterFrame(n) ==
    /\ Mutating
    /\ n \in Off \ Registered
    /\ \E f, r \in Payload :
          /\ first' = [first EXCEPT ![n] = f]
          /\ rest' = [rest EXCEPT ![n] = r, ![Tree] = n]
    /\ heap' = [heap EXCEPT ![n] = RootChain]
    /\ marked' \in {marked, marked \ {n}}
    /\ frames' = Append(frames, n)
    /\ UNCHANGED <<live, kind, shared>>

(* Frames above depth k end.  No object that outlives them may still refer *)
(* to their stack objects: the frames' duty before their storage dies.     *)
(* Dead storage is reset (nobody may look at it), except for the mark flag *)
(* that static storage keeps.                                              *)
DropFrames(k, head) ==
    LET cut == {frames[i] : i \in k + 1 .. Len(frames)}
    IN  /\ first[Tree] \notin cut
        /\ \A o \in Held \ cut : first[o] \notin cut /\ rest[o] \notin cut
        /\ frames' = SubSeq(frames, 1, k)
        /\ heap' = [o \in Linked |-> IF o \in cut THEN NULL ELSE heap[o]]
        /\ first' = [o \in Obj |-> IF o \in cut THEN NULL ELSE first[o]]
        /\ rest' = [o \in Obj |-> CASE o = Tree -> head
                                    [] o \in cut -> NULL
                                    [] OTHER -> rest[o]]
        /\ UNCHANGED <<live, kind, shared, marked>>

(* Wrong: the pop clears the head instead of restoring the caller's.       *)
LeaveFrameClears ==
    /\ Mutating
    /\ frames # <<>>
    /\ DropFrames(Len(frames) - 1, NULL)

(* x_heap_root_pop on a normal exit *)
LeaveFrame ==
    /\ Mutating
    /\ frames # <<>>
    /\ DropFrames(Len(frames) - 1, heap[RootChain])

(* longjmp: the handler puts back the head it saved when k frames were up *)
Unwind(k) ==
    /\ Mutating
    /\ k < Len(frames)
    /\ DropFrames(k, IF k = 0 THEN NULL ELSE frames[k])

Mutate ==
    \/ \E o \in Addr : \/ \E sh \in BOOLEAN : MakeAtom(o, sh)
                       \/ MakePair(o)
                       \/ MakeCustom(o)
                       \/ PushField(o)
    \/ \E o \in Held, v \in Payload : SetFirst(o, v) \/ SetRest(o, v)
    \/ PopField
    \/ \E n \in Off : EnterFrame(n)
    \/ LeaveFrame
    \/ \E k \in 0 .. Cardinality(Off) - 1 : Unwind(k)

-----------------------------------------------------------------------------
(* x_heap_tree_mark: one action per iteration of its loop and one for the  *)
(* return from its recursive call.  "tree" is the call on the base tree,   *)
(* "walk" a call from the mark pass over the root chain.                   *)

Collecting == UNCHANGED <<live, kind, shared, first, rest, frames>>

(* Wrong: a marked object is entered again.                                *)
ExhaustedAtNil == cur = NULL

Exhausted == cur = NULL \/ cur \in marked

MarkPair ==
    /\ pc \in {"tree", "walk"}
    /\ ~Exhausted /\ kind[cur] = "pair"
    /\ marked' = marked \cup {cur}
    /\ stk' = Append(stk, cur)
    /\ cur' = first[cur]
    /\ Collecting /\ UNCHANGED <<heap, pc, node, prev>>

(* Wrong: the hook is not asked.                                           *)
HookNextNone(o) == NULL

(* What the embedder's mark hook returns for a non-pair. *)
HookNext(o) == IF kind[o] = "custom" THEN first[o] ELSE NULL

MarkLeaf ==
    /\ pc \in {"tree", "walk"}
    /\ ~Exhausted /\ kind[cur] # "pair"
    /\ marked' = marked \cup {cur}
    /\ cur' = HookNext(cur)
    /\ Collecting /\ UNCHANGED <<heap, pc, node, prev, stk>>

(* Wrong: the walk ends when the recursive call returns.                   *)
MarkReturnDone ==
    /\ pc \in {"tree", "walk"}
    /\ Exhausted /\ stk # <<>>
    /\ cur' = NULL
    /\ stk' = Front(stk)
    /\ Collecting /\ UNCHANGED <<heap, marked, pc, node, prev>>

(* Wrong: the call that returns is resumed over and over.                  *)
MarkReturnAgain ==
    /\ pc \in {"tree", "walk"}
    /\ Exhausted /\ stk # <<>>
    /\ cur' = rest[Last(stk)]
    /\ Collecting /\ UNCHANGED <<heap, marked, pc, node, prev, stk>>

MarkReturn ==
    /\ pc \in {"tree", "walk"}
    /\ Exhausted /\ stk # <<>>
    /\ cur' = rest[Last(stk)]
    /\ stk' = Front(stk)
    /\ Collecting /\ UNCHANGED <<heap, marked, pc, node, prev>>

(* The collection starts with the tree mark of the base tree ... *)
StartCollection ==
    /\ pc = "mutate"
    /\ pc' = "tree" /\ cur' = Tree
    /\ Collecting /\ UNCHANGED <<heap, marked, node, prev, stk>>

(* ... then x_heap_root_chain_mark clears the mark of every registered     *)
(* node (x_heap_chain_clear) ...                                           *)
TreeMarked ==
    /\ pc = "tree"
    /\ Exhausted /\ stk = <<>>
    /\ pc' = "clear" /\ node' = RootChain
    /\ Collecting /\ UNCHANGED <<heap, marked, prev, cur, stk>>

(* Wrong: the pre-clear pass walks the chain and clears nothing.           *)
ClearNodeNot ==
    /\ pc = "clear" /\ node # NULL
    /\ node' = heap[node]
    /\ Collecting /\ UNCHANGED <<heap, marked, pc, prev, cur, stk>>

ClearNode ==
    /\ pc = "clear" /\ node # NULL
    /\ marked' = marked \ {node}
    /\ node' = heap[node]
    /\ Collecting /\ UNCHANGED <<heap, pc, prev, cur, stk>>

ChainCleared ==
    /\ pc = "clear" /\ node = NULL
    /\ pc' = "roots" /\ node' = RootChain
    /\ Collecting /\ UNCHANGED <<heap, marked, prev, cur, stk>>

(* ... and tree-marks each of them. *)
MarkRoot ==
    /\ pc = "roots" /\ node # NULL
    /\ pc' = "walk" /\ cur' = node
    /\ Collecting /\ UNCHANGED <<heap, marked, node, prev, stk>>

(* Wrong: only the newest registered object is a root.                     *)
RootMarkedOnce ==
    /\ pc = "walk"
    /\ Exhausted /\ stk = <<>>
    /\ pc' = "roots" /\ node' = NULL
    /\ Collecting /\ UNCHANGED <<heap, marked, prev, cur, stk>>

RootMarked ==
    /\ pc = "walk"
    /\ Exhausted /\ stk = <<>>
    /\ pc' = "roots" /\ node' = heap[node]
    /\ Collecting /\ UNCHANGED <<heap, marked, prev, cur, stk>>

-----------------------------------------------------------------------------
(* x_heap_sweep(base, x_obj_heap(base), flags) *)

StartSweep ==
    /\ pc = "roots" /\ node = NULL
    /\ pc' = "sweep" /\ node' = heap[Base] /\ prev' = Base
    /\ cur' = NULL
    /\ Collecting /\ UNCHANGED <<heap, marked, stk>>

(* Wrong: SHARED does not protect.                                         *)
RetainedMarked(o) == o \in marked

Retained(o) == o \in marked \/ o \in shared

(* Wrong: the mark stays on what is retained.                              *)
SweepRetainMarked ==
    /\ pc = "sweep" /\ node # NULL
    /\ Retained(node)
    /\ prev' = node
    /\ node' = heap[node]
    /\ Collecting /\ UNCHANGED <<heap, marked, pc, cur, stk>>

SweepRetain ==
    /\ pc = "sweep" /\ node # NULL
    /\ Retained(node)
    /\ marked' = marked \ {node}
    /\ prev' = node
    /\ node' = heap[node]
    /\ Collecting /\ UNCHANGED <<heap, pc, cur, stk>>

(* Wrong: the chain still runs through the freed object.                   *)
NotRelinked == [heap EXCEPT ![node] = NULL]

(* The chain is relinked around the object before it is freed; what the    *)
(* freed memory held is reset, nobody may look at it any more.             *)
Relinked == [heap EXCEPT ![prev] = heap[node], ![node] = NULL]

(* Wrong: the trailing pointer moves onto the object just freed.           *)
SweepFreeTrails ==
    /\ pc = "sweep" /\ node # NULL
    /\ ~Retained(node)
    /\ heap' = Relinked
    /\ live' = live \ {node}
    /\ kind' = [kind EXCEPT ![node] = "atom"]
    /\ first' = [first EXCEPT ![node] = NULL]
    /\ rest' = [rest EXCEPT ![node] = NULL]
    /\ prev' = node /\ node' = heap[node]
    /\ UNCHANGED <<shared, marked, frames, pc, cur, stk>>

SweepFree ==
    /\ pc = "sweep" /\ node # NULL
    /\ ~Retained(node)
    /\ heap' = Relinked
    /\ live' = live \ {node}
    /\ kind' = [kind EXCEPT ![node] = "atom"]
    /\ first' = [first EXCEPT ![node] = NULL]
    /\ rest' = [rest EXCEPT ![node] = NULL]
    /\ node' = heap[node]
    /\ UNCHANGED <<shared, marked, frames, pc, prev, cur, stk>>

SweepEnd ==
    /\ pc = "sweep" /\ node = NULL
    /\ pc' = "mutate" /\ prev' = Base
    /\ Collecting /\ UNCHANGED <<heap, marked, node, cur, stk>>

Collect ==
    \/ MarkPair \/ MarkLeaf \/ MarkReturn
    \/ TreeMarked \/ ClearNode \/ ChainCleared \/ MarkRoot \/ RootMarked
    \/ StartSweep \/ SweepRetain \/ SweepFree \/ SweepEnd

Next == Mutate \/ StartCollection \/ Collect

Spec == Init /\ [][Next]_vars

(* A collection is a chain of C calls that run to their end: once it has   *)
(* started it goes on.  Nobody is obliged to start one.                    *)
FairSpec == Spec /\ WF_vars(Collect)

-----------------------------------------------------------------------------
(* Type invariant. *)
TypeOK ==
    /\ live \subseteq Addr \cup {Tree}
    /\ heap \in [Linked -> Ref]
    /\ kind \in [Obj -> {"atom", "pair", "custom"}]
    /\ shared \subseteq live /\ Tree \in shared
    /\ marked \subseteq live \cup Off
    /\ first \in [Obj -> Ref] /\ rest \in [Obj -> Ref]
    /\ frames \in Seq(Off)
    /\ pc \in {"mutate", "tree", "clear", "roots", "walk", "sweep"}
    /\ node \in Ref /\ prev \in live \cup {Base}
    /\ cur \in Ref /\ stk \in Seq(Obj)

(* Every allocated object is on the allocation chain exactly once, and     *)
(* nothing else is, at every step: what x_obj_alloc prepends, the sweep    *)
(* can reach, and relinking around a freed object loses no other.          *)
Steps(n) ==
    LET at[i \in 0 .. Cardinality(live)] ==
            IF i = 0 THEN n
            ELSE IF at[i - 1] = NULL THEN NULL ELSE heap[at[i - 1]]
    IN  at

ChainComplete ==
    LET at == Steps(heap[Base])
    IN  /\ at[Cardinality(live)] = NULL
        /\ Range(at) \ {NULL} = live

(* "The root chain is the precise mirror of the C call stack"              *)
(* (x-heap.c:153): pushes, pops and longjmps leave the links of the header *)
(* slots listing the frames' registered objects, newest first.             *)
RootChainMirrorsFrames ==
    /\ RootChain = IF frames = <<>> THEN NULL ELSE Last(frames)
    /\ \A i \in DOMAIN frames :
          heap[frames[i]] = IF i = 1 THEN NULL ELSE frames[i - 1]

(* What the program can still reach: from the base tree and from every     *)
(* registered stack object, through the references the mark walk follows.  *)
KidsOf == [o \in Obj |-> Kids(o)]
Reachable == Reach(Obj, KidsOf, {Tree} \cup Registered)

(* The program never reaches freed memory, between the steps of a sweep    *)
(* included.                                                               *)
NoDangling == Reachable \subseteq live \cup Registered

(* The mark walk recurses no deeper than there are pairs, however they     *)
(* refer to each other: a C stack that holds a call for each of them is    *)
(* enough (x-heap.c:45).                                                   *)
MarkDepthBounded ==
    Len(stk) <= Cardinality({o \in live \cup Registered : kind[o] = "pair"})

(* Outside a collection no object on the chain carries a mark: a leftover  *)
(* would make the next tree mark skip the object and free its referents.   *)
MarksClean == pc = "mutate" => marked \cap live = {}

(* The sweep frees an object only if it is neither SHARED nor reachable.   *)
OnlyGarbageFreed ==
    [][\A o \in live \ live' : o \notin shared /\ o \notin Reachable]_vars

(* A collection reclaims all the garbage there is: when it ends, what is   *)
(* left is what is reachable or SHARED (x-heap.h:31).                      *)
GarbageReclaimed ==
    [][pc = "sweep" /\ pc' = "mutate" => live \subseteq Reachable \cup shared]_vars

(* A collection ends, whatever cycles the objects form. *)
CollectionEnds == pc # "mutate" ~> pc = "mutate"
=============================================================================
