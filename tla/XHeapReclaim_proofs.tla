-------------------------- MODULE XHeapReclaim_proofs --------------------------
(***************************************************************************)
(* Proofs about XHeap and XHeapBorrow: a collection marks nothing but what *)
(* the program reaches, and therefore leaves no garbage behind; a borrowed *)
(* mark pass sees exactly what is reachable, its flag is taken back from   *)
(* every object, and it does no harm to the collections around it.         *)
(***************************************************************************)
EXTENDS XHeapBorrow, XHeap_proofs

-----------------------------------------------------------------------------
(* Collections. *)

(* What the walks mark and are about to visit is reachable. *)
MarksSound ==
    /\ Marking \/ pc = "sweep" => marked \cap live \subseteq Reachable
    /\ Marking => /\ cur \in Reachable \cup {NULL}
                  /\ \A i \in DOMAIN stk : stk[i] \in Reachable

(* What a sweep has passed and left in place was marked or SHARED.         *)
SweptSound ==
    pc = "sweep" =>
        \E rank \in Rank :
            /\ Ordered(rank) /\ SweepPosition(rank)
            /\ \A o \in live : rank[o] >= rank[prev] => o \in Reachable \cup shared

Sound == MarksSound /\ SweptSound

-----------------------------------------------------------------------------
(* What an object that the program reaches refers to, the program reaches. *)
LEMMA ReachableLaws ==
    ASSUME TypeOK
    PROVE  /\ Reachable \subseteq Obj
           /\ Tree \in Reachable /\ Registered \subseteq Reachable
           /\ \A o \in Reachable : Kids(o) \subseteq Reachable
  <1>1. {Tree} \cup Registered \in SUBSET Obj
    BY RegisteredFacts, Apart
  <1>2. Reachable \subseteq Obj
    BY DEF Reachable, Reach
  <1>3. {Tree} \cup Registered \subseteq Reachable
    BY <1>1, ReachRoots DEF Reachable
  <1>4. ASSUME NEW o \in Reachable, NEW k \in Kids(o) PROVE k \in Reachable
    <2>1. o \in Obj /\ k \in KidsOf[o]
      BY <1>2, <1>4 DEF KidsOf
    <2>2. k \in Obj
      BY <1>2, <1>4, Apart DEF Kids, TypeOK, Ref
    <2>3. QED
      BY <1>1, <1>4, <2>1, <2>2, ReachClosed DEF Reachable
  <1>5. QED
    BY <1>2, <1>3, <1>4

(* A step that moves no reference reaches what it reached. *)
LEMMA ReachableSame ==
    ASSUME UNCHANGED <<kind, first, rest, frames>>
    PROVE  Reachable' = Reachable
  <1>1. KidsOf' = KidsOf
    BY KidsSame DEF KidsOf, Obj
  <1>2. Registered' = Registered
    BY DEF Registered
  <1>3. Obj' = Obj
    BY DEF Obj
  <1>4. QED
    BY <1>1, <1>2, <1>3 DEF Reachable, Reach, Closed

LEMMA MarkPairSound ==
    ASSUME Inv, Sound, MarkPair
    PROVE  Sound'
  <1>1. Reachable' = Reachable
    BY ReachableSame DEF MarkPair, Collecting
  <1>2. cur \in Reachable /\ cur # NULL
    BY DEF Sound, MarksSound, Marking, MarkPair, Exhausted
  <1>3. first[cur] \in Reachable \cup {NULL}
    BY <1>2, ReachableLaws DEF Kids, MarkPair, Inv, IInv
  <1>4. /\ Len(stk) \in Nat /\ DOMAIN stk = 1 .. Len(stk)
        /\ DOMAIN stk' = 1 .. Len(stk) + 1
        /\ \A i \in 1 .. Len(stk) : stk'[i] = stk[i]
        /\ stk'[Len(stk) + 1] = cur
    BY CurFacts, AppendFacts DEF MarkPair, Inv, IInv, TypeOK
  <1>5. \A i \in DOMAIN stk' : stk'[i] \in Reachable
    BY <1>2, <1>4 DEF Sound, MarksSound, Marking, MarkPair
  <1>6. MarksSound'
    BY <1>1, <1>2, <1>3, <1>5 DEF Sound, MarksSound, Marking, MarkPair, Collecting
  <1>7. QED
    BY <1>6 DEF Sound, SweptSound, MarkPair

LEMMA MarkLeafSound ==
    ASSUME Inv, Sound, MarkLeaf
    PROVE  Sound'
  <1>1. Reachable' = Reachable
    BY ReachableSame DEF MarkLeaf, Collecting
  <1>2. cur \in Reachable /\ cur # NULL
    BY DEF Sound, MarksSound, Marking, MarkLeaf, Exhausted
  <1>3. HookNext(cur) \in Reachable \cup {NULL}
    BY <1>2, ReachableLaws DEF Kids, HookNext, Inv, IInv
  <1>4. MarksSound'
    BY <1>1, <1>2, <1>3 DEF Sound, MarksSound, Marking, MarkLeaf, Collecting
  <1>5. QED
    BY <1>4 DEF Sound, SweptSound, MarkLeaf

LEMMA MarkReturnSound ==
    ASSUME Inv, Sound, MarkReturn
    PROVE  Sound'
  <1>1. Reachable' = Reachable
    BY ReachableSame DEF MarkReturn, Collecting
  <1>2. /\ Len(stk) \in Nat \ {0} /\ DOMAIN stk = 1 .. Len(stk)
        /\ DOMAIN stk' = 1 .. Len(stk) - 1
        /\ \A i \in 1 .. Len(stk) - 1 : stk'[i] = stk[i]
        /\ Last(stk) = stk[Len(stk)]
    BY FrontFacts DEF MarkReturn, Inv, IInv, TypeOK
  <1>3. \A i \in 1 .. Len(stk) : stk[i] \in Reachable
    BY <1>2 DEF Sound, MarksSound, Marking, MarkReturn
  <1>4. kind[Last(stk)] = "pair" /\ Last(stk) \in Reachable
    BY <1>2, <1>3 DEF Inv, IInv, WalkInv
  <1>5. rest[Last(stk)] \in Reachable \cup {NULL}
    BY <1>4, ReachableLaws DEF Kids, Inv, IInv
  <1>6. \A i \in DOMAIN stk' : stk'[i] \in Reachable
    BY <1>2, <1>3
  <1>7. MarksSound'
    BY <1>1, <1>5, <1>6 DEF Sound, MarksSound, Marking, MarkReturn, Collecting
  <1>8. QED
    BY <1>7 DEF Sound, SweptSound, MarkReturn

(* The steps between the walks. *)
LEMMA StartCollectionSound ==
    ASSUME Inv, Sound, StartCollection
    PROVE  Sound'
  <1>1. Reachable' = Reachable
    BY ReachableSame DEF StartCollection, Collecting
  <1>2. marked \cap live = {} /\ stk = <<>>
    BY DEF Inv, IInv, MarksClean, WalkInv, StartCollection
  <1>3. Tree \in Reachable
    BY ReachableLaws DEF Inv, IInv
  <1>4. MarksSound'
    BY <1>1, <1>2, <1>3 DEF MarksSound, StartCollection, Collecting
  <1>5. QED
    BY <1>4 DEF Sound, SweptSound, StartCollection

LEMMA MarkRootSound ==
    ASSUME Inv, Sound, MarkRoot
    PROVE  Sound'
  <1>1. Reachable' = Reachable
    BY ReachableSame DEF MarkRoot, Collecting
  <1>2. node \in Reachable
    BY ReachableLaws DEF Inv, IInv, WalkInv, MarkRoot
  <1>3. MarksSound'
    BY <1>1, <1>2 DEF Sound, MarksSound, Marking, MarkRoot, Collecting
  <1>4. QED
    BY <1>3 DEF Sound, SweptSound, MarkRoot

LEMMA PassesSound ==
    ASSUME Inv, Sound, TreeMarked \/ ClearNode \/ ChainCleared \/ RootMarked
    PROVE  Sound'
  <1>1. Reachable' = Reachable
    BY ReachableSame DEF TreeMarked, ClearNode, ChainCleared, RootMarked, Collecting
  <1>2. /\ Marking /\ pc' # "sweep" /\ marked' \subseteq marked
        /\ UNCHANGED <<live, cur, stk>>
    BY DEF Marking, TreeMarked, ClearNode, ChainCleared, RootMarked, Collecting
  <1>3. QED
    BY <1>1, <1>2 DEF Sound, MarksSound, SweptSound

-----------------------------------------------------------------------------
LEMMA StartSweepSound ==
    ASSUME Inv, Sound, StartSweep
    PROVE  Sound'
  <1>1. Reachable' = Reachable
    BY ReachableSame DEF StartSweep, Collecting
  <1>2. PICK rank \in Rank : Ordered(rank)
    BY DEF Inv, IInv, ChainInv
  <1>3. Ordered(rank)'
    BY <1>2 DEF Ordered, StartSweep, Collecting
  <1>4. \A o \in live : rank[o] \in Nat /\ rank[Base] \in Nat /\ rank[o] < rank[Base]
    BY <1>2, Apart DEF Rank, Ordered, Inv, IInv, TypeOK
  <1>5. SweepPosition(rank)'
    BY <1>4 DEF SweepPosition, StartSweep, Collecting
  <1>6. \A o \in live' : ~(rank[o] >= rank[prev'])
    BY <1>4 DEF StartSweep, Collecting
  <1>7. Rank' = Rank
    BY DEF Rank, Linked, Obj
  <1>8. SweptSound'
    BY <1>2, <1>3, <1>5, <1>6, <1>7 DEF SweptSound
  <1>9. MarksSound'
    BY <1>1 DEF Sound, MarksSound, Marking, StartSweep, Collecting
  <1>10. QED
    BY <1>8, <1>9 DEF Sound

LEMMA SweepRetainSound ==
    ASSUME Inv, Sound, SweepRetain
    PROVE  Sound'
  <1>1. Reachable' = Reachable
    BY ReachableSame DEF SweepRetain, Collecting
  <1>2. PICK rank \in Rank :
            /\ Ordered(rank) /\ SweepPosition(rank)
            /\ \A o \in live : rank[o] >= rank[prev] => o \in Reachable \cup shared
    BY DEF Sound, SweptSound, SweepRetain
  <1>3. /\ Ordered(rank)' /\ SweepPosition(rank)'
        /\ node \in live /\ prev' = node
        /\ \A o \in live : rank[o] >= rank[node] => o = node \/ rank[o] >= rank[prev]
    BY <1>2, SweepRetainMoves
  <1>4. node \in Reachable \cup shared
    BY <1>3 DEF Sound, MarksSound, SweepRetain, Retained
  <1>5. \A o \in live' : rank[o] >= rank[prev'] => o \in Reachable' \cup shared'
    BY <1>1, <1>2, <1>3, <1>4 DEF SweepRetain, Collecting
  <1>6. Rank' = Rank
    BY DEF Rank, Linked, Obj
  <1>7. SweptSound'
    BY <1>2, <1>3, <1>5, <1>6 DEF SweptSound
  <1>8. MarksSound'
    BY <1>1 DEF Sound, MarksSound, Marking, SweepRetain, Collecting
  <1>9. QED
    BY <1>7, <1>8 DEF Sound

(* What is freed is out of reach, and takes nothing out of reach with it.  *)
LEMMA SweepFreeReach ==
    ASSUME Inv, SweepFree
    PROVE  Reachable' = Reachable
  <1>1. node \notin Reachable
    BY FreedUnreachable DEF SweepFree
  <1>2. /\ Reachable \subseteq Obj /\ Tree \in Reachable /\ Registered \subseteq Reachable
        /\ \A o \in Reachable : Kids(o) \subseteq Reachable
    BY ReachableLaws DEF Inv, IInv
  <1>3. \A o \in Reachable : Kids(o)' = Kids(o)
    BY <1>1, <1>2 DEF Kids, SweepFree, Inv, IInv, TypeOK
  <1>4. \A o \in Reachable : KidsOf'[o] = KidsOf[o] /\ KidsOf[o] \subseteq Obj
    BY <1>2, <1>3 DEF KidsOf, Obj
  <1>5. Reachable' = Reach(Obj, KidsOf', {Tree} \cup Registered)
    BY DEF Reachable, Registered, Obj, SweepFree
  <1> DEFINE roots == {Tree} \cup Registered
  <1>6. Reachable = Reach(Obj, KidsOf, roots) /\ roots \in SUBSET Obj
    BY <1>2 DEF Reachable
  <1> HIDE DEF roots
  <1>7. \A o \in Reach(Obj, KidsOf, roots) : KidsOf'[o] = KidsOf[o] /\ KidsOf[o] \subseteq Obj
    BY <1>4, <1>6
  <1>8. Reach(Obj, KidsOf', roots) = Reach(Obj, KidsOf, roots)
    BY <1>6, <1>7, ReachSame
  <1>9. QED
    BY <1>5, <1>6, <1>8 DEF roots

LEMMA SweepFreeSound ==
    ASSUME Inv, Sound, SweepFree
    PROVE  Sound'
  <1>1. Reachable' = Reachable
    BY SweepFreeReach
  <1>2. PICK rank \in Rank :
            /\ Ordered(rank) /\ SweepPosition(rank)
            /\ \A o \in live : rank[o] >= rank[prev] => o \in Reachable \cup shared
    BY DEF Sound, SweptSound, SweepFree
  <1>3. Ordered(rank)' /\ SweepPosition(rank)'
    BY <1>2, SweepFreeMoves
  <1>4. \A o \in live' : rank[o] >= rank[prev'] => o \in Reachable' \cup shared'
    BY <1>1, <1>2 DEF SweepFree
  <1>5. Rank' = Rank
    BY DEF Rank, Linked, Obj
  <1>6. SweptSound'
    BY <1>2, <1>3, <1>4, <1>5 DEF SweptSound
  <1>7. MarksSound'
    BY <1>1 DEF Sound, MarksSound, Marking, SweepFree
  <1>8. QED
    BY <1>6, <1>7 DEF Sound

-----------------------------------------------------------------------------
(* Outside a collection nothing is promised, and it starts from nothing.   *)
LEMMA MutatingSound ==
    ASSUME pc' = "mutate"
    PROVE  Sound'
  BY DEF Sound, MarksSound, SweptSound, Marking

LEMMA StutterSound ==
    ASSUME Sound, UNCHANGED vars
    PROVE  Sound'
  <1>1. Reachable' = Reachable
    BY ReachableSame DEF vars
  <1>2. MarksSound'
    BY <1>1 DEF vars, Sound, MarksSound, Marking
  <1>3. SweptSound'
    <2>1. Rank' = Rank
      BY DEF Rank, Linked, Obj
    <2>2. \A rank : /\ Ordered(rank) => Ordered(rank)'
                    /\ SweepPosition(rank) => SweepPosition(rank)'
      BY DEF Ordered, SweepPosition, vars
    <2>3. UNCHANGED <<pc, live, prev, shared>>
      BY DEF vars
    <2>4. QED
      BY <1>1, <2>1, <2>2, <2>3 DEF Sound, SweptSound
  <1>4. QED
    BY <1>2, <1>3 DEF Sound

LEMMA NextSound ==
    ASSUME Inv, Sound, [Next]_vars
    PROVE  Sound'
  <1>1. ASSUME Mutate PROVE pc' = "mutate"
    BY <1>1 DEF Mutate, MakeAtom, MakePair, MakeCustom, PushField, SetFirst, SetRest,
       PopField, EnterFrame, LeaveFrame, Unwind, Mutating
  <1>2. ASSUME SweepEnd PROVE pc' = "mutate"
    BY <1>2 DEF SweepEnd
  <1>3. QED
    BY <1>1, <1>2, MutatingSound, StartCollectionSound, MarkPairSound, MarkLeafSound,
       MarkReturnSound, PassesSound, MarkRootSound, StartSweepSound, SweepRetainSound,
       SweepFreeSound, StutterSound DEF Next, Collect

LEMMA InitSound ==
    ASSUME Init
    PROVE  Sound
  BY DEF Init, Sound, MarksSound, SweptSound, Marking

LEMMA SoundHolds == Spec => [](Inv /\ Sound)
  BY InitSound, NextSound, InvHolds, PTL DEF Spec

(* At the end of the chain everything has been passed. *)
LEMMA SweptOut ==
    ASSUME Inv, Sound, pc = "sweep", node = NULL
    PROVE  live \subseteq Reachable \cup shared
  <1>1. PICK rank \in Rank :
            /\ Ordered(rank) /\ SweepPosition(rank)
            /\ \A o \in live : rank[o] >= rank[prev] => o \in Reachable \cup shared
    BY DEF Sound, SweptSound
  <1>2. /\ prev \in live \cup {Base}
        /\ \A o \in live : ~(rank[o] < rank[prev])
        /\ \A o \in live \cup {Base} : rank[o] \in Nat
    BY <1>1, SweepFacts
  <1>3. QED
    BY <1>1, <1>2

LEMMA StepReclaims ==
    ASSUME Inv, Sound, Next, pc = "sweep", pc' = "mutate"
    PROVE  live \subseteq Reachable \cup shared
  <1>1. node = NULL
    BY DEF Next, Mutate, MakeAtom, MakePair, MakeCustom, PushField, SetFirst, SetRest,
       PopField, EnterFrame, LeaveFrame, Unwind, Mutating, StartCollection,
       Collect, MarkPair, MarkLeaf, MarkReturn, TreeMarked, ClearNode, ChainCleared,
       MarkRoot, RootMarked, StartSweep, SweepRetain, SweepFree, SweepEnd
  <1>2. QED
    BY <1>1, SweptOut

(* A collection reclaims all the garbage there is (x-heap.h:31): when the  *)
(* sweep ends, what is left is what the program reaches or SHARED, however *)
(* large the heap and whatever the graph of its objects.                   *)
THEOREM ReclaimsGarbage == Spec => GarbageReclaimed
  <1> DEFINE Reclaimed ==
        pc = "sweep" /\ pc' = "mutate" => live \subseteq Reachable \cup shared
  <1>1. Inv /\ Sound /\ [Next]_vars => [Reclaimed]_vars
    BY StepReclaims
  <1>2. QED
    BY <1>1, SoundHolds, PTL DEF Spec, GarbageReclaimed

-----------------------------------------------------------------------------
(* A reader that borrows the mark walk. *)

(* The clear has been over every object younger than node.                 *)
ClearProgress(rank) ==
    /\ node \in live \cup {NULL}
    /\ \A o \in live \cap flagged : node # NULL /\ rank[o] <= rank[node]

(* Which flag is in marked changes hands only when no object on the chain  *)
(* has the collector's: what is known of the walk holds for either flag.   *)
FlagsInv ==
    /\ reader \in {"idle", "marking", "holding", "clearing"}
    /\ flagged \subseteq live \cup Off
    /\ reader \in {"idle", "marking"} => flagged \cap live = {}
    /\ reader = "marking" => pc = "tree"
    /\ reader = "clearing" =>
          pc = "mutate" /\ \E rank \in Rank : Ordered(rank) /\ ClearProgress(rank)

BorrowInv == Inv /\ Sound /\ FlagsInv

(* When the tree mark has come to its end, it has marked what is reachable *)
(* and nothing else, as long as there are no stack objects with old marks. *)
LEMMA TreePassExact ==
    ASSUME Inv, Sound, pc = "tree", Exhausted, stk = <<>>, Off = {}
    PROVE  marked = Reachable
  <1>1. Registered = {} /\ marked \subseteq live
    BY RegisteredFacts DEF Inv, IInv, TypeOK
  <1>2. marked \subseteq Reachable
    BY <1>1 DEF Sound, MarksSound, Marking
  <1>3. Tree \in marked
    BY Apart DEF Inv, IInv, TreeIsMarked, Marking, Exhausted
  <1>4. RefersTo(live)
    BY DEF Inv, IInv, ChainInv
  <1>5. ASSUME NEW o \in marked, NEW k \in Kids(o) PROVE k \in marked /\ k \in Addr
    <2>1. k \in live /\ k # NULL /\ k \in Addr
      BY <1>1, <1>4, <1>5, Apart DEF RefersTo
    <2>2. k \in marked \/ Pending(o, k)
      BY <1>1, <1>5, <2>1 DEF Inv, IInv, Tricolor, Marking, Traced
    <2>3. QED
      BY <2>1, <2>2 DEF Pending, Exhausted
  <1>6. RefersTo(marked)
    BY <1>1, <1>5 DEF RefersTo
  <1>7. Reachable \subseteq marked
    <2>1. live \cup Registered \subseteq Obj
      BY <1>1, Apart DEF Inv, IInv, TypeOK
    <2>2. QED
      BY <1>1, <1>3, <1>6, <2>1, ReachableIn
  <1>8. QED
    BY <1>2, <1>7

-----------------------------------------------------------------------------
(* The reader's pass starts as a collection does. *)
LEMMA StartPassInv ==
    ASSUME BorrowInv, StartPass
    PROVE  BorrowInv'
  <1>1. /\ marked \cap live = {} /\ stk = <<>> /\ marked \subseteq live \cup Off
        /\ flagged \cap live = {} /\ flagged \subseteq live \cup Off
        /\ marked' = flagged /\ flagged' = marked /\ live' = live
    BY DEF BorrowInv, FlagsInv, Inv, IInv, MarksClean, WalkInv, TypeOK,
           StartPass, Collecting
  <1>2. /\ RootChainMirrorsFrames' /\ FramesDistinct'
        /\ SharedInert' /\ PairsStay' /\ Registered' = Registered
        /\ ChainInv(Rank)'
    BY FramesSame, ChainSame DEF StartPass, BorrowInv
  <1>3. TypeOK'
    BY <1>1, Apart DEF BorrowInv, Inv, IInv, TypeOK, StartPass, Collecting, Ref
  <1>4. WalkInv'
    BY <1>1, <1>2 DEF BorrowInv, Inv, IInv, TypeOK, WalkInv, StartPass, Collecting
  <1>5. Tricolor' /\ TreeIsMarked' /\ RootsProgress' /\ MarksClean'
    BY <1>1, <1>2 DEF Tricolor, Traced, TreeIsMarked, RootsProgress, MarksClean, StartPass
  <1>6. Reachable' = Reachable /\ Tree \in Reachable
    BY ReachableSame, ReachableLaws DEF StartPass, Collecting, BorrowInv, Inv, IInv
  <1>7. Sound'
    BY <1>1, <1>6 DEF Sound, MarksSound, SweptSound, StartPass
  <1>8. FlagsInv'
    BY <1>1 DEF FlagsInv, StartPass
  <1>9. QED
    BY <1>2, <1>3, <1>4, <1>5, <1>7, <1>8 DEF BorrowInv, Inv, IInv

(* A step that moves neither object nor reference, and leaves no mark      *)
(* behind on the chain.                                                    *)
LEMMA QuietInv ==
    ASSUME Inv, pc \in {"mutate", "tree"}, pc' = "mutate", stk = <<>>,
           Collecting, UNCHANGED <<heap, prev, stk>>,
           cur' = NULL, node' \in Ref,
           marked' \subseteq live \cup Off, marked' \cap live = {}
    PROVE  Inv' /\ Sound'
  <1>1. /\ RootChainMirrorsFrames' /\ FramesDistinct'
        /\ SharedInert' /\ PairsStay' /\ Registered' = Registered
        /\ ChainInv(Rank)'
    BY FramesSame, ChainSame
  <1>2. TypeOK'
    BY Apart DEF Inv, IInv, TypeOK, Collecting, Ref
  <1>3. WalkInv'
    BY EmptySeq DEF WalkInv, Collecting
  <1>4. Tricolor' /\ TreeIsMarked' /\ RootsProgress' /\ MarksClean'
    BY DEF Tricolor, Marking, TreeIsMarked, RootsProgress, MarksClean, Collecting
  <1>5. QED
    BY <1>1, <1>2, <1>3, <1>4, MutatingSound DEF Inv, IInv

LEMMA EndPassInv ==
    ASSUME BorrowInv, EndPass
    PROVE  BorrowInv'
  <1>1. /\ flagged \cap live = {} /\ flagged \subseteq live \cup Off
        /\ marked \subseteq live \cup Off /\ node \in Ref
        /\ pc = "tree" /\ stk = <<>>
        /\ marked' = flagged /\ flagged' = marked /\ live' = live
    BY DEF BorrowInv, FlagsInv, Inv, IInv, TypeOK, EndPass, PassEnds, Collecting
  <1>2. Inv' /\ Sound'
    BY <1>1, QuietInv DEF BorrowInv, EndPass
  <1>3. FlagsInv'
    BY <1>1 DEF FlagsInv, EndPass
  <1>4. QED
    BY <1>2, <1>3 DEF BorrowInv

-----------------------------------------------------------------------------
(* What is younger than the head of the chain: nothing. *)
LEMMA TakeBackInv ==
    ASSUME BorrowInv, TakeBack
    PROVE  BorrowInv'
  <1>1. PICK rank \in Rank : Ordered(rank)
    BY DEF BorrowInv, Inv, IInv, ChainInv
  <1>2. /\ heap[Base] # NULL => heap[Base] \in live
        /\ \A o \in live : heap[Base] # NULL /\ rank[o] <= rank[heap[Base]]
    BY <1>1 DEF Ordered
  <1>3. /\ cur = NULL /\ stk = <<>> /\ marked \cap live = {}
        /\ marked \subseteq live \cup Off /\ heap[Base] \in Ref
    BY Apart DEF BorrowInv, Inv, IInv, WalkInv, MarksClean, TypeOK, TakeBack
  <1>4. Inv' /\ Sound'
    BY <1>3, QuietInv DEF BorrowInv, TakeBack
  <1>5. Ordered(rank)' /\ Rank' = Rank
    BY <1>1 DEF Ordered, Rank, Linked, Obj, TakeBack, Collecting
  <1>6. ClearProgress(rank)'
    BY <1>2 DEF ClearProgress, TakeBack, Collecting
  <1>7. flagged' \subseteq live' \cup Off
    BY DEF BorrowInv, FlagsInv, TakeBack, Collecting
  <1>8. QED
    BY <1>1, <1>4, <1>5, <1>6, <1>7 DEF BorrowInv, FlagsInv, TakeBack

LEMMA ClearTakenInv ==
    ASSUME BorrowInv, ClearTaken
    PROVE  BorrowInv'
  <1>1. PICK rank \in Rank : Ordered(rank) /\ ClearProgress(rank)
    BY DEF BorrowInv, FlagsInv, ClearTaken
  <1>2. /\ node \in live /\ live \subseteq Linked
        /\ heap[node] \in live \cup {NULL}
    BY <1>1, Apart DEF ClearTaken, ClearProgress, Ordered, BorrowInv, Inv, IInv, TypeOK
  <1>3. /\ pc = "mutate" /\ cur = NULL /\ stk = <<>> /\ marked \cap live = {}
        /\ marked \subseteq live \cup Off /\ heap[node] \in Ref
    BY <1>2, Apart DEF BorrowInv, FlagsInv, Inv, IInv, WalkInv, MarksClean, TypeOK, ClearTaken
  <1>4. Inv' /\ Sound'
    BY <1>3, QuietInv DEF BorrowInv, ClearTaken
  <1>5. Ordered(rank)' /\ Rank' = Rank
    BY <1>1 DEF Ordered, Rank, Linked, Obj, ClearTaken, Collecting
  <1>6. ClearProgress(rank)'
    <2>1. ASSUME NEW o \in live, o \in flagged, o # node
          PROVE  heap[node] # NULL /\ rank[o] <= rank[heap[node]]
      <3>1. rank[o] \in Nat /\ rank[node] \in Nat
        BY <1>2 DEF Rank
      <3>2. rank[o] < rank[node]
        BY <1>1, <1>2, <2>1, <3>1 DEF ClearProgress, Ordered
      <3>3. QED
        BY <1>1, <1>2, <2>1, <3>2 DEF Ordered
    <2>2. QED
      BY <1>2, <2>1 DEF ClearTaken, Collecting, ClearProgress
  <1>7. flagged' \subseteq live' \cup Off
    BY DEF BorrowInv, FlagsInv, ClearTaken, Collecting
  <1>8. QED
    BY <1>1, <1>3, <1>4, <1>5, <1>6, <1>7 DEF BorrowInv, FlagsInv, ClearTaken

(* At the end of the chain no flag is left. *)
LEMMA TakenBackInv ==
    ASSUME BorrowInv, TakenBack
    PROVE  BorrowInv'
  <1>1. PICK rank \in Rank : Ordered(rank) /\ ClearProgress(rank)
    BY DEF BorrowInv, FlagsInv, TakenBack
  <1>2. flagged \cap live = {}
    BY <1>1 DEF ClearProgress, TakenBack
  <1>3. Inv' /\ Sound'
    BY StutterInv, StutterSound DEF BorrowInv, TakenBack
  <1>4. flagged' \subseteq live' \cup Off /\ flagged' \cap live' = {}
    BY <1>2 DEF BorrowInv, FlagsInv, TakenBack, vars
  <1>5. QED
    BY <1>3, <1>4 DEF BorrowInv, FlagsInv, TakenBack

-----------------------------------------------------------------------------
(* The program and the collector keep the invariant, and no new object has *)
(* the flag.                                                               *)
LEMMA NextInv ==
    ASSUME Inv, [Next]_vars
    PROVE  Inv'
  BY MutateInv, StartCollectionInv, CollectInv, StutterInv DEF Next

LEMMA WalkKeepsInv ==
    ASSUME BorrowInv, Walk
    PROVE  BorrowInv'
  <1>1. Next
    BY DEF Walk, Next, Collect
  <1>2. Inv' /\ Sound'
    BY <1>1, NextInv, NextSound DEF BorrowInv
  <1>3. live' = live /\ pc' = pc /\ UNCHANGED <<flagged, reader>>
    BY DEF Walk, MarkPair, MarkLeaf, MarkReturn, Collecting
  <1>4. FlagsInv'
    BY <1>3 DEF BorrowInv, FlagsInv, Walk
  <1>5. QED
    BY <1>2, <1>4 DEF BorrowInv

LEMMA ElsewhereInv ==
    ASSUME BorrowInv, Program \/ Collector
    PROVE  BorrowInv'
  <1>1. Next
    BY DEF Program, Collector, Next
  <1>2. Inv' /\ Sound'
    BY <1>1, NextInv, NextSound DEF BorrowInv
  <1>3. flagged' \subseteq flagged \cap (live' \cup Off)
    BY DEF Program, Collector, FlagsStay
  <1>4. live' \cap Off = {}
    BY <1>2, Apart DEF Inv, IInv, TypeOK
  <1>5. ASSUME flagged \cap live = {} PROVE flagged' \cap live' = {}
    BY <1>3, <1>4, <1>5 DEF BorrowInv, FlagsInv
  <1>6. reader' = reader /\ reader \in {"idle", "holding"}
    BY DEF Program, Collector
  <1>7. FlagsInv'
    BY <1>3, <1>5, <1>6 DEF BorrowInv, FlagsInv
  <1>8. QED
    BY <1>2, <1>7 DEF BorrowInv

LEMMA BorrowStutter ==
    ASSUME BorrowInv, UNCHANGED borrowVars
    PROVE  BorrowInv'
  <1>1. UNCHANGED vars /\ UNCHANGED <<flagged, reader>>
    BY DEF borrowVars
  <1>2. Inv' /\ Sound'
    BY <1>1, StutterInv, StutterSound DEF BorrowInv
  <1>3. UNCHANGED <<live, heap, node, pc, flagged, reader>>
    BY <1>1 DEF vars
  <1>4. \A rank : Ordered(rank) /\ ClearProgress(rank) =>
                    Ordered(rank)' /\ ClearProgress(rank)'
    BY <1>3 DEF Ordered, ClearProgress
  <1>5. Rank' = Rank
    BY DEF Rank, Linked, Obj
  <1>6. FlagsInv'
    BY <1>3, <1>4, <1>5 DEF BorrowInv, FlagsInv
  <1>7. QED
    BY <1>2, <1>6 DEF BorrowInv

LEMMA BorrowInvHolds == BorrowSpec => []BorrowInv
  <1>1. BorrowInit => BorrowInv
    BY InitInv, InitSound DEF BorrowInit, BorrowInv, FlagsInv
  <1>2. BorrowInv /\ [BorrowNext]_borrowVars => BorrowInv'
    BY StartPassInv, WalkKeepsInv, EndPassInv, ElsewhereInv, TakeBackInv,
       ClearTakenInv, TakenBackInv, BorrowStutter DEF BorrowNext
  <1>3. QED
    BY <1>1, <1>2, PTL DEF BorrowSpec

(* Once the reader has taken its flag back no object on the chain has it   *)
(* (x-heap.c:127-135): x_heap_chain_clear finds every one, whatever became *)
(* garbage, was freed or was allocated between the mark and the clear.     *)
THEOREM FlagsTakenBack == BorrowSpec => []HeapFlagsTakenBack
  <1>1. BorrowInv => HeapFlagsTakenBack
    BY DEF BorrowInv, FlagsInv, HeapFlagsTakenBack
  <1>2. QED
    BY <1>1, BorrowInvHolds, PTL

(* A reader's pass sees what is reachable, all of it and nothing else,     *)
(* whatever the graph: without stack objects no old mark stands in its way.*)
THEOREM PassIsExact ==
    ASSUME Off = {}
    PROVE  BorrowSpec => []PassSeesReachable
  <1>1. BorrowInv => PassSeesReachable
    BY TreePassExact DEF BorrowInv, FlagsInv, PassEnds, PassSeesReachable
  <1>2. QED
    BY <1>1, BorrowInvHolds, PTL

(* The collector keeps its promise with a reader at work between and       *)
(* across collections: nothing the program reaches is freed.               *)
THEOREM BorrowingIsHarmless == BorrowSpec => OnlyGarbageFreed
  <1> DEFINE Freed == \A o \in live \ live' : o \notin shared /\ o \notin Reachable
  <1>1. ASSUME BorrowInv, [BorrowNext]_borrowVars PROVE Freed
    <2>1. CASE Next
      BY <1>1, <2>1, StepFreesGarbage DEF BorrowInv
    <2>2. CASE ~Next
      BY <1>1, <2>2 DEF BorrowNext, StartPass, Walk, EndPass, Program, Collector,
         TakeBack, ClearTaken, TakenBack, Next, Collect, Collecting, borrowVars, vars
    <2>3. QED
      BY <2>1, <2>2
  <1>2. BorrowInv /\ [BorrowNext]_borrowVars => [Freed]_vars
    BY <1>1
  <1>3. QED
    BY <1>2, BorrowInvHolds, PTL DEF BorrowSpec, OnlyGarbageFreed

(* With a reader at work too, nothing the program reaches has been freed.  *)
THEOREM BorrowingDanglesNothing == BorrowSpec => []NoDangling
  <1>1. BorrowInv => NoDangling
    BY ReachableIsThere DEF BorrowInv
  <1>2. QED
    BY <1>1, BorrowInvHolds, PTL

(* Nor does the reader keep a collection from reclaiming all the garbage,  *)
(* what has its flag included.                                             *)
THEOREM BorrowingReclaims == BorrowSpec => GarbageReclaimed
  <1> DEFINE Reclaimed ==
        pc = "sweep" /\ pc' = "mutate" => live \subseteq Reachable \cup shared
  <1>1. ASSUME BorrowInv, [BorrowNext]_borrowVars, pc = "sweep", pc' = "mutate"
        PROVE  live \subseteq Reachable \cup shared
    <2>1. Next
      BY <1>1 DEF BorrowInv, FlagsInv, BorrowNext, StartPass, Walk, EndPass, PassEnds,
         Program, Collector, TakeBack, ClearTaken, TakenBack, Next, borrowVars, vars
    <2>2. QED
      BY <1>1, <2>1, StepReclaims DEF BorrowInv
  <1>2. BorrowInv /\ [BorrowNext]_borrowVars => [Reclaimed]_vars
    BY <1>1
  <1>3. QED
    BY <1>2, BorrowInvHolds, PTL DEF BorrowSpec, GarbageReclaimed

(* The allocation chain stays complete through the passes of a reader,     *)
(* which walks along it.                                                   *)
THEOREM BorrowingKeepsChain == BorrowSpec => []ChainComplete
  <1>1. ASSUME LiveFinite, [BorrowNext]_borrowVars PROVE LiveFinite'
    <2>1. CASE [Next]_vars
      BY <1>1, <2>1, StepKeepsFinite
    <2>2. CASE ~[Next]_vars
      <3>1. live' = live
        BY <1>1, <2>2 DEF BorrowNext, StartPass, Walk, EndPass, Program, Collector,
           TakeBack, ClearTaken, TakenBack, Next, Collect, Collecting, borrowVars, vars
      <3>2. QED
        BY <1>1, <3>1 DEF LiveFinite
    <2>3. QED
      BY <2>1, <2>2
  <1>2. BorrowInit => LiveFinite
    BY InitFinite DEF BorrowInit
  <1>3. BorrowInv /\ LiveFinite => ChainComplete
    BY InvIsComplete DEF BorrowInv
  <1>4. QED
    BY <1>1, <1>2, <1>3, BorrowInvHolds, PTL DEF BorrowSpec
=============================================================================
