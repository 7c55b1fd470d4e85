----------------------------- MODULE XHeap_proofs -----------------------------
(***************************************************************************)
(* Proofs about XHeap: the inductive invariant of XHeapInv holds, and with *)
(* it type correctness, the mirror of the C stack, and that no reachable   *)
(* object is ever freed.                                                   *)
(***************************************************************************)
EXTENDS XHeapInv, XFacts, FiniteSetTheorems

Rank == [Linked -> Nat]
Inv == IInv(Rank)

-----------------------------------------------------------------------------
(* The objects are told apart. *)
LEMMA Apart ==
    /\ Tree \in Obj /\ Tree \in Linked /\ Base \in Linked
    /\ Addr \subseteq Obj /\ Off \subseteq Obj /\ Obj \subseteq Linked
    /\ Addr \cap Off = {} /\ Tree \notin Addr /\ Tree \notin Off
    /\ NULL \notin Linked /\ Base \notin Obj
  BY ObjectsAreDistinct DEF Obj, Linked

LEMMA RegisteredFacts ==
    ASSUME TypeOK
    PROVE  /\ Registered \subseteq Off
           /\ \A i \in DOMAIN frames : frames[i] \in Registered
           /\ \A n \in Registered : \E i \in DOMAIN frames : n = frames[i]
           /\ Len(frames) \in Nat /\ DOMAIN frames = 1 .. Len(frames)
  BY DEF TypeOK, Registered, Range

-----------------------------------------------------------------------------
(* What a step of the collector that leaves the chain alone preserves.     *)

LEMMA KidsSame ==
    ASSUME UNCHANGED <<kind, first, rest>>
    PROVE  \A o : Kids(o)' = Kids(o)
  BY DEF Kids

LEMMA FramesSame ==
    ASSUME Inv, Collecting, UNCHANGED heap
    PROVE  /\ RootChainMirrorsFrames' /\ FramesDistinct'
           /\ SharedInert' /\ PairsStay'
           /\ Registered' = Registered
  BY DEF Inv, IInv, Collecting, RootChainMirrorsFrames, FramesDistinct,
         SharedInert, PairsStay, Registered, RootChain

LEMMA ChainSame ==
    ASSUME Inv, Collecting, UNCHANGED heap, pc # "sweep", pc' # "sweep"
    PROVE  ChainInv(Rank)'
  <1>1. PICK rank \in Rank : Ordered(rank) /\ RefersTo(live)
    BY DEF Inv, IInv, ChainInv
  <1>2. Ordered(rank)'
    BY <1>1 DEF Ordered, Collecting
  <1>3. RefersTo(live)'
    BY <1>1, KidsSame DEF RefersTo, Collecting, Registered
  <1>4. Rank' = Rank
    BY DEF Rank, Linked, Obj
  <1>5. QED
    BY <1>2, <1>3, <1>4 DEF ChainInv
-----------------------------------------------------------------------------
LEMMA StartCollectionInv ==
    ASSUME Inv, StartCollection
    PROVE  Inv'
  <1>1. /\ RootChainMirrorsFrames' /\ FramesDistinct'
        /\ SharedInert' /\ PairsStay' /\ Registered' = Registered
        /\ ChainInv(Rank)'
    BY FramesSame, ChainSame DEF StartCollection
  <1>2. TypeOK'
    BY Apart DEF Inv, IInv, TypeOK, StartCollection, Collecting, Ref
  <1>3. WalkInv'
    BY <1>1 DEF Inv, IInv, TypeOK, WalkInv, StartCollection, Collecting
  <1>4. Tricolor' /\ TreeIsMarked' /\ RootsProgress' /\ MarksClean'
    BY <1>1 DEF Inv, IInv, Tricolor, Traced, TreeIsMarked, RootsProgress, MarksClean,
           StartCollection, Collecting
  <1>5. QED
    BY <1>1, <1>2, <1>3, <1>4 DEF Inv, IInv

(* The walk visits what is there. *)
LEMMA CurFacts ==
    ASSUME Inv, ~Exhausted
    PROVE  /\ cur \in live \cup Registered /\ cur \in Obj /\ cur \notin marked
           /\ pc \in {"tree", "walk"} => (Kids(cur) \subseteq live \cup Registered)
  <1>1. /\ cur \in live \cup Registered /\ cur \in Obj /\ cur \notin marked
    BY RegisteredFacts, Apart DEF Inv, IInv, TypeOK, WalkInv, Exhausted
  <1>2. ASSUME pc \in {"tree", "walk"}
        PROVE  Kids(cur) \subseteq live \cup Registered
    BY <1>1, <1>2 DEF Inv, IInv, ChainInv, RefersTo
  <1>3. QED
    BY <1>1, <1>2

LEMMA MarkPairInv ==
    ASSUME Inv, MarkPair
    PROVE  Inv'
  <1>1. /\ RootChainMirrorsFrames' /\ FramesDistinct'
        /\ SharedInert' /\ PairsStay' /\ Registered' = Registered
        /\ ChainInv(Rank)'
    BY FramesSame, ChainSame DEF MarkPair
  <1>2. /\ cur \in live \cup Registered /\ cur \in Obj /\ cur \notin marked
        /\ Kids(cur) \subseteq live \cup Registered
        /\ Kids(cur) = {first[cur], rest[cur]} \ {NULL}
    BY CurFacts DEF MarkPair, Kids
  <1>3. /\ stk' \in Seq(Obj) /\ stk \in Seq(Obj)
        /\ Len(stk) \in Nat /\ DOMAIN stk = 1 .. Len(stk)
        /\ DOMAIN stk' = 1 .. Len(stk) + 1
        /\ \A i \in 1 .. Len(stk) : stk'[i] = stk[i]
        /\ stk'[Len(stk) + 1] = cur
    BY <1>2, AppendFacts DEF MarkPair, Inv, IInv, TypeOK
  <1>4. TypeOK'
    BY <1>2, <1>3, RegisteredFacts
       DEF Inv, IInv, TypeOK, MarkPair, Collecting, Ref
  <1>5. WalkInv'
    <2>1. cur' \in live' \cup Registered' \cup {NULL}
      BY <1>1, <1>2 DEF MarkPair, Collecting
    <2>2. ASSUME NEW i \in DOMAIN stk'
          PROVE  stk'[i] \in marked' \cap (live' \cup Registered') /\ kind'[stk'[i]] = "pair"
      BY <1>1, <1>2, <1>3 DEF Inv, IInv, WalkInv, MarkPair, Collecting
    <2>3. QED
      BY <1>1, <2>1, <2>2 DEF Inv, IInv, WalkInv, MarkPair, Collecting
  <1>6. Tricolor'
    <2>1. SUFFICES ASSUME NEW o \in Traced', NEW k \in (Kids(o) \cap live)', k \notin marked'
                   PROVE  Pending(o, k)'
      BY DEF Tricolor
    <2>2. k \in Kids(o) /\ k \in live /\ k \notin marked
      BY <2>1, KidsSame DEF MarkPair, Collecting
    <2>3. CASE o = cur
      BY <1>2, <1>3, <2>2, <2>3 DEF Pending, MarkPair, Collecting
    <2>4. CASE o # cur
      <3>1. o \in Traced
        BY <1>1, <2>1, <2>4 DEF Traced, MarkPair, Collecting
      <3>2. Pending(o, k)
        BY <2>2, <3>1 DEF Inv, IInv, Tricolor, Marking, MarkPair
      <3>3. k # cur
        BY <2>1 DEF MarkPair
      <3>4. QED
        BY <1>3, <3>2, <3>3 DEF Pending, MarkPair, Collecting
    <2>5. QED
      BY <2>3, <2>4
  <1>7. TreeIsMarked' /\ RootsProgress' /\ MarksClean'
    BY DEF Inv, IInv, TreeIsMarked, Marking, RootsProgress, Newer, MarksClean,
           MarkPair, Collecting
  <1>8. QED
    BY <1>1, <1>4, <1>5, <1>6, <1>7 DEF Inv, IInv

LEMMA MarkLeafInv ==
    ASSUME Inv, MarkLeaf
    PROVE  Inv'
  <1>1. /\ RootChainMirrorsFrames' /\ FramesDistinct'
        /\ SharedInert' /\ PairsStay' /\ Registered' = Registered
        /\ ChainInv(Rank)'
    BY FramesSame, ChainSame DEF MarkLeaf
  <1>2. /\ cur \in live \cup Registered /\ cur \in Obj /\ cur \notin marked
        /\ Kids(cur) \subseteq live \cup Registered
        /\ Kids(cur) = {HookNext(cur)} \ {NULL}
    <2>1. kind[cur] \in {"atom", "custom"}
      BY CurFacts DEF MarkLeaf, Inv, IInv, TypeOK
    <2>2. QED
      BY <2>1, CurFacts DEF MarkLeaf, Kids, HookNext
  <1>3. cur' \in live \cup Registered \cup {NULL}
    BY <1>2 DEF MarkLeaf
  <1>4. TypeOK'
    BY <1>2, <1>3, RegisteredFacts, Apart
       DEF Inv, IInv, TypeOK, MarkLeaf, Collecting, Ref, Obj
  <1>5. WalkInv'
    BY <1>1, <1>3 DEF Inv, IInv, WalkInv, MarkLeaf, Collecting
  <1>6. Tricolor'
    <2>1. SUFFICES ASSUME NEW o \in Traced', NEW k \in (Kids(o) \cap live)', k \notin marked'
                   PROVE  Pending(o, k)'
      BY DEF Tricolor
    <2>2. k \in Kids(o) /\ k \in live /\ k \notin marked
      BY <2>1, KidsSame DEF MarkLeaf, Collecting
    <2>3. CASE o = cur
      BY <1>2, <2>2, <2>3 DEF Pending, MarkLeaf, Collecting
    <2>4. CASE o # cur
      <3>1. o \in Traced
        BY <1>1, <2>1, <2>4 DEF Traced, MarkLeaf, Collecting
      <3>2. Pending(o, k)
        BY <2>2, <3>1 DEF Inv, IInv, Tricolor, Marking, MarkLeaf
      <3>3. k # cur
        BY <2>1 DEF MarkLeaf
      <3>4. QED
        BY <3>2, <3>3 DEF Pending, MarkLeaf, Collecting
    <2>5. QED
      BY <2>3, <2>4
  <1>7. TreeIsMarked' /\ RootsProgress' /\ MarksClean'
    BY DEF Inv, IInv, TreeIsMarked, Marking, RootsProgress, Newer, MarksClean,
           MarkLeaf, Collecting
  <1>8. QED
    BY <1>1, <1>4, <1>5, <1>6, <1>7 DEF Inv, IInv

LEMMA MarkReturnInv ==
    ASSUME Inv, MarkReturn
    PROVE  Inv'
  <1> DEFINE top == Last(stk)
  <1>1. /\ RootChainMirrorsFrames' /\ FramesDistinct'
        /\ SharedInert' /\ PairsStay' /\ Registered' = Registered
        /\ ChainInv(Rank)'
    BY FramesSame, ChainSame DEF MarkReturn
  <1>2. /\ stk' \in Seq(Obj) /\ Len(stk) \in Nat \ {0}
        /\ DOMAIN stk = 1 .. Len(stk) /\ DOMAIN stk' = 1 .. Len(stk) - 1
        /\ \A i \in 1 .. Len(stk) - 1 : stk'[i] = stk[i]
        /\ top = stk[Len(stk)]
    BY FrontFacts DEF MarkReturn, Inv, IInv, TypeOK
  <1>3. top \in live \cup Registered /\ kind[top] = "pair"
    BY <1>2 DEF Inv, IInv, WalkInv
  <1>4. cur' \in live \cup Registered \cup {NULL}
    <2>1. rest[top] # NULL => rest[top] \in Kids(top)
      BY <1>3 DEF Kids
    <2>2. Kids(top) \subseteq live \cup Registered
      BY <1>3 DEF Inv, IInv, ChainInv, RefersTo, MarkReturn
    <2>3. QED
      BY <2>1, <2>2 DEF MarkReturn
  <1>5. TypeOK'
    BY <1>2, <1>4, RegisteredFacts, Apart
       DEF Inv, IInv, TypeOK, MarkReturn, Collecting, Ref, Obj
  <1>6. WalkInv'
    BY <1>1, <1>2, <1>4 DEF Inv, IInv, WalkInv, MarkReturn, Collecting
  <1>7. Tricolor'
    <2>1. SUFFICES ASSUME NEW o \in Traced', NEW k \in (Kids(o) \cap live)', k \notin marked'
                   PROVE  Pending(o, k)'
      BY DEF Tricolor
    <2>2. k \in Kids(o) /\ k \in live /\ k \notin marked /\ o \in Traced /\ k # NULL
      BY <1>1, <2>1, KidsSame DEF MarkReturn, Collecting, Kids, Traced
    <2>3. Pending(o, k) /\ k # cur
      BY <2>2 DEF Inv, IInv, Tricolor, Marking, MarkReturn, Exhausted
    <2>4. PICK i \in DOMAIN stk : stk[i] = o /\ k = rest[o]
      BY <2>3 DEF Pending
    <2>5. QED
      BY <1>2, <2>3, <2>4 DEF Pending, MarkReturn, Collecting
  <1>8. TreeIsMarked' /\ RootsProgress' /\ MarksClean'
    BY Apart DEF Inv, IInv, TreeIsMarked, Marking, RootsProgress, Newer, MarksClean,
           MarkReturn, Collecting, Exhausted, WalkInv
  <1>9. QED
    BY <1>1, <1>5, <1>6, <1>7, <1>8 DEF Inv, IInv

-----------------------------------------------------------------------------
(* The walk over the root chain goes from the newest frame to the oldest.  *)

LEMMA NewerStart ==
    ASSUME Inv
    PROVE  RootChain \in Registered \cup {NULL} /\ Newer(RootChain) = {}
  <1>1. CASE frames = <<>>
    BY <1>1 DEF Inv, IInv, RootChainMirrorsFrames, Newer
  <1>2. CASE frames # <<>>
    <2>1. /\ Len(frames) \in Nat \ {0} /\ DOMAIN frames = 1 .. Len(frames)
          /\ RootChain = frames[Len(frames)]
      BY <1>2, FrontFacts DEF Inv, IInv, TypeOK, RootChainMirrorsFrames
    <2>2. QED
      BY <2>1, RegisteredFacts DEF Newer, Inv, IInv
  <1>3. QED
    BY <1>1, <1>2

LEMMA NewerEnd ==
    ASSUME Inv
    PROVE  Newer(NULL) = Registered
  BY RegisteredFacts, Apart DEF Inv, IInv, Newer

LEMMA NewerStep ==
    ASSUME Inv, NEW n \in Registered
    PROVE  heap[n] \in Registered \cup {NULL} /\ Newer(heap[n]) = Newer(n) \cup {n}
  <1>1. PICK i \in DOMAIN frames : n = frames[i]
    BY RegisteredFacts DEF Inv, IInv
  <1>2. /\ Len(frames) \in Nat /\ DOMAIN frames = 1 .. Len(frames)
        /\ \A j \in DOMAIN frames : frames[j] \in Registered /\ frames[j] # NULL
    BY RegisteredFacts, Apart DEF Inv, IInv
  <1>3. \A j, k \in DOMAIN frames : frames[j] = frames[k] => j = k
    BY DEF Inv, IInv, FramesDistinct
  <1>4. Newer(n) = {frames[j] : j \in i + 1 .. Len(frames)}
    BY <1>1, <1>2, <1>3 DEF Newer
  <1>5. CASE i = 1
    <2>1. heap[n] = NULL
      BY <1>1, <1>5 DEF Inv, IInv, RootChainMirrorsFrames
    <2>2. Newer(heap[n]) = {frames[j] : j \in 1 .. Len(frames)}
      BY <1>2, <2>1 DEF Newer
    <2>3. QED
      BY <1>1, <1>2, <1>4, <1>5, <2>1, <2>2
  <1>6. CASE i # 1
    <2>1. heap[n] = frames[i - 1] /\ i - 1 \in DOMAIN frames
      BY <1>1, <1>2, <1>6 DEF Inv, IInv, RootChainMirrorsFrames
    <2>2. Newer(heap[n]) = {frames[j] : j \in i .. Len(frames)}
      BY <1>2, <1>3, <2>1 DEF Newer
    <2>3. QED
      BY <1>1, <1>2, <1>4, <2>1, <2>2
  <1>7. QED
    BY <1>5, <1>6

LEMMA TreeMarkedInv ==
    ASSUME Inv, TreeMarked
    PROVE  Inv'
  <1>1. /\ RootChainMirrorsFrames' /\ FramesDistinct'
        /\ SharedInert' /\ PairsStay' /\ Registered' = Registered
        /\ ChainInv(Rank)'
    BY FramesSame, ChainSame DEF TreeMarked
  <1>2. node' \in Registered \cup {NULL} /\ Newer(node)' = {}
    BY NewerStart DEF TreeMarked, Collecting, Newer
  <1>3. TypeOK'
    BY <1>2, RegisteredFacts, Apart DEF Inv, IInv, TypeOK, TreeMarked, Collecting, Ref
  <1>4. WalkInv'
    BY <1>1, <1>2 DEF Inv, IInv, WalkInv, TreeMarked, Collecting
  <1>5. Tricolor'
    <2>1. SUFFICES ASSUME NEW o \in Traced', NEW k \in (Kids(o) \cap live)'
                   PROVE  k \in marked'
      BY DEF Tricolor
    <2>2. k \in Kids(o) /\ k \in live /\ o \in Traced /\ k # NULL
      BY <2>1, KidsSame DEF TreeMarked, Collecting, Kids, Traced
    <2>3. k \in marked \/ Pending(o, k)
      BY <2>2 DEF Inv, IInv, Tricolor, Marking, TreeMarked
    <2>4. QED
      BY <2>2, <2>3 DEF Pending, TreeMarked, Exhausted
  <1>6. TreeIsMarked' /\ RootsProgress' /\ MarksClean'
    BY <1>2, Apart DEF Inv, IInv, TreeIsMarked, Marking, RootsProgress, MarksClean,
           TreeMarked, Collecting, Exhausted
  <1>7. QED
    BY <1>1, <1>3, <1>4, <1>5, <1>6 DEF Inv, IInv

LEMMA ClearNodeInv ==
    ASSUME Inv, ClearNode
    PROVE  Inv'
  <1>1. /\ RootChainMirrorsFrames' /\ FramesDistinct'
        /\ SharedInert' /\ PairsStay' /\ Registered' = Registered
        /\ ChainInv(Rank)'
    BY FramesSame, ChainSame DEF ClearNode
  <1>2. node \in Registered /\ node \in Off /\ node \notin live
    BY RegisteredFacts, Apart DEF Inv, IInv, TypeOK, WalkInv, ClearNode
  <1>3. node' \in Registered \cup {NULL} /\ Newer(node)' = Newer(node) \cup {node}
    <2>1. /\ heap[node] \in Registered \cup {NULL}
          /\ Newer(heap[node]) = Newer(node) \cup {node}
      BY <1>2, NewerStep
    <2>2. node' = heap[node] /\ frames' = frames
      BY DEF ClearNode, Collecting
    <2>3. Newer(node)' = Newer(heap[node])
      BY <2>2 DEF Newer
    <2>4. QED
      BY <2>1, <2>2, <2>3
  <1>4. TypeOK'
    BY <1>3, RegisteredFacts, Apart DEF Inv, IInv, TypeOK, ClearNode, Collecting, Ref
  <1>5. WalkInv'
    BY <1>1, <1>3 DEF Inv, IInv, WalkInv, ClearNode, Collecting
  <1>6. Tricolor'
    <2>1. SUFFICES ASSUME NEW o \in Traced', NEW k \in (Kids(o) \cap live)'
                   PROVE  k \in marked'
      BY DEF Tricolor
    <2>2. k \in Kids(o) /\ k \in live /\ o \in Traced
      BY <2>1, KidsSame DEF ClearNode, Collecting, Traced
    <2>3. k \in marked
      BY <2>2 DEF Inv, IInv, Tricolor, Marking, Pending, ClearNode
    <2>4. QED
      BY <1>2, <2>2, <2>3 DEF ClearNode
  <1>7. TreeIsMarked' /\ RootsProgress' /\ MarksClean'
    BY <1>2, <1>3, Apart DEF Inv, IInv, TreeIsMarked, Marking, RootsProgress, MarksClean,
           ClearNode, Collecting
  <1>8. QED
    BY <1>1, <1>4, <1>5, <1>6, <1>7 DEF Inv, IInv

LEMMA ChainClearedInv ==
    ASSUME Inv, ChainCleared
    PROVE  Inv'
  <1>1. /\ RootChainMirrorsFrames' /\ FramesDistinct'
        /\ SharedInert' /\ PairsStay' /\ Registered' = Registered
        /\ ChainInv(Rank)'
    BY FramesSame, ChainSame DEF ChainCleared
  <1>2. node' \in Registered \cup {NULL} /\ Newer(node)' = {}
    BY NewerStart DEF ChainCleared, Collecting, Newer
  <1>3. Registered \cap marked = {}
    BY NewerEnd DEF Inv, IInv, RootsProgress, ChainCleared
  <1>4. TypeOK'
    BY <1>2, RegisteredFacts, Apart DEF Inv, IInv, TypeOK, ChainCleared, Collecting, Ref
  <1>5. WalkInv'
    BY <1>1, <1>2 DEF Inv, IInv, WalkInv, ChainCleared, Collecting
  <1>6. Tricolor'
    <2>1. SUFFICES ASSUME NEW o \in Traced', NEW k \in (Kids(o) \cap live)'
                   PROVE  k \in marked'
      BY DEF Tricolor
    <2>2. k \in Kids(o) /\ k \in live /\ o \in Traced
      BY <1>1, <1>3, <2>1, KidsSame DEF ChainCleared, Collecting, Traced
    <2>3. QED
      BY <2>2 DEF Inv, IInv, Tricolor, Marking, Pending, ChainCleared
  <1>7. TreeIsMarked' /\ RootsProgress' /\ MarksClean'
    BY <1>2 DEF Inv, IInv, TreeIsMarked, Marking, RootsProgress, MarksClean,
           ChainCleared, Collecting
  <1>8. QED
    BY <1>1, <1>4, <1>5, <1>6, <1>7 DEF Inv, IInv

LEMMA MarkRootInv ==
    ASSUME Inv, MarkRoot
    PROVE  Inv'
  <1>1. /\ RootChainMirrorsFrames' /\ FramesDistinct'
        /\ SharedInert' /\ PairsStay' /\ Registered' = Registered
        /\ ChainInv(Rank)'
    BY FramesSame, ChainSame DEF MarkRoot
  <1>2. TypeOK'
    BY DEF Inv, IInv, TypeOK, MarkRoot, Collecting
  <1>3. WalkInv'
    BY <1>1 DEF Inv, IInv, WalkInv, MarkRoot, Collecting
  <1>4. Tricolor'
    BY <1>1, KidsSame DEF Inv, IInv, Tricolor, Marking, Traced, Pending, MarkRoot, Collecting
  <1>5. TreeIsMarked' /\ RootsProgress' /\ MarksClean'
    BY DEF Inv, IInv, TreeIsMarked, Marking, RootsProgress, Newer, MarksClean,
           MarkRoot, Collecting
  <1>6. QED
    BY <1>1, <1>2, <1>3, <1>4, <1>5 DEF Inv, IInv

LEMMA RootMarkedInv ==
    ASSUME Inv, RootMarked
    PROVE  Inv'
  <1>1. /\ RootChainMirrorsFrames' /\ FramesDistinct'
        /\ SharedInert' /\ PairsStay' /\ Registered' = Registered
        /\ ChainInv(Rank)'
    BY FramesSame, ChainSame DEF RootMarked
  <1>2. node \in Registered /\ node \in marked
    BY DEF Inv, IInv, WalkInv, RootsProgress, RootMarked, Exhausted
  <1>3. node' \in Registered \cup {NULL} /\ Newer(node)' = Newer(node) \cup {node}
    <2>1. /\ heap[node] \in Registered \cup {NULL}
          /\ Newer(heap[node]) = Newer(node) \cup {node}
      BY <1>2, NewerStep
    <2>2. node' = heap[node] /\ frames' = frames
      BY DEF RootMarked, Collecting
    <2>3. Newer(node)' = Newer(heap[node])
      BY <2>2 DEF Newer
    <2>4. QED
      BY <2>1, <2>2, <2>3
  <1>4. TypeOK'
    BY <1>3, RegisteredFacts, Apart DEF Inv, IInv, TypeOK, RootMarked, Collecting, Ref
  <1>5. WalkInv'
    BY <1>1, <1>3 DEF Inv, IInv, WalkInv, RootMarked, Collecting
  <1>6. Tricolor'
    <2>1. SUFFICES ASSUME NEW o \in Traced', NEW k \in (Kids(o) \cap live)'
                   PROVE  k \in marked'
      BY DEF Tricolor
    <2>2. k \in Kids(o) /\ k \in live /\ o \in Traced /\ k # NULL
      BY <1>1, <2>1, KidsSame DEF RootMarked, Collecting, Kids, Traced
    <2>3. k \in marked \/ Pending(o, k)
      BY <2>2 DEF Inv, IInv, Tricolor, Marking, RootMarked
    <2>4. QED
      BY <2>2, <2>3 DEF Pending, RootMarked, Exhausted
  <1>7. TreeIsMarked' /\ RootsProgress' /\ MarksClean'
    BY <1>2, <1>3 DEF Inv, IInv, TreeIsMarked, Marking, RootsProgress, MarksClean,
           RootMarked, Collecting
  <1>8. QED
    BY <1>1, <1>4, <1>5, <1>6, <1>7 DEF Inv, IInv

-----------------------------------------------------------------------------
(* The sweep. *)

LEMMA StartSweepInv ==
    ASSUME Inv, StartSweep
    PROVE  Inv'
  <1>1. /\ RootChainMirrorsFrames' /\ FramesDistinct'
        /\ SharedInert' /\ PairsStay' /\ Registered' = Registered
    BY FramesSame DEF StartSweep
  <1>2. Registered \subseteq marked /\ Tree \in marked
    BY NewerEnd, Apart
       DEF Inv, IInv, RootsProgress, TreeIsMarked, Marking, StartSweep
  <1>3. PICK rank \in Rank : Ordered(rank) /\ RefersTo(live)
    BY DEF Inv, IInv, ChainInv, StartSweep
  <1>4. heap[Base] \in Ref
    BY Apart DEF Inv, IInv, TypeOK
  <1>5. TypeOK'
    BY <1>4, Apart DEF Inv, IInv, TypeOK, StartSweep, Collecting, Ref
  <1>6. ChainInv(Rank)'
    <2>1. Ordered(rank)'
      BY <1>3 DEF Ordered, StartSweep, Collecting
    <2>2. /\ \A o \in live : rank[o] \in Nat /\ rank[Base] \in Nat
                             /\ rank[o] < rank[Base]
      BY <1>3, Apart DEF Rank, Ordered, Inv, IInv, TypeOK
    <2>3. SweepPosition(rank)'
      BY <2>2 DEF SweepPosition, StartSweep, Collecting
    <2>4. Keep(rank)' = {o \in live : Retained(o)}
      BY <2>2 DEF Keep, Retained, StartSweep, Collecting
    <2>5. RefersTo(Keep(rank))'
      <3>1. SUFFICES ASSUME NEW o \in {p \in live : Retained(p)} \cup Registered,
                            NEW k \in Kids(o), k \notin Registered
                     PROVE  k \in live /\ k \in Addr /\ Retained(k)
        BY <1>1, <2>4, KidsSame DEF RefersTo, StartSweep, Collecting
      <3>2. k \in live /\ k \in Addr
        BY <1>3, <3>1 DEF RefersTo
      <3>3. o \in marked
        BY <1>2, <3>1 DEF Retained, Inv, IInv, SharedInert, Kids
      <3>4. k \in marked
        BY <3>1, <3>2, <3>3 DEF Inv, IInv, Tricolor, Marking, Traced, Pending, StartSweep
      <3>5. QED
        BY <3>2, <3>4 DEF Retained
    <2>6. Rank' = Rank
      BY DEF Rank, Linked, Obj
    <2>7. QED
      BY <1>3, <2>1, <2>3, <2>5, <2>6 DEF ChainInv, StartSweep
  <1>7. WalkInv'
    BY <1>1 DEF Inv, IInv, WalkInv, StartSweep, Collecting
  <1>8. Tricolor' /\ TreeIsMarked' /\ RootsProgress' /\ MarksClean'
    BY DEF Inv, IInv, Tricolor, TreeIsMarked, Marking, RootsProgress, MarksClean, StartSweep
  <1>9. QED
    BY <1>1, <1>5, <1>6, <1>7, <1>8 DEF Inv, IInv

(* Where a sweep stands. *)
LEMMA SweepFacts ==
    ASSUME Inv, pc = "sweep",
           NEW rank \in Rank, Ordered(rank), SweepPosition(rank)
    PROVE  /\ prev \in live \cup {Base}
           /\ node # NULL => /\ node \in live /\ node \in Addr \cup {Tree}
                             /\ node # prev /\ node # Base /\ rank[node] < rank[prev]
           /\ \A o \in live : rank[o] < rank[prev] =>
                 node # NULL /\ rank[o] <= rank[node]
           /\ \A o \in live \cup {Base} : rank[o] \in Nat
           /\ live \subseteq Linked
  <1>1. live \subseteq Linked /\ Base \notin live
    BY Apart DEF Inv, IInv, TypeOK
  <1>2. \A o \in live \cup {Base} : rank[o] \in Nat
    BY <1>1, Apart DEF Rank
  <1>3. prev \in live \cup {Base} /\ heap[prev] = node
    BY DEF Inv, IInv, TypeOK, SweepPosition
  <1>4. QED
    BY <1>1, <1>2, <1>3 DEF Ordered, Inv, IInv, TypeOK

(* A step over a retained object takes the sweep to the next position.     *)
LEMMA SweepRetainMoves ==
    ASSUME Inv, SweepRetain,
           NEW rank \in Rank, Ordered(rank), SweepPosition(rank)
    PROVE  /\ Ordered(rank)' /\ SweepPosition(rank)'
           /\ node \in live /\ prev' = node
           /\ \A o \in live : rank[o] >= rank[node] => o = node \/ rank[o] >= rank[prev]
           /\ \A o \in live : o # node =>
                 ((rank[o] < rank[node]) <=> (rank[o] < rank[prev]))
  <1>1. /\ node \in live /\ node # Base /\ rank[node] < rank[prev]
        /\ prev \in live \cup {Base}
        /\ \A o \in live : rank[o] < rank[prev] => rank[o] <= rank[node]
        /\ \A o \in live \cup {Base} : rank[o] \in Nat
    BY SweepFacts DEF SweepRetain
  <1>2. Ordered(rank)'
    BY DEF Ordered, SweepRetain, Collecting
  <1>3. \A o \in live : rank[o] >= rank[node] => o = node \/ rank[o] >= rank[prev]
    BY <1>1 DEF Ordered
  <1>4. SweepPosition(rank)'
    BY <1>3 DEF SweepPosition, SweepRetain, Collecting
  <1>5. \A o \in live : o # node =>
           ((rank[o] < rank[node]) <=> (rank[o] < rank[prev]))
    BY <1>1 DEF Ordered
  <1>6. QED
    BY <1>1, <1>2, <1>3, <1>4, <1>5 DEF SweepRetain

LEMMA SweepRetainInv ==
    ASSUME Inv, SweepRetain
    PROVE  Inv'
  <1>1. /\ RootChainMirrorsFrames' /\ FramesDistinct'
        /\ SharedInert' /\ PairsStay' /\ Registered' = Registered
    BY FramesSame DEF SweepRetain
  <1>2. PICK rank \in Rank :
            Ordered(rank) /\ SweepPosition(rank) /\ RefersTo(Keep(rank))
    BY DEF Inv, IInv, ChainInv, SweepRetain
  <1>3. /\ node \in live /\ node \in Addr \cup {Tree}
        /\ node # prev /\ node # Base /\ rank[node] < rank[prev]
        /\ prev \in live \cup {Base}
        /\ \A o \in live : rank[o] < rank[prev] => rank[o] <= rank[node]
        /\ \A o \in live \cup {Base} : rank[o] \in Nat
    BY <1>2, SweepFacts DEF SweepRetain
  <1>4. TypeOK'
    BY <1>3, Apart DEF Inv, IInv, TypeOK, SweepRetain, Collecting, Ref, Obj
  <1>5. ChainInv(Rank)'
    <2>1. /\ Ordered(rank)' /\ SweepPosition(rank)'
          /\ \A o \in live : o # node =>
                ((rank[o] < rank[node]) <=> (rank[o] < rank[prev]))
      BY <1>2, SweepRetainMoves
    <2>2. Keep(rank)' = Keep(rank)
      BY <1>3, <2>1 DEF Keep, Retained, SweepRetain, Collecting
    <2>3. RefersTo(Keep(rank))'
      BY <1>1, <1>2, <2>2, KidsSame DEF RefersTo, SweepRetain, Collecting
    <2>4. Rank' = Rank
      BY DEF Rank, Linked, Obj
    <2>5. QED
      BY <1>2, <2>1, <2>3, <2>4 DEF ChainInv, SweepRetain
  <1>6. WalkInv'
    BY <1>1 DEF Inv, IInv, WalkInv, SweepRetain, Collecting
  <1>7. Tricolor' /\ TreeIsMarked' /\ RootsProgress' /\ MarksClean'
    BY DEF Inv, IInv, Tricolor, TreeIsMarked, Marking, RootsProgress, MarksClean, SweepRetain
  <1>8. QED
    BY <1>1, <1>4, <1>5, <1>6, <1>7 DEF Inv, IInv

(* The same of a step that frees the object the sweep stands at. *)
LEMMA SweepFreeMoves ==
    ASSUME Inv, SweepFree,
           NEW rank \in Rank, Ordered(rank), SweepPosition(rank)
    PROVE  Ordered(rank)' /\ SweepPosition(rank)'
  <1>1. /\ node \in live /\ live \subseteq Linked
        /\ node # prev /\ node # Base /\ rank[node] < rank[prev]
        /\ prev \in live \cup {Base}
        /\ \A o \in live : rank[o] < rank[prev] => rank[o] <= rank[node]
        /\ \A o \in live \cup {Base} : rank[o] \in Nat
    BY SweepFacts DEF SweepFree
  <1>2. heap \in [Linked -> Ref] /\ heap[node] \in Ref /\ prev \in Linked /\ node \in Linked
    BY <1>1, Apart DEF Inv, IInv, TypeOK
  <1>3. /\ heap'[prev] = heap[node] /\ heap'[node] = NULL
        /\ \A o \in Linked \ {prev, node} : heap'[o] = heap[o]
    BY <1>1, <1>2 DEF SweepFree, Relinked
  <1>4. Ordered(rank)'
    <2>1. live' = live \ {node}
      BY DEF SweepFree
    <2>2. \A o \in live : rank[o] < rank[Base]
      BY DEF Ordered
    <2>3. \A o, p \in live : rank[o] = rank[p] => o = p
      BY DEF Ordered
    <2>4. ASSUME NEW o \in live' \cup {Base}
          PROVE  /\ heap'[o] # NULL => heap'[o] \in live' /\ rank[heap'[o]] < rank[o]
                 /\ \A p \in live' : rank[p] < rank[o] =>
                       heap'[o] # NULL /\ rank[p] <= rank[heap'[o]]
      <3>1. CASE o = prev
        <4>1. \A p \in live' : rank[p] < rank[prev] => rank[p] < rank[node]
          BY <1>1, <2>1, <2>3
        <4>2. /\ heap[node] # NULL => heap[node] \in live /\ rank[heap[node]] < rank[node]
              /\ \A p \in live : rank[p] < rank[node] =>
                    heap[node] # NULL /\ rank[p] <= rank[heap[node]]
          BY <1>1 DEF Ordered
        <4>3. QED
          BY <1>1, <1>3, <2>1, <3>1, <4>1, <4>2
      <3>2. CASE o # prev
        <4>1. heap'[o] = heap[o] /\ o \in live \cup {Base} /\ o # node
          BY <1>1, <1>3, <2>1, <2>4, <3>2, Apart
        <4>2. /\ heap[o] # NULL => heap[o] \in live /\ rank[heap[o]] < rank[o]
              /\ \A p \in live : rank[p] < rank[o] =>
                    heap[o] # NULL /\ rank[p] <= rank[heap[o]]
          BY <4>1 DEF Ordered
        <4>3. heap[o] # node
          <5>1. SUFFICES ASSUME heap[o] = node PROVE FALSE
            OBVIOUS
          <5>2. rank[node] < rank[o]
            BY <1>1, <1>2, <4>2, <5>1, Apart
          <5>3. CASE rank[o] < rank[prev]
            BY <1>1, <4>1, <5>2, <5>3, <2>2
          <5>4. CASE rank[prev] < rank[o]
            BY <1>1, <1>2, <4>1, <4>2, <5>1, <5>4, <2>2, Apart
          <5>5. CASE rank[prev] = rank[o]
            BY <1>1, <2>2, <2>3, <3>2, <4>1, <5>5
          <5>6. QED
            BY <1>1, <4>1, <5>3, <5>4, <5>5
        <4>4. QED
          BY <2>1, <4>1, <4>2, <4>3
      <3>3. QED
        BY <3>1, <3>2
    <2>5. QED
      BY <2>1, <2>2, <2>3, <2>4 DEF Ordered
  <1>5. SweepPosition(rank)'
    BY <1>3 DEF SweepPosition, SweepFree
  <1>6. QED
    BY <1>4, <1>5

LEMMA SweepFreeInv ==
    ASSUME Inv, SweepFree
    PROVE  Inv'
  <1>1. PICK rank \in Rank :
            Ordered(rank) /\ SweepPosition(rank) /\ RefersTo(Keep(rank))
    BY DEF Inv, IInv, ChainInv, SweepFree
  <1>2. /\ node \in live /\ node \in Addr \cup {Tree} /\ live \subseteq Linked
        /\ node # prev /\ node # Base /\ rank[node] < rank[prev]
        /\ prev \in live \cup {Base}
        /\ \A o \in live : rank[o] < rank[prev] => rank[o] <= rank[node]
        /\ \A o \in live \cup {Base} : rank[o] \in Nat
    BY <1>1, SweepFacts DEF SweepFree
  <1>3. /\ node \notin shared /\ node \notin marked /\ node \in Addr
        /\ node \notin Off /\ node # Tree
    BY <1>2, Apart DEF SweepFree, Retained, Inv, IInv, TypeOK
  <1>4. Registered' = Registered /\ Registered \subseteq Off /\ node \notin Registered
    BY <1>3, RegisteredFacts DEF SweepFree, Registered, Inv, IInv
  <1>5. heap \in [Linked -> Ref] /\ heap[node] \in Ref /\ prev \in Linked /\ node \in Linked
    BY <1>2, Apart DEF Inv, IInv, TypeOK
  <1>6. /\ heap'[prev] = heap[node] /\ heap'[node] = NULL
        /\ \A o \in Linked \ {prev, node} : heap'[o] = heap[o]
    BY <1>2, <1>5 DEF SweepFree, Relinked
  <1>7. TypeOK'
    <2>1. heap' \in [Linked -> Ref]
      BY <1>5 DEF SweepFree, Relinked, Ref
    <2>2. /\ kind' \in [Obj -> {"atom", "pair", "custom"}]
          /\ first' \in [Obj -> Ref] /\ rest' \in [Obj -> Ref]
      BY DEF Inv, IInv, TypeOK, SweepFree, Ref
    <2>3. QED
      BY <1>2, <1>3, <1>5, <2>1, <2>2 DEF Inv, IInv, TypeOK, SweepFree, Retained
  <1>8. RootChainMirrorsFrames'
    <2>1. rest'[Tree] = rest[Tree]
      BY <1>3, Apart DEF SweepFree, Inv, IInv, TypeOK
    <2>2. \A i \in DOMAIN frames : heap'[frames[i]] = heap[frames[i]]
      BY <1>2, <1>4, <1>6, RegisteredFacts, Apart DEF Inv, IInv, TypeOK
    <2>3. QED
      BY <2>1, <2>2 DEF Inv, IInv, RootChainMirrorsFrames, RootChain, SweepFree
  <1>9. FramesDistinct' /\ SharedInert' /\ PairsStay'
    BY <1>3, Apart DEF Inv, IInv, TypeOK, FramesDistinct, SharedInert, PairsStay, SweepFree
  <1>10. ChainInv(Rank)'
    <2>1. Ordered(rank)' /\ SweepPosition(rank)'
      BY <1>1, SweepFreeMoves
    <2>2. Keep(rank)' = Keep(rank) /\ node \notin Keep(rank)
      BY <1>2 DEF Keep, Retained, SweepFree
    <2>3. \A o \in Keep(rank) \cup Registered : Kids(o)' = Kids(o)
      BY <1>4, <2>2, RegisteredFacts, Apart DEF Kids, Keep, SweepFree, Inv, IInv, TypeOK
    <2>4. RefersTo(Keep(rank))'
      BY <1>1, <1>4, <2>2, <2>3 DEF RefersTo
    <2>5. Rank' = Rank
      BY DEF Rank, Linked, Obj
    <2>6. QED
      BY <1>1, <2>1, <2>4, <2>5 DEF ChainInv, SweepFree
  <1>11. WalkInv'
    BY <1>4 DEF Inv, IInv, WalkInv, SweepFree
  <1>12. Tricolor' /\ TreeIsMarked' /\ RootsProgress' /\ MarksClean'
    BY DEF Inv, IInv, Tricolor, TreeIsMarked, Marking, RootsProgress, MarksClean, SweepFree
  <1>13. QED
    BY <1>7, <1>8, <1>9, <1>10, <1>11, <1>12 DEF Inv, IInv

LEMMA SweepEndInv ==
    ASSUME Inv, SweepEnd
    PROVE  Inv'
  <1>1. /\ RootChainMirrorsFrames' /\ FramesDistinct'
        /\ SharedInert' /\ PairsStay' /\ Registered' = Registered
    BY FramesSame DEF SweepEnd
  <1>2. PICK rank \in Rank :
            Ordered(rank) /\ SweepPosition(rank) /\ RefersTo(Keep(rank))
    BY DEF Inv, IInv, ChainInv, SweepEnd
  <1>3. \A o \in live : rank[o] >= rank[prev]
    BY <1>2, SweepFacts DEF SweepEnd
  <1>4. Keep(rank) = live /\ live \cap marked = {}
    <2>1. \A o \in live \cup {Base} : rank[o] \in Nat
      BY <1>2, SweepFacts DEF SweepEnd
    <2>2. prev \in live \cup {Base}
      BY DEF Inv, IInv, TypeOK
    <2>3. QED
      BY <1>2, <1>3, <2>1, <2>2 DEF Keep, SweepPosition
  <1>5. TypeOK'
    BY DEF Inv, IInv, TypeOK, SweepEnd, Collecting
  <1>6. ChainInv(Rank)'
    <2>1. Ordered(rank)'
      BY <1>2 DEF Ordered, SweepEnd, Collecting
    <2>2. RefersTo(live)'
      BY <1>1, <1>2, <1>4, KidsSame DEF RefersTo, SweepEnd, Collecting
    <2>3. Rank' = Rank
      BY DEF Rank, Linked, Obj
    <2>4. QED
      BY <1>2, <2>1, <2>2, <2>3 DEF ChainInv, SweepEnd
  <1>7. WalkInv'
    BY <1>1 DEF Inv, IInv, WalkInv, SweepEnd, Collecting
  <1>8. Tricolor' /\ TreeIsMarked' /\ RootsProgress' /\ MarksClean'
    BY <1>4 DEF Inv, IInv, Tricolor, TreeIsMarked, Marking, RootsProgress, MarksClean,
           SweepEnd, Collecting
  <1>9. QED
    BY <1>1, <1>5, <1>6, <1>7, <1>8 DEF Inv, IInv

-----------------------------------------------------------------------------
(* The program between collections. *)

LEMMA MutatingFacts ==
    ASSUME Inv, Mutating
    PROVE  /\ Registered \subseteq Off
           /\ live \subseteq Addr \cup {Tree} /\ Tree \in live
           /\ RefersTo(live)
           /\ marked \cap live = {}
           /\ stk = <<>> /\ cur = NULL
           /\ Payload \subseteq Ref
           /\ first[Tree] \in Payload /\ rest[Tree] \in Payload
  <1>1. /\ Registered \subseteq Off
        /\ live \subseteq Addr \cup {Tree} /\ Tree \in live
        /\ marked \cap live = {} /\ stk = <<>> /\ cur = NULL
    BY RegisteredFacts DEF Inv, IInv, TypeOK, MarksClean, WalkInv, Mutating
  <1>2. RefersTo(live)
    BY DEF Inv, IInv, ChainInv, Mutating
  <1>3. Payload \subseteq Ref
    BY <1>1, Apart DEF Payload, Held, Ref
  <1>4. Kids(Tree) = {first[Tree], rest[Tree]} \ {NULL}
    BY DEF Kids, Inv, IInv, PairsStay
  <1>5. QED
    BY <1>1, <1>2, <1>3, <1>4 DEF RefersTo, Payload, Held

(* Between collections the conjuncts about the walks and the sweep hold as *)
(* long as no live object gets a mark.                                     *)
LEMMA MutatingRest ==
    ASSUME Inv, Mutating, marked' \cap live' = {}
    PROVE  WalkInv' /\ Tricolor' /\ TreeIsMarked' /\ RootsProgress' /\ MarksClean'
  BY MutatingFacts
     DEF Mutating, WalkInv, Tricolor, TreeIsMarked, Marking, RootsProgress, MarksClean

LEMMA MakeInv ==
    ASSUME Inv, Mutating,
           NEW o, NEW k, NEW f \in Payload, NEW r \in Payload, NEW sh \in BOOLEAN,
           sh => k = "atom",
           NEW before, before = first \/ before = [first EXCEPT ![Tree] = o],
           Make(o, k, f, r, sh, before)
    PROVE  Inv'
  <1>1. /\ Registered \subseteq Off
        /\ live \subseteq Addr \cup {Tree} /\ Tree \in live
        /\ RefersTo(live) /\ marked \cap live = {}
        /\ Payload \subseteq Ref
    BY MutatingFacts
  <1>2. /\ o \in Addr /\ o \notin live /\ o \in Obj /\ o # Tree /\ o \notin Off /\ o # Base
        /\ o \in Linked
        /\ k \in {"atom", "pair", "custom"}
    BY Apart, KindsAreKnown DEF Make
  <1>3. Registered' = Registered
    BY DEF Make, Registered
  <1>4. /\ heap' \in [Linked -> Ref] /\ heap'[o] = heap[Base] /\ heap'[Base] = o
        /\ \A p \in Linked \ {o, Base} : heap'[p] = heap[p]
    BY <1>2, Apart DEF Make, LinkAtHead, Inv, IInv, TypeOK, Ref
  <1>5. /\ kind' \in [Obj -> {"atom", "pair", "custom"}] /\ kind'[o] = k
        /\ \A p \in Obj \ {o} : kind'[p] = kind[p]
    BY <1>2 DEF Make, Inv, IInv, TypeOK
  <1>6. /\ first' \in [Obj -> Ref] /\ first'[o] = f
        /\ \A p \in Obj \ {o, Tree} : first'[p] = first[p]
        /\ first'[Tree] \in {first[Tree], o}
    <2>1. before \in [Obj -> Ref] /\ before[Tree] \in {first[Tree], o}
          /\ \A p \in Obj \ {o, Tree} : before[p] = first[p]
      BY <1>2, Apart DEF Inv, IInv, TypeOK, Ref
    <2>2. first' = [before EXCEPT ![o] = f] /\ f \in Ref
      BY <1>1 DEF Make
    <2>3. QED
      BY <1>2, <2>1, <2>2, Apart
  <1>7. /\ rest' \in [Obj -> Ref] /\ rest'[o] = r
        /\ \A p \in Obj \ {o} : rest'[p] = rest[p]
    BY <1>1, <1>2 DEF Make, Inv, IInv, TypeOK
  <1>8. TypeOK'
    <2>1. live' \subseteq Addr \cup {Tree} /\ shared' \subseteq live' /\ Tree \in shared'
      BY <1>2 DEF Make, Inv, IInv, TypeOK
    <2>2. marked' \subseteq live' \cup Off
      BY DEF Make, Inv, IInv, TypeOK
    <2>3. frames' \in Seq(Off) /\ prev' \in live' \cup {Base}
      BY DEF Make, Mutating, Inv, IInv, TypeOK
    <2>4. QED
      BY <1>4, <1>5, <1>6, <1>7, <2>1, <2>2, <2>3
         DEF Mutating, Inv, IInv, TypeOK
  <1>9. RootChainMirrorsFrames' /\ FramesDistinct'
    <2>1. \A i \in DOMAIN frames : heap'[frames[i]] = heap[frames[i]]
      BY <1>1, <1>2, <1>4, RegisteredFacts, Apart DEF Inv, IInv
    <2>2. QED
      BY <1>2, <1>7, <2>1, Apart DEF Make, Inv, IInv, RootChainMirrorsFrames,
         RootChain, FramesDistinct
  <1>10. SharedInert' /\ PairsStay'
    BY <1>2, <1>5, Apart DEF Make, Inv, IInv, TypeOK, SharedInert, PairsStay
  <1>11. ChainInv(Rank)'
    <2>1. PICK rank \in Rank : Ordered(rank)
      BY DEF Inv, IInv, ChainInv
    <2> DEFINE young == [rank EXCEPT ![o] = rank[Base], ![Base] = rank[Base] + 1]
    <2>2. /\ young \in Rank /\ young[o] = rank[Base] /\ young[Base] = rank[Base] + 1
          /\ \A p \in live : young[p] = rank[p]
          /\ \A p \in live \cup {Base} : rank[p] \in Nat
          /\ live \subseteq Linked /\ Base \notin live
      BY <1>1, <1>2, <2>1, Apart DEF Rank
    <2> HIDE DEF young
    <2>3. live' = live \cup {o}
      BY DEF Make
    <2>4. \A p \in live : rank[p] < rank[Base]
      BY <2>1 DEF Ordered
    <2>5. \A p, q \in live' : young[p] = young[q] => p = q
      BY <2>1, <2>2, <2>3, <2>4 DEF Ordered
    <2>6. ASSUME NEW p \in live' \cup {Base}
          PROVE  /\ heap'[p] # NULL => heap'[p] \in live' /\ young[heap'[p]] < young[p]
                 /\ \A q \in live' : young[q] < young[p] =>
                       heap'[p] # NULL /\ young[q] <= young[heap'[p]]
      <3>1. CASE p = Base
        BY <1>2, <1>4, <2>2, <2>3, <2>4, <3>1, Apart
      <3>2. CASE p = o
        <4>1. /\ heap[Base] # NULL =>
                    heap[Base] \in live /\ rank[heap[Base]] < rank[Base]
              /\ \A q \in live : heap[Base] # NULL /\ rank[q] <= rank[heap[Base]]
          BY <2>1, <2>4 DEF Ordered
        <4>2. QED
          BY <1>4, <2>2, <2>3, <3>2, <4>1
      <3>3. CASE p \in live
        <4>1. heap'[p] = heap[p]
          BY <1>2, <1>4, <2>2, <3>3
        <4>2. /\ heap[p] # NULL => heap[p] \in live /\ rank[heap[p]] < rank[p]
              /\ \A q \in live : rank[q] < rank[p] =>
                    heap[p] # NULL /\ rank[q] <= rank[heap[p]]
          BY <2>1, <3>3 DEF Ordered
        <4>3. QED
          BY <2>2, <2>3, <2>4, <3>3, <4>1, <4>2
      <3>4. QED
        BY <2>3, <2>6, <3>1, <3>2, <3>3
    <2>7. Ordered(young)'
      <3>1. \A p \in live' : young[p] < young[Base]
        BY <2>2, <2>3, <2>4
      <3>2. QED
        BY <2>5, <2>6, <3>1 DEF Ordered
    <2>8. RefersTo(live)'
      <3>1. SUFFICES ASSUME NEW p \in live' \cup Registered, NEW x \in Kids(p)'
                     PROVE  x \in (live' \cap Addr) \cup Registered
        BY <1>3 DEF RefersTo
      <3>2. CASE p = o
        <4>1. x \in {f, r} \ {NULL}
          BY <1>5, <1>6, <1>7, <3>1, <3>2 DEF Kids
        <4>2. QED
          BY <2>3, <4>1 DEF Payload, Held
      <3>3. CASE p # o
        <4>1. p \in Obj /\ p \in live \cup Registered
          BY <1>1, <2>3, <3>1, <3>3, Apart
        <4>2. kind'[p] = kind[p] /\ first'[p] \in {first[p], o} /\ rest'[p] = rest[p]
          BY <1>5, <1>6, <1>7, <3>3, <4>1
        <4>3. x \in Kids(p) \cup {o}
          BY <3>1, <4>2 DEF Kids
        <4>4. QED
          BY <1>1, <1>2, <2>3, <4>1, <4>3 DEF RefersTo
      <3>4. QED
        BY <3>2, <3>3
    <2>9. Rank' = Rank /\ pc' # "sweep"
      BY DEF Rank, Linked, Obj, Mutating
    <2>10. QED
      BY <2>2, <2>7, <2>8, <2>9 DEF ChainInv
  <1>12. marked' \cap live' = {}
    BY <1>1 DEF Make
  <1>13. QED
    BY <1>8, <1>9, <1>10, <1>11, <1>12, MutatingRest DEF Inv, IInv

(* What a step that changes references only has to keep. *)
LEMMA StoreInv ==
    ASSUME Inv, Mutating,
           UNCHANGED <<live, heap, kind, shared, marked, frames>>,
           first' \in [Obj -> Ref], rest' \in [Obj -> Ref],
           rest'[Tree] = rest[Tree],
           \A o \in live \cup Registered : Kids(o)' \subseteq (live \cap Addr) \cup Registered
    PROVE  Inv'
  <1>1. TypeOK'
    BY DEF Inv, IInv, TypeOK, Mutating
  <1>2. RootChainMirrorsFrames' /\ FramesDistinct' /\ SharedInert' /\ PairsStay'
    BY DEF Inv, IInv, RootChainMirrorsFrames, RootChain, FramesDistinct, SharedInert, PairsStay
  <1>3. ChainInv(Rank)'
    <2>1. PICK rank \in Rank : Ordered(rank)
      BY DEF Inv, IInv, ChainInv
    <2>2. Ordered(rank)' /\ RefersTo(live)'
      BY <2>1 DEF Ordered, RefersTo, Registered
    <2>3. Rank' = Rank /\ pc' # "sweep"
      BY DEF Rank, Linked, Obj, Mutating
    <2>4. QED
      BY <2>1, <2>2, <2>3 DEF ChainInv
  <1>4. QED
    BY <1>1, <1>2, <1>3, MutatingFacts, MutatingRest DEF Inv, IInv

LEMMA SetFirstInv ==
    ASSUME Inv, NEW o \in Held, NEW v \in Payload, SetFirst(o, v)
    PROVE  Inv'
  <1>1. Mutating
    BY DEF SetFirst
  <1>2. /\ o \in Obj /\ v \in Ref /\ RefersTo(live)
        /\ Registered \subseteq Off /\ live \subseteq Addr \cup {Tree}
    BY <1>1, MutatingFacts, Apart DEF Held
  <1>3. first' \in [Obj -> Ref] /\ rest' = rest /\ rest' \in [Obj -> Ref]
    BY <1>2 DEF SetFirst, Inv, IInv, TypeOK
  <1>4. ASSUME NEW p \in live \cup Registered
        PROVE  Kids(p)' \subseteq (live \cap Addr) \cup Registered
    <2>1. p \in Obj /\ first'[p] \in {first[p], v}
      BY <1>2, Apart DEF SetFirst, Inv, IInv, TypeOK
    <2>2. Kids(p)' \subseteq Kids(p) \cup ({v} \ {NULL})
      BY <1>3, <2>1 DEF Kids, SetFirst
    <2>3. QED
      BY <1>2, <2>2 DEF RefersTo, Payload, Held
  <1>5. QED
    BY <1>1, <1>3, <1>4, StoreInv DEF SetFirst

LEMMA SetRestInv ==
    ASSUME Inv, NEW o \in Held, NEW v \in Payload, SetRest(o, v)
    PROVE  Inv'
  <1>1. Mutating
    BY DEF SetRest
  <1>2. /\ o \in Obj /\ o # Tree /\ v \in Ref /\ RefersTo(live)
        /\ Registered \subseteq Off /\ live \subseteq Addr \cup {Tree}
    BY <1>1, MutatingFacts, Apart DEF Held
  <1>3. /\ rest' \in [Obj -> Ref] /\ rest'[Tree] = rest[Tree]
        /\ first' = first /\ first' \in [Obj -> Ref]
    BY <1>2, Apart DEF SetRest, Inv, IInv, TypeOK
  <1>4. ASSUME NEW p \in live \cup Registered
        PROVE  Kids(p)' \subseteq (live \cap Addr) \cup Registered
    <2>1. p \in Obj /\ rest'[p] \in {rest[p], v}
      BY <1>2, Apart DEF SetRest, Inv, IInv, TypeOK
    <2>2. Kids(p)' \subseteq Kids(p) \cup ({v} \ {NULL})
      BY <1>3, <2>1 DEF Kids, SetRest
    <2>3. QED
      BY <1>2, <2>2 DEF RefersTo, Payload, Held
  <1>5. QED
    BY <1>1, <1>3, <1>4, StoreInv DEF SetRest

LEMMA PopFieldInv ==
    ASSUME Inv, PopField
    PROVE  Inv'
  <1> DEFINE v == rest[first[Tree]]
  <1>1. Mutating
    BY DEF PopField
  <1>2. /\ RefersTo(live) /\ Payload \subseteq Ref /\ first[Tree] \in live \cup Registered
        /\ Registered \subseteq Off /\ live \subseteq Addr \cup {Tree}
    BY <1>1, MutatingFacts DEF Payload, Held, PopField
  <1>3. v \in Payload
    <2>1. v # NULL => v \in Kids(first[Tree])
      BY DEF Kids, PopField
    <2>2. QED
      BY <1>2, <2>1 DEF RefersTo, Payload, Held
  <1>4. first' \in [Obj -> Ref] /\ rest' = rest /\ rest' \in [Obj -> Ref]
    BY <1>2, <1>3 DEF PopField, Inv, IInv, TypeOK
  <1>5. ASSUME NEW p \in live \cup Registered
        PROVE  Kids(p)' \subseteq (live \cap Addr) \cup Registered
    <2>1. p \in Obj /\ first'[p] \in {first[p], v}
      BY <1>2, Apart DEF PopField, Inv, IInv, TypeOK
    <2>2. Kids(p)' \subseteq Kids(p) \cup ({v} \ {NULL})
      BY <1>4, <2>1 DEF Kids, PopField
    <2>3. QED
      BY <1>2, <1>3, <2>2 DEF RefersTo, Payload, Held
  <1>6. QED
    BY <1>1, <1>4, <1>5, StoreInv DEF PopField

LEMMA EnterFrameInv ==
    ASSUME Inv, NEW n \in Off, EnterFrame(n)
    PROVE  Inv'
  <1>1. Mutating
    BY DEF EnterFrame
  <1>2. /\ Registered \subseteq Off
        /\ live \subseteq Addr \cup {Tree} /\ Tree \in live
        /\ RefersTo(live) /\ marked \cap live = {}
        /\ Payload \subseteq Ref /\ rest[Tree] \in Payload
    BY <1>1, MutatingFacts
  <1>3. /\ n \notin Registered /\ n \in Obj /\ n \in Linked /\ n # Base /\ n # Tree
        /\ n \notin live /\ Tree \in Obj
    BY <1>2, Apart DEF EnterFrame
  <1>4. /\ frames \in Seq(Off) /\ frames' = Append(frames, n) /\ frames' \in Seq(Off)
        /\ Len(frames) \in Nat /\ Len(frames') = Len(frames) + 1
        /\ DOMAIN frames = 1 .. Len(frames) /\ DOMAIN frames' = 1 .. Len(frames) + 1
        /\ \A i \in 1 .. Len(frames) : frames'[i] = frames[i]
        /\ frames'[Len(frames) + 1] = n
        /\ \A i \in 1 .. Len(frames) : frames[i] \in Registered
    BY AppendFacts, RegisteredFacts DEF EnterFrame, Inv, IInv, TypeOK
  <1>5. Registered' = Registered \cup {n}
    <2>1. Registered' = {frames'[i] : i \in 1 .. Len(frames) + 1}
      BY <1>4 DEF Registered, Range
    <2>2. Registered = {frames[i] : i \in 1 .. Len(frames)}
      BY <1>4 DEF Registered, Range
    <2>3. QED
      BY <1>4, <2>1, <2>2
  <1>6. PICK f \in Payload, r \in Payload :
            /\ first' = [first EXCEPT ![n] = f]
            /\ rest' = [rest EXCEPT ![n] = r, ![Tree] = n]
    BY DEF EnterFrame
  <1>7. /\ first' \in [Obj -> Ref] /\ first'[n] = f
        /\ \A p \in Obj \ {n} : first'[p] = first[p]
        /\ rest' \in [Obj -> Ref] /\ rest'[n] = r /\ rest'[Tree] = n
        /\ \A p \in Obj \ {n, Tree} : rest'[p] = rest[p]
    BY <1>2, <1>3, <1>6 DEF Inv, IInv, TypeOK, Ref
  <1>8. /\ heap' \in [Linked -> Ref] /\ heap'[n] = rest[Tree]
        /\ \A p \in Linked \ {n} : heap'[p] = heap[p]
    BY <1>2, <1>3 DEF EnterFrame, RootChain, Inv, IInv, TypeOK
  <1>9. marked' \subseteq marked
    BY DEF EnterFrame
  <1>10. TypeOK'
    BY <1>4, <1>7, <1>8, <1>9 DEF EnterFrame, Mutating, Inv, IInv, TypeOK
  <1>11. FramesDistinct'
    BY <1>3, <1>4 DEF Inv, IInv, FramesDistinct
  <1>12. RootChainMirrorsFrames'
    <2>1. rest'[Tree] = Last(frames') /\ frames' # <<>>
      BY <1>4, <1>7, EmptySeq DEF Last
    <2>2. heap'[n] = IF Len(frames) = 0 THEN NULL ELSE frames[Len(frames)]
      BY <1>4, <1>8, EmptySeq DEF Inv, IInv, RootChainMirrorsFrames, RootChain, Last
    <2>3. \A i \in 1 .. Len(frames) : heap'[frames[i]] = heap[frames[i]]
      BY <1>2, <1>3, <1>4, <1>8, Apart
    <2>4. \A i \in 1 .. Len(frames) :
             heap[frames[i]] = IF i = 1 THEN NULL ELSE frames[i - 1]
      BY <1>4 DEF Inv, IInv, RootChainMirrorsFrames
    <2>5. ASSUME NEW i \in DOMAIN frames'
          PROVE  heap'[frames'[i]] = IF i = 1 THEN NULL ELSE frames'[i - 1]
      <3>1. CASE i = Len(frames) + 1
        <4>1. frames'[i] = n /\ i - 1 = Len(frames) /\ (i = 1 <=> Len(frames) = 0)
          BY <1>4, <3>1
        <4>2. i # 1 => frames'[i - 1] = frames[Len(frames)]
          BY <1>4, <4>1
        <4>3. QED
          BY <2>2, <4>1, <4>2
      <3>2. CASE i \in 1 .. Len(frames)
        <4>1. i # 1 => i - 1 \in 1 .. Len(frames)
          BY <1>4, <3>2
        <4>2. QED
          BY <1>4, <2>3, <2>4, <3>2, <4>1
      <3>3. QED
        BY <1>4, <3>1, <3>2
    <2>6. QED
      BY <2>1, <2>5 DEF RootChainMirrorsFrames, RootChain
  <1>13. SharedInert' /\ PairsStay'
    BY DEF EnterFrame, Inv, IInv, SharedInert, PairsStay
  <1>14. ChainInv(Rank)'
    <2>1. PICK rank \in Rank : Ordered(rank)
      BY DEF Inv, IInv, ChainInv
    <2>2. \A p \in live \cup {Base} : heap'[p] = heap[p]
      BY <1>2, <1>3, <1>8, Apart
    <2>3. Ordered(rank)'
      BY <2>1, <2>2 DEF Ordered, EnterFrame
    <2>4. RefersTo(live)'
      <3>1. SUFFICES ASSUME NEW p \in live \cup Registered', NEW x \in Kids(p)'
                     PROVE  x \in (live \cap Addr) \cup Registered'
        BY DEF RefersTo, EnterFrame
      <3>2. CASE p = n
        <4>1. x \in {f, r} \ {NULL}
          BY <1>7, <3>1, <3>2 DEF Kids
        <4>2. QED
          BY <1>5, <4>1 DEF Payload, Held
      <3>3. CASE p # n
        <4>1. p \in Obj /\ p \in live \cup Registered
          BY <1>2, <1>5, <3>1, <3>3, Apart
        <4>2. first'[p] = first[p] /\ rest'[p] \in {rest[p], n} /\ kind' = kind
          BY <1>3, <1>7, <3>3, <4>1 DEF EnterFrame
        <4>3. x \in Kids(p) \cup {n}
          BY <3>1, <4>2 DEF Kids
        <4>4. QED
          BY <1>2, <1>5, <4>1, <4>3 DEF RefersTo
      <3>4. QED
        BY <3>2, <3>3
    <2>5. Rank' = Rank /\ pc' # "sweep"
      BY <1>1 DEF Rank, Linked, Obj, Mutating
    <2>6. QED
      BY <2>1, <2>3, <2>4, <2>5 DEF ChainInv
  <1>15. marked' \cap live' = {}
    BY <1>2, <1>9 DEF EnterFrame
  <1>16. QED
    BY <1>1, <1>10, <1>11, <1>12, <1>13, <1>14, <1>15, MutatingRest DEF Inv, IInv

(* Dropping the frames above depth k, the head put back to that of frame k.*)
LEMMA DropFramesInv ==
    ASSUME Inv, Mutating, NEW k \in 0 .. Len(frames) - 1, NEW head,
           head = IF k = 0 THEN NULL ELSE frames[k],
           DropFrames(k, head)
    PROVE  Inv'
  <1> DEFINE cut == {frames[i] : i \in k + 1 .. Len(frames)}
  <1>1. /\ Registered \subseteq Off
        /\ live \subseteq Addr \cup {Tree} /\ Tree \in live
        /\ RefersTo(live) /\ marked \cap live = {}
        /\ Payload \subseteq Ref /\ first[Tree] \in Payload
    BY MutatingFacts
  <1>2. /\ Len(frames) \in Nat /\ DOMAIN frames = 1 .. Len(frames)
        /\ \A i \in 1 .. Len(frames) : frames[i] \in Registered
        /\ Registered = {frames[i] : i \in 1 .. Len(frames)}
        /\ k \in 0 .. Len(frames) /\ frames \in Seq(Off)
    BY RegisteredFacts DEF Inv, IInv, TypeOK, Registered, Range
  <1>3. /\ frames' = SubSeq(frames, 1, k) /\ frames' \in Seq(Off)
        /\ Len(frames') = k /\ DOMAIN frames' = 1 .. k
        /\ \A i \in 1 .. k : frames'[i] = frames[i]
    <2>1. frames' = SubSeq(frames, 1, k)
      BY DEF DropFrames
    <2>2. /\ SubSeq(frames, 1, k) \in Seq(Off) /\ Len(SubSeq(frames, 1, k)) = k
          /\ \A i \in 1 .. k : SubSeq(frames, 1, k)[i] = frames[i]
          /\ DOMAIN SubSeq(frames, 1, k) = 1 .. k
      BY <1>2, SubSeqFacts
    <2>3. QED
      BY <2>1, <2>2
  <1>4. \A i, j \in 1 .. Len(frames) : frames[i] = frames[j] => i = j
    BY <1>2 DEF Inv, IInv, FramesDistinct
  <1>5. Registered' = {frames[i] : i \in 1 .. k}
    BY <1>3 DEF Registered, Range
  <1>6. /\ Registered = Registered' \cup cut /\ Registered' \cap cut = {}
        /\ Registered' \subseteq Off /\ cut \subseteq Off
    BY <1>1, <1>2, <1>4, <1>5
  <1>7. head \in Registered' \cup {NULL} /\ head \in Ref
    BY <1>5, <1>6, Apart DEF Ref
  <1>8. /\ Tree \notin cut /\ Base \notin cut /\ cut \cap live = {} /\ cut \subseteq Obj
    BY <1>1, <1>6, Apart
  <1>9. /\ heap' = [o \in Linked |-> IF o \in cut THEN NULL ELSE heap[o]]
        /\ first' = [o \in Obj |-> IF o \in cut THEN NULL ELSE first[o]]
        /\ rest' = [o \in Obj |-> CASE o = Tree -> head
                                    [] o \in cut -> NULL
                                    [] OTHER -> rest[o]]
        /\ first[Tree] \notin cut
        /\ \A o \in Held \ cut : first[o] \notin cut /\ rest[o] \notin cut
        /\ UNCHANGED <<live, kind, shared, marked>>
    BY DEF DropFrames
  <1> HIDE DEF cut
  <1>10. /\ heap' \in [Linked -> Ref]
         /\ \A o \in Linked \ cut : heap'[o] = heap[o]
    BY <1>9 DEF Inv, IInv, TypeOK, Ref
  <1>11. /\ first' \in [Obj -> Ref]
         /\ \A o \in Obj \ cut : first'[o] = first[o]
    BY <1>9 DEF Inv, IInv, TypeOK, Ref
  <1>12. /\ rest' \in [Obj -> Ref] /\ rest'[Tree] = head
         /\ \A o \in Obj \ (cut \cup {Tree}) : rest'[o] = rest[o]
    <2>1. ASSUME NEW o \in Obj
          PROVE  /\ rest'[o] \in Ref
                 /\ o \notin cut \cup {Tree} => rest'[o] = rest[o]
      BY <1>7, <1>9 DEF Inv, IInv, TypeOK, Ref
    <2>2. rest' = [o \in Obj |-> rest'[o]]
      BY <1>9
    <2>3. rest'[Tree] = head
      BY <1>8, <1>9, Apart
    <2>4. QED
      BY <2>1, <2>2, <2>3
  <1>13. TypeOK'
    BY <1>3, <1>9, <1>10, <1>11, <1>12 DEF Mutating, Inv, IInv, TypeOK
  <1>14. FramesDistinct'
    BY <1>2, <1>3, <1>4 DEF FramesDistinct
  <1>15. RootChainMirrorsFrames'
    <2>1. rest'[Tree] = IF frames' = <<>> THEN NULL ELSE Last(frames')
      <3>1. CASE k = 0
        BY <1>3, <1>12, <3>1, EmptySeq
      <3>2. CASE k # 0
        <4>1. k \in 1 .. k /\ frames' # <<>>
          <5>1. k \in Nat /\ k \in 1 .. k
            BY <1>2, <3>2
          <5>2. QED
            BY <1>3, <3>2, <5>1
        <4>2. Last(frames') = frames[k]
          BY <1>3, <4>1 DEF Last
        <4>3. QED
          BY <1>12, <3>2, <4>1, <4>2
      <3>3. QED
        BY <3>1, <3>2
    <2>2. ASSUME NEW i \in 1 .. k
          PROVE  heap'[frames'[i]] = IF i = 1 THEN NULL ELSE frames'[i - 1]
      <3>1. i \in DOMAIN frames /\ (i # 1 => i - 1 \in 1 .. k)
        <4>1. k \in Nat /\ k <= Len(frames) /\ Len(frames) \in Nat
          BY <1>2
        <4>2. i \in Int /\ 1 <= i /\ i <= k
          BY <4>1
        <4>3. i \in 1 .. Len(frames) /\ (i # 1 => i - 1 \in 1 .. k)
          BY <4>1, <4>2
        <4>4. QED
          BY <1>2, <4>3
      <3>2. heap'[frames[i]] = heap[frames[i]]
        BY <1>5, <1>6, <1>10, Apart
      <3>3. heap[frames[i]] = IF i = 1 THEN NULL ELSE frames[i - 1]
        BY <3>1 DEF Inv, IInv, RootChainMirrorsFrames
      <3>4. QED
        BY <1>3, <3>1, <3>2, <3>3
    <2>3. QED
      BY <1>3, <2>1, <2>2 DEF RootChainMirrorsFrames, RootChain
  <1>16. SharedInert' /\ PairsStay'
    BY <1>9 DEF Inv, IInv, SharedInert, PairsStay
  <1>17. ChainInv(Rank)'
    <2>1. PICK rank \in Rank : Ordered(rank)
      BY DEF Inv, IInv, ChainInv
    <2>2. \A p \in live \cup {Base} : heap'[p] = heap[p]
      BY <1>1, <1>8, <1>10, Apart
    <2>3. Ordered(rank)'
      BY <1>9, <2>1, <2>2 DEF Ordered
    <2>4. RefersTo(live)'
      <3>1. SUFFICES ASSUME NEW p \in live \cup Registered', NEW x \in Kids(p)'
                     PROVE  x \in (live \cap Addr) \cup Registered'
        BY <1>9 DEF RefersTo
      <3>2. p \in Obj /\ p \notin cut /\ p \in live \cup Registered
        BY <1>1, <1>6, <1>8, <3>1, Apart
      <3>3. CASE p = Tree
        <4>1. x \in {first[Tree], head} \ {NULL}
          BY <1>11, <1>12, <3>1, <3>2, <3>3, Apart DEF Kids
        <4>2. QED
          BY <1>1, <1>6, <1>7, <1>9, <4>1 DEF Payload, Held
      <3>4. CASE p # Tree
        <4>1. p \in Held
          BY <1>1, <3>2, <3>4 DEF Held
        <4>2. first'[p] = first[p] /\ rest'[p] = rest[p]
          BY <1>11, <1>12, <3>2, <3>4
        <4>3. x \in Kids(p) /\ x \notin cut
          BY <1>9, <3>1, <3>2, <4>1, <4>2 DEF Kids
        <4>4. QED
          BY <1>1, <1>6, <3>2, <4>3 DEF RefersTo
      <3>5. QED
        BY <3>3, <3>4
    <2>5. Rank' = Rank /\ pc' # "sweep"
      BY DEF Rank, Linked, Obj, Mutating
    <2>6. QED
      BY <2>1, <2>3, <2>4, <2>5 DEF ChainInv
  <1>18. QED
    BY <1>1, <1>9, <1>13, <1>14, <1>15, <1>16, <1>17, MutatingRest DEF Inv, IInv

LEMMA LeaveFrameInv ==
    ASSUME Inv, LeaveFrame
    PROVE  Inv'
  <1> DEFINE k == Len(frames) - 1
  <1>1. /\ Len(frames) \in Nat \ {0} /\ DOMAIN frames = 1 .. Len(frames)
        /\ RootChain = frames[Len(frames)]
    BY FrontFacts DEF LeaveFrame, Inv, IInv, TypeOK, RootChainMirrorsFrames
  <1>2. heap[RootChain] = IF k = 0 THEN NULL ELSE frames[k]
    BY <1>1 DEF Inv, IInv, RootChainMirrorsFrames
  <1>3. k \in 0 .. Len(frames) - 1
    BY <1>1
  <1>4. QED
    BY <1>2, <1>3, DropFramesInv DEF LeaveFrame

LEMMA UnwindInv ==
    ASSUME Inv, NEW k \in Nat, Unwind(k)
    PROVE  Inv'
  <1>1. k \in 0 .. Len(frames) - 1
    BY RegisteredFacts DEF Unwind, Inv, IInv
  <1>2. QED
    BY <1>1, DropFramesInv DEF Unwind

LEMMA InitInv ==
    ASSUME Init
    PROVE  Inv
  <1>1. TypeOK
    BY Apart, EmptySeq DEF Init, TypeOK, Ref, Linked, Obj
  <1>2. Registered = {}
    BY DEF Init, Registered, Range
  <1>3. RootChainMirrorsFrames /\ FramesDistinct /\ SharedInert /\ PairsStay
    BY Apart DEF Init, RootChainMirrorsFrames, RootChain, FramesDistinct, SharedInert, PairsStay
  <1>4. ChainInv(Rank)
    <2> DEFINE rank == [o \in Linked |-> IF o = Base THEN 1 ELSE 0]
    <2>1. rank \in Rank /\ rank[Base] = 1 /\ rank[Tree] = 0 /\ Tree # Base
      BY Apart DEF Rank
    <2>2. live = {Tree} /\ heap[Base] = Tree /\ heap[Tree] = NULL /\ Tree # NULL
      BY Apart DEF Init
    <2> HIDE DEF rank
    <2>3. Ordered(rank)
      BY <2>1, <2>2 DEF Ordered
    <2>4. RefersTo(live)
      BY <1>2, <2>2, Apart DEF RefersTo, Kids, Init
    <2>5. QED
      BY <2>1, <2>3, <2>4 DEF ChainInv, Init
  <1>5. WalkInv /\ Tricolor /\ TreeIsMarked /\ RootsProgress /\ MarksClean
    BY DEF Init, WalkInv, Tricolor, TreeIsMarked, Marking, RootsProgress, MarksClean
  <1>6. QED
    BY <1>1, <1>3, <1>4, <1>5 DEF Inv, IInv

LEMMA MutateInv ==
    ASSUME Inv, Mutate
    PROVE  Inv'
  <1>1. ASSUME NEW o \in Addr, NEW sh \in BOOLEAN, MakeAtom(o, sh)
        PROVE  Inv'
    BY <1>1, MakeInv DEF MakeAtom, Payload
  <1>2. ASSUME NEW o \in Addr, MakePair(o)
        PROVE  Inv'
    BY <1>2, MakeInv DEF MakePair
  <1>3. ASSUME NEW o \in Addr, MakeCustom(o)
        PROVE  Inv'
    BY <1>3, MakeInv DEF MakeCustom, Payload
  <1>4. ASSUME NEW o \in Addr, PushField(o)
        PROVE  Inv'
    BY <1>4, MakeInv, MutatingFacts DEF PushField
  <1>5. ASSUME NEW k \in 0 .. Cardinality(Off) - 1, Unwind(k)
        PROVE  Inv'
    <2>1. k < Len(frames) /\ Mutating
      BY <1>5 DEF Unwind
    <2>2. k \in Nat
      BY <1>5
    <2>3. QED
      BY <1>5, <2>2, UnwindInv
  <1>6. QED
    BY <1>1, <1>2, <1>3, <1>4, <1>5, SetFirstInv, SetRestInv, PopFieldInv,
       EnterFrameInv, LeaveFrameInv DEF Mutate

LEMMA CollectInv ==
    ASSUME Inv, Collect
    PROVE  Inv'
  BY MarkPairInv, MarkLeafInv, MarkReturnInv, TreeMarkedInv, ClearNodeInv,
     ChainClearedInv, MarkRootInv, RootMarkedInv, StartSweepInv, SweepRetainInv,
     SweepFreeInv, SweepEndInv DEF Collect

LEMMA StutterInv ==
    ASSUME Inv, UNCHANGED vars
    PROVE  Inv'
  <1>1. TypeOK' /\ RootChainMirrorsFrames' /\ FramesDistinct' /\ SharedInert' /\ PairsStay'
    BY DEF vars, Inv, IInv, TypeOK, RootChainMirrorsFrames, RootChain, FramesDistinct,
           SharedInert, PairsStay
  <1>2. ChainInv(Rank)'
    <2>1. PICK rank \in Rank :
             /\ Ordered(rank)
             /\ IF pc = "sweep"
                THEN SweepPosition(rank) /\ RefersTo(Keep(rank))
                ELSE RefersTo(live)
      BY DEF Inv, IInv, ChainInv
    <2>2. Rank' = Rank
      BY DEF Rank, Linked, Obj
    <2>3. Keep(rank)' = Keep(rank)
      BY DEF Keep, Retained, vars
    <2>4. Ordered(rank)' /\ (SweepPosition(rank) => SweepPosition(rank)')
      BY <2>1 DEF Ordered, SweepPosition, vars
    <2>5. \A S : RefersTo(S) => RefersTo(S)'
      BY DEF RefersTo, Kids, Registered, vars
    <2>6. live' = live /\ pc' = pc
      BY DEF vars
    <2>7. QED
      BY <2>1, <2>2, <2>3, <2>4, <2>5, <2>6 DEF ChainInv
  <1>3. WalkInv' /\ Tricolor' /\ TreeIsMarked' /\ RootsProgress' /\ MarksClean'
    BY DEF vars, Inv, IInv, WalkInv, Tricolor, Traced, Kids, Pending, Marking,
           TreeIsMarked, RootsProgress, Newer, MarksClean, Registered
  <1>4. QED
    BY <1>1, <1>2, <1>3 DEF Inv, IInv

-----------------------------------------------------------------------------
(* The inductive invariant holds in every state of every program. *)
THEOREM InvHolds == Spec => []Inv
  <1>1. Init => Inv
    BY InitInv
  <1>2. Inv /\ [Next]_vars => Inv'
    BY MutateInv, StartCollectionInv, CollectInv, StutterInv DEF Next
  <1>3. QED
    BY <1>1, <1>2, PTL DEF Spec

(* The variables keep their types; in particular the base tree is never    *)
(* freed and the sweep's p_prev is always an object still on the chain.    *)
THEOREM TypeCorrect == Spec => []TypeOK
  <1>1. Inv => TypeOK
    BY DEF Inv, IInv
  <1>2. QED
    BY <1>1, InvHolds, PTL

(* x_heap_root_push, x_heap_root_pop and the longjmp handlers keep the     *)
(* root chain the mirror of the C stack (x-heap.h:153), whatever the depth.*)
THEOREM RootChainMirrors == Spec => []RootChainMirrorsFrames
  <1>1. Inv => RootChainMirrorsFrames
    BY DEF Inv, IInv
  <1>2. QED
    BY <1>1, InvHolds, PTL

(* The sweep leaves no mark on the chain for the next collection to trip   *)
(* over.                                                                   *)
THEOREM MarksTakenBack == Spec => []MarksClean
  <1>1. Inv => MarksClean
    BY DEF Inv, IInv
  <1>2. QED
    BY <1>1, InvHolds, PTL

(* What the program reaches has its references inside what will survive.   *)
LEMMA ReachableIn ==
    ASSUME live \cup Registered \subseteq Obj,
           NEW S \in SUBSET live, Tree \in S, RefersTo(S)
    PROVE  Reachable \subseteq S \cup Registered
  <1>1. S \cup Registered \in SUBSET Obj /\ {Tree} \cup Registered \subseteq S \cup Registered
    OBVIOUS
  <1>2. Closed(S \cup Registered, KidsOf)
    BY <1>1 DEF Closed, KidsOf, RefersTo
  <1>3. QED
    BY <1>1, <1>2, ReachLeast DEF Reachable

(* Whatever will survive the sweep holds on to what the program reaches.   *)
LEMMA ReachableIsThere ==
    ASSUME Inv
    PROVE  NoDangling
  <1>1. Tree \in live /\ Tree \in shared /\ live \cup Registered \subseteq Obj
    BY RegisteredFacts, Apart DEF Inv, IInv, TypeOK
  <1>2. PICK rank \in Rank :
           IF pc = "sweep" THEN RefersTo(Keep(rank)) ELSE RefersTo(live)
    BY DEF Inv, IInv, ChainInv
  <1>3. CASE pc = "sweep"
    <2>1. Tree \in Keep(rank) /\ Keep(rank) \in SUBSET live
      BY <1>1 DEF Keep, Retained
    <2>2. QED
      BY <1>1, <1>2, <1>3, <2>1, ReachableIn DEF NoDangling
  <1>4. CASE pc # "sweep"
    BY <1>1, <1>2, <1>4, ReachableIn DEF NoDangling
  <1>5. QED
    BY <1>3, <1>4

(* No object the program can reach has been freed, in the middle of a      *)
(* sweep included: the collector's promise to its embedder.                *)
THEOREM NothingDangles == Spec => []NoDangling
  BY ReachableIsThere, InvHolds, PTL

(* What the sweep is about to free is out of the program's reach. *)
LEMMA FreedUnreachable ==
    ASSUME Inv, pc = "sweep", node # NULL, ~Retained(node)
    PROVE  node \notin Reachable
  <1>1. PICK rank \in Rank :
           Ordered(rank) /\ SweepPosition(rank) /\ RefersTo(Keep(rank))
    BY DEF Inv, IInv, ChainInv
  <1>2. node \in live /\ rank[node] < rank[prev] /\ node \in Addr \cup {Tree}
    BY <1>1, SweepFacts
  <1>3. node \notin Keep(rank) /\ node \notin Registered
    BY <1>2, RegisteredFacts, Apart DEF Keep, Inv, IInv, TypeOK, Retained
  <1>4. Tree \in Keep(rank) /\ Keep(rank) \in SUBSET live
    BY DEF Keep, Retained, Inv, IInv, TypeOK
  <1>5. Reachable \subseteq Keep(rank) \cup Registered
    <2>1. live \cup Registered \subseteq Obj
      BY RegisteredFacts, Apart DEF Inv, IInv, TypeOK
    <2>2. QED
      BY <1>1, <1>4, <2>1, ReachableIn
  <1>6. QED
    BY <1>3, <1>5

(* A step frees an object only if it is neither SHARED nor reachable at    *)
(* that moment.                                                            *)
LEMMA StepFreesGarbage ==
    ASSUME Inv, Next
    PROVE  \A o \in live \ live' : o \notin shared /\ o \notin Reachable
  <1>1. CASE SweepFree
    <2>1. live \ live' \subseteq {node} /\ ~Retained(node) /\ node # NULL /\ pc = "sweep"
      BY <1>1 DEF SweepFree
    <2>2. QED
      BY <2>1, FreedUnreachable DEF Retained
  <1>2. CASE ~SweepFree
    <2>1. live \subseteq live'
      BY <1>2 DEF Next, Mutate, MakeAtom, MakePair, MakeCustom, PushField, Make,
         SetFirst, SetRest, PopField, EnterFrame, LeaveFrame, Unwind, DropFrames,
         StartCollection, Collect, MarkPair, MarkLeaf, MarkReturn, TreeMarked,
         ClearNode, ChainCleared, MarkRoot, RootMarked, StartSweep, SweepRetain,
         SweepEnd, Collecting
    <2>2. QED
      BY <2>1
  <1>3. QED
    BY <1>1, <1>2

(* Nothing but garbage is ever freed, whatever the graph of the objects    *)
(* and wherever in a collection the step is.                               *)
THEOREM FreesOnlyGarbage == Spec => OnlyGarbageFreed
  <1> DEFINE Freed == \A o \in live \ live' : o \notin shared /\ o \notin Reachable
  <1>1. Inv /\ [Next]_vars => [Freed]_vars
    BY StepFreesGarbage
  <1>2. QED
    BY <1>1, InvHolds, PTL DEF Spec, OnlyGarbageFreed

-----------------------------------------------------------------------------
(* The chain, followed from the base, leads through every live object.     *)

LiveFinite == IsFiniteSet(live)

(* A step adds an object, or takes one away, or neither. *)
LEMMA StepKeepsFinite ==
    ASSUME LiveFinite, [Next]_vars
    PROVE  LiveFinite'
  <1>1. \E o : live' \in {live, live \cup {o}, live \ {o}}
    <2>1. CASE UNCHANGED vars
      BY <2>1 DEF vars
    <2>2. CASE Mutate
      BY <2>2 DEF Mutate, MakeAtom, MakePair, MakeCustom, PushField, Make, SetFirst,
         SetRest, PopField, EnterFrame, LeaveFrame, Unwind, DropFrames
    <2>3. CASE StartCollection \/ Collect
      BY <2>3 DEF StartCollection, Collect, Collecting, MarkPair, MarkLeaf, MarkReturn,
         TreeMarked, ClearNode, ChainCleared, MarkRoot, RootMarked, StartSweep,
         SweepRetain, SweepFree, SweepEnd
    <2>4. QED
      BY <2>1, <2>2, <2>3 DEF Next
  <1>2. QED
    BY <1>1, FS_AddElement, FS_RemoveElement DEF LiveFinite

LEMMA InitFinite ==
    ASSUME Init
    PROVE  LiveFinite
  <1>1. IsFiniteSet({Tree})
    BY FS_Singleton
  <1>2. QED
    BY <1>1 DEF Init, LiveFinite

LEMMA FiniteHolds == Spec => []LiveFinite
  BY InitFinite, StepKeepsFinite, PTL DEF Spec

(* Steps satisfies its own equation. *)
LEMMA StepsFollowLinks ==
    ASSUME heap \in [Linked -> Ref], NEW n \in Ref, Cardinality(live) \in Nat
    PROVE  LET N == Cardinality(live)
               at == Steps(n)
           IN  /\ at \in [0 .. N -> Ref] /\ at[0] = n
               /\ \A i \in 1 .. N : at[i] = IF at[i - 1] = NULL THEN NULL ELSE heap[at[i - 1]]
  <1> DEFINE N == Cardinality(live)
             next == [x \in Ref |-> IF x = NULL THEN NULL ELSE heap[x]]
             step == [i \in Nat |-> next]
             Eq(f) == f = [i \in 0 .. N |->
                        IF i = 0 THEN n
                        ELSE IF f[i - 1] = NULL THEN NULL ELSE heap[f[i - 1]]]
  <1>1. next \in [Ref -> Ref] /\ step \in [Nat -> [Ref -> Ref]]
    BY Apart DEF Ref
  <1>2. PICK f \in Recursions(Ref, n, step) : TRUE
    <2> HIDE DEF next, step
    <2>1. QED
      BY <1>1, RecursionExists
  <1>3. f \in [Nat -> Ref] /\ f[0] = n /\ \A i \in Nat : f[i + 1] = next[f[i]]
    BY DEF Recursions
  <1>4. \A i \in 1 .. N : f[i] = IF f[i - 1] = NULL THEN NULL ELSE heap[f[i - 1]]
    <2>1. SUFFICES ASSUME NEW i \in 1 .. N
                   PROVE  f[i] = IF f[i - 1] = NULL THEN NULL ELSE heap[f[i - 1]]
      OBVIOUS
    <2>2. i - 1 \in Nat /\ (i - 1) + 1 = i
      OBVIOUS
    <2>3. f[i] = next[f[i - 1]] /\ f[i - 1] \in Ref
      BY <1>3, <2>2
    <2>4. QED
      BY <2>3
  <1> DEFINE g == [i \in 0 .. N |-> f[i]]
  <1>5. Eq(g)
    BY <1>3, <1>4
  <1> DEFINE at == Steps(n)
  <1>6. Eq(at)
    BY <1>5 DEF Steps
  <1> HIDE DEF at
  <1>7. /\ at[0] = n
        /\ \A i \in 1 .. N : at[i] = IF at[i - 1] = NULL THEN NULL ELSE heap[at[i - 1]]
    BY <1>6
  <1>8. at = [i \in 0 .. N |-> at[i]]
    BY <1>6
  <1> HIDE DEF Eq
  <1> DEFINE S == {i \in Nat : i <= N => at[i] \in Ref}
  <1>9. Nat \subseteq S
    <2>1. 0 \in S
      BY <1>7
    <2>2. ASSUME NEW i \in Nat, i \in S PROVE i + 1 \in S
      <3>1. CASE i + 1 <= N
        <4>1. at[i] \in Ref
          BY <2>2, <3>1
        <4>2. i + 1 \in 1 .. N /\ (i + 1) - 1 = i
          BY <3>1
        <4>3. at[i + 1] = IF at[i] = NULL THEN NULL ELSE heap[at[i]]
          BY <1>7, <4>2
        <4>4. QED
          BY <4>1, <4>3, Apart DEF Ref
      <3>2. QED
        BY <3>1
    <2>3. QED
      <3> HIDE DEF S
      <3>1. QED
        BY <2>1, <2>2, InductionOnSet
  <1>10. at \in [0 .. N -> Ref]
    BY <1>8, <1>9
  <1>11. QED
    BY <1>7, <1>10 DEF at

(* The live objects from x on: x and what is older. *)
From(rank, x) == IF x = NULL THEN {} ELSE {o \in live : rank[o] <= rank[x]}

(* A chain that is ordered from young to old has passed, after as many     *)
(* steps as there are objects, each of them.                               *)
LEMMA OrderedIsComplete ==
    ASSUME live \subseteq Obj, heap \in [Linked -> Ref], LiveFinite,
           NEW rank \in Rank, Ordered(rank)
    PROVE  ChainComplete
  <1> DEFINE N == Cardinality(live)
             at == Steps(heap[Base])
             Passed(i) == {at[j] : j \in 0 .. i - 1} \ {NULL}
             S == {i \in Nat : i <= N =>
                     /\ at[i] \in live \cup {NULL}
                     /\ Passed(i) \subseteq live
                     /\ live \subseteq Passed(i) \cup From(rank, at[i])
                     /\ Cardinality(From(rank, at[i])) <= N - i}
  <1>1. N \in Nat /\ IsFiniteSet(live)
    BY FS_CardinalityType DEF LiveFinite
  <1>2. /\ at \in [0 .. N -> Ref] /\ at[0] = heap[Base]
        /\ \A i \in 1 .. N : at[i] = IF at[i - 1] = NULL THEN NULL ELSE heap[at[i - 1]]
    BY <1>1, StepsFollowLinks, Apart
  <1>3. /\ \A o \in live \cup {Base} : rank[o] \in Nat
        /\ NULL \notin live /\ Base \notin live
    BY Apart DEF Rank
  <1>4. \A x : IsFiniteSet(From(rank, x)) /\ Cardinality(From(rank, x)) \in Nat
    BY <1>1, FS_Subset, FS_EmptySet, FS_CardinalityType DEF From
  <1> HIDE DEF at
  <1>5. 0 \in S
    <2>1. heap[Base] \in live \cup {NULL}
      BY DEF Ordered
    <2>2. live = From(rank, heap[Base])
      BY DEF Ordered, From
    <2>3. QED
      BY <1>1, <1>2, <2>1, <2>2
  <1>6. ASSUME NEW i \in Nat, i \in S PROVE i + 1 \in S
    <2>1. SUFFICES ASSUME i + 1 <= N
                   PROVE  /\ at[i + 1] \in live \cup {NULL}
                          /\ Passed(i + 1) \subseteq live
                          /\ live \subseteq Passed(i + 1) \cup From(rank, at[i + 1])
                          /\ Cardinality(From(rank, at[i + 1])) <= N - (i + 1)
      OBVIOUS
    <2>2. /\ at[i] \in live \cup {NULL}
          /\ Passed(i) \subseteq live
          /\ live \subseteq Passed(i) \cup From(rank, at[i])
          /\ Cardinality(From(rank, at[i])) <= N - i
      BY <1>1, <1>6, <2>1
    <2>3. at[i + 1] = IF at[i] = NULL THEN NULL ELSE heap[at[i]]
      BY <1>2, <2>1
    <2>4. Passed(i + 1) = (Passed(i) \cup {at[i]}) \ {NULL}
      OBVIOUS
    <2> HIDE DEF Passed
    <2>5. CASE at[i] = NULL
      <3>1. From(rank, at[i]) = {} /\ From(rank, at[i + 1]) = {}
        BY <2>3, <2>5 DEF From
      <3>2. Cardinality(From(rank, at[i + 1])) = 0
        BY <3>1, FS_EmptySet
      <3>3. Cardinality(From(rank, at[i + 1])) <= N - (i + 1)
        BY <1>1, <2>1, <3>2
      <3>4. Passed(i + 1) = Passed(i)
        BY <1>3, <2>2, <2>4, <2>5
      <3>5. QED
        BY <2>2, <2>3, <2>5, <3>1, <3>3, <3>4
    <2>6. CASE at[i] # NULL
      <3>1. at[i] \in live /\ at[i + 1] = heap[at[i]] /\ heap[at[i]] \in live \cup {NULL}
        BY <2>2, <2>3, <2>6 DEF Ordered
      <3>2. From(rank, at[i + 1]) = From(rank, at[i]) \ {at[i]}
        BY <1>3, <3>1 DEF From, Ordered
      <3>3. at[i] \in From(rank, at[i])
        BY <1>3, <3>1 DEF From
      <3>4. Cardinality(From(rank, at[i + 1])) = Cardinality(From(rank, at[i])) - 1
        <4> DEFINE F == From(rank, at[i])
                   x == at[i]
        <4>1. IsFiniteSet(F) /\ x \in F
          BY <1>4, <3>3
        <4> HIDE DEF F, x
        <4>2. Cardinality(F \ {x}) = Cardinality(F) - 1
          BY <4>1, FS_RemoveElement
        <4>3. QED
          BY <3>2, <4>2 DEF F, x
      <3>5. Cardinality(From(rank, at[i + 1])) <= N - (i + 1)
        BY <1>1, <1>4, <2>2, <3>4
      <3>6. Passed(i + 1) = Passed(i) \cup {at[i]}
        BY <1>3, <2>2, <2>4, <3>1
      <3>7. QED
        BY <2>2, <3>1, <3>2, <3>5, <3>6
    <2>7. QED
      BY <2>5, <2>6
  <1>7. N \in S
    <2> HIDE DEF S
    <2>1. QED
      BY <1>1, <1>5, <1>6, InductionOnSet
  <1>8. From(rank, at[N]) = {} /\ at[N] = NULL
    <2>1. Cardinality(From(rank, at[N])) = 0
      BY <1>1, <1>4, <1>7
    <2>2. From(rank, at[N]) = {}
      BY <1>4, <2>1, FS_EmptySet
    <2>3. QED
      BY <1>1, <1>3, <1>7, <2>2 DEF From
  <1>9. Range(at) \ {NULL} = Passed(N)
    BY <1>1, <1>2, <1>8 DEF Range
  <1>10. Passed(N) = live
    BY <1>1, <1>7, <1>8
  <1>11. QED
    BY <1>8, <1>9, <1>10 DEF ChainComplete, at

LEMMA InvIsComplete ==
    ASSUME Inv, LiveFinite
    PROVE  ChainComplete
  <1>1. PICK rank \in Rank : Ordered(rank)
    BY DEF Inv, IInv, ChainInv
  <1>2. QED
    BY <1>1, OrderedIsComplete, Apart DEF Inv, IInv, TypeOK

(* Every object allocated is on the chain, once, and nothing else is, in   *)
(* every state of every program and in the middle of a sweep.              *)
THEOREM ChainIsComplete == Spec => []ChainComplete
  BY InvIsComplete, InvHolds, FiniteHolds, PTL

-----------------------------------------------------------------------------
(* A walk along the links meets the live objects from young to old: their  *)
(* places on the chain order them as any rank does.                        *)

LEMMA WalkFalls ==
    ASSUME live \subseteq Obj, heap \in [Linked -> Ref], LiveFinite,
           NEW rank \in Rank, Ordered(rank),
           NEW i \in Nat, NEW j \in Nat, i < j, j <= Cardinality(live),
           Steps(heap[Base])[j] # NULL
    PROVE  rank[Steps(heap[Base])[j]] < rank[Steps(heap[Base])[i]]
  <1> DEFINE N == Cardinality(live)
             at == Steps(heap[Base])
             S == {m \in Nat : m <= N => at[m] \in live \cup {NULL}}
             T == {m \in Nat : m <= N /\ i < m /\ at[m] # NULL =>
                                  at[i] # NULL /\ rank[at[m]] < rank[at[i]]}
  <1>1. N \in Nat
    BY FS_CardinalityType DEF LiveFinite
  <1>2. /\ at[0] = heap[Base]
        /\ \A m \in 1 .. N : at[m] = IF at[m - 1] = NULL THEN NULL ELSE heap[at[m - 1]]
    BY <1>1, StepsFollowLinks, Apart
  <1>3. ASSUME NEW m \in Nat, m + 1 <= N
        PROVE  at[m + 1] = IF at[m] = NULL THEN NULL ELSE heap[at[m]]
    <2>1. m + 1 \in 1 .. N /\ (m + 1) - 1 = m
      BY <1>1, <1>3
    <2>2. QED
      BY <1>2, <2>1
  <1> HIDE DEF at
  <1>4. \A o \in live \cup {Base} : rank[o] \in Nat
    BY Apart DEF Rank
  <1>5. Nat \subseteq S
    <2>1. 0 \in S
      BY <1>2 DEF Ordered
    <2>2. ASSUME NEW m \in Nat, m \in S PROVE m + 1 \in S
      <3>1. SUFFICES ASSUME m + 1 <= N PROVE at[m + 1] \in live \cup {NULL}
        OBVIOUS
      <3>2. at[m] \in live \cup {NULL}
        BY <1>1, <2>2, <3>1
      <3>3. QED
        BY <1>3, <3>1, <3>2 DEF Ordered
    <2>3. QED
      <3> HIDE DEF S
      <3>1. QED
        BY <2>1, <2>2, InductionOnSet
  <1>6. Nat \subseteq T
    <2>1. 0 \in T
      OBVIOUS
    <2>2. ASSUME NEW m \in Nat, m \in T PROVE m + 1 \in T
      <3>1. SUFFICES ASSUME m + 1 <= N, i < m + 1, at[m + 1] # NULL
                     PROVE  at[i] # NULL /\ rank[at[m + 1]] < rank[at[i]]
        OBVIOUS
      <3>2. at[m] # NULL /\ at[m + 1] = heap[at[m]]
        BY <1>3, <3>1
      <3>3. at[m] \in live
        BY <1>1, <1>5, <3>1, <3>2
      <3>4. at[m + 1] \in live /\ rank[at[m + 1]] < rank[at[m]]
        BY <3>1, <3>2, <3>3 DEF Ordered
      <3>5. CASE i = m
        BY <3>2, <3>4, <3>5
      <3>6. CASE i < m
        <4>1. at[i] # NULL /\ rank[at[m]] < rank[at[i]]
          BY <1>1, <2>2, <3>1, <3>2, <3>6
        <4>2. at[i] \in live
          BY <1>1, <1>5, <3>1, <3>6, <4>1
        <4> DEFINE x == rank[at[m + 1]]
                   y == rank[at[m]]
                   z == rank[at[i]]
        <4>3. x \in Nat /\ y \in Nat /\ z \in Nat /\ x < y /\ y < z
          BY <1>4, <3>3, <3>4, <4>1, <4>2
        <4> HIDE DEF x, y, z
        <4>4. x < z
          BY <4>3
        <4>5. QED
          BY <4>1, <4>4 DEF x, z
      <3>7. QED
        BY <3>1, <3>5, <3>6
    <2>3. QED
      <3> HIDE DEF T
      <3>1. QED
        BY <2>1, <2>2, InductionOnSet
  <1>7. QED
    BY <1>6 DEF at

LEMMA ChainRankAgrees ==
    ASSUME live \subseteq Obj, heap \in [Linked -> Ref], LiveFinite,
           NEW rank \in Rank, Ordered(rank)
    PROVE  /\ \A o \in live \cup {Base} : ChainRank[o] \in Nat
           /\ \A o, p \in live \cup {Base} : ChainRank[o] < ChainRank[p] <=> rank[o] < rank[p]
  <1> DEFINE N == Cardinality(live)
             at == Steps(heap[Base])
             place(o) == CHOOSE i \in 0 .. N - 1 : at[i] = o
  <1>1. N \in Nat
    BY FS_CardinalityType DEF LiveFinite
  <1>2. /\ NULL \notin live /\ Base \notin live /\ live \subseteq Linked /\ Base \in Linked
        /\ \A o \in live \cup {Base} : rank[o] \in Nat
    BY Apart DEF Rank
  <1>3. at \in [0 .. N -> Ref]
    BY <1>1, StepsFollowLinks, Apart
  <1>4. at[N] = NULL /\ Range(at) \ {NULL} = live
    BY OrderedIsComplete DEF ChainComplete
  <1>5. /\ ChainRank[Base] = N + 1
        /\ \A o \in live : ChainRank[o] = N - place(o)
    BY <1>2 DEF ChainRank
  <1>6. \A i, j \in Nat : i < j /\ j <= N /\ at[j] # NULL => rank[at[j]] < rank[at[i]]
    BY WalkFalls
  <1> HIDE DEF at
  <1>7. ASSUME NEW o \in live PROVE place(o) \in 0 .. N - 1 /\ at[place(o)] = o
    <2>1. PICK i \in 0 .. N : at[i] = o
      BY <1>3, <1>4 DEF Range
    <2>2. i \in 0 .. N - 1
      BY <1>1, <1>2, <1>4, <2>1
    <2>3. QED
      BY <2>1, <2>2
  <1> HIDE DEF place
  <1>8. ASSUME NEW o \in live, NEW p \in live, place(o) < place(p) PROVE rank[p] < rank[o]
    <2>1. place(o) \in Nat /\ place(p) \in Nat /\ place(p) <= N /\ at[place(p)] # NULL
      BY <1>1, <1>2, <1>7
    <2>2. rank[at[place(p)]] < rank[at[place(o)]]
      BY <1>6, <1>8, <2>1
    <2>3. QED
      BY <1>7, <2>2
  <1>9. ASSUME NEW o \in live, NEW p \in live
        PROVE  ChainRank[o] < ChainRank[p] <=> rank[o] < rank[p]
    <2>1. place(o) \in Int /\ place(p) \in Int
      BY <1>1, <1>7
    <2>2. ChainRank[o] < ChainRank[p] <=> place(p) < place(o)
      <3>1. ChainRank[o] = N - place(o) /\ ChainRank[p] = N - place(p)
        BY <1>5
      <3>2. QED
        BY <1>1, <2>1, <3>1
    <2>3. place(p) = place(o) => o = p
      BY <1>7
    <2>4. place(p) < place(o) => rank[o] < rank[p]
      BY <1>8
    <2>5. place(o) < place(p) => rank[p] < rank[o]
      BY <1>8
    <2>6. rank[o] \in Nat /\ rank[p] \in Nat
      BY <1>2
    <2>7. QED
      BY <2>1, <2>2, <2>3, <2>4, <2>5, <2>6
  <1>10. ASSUME NEW o \in live
         PROVE  /\ ChainRank[o] \in Nat /\ ChainRank[o] < ChainRank[Base]
                /\ rank[o] < rank[Base]
    <2>1. place(o) \in 0 .. N - 1 /\ ChainRank[o] = N - place(o) /\ ChainRank[Base] = N + 1
      BY <1>5, <1>7
    <2>2. ChainRank[o] \in Nat /\ ChainRank[o] < ChainRank[Base]
      BY <1>1, <2>1
    <2>3. QED
      BY <2>2 DEF Ordered
  <1>11. ChainRank[Base] \in Nat
    BY <1>1, <1>5
  <1> DEFINE c == ChainRank
  <1>12. \A o \in live \cup {Base} : c[o] \in Nat
    BY <1>10, <1>11
  <1> HIDE DEF c
  <1>13. ASSUME NEW o \in live \cup {Base}, NEW p \in live \cup {Base}
         PROVE  c[o] < c[p] <=> rank[o] < rank[p]
    <2>1. CASE o \in live /\ p \in live
      BY <1>9, <2>1 DEF c
    <2>2. CASE o \in live /\ p = Base
      BY <1>10, <2>2 DEF c
    <2>3. CASE o = Base /\ p \in live
      <3>1. c[p] < c[Base] /\ rank[p] < rank[Base]
        BY <1>10, <2>3 DEF c
      <3>2. c[p] \in Nat /\ c[Base] \in Nat /\ rank[p] \in Nat /\ rank[Base] \in Nat
        BY <1>2, <1>12, <2>3
      <3>3. QED
        BY <2>3, <3>1, <3>2
    <2>4. CASE o = Base /\ p = Base
      BY <1>2, <1>12, <2>4
    <2>5. QED
      BY <2>1, <2>2, <2>3, <2>4
  <1>14. QED
    BY <1>12, <1>13 DEF c

(* The order is all the invariant asks of a rank.                          *)
LEMMA SameOrder ==
    ASSUME NEW r, NEW s, prev \in live \cup {Base},
           \A o \in live \cup {Base} : r[o] \in Nat /\ s[o] \in Nat,
           \A o, p \in live \cup {Base} : s[o] < s[p] <=> r[o] < r[p]
    PROVE  /\ Ordered(r) => Ordered(s)
           /\ SweepPosition(r) => SweepPosition(s)
           /\ Keep(s) = Keep(r)
  <1>1. \A o, p \in live \cup {Base} : s[o] <= s[p] <=> r[o] <= r[p]
    <2>1. ASSUME NEW o \in live \cup {Base}, NEW p \in live \cup {Base}
          PROVE  s[o] <= s[p] <=> r[o] <= r[p]
      <3>1. /\ s[o] <= s[p] <=> ~(s[p] < s[o])
            /\ r[o] <= r[p] <=> ~(r[p] < r[o])
        OBVIOUS
      <3>2. QED
        BY <3>1
    <2>2. QED
      BY <2>1
  <1>2. ASSUME Ordered(r) PROVE Ordered(s)
    <2>1. \A o \in live : s[o] < s[Base]
      BY <1>2 DEF Ordered
    <2>2. ASSUME NEW o \in live, NEW p \in live, s[o] = s[p] PROVE o = p
      <3>1. s[o] <= s[p] /\ s[p] <= s[o]
        BY <2>2
      <3>2. r[o] <= r[p] /\ r[p] <= r[o] /\ r[o] \in Nat /\ r[p] \in Nat
        BY <1>1, <3>1
      <3>3. r[o] = r[p]
        BY <3>2
      <3>4. QED
        BY <1>2, <3>3 DEF Ordered
    <2>3. ASSUME NEW o \in live \cup {Base}
          PROVE  /\ heap[o] # NULL => heap[o] \in live /\ s[heap[o]] < s[o]
                 /\ \A p \in live : s[p] < s[o] => heap[o] # NULL /\ s[p] <= s[heap[o]]
      <3>1. heap[o] # NULL => heap[o] \in live /\ r[heap[o]] < r[o]
        BY <1>2 DEF Ordered
      <3>2. \A p \in live : r[p] < r[o] => heap[o] # NULL /\ r[p] <= r[heap[o]]
        BY <1>2 DEF Ordered
      <3>3. QED
        BY <1>1, <3>1, <3>2
    <2>4. QED
      BY <2>1, <2>2, <2>3 DEF Ordered
  <1>3. ASSUME SweepPosition(r) PROVE SweepPosition(s)
    <2>1. ASSUME NEW o \in live, s[o] >= s[prev] PROVE o \notin marked
      <3>1. s[prev] <= s[o]
        BY <2>1
      <3>2. r[prev] <= r[o]
        BY <1>1, <3>1
      <3>3. QED
        BY <1>3, <3>2 DEF SweepPosition
    <2>2. QED
      BY <1>3, <2>1 DEF SweepPosition
  <1>4. Keep(s) = Keep(r)
    BY DEF Keep
  <1>5. QED
    BY <1>2, <1>3, <1>4

LEMMA InvOfChain ==
    ASSUME Inv, LiveFinite
    PROVE  InductiveInvariant
  <1>1. PICK rank \in Rank :
           /\ Ordered(rank)
           /\ IF pc = "sweep"
              THEN SweepPosition(rank) /\ RefersTo(Keep(rank))
              ELSE RefersTo(live)
    BY DEF Inv, IInv, ChainInv
  <1>2. live \subseteq Obj /\ heap \in [Linked -> Ref] /\ prev \in live \cup {Base}
    BY Apart DEF Inv, IInv, TypeOK
  <1>3. /\ \A o \in live \cup {Base} : ChainRank[o] \in Nat /\ rank[o] \in Nat
        /\ \A o, p \in live \cup {Base} : ChainRank[o] < ChainRank[p] <=> rank[o] < rank[p]
    <2>1. \A o \in live \cup {Base} : rank[o] \in Nat
      BY <1>2, Apart DEF Rank
    <2>2. QED
      BY <1>1, <1>2, <2>1, ChainRankAgrees
  <1> DEFINE c == ChainRank
  <1>4. /\ Ordered(rank) => Ordered(c)
        /\ SweepPosition(rank) => SweepPosition(c)
        /\ Keep(c) = Keep(rank)
    <2> HIDE DEF c
    <2>1. /\ \A o \in live \cup {Base} : c[o] \in Nat /\ rank[o] \in Nat
          /\ \A o, p \in live \cup {Base} : c[o] < c[p] <=> rank[o] < rank[p]
      BY <1>3 DEF c
    <2>2. QED
      BY <1>2, <2>1, SameOrder
  <1>5. ChainInv({c})
    <2> HIDE DEF c
    <2>1. QED
      BY <1>1, <1>4 DEF ChainInv
  <1>6. QED
    BY <1>5 DEF Inv, IInv, InductiveInvariant

(* The inductive invariant holds for the rank that the place on the chain  *)
(* gives each object: the order it needs is the one that a walk along the  *)
(* links, the sweep's too, meets the objects in.                           *)
THEOREM InvariantOfChain == Spec => []InductiveInvariant
  BY InvOfChain, InvHolds, FiniteHolds, PTL

-----------------------------------------------------------------------------
(* A collection runs down: in each of its steps the measure falls.         *)

LEMMA LowerIf ==
    ASSUME NEW m \in Measures, NEW n \in Measures,
           \/ m[1] < n[1]
           \/ m[1] = n[1] /\ m[2] < n[2]
           \/ m[1] = n[1] /\ m[2] = n[2] /\ m[3] < n[3]
           \/ m[1] = n[1] /\ m[2] = n[2] /\ m[3] = n[3] /\ m[4] < n[4]
    PROVE  Lower(m, n)
  <1>1. CASE m[1] < n[1]
    <2>1. 1 \in 1 .. 4 /\ \A j \in 1 .. 1 - 1 : m[j] = n[j]
      OBVIOUS
    <2>2. QED
      BY <1>1, <2>1 DEF Lower
  <1>2. CASE m[1] = n[1] /\ m[2] < n[2]
    <2>1. 2 \in 1 .. 4 /\ \A j \in 1 .. 2 - 1 : m[j] = n[j]
      BY <1>2
    <2>2. QED
      BY <1>2, <2>1 DEF Lower
  <1>3. CASE m[1] = n[1] /\ m[2] = n[2] /\ m[3] < n[3]
    <2>1. 3 \in 1 .. 4 /\ \A j \in 1 .. 3 - 1 : m[j] = n[j]
      BY <1>3
    <2>2. QED
      BY <1>3, <2>1 DEF Lower
  <1>4. CASE m[1] = n[1] /\ m[2] = n[2] /\ m[3] = n[3] /\ m[4] < n[4]
    <2>1. 4 \in 1 .. 4 /\ \A j \in 1 .. 4 - 1 : m[j] = n[j]
      BY <1>4
    <2>2. QED
      BY <1>4, <2>1 DEF Lower
  <1>5. QED
    BY <1>1, <1>2, <1>3, <1>4

LEMMA RegisteredFinite ==
    ASSUME Inv
    PROVE  IsFiniteSet(Registered)
  <1>1. IsFiniteSet(1 .. Len(frames))
    BY RegisteredFacts, FS_Interval DEF Inv, IInv
  <1>2. frames \in Surjection(1 .. Len(frames), Registered)
    BY RegisteredFacts DEF Inv, IInv, TypeOK, Surjection
  <1>3. QED
    BY <1>1, <1>2, FS_Surjection

(* What the measure counts is finite. *)
Counted ==
    /\ Measure \in Measures
    /\ IsFiniteSet(Unpassed) /\ Cardinality(Unpassed) \in Nat
    /\ IsFiniteSet(Unmarked) /\ Cardinality(Unmarked) \in Nat
    /\ Len(stk) \in Nat
    /\ Measure[1] = Phase /\ Measure[2] = Cardinality(Unpassed)
    /\ Measure[3] = IF pc = "roots" THEN 1 ELSE 0
    /\ Measure[4] = 2 * Cardinality(Unmarked) + Len(stk)

LEMMA MeasureCounts ==
    ASSUME Inv, LiveFinite
    PROVE  Counted
  <1>1. IsFiniteSet(Registered)
    BY RegisteredFinite
  <1>2. IsFiniteSet(live \cup Registered)
    BY <1>1, FS_Union DEF LiveFinite
  <1>3. Unpassed \subseteq live \cup Registered /\ Unmarked \subseteq live \cup Registered
    BY DEF Unpassed, Unmarked
  <1>4. IsFiniteSet(Unpassed) /\ IsFiniteSet(Unmarked)
    BY <1>2, <1>3, FS_Subset
  <1>5. Cardinality(Unpassed) \in Nat /\ Cardinality(Unmarked) \in Nat
    BY <1>4, FS_CardinalityType
  <1>6. Len(stk) \in Nat
    BY DEF Inv, IInv, TypeOK
  <1>7. Phase \in Nat
    BY DEF Phase
  <1> DEFINE a == Phase
             b == Cardinality(Unpassed)
             c == IF pc = "roots" THEN 1 ELSE 0
             d == 2 * Cardinality(Unmarked) + Len(stk)
  <1>8. a \in Nat /\ b \in Nat /\ c \in Nat /\ d \in Nat
    BY <1>5, <1>6, <1>7
  <1>9. Measure = <<a, b, c, d>>
    BY DEF Measure
  <1> HIDE DEF a, b, c, d
  <1>10. /\ Measure \in Measures
         /\ Measure[1] = a /\ Measure[2] = b /\ Measure[3] = c /\ Measure[4] = d
    BY <1>8, <1>9 DEF Measures
  <1>11. QED
    BY <1>4, <1>5, <1>6, <1>10 DEF Counted, a, b, c, d

(* What a sweep has yet to pass, in terms of any rank. *)
UnpassedIsFrom ==
    \A rank \in Rank :
        pc = "sweep" /\ Ordered(rank) /\ SweepPosition(rank) => Unpassed = From(rank, node)

LEMMA UnpassedIs ==
    ASSUME Inv, LiveFinite
    PROVE  UnpassedIsFrom
  <1>1. SUFFICES ASSUME NEW rank \in Rank, pc = "sweep", Ordered(rank), SweepPosition(rank)
                 PROVE  Unpassed = From(rank, node)
    BY DEF UnpassedIsFrom
  <1>2. live \subseteq Obj /\ heap \in [Linked -> Ref]
    BY <1>1, Apart DEF Inv, IInv, TypeOK
  <1>3. node # NULL => node \in live
    BY <1>1, SweepFacts
  <1>4. /\ \A o \in live \cup {Base} : ChainRank[o] \in Nat /\ rank[o] \in Nat
        /\ \A o, p \in live \cup {Base} : ChainRank[o] < ChainRank[p] <=> rank[o] < rank[p]
    BY <1>1, <1>2, ChainRankAgrees, SweepFacts
  <1> DEFINE c == ChainRank
  <1>5. Unpassed = {o \in live : node # NULL /\ c[o] <= c[node]}
    BY <1>1 DEF Unpassed
  <1> HIDE DEF c
  <1>6. ASSUME NEW o \in live, node # NULL
        PROVE  c[o] <= c[node] <=> rank[o] <= rank[node]
    <2>1. c[node] < c[o] <=> rank[node] < rank[o]
      BY <1>3, <1>4, <1>6 DEF c
    <2>2. c[o] \in Nat /\ c[node] \in Nat /\ rank[o] \in Nat /\ rank[node] \in Nat
      BY <1>3, <1>4, <1>6 DEF c
    <2>3. QED
      BY <2>1, <2>2
  <1>7. QED
    BY <1>5, <1>6 DEF From

(* The tree mark: an object is marked, or a suspended call resumed. *)
LEMMA MarkRunsDown ==
    ASSUME Inv, Counted, Counted', MarkPair \/ MarkLeaf \/ MarkReturn
    PROVE  Lower(Measure', Measure)
  <1>1. /\ pc' = pc /\ node' = node /\ frames' = frames /\ live' = live
        /\ Registered' = Registered /\ pc \in {"tree", "walk"}
    BY DEF MarkPair, MarkLeaf, MarkReturn, Collecting, Registered
  <1>2. Phase' = Phase /\ Unpassed' = Unpassed
    BY <1>1 DEF Phase, Unpassed, Newer
  <1>3. 2 * Cardinality(Unmarked)' + Len(stk)' < 2 * Cardinality(Unmarked) + Len(stk)
    <2>1. CASE MarkPair \/ MarkLeaf
      <3>1. cur \in Unmarked /\ marked' = marked \cup {cur}
        BY <2>1 DEF MarkPair, MarkLeaf, Exhausted, Unmarked, Inv, IInv, WalkInv
      <3>2. Unmarked' = Unmarked \ {cur}
        BY <1>1, <3>1 DEF Unmarked
      <3>3. Cardinality(Unmarked)' = Cardinality(Unmarked) - 1
        BY <3>1, <3>2, FS_RemoveElement DEF Counted
      <3>4. Len(stk)' <= Len(stk) + 1
        BY <2>1 DEF MarkPair, MarkLeaf, Inv, IInv, TypeOK, Counted
      <3>5. QED
        BY <3>3, <3>4 DEF Counted
    <2>2. CASE MarkReturn
      <3>1. Unmarked' = Unmarked
        BY <1>1, <2>2 DEF MarkReturn, Unmarked
      <3>2. Len(stk)' = Len(stk) - 1
        BY <2>2, FrontFacts DEF MarkReturn, Inv, IInv, TypeOK
      <3>3. QED
        BY <3>1, <3>2 DEF Counted
    <2>3. QED
      BY <2>1, <2>2
  <1>4. QED
    BY <1>1, <1>2, <1>3, LowerIf DEF Counted

(* The walks along the root chain: an object is cleared, or marked. *)
LEMMA RootsRunDown ==
    ASSUME Inv, Counted, Counted', ClearNode \/ MarkRoot \/ RootMarked
    PROVE  Lower(Measure', Measure)
  <1>1. /\ frames' = frames /\ Registered' = Registered
        /\ pc \in {"clear", "roots", "walk"} /\ Phase' = Phase
        /\ Unpassed = Registered \ Newer(node)
    BY DEF ClearNode, MarkRoot, RootMarked, Collecting, Registered, Phase, Unpassed
  <1>2. \A n : Newer(n)' = Newer(n)
    BY <1>1 DEF Newer
  <1>3. node \in Registered
    BY DEF ClearNode, MarkRoot, RootMarked, Inv, IInv, WalkInv
  <1>4. CASE ClearNode \/ RootMarked
    <2>1. node' = heap[node] /\ Unpassed' = Registered \ Newer(heap[node])
      BY <1>1, <1>2, <1>4 DEF ClearNode, RootMarked, Unpassed
    <2>2. node \notin Newer(node)
      BY <1>3, RegisteredFacts DEF Newer, Inv, IInv, FramesDistinct
    <2>3. Unpassed' = Unpassed \ {node} /\ node \in Unpassed
      BY <1>1, <1>3, <2>1, <2>2, NewerStep
    <2>4. Cardinality(Unpassed)' = Cardinality(Unpassed) - 1
      BY <2>3, FS_RemoveElement DEF Counted
    <2>5. QED
      BY <1>1, <2>4, LowerIf DEF Counted
  <1>5. CASE MarkRoot
    <2>1. pc = "roots" /\ pc' = "walk" /\ Unpassed' = Unpassed
      BY <1>1, <1>2, <1>5 DEF MarkRoot, Unpassed
    <2>2. QED
      BY <1>1, <2>1, LowerIf DEF Counted
  <1>6. QED
    BY <1>4, <1>5

(* The sweep: an object is retained, or freed. *)
LEMMA SweepRunsDown ==
    ASSUME Inv, Counted, Counted', UnpassedIsFrom, UnpassedIsFrom', SweepRetain \/ SweepFree
    PROVE  Lower(Measure', Measure)
  <1>1. PICK rank \in Rank : Ordered(rank) /\ SweepPosition(rank)
    BY DEF Inv, IInv, ChainInv, SweepRetain, SweepFree
  <1>2. /\ pc = "sweep" /\ pc' = "sweep" /\ node # NULL /\ node' = heap[node]
        /\ Phase' = Phase /\ live' \in {live, live \ {node}}
    BY DEF SweepRetain, SweepFree, Collecting, Phase
  <1>3. Ordered(rank)' /\ SweepPosition(rank)'
    BY <1>1, SweepRetainMoves, SweepFreeMoves
  <1>4. rank \in Rank'
    BY DEF Rank, Linked, Obj
  <1>5. Unpassed = From(rank, node) /\ Unpassed' = From(rank, node)'
    BY <1>1, <1>2, <1>3, <1>4 DEF UnpassedIsFrom
  <1>6. node \in live /\ \A o \in live \cup {Base} : rank[o] \in Nat
    BY <1>1, <1>2, SweepFacts
  <1>7. heap[node] # NULL => heap[node] \in live /\ rank[heap[node]] < rank[node]
    BY <1>1, <1>6 DEF Ordered
  <1>8. Unpassed' \subseteq Unpassed \ {node}
    <2>1. CASE heap[node] = NULL
      BY <1>2, <1>5, <2>1 DEF From
    <2>2. CASE heap[node] # NULL
      <3>1. Unpassed' = {o \in live' : rank[o] <= rank[heap[node]]}
        BY <1>2, <1>5, <2>2 DEF From
      <3>2. Unpassed = {o \in live : rank[o] <= rank[node]}
        BY <1>2, <1>5 DEF From
      <3>3. heap[node] \in live /\ rank[heap[node]] < rank[node]
        BY <1>7, <2>2
      <3>4. \A o \in live : rank[o] <= rank[heap[node]] => rank[o] < rank[node]
        BY <1>6, <3>3
      <3>5. QED
        BY <1>2, <1>6, <3>1, <3>2, <3>4
    <2>3. QED
      BY <2>1, <2>2
  <1>9. node \in Unpassed
    BY <1>2, <1>5, <1>6 DEF From
  <1>10. /\ IsFiniteSet(Unpassed \ {node})
         /\ Cardinality(Unpassed \ {node}) = Cardinality(Unpassed) - 1
    BY <1>9, FS_RemoveElement DEF Counted
  <1>11. Cardinality(Unpassed)' <= Cardinality(Unpassed \ {node})
    BY <1>8, <1>10, FS_Subset
  <1>12. Cardinality(Unpassed)' < Cardinality(Unpassed)
    BY <1>10, <1>11 DEF Counted
  <1>13. QED
    BY <1>2, <1>12, LowerIf DEF Counted

(* One phase ends and the next one begins. *)
LEMMA PhasesRunDown ==
    ASSUME Counted, Counted', TreeMarked \/ ChainCleared \/ StartSweep \/ SweepEnd
    PROVE  Lower(Measure', Measure)
  <1>1. Phase' < Phase
    BY DEF TreeMarked, ChainCleared, StartSweep, SweepEnd, Phase
  <1>2. QED
    BY <1>1, LowerIf DEF Counted

(* The order of the measure has no infinite descent.                       *)
LEMMA MeasureDescends ==
    IsWellFoundedOn({mm \in Measures \X Measures : Lower(mm[1], mm[2])}, Measures)
  <1> DEFINE Less == OpToRel(<, Nat)
  <1>1. IsWellFoundedOn(LexProductOrdering(Less, Nat, 4), Measures)
    BY NatLessThanWellFounded, WFLexProductOrdering DEF Measures
  <1>2. {mm \in Measures \X Measures : Lower(mm[1], mm[2])} = LexProductOrdering(Less, Nat, 4)
    BY DEF Lower, LexProductOrdering, OpToRel, Measures
  <1>3. QED
    BY <1>1, <1>2

(* Every step of a collection lowers the measure, for any number of        *)
(* objects and frames and whatever cycles they form: none goes on forever. *)
THEOREM CollectionsEnd == Spec => [](Measure \in Measures) /\ CollectionRunsDown
  <1>1. Inv /\ LiveFinite => Counted /\ UnpassedIsFrom
    BY MeasureCounts, UnpassedIs
  <1>2. Counted => Measure \in Measures
    BY DEF Counted
  <1>3. ASSUME Inv, Counted, Counted', UnpassedIsFrom, UnpassedIsFrom', [Next]_vars
        PROVE  [pc # "mutate" => Lower(Measure', Measure)]_vars
    <2>1. CASE UNCHANGED vars
      BY <2>1
    <2>2. CASE Mutate \/ StartCollection
      BY <2>2 DEF Mutate, StartCollection, MakeAtom, MakePair, MakeCustom, PushField,
         SetFirst, SetRest, PopField, EnterFrame, LeaveFrame, Unwind, Mutating
    <2>3. CASE Collect
      BY <1>3, <2>3, MarkRunsDown, RootsRunDown, SweepRunsDown, PhasesRunDown DEF Collect
    <2>4. QED
      BY <1>3, <2>1, <2>2, <2>3 DEF Next
  <1>4. QED
    BY <1>1, <1>2, <1>3, InvHolds, FiniteHolds, PTL DEF Spec, CollectionRunsDown
-----------------------------------------------------------------------------
(* How deep the mark walk recurses. *)

(* No object waits for two calls: what is entered was not marked before. *)
StkDistinct == \A i, j \in DOMAIN stk : stk[i] = stk[j] => i = j

LEMMA StepKeepsStkDistinct ==
    ASSUME Inv, StkDistinct, [Next]_vars
    PROVE  StkDistinct'
  <1>1. stk \in Seq(Obj) /\ cur \in Ref /\ Len(stk) \in Nat
    BY DEF Inv, IInv, TypeOK
  <1>2. CASE MarkPair
    <2>1. cur \notin marked /\ cur # NULL /\ stk' = Append(stk, cur)
      BY <1>2 DEF MarkPair, Exhausted
    <2>2. \A i \in 1 .. Len(stk) : stk[i] # cur
      BY <1>1, <2>1 DEF Inv, IInv, WalkInv
    <2>3. /\ DOMAIN stk = 1 .. Len(stk) /\ DOMAIN stk' = 1 .. Len(stk) + 1
          /\ stk'[Len(stk) + 1] = cur
          /\ \A i \in 1 .. Len(stk) : stk'[i] = stk[i]
      BY <1>1, <2>1 DEF Ref
    <2>4. QED
      BY <1>1, <2>2, <2>3 DEF StkDistinct
  <1>3. CASE MarkReturn
    <2>1. stk # <<>> /\ stk' = Front(stk)
      BY <1>3 DEF MarkReturn
    <2>2. QED
      BY <1>1, <2>1, FrontFacts DEF StkDistinct
  <1>4. CASE stk' = stk
    BY <1>4 DEF StkDistinct
  <1>5. MarkPair \/ MarkReturn \/ stk' = stk
    BY DEF Next, vars, Mutate, MakeAtom, MakePair, MakeCustom, PushField, SetFirst,
       SetRest, PopField, EnterFrame, LeaveFrame, Unwind, Mutating, StartCollection,
       Collect, MarkLeaf, TreeMarked, ClearNode, ChainCleared, MarkRoot, RootMarked,
       StartSweep, SweepRetain, SweepFree, SweepEnd
  <1>6. QED
    BY <1>2, <1>3, <1>4, <1>5

LEMMA DistinctIsBounded ==
    ASSUME Inv, LiveFinite, StkDistinct
    PROVE  MarkDepthBounded
  <1> DEFINE Pairs == {o \in live \cup Registered : kind[o] = "pair"}
  <1>1. IsFiniteSet(Pairs)
    <2>1. IsFiniteSet(live \cup Registered)
      BY RegisteredFinite, FS_Union DEF LiveFinite
    <2>2. QED
      BY <2>1, FS_Subset
  <1>2. Len(stk) \in Nat /\ stk \in Injection(1 .. Len(stk), Pairs)
    <2>1. /\ Len(stk) \in Nat /\ DOMAIN stk = 1 .. Len(stk)
          /\ stk = [i \in 1 .. Len(stk) |-> stk[i]]
      BY DEF Inv, IInv, TypeOK
    <2>2. \A i \in 1 .. Len(stk) : stk[i] \in Pairs
      BY <2>1 DEF Inv, IInv, WalkInv
    <2> HIDE DEF Pairs
    <2>3. stk \in [1 .. Len(stk) -> Pairs]
      BY <2>1, <2>2
    <2>4. QED
      BY <2>1, <2>3 DEF StkDistinct, Injection, IsInjective
  <1>3. IsFiniteSet(1 .. Len(stk)) /\ Cardinality(1 .. Len(stk)) = Len(stk)
    BY <1>2, FS_Interval
  <1> HIDE DEF Pairs
  <1>4. Cardinality(1 .. Len(stk)) <= Cardinality(Pairs)
    BY <1>1, <1>2, FS_Injection
  <1>5. QED
    BY <1>3, <1>4 DEF MarkDepthBounded, Pairs

(* The recursion of the mark walk is no deeper than there are pairs, for   *)
(* any number of objects and whatever cycles they form.                    *)
THEOREM DepthIsBounded == Spec => []MarkDepthBounded
  <1>1. Init => StkDistinct
    BY DEF Init, StkDistinct
  <1>2. Spec => []StkDistinct
    BY <1>1, StepKeepsStkDistinct, InvHolds, PTL DEF Spec
  <1>3. QED
    BY <1>2, DistinctIsBounded, InvHolds, FiniteHolds, PTL
=============================================================================
