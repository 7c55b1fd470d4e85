------------------------- MODULE XHeapRefinement_proofs -------------------------
(***************************************************************************)
(* XHeap implements XCollect: a collection, for all its walks, flags and   *)
(* links, takes effect in one step, the start of its sweep.                *)
(***************************************************************************)
EXTENDS XHeapRefinement, XHeapReclaim_proofs

absState == <<Survivors, References, shared, frames>>

-----------------------------------------------------------------------------
(* The registered objects are the stack of the promise. *)
LEMMA ExistingSame ==
    /\ Abstract!Range(frames) = Registered
    /\ Abstract!Existing = Survivors \cup Registered
    /\ Abstract!Existing' = Survivors' \cup Registered'
  <1>1. Abstract!Range(frames) = Registered
    BY DEF Registered, Range, Abstract!Range
  <1>2. Abstract!Range(frames') = Registered'
    BY DEF Registered, Range, Abstract!Range
  <1>3. QED
    BY <1>1, <1>2 DEF Abstract!Existing

(* A reference out of what exists leads to what exists. *)
LEMMA ExistingRefers ==
    ASSUME Inv, pc # "sweep"
    PROVE  \A o \in live \cup Registered :
              References[o] = Kids(o) /\ References[o] \subseteq live \cup Registered
  <1>1. live \cup Registered \subseteq Obj
    BY RegisteredFacts, Apart DEF Inv, IInv, TypeOK
  <1>2. RefersTo(live)
    BY DEF Inv, IInv, ChainInv
  <1>3. QED
    BY <1>1, <1>2 DEF References, Survivors, RefersTo

(* The program's steps create objects and move references, no more. *)
LEMMA ProgramStep ==
    ASSUME Inv, Inv', Mutate
    PROVE  Abstract!Program
  <1>1. pc = "mutate" /\ pc' = "mutate"
    BY DEF Mutate, MakeAtom, MakePair, MakeCustom, PushField, SetFirst, SetRest,
       PopField, EnterFrame, LeaveFrame, Unwind, Mutating
  <1>2. Survivors = live /\ Survivors' = live'
    BY <1>1 DEF Survivors
  <1>3. /\ live \subseteq live' /\ shared' \cap live = shared
        /\ shared' \subseteq live'
    <2>1. shared \subseteq live /\ shared' \subseteq live'
      BY DEF Inv, IInv, TypeOK
    <2>2. QED
      BY <2>1 DEF Mutate, MakeAtom, MakePair, MakeCustom, PushField, Make, SetFirst, SetRest,
         PopField, EnterFrame, LeaveFrame, Unwind, DropFrames
  <1>4. \/ UNCHANGED frames
        \/ \E n \in Obj \ (live \cup Registered) : frames' = Append(frames, n)
        \/ \E k \in 0 .. Len(frames) - 1 : frames' = SubSeq(frames, 1, k)
    <2>1. ASSUME NEW n \in Off, EnterFrame(n)
          PROVE  n \in Obj \ (live \cup Registered) /\ frames' = Append(frames, n)
      BY <2>1, Apart DEF EnterFrame, Inv, IInv, TypeOK
    <2>2. Len(frames) \in Nat
      BY RegisteredFacts DEF Inv, IInv
    <2>3. ASSUME LeaveFrame
          PROVE  Len(frames) - 1 \in 0 .. Len(frames) - 1
                 /\ frames' = SubSeq(frames, 1, Len(frames) - 1)
      BY <2>2, <2>3, FrontFacts DEF LeaveFrame, DropFrames, Inv, IInv, TypeOK
    <2>4. ASSUME NEW k \in 0 .. Cardinality(Off) - 1, Unwind(k)
          PROVE  k \in 0 .. Len(frames) - 1 /\ frames' = SubSeq(frames, 1, k)
      BY <2>2, <2>4 DEF Unwind, DropFrames
    <2>5. CASE UNCHANGED frames
      BY <2>5
    <2>6. CASE (\E n \in Off : EnterFrame(n)) \/ LeaveFrame
               \/ \E k \in 0 .. Cardinality(Off) - 1 : Unwind(k)
      BY <2>1, <2>3, <2>4, <2>6
    <2>7. QED
      BY <2>5, <2>6 DEF Mutate, MakeAtom, MakePair, MakeCustom, PushField, Make, SetFirst,
         SetRest, PopField
  <1>5. \A o \in live' \cup Registered' : References'[o] \subseteq live' \cup Registered'
    <2>1. RefersTo(live)'
      BY <1>1 DEF Inv, IInv, ChainInv
    <2>2. (live \cup Registered)' \subseteq Obj'
      <3>1. /\ TypeOK' /\ Obj' = Obj
        BY DEF Inv, IInv, Obj
      <3>2. live' \subseteq Obj /\ Registered' \subseteq Off
        BY <3>1, Apart DEF TypeOK, Registered, Range
      <3>3. QED
        BY <3>1, <3>2, Apart
    <2>3. QED
      BY <1>2, <2>1, <2>2 DEF References, RefersTo
  <1>6. QED
    BY <1>2, <1>3, <1>4, <1>5, ExistingSame
       DEF Abstract!Program, Abstract!StackStep, Abstract!Sound

(* The start of the sweep is the abstract collection. *)
LEMMA CollectStep ==
    ASSUME Inv, StartSweep
    PROVE  Abstract!Collect
  <1>1. UNCHANGED <<live, kind, shared, first, rest, frames>> /\ pc # "sweep" /\ pc' = "sweep"
    BY DEF StartSweep, Collecting
  <1>2. Reachable' = Reachable /\ Registered' = Registered /\ \A o : Kids(o)' = Kids(o)
    BY <1>1, ReachableSame, KidsSame DEF Registered
  <1>3. Reachable \subseteq live \cup Registered /\ shared \subseteq live
    BY ReachableIsThere DEF NoDangling, Inv, IInv, TypeOK
  <1>4. Abstract!Reachable = Reachable
    <2>1. {Tree} \cup Registered \in SUBSET Obj
      BY RegisteredFacts, Apart DEF Inv, IInv
    <2>2. \A o \in Reachable : References[o] = KidsOf[o] /\ KidsOf[o] \subseteq Obj
      <3>1. live \cup Registered \subseteq Obj
        BY RegisteredFacts, Apart DEF Inv, IInv, TypeOK
      <3>2. QED
        BY <1>1, <1>3, <3>1, ExistingRefers DEF KidsOf
    <2> DEFINE roots == {Tree} \cup Registered
    <2>3. Reachable = Reach(Obj, KidsOf, roots)
      BY DEF Reachable
    <2> HIDE DEF roots
    <2>4. Reach(Obj, References, roots) = Reach(Obj, KidsOf, roots)
      <3>1. roots \in SUBSET Obj
        BY <2>1 DEF roots
      <3>2. \A o \in Reach(Obj, KidsOf, roots) :
               References[o] = KidsOf[o] /\ KidsOf[o] \subseteq Obj
        BY <2>2, <2>3
      <3>3. QED
        BY <3>1, <3>2, ReachSame
    <2>5. Abstract!Reachable = Abstract!Reach(Obj, References, roots)
      BY ExistingSame DEF Abstract!Reachable, roots
    <2>6. Abstract!Reach(Obj, References, roots) = Reach(Obj, References, roots)
      BY DEF Reach, Closed, Abstract!Reach, Abstract!Closed
    <2>7. QED
      BY <2>3, <2>4, <2>5, <2>6
  <1>5. Survivors = live /\ Survivors' = (live \cap Reachable) \cup shared
    BY <1>1, <1>2, <1>3 DEF Survivors
  <1>6. References' = [o \in Obj |-> IF o \in Survivors' \cup Registered'
                                     THEN References[o] ELSE {}]
    <2>1. References' = [o \in Obj |-> IF o \in Survivors' \cup Registered'
                                       THEN Kids(o) ELSE {}]
      BY <1>2 DEF References, Obj
    <2>2. \A o \in Obj : o \in Survivors' \cup Registered' => References[o] = Kids(o)
      BY <1>1, <1>2, <1>3, <1>5, ExistingRefers
    <2>3. QED
      BY <2>1, <2>2
  <1>7. QED
    BY <1>1, <1>4, <1>5, <1>6, ExistingSame DEF Abstract!Collect

(* A step of a sweep frees what has ceased to exist already. *)
LEMMA SweepFreeStep ==
    ASSUME Inv, SweepFree
    PROVE  UNCHANGED absState
  <1>1. /\ live' = live \ {node} /\ node \in Addr /\ node \notin Registered
        /\ node \notin shared /\ node \notin Reachable
        /\ UNCHANGED <<shared, frames, pc>> /\ pc = "sweep"
    <2>1. PICK rank \in Rank : Ordered(rank) /\ SweepPosition(rank)
      BY DEF Inv, IInv, ChainInv, SweepFree
    <2>2. node \in Addr \cup {Tree}
      BY <2>1, SweepFacts DEF SweepFree
    <2>3. QED
      BY <2>2, FreedUnreachable, RegisteredFacts, Apart
         DEF SweepFree, Retained, Inv, IInv, TypeOK
  <1>2. Reachable' = Reachable /\ Registered' = Registered
    BY <1>1, SweepFreeReach DEF Registered
  <1>3. Survivors' = Survivors /\ node \notin Survivors
    BY <1>1, <1>2 DEF Survivors
  <1>4. \A o \in Obj \ {node} : Kids(o)' = Kids(o)
    BY DEF Kids, SweepFree, Inv, IInv, TypeOK
  <1>5. References' = References
    BY <1>1, <1>2, <1>3, <1>4 DEF References, Obj
  <1>6. QED
    BY <1>1, <1>3, <1>5 DEF absState

(* When a sweep ends, what is there is what exists. *)
LEMMA SweepEndStep ==
    ASSUME Inv, Sound, SweepEnd
    PROVE  UNCHANGED absState
  <1>1. UNCHANGED <<live, kind, shared, first, rest, frames>> /\ pc = "sweep" /\ pc' = "mutate"
    BY DEF SweepEnd, Collecting
  <1>2. live \subseteq Reachable \cup shared
    BY SweptOut DEF SweepEnd
  <1>3. Survivors' = Survivors
    BY <1>1, <1>2 DEF Survivors
  <1>4. References' = References
    BY <1>1, <1>3, KidsSame DEF References, Registered, Obj
  <1>5. QED
    BY <1>1, <1>3, <1>4 DEF absState

(* All other steps of the collector change marks and positions only. *)
LEMMA WalkStep ==
    ASSUME UNCHANGED <<live, kind, shared, first, rest, frames>>,
           (pc = "sweep") <=> (pc' = "sweep")
    PROVE  UNCHANGED absState
  <1>1. Survivors' = Survivors
    BY ReachableSame DEF Survivors
  <1>2. References' = References
    BY <1>1, KidsSame DEF References, Registered, Obj
  <1>3. QED
    BY <1>1, <1>2 DEF absState

-----------------------------------------------------------------------------
(* The collector and the program around it implement what x-heap.h:19-31   *)
(* promises: marking changes nothing, a collection takes exactly the       *)
(* garbage of the moment its sweep starts, and no other step loses an      *)
(* object.                                                                 *)
THEOREM CollectIsImplemented == Spec => ImplementsCollect
  <1>1. Init => Abstract!Init
    <2>1. SUFFICES ASSUME Init PROVE Abstract!Init
      OBVIOUS
    <2>2. Survivors = {Tree} /\ shared = {Tree} /\ frames = <<>>
      BY <2>1 DEF Init, Survivors
    <2>3. \A o \in Obj : Kids(o) = {}
      BY <2>1 DEF Init, Kids
    <2>4. References = [o \in Obj |-> {}]
      BY <2>3 DEF References
    <2>5. QED
      BY <2>2, <2>4 DEF Abstract!Init
  <1>2. ASSUME Inv, Sound, Inv', [Next]_vars
        PROVE  [Abstract!Next]_absState
    <2>1. CASE Mutate
      BY <1>2, <2>1, ProgramStep DEF Abstract!Next
    <2>2. CASE StartSweep
      BY <1>2, <2>2, CollectStep DEF Abstract!Next
    <2>3. CASE SweepFree
      BY <1>2, <2>3, SweepFreeStep
    <2>4. CASE SweepEnd
      BY <1>2, <2>4, SweepEndStep
    <2>5. CASE StartCollection \/ MarkPair \/ MarkLeaf \/ MarkReturn \/ TreeMarked \/ ClearNode
               \/ ChainCleared \/ MarkRoot \/ RootMarked \/ SweepRetain
      <3>1. /\ UNCHANGED <<live, kind, shared, first, rest, frames>>
            /\ (pc = "sweep") <=> (pc' = "sweep")
        BY <2>5 DEF StartCollection, MarkPair, MarkLeaf, MarkReturn, TreeMarked, ClearNode,
           ChainCleared, MarkRoot, RootMarked, SweepRetain, Collecting
      <3>2. QED
        BY <3>1, WalkStep
    <2>6. CASE UNCHANGED vars
      BY <2>6, WalkStep DEF vars
    <2>7. QED
      BY <1>2, <2>1, <2>2, <2>3, <2>4, <2>5, <2>6 DEF Next, Collect
  <1>3. QED
    BY <1>1, <1>2, SoundHolds, PTL DEF Spec, ImplementsCollect, Abstract!Spec,
       Abstract!absVars, absState
=============================================================================
