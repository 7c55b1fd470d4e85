---------------------------- MODULE XTeardown_proofs ----------------------------
(***************************************************************************)
(* Proofs about XTeardown: the walk never hands on a dead base, and frees  *)
(* every object that is not SHARED.                                        *)
(***************************************************************************)
EXTENDS XTeardown, XAlloc_proofs

(* What is left is what the walk has kept and what it has still to visit,  *)
(* the base among it as long as it is handed on.                           *)
Sweeping ==
    /\ keep \subseteq Addr
    /\ todo \in Seq(Addr \cup {Base}) /\ IsInjective(todo)
    /\ left = keep \cup Range(todo)
    /\ base = IF Base \in Range(todo) THEN Base ELSE NULL

TeardownInv ==
    /\ phase \in {"running", "sweeping", "done"}
    /\ live \subseteq Addr
    /\ phase = "running" => base = Base
    /\ phase = "sweeping" => Sweeping
    /\ phase = "done" => left = keep

-----------------------------------------------------------------------------
(* One step along a chain without repetitions takes one object off it.     *)
LEMMA TailFacts ==
    ASSUME NEW S, NEW s \in Seq(S), s # <<>>, IsInjective(s)
    PROVE  /\ Tail(s) \in Seq(S) /\ IsInjective(Tail(s)) /\ Head(s) \in S
           /\ Range(s) = {Head(s)} \cup Range(Tail(s))
           /\ Head(s) \notin Range(Tail(s))
  <1>1. /\ Len(s) \in Nat \ {0} /\ DOMAIN s = 1 .. Len(s)
        /\ Head(s) = s[1]
    BY EmptySeq
  <1>2. /\ Tail(s) \in Seq(S) /\ Len(Tail(s)) = Len(s) - 1
        /\ DOMAIN Tail(s) = 1 .. Len(s) - 1
        /\ \A i \in 1 .. Len(s) - 1 : Tail(s)[i] = s[i + 1]
    BY <1>1
  <1>3. \A i \in 1 .. Len(s) - 1 : i + 1 \in 2 .. Len(s)
    BY <1>1
  <1>4. IsInjective(Tail(s))
    BY <1>1, <1>2, <1>3 DEF IsInjective
  <1>5. Head(s) \in S
    BY <1>1, ElementOfSeq
  <1>6. Head(s) \notin Range(Tail(s))
    BY <1>1, <1>2, <1>3 DEF IsInjective, Range
  <1>7. Range(s) = {Head(s)} \cup Range(Tail(s))
    <2>1. ASSUME NEW i \in 2 .. Len(s)
          PROVE  i - 1 \in 1 .. Len(s) - 1 /\ s[i] = Tail(s)[i - 1]
      BY <1>1, <1>2
    <2>2. Range(s) \subseteq {Head(s)} \cup Range(Tail(s))
      <3>1. ASSUME NEW i \in 1 .. Len(s) PROVE s[i] \in {Head(s)} \cup Range(Tail(s))
        <4>1. CASE i = 1
          BY <1>1, <4>1
        <4>2. CASE i # 1
          <5>1. i \in 2 .. Len(s)
            BY <1>1, <4>2
          <5>2. i - 1 \in DOMAIN Tail(s) /\ s[i] = Tail(s)[i - 1]
            BY <1>2, <2>1, <5>1
          <5>3. QED
            BY <5>2 DEF Range
        <4>3. QED
          BY <4>1, <4>2
      <3>2. QED
        BY <1>1, <3>1 DEF Range
    <2>3. Range(Tail(s)) \subseteq Range(s) /\ Head(s) \in Range(s)
      BY <1>1, <1>2, <1>3 DEF Range
    <2>4. QED
      BY <2>2, <2>3
  <1>8. QED
    BY <1>2, <1>4, <1>5, <1>6, <1>7

(* The chain of a base: the base and every object, each once. *)
LEMMA ChainFacts ==
    ASSUME live \subseteq Addr, NEW order \in SetToSeqs(live)
    PROVE  /\ <<Base>> \o order \in Seq(Addr \cup {Base})
           /\ IsInjective(<<Base>> \o order)
           /\ Range(<<Base>> \o order) = live \cup {Base}
  <1> DEFINE n == Cardinality(live)
             s == <<Base>> \o order
  <1>1. IsFiniteSet(live) /\ n \in Nat
    BY BoundsAreSets, FS_Subset, FS_CardinalityType
  <1>2. /\ order \in [1 .. n -> live]
        /\ \A i, j \in 1 .. n : i # j => order[i] # order[j]
    BY DEF SetToSeqs
  <1>3. order \in Injection(1 .. n, live)
    BY <1>2 DEF Injection, IsInjective
  <1>4. IsFiniteSet(1 .. n) /\ Cardinality(1 .. n) = n
    BY <1>1, FS_Interval
  <1>5. order \in Surjection(1 .. n, live)
    BY <1>1, <1>3, <1>4, FS_Injection
  <1>6. \A o \in live : \E i \in 1 .. n : order[i] = o
    BY <1>5 DEF Surjection
  <1>7. order \in Seq(Addr \cup {Base}) /\ Len(order) = n /\ DOMAIN order = 1 .. n
    BY <1>1, <1>2
  <1>8. /\ s \in Seq(Addr \cup {Base}) /\ Len(s) = n + 1 /\ DOMAIN s = 1 .. n + 1
        /\ s[1] = Base
        /\ \A i \in 2 .. n + 1 : s[i] = order[i - 1] /\ i - 1 \in 1 .. n
        /\ \A i \in 1 .. n : s[i + 1] = order[i]
    BY <1>1, <1>7
  <1> HIDE DEF n, s
  <1>9. \A i \in 2 .. n + 1 : s[i] \in live /\ s[i] # Base
    BY <1>2, <1>8, BaseIsAnObject
  <1>10. IsInjective(s)
    <2>1. ASSUME NEW i \in 1 .. n + 1, NEW j \in 1 .. n + 1, s[i] = s[j], i # j
          PROVE  FALSE
      <3>1. CASE i = 1 \/ j = 1
        BY <1>1, <1>8, <1>9, <2>1, <3>1
      <3>2. CASE i # 1 /\ j # 1
        <4>1. i \in 2 .. n + 1 /\ j \in 2 .. n + 1 /\ i - 1 # j - 1
          BY <1>1, <2>1, <3>2
        <4>2. QED
          BY <1>2, <1>8, <2>1, <4>1
      <3>3. QED
        BY <3>1, <3>2
    <2>2. QED
      BY <1>8, <2>1 DEF IsInjective
  <1>11. Range(s) = live \cup {Base}
    <2>1. Range(s) \subseteq live \cup {Base}
      <3>1. ASSUME NEW i \in 1 .. n + 1 PROVE s[i] \in live \cup {Base}
        BY <1>1, <1>8, <1>9
      <3>2. QED
        BY <1>8, <3>1 DEF Range
    <2>2. ASSUME NEW o \in live PROVE o \in Range(s)
      <3>1. PICK i \in 1 .. n : order[i] = o
        BY <1>6
      <3>2. i + 1 \in 1 .. n + 1 /\ s[i + 1] = o
        BY <1>1, <1>8, <3>1
      <3>3. QED
        BY <1>8, <3>2 DEF Range
    <2>3. 1 \in 1 .. n + 1
      BY <1>1
    <2>4. QED
      BY <1>8, <2>1, <2>2, <2>3 DEF Range
  <1>12. QED
    BY <1>8, <1>10, <1>11 DEF s

LEMMA StartInv ==
    ASSUME TeardownInv, Start
    PROVE  TeardownInv'
  <1>1. PICK order \in SetToSeqs(live) : todo' = <<Base>> \o order
    BY DEF Start
  <1>2. /\ todo' \in Seq(Addr \cup {Base}) /\ IsInjective(todo')
        /\ Range(todo') = live \cup {Base}
    BY <1>1, ChainFacts DEF TeardownInv
  <1>3. Sweeping'
    BY <1>2 DEF Start, TeardownInv, Sweeping, IsInjective
  <1>4. QED
    BY <1>3 DEF Start, TeardownInv

LEMMA WalkFacts ==
    ASSUME TeardownInv, phase = "sweeping", todo # <<>>
    PROVE  /\ Sweeping
           /\ Tail(todo) \in Seq(Addr \cup {Base}) /\ IsInjective(Tail(todo))
           /\ Node \in Addr \cup {Base}
           /\ Range(todo) = {Node} \cup Range(Tail(todo))
           /\ Node \notin Range(Tail(todo))
  BY TailFacts DEF TeardownInv, Sweeping, Node

LEMMA RetainInv ==
    ASSUME TeardownInv, Retain
    PROVE  TeardownInv'
  <1>1. Sweeping'
    <2>1. todo' = Tail(todo) /\ Node \in keep /\ UNCHANGED <<keep, left, base>>
      BY DEF Retain
    <2>2. Node # Base
      BY <2>1, WalkFacts, BaseIsAnObject DEF Retain, Sweeping
    <2>3. QED
      BY <2>1, <2>2, WalkFacts DEF Retain, Sweeping, IsInjective
  <1>2. QED
    BY <1>1 DEF Retain, TeardownInv, vars

LEMMA SweepFreeTearsDown ==
    ASSUME TeardownInv, SweepFree
    PROVE  TeardownInv'
  <1>1. Sweeping'
    <2>1. /\ todo' = Tail(todo) /\ Node \notin keep /\ UNCHANGED keep
          /\ left' = left \ {Node} /\ base' = IF Node = base THEN NULL ELSE base
      BY DEF SweepFree, Release, BaseAfter
    <2>2. left' = keep' \cup Range(todo')
      BY <2>1, WalkFacts DEF SweepFree, Sweeping
    <2>3. base' = IF Base \in Range(todo') THEN Base ELSE NULL
      BY <2>1, WalkFacts, BaseIsAnObject DEF SweepFree, Sweeping
    <2>4. QED
      BY <2>1, <2>2, <2>3, WalkFacts DEF SweepFree, Sweeping, IsInjective
  <1>2. QED
    BY <1>1 DEF SweepFree, TeardownInv, vars

LEMMA FinishInv ==
    ASSUME TeardownInv, Finish
    PROVE  TeardownInv'
  <1>1. Range(todo) = {}
    BY DEF Finish, Range
  <1>2. QED
    BY <1>1 DEF Finish, TeardownInv, Sweeping, vars

LEMMA RunInv ==
    ASSUME TeardownInv, Run
    PROVE  TeardownInv'
  <1>1. live' \subseteq Addr
    BY DEF Run, TeardownInv, Next, AllocAttempt, AllocLatched, AllocTrips, AllocFails, Alloc,
           Place, Free, Report, ReportReturns, ReportJumps, SetType, Arm, PushLimit,
           PopLimit, SetExtra
  <1>2. QED
    BY <1>1 DEF Run, TeardownInv, teardownVars

-----------------------------------------------------------------------------
(* What is left of a runtime in teardown is always accounted for. *)
THEOREM TeardownInvHolds == TeardownSpec => []TeardownInv
  <1>1. TeardownInit => TeardownInv
    BY DEF TeardownInit, Init, TeardownInv
  <1>2. TeardownInv /\ [TeardownNext]_allVars => TeardownInv'
    <2>1. ASSUME TeardownInv, UNCHANGED allVars PROVE TeardownInv'
      BY <2>1 DEF TeardownInv, Sweeping, IsInjective, allVars
    <2>2. QED
      BY <2>1, StartInv, RetainInv, SweepFreeTearsDown, FinishInv, RunInv DEF TeardownNext
  <1>3. QED
    BY <1>1, <1>2, PTL DEF TeardownSpec

(* The base that x_obj_free and the free hook are handed is never one that *)
(* has been freed (x-heap.c:108-112).                                      *)
THEOREM NoBaseIsDead == TeardownSpec => []NoDeadBase
  <1>1. TeardownInv => NoDeadBase
    BY DEF TeardownInv, Sweeping, NoDeadBase
  <1>2. QED
    BY <1>1, TeardownInvHolds, PTL

(* A teardown leaves the SHARED objects and nothing else, however many     *)
(* there are and in whatever order they stand on the chain.                *)
THEOREM TeardownIsComplete == TeardownSpec => []TeardownFreesAll
  <1>1. TeardownInv => TeardownFreesAll
    BY DEF TeardownInv, TeardownFreesAll
  <1>2. QED
    BY <1>1, TeardownInvHolds, PTL
=============================================================================
