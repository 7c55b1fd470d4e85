----------------------------- MODULE XAlloc_proofs -----------------------------
(***************************************************************************)
(* Proofs about XAlloc: the count is exact and the ceiling holds for an    *)
(* embedder that types its base before it allocates from it, and a trip is *)
(* reported once whatever is pushed and popped.                            *)
(***************************************************************************)
EXTENDS XAlloc, XFacts, FiniteSetTheorems

(* A ceiling that was reported since it was armed is latched.              *)
Latched ==
    \A i \in DOMAIN reports :
        reports[i] = 0 \/ (reports[i] = 1 /\ cells[i] = -1)

(* The objects of an embedder that types its base first are all counted.   *)
Accounted == TypeFirst => (live # {} => typed) /\ CountExact

AllocInv == TypeOK /\ Latched /\ Accounted

-----------------------------------------------------------------------------
LEMMA CellFacts ==
    ASSUME TypeOK
    PROVE  /\ Top \in Nat \ {0} /\ Top \in 1 .. Len(cells) /\ Top \in 1 .. Len(reports)
           /\ cells # <<>> /\ reports # <<>>
           /\ cells[Top] \in Limits \cup {-1} /\ reports[Top] \in Nat
           /\ DOMAIN cells = 1 .. Top /\ DOMAIN reports = 1 .. Top
           /\ Limits \subseteq Nat
  <1>1. Top \in Nat \ {0} /\ Len(reports) = Top
    BY BoundsAreSets DEF TypeOK, Top
  <1>2. cells \in Seq(Limits \cup {-1}) /\ reports \in Seq(Nat)
    BY DEF TypeOK
  <1>3. cells # <<>> /\ reports # <<>>
    BY <1>1 DEF Top
  <1>4. QED
    BY <1>1, <1>2, <1>3, BoundsAreSets, ElementOfSeq DEF Top

LEMMA LiveFinite ==
    ASSUME TypeOK
    PROVE  IsFiniteSet(live) /\ Cardinality(live) \in Nat
  BY BoundsAreSets, FS_Subset, FS_CardinalityType DEF TypeOK

LEMMA AllocTripsInv ==
    ASSUME AllocInv, AllocTrips
    PROVE  AllocInv'
  <1>1. /\ Top \in 1 .. Len(cells) /\ Top \in 1 .. Len(reports)
        /\ cells \in Seq(Limits \cup {-1}) /\ reports \in Seq(Nat)
        /\ Len(reports) = Len(cells) /\ Top = Len(cells) /\ Top \in Nat
        /\ DOMAIN cells = 1 .. Top /\ DOMAIN reports = 1 .. Top
        /\ reports[Top] \in Nat
    BY CellFacts DEF AllocInv, TypeOK, Top
  <1>2. reports[Top] = 0
    BY <1>1 DEF AllocTrips, Tripped, Limit, AllocInv, Latched
  <1>3. /\ cells' \in Seq(Limits \cup {-1}) /\ Len(cells') = Len(cells)
        /\ \A j \in 1 .. Top : cells'[j] = IF j = Top THEN -1 ELSE cells[j]
    <2> DEFINE S == Limits \cup {-1}
    <2>1. /\ cells' = [cells EXCEPT ![Top] = -1] /\ -1 \in S /\ cells \in Seq(S)
          /\ Top \in 1 .. Len(cells)
      BY <1>1 DEF AllocTrips
    <2> HIDE DEF S
    <2>2. /\ cells' \in Seq(S) /\ Len(cells') = Len(cells)
          /\ \A j \in 1 .. Len(cells) : cells'[j] = IF j = Top THEN -1 ELSE cells[j]
      BY <2>1, ExceptSeq
    <2>3. QED
      BY <1>1, <2>2 DEF S
  <1>4. /\ reports' \in Seq(Nat) /\ Len(reports') = Len(reports)
        /\ \A j \in 1 .. Top :
              reports'[j] = reports[j] \/ (j = Top /\ reports'[j] = 1)
    <2>1. CASE msg
      <3>1. reports' = [reports EXCEPT ![Top] = 1]
        BY <1>1, <1>2, <2>1 DEF AllocTrips
      <3>2. /\ reports' \in Seq(Nat) /\ Len(reports') = Len(reports)
            /\ \A j \in 1 .. Len(reports) : reports'[j] = IF j = Top THEN 1 ELSE reports[j]
        BY <1>1, <3>1, ExceptSeq
      <3>3. QED
        BY <1>1, <3>2
    <2>2. CASE ~msg
      BY <1>1, <2>2 DEF AllocTrips
    <2>3. QED
      BY <2>1, <2>2
  <1>5. TypeOK'
    BY <1>1, <1>3, <1>4 DEF AllocTrips, AllocInv, TypeOK
  <1>6. Latched'
    <2>1. DOMAIN reports' = 1 .. Top
      BY <1>1, <1>4, LenProperties
    <2>2. \A j \in 1 .. Top :
             reports[j] = 0 \/ (reports[j] = 1 /\ cells[j] = -1)
      BY <1>1 DEF AllocInv, Latched
    <2>3. QED
      BY <1>2, <1>3, <1>4, <2>1, <2>2 DEF Latched
  <1>7. Accounted'
    BY DEF AllocTrips, AllocInv, Accounted, CountExact
  <1>8. QED
    BY <1>5, <1>6, <1>7 DEF AllocInv

(* What an allocation does to the books, whoever asked for it.             *)
LEMMA PlaceInv ==
    ASSUME AllocInv, NEW o \in Addr, Place(o)
    PROVE  /\ Accounted'
           /\ live' \subseteq Addr /\ space' \in [Addr -> Extras \cup {0}] /\ count' \in Int
           /\ TypeFirst => typed
  <1>1. live' \subseteq Addr /\ space' \in [Addr -> Extras \cup {0}] /\ count' \in Int
    BY DEF Place, AllocInv, TypeOK, Extra
  <1>2. ASSUME TypeFirst PROVE typed
    BY <1>2 DEF Place
  <1>3. Accounted'
    <2>1. SUFFICES ASSUME TypeFirst
                   PROVE  typed' /\ CountExact'
      BY DEF Accounted
    <2>2. typed /\ typed' /\ count' = count + 1
      BY <1>2, <2>1 DEF Place
    <2>3. Cardinality(live') = Cardinality(live) + 1
      BY LiveFinite, FS_AddElement DEF Place, AllocInv
    <2>4. CountExact'
      BY <2>1, <2>2, <2>3 DEF AllocInv, Accounted, CountExact
    <2>5. QED
      BY <2>2, <2>4
  <1>4. QED
    BY <1>1, <1>2, <1>3

LEMMA AllocPlaceInv ==
    ASSUME AllocInv, NEW o \in Addr, Alloc(o)
    PROVE  AllocInv'
  <1>1. Place(o)
    BY DEF Alloc
  <1>2. TypeOK'
    BY <1>1, PlaceInv DEF Alloc, Place, AllocInv, TypeOK
  <1>3. Latched'
    BY DEF Alloc, AllocInv, Latched
  <1>4. QED
    BY <1>1, <1>2, <1>3, PlaceInv DEF AllocInv

LEMMA PushLimitInv ==
    ASSUME AllocInv, NEW o \in Addr, NEW l \in Limits, PushLimit(o, l)
    PROVE  AllocInv'
  <1>1. Place(o)
    BY DEF PushLimit
  <1>2. /\ cells \in Seq(Limits \cup {-1}) /\ reports \in Seq(Nat)
        /\ Len(reports) = Len(cells)
    BY DEF AllocInv, TypeOK
  <1>3. /\ cells' \in Seq(Limits \cup {-1}) /\ Len(cells') = Len(cells) + 1
        /\ \A i \in 1 .. Len(cells) : cells'[i] = cells[i]
        /\ Len(cells) \in Nat
    BY <1>2, AppendFacts DEF PushLimit
  <1>4. /\ reports' \in Seq(Nat) /\ Len(reports') = Len(reports) + 1
        /\ \A i \in 1 .. Len(reports) : reports'[i] = reports[i]
        /\ reports'[Len(reports) + 1] = 0
        /\ DOMAIN reports = 1 .. Len(reports) /\ DOMAIN reports' = 1 .. Len(reports) + 1
    <2>1. reports' = Append(reports, 0) /\ 0 \in Nat
      BY DEF PushLimit
    <2>2. QED
      BY <1>2, <2>1, AppendFacts
  <1>5. TypeOK'
    <2>1. Len(cells') \in 1 .. MaxCells
      BY <1>3, BoundsAreSets DEF PushLimit, Top
    <2>2. QED
      BY <1>1, <1>2, <1>3, <1>4, <2>1, PlaceInv DEF PushLimit, Place, AllocInv, TypeOK
  <1>6. Latched'
    <2>1. \A i \in 1 .. Len(reports) :
             reports[i] = 0 \/ (reports[i] = 1 /\ cells[i] = -1)
      BY <1>4 DEF AllocInv, Latched
    <2>2. QED
      BY <1>2, <1>3, <1>4, <2>1 DEF Latched
  <1>7. QED
    BY <1>1, <1>5, <1>6, PlaceInv DEF AllocInv

LEMMA PopLimitInv ==
    ASSUME AllocInv, PopLimit
    PROVE  AllocInv'
  <1>1. /\ cells \in Seq(Limits \cup {-1}) /\ reports \in Seq(Nat)
        /\ Len(reports) = Len(cells) /\ cells # <<>> /\ reports # <<>>
        /\ Len(cells) \in 2 .. MaxCells
    BY CellFacts DEF AllocInv, TypeOK, PopLimit, Top
  <1>2. /\ cells' \in Seq(Limits \cup {-1}) /\ Len(cells') = Len(cells) - 1
        /\ \A i \in 1 .. Len(cells) - 1 : cells'[i] = cells[i]
    BY <1>1, FrontFacts DEF PopLimit
  <1>3. /\ reports' \in Seq(Nat) /\ Len(reports') = Len(reports) - 1
        /\ \A i \in 1 .. Len(reports) - 1 : reports'[i] = reports[i]
        /\ DOMAIN reports = 1 .. Len(reports) /\ DOMAIN reports' = 1 .. Len(reports) - 1
    BY <1>1, FrontFacts DEF PopLimit
  <1>4. TypeOK'
    <2>1. Len(cells') \in 1 .. MaxCells
      BY <1>1, <1>2, BoundsAreSets
    <2>2. QED
      BY <1>1, <1>2, <1>3, <2>1 DEF PopLimit, AllocInv, TypeOK
  <1>5. Latched'
    <2>1. ASSUME NEW i \in 1 .. Len(reports) - 1
          PROVE  reports[i] = 0 \/ (reports[i] = 1 /\ cells[i] = -1)
      <3>1. i \in DOMAIN reports
        BY <1>1, <1>3
      <3>2. QED
        BY <3>1 DEF AllocInv, Latched
    <2>2. QED
      BY <1>1, <1>2, <1>3, <2>1 DEF Latched
  <1>6. Accounted'
    BY DEF PopLimit, AllocInv, Accounted, CountExact
  <1>7. QED
    BY <1>4, <1>5, <1>6 DEF AllocInv

LEMMA ArmInv ==
    ASSUME AllocInv, NEW l \in Limits, NEW m \in BOOLEAN, Arm(l, m)
    PROVE  AllocInv'
  <1>1. /\ cells \in Seq(Limits \cup {-1}) /\ reports \in Seq(Nat)
        /\ Len(reports) = Len(cells) /\ Top = Len(cells)
        /\ Top \in 1 .. Len(cells) /\ Top \in 1 .. Len(reports)
        /\ DOMAIN reports = 1 .. Top
    BY CellFacts DEF AllocInv, TypeOK, Top
  <1>2. /\ cells' \in Seq(Limits \cup {-1}) /\ Len(cells') = Len(cells)
        /\ \A j \in 1 .. Top : j # Top => cells'[j] = cells[j]
    <2> DEFINE S == Limits \cup {-1}
    <2>1. /\ cells' = [cells EXCEPT ![Top] = l] /\ l \in S /\ cells \in Seq(S)
          /\ Top \in 1 .. Len(cells)
      BY <1>1 DEF Arm
    <2> HIDE DEF S
    <2>2. /\ cells' \in Seq(S) /\ Len(cells') = Len(cells)
          /\ \A j \in 1 .. Len(cells) : cells'[j] = IF j = Top THEN l ELSE cells[j]
      BY <2>1, ExceptSeq
    <2>3. QED
      BY <1>1, <2>2 DEF S
  <1>3. /\ reports' \in Seq(Nat) /\ Len(reports') = Len(reports)
        /\ \A j \in 1 .. Top : reports'[j] = IF j = Top THEN 0 ELSE reports[j]
    <2>1. reports' = [reports EXCEPT ![Top] = 0] /\ 0 \in Nat
      BY DEF Arm
    <2>2. QED
      BY <1>1, <2>1, ExceptSeq
  <1>4. TypeOK'
    BY <1>1, <1>2, <1>3 DEF Arm, AllocInv, TypeOK
  <1>5. Latched'
    <2>1. DOMAIN reports' = 1 .. Top
      BY <1>1, <1>3, LenProperties
    <2>2. QED
      BY <1>1, <1>2, <1>3, <2>1 DEF AllocInv, Latched
  <1>6. Accounted'
    BY DEF Arm, AllocInv, Accounted, CountExact
  <1>7. QED
    BY <1>4, <1>5, <1>6 DEF AllocInv

LEMMA FreeInv ==
    ASSUME AllocInv, NEW o \in Addr, Free(o)
    PROVE  AllocInv'
  <1>1. TypeOK'
    BY DEF Free, AllocInv, TypeOK
  <1>2. Latched'
    BY DEF Free, AllocInv, Latched
  <1>3. Accounted'
    <2>1. SUFFICES ASSUME TypeFirst
                   PROVE  typed' /\ CountExact'
      BY DEF Accounted
    <2>2. typed /\ typed' /\ count' = count - 1
      BY <2>1 DEF Free, AllocInv, Accounted
    <2>3. Cardinality(live') = Cardinality(live) - 1
      BY LiveFinite, FS_RemoveElement DEF Free, AllocInv
    <2>4. CountExact'
      BY <2>1, <2>2, <2>3 DEF AllocInv, Accounted, CountExact
    <2>5. QED
      BY <2>2, <2>4
  <1>4. QED
    BY <1>1, <1>2, <1>3 DEF AllocInv

LEMMA OtherInv ==
    ASSUME AllocInv,
           \/ AllocLatched \/ AllocFails \/ Report \/ SetType
           \/ (\E e \in Extras : SetExtra(e))
           \/ UNCHANGED vars
    PROVE  AllocInv'
  <1>1. /\ TypeOK' /\ Latched'
        /\ live' = live /\ count' = count
        /\ typed => typed'
    BY DEF AllocInv, TypeOK, Latched, AllocLatched, AllocFails, Report, ReportReturns,
           ReportJumps, SetType, SetExtra, vars
  <1>2. Accounted'
    BY <1>1 DEF AllocInv, Accounted, CountExact
  <1>3. QED
    BY <1>1, <1>2 DEF AllocInv

LEMMA InitAllocInv ==
    ASSUME Init
    PROVE  AllocInv
  <1>1. /\ cells \in Seq(Limits \cup {-1}) /\ Len(cells) = 1
        /\ reports \in Seq(Nat) /\ Len(reports) = 1
        /\ DOMAIN reports = 1 .. 1 /\ reports[1] = 0
    BY BoundsAreSets DEF Init
  <1>2. TypeOK
    <2>1. live \subseteq Addr /\ space \in [Addr -> Extras \cup {0}]
      BY DEF Init
    <2>2. Len(cells) \in 1 .. MaxCells /\ count \in Int
      BY <1>1, BoundsAreSets DEF Init
    <2>3. QED
      BY <1>1, <2>1, <2>2 DEF Init, TypeOK
  <1>3. Latched
    BY <1>1 DEF Latched
  <1>4. Accounted
    BY FS_EmptySet DEF Init, Accounted, CountExact
  <1>5. QED
    BY <1>2, <1>3, <1>4 DEF AllocInv

LEMMA NextInv ==
    ASSUME AllocInv, [Next]_vars
    PROVE  AllocInv'
  BY AllocTripsInv, AllocPlaceInv, PushLimitInv, PopLimitInv, ArmInv, FreeInv, OtherInv
     DEF Next, AllocAttempt

-----------------------------------------------------------------------------
(* The invariant behind the theorems below holds in every state.           *)
THEOREM AllocInvHolds == Spec => []AllocInv
  <1>1. Init => AllocInv
    BY InitAllocInv
  <1>2. AllocInv /\ [Next]_vars => AllocInv'
    BY NextInv
  <1>3. QED
    BY <1>1, <1>2, PTL DEF Spec

(* The fields of the base keep their types: in particular the ceiling's    *)
(* stack of cells is never empty, and a cell holds a ceiling the embedder  *)
(* armed or the latch, never a negated or decremented ceiling.             *)
THEOREM AllocTypeCorrect == Spec => []TypeOK
  <1>1. AllocInv => TypeOK
    BY DEF AllocInv
  <1>2. QED
    BY <1>1, AllocInvHolds, PTL

(* The alloc-count field is the number of objects in existence             *)
(* (x-base.h:244-247), for an embedder that types its base first.          *)
THEOREM CountIsExact == ASSUME TypeFirst PROVE Spec => []CountExact
  <1>1. AllocInv => CountExact
    BY DEF AllocInv, Accounted
  <1>2. QED
    BY <1>1, AllocInvHolds, PTL

(* A trip is reported through the error path once until the ceiling is     *)
(* armed again (x-obj.c:110-113), whatever is pushed on top of it.         *)
THEOREM ReportedOnce == Spec => []OneReport
  <1>1. AllocInv => OneReport
    BY DEF AllocInv, Latched, OneReport
  <1>2. QED
    BY <1>1, AllocInvHolds, PTL

(* No allocation takes the objects in existence above the ceiling in force *)
(* (x-base.h:252-254), for an embedder that types its base first.          *)
THEOREM CeilingIsHeld == ASSUME TypeFirst PROVE Spec => CeilingHolds
  <1> DEFINE Held ==
        live' \ live # {} /\ typed /\ Limit > 0 => Cardinality(live') <= Limit
  <1>1. ASSUME AllocInv, Next, live' \ live # {}, typed, Limit > 0
        PROVE  Cardinality(live') <= Limit
    <2>1. PICK o \in Addr : Place(o)
      BY <1>1 DEF Next, AllocAttempt, AllocLatched, AllocTrips, AllocFails, Alloc, Free,
         Report, ReportReturns, ReportJumps, SetType, Arm, PushLimit, PopLimit, SetExtra
    <2>2. Cardinality(live') = Cardinality(live) + 1
      BY <1>1, <2>1, LiveFinite, FS_AddElement DEF Place, AllocInv
    <2>3. count = Cardinality(live) /\ Cardinality(live) \in Nat
      BY <1>1, LiveFinite DEF AllocInv, Accounted, CountExact
    <2>4. ~(count >= Limit) /\ Limit \in Int
      BY <1>1, <2>1, CellFacts DEF Place, Admitted, Tripped, AllocInv, Limit
    <2>5. QED
      BY <2>2, <2>3, <2>4
  <1>2. AllocInv /\ [Next]_vars => [Held]_vars
    BY <1>1
  <1>3. QED
    BY <1>2, AllocInvHolds, PTL DEF Spec, CeilingHolds
=============================================================================
