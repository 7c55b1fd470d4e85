-------------------------------- MODULE XFacts --------------------------------
(***************************************************************************)
(* Facts the proofs of several components rest on: induction, sequences,   *)
(* reachability.                                                           *)
(*                                                                         *)
(* The library states induction over the natural numbers for a predicate.  *)
(* Here it is stated for a set, the set of the numbers it holds for: that  *)
(* way a proof can cite it for any predicate.                              *)
(***************************************************************************)
EXTENDS XReach, Integers, SequencesExt, SequenceTheorems, WellFoundedInduction, TLAPS

-----------------------------------------------------------------------------
(* Induction. *)

(* A nonempty set of natural numbers has a least element. *)
LEMMA LeastElement ==
    ASSUME NEW T, T \subseteq Nat, T # {}
    PROVE  \E m \in T : \A k \in T : m <= k
  <1> DEFINE Less == {ss \in Nat \X Nat : ss[1] < ss[2]}
  <1>1. IsWellFoundedOn(Less, Nat)
    BY NatLessThanWellFounded DEF OpToRel
  <1>2. PICK x \in T : \A y \in T : <<y, x>> \notin Less
    <2> HIDE DEF Less
    <2>1. QED
      BY <1>1, WFMin
  <1>3. \A y \in T : ~(y < x)
    BY <1>2
  <1>4. QED
    BY <1>3

(* A set that holds 0 and the successor of its members holds all numbers.  *)
LEMMA InductionOnSet ==
    ASSUME NEW S, 0 \in S, \A n \in Nat : n \in S => n + 1 \in S
    PROVE  Nat \subseteq S
  <1>1. SUFFICES ASSUME Nat \ S # {} PROVE FALSE
    OBVIOUS
  <1>2. PICK m \in Nat \ S : \A k \in Nat \ S : m <= k
    BY <1>1, LeastElement
  <1>3. m - 1 \in Nat /\ m - 1 \in S
    BY <1>2
  <1>4. QED
    BY <1>2, <1>3

(* The runs of a recursion up to n: from a, each value gives the next one. *)
Runs(D, a, step, n) ==
    {f \in [0 .. n -> D] : f[0] = a /\ \A k \in 0 .. n - 1 : f[k + 1] = step[k][f[k]]}

LEMMA RunsExist ==
    ASSUME NEW D, NEW a \in D, NEW step \in [Nat -> [D -> D]], NEW n \in Nat
    PROVE  Runs(D, a, step, n) # {}
  <1> DEFINE S == {m \in Nat : Runs(D, a, step, m) # {}}
  <1>1. 0 \in S
    <2>1. [k \in 0 .. 0 |-> a] \in Runs(D, a, step, 0)
      BY DEF Runs
    <2>2. QED
      BY <2>1
  <1>2. ASSUME NEW m \in Nat, m \in S PROVE m + 1 \in S
    <2>1. PICK f \in Runs(D, a, step, m) : TRUE
      BY <1>2
    <2>2. /\ f \in [0 .. m -> D] /\ f[0] = a
          /\ \A k \in 0 .. m - 1 : f[k + 1] = step[k][f[k]]
      BY DEF Runs
    <2> DEFINE g == [k \in 0 .. m + 1 |-> IF k = m + 1 THEN step[m][f[m]] ELSE f[k]]
    <2>3. f[m] \in D /\ step[m] \in [D -> D] /\ step[m][f[m]] \in D
      BY <2>2
    <2>4. g \in [0 .. m + 1 -> D]
      BY <2>2, <2>3
    <2>5. g[0] = a
      BY <2>2
    <2>6. \A k \in 0 .. m : g[k + 1] = step[k][g[k]]
      BY <2>2
    <2> HIDE DEF g
    <2>7. \A k \in 0 .. (m + 1) - 1 : g[k + 1] = step[k][g[k]]
      BY <2>6
    <2>8. g \in Runs(D, a, step, m + 1)
      BY <2>4, <2>5, <2>7 DEF Runs
    <2>9. QED
      BY <2>8
  <1>3. Nat \subseteq S
    <2> HIDE DEF S
    <2>1. QED
      BY <1>1, <1>2, InductionOnSet
  <1>4. QED
    BY <1>3

LEMMA RunsAgree ==
    ASSUME NEW D, NEW a \in D, NEW step \in [Nat -> [D -> D]],
           NEW l \in Nat, NEW m \in Nat, l <= m,
           NEW f \in Runs(D, a, step, l), NEW g \in Runs(D, a, step, m)
    PROVE  f[l] = g[l]
  <1> DEFINE S == {n \in Nat : n <= l => f[n] = g[n]}
  <1>1. 0 \in S
    BY DEF Runs
  <1>2. ASSUME NEW n \in Nat, n \in S PROVE n + 1 \in S
    BY <1>2 DEF Runs
  <1>3. Nat \subseteq S
    <2> HIDE DEF S
    <2>1. QED
      BY <1>1, <1>2, InductionOnSet
  <1>4. QED
    BY <1>3

(* A function on the numbers can be given by its first value and by what   *)
(* follows from one value to the next: there is such a function, and so    *)
(* what a recursive definition chooses satisfies its own equation.         *)
Recursions(D, a, step) ==
    {f \in [Nat -> D] : f[0] = a /\ \A n \in Nat : f[n + 1] = step[n][f[n]]}

LEMMA RecursionExists ==
    ASSUME NEW D, NEW a \in D, NEW step \in [Nat -> [D -> D]]
    PROVE  Recursions(D, a, step) # {}
  <1> DEFINE run(n) == CHOOSE f \in Runs(D, a, step, n) : TRUE
             F == [n \in Nat |-> run(n)[n]]
  <1>1. \A n \in Nat : run(n) \in Runs(D, a, step, n)
    BY RunsExist
  <1> HIDE DEF run
  <1>2. \A n \in Nat : run(n) \in [0 .. n -> D] /\ run(n)[0] = a
    BY <1>1 DEF Runs
  <1>3. F \in [Nat -> D] /\ F[0] = a
    BY <1>2
  <1>4. ASSUME NEW n \in Nat PROVE F[n + 1] = step[n][F[n]]
    <2>1. run(n)[n] = run(n + 1)[n]
      BY <1>1, RunsAgree
    <2>2. run(n + 1)[n + 1] = step[n][run(n + 1)[n]]
      BY <1>1 DEF Runs
    <2>3. QED
      BY <2>1, <2>2
  <1>5. F \in Recursions(D, a, step)
    <2> HIDE DEF F
    <2>1. QED
      BY <1>3, <1>4 DEF Recursions
  <1>6. QED
    BY <1>5

-----------------------------------------------------------------------------
(* Sequences that model stacks: the C stack of registered objects, the     *)
(* pending calls of the mark walk, the cells of a base field.              *)

(* What a push leaves of the sequence below it. *)
LEMMA AppendFacts ==
    ASSUME NEW S, NEW s \in Seq(S), NEW x \in S
    PROVE  /\ Append(s, x) \in Seq(S)
           /\ Len(s) \in Nat /\ Len(Append(s, x)) = Len(s) + 1
           /\ \A i \in 1 .. Len(s) : Append(s, x)[i] = s[i]
           /\ Append(s, x)[Len(s) + 1] = x
           /\ DOMAIN s = 1 .. Len(s) /\ DOMAIN Append(s, x) = 1 .. Len(s) + 1
  OBVIOUS

(* What remains when a sequence is cut down to its first k elements. *)
LEMMA SubSeqFacts ==
    ASSUME NEW S, NEW s \in Seq(S), NEW k \in 0 .. Len(s)
    PROVE  /\ SubSeq(s, 1, k) \in Seq(S)
           /\ Len(SubSeq(s, 1, k)) = k
           /\ \A i \in 1 .. k : SubSeq(s, 1, k)[i] = s[i]
           /\ DOMAIN s = 1 .. Len(s) /\ DOMAIN SubSeq(s, 1, k) = 1 .. k
  OBVIOUS

(* What a pop leaves. *)
LEMMA FrontFacts ==
    ASSUME NEW S, NEW s \in Seq(S), s # <<>>
    PROVE  /\ Front(s) \in Seq(S)
           /\ Len(s) \in Nat \ {0} /\ Len(Front(s)) = Len(s) - 1
           /\ \A i \in 1 .. Len(s) - 1 : Front(s)[i] = s[i]
           /\ Last(s) = s[Len(s)] /\ Last(s) \in S
           /\ DOMAIN s = 1 .. Len(s) /\ DOMAIN Front(s) = 1 .. Len(s) - 1
  <1>1. Len(s) \in Nat \ {0}
    BY EmptySeq
  <1> DEFINE k == Len(s) - 1
  <1>2. k \in 0 .. Len(s) /\ Front(s) = SubSeq(s, 1, k)
    BY <1>1 DEF Front
  <1>3. Last(s) = s[Len(s)] /\ Last(s) \in S
    BY <1>1, ElementOfSeq DEF Last
  <1> HIDE DEF k
  <1>4. /\ SubSeq(s, 1, k) \in Seq(S) /\ Len(SubSeq(s, 1, k)) = k
        /\ \A i \in 1 .. k : SubSeq(s, 1, k)[i] = s[i]
        /\ DOMAIN s = 1 .. Len(s) /\ DOMAIN SubSeq(s, 1, k) = 1 .. k
    BY <1>2, SubSeqFacts
  <1>5. QED
    BY <1>1, <1>2, <1>3, <1>4 DEF k

-----------------------------------------------------------------------------
(* The three laws of reachability, and one that follows from them. *)

(* The roots are reachable: the mark of a root is never unfounded. *)
LEMMA ReachRoots ==
    ASSUME NEW U, NEW kids, NEW roots \in SUBSET U
    PROVE  roots \subseteq Reach(U, kids, roots)
  BY DEF Reach

(* What a reachable object refers to is reachable. *)
LEMMA ReachClosed ==
    ASSUME NEW U, NEW kids, NEW roots \in SUBSET U,
           NEW o \in Reach(U, kids, roots), NEW k \in kids[o], k \in U
    PROVE  k \in Reach(U, kids, roots)
  BY DEF Reach, Closed

(* Nothing else is reachable: a closed set around the roots holds it all.  *)
LEMMA ReachLeast ==
    ASSUME NEW U, NEW kids, NEW roots,
           NEW S \in SUBSET U, roots \subseteq S, Closed(S, kids)
    PROVE  Reach(U, kids, roots) \subseteq S
  BY DEF Reach

(* Edges out of what is not reachable do not matter. *)
LEMMA ReachSame ==
    ASSUME NEW U, NEW kids, NEW others, NEW roots \in SUBSET U,
           \A o \in Reach(U, kids, roots) : others[o] = kids[o] /\ kids[o] \subseteq U
    PROVE  Reach(U, others, roots) = Reach(U, kids, roots)
  <1> DEFINE R == Reach(U, kids, roots)
             S == Reach(U, others, roots)
  <1>1. R \in SUBSET U /\ S \in SUBSET U /\ roots \subseteq R /\ roots \subseteq S
    BY DEF Reach
  <1>2. \A o \in R : kids[o] \subseteq R
    BY ReachClosed
  <1>3. Closed(R, others)
    BY <1>2 DEF Closed
  <1>4. S \subseteq R
    BY <1>1, <1>3, ReachLeast
  <1>5. ASSUME NEW o \in R \cap S, NEW k \in kids[o] PROVE k \in R \cap S
    <2>1. k \in R /\ k \in U /\ k \in others[o]
      BY <1>1, <1>2, <1>5
    <2>2. k \in S
      BY <1>5, <2>1, ReachClosed
    <2>3. QED
      BY <2>1, <2>2
  <1>6. Closed(R \cap S, kids)
    BY <1>5 DEF Closed
  <1>7. R \subseteq R \cap S
    BY <1>1, <1>6, ReachLeast
  <1>8. QED
    BY <1>4, <1>7
=============================================================================
