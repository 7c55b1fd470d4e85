------------------------------ MODULE XBase_proofs ------------------------------
(***************************************************************************)
(* Proofs about XBase, XBaseIO and XDispatch: the tree of the base is the   *)
(* tree of its fields' stacks, reads and writes lose nothing, and the type *)
(* system calls the hooks that are due.                                    *)
(***************************************************************************)
EXTENDS XBaseIO, XDispatch, XFacts

-----------------------------------------------------------------------------
(* Paths. *)

Path == Seq({1, 2})

(* The nodes that At goes through. *)
AtNodes(t, p, n, f) ==
    f = [i \in 0 .. n |-> IF i = 0 THEN t ELSE f[i - 1][p[i]]]

LEMMA AtNodesExist ==
    ASSUME NEW t, NEW p, NEW n \in Nat
    PROVE  \E f : AtNodes(t, p, n, f)
  <1> DEFINE S == {m \in Nat : \E f : AtNodes(t, p, m, f)}
  <1>1. 0 \in S
    <2> DEFINE f == [i \in 0 .. 0 |-> t]
    <2>1. AtNodes(t, p, 0, f)
      BY DEF AtNodes
    <2>2. QED
      BY <2>1
  <1>2. ASSUME NEW m \in Nat, m \in S PROVE m + 1 \in S
    <2>1. PICK f : AtNodes(t, p, m, f)
      BY <1>2
    <2> DEFINE g == [i \in 0 .. m + 1 |-> IF i = m + 1 THEN f[m][p[m + 1]] ELSE f[i]]
    <2>2. ASSUME NEW i \in 0 .. m PROVE f[i] = IF i = 0 THEN t ELSE f[i - 1][p[i]]
      BY <2>1 DEF AtNodes
    <2>3. ASSUME NEW i \in 0 .. m + 1 PROVE g[i] = IF i = 0 THEN t ELSE g[i - 1][p[i]]
      <3>1. CASE i = m + 1
        <4>1. g[i] = f[m][p[i]] /\ i # 0 /\ g[i - 1] = f[m]
          BY <3>1
        <4>2. QED
          BY <4>1
      <3>2. CASE i # m + 1
        <4>1. i \in 0 .. m /\ g[i] = f[i]
          BY <3>2
        <4>2. i # 0 => g[i - 1] = f[i - 1]
          BY <4>1
        <4>3. QED
          BY <2>2, <4>1, <4>2
      <3>3. QED
        BY <3>1, <3>2
    <2>4. g = [i \in 0 .. m + 1 |-> g[i]]
      OBVIOUS
    <2> HIDE DEF g
    <2>5. AtNodes(t, p, m + 1, g)
      BY <2>3, <2>4 DEF AtNodes
    <2>6. QED
      BY <2>5
  <1>3. QED
    <2> HIDE DEF S
    <2>1. Nat \subseteq S
      BY <1>1, <1>2, InductionOnSet
    <2>2. QED
      BY <2>1 DEF S

LEMMA AtIs ==
    ASSUME NEW t, NEW p \in Path
    PROVE  \E f : AtNodes(t, p, Len(p), f) /\ At(t, p) = f[Len(p)]
  <1> DEFINE Eq(f) == f = [i \in 0 .. Len(p) |-> IF i = 0 THEN t ELSE f[i - 1][p[i]]]
             f == CHOOSE f : Eq(f)
  <1>1. \E g : Eq(g)
    <2>1. Len(p) \in Nat
      BY DEF Path
    <2>2. PICK g : AtNodes(t, p, Len(p), g)
      BY <2>1, AtNodesExist
    <2>3. Eq(g)
      BY <2>2 DEF AtNodes
    <2> HIDE DEF Eq
    <2>4. QED
      BY <2>3
  <1>2. Eq(f)
    <2> HIDE DEF Eq
    <2>1. QED
      BY <1>1
  <1>3. At(t, p) = f[Len(p)]
    BY DEF At
  <1> HIDE DEF f
  <1>4. QED
    BY <1>2, <1>3 DEF AtNodes

LEMMA AtRoot ==
    ASSUME NEW t
    PROVE  At(t, base) = t
  <1>1. <<>> \in Path /\ Len(<<>>) = 0
    BY DEF Path
  <1>2. PICK f : AtNodes(t, <<>>, 0, f) /\ At(t, <<>>) = f[0]
    BY <1>1, AtIs
  <1>3. QED
    BY <1>2 DEF AtNodes, base

LEMMA AtStep ==
    ASSUME NEW t, NEW p \in Path, NEW d \in {1, 2}
    PROVE  At(t, Append(p, d)) = At(t, p)[d]
  <1> DEFINE q == Append(p, d)
             n == Len(p)
  <1>1. /\ q \in Path /\ n \in Nat /\ Len(q) = n + 1
        /\ \A i \in 1 .. n : q[i] = p[i]
        /\ q[n + 1] = d
    BY AppendFacts DEF Path
  <1>2. PICK f : AtNodes(t, q, n + 1, f) /\ At(t, q) = f[n + 1]
    BY <1>1, AtIs
  <1>3. PICK g : AtNodes(t, p, n, g) /\ At(t, p) = g[n]
    BY AtIs
  <1> HIDE DEF q, n
  <1>4. f[0] = t /\ \A i \in 1 .. n + 1 : f[i] = f[i - 1][q[i]]
    BY <1>1, <1>2 DEF AtNodes
  <1>5. g[0] = t /\ \A i \in 1 .. n : g[i] = g[i - 1][p[i]]
    BY <1>1, <1>3 DEF AtNodes
  <1> DEFINE S == {i \in Nat : i <= n => f[i] = g[i]}
  <1>6. Nat \subseteq S
    <2>1. 0 \in S
      BY <1>4, <1>5
    <2>2. ASSUME NEW i \in Nat, i \in S PROVE i + 1 \in S
      <3>1. SUFFICES ASSUME i + 1 <= n PROVE f[i + 1] = g[i + 1]
        OBVIOUS
      <3>2. f[i] = g[i] /\ i + 1 \in 1 .. n /\ i + 1 \in 1 .. n + 1 /\ (i + 1) - 1 = i
        BY <1>1, <2>2, <3>1
      <3>3. f[i + 1] = f[i][q[i + 1]] /\ g[i + 1] = g[i][p[i + 1]]
        BY <1>4, <1>5, <3>2
      <3>4. QED
        BY <1>1, <3>2, <3>3
    <2>3. QED
      <3> HIDE DEF S
      <3>1. QED
        BY <2>1, <2>2, InductionOnSet
  <1>7. f[n] = g[n]
    BY <1>1, <1>6
  <1>8. f[n + 1] = f[n][d]
    BY <1>1, <1>4
  <1>9. QED
    BY <1>2, <1>3, <1>7, <1>8 DEF q

(* The nodes that Put makes. *)
PutNode(t, p, v, n, f) ==
    IF n = 0 THEN v
    ELSE [At(t, SubSeq(p, 1, Len(p) - n)) EXCEPT ![p[Len(p) - n + 1]] = f[n - 1]]

LEMMA PutNodesExist ==
    ASSUME NEW t, NEW p, NEW v, NEW n \in Nat
    PROVE  \E f : f = [i \in 0 .. n |-> PutNode(t, p, v, i, f)]
  <1> DEFINE S == {m \in Nat : \E f : f = [i \in 0 .. m |-> PutNode(t, p, v, i, f)]}
  <1>1. 0 \in S
    <2> DEFINE f == [i \in 0 .. 0 |-> v]
    <2>1. f = [i \in 0 .. 0 |-> PutNode(t, p, v, i, f)]
      BY DEF PutNode
    <2>2. QED
      BY <2>1
  <1>2. ASSUME NEW m \in Nat, m \in S PROVE m + 1 \in S
    <2>1. PICK f : f = [i \in 0 .. m |-> PutNode(t, p, v, i, f)]
      BY <1>2
    <2> DEFINE g == [i \in 0 .. m + 1 |->
                       IF i = m + 1 THEN PutNode(t, p, v, i, f) ELSE f[i]]
    <2>2. ASSUME NEW i \in 0 .. m + 1 PROVE g[i] = PutNode(t, p, v, i, g)
      <3>1. i # 0 => g[i - 1] = f[i - 1]
        OBVIOUS
      <3>2. PutNode(t, p, v, i, g) = PutNode(t, p, v, i, f)
        <4> HIDE DEF g
        <4>1. QED
          BY <3>1 DEF PutNode
      <3>3. g[i] = PutNode(t, p, v, i, f)
        <4>1. CASE i = m + 1
          BY <4>1
        <4>2. CASE i # m + 1
          <5>1. i \in 0 .. m /\ g[i] = f[i]
            BY <4>2
          <5>2. QED
            BY <2>1, <5>1
        <4>3. QED
          BY <4>1, <4>2
      <3>4. QED
        BY <3>2, <3>3
    <2>3. g = [i \in 0 .. m + 1 |-> g[i]]
      OBVIOUS
    <2> HIDE DEF g
    <2>4. g = [i \in 0 .. m + 1 |-> PutNode(t, p, v, i, g)]
      BY <2>2, <2>3
    <2>5. QED
      BY <2>4
  <1>3. QED
    <2> HIDE DEF S
    <2>1. Nat \subseteq S
      BY <1>1, <1>2, InductionOnSet
    <2>2. QED
      BY <2>1 DEF S

LEMMA PutIs ==
    ASSUME NEW t, NEW p \in Path, NEW v
    PROVE  \E f : /\ \A i \in 0 .. Len(p) : f[i] = PutNode(t, p, v, i, f)
                  /\ Put(t, p, v) = f[Len(p)]
  <1> DEFINE Eq(f) == f = [n \in 0 .. Len(p) |->
                 LET i == Len(p) - n
                 IN  IF n = 0 THEN v ELSE [At(t, SubSeq(p, 1, i)) EXCEPT ![p[i + 1]] = f[n - 1]]]
             f == CHOOSE f : Eq(f)
  <1>1. \E g : Eq(g)
    <2>1. Len(p) \in Nat
      BY DEF Path
    <2>2. PICK g : g = [n \in 0 .. Len(p) |-> PutNode(t, p, v, n, g)]
      BY <2>1, PutNodesExist
    <2>3. Eq(g)
      BY <2>2 DEF PutNode
    <2> HIDE DEF Eq
    <2>4. QED
      BY <2>3
  <1>2. Eq(f)
    <2> HIDE DEF Eq
    <2>1. QED
      BY <1>1
  <1>3. Put(t, p, v) = f[Len(p)]
    BY DEF Put
  <1> HIDE DEF f
  <1>4. ASSUME NEW n \in 0 .. Len(p) PROVE f[n] = PutNode(t, p, v, n, f)
    BY <1>2 DEF PutNode
  <1>5. QED
    BY <1>3, <1>4

LEMMA PutRoot ==
    ASSUME NEW t, NEW v
    PROVE  Put(t, base, v) = v
  <1>1. base \in Path /\ Len(base) = 0
    BY DEF Path, base
  <1>2. PICK f : /\ \A i \in 0 .. Len(base) : f[i] = PutNode(t, base, v, i, f)
                 /\ Put(t, base, v) = f[Len(base)]
    BY <1>1, PutIs
  <1>3. f[0] = PutNode(t, base, v, 0, f)
    BY <1>1, <1>2
  <1>4. QED
    BY <1>1, <1>2, <1>3 DEF PutNode

(* To assign to the first or rest of a node is to assign a changed node.   *)
LEMMA PutStep ==
    ASSUME NEW t, NEW p \in Path, NEW d \in {1, 2}, NEW v
    PROVE  Put(t, Append(p, d), v) = Put(t, p, [At(t, p) EXCEPT ![d] = v])
  <1> DEFINE q == Append(p, d)
             l == Len(p)
             w == [At(t, p) EXCEPT ![d] = v]
  <1>1. /\ q \in Path /\ l \in Nat /\ Len(q) = l + 1
        /\ \A i \in 1 .. l : q[i] = p[i]
        /\ q[l + 1] = d
    BY AppendFacts DEF Path
  <1>2. PICK f : /\ \A i \in 0 .. l + 1 : f[i] = PutNode(t, q, v, i, f)
                 /\ Put(t, q, v) = f[l + 1]
    <2> HIDE DEF q, l
    <2> q \in Path
      BY <1>1
    <2>1. PICK f : /\ \A i \in 0 .. Len(q) : f[i] = PutNode(t, q, v, i, f)
                   /\ Put(t, q, v) = f[Len(q)]
      BY PutIs
    <2>2. QED
      BY <1>1, <2>1
  <1>3. PICK g : (\A i \in 0 .. l : g[i] = PutNode(t, p, w, i, g)) /\ Put(t, p, w) = g[l]
    BY PutIs
  <1>4. ASSUME NEW i \in 0 .. l PROVE SubSeq(q, 1, l - i) = SubSeq(p, 1, l - i)
    <2>1. l - i \in 0 .. l
      BY <1>1
    <2>2. QED
      BY <1>1, <2>1 DEF Path
  <1>5. SubSeq(p, 1, l) = p
    BY <1>1 DEF Path
  <1> HIDE DEF q, l, w
  <1> DEFINE S == {i \in Nat : i <= l => f[i + 1] = g[i]}
  <1>6. Nat \subseteq S
    <2>1. 0 \in S
      <3>1. f[1] = PutNode(t, q, v, 1, f) /\ f[0] = PutNode(t, q, v, 0, f)
        BY <1>1, <1>2
      <3>2. f[0] = v
        BY <3>1 DEF PutNode
      <3>3. Len(q) - 1 = l /\ Len(q) - 1 + 1 = l + 1 /\ 0 \in 0 .. l /\ l - 0 = l
        BY <1>1
      <3>4. SubSeq(q, 1, Len(q) - 1) = p
        BY <1>4, <1>5, <3>3
      <3>5. f[1] = [At(t, p) EXCEPT ![d] = v]
        <4>1. q[Len(q) - 1 + 1] = d /\ f[1 - 1] = v
          BY <1>1, <3>2
        <4>2. PutNode(t, q, v, 1, f)
                = [At(t, SubSeq(q, 1, Len(q) - 1)) EXCEPT ![q[Len(q) - 1 + 1]] = f[1 - 1]]
          BY DEF PutNode
        <4>3. QED
          BY <3>1, <3>4, <4>1, <4>2
      <3>6. g[0] = w
        <4>1. g[0] = PutNode(t, p, w, 0, g)
          BY <1>3, <3>3
        <4>2. QED
          BY <4>1 DEF PutNode
      <3>7. QED
        BY <3>5, <3>6 DEF w
    <2>2. ASSUME NEW i \in Nat, i \in S PROVE i + 1 \in S
      <3>1. SUFFICES ASSUME i + 1 <= l PROVE f[(i + 1) + 1] = g[i + 1]
        OBVIOUS
      <3>2. f[i + 1] = g[i] /\ i + 1 \in 0 .. l /\ i + 2 \in 0 .. l + 1
        BY <1>1, <2>2, <3>1
      <3>3. f[i + 2] = PutNode(t, q, v, i + 2, f) /\ g[i + 1] = PutNode(t, p, w, i + 1, g)
        BY <1>2, <1>3, <3>2
      <3> DEFINE k == l - (i + 1)
      <3>4. k + 1 \in 1 .. l /\ Len(q) - (i + 2) = k /\ Len(p) - (i + 1) = k
            /\ (i + 2) - 1 = i + 1 /\ (i + 1) - 1 = i /\ i + 2 # 0 /\ i + 1 # 0
        BY <1>1, <3>1 DEF l
      <3>5. SubSeq(q, 1, k) = SubSeq(p, 1, k) /\ q[k + 1] = p[k + 1]
        BY <1>1, <1>4, <3>2, <3>4
      <3> HIDE DEF k
      <3>6. PutNode(t, q, v, i + 2, f) = [At(t, SubSeq(p, 1, k)) EXCEPT ![p[k + 1]] = f[i + 1]]
        BY <3>4, <3>5 DEF PutNode
      <3>7. PutNode(t, p, w, i + 1, g) = [At(t, SubSeq(p, 1, k)) EXCEPT ![p[k + 1]] = g[i]]
        BY <3>4 DEF PutNode
      <3>8. i + 2 = (i + 1) + 1
        OBVIOUS
      <3>9. QED
        BY <3>2, <3>3, <3>6, <3>7, <3>8
    <2>3. QED
      <3> HIDE DEF S
      <3>1. QED
        BY <2>1, <2>2, InductionOnSet
  <1>7. f[l + 1] = g[l]
    BY <1>1, <1>6
  <1>8. QED
    BY <1>2, <1>3, <1>7 DEF q, w

-----------------------------------------------------------------------------
(* Pairs. *)

LEMMA PairFacts ==
    ASSUME NEW a, NEW b
    PROVE  /\ pair(a, b)[1] = a /\ pair(a, b)[2] = b /\ pair(a, b) # nil
           /\ \A v : [pair(a, b) EXCEPT ![1] = v] = pair(v, b)
           /\ \A v : [pair(a, b) EXCEPT ![2] = v] = pair(a, v)
  BY DEF pair, nil

LEMMA PathFacts ==
    /\ base \in Path
    /\ \A p \in Path : First(p) \in Path /\ Rest(p) \in Path
  BY DEF Path, base, First, Rest

(* What is below a pair, and what an assignment below it makes of it.      *)
LEMMA BelowPair ==
    ASSUME NEW t, NEW p \in Path, NEW a, NEW b, At(t, p) = pair(a, b)
    PROVE  /\ At(t, First(p)) = a /\ At(t, Rest(p)) = b
           /\ \A v : Put(t, First(p), v) = Put(t, p, pair(v, b))
           /\ \A v : Put(t, Rest(p), v) = Put(t, p, pair(a, v))
  <1>1. At(t, First(p)) = pair(a, b)[1] /\ At(t, Rest(p)) = pair(a, b)[2]
    BY AtStep DEF First, Rest
  <1>2. ASSUME NEW v
        PROVE  /\ Put(t, First(p), v) = Put(t, p, [pair(a, b) EXCEPT ![1] = v])
               /\ Put(t, Rest(p), v) = Put(t, p, [pair(a, b) EXCEPT ![2] = v])
    <2>1. /\ Put(t, First(p), v) = Put(t, p, [At(t, p) EXCEPT ![1] = v])
          /\ Put(t, Rest(p), v) = Put(t, p, [At(t, p) EXCEPT ![2] = v])
      <3>1. Put(t, Append(p, 1), v) = Put(t, p, [At(t, p) EXCEPT ![1] = v])
        BY PutStep
      <3>2. Put(t, Append(p, 2), v) = Put(t, p, [At(t, p) EXCEPT ![2] = v])
        BY PutStep
      <3>3. QED
        BY <3>1, <3>2 DEF First, Rest
    <2>2. QED
      BY <2>1
  <1>3. ASSUME NEW v
        PROVE  /\ [pair(a, b) EXCEPT ![1] = v] = pair(v, b)
               /\ [pair(a, b) EXCEPT ![2] = v] = pair(a, v)
    BY PairFacts
  <1>4. At(t, First(p)) = a /\ At(t, Rest(p)) = b
    BY <1>1, PairFacts
  <1>5. ASSUME NEW v
        PROVE  /\ Put(t, First(p), v) = Put(t, p, pair(v, b))
               /\ Put(t, Rest(p), v) = Put(t, p, pair(a, v))
    BY <1>2, <1>3
  <1>6. QED
    BY <1>4, <1>5

-----------------------------------------------------------------------------
(* Lists. *)

LEMMA ListIs ==
    ASSUME NEW S, NEW s \in Seq(S)
    PROVE  \E f : /\ f[0] = nil /\ \A n \in 1 .. Len(s) : f[n] = pair(s[Len(s) - n + 1], f[n - 1])
                  /\ List(s) = f[Len(s)]
  <1> DEFINE L == Len(s)
             Eq(n, f) == f = [m \in 0 .. n |->
                                IF m = 0 THEN nil ELSE pair(s[L - m + 1], f[m - 1])]
             S1 == {n \in Nat : \E f : Eq(n, f)}
             f == CHOOSE f : Eq(L, f)
  <1>1. L \in Nat
    OBVIOUS
  <1> HIDE DEF L
  <1>2. 0 \in S1
    <2> DEFINE g == [m \in 0 .. 0 |-> nil]
    <2>1. Eq(0, g)
      OBVIOUS
    <2>2. QED
      BY <2>1
  <1>3. ASSUME NEW n \in Nat, n \in S1 PROVE n + 1 \in S1
    <2>1. PICK g : Eq(n, g)
      BY <1>3
    <2> DEFINE h == [m \in 0 .. n + 1 |->
                       IF m = n + 1 THEN pair(s[L - m + 1], g[n]) ELSE g[m]]
    <2>2. ASSUME NEW m \in 0 .. n + 1
          PROVE  h[m] = IF m = 0 THEN nil ELSE pair(s[L - m + 1], h[m - 1])
      <3>1. m # 0 => h[m - 1] = g[m - 1]
        OBVIOUS
      <3>2. CASE m = n + 1
        BY <3>1, <3>2
      <3>3. CASE m # n + 1
        <4>1. m \in 0 .. n /\ h[m] = g[m]
          BY <3>3
        <4>2. QED
          BY <2>1, <3>1, <4>1
      <3>4. QED
        BY <3>2, <3>3
    <2>3. h = [m \in 0 .. n + 1 |-> h[m]]
      OBVIOUS
    <2> HIDE DEF h
    <2>4. Eq(n + 1, h)
      BY <2>2, <2>3
    <2>5. QED
      BY <2>4
  <1>4. \E g : Eq(L, g)
    <2> HIDE DEF S1
    <2>1. L \in S1
      BY <1>1, <1>2, <1>3, InductionOnSet
    <2>2. QED
      BY <2>1 DEF S1
  <1>5. Eq(L, f)
    <2> HIDE DEF Eq
    <2>1. QED
      BY <1>4
  <1>6. List(s) = f[L]
    BY DEF List, L
  <1> HIDE DEF f
  <1>7. f[0] = nil /\ \A n \in 1 .. L : f[n] = pair(s[L - n + 1], f[n - 1])
    BY <1>1, <1>5
  <1>8. QED
    BY <1>6, <1>7 DEF L

(* What is left of a sequence behind its first n elements. *)
From(s, n) == [i \in 1 .. Len(s) - n |-> s[n + i]]

LEMMA FromFacts ==
    ASSUME NEW S, NEW s \in Seq(S), NEW n \in 0 .. Len(s)
    PROVE  /\ From(s, n) \in Seq(S) /\ Len(From(s, n)) = Len(s) - n
           /\ \A i \in 1 .. Len(s) - n : From(s, n)[i] = s[n + i]
  <1>1. Len(s) - n \in Nat
    OBVIOUS
  <1>2. \A i \in 1 .. Len(s) - n : n + i \in 1 .. Len(s)
    OBVIOUS
  <1>3. From(s, n) \in [1 .. Len(s) - n -> S]
    BY <1>2 DEF From
  <1>4. QED
    BY <1>1, <1>3 DEF From

(* A list is nil, or the pair of its first element and the list of the     *)
(* others.                                                                 *)
LEMMA ListLaws ==
    ASSUME NEW S, NEW s \in Seq(S)
    PROVE  /\ Len(s) = 0 => List(s) = nil
           /\ Len(s) > 0 => List(s) = pair(s[1], List(From(s, 1)))
  <1>1. PICK f : /\ f[0] = nil
                 /\ \A n \in 1 .. Len(s) : f[n] = pair(s[Len(s) - n + 1], f[n - 1])
                 /\ List(s) = f[Len(s)]
    BY ListIs
  <1>2. ASSUME Len(s) > 0 PROVE List(s) = pair(s[1], List(From(s, 1)))
    <2> DEFINE L == Len(s)
               q == From(s, 1)
    <2>1. L \in Nat /\ L > 0 /\ 1 \in 0 .. L
      BY <1>2
    <2>2. q \in Seq(S) /\ Len(q) = L - 1 /\ \A i \in 1 .. L - 1 : q[i] = s[i + 1]
      BY <2>1, FromFacts
    <2>3. PICK g : /\ g[0] = nil
                   /\ \A n \in 1 .. Len(q) : g[n] = pair(q[Len(q) - n + 1], g[n - 1])
                   /\ List(q) = g[Len(q)]
      BY <2>2, ListIs
    <2> DEFINE T == {n \in Nat : n <= L - 1 => f[n] = g[n]}
    <2>4. Nat \subseteq T
      <3>1. 0 \in T
        BY <1>1, <2>3
      <3>2. ASSUME NEW n \in Nat, n \in T PROVE n + 1 \in T
        <4>1. SUFFICES ASSUME n + 1 <= L - 1 PROVE f[n + 1] = g[n + 1]
          OBVIOUS
        <4>2. f[n] = g[n] /\ n + 1 \in 1 .. L /\ n + 1 \in 1 .. Len(q) /\ (n + 1) - 1 = n
          BY <2>1, <2>2, <3>2, <4>1
        <4>3. /\ f[n + 1] = pair(s[L - (n + 1) + 1], f[n])
              /\ g[n + 1] = pair(q[Len(q) - (n + 1) + 1], g[n])
          BY <1>1, <2>3, <4>2
        <4>4. q[Len(q) - (n + 1) + 1] = s[L - (n + 1) + 1]
          <5>1. /\ Len(q) - (n + 1) + 1 \in 1 .. L - 1
                /\ (Len(q) - (n + 1) + 1) + 1 = L - (n + 1) + 1
            BY <2>1, <2>2, <4>1
          <5>2. QED
            BY <2>2, <5>1
        <4>5. QED
          BY <4>2, <4>3, <4>4
      <3>3. QED
        <4> HIDE DEF T
        <4>1. QED
          BY <3>1, <3>2, InductionOnSet
    <2>5. f[L - 1] = g[L - 1]
      BY <2>1, <2>4
    <2>6. f[L] = pair(s[1], f[L - 1])
      BY <1>1, <2>1
    <2>7. QED
      BY <1>1, <2>2, <2>3, <2>5, <2>6
  <1>3. QED
    BY <1>1, <1>2

(* Two lists that are the same from the second element on *)
LEMMA FromPlusOne ==
    ASSUME NEW S, NEW s \in Seq(S), NEW n \in Nat, n < Len(s)
    PROVE  From(From(s, n), 1) = From(s, n + 1) /\ From(s, n)[1] = s[n + 1]
  <1>1. Len(s) \in Nat /\ n \in 0 .. Len(s) /\ n + 1 \in 0 .. Len(s)
    OBVIOUS
  <1>2. /\ From(s, n) \in Seq(S) /\ Len(From(s, n)) = Len(s) - n
        /\ \A i \in 1 .. Len(s) - n : From(s, n)[i] = s[n + i]
    BY <1>1, FromFacts
  <1>3. Len(From(s, n)) - 1 = Len(s) - (n + 1)
    BY <1>1, <1>2
  <1>4. ASSUME NEW i \in 1 .. Len(s) - (n + 1) PROVE From(s, n)[1 + i] = s[(n + 1) + i]
    <2>1. 1 + i \in 1 .. Len(s) - n /\ n + (1 + i) = (n + 1) + i
      BY <1>1
    <2>2. QED
      BY <1>2, <2>1
  <1>5. From(From(s, n), 1) = [i \in 1 .. Len(s) - (n + 1) |-> From(s, n)[1 + i]]
    BY <1>3 DEF From
  <1>6. From(s, n + 1) = [i \in 1 .. Len(s) - (n + 1) |-> s[(n + 1) + i]]
    BY DEF From
  <1>7. From(s, n)[1] = s[n + 1]
    BY <1>1, <1>2
  <1>8. QED
    BY <1>4, <1>5, <1>6, <1>7

LEMMA RestsFacts ==
    ASSUME NEW l \in Path
    PROVE  /\ l \o Rests(0) = l
           /\ \A n \in Nat : l \o Rests(n) \in Path /\ l \o Rests(n + 1) = Rest(l \o Rests(n))
  <1>1. ASSUME NEW n \in Nat
        PROVE  Rests(n) \in Seq({1, 2}) /\ Len(Rests(n)) = n /\ \A i \in 1 .. n : Rests(n)[i] = 2
    <2>1. Rests(n) \in [1 .. n -> {1, 2}]
      BY DEF Rests
    <2>2. QED
      BY <2>1 DEF Rests
  <1>2. l \o Rests(0) = l
    <2>1. Rests(0) \in Seq({1, 2}) /\ Len(Rests(0)) = 0
      BY <1>1
    <2>2. QED
      BY <2>1 DEF Path
  <1>3. ASSUME NEW n \in Nat
        PROVE  l \o Rests(n) \in Path /\ l \o Rests(n + 1) = Rest(l \o Rests(n))
    <2>1. /\ Rests(n) \in Seq({1, 2}) /\ Len(Rests(n)) = n /\ \A i \in 1 .. n : Rests(n)[i] = 2
          /\ Rests(n + 1) \in Seq({1, 2}) /\ Len(Rests(n + 1)) = n + 1
          /\ \A i \in 1 .. n + 1 : Rests(n + 1)[i] = 2
      BY <1>1
    <2>2. Rests(n + 1) = Append(Rests(n), 2)
      BY <2>1
    <2>3. l \o Append(Rests(n), 2) = Append(l \o Rests(n), 2)
      <3> DEFINE r == Rests(n)
      <3>1. l \in Seq({1, 2}) /\ r \in Seq({1, 2}) /\ 2 \in {1, 2}
        BY <2>1 DEF Path
      <3> HIDE DEF r
      <3>2. l \o Append(r, 2) = Append(l \o r, 2)
        BY <3>1
      <3>3. QED
        BY <3>2 DEF r
    <2>4. l \o Rests(n) \in Path
      BY <2>1 DEF Path
    <2>5. QED
      BY <2>2, <2>3, <2>4 DEF Rest
  <1>4. QED
    BY <1>2, <1>3

(* Going down a list, one comes to its parts. *)
LEMMA AtRests ==
    ASSUME NEW S, NEW s \in Seq(S), NEW t, NEW l \in Path, At(t, l) = List(s),
           NEW n \in 0 .. Len(s)
    PROVE  At(t, l \o Rests(n)) = List(From(s, n))
  <1> DEFINE T == {m \in Nat : m <= Len(s) => At(t, l \o Rests(m)) = List(From(s, m))}
  <1>1. 0 \in T
    <2>1. From(s, 0) = s
      BY DEF From
    <2>2. QED
      BY <2>1, RestsFacts
  <1>2. ASSUME NEW m \in Nat, m \in T PROVE m + 1 \in T
    <2>1. SUFFICES ASSUME m + 1 <= Len(s)
                   PROVE  At(t, l \o Rests(m + 1)) = List(From(s, m + 1))
      OBVIOUS
    <2>2. At(t, l \o Rests(m)) = List(From(s, m)) /\ m \in 0 .. Len(s) /\ m < Len(s)
      BY <1>2, <2>1
    <2>3. From(s, m) \in Seq(S) /\ Len(From(s, m)) > 0
      BY <2>2, FromFacts
    <2>4. List(From(s, m)) = pair(s[m + 1], List(From(s, m + 1)))
      BY <2>2, <2>3, ListLaws, FromPlusOne
    <2> DEFINE q == l \o Rests(m)
    <2>5. q \in Path /\ l \o Rests(m + 1) = Rest(q)
      BY RestsFacts
    <2>6. At(t, q) = pair(s[m + 1], List(From(s, m + 1)))
      BY <2>2, <2>4
    <2> HIDE DEF q
    <2>7. At(t, Rest(q)) = List(From(s, m + 1))
      BY <2>5, <2>6, BelowPair
    <2>8. QED
      BY <2>5, <2>7
  <1>3. QED
    <2> HIDE DEF T
    <2>1. n \in T
      BY <1>1, <1>2, InductionOnSet
    <2>2. QED
      BY <2>1 DEF T

(* The n-th element of a list, and the list with another one in its place. *)
LEMMA AtElem ==
    ASSUME NEW S, NEW s \in Seq(S), NEW t, NEW l \in Path, At(t, l) = List(s),
           NEW n \in Nat, n < Len(s)
    PROVE  /\ At(t, Elem(l, n)) = s[n + 1] /\ Elem(l, n) \in Path
           /\ \A v \in S : Put(t, Elem(l, n), v) = Put(t, l, List([s EXCEPT ![n + 1] = v]))
  <1>1. ASSUME NEW m \in Nat, m < Len(s)
        PROVE  /\ l \o Rests(m) \in Path
               /\ At(t, l \o Rests(m)) = pair(s[m + 1], List(From(s, m + 1)))
    <2>1. m \in 0 .. Len(s)
      BY <1>1
    <2>2. At(t, l \o Rests(m)) = List(From(s, m))
      BY <2>1, AtRests
    <2>3. From(s, m) \in Seq(S) /\ Len(From(s, m)) > 0
      BY <1>1, <2>1, FromFacts
    <2>4. QED
      BY <1>1, <2>2, <2>3, ListLaws, FromPlusOne, RestsFacts
  <1> DEFINE Same(w, m) == Len(w) = Len(s) /\ \A i \in 1 .. m : w[i] = s[i]
             T == {m \in Nat : m <= Len(s) =>
                     \A w \in Seq(S) : Same(w, m) =>
                        Put(t, l \o Rests(m), List(From(w, m))) = Put(t, l, List(w))}
  <1>2. Nat \subseteq T
    <2>1. 0 \in T
      <3>1. \A w \in Seq(S) : From(w, 0) = w
        BY DEF From
      <3>2. QED
        BY <3>1, RestsFacts
    <2>2. ASSUME NEW m \in Nat, m \in T PROVE m + 1 \in T
      <3>1. SUFFICES ASSUME m + 1 <= Len(s), NEW w \in Seq(S), Same(w, m + 1)
                     PROVE  Put(t, l \o Rests(m + 1), List(From(w, m + 1))) = Put(t, l, List(w))
        OBVIOUS
      <3>2. m < Len(s) /\ Same(w, m) /\ w[m + 1] = s[m + 1] /\ m \in 0 .. Len(w) /\ m < Len(w)
        BY <3>1
      <3>3. Put(t, l \o Rests(m), List(From(w, m))) = Put(t, l, List(w))
        BY <2>2, <3>2
      <3>4. Put(t, l \o Rests(m + 1), List(From(w, m + 1)))
              = Put(t, l \o Rests(m), pair(w[m + 1], List(From(w, m + 1))))
        <4> DEFINE q == l \o Rests(m)
        <4>1. q \in Path /\ l \o Rests(m + 1) = Rest(q)
          BY RestsFacts
        <4>2. At(t, q) = pair(s[m + 1], List(From(s, m + 1)))
          BY <1>1, <3>2
        <4> HIDE DEF q
        <4> DEFINE v == List(From(w, m + 1))
        <4>3. Put(t, Rest(q), v) = Put(t, q, pair(s[m + 1], v))
          <5> DEFINE x == s[m + 1]
                     y == List(From(s, m + 1))
          <5>1. q \in Path /\ At(t, q) = pair(x, y)
            BY <4>1, <4>2
          <5> HIDE DEF v, x, y, T
          <5>2. Put(t, Append(q, 2), v) = Put(t, q, [At(t, q) EXCEPT ![2] = v])
            BY <5>1, PutStep
          <5>3. [pair(x, y) EXCEPT ![2] = v] = pair(x, v)
            BY PairFacts
          <5>4. Put(t, Rest(q), v) = Put(t, q, pair(x, v))
            BY <5>1, <5>2, <5>3 DEF Rest
          <5>5. QED
            BY <5>4 DEF x
        <4>4. QED
          BY <3>2, <4>1, <4>3 DEF q
      <3>5. From(w, m) \in Seq(S) /\ Len(From(w, m)) > 0
        <4> HIDE DEF T, Same
        <4>1. w \in Seq(S) /\ m \in 0 .. Len(w) /\ Len(w) - m > 0
          BY <3>2
        <4>2. From(w, m) \in Seq(S) /\ Len(From(w, m)) = Len(w) - m
          BY <4>1, FromFacts
        <4>3. QED
          BY <4>1, <4>2
      <3>6. List(From(w, m)) = pair(w[m + 1], List(From(w, m + 1)))
        BY <3>2, <3>5, ListLaws, FromPlusOne
      <3>7. QED
        BY <3>3, <3>4, <3>6
    <2>3. QED
      <3> HIDE DEF T
      <3>1. QED
        BY <2>1, <2>2, InductionOnSet
  <1>3. At(t, Elem(l, n)) = s[n + 1] /\ Elem(l, n) \in Path
    BY <1>1, BelowPair, PathFacts DEF Elem
  <1>4. ASSUME NEW v \in S
        PROVE  Put(t, Elem(l, n), v) = Put(t, l, List([s EXCEPT ![n + 1] = v]))
    <2> DEFINE w == [s EXCEPT ![n + 1] = v]
    <2>1. /\ w \in Seq(S) /\ Len(w) = Len(s) /\ w[n + 1] = v
          /\ \A i \in 1 .. Len(s) : i # n + 1 => w[i] = s[i]
      OBVIOUS
    <2> HIDE DEF w
    <2>2. Same(w, n) /\ n \in 0 .. Len(w) /\ n < Len(w)
      BY <2>1
    <2>3. Put(t, l \o Rests(n), List(From(w, n))) = Put(t, l, List(w))
      BY <1>2, <2>1, <2>2
    <2>4. From(w, n + 1) = From(s, n + 1)
      <3>1. \A i \in 1 .. Len(s) - (n + 1) : w[(n + 1) + i] = s[(n + 1) + i]
        BY <2>1
      <3>2. QED
        BY <2>1, <3>1 DEF From
    <2>5. From(w, n) \in Seq(S) /\ Len(From(w, n)) > 0
      BY <2>1, <2>2, FromFacts
    <2>6. List(From(w, n)) = pair(v, List(From(s, n + 1)))
      BY <2>1, <2>2, <2>4, <2>5, ListLaws, FromPlusOne
    <2>7. Put(t, Elem(l, n), v) = Put(t, l \o Rests(n), pair(v, List(From(s, n + 1))))
      <3> DEFINE q == l \o Rests(n)
      <3>1. q \in Path /\ At(t, q) = pair(s[n + 1], List(From(s, n + 1)))
        BY <1>1
      <3> HIDE DEF q
      <3>2. Put(t, First(q), v) = Put(t, q, pair(v, List(From(s, n + 1))))
        BY <3>1, BelowPair
      <3>3. QED
        BY <3>2 DEF q, Elem
    <2>8. QED
      BY <2>3, <2>6, <2>7 DEF w
  <1>5. QED
    BY <1>3, <1>4

(* A list is read back as the sequence it was made from. *)
LEMMA ElementsOfList ==
    ASSUME NEW S, NEW s \in Seq(S), Len(s) <= MaxDepth
    PROVE  Elements(List(s)) = s
  <1> DEFINE l == List(s)
             Ends(n) == At(l, Rests(n)) = nil /\ \A m \in 0 .. n - 1 : At(l, Rests(m)) # nil
  <1>1. Len(s) \in Nat /\ MaxDepth \in Nat /\ base \in Path /\ At(l, base) = List(s)
    BY SomeDepth, PathFacts, AtRoot
  <1>2. ASSUME NEW n \in 0 .. Len(s) PROVE At(l, Rests(n)) = List(From(s, n))
    <2>1. base \o Rests(n) = Rests(n)
      BY DEF base, Rests
    <2>2. QED
      BY <1>1, <2>1, AtRests
  <1>3. ASSUME NEW n \in 0 .. Len(s) PROVE At(l, Rests(n)) = nil <=> n = Len(s)
    <2>1. From(s, n) \in Seq(S) /\ Len(From(s, n)) = Len(s) - n
      BY FromFacts
    <2>2. CASE n = Len(s)
      <3>1. Len(From(s, n)) = 0
        BY <1>1, <2>1, <2>2
      <3>2. List(From(s, n)) = nil
        BY <2>1, <3>1, ListLaws
      <3>3. QED
        BY <1>2, <2>2, <3>2
    <2>3. CASE n # Len(s)
      <3>1. Len(From(s, n)) > 0
        BY <1>1, <2>1, <2>3
      <3>2. List(From(s, n)) = pair(From(s, n)[1], List(From(From(s, n), 1)))
        BY <2>1, <3>1, ListLaws
      <3>3. List(From(s, n)) # nil
        BY <3>2, PairFacts
      <3>4. QED
        BY <1>2, <2>3, <3>3
    <2>4. QED
      BY <2>2, <2>3
  <1>4. Length(l) = Len(s)
    <2>1. Ends(Len(s)) /\ Len(s) \in 0 .. MaxDepth
      BY <1>1, <1>3
    <2>2. ASSUME NEW n \in 0 .. MaxDepth, Ends(n) PROVE n = Len(s)
      <3>1. ~(n < Len(s)) /\ ~(Len(s) < n)
        BY <1>1, <1>3, <2>2
      <3>2. QED
        BY <1>1, <3>1
    <2>3. Length(l) = CHOOSE n \in 0 .. MaxDepth : Ends(n)
      BY DEF Length
    <2> HIDE DEF Ends, l
    <2>4. QED
      BY <2>1, <2>2, <2>3
  <1>5. ASSUME NEW i \in 1 .. Len(s) PROVE At(l, Elem(base, i - 1)) = s[i]
    <2>1. i - 1 \in Nat /\ i - 1 < Len(s) /\ (i - 1) + 1 = i
      OBVIOUS
    <2>2. QED
      BY <1>1, <2>1, AtElem
  <1>6. Elements(l) = [i \in 1 .. Len(s) |-> At(l, Elem(base, i - 1))]
    BY <1>4 DEF Elements
  <1>7. QED
    BY <1>5, <1>6

-----------------------------------------------------------------------------
(* The tree of a base: four extension points and five groups of fields.    *)
Nest(ec, ta, fi, io, pr, ho, he, al, tl) ==
    pair(ec,
    pair(pair(pair(ta, fi), io),
    pair(pair(pr, ho),
    pair(he,
    pair(al,
    tl)))))

LEMMA NestFacts ==
    ASSUME NEW ec, NEW ta, NEW fi, NEW io, NEW pr, NEW ho, NEW he, NEW al, NEW tl
    PROVE  LET t == Nest(ec, ta, fi, io, pr, ho, he, al, tl)
           IN  /\ At(t, files) = fi /\ At(t, profile) = pr /\ At(t, hooks) = ho
               /\ At(t, heap_fields) = he /\ At(t, alloc_fields) = al
               /\ {files, profile, hooks, heap_fields, alloc_fields} \subseteq Path
               /\ \A x :
                    /\ Put(t, files, x) = Nest(ec, ta, x, io, pr, ho, he, al, tl)
                    /\ Put(t, profile, x) = Nest(ec, ta, fi, io, x, ho, he, al, tl)
                    /\ Put(t, hooks, x) = Nest(ec, ta, fi, io, pr, x, he, al, tl)
                    /\ Put(t, heap_fields, x) = Nest(ec, ta, fi, io, pr, ho, x, al, tl)
                    /\ Put(t, alloc_fields, x) = Nest(ec, ta, fi, io, pr, ho, he, x, tl)
                    /\ Put(t, Extension.env_ctrl, x) = Nest(x, ta, fi, io, pr, ho, he, al, tl)
                    /\ Put(t, Extension.type_alist, x) = Nest(ec, x, fi, io, pr, ho, he, al, tl)
                    /\ Put(t, Extension.io_state, x) = Nest(ec, ta, fi, x, pr, ho, he, al, tl)
                    /\ Put(t, Extension.alloc_tail, x) = Nest(ec, ta, fi, io, pr, ho, he, al, x)
  <1> DEFINE t == Nest(ec, ta, fi, io, pr, ho, he, al, tl)
             n7 == pair(al, tl)
             n6 == pair(he, n7)
             n5 == pair(pr, ho)
             n4 == pair(ta, fi)
             n3 == pair(n5, n6)
             n2 == pair(n4, io)
             n1 == pair(n2, n3)
             p1 == Rest(base)
             p4 == First(io_fields)
             p5 == First(meta_fields)
             p6 == Rest(meta_fields)
             p7 == Rest(Rest(meta_fields))
  <1>1. t = pair(ec, n1)
    BY DEF Nest
  <1>2. /\ io_fields = First(p1) /\ meta_fields = Rest(p1) /\ p7 = Rest(p6)
        /\ files = Rest(p4) /\ profile = First(p5) /\ hooks = Rest(p5)
        /\ heap_fields = First(p6) /\ alloc_fields = First(p7)
        /\ Extension.env_ctrl = First(base) /\ Extension.type_alist = First(p4)
        /\ Extension.io_state = Rest(io_fields) /\ Extension.alloc_tail = Rest(p7)
    BY DEF io_fields, meta_fields, files, profile, hooks, heap_fields, alloc_fields, Extension
  <1>3. /\ p1 \in Path /\ io_fields \in Path /\ meta_fields \in Path /\ base \in Path
        /\ p4 \in Path /\ p5 \in Path /\ p6 \in Path /\ p7 \in Path
        /\ {files, profile, hooks, heap_fields, alloc_fields} \subseteq Path
    BY <1>2, PathFacts
  <1>4. At(t, base) = pair(ec, n1) /\ \A x : Put(t, base, x) = x
    BY <1>1, AtRoot, PutRoot
  <1> HIDE DEF t, p1, p4, p5, p6, p7
  <1>5. /\ At(t, p1) = n1
        /\ \A x : Put(t, First(base), x) = Put(t, base, pair(x, n1))
        /\ \A x : Put(t, p1, x) = Put(t, base, pair(ec, x))
    BY <1>3, <1>4, BelowPair DEF p1
  <1> HIDE DEF n1
  <1>6. /\ At(t, io_fields) = n2 /\ At(t, meta_fields) = n3
        /\ \A x : Put(t, io_fields, x) = Put(t, p1, pair(x, n3))
        /\ \A x : Put(t, meta_fields, x) = Put(t, p1, pair(n2, x))
    <2>1. At(t, p1) = pair(n2, n3)
      BY <1>5 DEF n1
    <2> HIDE DEF n2, n3
    <2>2. QED
      BY <1>2, <1>3, <2>1, BelowPair
  <1>7. /\ At(t, p4) = n4
        /\ \A x : Put(t, p4, x) = Put(t, io_fields, pair(x, io))
        /\ \A x : Put(t, Rest(io_fields), x) = Put(t, io_fields, pair(n4, x))
    <2>1. At(t, io_fields) = pair(n4, io)
      BY <1>6
    <2> HIDE DEF n4
    <2>2. QED
      BY <1>3, <2>1, BelowPair DEF p4
  <1>8. /\ At(t, p5) = n5 /\ At(t, p6) = n6
        /\ \A x : Put(t, p5, x) = Put(t, meta_fields, pair(x, n6))
        /\ \A x : Put(t, p6, x) = Put(t, meta_fields, pair(n5, x))
    <2>1. At(t, meta_fields) = pair(n5, n6)
      BY <1>6
    <2> HIDE DEF n5, n6
    <2>2. QED
      BY <1>3, <2>1, BelowPair DEF p5, p6
  <1>9. /\ At(t, files) = fi
        /\ \A x : Put(t, First(p4), x) = Put(t, p4, pair(x, fi))
        /\ \A x : Put(t, files, x) = Put(t, p4, pair(ta, x))
    <2>1. At(t, p4) = pair(ta, fi)
      BY <1>7
    <2>2. QED
      BY <1>2, <1>3, <2>1, BelowPair
  <1>10. /\ At(t, profile) = pr /\ At(t, hooks) = ho
         /\ \A x : Put(t, profile, x) = Put(t, p5, pair(x, ho))
         /\ \A x : Put(t, hooks, x) = Put(t, p5, pair(pr, x))
    <2>1. At(t, p5) = pair(pr, ho)
      BY <1>8
    <2>2. QED
      BY <1>2, <1>3, <2>1, BelowPair
  <1>11. /\ At(t, heap_fields) = he /\ At(t, p7) = n7
         /\ \A x : Put(t, heap_fields, x) = Put(t, p6, pair(x, n7))
         /\ \A x : Put(t, p7, x) = Put(t, p6, pair(he, x))
    <2>1. At(t, p6) = pair(he, n7)
      BY <1>8
    <2> HIDE DEF n7
    <2>2. QED
      BY <1>2, <1>3, <2>1, BelowPair
  <1>12. /\ At(t, alloc_fields) = al
         /\ \A x : Put(t, alloc_fields, x) = Put(t, p7, pair(x, tl))
         /\ \A x : Put(t, Rest(p7), x) = Put(t, p7, pair(al, x))
    <2>1. At(t, p7) = pair(al, tl)
      BY <1>11
    <2>2. QED
      BY <1>2, <1>3, <2>1, BelowPair
  <1>13. ASSUME NEW x
         PROVE  /\ Put(t, files, x) = Nest(ec, ta, x, io, pr, ho, he, al, tl)
                /\ Put(t, profile, x) = Nest(ec, ta, fi, io, x, ho, he, al, tl)
                /\ Put(t, hooks, x) = Nest(ec, ta, fi, io, pr, x, he, al, tl)
                /\ Put(t, heap_fields, x) = Nest(ec, ta, fi, io, pr, ho, x, al, tl)
                /\ Put(t, alloc_fields, x) = Nest(ec, ta, fi, io, pr, ho, he, x, tl)
    BY <1>4, <1>5, <1>6, <1>7, <1>8, <1>9, <1>10, <1>11, <1>12 DEF Nest
  <1>14. ASSUME NEW x
         PROVE  /\ Put(t, Extension.env_ctrl, x) = Nest(x, ta, fi, io, pr, ho, he, al, tl)
                /\ Put(t, Extension.type_alist, x) = Nest(ec, x, fi, io, pr, ho, he, al, tl)
                /\ Put(t, Extension.io_state, x) = Nest(ec, ta, fi, x, pr, ho, he, al, tl)
                /\ Put(t, Extension.alloc_tail, x) = Nest(ec, ta, fi, io, pr, ho, he, al, x)
    BY <1>2, <1>4, <1>5, <1>6, <1>7, <1>8, <1>9, <1>11, <1>12 DEF Nest, n1
  <1>15. QED
    BY <1>3, <1>9, <1>10, <1>11, <1>12, <1>13, <1>14 DEF t

-----------------------------------------------------------------------------
(* The fields. *)

LEMMA FieldNames ==
    /\ Files \in Seq(Field) /\ Profile \in Seq(Field) /\ Hooks \in Seq(Field)
    /\ Heap \in Seq(Field) /\ Alloc \in Seq(Field)
    /\ Field = {"filein", "fileout", "fileerr", "write_buf", "buffer", "profile_allocs",
                "hook_type_name", "hook_units", "hook_length", "hook_error",
                "obj_meta_extra", "heap_mark", "heap_free", "heap_mark_hooks",
                "heap_free_hooks", "heap_mark_roots", "heap_root_chain",
                "alloc_count", "alloc_limit", "alloc_error"}
  <1>1. /\ Range(Files) = {"filein", "fileout", "fileerr", "write_buf", "buffer"}
        /\ Range(Profile) = {"profile_allocs"}
        /\ Range(Hooks) = {"hook_type_name", "hook_units", "hook_length", "hook_error"}
        /\ Range(Heap) = {"obj_meta_extra", "heap_mark", "heap_free", "heap_mark_hooks",
                          "heap_free_hooks", "heap_mark_roots", "heap_root_chain"}
        /\ Range(Alloc) = {"alloc_count", "alloc_limit", "alloc_error"}
    BY DEF Range, Files, Profile, Hooks, Heap, Alloc
  <1>2. Field = {"filein", "fileout", "fileerr", "write_buf", "buffer", "profile_allocs",
                "hook_type_name", "hook_units", "hook_length", "hook_error",
                "obj_meta_extra", "heap_mark", "heap_free", "heap_mark_hooks",
                "heap_free_hooks", "heap_mark_roots", "heap_root_chain",
                "alloc_count", "alloc_limit", "alloc_error"}
    BY <1>1 DEF Field
  <1>3. QED
    BY <1>2 DEF Files, Profile, Hooks, Heap, Alloc

(* Each field is an element of the list of its group. *)
LEMMA AccessorIs ==
    /\ \A i \in 1 .. 5 : Accessor[Files[i]] = Elem(files, i - 1)
    /\ \A i \in 1 .. 1 : Accessor[Profile[i]] = Elem(profile, i - 1)
    /\ \A i \in 1 .. 4 : Accessor[Hooks[i]] = Elem(hooks, i - 1)
    /\ \A i \in 1 .. 7 : Accessor[Heap[i]] = Elem(heap_fields, i - 1)
    /\ \A i \in 1 .. 3 : Accessor[Alloc[i]] = Elem(alloc_fields, i - 1)
  <1> DEFINE D == {"filein", "fileout", "fileerr", "write_buf", "buffer", "profile_allocs",
                   "hook_type_name", "hook_units", "hook_length", "hook_error",
                   "alloc_count", "alloc_limit", "alloc_error"}
             H == {"obj_meta_extra", "heap_mark", "heap_free", "heap_mark_hooks",
                   "heap_free_hooks", "heap_mark_roots", "heap_root_chain"}
             R == OtherAccessor
  <1>1. Range(Heap) = H
    BY DEF Range, Heap
  <1>2. Field = D \cup H /\ D \cap H = {}
    BY FieldNames
  <1>3. /\ R["filein"] = Elem(files, 0) /\ R["fileout"] = Elem(files, 1)
        /\ R["fileerr"] = Elem(files, 2) /\ R["write_buf"] = Elem(files, 3)
        /\ R["buffer"] = Elem(files, 4) /\ R["profile_allocs"] = First(profile)
        /\ R["hook_type_name"] = Elem(hooks, 0) /\ R["hook_units"] = Elem(hooks, 1)
        /\ R["hook_length"] = Elem(hooks, 2) /\ R["hook_error"] = Elem(hooks, 3)
        /\ R["alloc_count"] = Elem(alloc_fields, 0) /\ R["alloc_limit"] = Elem(alloc_fields, 1)
        /\ R["alloc_error"] = Elem(alloc_fields, 2)
    BY DEF OtherAccessor
  <1> HIDE DEF R
  <1>4. /\ \A f \in D : Accessor[f] = R[f]
        /\ \A f \in H : Accessor[f] = HeapAccessor[f]
    <2>1. Accessor = [f \in D \cup H |-> IF f \in H THEN HeapAccessor[f] ELSE R[f]]
      BY <1>1, <1>2 DEF Accessor, R
    <2>2. D \cap H = {}
      BY <1>2
    <2> HIDE DEF D, H
    <2>3. QED
      BY <2>1, <2>2
  <1>5. /\ HeapAccessor["obj_meta_extra"] = Elem(heap_fields, 0)
        /\ HeapAccessor["heap_mark"] = Elem(heap_fields, 1)
        /\ HeapAccessor["heap_free"] = Elem(heap_fields, 2)
        /\ HeapAccessor["heap_mark_hooks"] = Elem(heap_fields, 3)
        /\ HeapAccessor["heap_free_hooks"] = Elem(heap_fields, 4)
        /\ HeapAccessor["heap_mark_roots"] = Elem(heap_fields, 5)
        /\ HeapAccessor["heap_root_chain"] = Elem(heap_fields, 6)
    BY DEF HeapAccessor
  <1>6. Elem(profile, 0) = First(profile)
    <2>1. profile \in Path
      BY NestFacts
    <2>2. QED
      BY <2>1, RestsFacts DEF Elem
  <1>7. ASSUME NEW i \in 1 .. 5 PROVE Accessor[Files[i]] = Elem(files, i - 1)
    BY <1>3, <1>4 DEF Files
  <1>8. ASSUME NEW i \in 1 .. 1 PROVE Accessor[Profile[i]] = Elem(profile, i - 1)
    BY <1>3, <1>4, <1>6 DEF Profile
  <1>9. ASSUME NEW i \in 1 .. 4 PROVE Accessor[Hooks[i]] = Elem(hooks, i - 1)
    BY <1>3, <1>4 DEF Hooks
  <1>10. ASSUME NEW i \in 1 .. 7 PROVE Accessor[Heap[i]] = Elem(heap_fields, i - 1)
    BY <1>4, <1>5 DEF Heap
  <1>11. ASSUME NEW i \in 1 .. 3 PROVE Accessor[Alloc[i]] = Elem(alloc_fields, i - 1)
    BY <1>3, <1>4 DEF Alloc
  <1>12. QED
    BY <1>7, <1>8, <1>9, <1>10, <1>11

(* What is put in front of a list *)
LEMMA ConsFacts ==
    ASSUME NEW S, NEW q \in Seq(S), NEW v \in S
    PROVE  /\ <<v>> \o q \in Seq(S) /\ Len(<<v>> \o q) = Len(q) + 1
           /\ (<<v>> \o q)[1] = v /\ \A i \in 1 .. Len(q) : (<<v>> \o q)[i + 1] = q[i]
           /\ pair(v, List(q)) = List(<<v>> \o q)
  <1> DEFINE w == <<v>> \o q
  <1>1. /\ w \in Seq(S) /\ Len(w) = Len(q) + 1
        /\ w[1] = v /\ \A i \in 1 .. Len(q) : w[i + 1] = q[i]
    <2>1. <<v>> \in Seq(S) /\ Len(<<v>>) = 1 /\ <<v>>[1] = v
      OBVIOUS
    <2>2. QED
      BY <2>1
  <1> HIDE DEF w
  <1>2. Len(q) \in Nat /\ Len(w) - 1 = Len(q)
    BY <1>1
  <1>3. From(w, 1) = q
    <2>1. From(w, 1) = [i \in 1 .. Len(q) |-> w[1 + i]]
      BY <1>2 DEF From
    <2>2. \A i \in 1 .. Len(q) : w[1 + i] = q[i]
      BY <1>1
    <2>3. q = [i \in 1 .. Len(q) |-> q[i]]
      OBVIOUS
    <2>4. QED
      BY <2>1, <2>2, <2>3
  <1>4. List(w) = pair(v, List(q))
    BY <1>1, <1>2, <1>3, ListLaws
  <1>5. QED
    BY <1>1, <1>4 DEF w

(* What a field may hold: the values of a list field are lists.            *)
Initial(f) == {val[f] : val \in Starts}
ListValues == {List(q) : q \in {r \in Seq(Value) : Len(r) <= MaxDepth}}
Held(f) == IF f \in Lists THEN ListValues ELSE Stored(f) \cup Initial(f)
Val == UNION {Held(f) : f \in Field}
Cells == {List(q) : q \in Seq(Val)}

(* The list of a group of fields, whose stacks are st *)
Group(names, st) == List([i \in DOMAIN names |-> List(st[names[i]])])

TreeOf(ec, ta, io, tl, st) ==
    Nest(ec, ta, Group(Files, st), io, Group(Profile, st), Group(Hooks, st),
         Group(Heap, st), Group(Alloc, st), tl)

(* The field f is the i-th of the group, or none of it. *)
IsIn(names, f, i) ==
    i \in 1 .. Len(names) /\ \A j \in 1 .. Len(names) : names[j] = f <=> j = i
IsNotIn(names, f) == \A j \in 1 .. Len(names) : names[j] # f

(* Another stack for a field *)
Changed(st, f, q) == [st EXCEPT ![f] = q]

(* The list of the group that f belongs to is at l, and f's stack in its place. *)
Places(t, l, names, st, f) ==
    /\ names \in Seq(Field) /\ l \in Path /\ At(t, l) = Group(names, st)
    /\ \E i \in 1 .. Len(names) : IsIn(names, f, i) /\ Accessor[f] = Elem(l, i - 1)

LEMMA GroupFacts ==
    ASSUME NEW st \in [Field -> Seq(Val)], NEW names, NEW t, NEW l, NEW f,
           Places(t, l, names, st, f)
    PROVE  /\ Accessor[f] \in Path /\ At(t, Accessor[f]) = List(st[f])
           /\ \A q \in Seq(Val) :
                 Put(t, Accessor[f], List(q)) = Put(t, l, Group(names, Changed(st, f, q)))
  <1>p. /\ names \in Seq(Field) /\ l \in Path /\ At(t, l) = Group(names, st)
        /\ \E i \in 1 .. Len(names) : IsIn(names, f, i) /\ Accessor[f] = Elem(l, i - 1)
    BY DEF Places
  <1>i. PICK i \in 1 .. Len(names) : IsIn(names, f, i) /\ Accessor[f] = Elem(l, i - 1)
    BY <1>p
  <1> USE <1>p, <1>i
  <1> DEFINE s == [j \in DOMAIN names |-> List(st[names[j]])]
  <1>0. /\ i \in 1 .. Len(names) /\ f = names[i]
        /\ \A j \in 1 .. Len(names) : names[j] = f => j = i
    BY DEF IsIn
  <1>1. /\ s \in Seq(Cells) /\ Len(s) = Len(names) /\ f \in Field
        /\ \A j \in 1 .. Len(names) : s[j] = List(st[names[j]])
    <2>1. Len(names) \in Nat /\ DOMAIN names = 1 .. Len(names)
          /\ \A j \in 1 .. Len(names) : names[j] \in Field
      OBVIOUS
    <2>2. \A j \in 1 .. Len(names) : List(st[names[j]]) \in Cells
      BY <2>1 DEF Cells
    <2>3. s = [j \in 1 .. Len(names) |-> List(st[names[j]])]
      BY <2>1
    <2> HIDE DEF s
    <2>4. s \in [1 .. Len(names) -> Cells]
      BY <2>2, <2>3
    <2>5. s \in Seq(Cells) /\ Len(s) = Len(names)
      <3> DEFINE n == Len(names)
      <3>1. n \in Nat /\ s \in [1 .. n -> Cells]
        BY <2>1, <2>4
      <3> HIDE DEF n
      <3>2. s \in Seq(Cells) /\ Len(s) = n
        BY <3>1
      <3>3. QED
        BY <3>2 DEF n
    <2>6. QED
      BY <1>0, <2>1, <2>3, <2>5
  <1>2. At(t, l) = List(s) /\ i - 1 \in Nat /\ i - 1 < Len(s) /\ (i - 1) + 1 = i
    <2>1. i \in Nat /\ i > 0 /\ i <= Len(names)
      BY <1>0
    <2>2. At(t, l) = List(s)
      BY DEF Group
    <2> HIDE DEF s
    <2>3. QED
      BY <1>1, <2>1, <2>2
  <1> HIDE DEF s
  <1>3. /\ At(t, Elem(l, i - 1)) = s[i] /\ Elem(l, i - 1) \in Path
        /\ \A v \in Cells : Put(t, Elem(l, i - 1), v) = Put(t, l, List([s EXCEPT ![i] = v]))
    BY <1>1, <1>2, AtElem
  <1>4. ASSUME NEW q \in Seq(Val)
        PROVE  Put(t, Accessor[f], List(q)) = Put(t, l, Group(names, Changed(st, f, q)))
    <2> DEFINE st2 == [st EXCEPT ![f] = q]
    <2>1. List(q) \in Cells
      BY DEF Cells
    <2>2. [s EXCEPT ![i] = List(q)] = [j \in DOMAIN names |-> List(st2[names[j]])]
      <3>1. DOMAIN names = 1 .. Len(names) /\ \A j \in 1 .. Len(names) : names[j] \in Field
        OBVIOUS
      <3>2. s = [j \in 1 .. Len(names) |-> List(st[names[j]])]
        BY <3>1 DEF s
      <3>3. ASSUME NEW j \in 1 .. Len(names)
            PROVE  (IF j = i THEN List(q) ELSE s[j]) = List(st2[names[j]])
        <4>1. CASE j = i
          BY <1>0, <1>1, <4>1
        <4>2. CASE j # i
          <5>1. names[j] # f /\ names[j] \in Field
            BY <1>0, <3>1, <4>2
          <5>2. st2[names[j]] = st[names[j]]
            BY <5>1
          <5>3. QED
            BY <3>2, <4>2, <5>2
        <4>3. QED
          BY <4>1, <4>2
      <3>4. [s EXCEPT ![i] = List(q)]
              = [j \in 1 .. Len(names) |-> IF j = i THEN List(q) ELSE s[j]]
        BY <3>2
      <3> HIDE DEF st2
      <3>5. QED
        BY <3>1, <3>3, <3>4
    <2>3. List([s EXCEPT ![i] = List(q)]) = Group(names, st2)
      BY <2>2 DEF Group
    <2>5. st2 = Changed(st, f, q)
      BY DEF Changed
    <2> HIDE DEF st2
    <2>4. QED
      BY <1>3, <2>1, <2>3, <2>5
  <1>5. Accessor[f] \in Path /\ At(t, Accessor[f]) = List(st[f])
    <2>1. s[i] = List(st[f])
      BY <1>0, <1>1
    <2>2. QED
      BY <1>3, <2>1
  <1>6. QED
    BY <1>4, <1>5

(* A change of the stack of a field of another group *)
LEMMA GroupSame ==
    ASSUME NEW st \in [Field -> Seq(Val)], NEW names \in Seq(Field), NEW f, NEW q, IsNotIn(names, f)
    PROVE  Group(names, Changed(st, f, q)) = Group(names, st)
  <1>1. DOMAIN names = 1 .. Len(names) /\ \A i \in 1 .. Len(names) : names[i] \in Field
    OBVIOUS
  <1>2. \A i \in DOMAIN names : Changed(st, f, q)[names[i]] = st[names[i]]
    BY <1>1 DEF Changed, IsNotIn
  <1>3. [i \in DOMAIN names |-> List(Changed(st, f, q)[names[i]])]
          = [i \in DOMAIN names |-> List(st[names[i]])]
    BY <1>2
  <1>4. QED
    BY <1>3 DEF Group

(* What an accessor finds, and what an assignment through it changes: the  *)
(* stack of its field and no other.                                        *)
LEMMA FieldFacts ==
    ASSUME NEW st \in [Field -> Seq(Val)], NEW ec, NEW ta, NEW io, NEW tl, NEW f \in Field
    PROVE  LET t == TreeOf(ec, ta, io, tl, st)
           IN  /\ Accessor[f] \in Path /\ At(t, Accessor[f]) = List(st[f])
               /\ \A q \in Seq(Val) :
                     Put(t, Accessor[f], List(q)) = TreeOf(ec, ta, io, tl, Changed(st, f, q))
  <1> DEFINE t == TreeOf(ec, ta, io, tl, st)
             Found == /\ Accessor[f] \in Path /\ At(t, Accessor[f]) = List(st[f])
                      /\ \A q \in Seq(Val) : Put(t, Accessor[f], List(q))
                                               = TreeOf(ec, ta, io, tl, Changed(st, f, q))
  <1>1. /\ At(t, files) = Group(Files, st) /\ At(t, profile) = Group(Profile, st)
        /\ At(t, hooks) = Group(Hooks, st) /\ At(t, heap_fields) = Group(Heap, st)
        /\ At(t, alloc_fields) = Group(Alloc, st)
        /\ {files, profile, hooks, heap_fields, alloc_fields} \subseteq Path
    BY NestFacts DEF TreeOf
  <1>2. /\ Files \in Seq(Field) /\ Profile \in Seq(Field) /\ Hooks \in Seq(Field)
        /\ Heap \in Seq(Field) /\ Alloc \in Seq(Field)
        /\ Len(Files) = 5 /\ Len(Profile) = 1 /\ Len(Hooks) = 4 /\ Len(Heap) = 7 /\ Len(Alloc) = 3
    BY FieldNames DEF Files, Profile, Hooks, Heap, Alloc
  <1> HIDE DEF t
  <1>same. ASSUME NEW q
           PROVE  /\ IsNotIn(Files, f) => Group(Files, Changed(st, f, q)) = Group(Files, st)
                  /\ IsNotIn(Profile, f) => Group(Profile, Changed(st, f, q)) = Group(Profile, st)
                  /\ IsNotIn(Hooks, f) => Group(Hooks, Changed(st, f, q)) = Group(Hooks, st)
                  /\ IsNotIn(Heap, f) => Group(Heap, Changed(st, f, q)) = Group(Heap, st)
                  /\ IsNotIn(Alloc, f) => Group(Alloc, Changed(st, f, q)) = Group(Alloc, st)
    <2>1. ASSUME IsNotIn(Files, f) PROVE Group(Files, Changed(st, f, q)) = Group(Files, st)
      <3>1. Files \in Seq(Field)
        BY <1>2
      <3>2. QED
        BY <2>1, <3>1, GroupSame
    <2>2. ASSUME IsNotIn(Profile, f) PROVE Group(Profile, Changed(st, f, q)) = Group(Profile, st)
      <3>1. Profile \in Seq(Field)
        BY <1>2
      <3>2. QED
        BY <2>2, <3>1, GroupSame
    <2>3. ASSUME IsNotIn(Hooks, f) PROVE Group(Hooks, Changed(st, f, q)) = Group(Hooks, st)
      <3>1. Hooks \in Seq(Field)
        BY <1>2
      <3>2. QED
        BY <2>3, <3>1, GroupSame
    <2>4. ASSUME IsNotIn(Heap, f) PROVE Group(Heap, Changed(st, f, q)) = Group(Heap, st)
      <3>1. Heap \in Seq(Field)
        BY <1>2
      <3>2. QED
        BY <2>4, <3>1, GroupSame
    <2>5. ASSUME IsNotIn(Alloc, f) PROVE Group(Alloc, Changed(st, f, q)) = Group(Alloc, st)
      <3>1. Alloc \in Seq(Field)
        BY <1>2
      <3>2. QED
        BY <2>5, <3>1, GroupSame
    <2>6. QED
      BY <2>1, <2>2, <2>3, <2>4, <2>5
  <1>3. ASSUME NEW i \in 1 .. 5, f = Files[i] PROVE Found
    <2>1. /\ IsIn(Files, f, i)
          /\ IsNotIn(Profile, f)
          /\ IsNotIn(Hooks, f)
          /\ IsNotIn(Heap, f)
          /\ IsNotIn(Alloc, f)
      <3>1. /\ \A j \in 1 .. 5 : Files[j] = f <=> j = i
            /\ \A j \in 1 .. 1 : Profile[j] # f
            /\ \A j \in 1 .. 4 : Hooks[j] # f
            /\ \A j \in 1 .. 7 : Heap[j] # f
            /\ \A j \in 1 .. 3 : Alloc[j] # f
        BY <1>3 DEF Files, Profile, Hooks, Heap, Alloc
      <3>2. QED
        BY <1>2, <3>1 DEF IsIn, IsNotIn
    <2>2. Accessor[f] = Elem(files, i - 1)
      BY <1>3, AccessorIs
    <2>3. /\ Accessor[f] \in Path /\ At(t, Accessor[f]) = List(st[f])
          /\ \A q \in Seq(Val) :
                Put(t, Accessor[f], List(q)) = Put(t, files, Group(Files, Changed(st, f, q)))
      <3>1. Places(t, files, Files, st, f)
        BY <1>1, <1>2, <2>1, <2>2 DEF Places
      <3>2. QED
        BY <3>1, GroupFacts
    <2>4. ASSUME NEW q \in Seq(Val)
          PROVE  Put(t, files, Group(Files, Changed(st, f, q)))
                   = TreeOf(ec, ta, io, tl, Changed(st, f, q))
      <3>1. /\ Group(Profile, Changed(st, f, q)) = Group(Profile, st)
            /\ Group(Hooks, Changed(st, f, q)) = Group(Hooks, st)
            /\ Group(Heap, Changed(st, f, q)) = Group(Heap, st)
            /\ Group(Alloc, Changed(st, f, q)) = Group(Alloc, st)
        BY <2>1, <1>same
      <3>2. QED
        BY <3>1, NestFacts DEF t, TreeOf
    <2>5. QED
      BY <2>3, <2>4
  <1>4. ASSUME NEW i \in 1 .. 1, f = Profile[i] PROVE Found
    <2>1. /\ IsIn(Profile, f, i)
          /\ IsNotIn(Files, f)
          /\ IsNotIn(Hooks, f)
          /\ IsNotIn(Heap, f)
          /\ IsNotIn(Alloc, f)
      <3>1. /\ \A j \in 1 .. 1 : Profile[j] = f <=> j = i
            /\ \A j \in 1 .. 5 : Files[j] # f
            /\ \A j \in 1 .. 4 : Hooks[j] # f
            /\ \A j \in 1 .. 7 : Heap[j] # f
            /\ \A j \in 1 .. 3 : Alloc[j] # f
        BY <1>4 DEF Files, Profile, Hooks, Heap, Alloc
      <3>2. QED
        BY <1>2, <3>1 DEF IsIn, IsNotIn
    <2>2. Accessor[f] = Elem(profile, i - 1)
      BY <1>4, AccessorIs
    <2>3. /\ Accessor[f] \in Path /\ At(t, Accessor[f]) = List(st[f])
          /\ \A q \in Seq(Val) :
                Put(t, Accessor[f], List(q)) = Put(t, profile, Group(Profile, Changed(st, f, q)))
      <3>1. Places(t, profile, Profile, st, f)
        BY <1>1, <1>2, <2>1, <2>2 DEF Places
      <3>2. QED
        BY <3>1, GroupFacts
    <2>4. ASSUME NEW q \in Seq(Val)
          PROVE  Put(t, profile, Group(Profile, Changed(st, f, q)))
                   = TreeOf(ec, ta, io, tl, Changed(st, f, q))
      <3>1. /\ Group(Files, Changed(st, f, q)) = Group(Files, st)
            /\ Group(Hooks, Changed(st, f, q)) = Group(Hooks, st)
            /\ Group(Heap, Changed(st, f, q)) = Group(Heap, st)
            /\ Group(Alloc, Changed(st, f, q)) = Group(Alloc, st)
        BY <2>1, <1>same
      <3>2. QED
        BY <3>1, NestFacts DEF t, TreeOf
    <2>5. QED
      BY <2>3, <2>4
  <1>5. ASSUME NEW i \in 1 .. 4, f = Hooks[i] PROVE Found
    <2>1. /\ IsIn(Hooks, f, i)
          /\ IsNotIn(Files, f)
          /\ IsNotIn(Profile, f)
          /\ IsNotIn(Heap, f)
          /\ IsNotIn(Alloc, f)
      <3>1. /\ \A j \in 1 .. 4 : Hooks[j] = f <=> j = i
            /\ \A j \in 1 .. 5 : Files[j] # f
            /\ \A j \in 1 .. 1 : Profile[j] # f
            /\ \A j \in 1 .. 7 : Heap[j] # f
            /\ \A j \in 1 .. 3 : Alloc[j] # f
        BY <1>5 DEF Files, Profile, Hooks, Heap, Alloc
      <3>2. QED
        BY <1>2, <3>1 DEF IsIn, IsNotIn
    <2>2. Accessor[f] = Elem(hooks, i - 1)
      BY <1>5, AccessorIs
    <2>3. /\ Accessor[f] \in Path /\ At(t, Accessor[f]) = List(st[f])
          /\ \A q \in Seq(Val) :
                Put(t, Accessor[f], List(q)) = Put(t, hooks, Group(Hooks, Changed(st, f, q)))
      <3>1. Places(t, hooks, Hooks, st, f)
        BY <1>1, <1>2, <2>1, <2>2 DEF Places
      <3>2. QED
        BY <3>1, GroupFacts
    <2>4. ASSUME NEW q \in Seq(Val)
          PROVE  Put(t, hooks, Group(Hooks, Changed(st, f, q)))
                   = TreeOf(ec, ta, io, tl, Changed(st, f, q))
      <3>1. /\ Group(Files, Changed(st, f, q)) = Group(Files, st)
            /\ Group(Profile, Changed(st, f, q)) = Group(Profile, st)
            /\ Group(Heap, Changed(st, f, q)) = Group(Heap, st)
            /\ Group(Alloc, Changed(st, f, q)) = Group(Alloc, st)
        BY <2>1, <1>same
      <3>2. QED
        BY <3>1, NestFacts DEF t, TreeOf
    <2>5. QED
      BY <2>3, <2>4
  <1>6. ASSUME NEW i \in 1 .. 7, f = Heap[i] PROVE Found
    <2>1. /\ IsIn(Heap, f, i)
          /\ IsNotIn(Files, f)
          /\ IsNotIn(Profile, f)
          /\ IsNotIn(Hooks, f)
          /\ IsNotIn(Alloc, f)
      <3>1. /\ \A j \in 1 .. 7 : Heap[j] = f <=> j = i
            /\ \A j \in 1 .. 5 : Files[j] # f
            /\ \A j \in 1 .. 1 : Profile[j] # f
            /\ \A j \in 1 .. 4 : Hooks[j] # f
            /\ \A j \in 1 .. 3 : Alloc[j] # f
        BY <1>6 DEF Files, Profile, Hooks, Heap, Alloc
      <3>2. QED
        BY <1>2, <3>1 DEF IsIn, IsNotIn
    <2>2. Accessor[f] = Elem(heap_fields, i - 1)
      BY <1>6, AccessorIs
    <2>3. /\ Accessor[f] \in Path /\ At(t, Accessor[f]) = List(st[f])
          /\ \A q \in Seq(Val) :
                Put(t, Accessor[f], List(q)) = Put(t, heap_fields, Group(Heap, Changed(st, f, q)))
      <3>1. Places(t, heap_fields, Heap, st, f)
        BY <1>1, <1>2, <2>1, <2>2 DEF Places
      <3>2. QED
        BY <3>1, GroupFacts
    <2>4. ASSUME NEW q \in Seq(Val)
          PROVE  Put(t, heap_fields, Group(Heap, Changed(st, f, q)))
                   = TreeOf(ec, ta, io, tl, Changed(st, f, q))
      <3>1. /\ Group(Files, Changed(st, f, q)) = Group(Files, st)
            /\ Group(Profile, Changed(st, f, q)) = Group(Profile, st)
            /\ Group(Hooks, Changed(st, f, q)) = Group(Hooks, st)
            /\ Group(Alloc, Changed(st, f, q)) = Group(Alloc, st)
        BY <2>1, <1>same
      <3>2. QED
        BY <3>1, NestFacts DEF t, TreeOf
    <2>5. QED
      BY <2>3, <2>4
  <1>7. ASSUME NEW i \in 1 .. 3, f = Alloc[i] PROVE Found
    <2>1. /\ IsIn(Alloc, f, i)
          /\ IsNotIn(Files, f)
          /\ IsNotIn(Profile, f)
          /\ IsNotIn(Hooks, f)
          /\ IsNotIn(Heap, f)
      <3>1. /\ \A j \in 1 .. 3 : Alloc[j] = f <=> j = i
            /\ \A j \in 1 .. 5 : Files[j] # f
            /\ \A j \in 1 .. 1 : Profile[j] # f
            /\ \A j \in 1 .. 4 : Hooks[j] # f
            /\ \A j \in 1 .. 7 : Heap[j] # f
        BY <1>7 DEF Files, Profile, Hooks, Heap, Alloc
      <3>2. QED
        BY <1>2, <3>1 DEF IsIn, IsNotIn
    <2>2. Accessor[f] = Elem(alloc_fields, i - 1)
      BY <1>7, AccessorIs
    <2>3. /\ Accessor[f] \in Path /\ At(t, Accessor[f]) = List(st[f])
          /\ \A q \in Seq(Val) :
                Put(t, Accessor[f], List(q)) = Put(t, alloc_fields, Group(Alloc, Changed(st, f, q)))
      <3>1. Places(t, alloc_fields, Alloc, st, f)
        BY <1>1, <1>2, <2>1, <2>2 DEF Places
      <3>2. QED
        BY <3>1, GroupFacts
    <2>4. ASSUME NEW q \in Seq(Val)
          PROVE  Put(t, alloc_fields, Group(Alloc, Changed(st, f, q)))
                   = TreeOf(ec, ta, io, tl, Changed(st, f, q))
      <3>1. /\ Group(Files, Changed(st, f, q)) = Group(Files, st)
            /\ Group(Profile, Changed(st, f, q)) = Group(Profile, st)
            /\ Group(Hooks, Changed(st, f, q)) = Group(Hooks, st)
            /\ Group(Heap, Changed(st, f, q)) = Group(Heap, st)
        BY <2>1, <1>same
      <3>2. QED
        BY <3>1, NestFacts DEF t, TreeOf
    <2>5. QED
      BY <2>3, <2>4
  <1>8. \/ \E i \in 1 .. 5 : f = Files[i]
        \/ \E i \in 1 .. 1 : f = Profile[i]
        \/ \E i \in 1 .. 4 : f = Hooks[i]
        \/ \E i \in 1 .. 7 : f = Heap[i]
        \/ \E i \in 1 .. 3 : f = Alloc[i]
    BY FieldNames DEF Files, Profile, Hooks, Heap, Alloc
  <1>9. Found
    BY <1>3, <1>4, <1>5, <1>6, <1>7, <1>8
  <1>10. QED
    BY <1>9 DEF t

-----------------------------------------------------------------------------
(* The invariant: the tree is the tree of some stacks, which hold what     *)
(* their fields may hold and are never empty.                              *)
StacksOK(st) ==
    /\ st \in [Field -> Seq(Val)]
    /\ \A f \in Field : /\ Len(st[f]) \in 1 .. MaxDepth
                        /\ \A i \in 1 .. Len(st[f]) : st[f][i] \in Held(f)

IsTreeOf(st) == \E ec, ta, io, tl : tree = TreeOf(ec, ta, io, tl, st)

TreeInv == \E st : StacksOK(st) /\ IsTreeOf(st)

LEMMA ListsAreFields == Lists \subseteq Field
  BY FieldNames DEF Lists

LEMMA HeldIsVal ==
    ASSUME NEW f \in Field, NEW v \in Held(f)
    PROVE  v \in Val
  BY DEF Val

(* nil is the list of nothing. *)
LEMMA NilIsList == nil = List(<<>>) /\ nil \in ListValues
  <1>1. <<>> \in Seq(Value) /\ Len(<<>>) = 0
    OBVIOUS
  <1>2. nil = List(<<>>)
    BY <1>1, ListLaws
  <1>3. Len(<<>>) <= MaxDepth
    BY <1>1, SomeDepth
  <1>4. <<>> \in {r \in Seq(Value) : Len(r) <= MaxDepth}
    BY <1>1, <1>3
  <1>5. QED
    BY <1>2, <1>4 DEF ListValues

LEMMA StoredIsHeld ==
    ASSUME NEW f \in Field, NEW v \in Stored(f)
    PROVE  v \in Held(f)
  BY NilIsList DEF Held, Stored, Lists

(* What a field finds through its accessor. *)
LEMMA CellFacts ==
    ASSUME NEW st, StacksOK(st), IsTreeOf(st), NEW f \in Field
    PROVE  /\ Accessor[f] \in Path /\ Cell(f) = List(st[f])
           /\ Elements(Cell(f)) = st[f] /\ Depth(f) = Len(st[f])
           /\ At(tree, First(Accessor[f])) = st[f][1] /\ Current(f) = st[f][1]
           /\ At(tree, Accessor[f]) = pair(st[f][1], List(From(st[f], 1)))
  <1>1. PICK ec, ta, io, tl : tree = TreeOf(ec, ta, io, tl, st)
    BY DEF IsTreeOf
  <1>2. st \in [Field -> Seq(Val)] /\ st[f] \in Seq(Val) /\ Len(st[f]) \in 1 .. MaxDepth
    BY DEF StacksOK
  <1>3. Accessor[f] \in Path /\ Cell(f) = List(st[f])
    BY <1>1, <1>2, FieldFacts DEF Cell
  <1>4. Elements(Cell(f)) = st[f]
    BY <1>2, <1>3, ElementsOfList
  <1>5. Len(st[f]) > 0
    BY <1>2, SomeDepth
  <1>6. At(tree, Accessor[f]) = pair(st[f][1], List(From(st[f], 1)))
    BY <1>2, <1>3, <1>5, ListLaws DEF Cell
  <1>7. At(tree, First(Accessor[f])) = st[f][1] /\ Current(f) = st[f][1]
    BY <1>3, <1>6, BelowPair, PairFacts DEF Current, Cell
  <1>8. QED
    BY <1>3, <1>4, <1>6, <1>7 DEF Depth

(* An assignment to the cell of a field, or to its current value, gives    *)
(* the tree with another stack for that field.                             *)
LEMMA PutCell ==
    ASSUME NEW st, StacksOK(st), IsTreeOf(st), NEW f \in Field
    PROVE  /\ \A q \in Seq(Val) :
                 tree' = Put(tree, Accessor[f], List(q)) => IsTreeOf(Changed(st, f, q))'
           /\ \A v \in Val :
                 tree' = Put(tree, First(Accessor[f]), v)
                    => IsTreeOf(Changed(st, f, <<v>> \o From(st[f], 1)))'
  <1>1. PICK ec, ta, io, tl : tree = TreeOf(ec, ta, io, tl, st)
    BY DEF IsTreeOf
  <1>2. st \in [Field -> Seq(Val)]
    BY DEF StacksOK
  <1>3. ASSUME NEW q \in Seq(Val), tree' = Put(tree, Accessor[f], List(q))
        PROVE  IsTreeOf(Changed(st, f, q))'
    <2>1. Put(tree, Accessor[f], List(q)) = TreeOf(ec, ta, io, tl, Changed(st, f, q))
      BY <1>1, <1>2, FieldFacts
    <2>2. QED
      BY <1>3, <2>1 DEF IsTreeOf
  <1>4. ASSUME NEW v \in Val, tree' = Put(tree, First(Accessor[f]), v)
        PROVE  IsTreeOf(Changed(st, f, <<v>> \o From(st[f], 1)))'
    <2> DEFINE r == From(st[f], 1)
    <2>1. r \in Seq(Val)
      <3>1. st[f] \in Seq(Val) /\ 1 \in 0 .. Len(st[f])
        BY SomeDepth DEF StacksOK
      <3>2. QED
        BY <3>1, FromFacts
    <2>2. Accessor[f] \in Path /\ At(tree, Accessor[f]) = pair(st[f][1], List(r))
      BY CellFacts
    <2> HIDE DEF r
    <2>3. Put(tree, First(Accessor[f]), v) = Put(tree, Accessor[f], pair(v, List(r)))
      BY <2>2, BelowPair
    <2>4. pair(v, List(r)) = List(<<v>> \o r) /\ <<v>> \o r \in Seq(Val)
      BY <2>1, ConsFacts
    <2>5. IsTreeOf(Changed(st, f, <<v>> \o r))'
      BY <1>3, <1>4, <2>3, <2>4
    <2>6. QED
      BY <2>5 DEF r
  <1>5. QED
    BY <1>3, <1>4

(* A new stack for a field is as good as the old one if its values may be  *)
(* held there.                                                             *)
LEMMA ChangedOK ==
    ASSUME NEW st, StacksOK(st), NEW f \in Field, NEW q, q \in Seq(Val),
           Len(q) \in 1 .. MaxDepth, \A i \in 1 .. Len(q) : q[i] \in Held(f)
    PROVE  /\ StacksOK(Changed(st, f, q))
           /\ Changed(st, f, q)[f] = q
           /\ \A g \in Field \ {f} : Changed(st, f, q)[g] = st[g]
  <1>1. st \in [Field -> Seq(Val)]
    BY DEF StacksOK
  <1>2. /\ Changed(st, f, q) \in [Field -> Seq(Val)]
        /\ Changed(st, f, q)[f] = q
        /\ \A g \in Field \ {f} : Changed(st, f, q)[g] = st[g]
    BY <1>1 DEF Changed
  <1>3. QED
    BY <1>2 DEF StacksOK

(* What the current value is replaced with *)
LEMMA ReplaceFacts ==
    ASSUME NEW st, StacksOK(st), NEW f \in Field, NEW v \in Held(f)
    PROVE  LET q == <<v>> \o From(st[f], 1)
           IN  /\ q \in Seq(Val) /\ Len(q) = Len(st[f]) /\ q[1] = v
               /\ \A i \in 2 .. Len(q) : q[i] = st[f][i]
               /\ Len(q) \in 1 .. MaxDepth /\ \A i \in 1 .. Len(q) : q[i] \in Held(f)
  <1> DEFINE r == From(st[f], 1)
             q == <<v>> \o r
  <1>1. /\ st[f] \in Seq(Val) /\ Len(st[f]) \in 1 .. MaxDepth /\ MaxDepth \in Nat
        /\ \A i \in 1 .. Len(st[f]) : st[f][i] \in Held(f)
    BY SomeDepth DEF StacksOK
  <1>2. /\ r \in Seq(Val) /\ Len(r) = Len(st[f]) - 1
        /\ \A i \in 1 .. Len(st[f]) - 1 : r[i] = st[f][1 + i]
    <2>1. st[f] \in Seq(Val) /\ 1 \in 0 .. Len(st[f])
      BY <1>1
    <2>2. QED
      BY <2>1, FromFacts
  <1> HIDE DEF r
  <1>3. /\ q \in Seq(Val) /\ Len(q) = Len(r) + 1
        /\ q[1] = v /\ \A i \in 1 .. Len(r) : q[i + 1] = r[i]
    BY <1>2, HeldIsVal, ConsFacts
  <1> HIDE DEF q
  <1>4. Len(q) = Len(st[f])
    BY <1>1, <1>2, <1>3
  <1>5. ASSUME NEW i \in 2 .. Len(q) PROVE q[i] = st[f][i]
    <2>1. i - 1 \in 1 .. Len(r) /\ i - 1 \in 1 .. Len(st[f]) - 1 /\ (i - 1) + 1 = i
          /\ 1 + (i - 1) = i
      BY <1>1, <1>2, <1>4
    <2>2. q[(i - 1) + 1] = r[i - 1]
      BY <1>3, <2>1
    <2>3. r[i - 1] = st[f][1 + (i - 1)]
      BY <1>2, <2>1
    <2>4. QED
      BY <2>1, <2>2, <2>3
  <1>6. ASSUME NEW i \in 1 .. Len(q) PROVE q[i] \in Held(f)
    <2>1. CASE i = 1
      BY <1>3, <2>1
    <2>2. CASE i # 1
      <3>1. i \in 2 .. Len(q) /\ i \in 1 .. Len(st[f])
        BY <1>1, <1>4, <2>2
      <3>2. QED
        BY <1>1, <1>5, <3>1
    <2>3. QED
      BY <2>1, <2>2
  <1>7. QED
    BY <1>1, <1>3, <1>4, <1>5, <1>6 DEF q, r

-----------------------------------------------------------------------------
(* The steps of a program, on the stacks.                                  *)

(* x_base_make *)
LEMMA InitTree ==
    ASSUME Init
    PROVE  \E val \in Starts :
              LET st == [f \in Field |-> <<val[f]>>]
              IN  StacksOK(st) /\ IsTreeOf(st)
  <1>1. PICK val \in Starts : tree = x_base_make(val)
    BY DEF Init
  <1> DEFINE st == [f \in Field |-> <<val[f]>>]
  <1>2. ASSUME NEW f \in Field PROVE val[f] \in Held(f) /\ val[f] \in Val
    <2>1. CASE f \in Lists
      <3>1. val[f] = nil
        BY <2>1, FieldNames DEF Starts, Valuation, Given, Optional, Zeros, Lists, Range, Hooks
      <3>2. QED
        BY <2>1, <3>1, NilIsList, HeldIsVal DEF Held
    <2>2. CASE f \notin Lists
      <3>1. val[f] \in Held(f)
        BY <2>2 DEF Held, Initial
      <3>2. QED
        BY <3>1, HeldIsVal
    <2>3. QED
      BY <2>1, <2>2
  <1>3. StacksOK(st)
    <2>1. ASSUME NEW f \in Field
          PROVE  /\ <<val[f]>> \in Seq(Val) /\ Len(<<val[f]>>) = 1 /\ <<val[f]>>[1] = val[f]
                 /\ st[f] = <<val[f]>>
      BY <1>2
    <2>2. st \in [Field -> Seq(Val)]
      BY <2>1
    <2>3. 1 \in 1 .. MaxDepth
      BY SomeDepth
    <2> HIDE DEF st
    <2>4. ASSUME NEW f \in Field
          PROVE  Len(st[f]) \in 1 .. MaxDepth /\ \A i \in 1 .. Len(st[f]) : st[f][i] \in Held(f)
      <3>1. Len(st[f]) = 1 /\ st[f][1] \in Held(f)
        BY <1>2, <2>1
      <3>2. \A i \in 1 .. Len(st[f]) : i = 1
        BY <3>1
      <3>3. QED
        BY <2>3, <3>1, <3>2
    <2>5. QED
      BY <2>2, <2>4 DEF StacksOK
  <1>4. IsTreeOf(st)
    <2>1. ASSUME NEW f \in Field PROVE List(st[f]) = pair(val[f], nil)
      <3>1. st[f] = <<val[f]>> /\ <<>> \in Seq(Val) /\ val[f] \in Val
        BY <1>2
      <3>2. pair(val[f], List(<<>>)) = List(<<val[f]>> \o <<>>)
        <4> DEFINE none == <<>>
                   v == val[f]
        <4>1. none \in Seq(Val) /\ v \in Val
          BY <3>1
        <4> HIDE DEF none, v
        <4>2. pair(v, List(none)) = List(<<v>> \o none)
          BY <4>1, ConsFacts
        <4>3. QED
          BY <4>2 DEF none, v
      <3>3. <<val[f]>> \o <<>> = <<val[f]>>
        BY <3>1
      <3>4. QED
        BY <3>1, <3>2, <3>3, NilIsList
    <2>2. ASSUME NEW names \in Seq(Field)
          PROVE  Group(names, st) = List([i \in DOMAIN names |-> pair(val[names[i]], nil)])
      <3>1. \A i \in DOMAIN names : names[i] \in Field
        OBVIOUS
      <3> HIDE DEF st
      <3>2. [i \in DOMAIN names |-> List(st[names[i]])]
              = [i \in DOMAIN names |-> pair(val[names[i]], nil)]
        BY <2>1, <3>1
      <3>3. QED
        BY <3>2 DEF Group
    <2> HIDE DEF st
    <2>3. /\ Group(Files, st) = List([i \in DOMAIN Files |-> pair(val[Files[i]], nil)])
          /\ Group(Profile, st) = List([i \in DOMAIN Profile |-> pair(val[Profile[i]], nil)])
          /\ Group(Hooks, st) = List([i \in DOMAIN Hooks |-> pair(val[Hooks[i]], nil)])
          /\ Group(Heap, st) = List([i \in DOMAIN Heap |-> pair(val[Heap[i]], nil)])
          /\ Group(Alloc, st) = List([i \in DOMAIN Alloc |-> pair(val[Alloc[i]], nil)])
      BY <2>2, FieldNames
    <2>4. tree = TreeOf(nil, nil, nil, nil, st)
      BY <1>1, <2>3 DEF TreeOf, Nest, x_base_make
    <2>5. QED
      BY <2>4 DEF IsTreeOf
  <1>5. QED
    BY <1>3, <1>4

(* What FieldStep makes of the stacks *)
Pushes(st, st2, f) ==
    \E v \in Stored(f) : st2 = Changed(st, f, <<v>> \o st[f])
Pops(st, st2, f) ==
    Len(st[f]) > 1 /\ st2 = Changed(st, f, From(st[f], 1))
Assigns(st, st2, f) ==
    \E v \in Stored(f) : st2 = Changed(st, f, <<v>> \o From(st[f], 1))
Adds(st, st2, f) ==
    /\ f \in Lists
    /\ \E v \in Value, r \in Seq(Value) :
          /\ st[f][1] = List(r) /\ Len(r) < MaxDepth
          /\ st2 = Changed(st, f, <<List(<<v>> \o r)>> \o From(st[f], 1))

StackStep(st, st2, f) ==
    Pushes(st, st2, f) \/ Pops(st, st2, f) \/ Assigns(st, st2, f) \/ Adds(st, st2, f)

LEMMA PushStep ==
    ASSUME NEW st, StacksOK(st), IsTreeOf(st), NEW f \in Field, Push(f)
    PROVE  \E st2 : Pushes(st, st2, f) /\ StacksOK(st2) /\ IsTreeOf(st2)'
  <1>1. PICK v \in Stored(f) : tree' = Pushed(Accessor[f], v)
    BY DEF Push
  <1> DEFINE q == <<v>> \o st[f]
  <1>2. /\ st[f] \in Seq(Val) /\ Len(st[f]) \in 1 .. MaxDepth /\ MaxDepth \in Nat
        /\ \A i \in 1 .. Len(st[f]) : st[f][i] \in Held(f)
    BY SomeDepth DEF StacksOK
  <1>3. v \in Held(f) /\ v \in Val
    BY StoredIsHeld, HeldIsVal
  <1>4. /\ q \in Seq(Val) /\ Len(q) = Len(st[f]) + 1
        /\ q[1] = v /\ \A i \in 1 .. Len(st[f]) : q[i + 1] = st[f][i]
        /\ pair(v, List(st[f])) = List(q)
    BY <1>2, <1>3, ConsFacts
  <1> HIDE DEF q
  <1>5. Len(q) \in 1 .. MaxDepth
    BY <1>2, <1>4, CellFacts DEF Push
  <1>6. ASSUME NEW i \in 1 .. Len(q) PROVE q[i] \in Held(f)
    <2>1. CASE i = 1
      BY <1>3, <1>4, <2>1
    <2>2. CASE i # 1
      <3> DEFINE n == Len(st[f])
      <3>1. n \in Nat /\ i \in 1 .. n + 1
        BY <1>2, <1>4
      <3> HIDE DEF n
      <3>2. i - 1 \in 1 .. n /\ (i - 1) + 1 = i
        BY <2>2, <3>1
      <3>3. QED
        BY <1>2, <1>4, <3>2 DEF n
    <2>3. QED
      BY <2>1, <2>2
  <1>7. StacksOK(Changed(st, f, q))
    BY <1>4, <1>5, <1>6, ChangedOK
  <1>8. tree' = Put(tree, Accessor[f], List(q))
    BY <1>1, <1>4, CellFacts DEF Pushed, Cell
  <1>9. IsTreeOf(Changed(st, f, q))'
    BY <1>4, <1>8, PutCell
  <1>10. QED
    BY <1>7, <1>9 DEF Pushes, q

LEMMA PopStep ==
    ASSUME NEW st, StacksOK(st), IsTreeOf(st), NEW f \in Field, Pop(f)
    PROVE  \E st2 : Pops(st, st2, f) /\ StacksOK(st2) /\ IsTreeOf(st2)'
  <1> DEFINE q == From(st[f], 1)
  <1>1. /\ st[f] \in Seq(Val) /\ Len(st[f]) \in 1 .. MaxDepth /\ MaxDepth \in Nat
        /\ \A i \in 1 .. Len(st[f]) : st[f][i] \in Held(f)
    BY SomeDepth DEF StacksOK
  <1>2. /\ q \in Seq(Val) /\ Len(q) = Len(st[f]) - 1
        /\ \A i \in 1 .. Len(st[f]) - 1 : q[i] = st[f][1 + i]
    <2>1. st[f] \in Seq(Val) /\ 1 \in 0 .. Len(st[f])
      BY <1>1
    <2>2. QED
      BY <2>1, FromFacts
  <1>3. At(tree, Accessor[f]) = pair(st[f][1], List(q)) /\ Len(st[f]) > 1
    BY CellFacts DEF Pop
  <1> HIDE DEF q
  <1>4. tree' = Put(tree, Accessor[f], List(q))
    BY <1>3, PairFacts DEF Pop, Popped
  <1>5. Len(q) \in 1 .. MaxDepth /\ \A i \in 1 .. Len(q) : q[i] \in Held(f)
    <2> DEFINE n == Len(st[f])
    <2>1. n \in 1 .. MaxDepth /\ n > 1 /\ \A i \in 1 .. n : st[f][i] \in Held(f)
      BY <1>1, <1>3
    <2>2. Len(q) = n - 1 /\ \A i \in 1 .. n - 1 : q[i] = st[f][1 + i]
      BY <1>2
    <2> HIDE DEF n
    <2>3. MaxDepth \in Nat /\ n \in Nat
      BY <2>1, SomeDepth
    <2>4. ASSUME NEW i \in 1 .. n - 1 PROVE st[f][1 + i] \in Held(f)
      <3>1. 1 + i \in 1 .. n
        BY <2>3
      <3>2. QED
        BY <2>1, <3>1
    <2>5. n - 1 \in 1 .. MaxDepth
      BY <2>1, <2>3
    <2>6. QED
      BY <2>2, <2>4, <2>5
  <1>6. StacksOK(Changed(st, f, q))
    BY <1>2, <1>5, ChangedOK
  <1>7. IsTreeOf(Changed(st, f, q))'
    BY <1>2, <1>4, PutCell
  <1>8. QED
    BY <1>3, <1>6, <1>7 DEF Pops, q

LEMMA AssignStep ==
    ASSUME NEW st, StacksOK(st), IsTreeOf(st), NEW f \in Field, Assign(f)
    PROVE  \E st2 : Assigns(st, st2, f) /\ StacksOK(st2) /\ IsTreeOf(st2)'
  <1>1. PICK v \in Stored(f) : tree' = Put(tree, First(Accessor[f]), v)
    BY DEF Assign
  <1> DEFINE q == <<v>> \o From(st[f], 1)
  <1>2. v \in Held(f) /\ v \in Val
    BY StoredIsHeld, HeldIsVal
  <1>3. q \in Seq(Val) /\ Len(q) \in 1 .. MaxDepth /\ \A i \in 1 .. Len(q) : q[i] \in Held(f)
    BY <1>2, ReplaceFacts
  <1>4. IsTreeOf(Changed(st, f, q))'
    BY <1>1, <1>2, PutCell
  <1> HIDE DEF q
  <1>5. StacksOK(Changed(st, f, q))
    BY <1>3, ChangedOK
  <1>6. QED
    BY <1>4, <1>5 DEF Assigns, q

LEMMA AddStep ==
    ASSUME NEW st, StacksOK(st), IsTreeOf(st), NEW f \in Field, NEW v \in Value, AddTo(f, v)
    PROVE  \E st2 : Adds(st, st2, f) /\ StacksOK(st2) /\ IsTreeOf(st2)'
  <1>1. f \in Lists /\ Len(Elements(Current(f))) < MaxDepth
        /\ tree' = Pushed(First(Accessor[f]), v)
    BY DEF AddTo
  <1>2. st[f][1] \in ListValues
    <2>1. 1 \in 1 .. Len(st[f])
      BY SomeDepth DEF StacksOK
    <2>2. st[f][1] \in Held(f)
      BY <2>1 DEF StacksOK
    <2>3. QED
      BY <1>1, <2>2 DEF Held
  <1>3. PICK r \in Seq(Value) : st[f][1] = List(r) /\ Len(r) <= MaxDepth
    BY <1>2 DEF ListValues
  <1>4. Elements(st[f][1]) = r /\ Current(f) = st[f][1]
    BY <1>3, ElementsOfList, CellFacts
  <1> DEFINE w == List(<<v>> \o r)
             q == <<w>> \o From(st[f], 1)
  <1>5. /\ <<v>> \o r \in Seq(Value) /\ Len(<<v>> \o r) = Len(r) + 1
        /\ pair(v, List(r)) = w
    BY ConsFacts
  <1>6. w \in Held(f) /\ w \in Val
    <2>1. Len(<<v>> \o r) <= MaxDepth
      BY <1>1, <1>4, <1>5, SomeDepth
    <2>2. w \in Held(f)
      BY <1>1, <1>5, <2>1 DEF Held, ListValues
    <2>3. QED
      BY <2>2, HeldIsVal
  <1>7. tree' = Put(tree, First(Accessor[f]), w)
    <2>1. At(tree, First(Accessor[f])) = List(r)
      BY <1>3, CellFacts
    <2>2. QED
      BY <1>1, <1>5, <2>1 DEF Pushed
  <1> HIDE DEF w
  <1>8. q \in Seq(Val) /\ Len(q) \in 1 .. MaxDepth /\ \A i \in 1 .. Len(q) : q[i] \in Held(f)
    BY <1>6, ReplaceFacts
  <1>9. IsTreeOf(Changed(st, f, q))'
    BY <1>6, <1>7, PutCell
  <1> HIDE DEF q
  <1>10. StacksOK(Changed(st, f, q))
    BY <1>8, ChangedOK
  <1>11. Adds(st, Changed(st, f, q), f)
    BY <1>1, <1>3, <1>4 DEF Adds, q, w
  <1>12. QED
    BY <1>9, <1>10, <1>11

LEMMA ExtendStep ==
    ASSUME NEW st, IsTreeOf(st), NEW e \in DOMAIN Extension, NEW v, Extend(e, v)
    PROVE  IsTreeOf(st)'
  <1>1. PICK ec, ta, io, tl : tree = TreeOf(ec, ta, io, tl, st)
    BY DEF IsTreeOf
  <1> DEFINE x == pair(v, nil)
  <1>2. tree' = Put(tree, Extension[e], x)
    BY DEF Extend
  <1>3. e \in {"env_ctrl", "type_alist", "io_state", "alloc_tail"}
    BY DEF Extension
  <1> HIDE DEF x
  <1>4. /\ Put(tree, Extension.env_ctrl, x) = TreeOf(x, ta, io, tl, st)
        /\ Put(tree, Extension.type_alist, x) = TreeOf(ec, x, io, tl, st)
        /\ Put(tree, Extension.io_state, x) = TreeOf(ec, ta, x, tl, st)
        /\ Put(tree, Extension.alloc_tail, x) = TreeOf(ec, ta, io, x, st)
    <2> DEFINE fi == Group(Files, st)
               pr == Group(Profile, st)
               ho == Group(Hooks, st)
               he == Group(Heap, st)
               al == Group(Alloc, st)
    <2>1. \A a, b, c, d : TreeOf(a, b, c, d, st) = Nest(a, b, fi, c, pr, ho, he, al, d)
      BY DEF TreeOf
    <2> HIDE DEF fi, pr, ho, he, al
    <2>2. tree = Nest(ec, ta, fi, io, pr, ho, he, al, tl)
      BY <1>1, <2>1
    <2>3. /\ Put(tree, Extension.env_ctrl, x) = Nest(x, ta, fi, io, pr, ho, he, al, tl)
          /\ Put(tree, Extension.type_alist, x) = Nest(ec, x, fi, io, pr, ho, he, al, tl)
          /\ Put(tree, Extension.io_state, x) = Nest(ec, ta, fi, x, pr, ho, he, al, tl)
          /\ Put(tree, Extension.alloc_tail, x) = Nest(ec, ta, fi, io, pr, ho, he, al, x)
      <3>1. Put(tree, Extension.env_ctrl, x) = Nest(x, ta, fi, io, pr, ho, he, al, tl)
        BY <2>2, NestFacts
      <3>2. Put(tree, Extension.type_alist, x) = Nest(ec, x, fi, io, pr, ho, he, al, tl)
        BY <2>2, NestFacts
      <3>3. Put(tree, Extension.io_state, x) = Nest(ec, ta, fi, x, pr, ho, he, al, tl)
        BY <2>2, NestFacts
      <3>4. Put(tree, Extension.alloc_tail, x) = Nest(ec, ta, fi, io, pr, ho, he, al, x)
        BY <2>2, NestFacts
      <3>5. QED
        BY <3>1, <3>2, <3>3, <3>4
    <2>4. QED
      BY <2>1, <2>3
  <1>5. QED
    BY <1>2, <1>3, <1>4 DEF IsTreeOf

(* Every step is one on the stack of one field, or leaves all stacks alone.*)
LEMMA TreeStep ==
    ASSUME NEW st, StacksOK(st), IsTreeOf(st), FieldStep
    PROVE  \E st2 : /\ StacksOK(st2) /\ IsTreeOf(st2)'
                    /\ st2 = st \/ \E f \in Field : StackStep(st, st2, f)
  <1>1. ASSUME NEW f \in Field, Push(f) \/ Pop(f) \/ Assign(f) \/ \E v \in Value : AddTo(f, v)
        PROVE  \E st2 : StackStep(st, st2, f) /\ StacksOK(st2) /\ IsTreeOf(st2)'
    BY <1>1, PushStep, PopStep, AssignStep, AddStep DEF StackStep
  <1>2. ASSUME NEW e \in DOMAIN Extension, NEW v \in Value, Extend(e, v)
        PROVE  IsTreeOf(st)'
    BY <1>2, ExtendStep
  <1>3. QED
    BY <1>1, <1>2 DEF FieldStep

(* The tree keeps its shape: every accessor goes on finding its field.     *)
LEMMA TreeInvStep == TreeInv /\ [FieldStep]_baseVars => TreeInv'
  <1>1. ASSUME TreeInv, FieldStep PROVE TreeInv'
    <2>1. PICK st : StacksOK(st) /\ IsTreeOf(st)
      BY <1>1 DEF TreeInv
    <2>2. PICK st2 : StacksOK(st2) /\ IsTreeOf(st2)'
      BY <1>1, <2>1, TreeStep
    <2>3. QED
      BY <2>2 DEF TreeInv
  <1>2. ASSUME TreeInv, UNCHANGED baseVars PROVE TreeInv'
    BY <1>2 DEF TreeInv, IsTreeOf, baseVars
  <1>3. QED
    BY <1>1, <1>2

LEMMA TreeInvHolds == Spec => []TreeInv
  <1>1. Init => TreeInv
    BY InitTree DEF TreeInv
  <1>2. QED
    BY <1>1, TreeInvStep, PTL DEF Spec

-----------------------------------------------------------------------------
(* The refinement.  What XFields sees of a value of the field f, and of a  *)
(* stack of such values.                                                   *)
Shown(f, v) == IF f \in Lists THEN Elements(v) ELSE v
View(f, q) == [i \in 1 .. Len(q) |-> Shown(f, q[i])]
Abs(st) == [f \in Field |-> View(f, st[f])]

LEMMA StacksAre ==
    ASSUME NEW st, StacksOK(st), IsTreeOf(st)
    PROVE  Stacks = Abs(st)
  <1>1. ASSUME NEW f \in Field
        PROVE  (LET values == Elements(Cell(f))
                IN  IF f \in Lists THEN [i \in DOMAIN values |-> Elements(values[i])] ELSE values)
                  = View(f, st[f])
    <2>1. Elements(Cell(f)) = st[f] /\ st[f] \in Seq(Val)
      BY CellFacts DEF StacksOK
    <2>2. DOMAIN st[f] = 1 .. Len(st[f]) /\ st[f] = [i \in 1 .. Len(st[f]) |-> st[f][i]]
      BY <2>1
    <2>3. QED
      BY <2>1, <2>2 DEF View, Shown
  <1>2. QED
    BY <1>1 DEF Stacks, Abs

(* The same of the state after a step. *)
LEMMA StacksAreNext ==
    ASSUME NEW st, StacksOK(st), IsTreeOf(st)'
    PROVE  Stacks' = Abs(st)
  <1>1. ASSUME NEW f \in Field
        PROVE  (IF f \in Lists THEN [i \in DOMAIN Elements(Cell(f)) |-> Elements(Elements(Cell(f))[i])]
                ELSE Elements(Cell(f)))' = View(f, st[f])
    <2>1. PICK ec, ta, io, tl : tree' = TreeOf(ec, ta, io, tl, st)
      BY DEF IsTreeOf
    <2>2. st \in [Field -> Seq(Val)] /\ st[f] \in Seq(Val) /\ Len(st[f]) <= MaxDepth
      BY SomeDepth DEF StacksOK
    <2>3. At(tree', Accessor[f]) = List(st[f])
      BY <2>1, <2>2, FieldFacts
    <2>4. Elements(Cell(f))' = st[f]
      BY <2>2, <2>3, ElementsOfList DEF Cell
    <2>5. DOMAIN st[f] = 1 .. Len(st[f]) /\ st[f] = [i \in 1 .. Len(st[f]) |-> st[f][i]]
      BY <2>2
    <2>6. QED
      BY <2>4, <2>5 DEF View, Shown
  <1>2. QED
    BY <1>1 DEF Stacks, Abs

LEMMA ViewFacts ==
    ASSUME NEW f, NEW q \in Seq(Val)
    PROVE  /\ View(f, q) \in Seq({Shown(f, v) : v \in Val}) /\ Len(View(f, q)) = Len(q)
           /\ \A i \in 1 .. Len(q) : View(f, q)[i] = Shown(f, q[i])
  <1>1. Len(q) \in Nat /\ \A i \in 1 .. Len(q) : q[i] \in Val
    OBVIOUS
  <1>2. View(f, q) \in [1 .. Len(q) -> {Shown(f, v) : v \in Val}]
    BY <1>1 DEF View
  <1>3. QED
    BY <1>1, <1>2 DEF View

(* Two sequences with the same elements are the same. *)
LEMMA SameSeq ==
    ASSUME NEW S, NEW s \in Seq(S), NEW w \in Seq(S), Len(s) = Len(w),
           \A i \in 1 .. Len(s) : s[i] = w[i]
    PROVE  s = w
  OBVIOUS

LEMMA ViewCons ==
    ASSUME NEW f, NEW v \in Val, NEW q \in Seq(Val)
    PROVE  View(f, <<v>> \o q) = <<Shown(f, v)>> \o View(f, q)
  <1> DEFINE S == {Shown(f, u) : u \in Val}
             w == <<v>> \o q
             a == View(f, w)
             b == View(f, q)
             c == <<Shown(f, v)>> \o b
  <1>1. /\ w \in Seq(Val) /\ Len(w) = Len(q) + 1 /\ Len(q) \in Nat
        /\ w[1] = v /\ \A i \in 1 .. Len(q) : w[i + 1] = q[i]
    BY ConsFacts
  <1>2. b \in Seq(S) /\ Len(b) = Len(q) /\ \A i \in 1 .. Len(q) : b[i] = Shown(f, q[i])
    BY ViewFacts
  <1> HIDE DEF w
  <1>3. a \in Seq(S) /\ Len(a) = Len(w) /\ \A i \in 1 .. Len(w) : a[i] = Shown(f, w[i])
    BY <1>1, ViewFacts
  <1> HIDE DEF b
  <1>4. Shown(f, v) \in S
    OBVIOUS
  <1> HIDE DEF S
  <1>5. /\ c \in Seq(S) /\ Len(c) = Len(b) + 1
        /\ c[1] = Shown(f, v) /\ \A i \in 1 .. Len(b) : c[i + 1] = b[i]
    BY <1>2, <1>4, ConsFacts
  <1> HIDE DEF a, c
  <1>6. ASSUME NEW i \in 1 .. Len(a) PROVE a[i] = c[i]
    <2>1. CASE i = 1
      BY <1>1, <1>3, <1>5, <2>1
    <2>2. CASE i # 1
      <3>1. PICK j \in 1 .. Len(q) : i = j + 1
        <4>1. i - 1 \in 1 .. Len(q) /\ i = (i - 1) + 1
          BY <1>1, <1>3, <2>2
        <4>2. QED
          BY <4>1
      <3>2. a[i] = Shown(f, w[j + 1]) /\ w[j + 1] = q[j]
        BY <1>1, <1>3, <3>1
      <3>3. c[i] = b[j] /\ b[j] = Shown(f, q[j])
        BY <1>2, <1>5, <3>1
      <3>4. QED
        BY <3>2, <3>3
    <2>3. QED
      BY <2>1, <2>2
  <1>7. a = c
    BY <1>1, <1>2, <1>3, <1>5, <1>6, SameSeq
  <1>8. QED
    BY <1>7 DEF a, c, w, b

LEMMA ViewFrom ==
    ASSUME NEW f, NEW q \in Seq(Val), Len(q) > 0
    PROVE  View(f, From(q, 1)) = Tail(View(f, q))
  <1> DEFINE S == {Shown(f, u) : u \in Val}
             w == From(q, 1)
             a == View(f, w)
             b == View(f, q)
             c == Tail(b)
  <1>1. /\ w \in Seq(Val) /\ Len(w) = Len(q) - 1 /\ Len(q) \in Nat \ {0}
        /\ \A i \in 1 .. Len(q) - 1 : w[i] = q[1 + i]
    <2>1. 1 \in 0 .. Len(q) /\ Len(q) \in Nat \ {0}
      OBVIOUS
    <2>2. QED
      BY <2>1, FromFacts
  <1>2. b \in Seq(S) /\ Len(b) = Len(q) /\ \A i \in 1 .. Len(q) : b[i] = Shown(f, q[i])
    BY ViewFacts
  <1> HIDE DEF w
  <1>3. a \in Seq(S) /\ Len(a) = Len(w) /\ \A i \in 1 .. Len(w) : a[i] = Shown(f, w[i])
    BY <1>1, ViewFacts
  <1> HIDE DEF a, b, S
  <1>4. /\ c \in Seq(S) /\ Len(c) = Len(b) - 1
        /\ \A i \in 1 .. Len(b) - 1 : c[i] = b[1 + i]
    BY <1>1, <1>2
  <1> HIDE DEF c
  <1>5. ASSUME NEW i \in 1 .. Len(a) PROVE a[i] = c[i]
    <2>1. i \in 1 .. Len(q) - 1 /\ 1 + i \in 1 .. Len(q)
      BY <1>1, <1>3
    <2>2. QED
      BY <1>1, <1>2, <1>3, <1>4, <2>1
  <1>6. a = c
    BY <1>1, <1>2, <1>3, <1>4, <1>5, SameSeq
  <1>7. QED
    BY <1>6 DEF a, b, c, w

LEMMA ViewReplace ==
    ASSUME NEW f, NEW v \in Val, NEW q \in Seq(Val), Len(q) > 0
    PROVE  View(f, <<v>> \o From(q, 1)) = [View(f, q) EXCEPT ![1] = Shown(f, v)]
  <1> DEFINE S == {Shown(f, u) : u \in Val}
             r == From(q, 1)
             w == <<v>> \o r
             a == View(f, w)
             b == View(f, q)
             c == [b EXCEPT ![1] = Shown(f, v)]
  <1>1. /\ r \in Seq(Val) /\ Len(r) = Len(q) - 1 /\ Len(q) \in Nat \ {0}
        /\ \A i \in 1 .. Len(q) - 1 : r[i] = q[1 + i]
    <2>1. 1 \in 0 .. Len(q) /\ Len(q) \in Nat \ {0}
      OBVIOUS
    <2>2. QED
      BY <2>1, FromFacts
  <1> HIDE DEF r
  <1>2. /\ w \in Seq(Val) /\ Len(w) = Len(r) + 1
        /\ w[1] = v /\ \A i \in 1 .. Len(r) : w[i + 1] = r[i]
    BY <1>1, ConsFacts
  <1> HIDE DEF w
  <1>3. b \in Seq(S) /\ Len(b) = Len(q) /\ \A i \in 1 .. Len(q) : b[i] = Shown(f, q[i])
    BY ViewFacts
  <1>4. a \in Seq(S) /\ Len(a) = Len(w) /\ \A i \in 1 .. Len(w) : a[i] = Shown(f, w[i])
    BY <1>2, ViewFacts
  <1>5. Shown(f, v) \in S
    OBVIOUS
  <1> HIDE DEF a, b, S
  <1>6. /\ c \in Seq(S) /\ Len(c) = Len(b) /\ c[1] = Shown(f, v)
        /\ \A i \in 2 .. Len(b) : c[i] = b[i]
    BY <1>1, <1>3, <1>5
  <1> HIDE DEF c
  <1>7. ASSUME NEW i \in 1 .. Len(a) PROVE a[i] = c[i]
    <2>1. CASE i = 1
      BY <1>1, <1>2, <1>4, <1>6, <2>1
    <2>2. CASE i # 1
      <3>1. PICK j \in 1 .. Len(r) : i = j + 1 /\ i = 1 + j
        <4>1. i - 1 \in 1 .. Len(r) /\ i = (i - 1) + 1 /\ i = 1 + (i - 1)
          BY <1>1, <1>2, <1>4, <2>2
        <4>2. QED
          BY <4>1
      <3>2. a[i] = Shown(f, w[i]) /\ w[i] = r[j] /\ r[j] = q[i]
        BY <1>1, <1>2, <1>4, <3>1
      <3>3. c[i] = b[i] /\ b[i] = Shown(f, q[i])
        <4>1. i \in 1 .. Len(q) /\ i \in 2 .. Len(b)
          BY <1>1, <1>2, <1>3, <1>4, <2>2
        <4>2. QED
          BY <1>3, <1>6, <4>1
      <3>4. QED
        BY <3>2, <3>3
    <2>3. QED
      BY <2>1, <2>2
  <1>8. Len(a) = Len(c)
    BY <1>1, <1>2, <1>3, <1>4, <1>6
  <1>9. a = c
    BY <1>4, <1>6, <1>7, <1>8, SameSeq
  <1>10. QED
    BY <1>9 DEF a, b, c, w, r

(* Nothing stored in a field by a program looks different to XFields.      *)
LEMMA StoredIsShown ==
    ASSUME NEW f \in Field, NEW v \in Stored(f)
    PROVE  Shown(f, v) = v /\ v \in Val
  <1>1. v \in Val
    BY StoredIsHeld, HeldIsVal
  <1>2. Elements(nil) = nil
    <2>1. <<>> \in Seq(Value) /\ Len(<<>>) <= MaxDepth
      BY SomeDepth
    <2>2. QED
      BY <2>1, NilIsList, ElementsOfList DEF nil
  <1>3. CASE f \in Lists
    <2>1. v = nil
      BY <1>3 DEF Stored, Lists
    <2>2. QED
      BY <1>1, <1>2, <1>3, <2>1 DEF Shown
  <1>4. CASE f \notin Lists
    BY <1>1, <1>4 DEF Shown
  <1>5. QED
    BY <1>3, <1>4

(* Another stack for one field is another stack for it in XFields. *)
LEMMA AbsChanged ==
    ASSUME NEW st, StacksOK(st), NEW f \in Field, NEW q \in Seq(Val)
    PROVE  Abs(Changed(st, f, q)) = [Abs(st) EXCEPT ![f] = View(f, q)]
  <1>1. st \in [Field -> Seq(Val)]
    BY DEF StacksOK
  <1>2. \A g \in Field : Changed(st, f, q)[g] = IF g = f THEN q ELSE st[g]
    BY <1>1 DEF Changed
  <1>3. Abs(Changed(st, f, q)) = [g \in Field |-> IF g = f THEN View(f, q) ELSE View(g, st[g])]
    BY <1>2 DEF Abs
  <1>4. QED
    BY <1>3 DEF Abs

(* Each step on the stack of a field is a step of XFields, or none.        *)
LEMMA StackStepIsFieldsStep ==
    ASSUME NEW st, StacksOK(st), NEW st2, NEW f \in Field, StackStep(st, st2, f),
           Stacks = Abs(st), Stacks' = Abs(st2)
    PROVE  [Fields!Next]_Stacks
  <1>1. st[f] \in Seq(Val) /\ Len(st[f]) > 0 /\ st \in [Field -> Seq(Val)]
    BY SomeDepth DEF StacksOK
  <1>2. From(st[f], 1) \in Seq(Val)
    <2>1. 1 \in 0 .. Len(st[f])
      BY <1>1
    <2>2. QED
      BY <1>1, <2>1, FromFacts
  <1>3. Stacks[f] = View(f, st[f])
    BY DEF Abs
  <1>4. /\ Fields!Push(f) \/ Fields!Pop(f) \/ Fields!Set(f) \/ Fields!Add(f)
        /\ \E q \in Seq(Val) : st2 = Changed(st, f, q)
    <2>1. CASE Pushes(st, st2, f)
      <3>1. PICK v \in Stored(f) : st2 = Changed(st, f, <<v>> \o st[f])
        BY <2>1 DEF Pushes
      <3>2. v \in Val /\ Shown(f, v) = v /\ <<v>> \o st[f] \in Seq(Val)
        BY <1>1, StoredIsShown, ConsFacts
      <3>3. View(f, <<v>> \o st[f]) = <<v>> \o View(f, st[f])
        BY <1>1, <3>2, ViewCons
      <3>4. Stacks' = [Stacks EXCEPT ![f] = <<v>> \o @]
        <4>1. Abs(st2) = [Abs(st) EXCEPT ![f] = <<v>> \o View(f, st[f])]
          <5> DEFINE q == <<v>> \o st[f]
          <5>1. q \in Seq(Val) /\ st2 = Changed(st, f, q)
            BY <3>1, <3>2
          <5> HIDE DEF q
          <5>2. Abs(st2) = [Abs(st) EXCEPT ![f] = View(f, q)]
            BY <5>1, AbsChanged
          <5>3. QED
            BY <3>3, <5>2 DEF q
        <4>2. QED
          BY <1>3, <4>1
      <3>5. QED
        BY <3>1, <3>2, <3>4 DEF Fields!Push
    <2>2. CASE Pops(st, st2, f)
      <3>1. Len(st[f]) > 1 /\ st2 = Changed(st, f, From(st[f], 1))
        BY <2>2 DEF Pops
      <3>2. View(f, From(st[f], 1)) = Tail(View(f, st[f])) /\ Len(View(f, st[f])) = Len(st[f])
        BY <1>1, ViewFrom, ViewFacts
      <3>3. Stacks' = [Stacks EXCEPT ![f] = Tail(@)]
        <4>1. Abs(st2) = [Abs(st) EXCEPT ![f] = Tail(View(f, st[f]))]
          BY <1>2, <3>1, <3>2, AbsChanged
        <4>2. QED
          BY <1>3, <4>1
      <3>4. QED
        BY <1>2, <1>3, <3>1, <3>2, <3>3 DEF Fields!Pop
    <2>3. CASE Assigns(st, st2, f)
      <3>1. PICK v \in Stored(f) : st2 = Changed(st, f, <<v>> \o From(st[f], 1))
        BY <2>3 DEF Assigns
      <3>2. v \in Val /\ Shown(f, v) = v /\ <<v>> \o From(st[f], 1) \in Seq(Val)
        BY <1>2, StoredIsShown, ConsFacts
      <3>3. View(f, <<v>> \o From(st[f], 1)) = [View(f, st[f]) EXCEPT ![1] = v]
        BY <1>1, <3>2, ViewReplace
      <3>4. Stacks' = [Stacks EXCEPT ![f][1] = v]
        <4>1. Abs(st2) = [Abs(st) EXCEPT ![f] = [View(f, st[f]) EXCEPT ![1] = v]]
          <5> DEFINE q == <<v>> \o From(st[f], 1)
          <5>1. q \in Seq(Val) /\ st2 = Changed(st, f, q)
            BY <3>1, <3>2
          <5> HIDE DEF q
          <5>2. Abs(st2) = [Abs(st) EXCEPT ![f] = View(f, q)]
            BY <5>1, AbsChanged
          <5>3. QED
            BY <3>3, <5>2 DEF q
        <4>2. QED
          BY <1>3, <4>1
      <3>5. QED
        BY <3>1, <3>2, <3>4 DEF Fields!Set
    <2>4. CASE Adds(st, st2, f)
      <3>1. PICK v \in Value, r \in Seq(Value) :
               /\ st[f][1] = List(r) /\ Len(r) < MaxDepth
               /\ st2 = Changed(st, f, <<List(<<v>> \o r)>> \o From(st[f], 1))
        BY <2>4 DEF Adds
      <3> DEFINE w == List(<<v>> \o r)
      <3>2. f \in Lists /\ <<v>> \o r \in Seq(Value) /\ Len(<<v>> \o r) <= MaxDepth
            /\ Len(r) <= MaxDepth
        BY <2>4, <3>1, SomeDepth, ConsFacts DEF Adds
      <3>3. w \in Val
        <4>1. w \in ListValues
          BY <3>2 DEF ListValues
        <4>2. w \in Held(f)
          BY <3>2, <4>1 DEF Held
        <4>3. QED
          BY <4>2, HeldIsVal
      <3>4. Shown(f, w) = <<v>> \o r /\ Shown(f, st[f][1]) = r
        BY <3>1, <3>2, ElementsOfList DEF Shown
      <3> HIDE DEF w
      <3>5. View(f, st[f])[1] = Shown(f, st[f][1])
        <4>1. 1 \in 1 .. Len(st[f])
          BY <1>1
        <4>2. QED
          BY <1>1, <4>1, ViewFacts
      <3>6. View(f, <<w>> \o From(st[f], 1)) = [View(f, st[f]) EXCEPT ![1] = <<v>> \o @]
        <4>1. View(f, <<w>> \o From(st[f], 1)) = [View(f, st[f]) EXCEPT ![1] = Shown(f, w)]
          BY <1>1, <3>3, ViewReplace
        <4>2. QED
          BY <3>4, <3>5, <4>1
      <3>7. <<w>> \o From(st[f], 1) \in Seq(Val)
        BY <1>2, <3>3, ConsFacts
      <3>8. Stacks' = [Stacks EXCEPT ![f][1] = <<v>> \o @]
        <4>1. st2 = Changed(st, f, <<w>> \o From(st[f], 1))
          BY <3>1 DEF w
        <4>2. Abs(st2) = [Abs(st) EXCEPT ![f] = [View(f, st[f]) EXCEPT ![1] = <<v>> \o @]]
          <5> DEFINE q == <<w>> \o From(st[f], 1)
          <5>1. q \in Seq(Val) /\ st2 = Changed(st, f, q)
            BY <3>7, <4>1
          <5> HIDE DEF q
          <5>2. Abs(st2) = [Abs(st) EXCEPT ![f] = View(f, q)]
            BY <5>1, AbsChanged
          <5>3. QED
            BY <3>6, <5>2 DEF q
        <4>3. QED
          BY <1>3, <4>2
      <3>9. Fields!Add(f)
        BY <3>2, <3>8 DEF Fields!Add
      <3>10. QED
        BY <3>1, <3>7, <3>9 DEF w
    <2>5. QED
      BY <2>1, <2>2, <2>3, <2>4 DEF StackStep
  <1>5. CASE Stacks'[f] # Stacks[f]
    BY <1>4, <1>5 DEF Fields!Next
  <1>6. CASE Stacks'[f] = Stacks[f]
    <2>1. PICK q \in Seq(Val) : st2 = Changed(st, f, q)
      BY <1>4
    <2>2. Stacks' = [Stacks EXCEPT ![f] = Stacks'[f]]
      <3>1. Stacks' = [Stacks EXCEPT ![f] = View(f, q)]
        BY <2>1, AbsChanged
      <3>2. DOMAIN Stacks = Field
        BY DEF Abs
      <3>3. QED
        BY <3>1, <3>2
    <2>3. Stacks = [g \in Field |-> Stacks[g]]
      BY DEF Abs
    <2>4. Stacks' = Stacks
      BY <1>6, <2>2, <2>3
    <2>5. QED
      BY <2>4
  <1>7. QED
    BY <1>5, <1>6

(* The tree is what x-base.h:13-22 says: each field a stack of its own.    *)
(* Every history of the tree of pairs, read through the accessors, is one  *)
(* of independent stacks, whatever fields a program uses.                  *)
THEOREM TreeIsFields == Spec => ImplementsFields
  <1>1. Init => Fields!Init
    <2>1. SUFFICES ASSUME Init PROVE Fields!Init
      OBVIOUS
    <2>2. PICK val \in Starts :
             LET st == [f \in Field |-> <<val[f]>>] IN StacksOK(st) /\ IsTreeOf(st)
      BY <2>1, InitTree
    <2> DEFINE st == [f \in Field |-> <<val[f]>>]
    <2>3. Stacks = Abs(st)
      BY <2>2, StacksAre
    <2>4. ASSUME NEW f \in Field PROVE View(f, st[f]) = <<val[f]>>
      <3>1. st[f] = <<val[f]>> /\ val[f] \in Val
        <4>1. st[f] \in Seq(Val) /\ st[f] = <<val[f]>>
          BY <2>2 DEF StacksOK
        <4>2. QED
          BY <4>1
      <3>2. Shown(f, val[f]) = val[f]
        <4>1. CASE f \in Lists
          <5>1. val[f] = nil
            BY <4>1, FieldNames
               DEF Starts, Valuation, Given, Optional, Zeros, Lists, Range, Hooks
          <5>2. nil \in Stored(f)
            BY <4>1 DEF Stored, Lists
          <5>3. QED
            BY <5>1, <5>2, StoredIsShown
        <4>2. CASE f \notin Lists
          BY <4>2 DEF Shown
        <4>3. QED
          BY <4>1, <4>2
      <3> HIDE DEF st
      <3>3. Len(st[f]) = 1 /\ st[f][1] = val[f]
        BY <3>1
      <3>4. View(f, st[f]) = [i \in 1 .. 1 |-> val[f]]
        BY <3>2, <3>3 DEF View
      <3>5. QED
        BY <3>4
    <2>5. Abs(st) = [f \in Field |-> <<val[f]>>]
      BY <2>4 DEF Abs
    <2>6. QED
      BY <2>3, <2>5 DEF Fields!Init
  <1>2. TreeInv /\ [FieldStep]_baseVars => [Fields!Next]_Stacks
    <2>1. ASSUME TreeInv, FieldStep PROVE [Fields!Next]_Stacks
      <3>1. PICK st : StacksOK(st) /\ IsTreeOf(st)
        BY <2>1 DEF TreeInv
      <3>2. PICK st2 : /\ StacksOK(st2) /\ IsTreeOf(st2)'
                       /\ st2 = st \/ \E f \in Field : StackStep(st, st2, f)
        BY <2>1, <3>1, TreeStep
      <3>3. Stacks = Abs(st)
        BY <3>1, StacksAre
      <3>4. Stacks' = Abs(st2)
        BY <3>2, StacksAreNext
      <3>5. CASE st2 = st
        BY <3>3, <3>4, <3>5
      <3>6. ASSUME NEW f \in Field, StackStep(st, st2, f) PROVE [Fields!Next]_Stacks
        BY <3>1, <3>3, <3>4, <3>6, StackStepIsFieldsStep
      <3>7. QED
        BY <3>2, <3>5, <3>6
    <2>2. ASSUME UNCHANGED baseVars PROVE [Fields!Next]_Stacks
      BY <2>2 DEF baseVars, Stacks, Cell
    <2>3. QED
      BY <2>1, <2>2
  <1>3. QED
    BY <1>1, <1>2, TreeInvHolds, PTL DEF Spec, ImplementsFields, Fields!Spec
-----------------------------------------------------------------------------
(* The invariant under the programs that read and write: what they do      *)
(* besides the steps of XBase leaves the tree alone.                       *)
LEMMA TreeInvUnderIO == IOSpec => []TreeInv
  <1>1. Init => TreeInv
    BY InitTree DEF TreeInv
  <1>2. IONext => FieldStep \/ UNCHANGED baseVars
    BY DEF IONext, Read, Write, WriteBuffer, WriteOut, baseVars
  <1>3. UNCHANGED vars => UNCHANGED baseVars
    BY DEF vars
  <1>4. QED
    BY <1>1, <1>2, <1>3, TreeInvStep, PTL DEF IOSpec

-----------------------------------------------------------------------------
(* Reading. *)

ReadInv ==
    /\ taken \in [AllFd -> Nat]
    /\ got \in [AllFd -> Seq(Nat)]
    /\ NoTruncation

LEMMA CountOn ==
    ASSUME NEW n \in Nat, NEW m \in Nat
    PROVE  [i \in 1 .. n |-> i] \o [i \in 1 .. m |-> n + i] = [i \in 1 .. n + m |-> i]
  <1> DEFINE a == [i \in 1 .. n |-> i]
             b == [i \in 1 .. m |-> n + i]
             c == [i \in 1 .. n + m |-> i]
  <1>1. a \in Seq(Nat) /\ Len(a) = n /\ \A i \in 1 .. n : a[i] = i
    OBVIOUS
  <1>2. b \in Seq(Nat) /\ Len(b) = m /\ \A i \in 1 .. m : b[i] = n + i
    OBVIOUS
  <1>3. c \in Seq(Nat) /\ Len(c) = n + m /\ \A i \in 1 .. n + m : c[i] = i
    OBVIOUS
  <1> HIDE DEF a, b, c
  <1>4. /\ a \o b \in Seq(Nat) /\ Len(a \o b) = n + m
        /\ \A i \in 1 .. n + m : (a \o b)[i] = IF i <= n THEN a[i] ELSE b[i - n]
    <2>1. a \in Seq(Nat) /\ b \in Seq(Nat) /\ Len(a) = n /\ Len(b) = m
      BY <1>1, <1>2
    <2>2. a \o b \in Seq(Nat) /\ Len(a \o b) = Len(a) + Len(b)
      BY <2>1, ConcatProperties
    <2>3. \A i \in 1 .. Len(a) + Len(b) :
             (a \o b)[i] = IF i <= Len(a) THEN a[i] ELSE b[i - Len(a)]
      BY <2>1, ConcatProperties
    <2>4. QED
      BY <2>1, <2>2, <2>3
  <1>5. ASSUME NEW i \in 1 .. n + m PROVE (a \o b)[i] = c[i]
    <2>1. CASE i <= n
      <3>1. i \in 1 .. n
        BY <2>1
      <3>2. QED
        BY <1>1, <1>3, <1>4, <3>1
    <2>2. CASE ~(i <= n)
      <3>1. i - n \in 1 .. m /\ n + (i - n) = i
        BY <2>2
      <3>2. (a \o b)[i] = b[i - n]
        BY <1>4, <2>2
      <3>3. QED
        BY <1>2, <1>3, <3>1, <3>2
    <2>3. QED
      BY <2>1, <2>2
  <1>6. a \o b = c
    BY <1>3, <1>4, <1>5, SameSeq
  <1>7. QED
    BY <1>6 DEF a, b, c

LEMMA ReadStep ==
    ASSUME ReadInv, NEW isset \in BOOLEAN, NEW size \in 1 .. MaxSize,
           NEW result \in -1 .. MaxSize, result <= size, Read(isset, size, result)
    PROVE  ReadInv'
  <1> DEFINE d == ReadFd(isset)
             n == IF result > 0 THEN result ELSE 0
  <1>1. /\ size \in Nat \ {0} /\ result \in Int /\ n \in Nat
    BY Bounds
  <1>2. /\ result = 0 => taken[d] = InLen
        /\ taken' = [taken EXCEPT ![d] = @ + n]
        /\ got' = [got EXCEPT ![d] = @ \o Buffer(d, n, result)]
        /\ ended' = IF result # size /\ result = 0 THEN ended \cup {d} ELSE ended
    BY DEF Read, Reply
  <1> HIDE DEF d
  <1>3. ASSUME d \in AllFd
        PROVE  got[d] \o Buffer(d, n, result) = [i \in 1 .. taken[d] + n |-> i]
    <2>1. got[d] = [i \in 1 .. taken[d] |-> i] /\ taken[d] \in Nat
      BY <1>3 DEF ReadInv, NoTruncation
    <2>2. CASE result > 0
      <3>1. Buffer(d, n, result) = [i \in 1 .. n |-> taken[d] + i]
        BY <2>2 DEF Buffer
      <3>2. QED
        BY <1>1, <2>1, <3>1, CountOn
    <2>3. CASE ~(result > 0)
      <3>1. n = 0 /\ 1 .. result = 1 .. n
        BY <1>1, <2>3
      <3>2. Buffer(d, n, result) = [i \in 1 .. n |-> taken[d] + i]
        BY <3>1 DEF Buffer
      <3>3. QED
        BY <1>1, <2>1, <3>2, CountOn
    <2>4. QED
      BY <2>2, <2>3
  <1> HIDE DEF n
  <1>4. taken \in [AllFd -> Nat] /\ got \in [AllFd -> Seq(Nat)]
    BY DEF ReadInv
  <1>5. taken' \in [AllFd -> Nat]
    <2>1. d \in AllFd => taken[d] + n \in Nat
      BY <1>1, <1>4
    <2>2. QED
      BY <1>2, <1>4, <2>1
  <1>6. ASSUME NEW e \in AllFd PROVE got'[e] = [i \in 1 .. taken'[e] |-> i]
    <2>1. CASE e = d
      BY <1>2, <1>3, <1>4, <2>1
    <2>2. CASE e # d
      BY <1>2, <1>4, <2>2 DEF ReadInv, NoTruncation
    <2>3. QED
      BY <2>1, <2>2
  <1>7. got' \in [AllFd -> Seq(Nat)]
    <2>1. ASSUME NEW e \in AllFd PROVE got'[e] \in Seq(Nat)
      <3>1. taken'[e] \in Nat
        BY <1>5
      <3>2. [i \in 1 .. taken'[e] |-> i] \in Seq(Nat)
        BY <3>1
      <3>3. QED
        BY <1>6, <3>2
    <2>2. got' = [e \in AllFd |-> got'[e]]
      BY <1>2, <1>4
    <2>3. QED
      BY <2>1, <2>2
  <1>8. ASSUME NEW e \in AllFd, e \in ended' PROVE taken'[e] = InLen
    <2>1. d \notin ended
      BY DEF Read, d
    <2>2. CASE e = d
      <3>1. result = 0
        BY <1>2, <1>8, <2>1, <2>2
      <3>2. n = 0
        BY <3>1 DEF n
      <3>3. QED
        BY <1>2, <1>4, <2>2, <3>1, <3>2
    <2>3. CASE e # d
      BY <1>2, <1>4, <1>8, <2>3 DEF ReadInv, NoTruncation
    <2>4. QED
      BY <2>2, <2>3
  <1>9. QED
    BY <1>5, <1>6, <1>7, <1>8 DEF ReadInv, NoTruncation

(* A reader gets the whole input of every descriptor, in order, whatever   *)
(* read(2) returns and wherever the stream is redirected (x_base_read).    *)
THEOREM NothingIsTruncated == IOSpec => []NoTruncation
  <1>1. IOStart => ReadInv
    <2>1. SUFFICES ASSUME IOStart PROVE ReadInv
      OBVIOUS
    <2>2. /\ taken = [d \in AllFd |-> 0] /\ got = [d \in AllFd |-> <<>>] /\ ended = {}
      BY <2>1 DEF IOStart
    <2>3. <<>> = [i \in 1 .. 0 |-> i]
      OBVIOUS
    <2>4. QED
      BY <2>2, <2>3 DEF ReadInv, NoTruncation
  <1>2. ReadInv /\ [IONext]_vars => ReadInv'
    <2>1. ASSUME ReadInv, UNCHANGED <<taken, got, ended>> PROVE ReadInv'
      BY <2>1 DEF ReadInv, NoTruncation
    <2>2. ASSUME IONext \/ UNCHANGED vars
          PROVE  \/ \E isset \in BOOLEAN, size \in 1 .. MaxSize, result \in -1 .. MaxSize :
                       result <= size /\ Read(isset, size, result)
                 \/ UNCHANGED <<taken, got, ended>>
      BY <2>2 DEF IONext, vars, ioVars, Write, WriteBuffer, WriteOut
    <2>3. QED
      BY <2>1, <2>2, ReadStep
  <1>3. ReadInv => NoTruncation
    BY DEF ReadInv
  <1>4. QED
    BY <1>1, <1>2, <1>3, PTL DEF IOSpec
-----------------------------------------------------------------------------
(* Writing. *)

(* What the streams are redirected to: x_base_write's sinks. *)
LEMMA CurrentSinks ==
    ASSUME TreeInv
    PROVE  Current("write_buf") \in Buf \cup {nil} /\ Current("fileout") \in AllFd
  <1>1. PICK st : StacksOK(st) /\ IsTreeOf(st)
    BY DEF TreeInv
  <1>2. ASSUME NEW f \in Field PROVE Current(f) \in Held(f)
    <2>1. 1 \in 1 .. Len(st[f])
      BY <1>1, SomeDepth DEF StacksOK
    <2>2. QED
      BY <1>1, <2>1, CellFacts DEF StacksOK
  <1>3. "write_buf" \in Field /\ "fileout" \in Field
    BY FieldNames
  <1>4. Held("write_buf") \subseteq Buf \cup {nil}
    <2>1. ASSUME NEW val \in Starts PROVE val["write_buf"] = nil
      BY <1>3 DEF Starts, Valuation, Given, Optional, Zeros, Range, Hooks
    <2>2. QED
      BY <2>1 DEF Held, Stored, Lists, Initial
  <1>5. Held("fileout") \subseteq AllFd
    <2>1. ASSUME NEW val \in Starts PROVE val["fileout"] = <<"fileout">>
      BY <1>3 DEF Starts, Valuation, Given, Optional, Zeros, Range, Hooks
    <2>2. QED
      BY <2>1 DEF Held, Stored, Lists, Initial, AllFd, STDOUT_FILENO
  <1>6. QED
    BY <1>2, <1>3, <1>4, <1>5

WriteInv ==
    /\ sent \in Nat
    /\ accepted \in [Sinks -> Seq(1 .. sent)]
    /\ out \in [AllFd -> Seq(1 .. sent)]
    /\ mem \in [Buf -> Seq(1 .. sent)]
    /\ pos \in [Buf -> Nat]
    /\ Delivered

(* A sequence of units is one of more units. *)
LEMMA SeqGrows ==
    ASSUME NEW S, NEW T, S \subseteq T, NEW s \in Seq(S)
    PROVE  s \in Seq(T)
  OBVIOUS

LEMMA UnitsWithin ==
    ASSUME NEW S, NEW s \in Seq(S)
    PROVE  Range(s) \subseteq S
  <1>1. SUFFICES ASSUME NEW i \in DOMAIN s
                 PROVE  s[i] \in S
    BY DEF Range
  <1>2. QED
    OBVIOUS

(* The units up to n, the m after them, and all of these *)
Follow(A, B, C) ==
    \E n, m \in Nat : A = 1 .. n /\ B = n + 1 .. n + m /\ C = 1 .. n + m

(* Newer units behind older ones: nothing is out of order, and nothing     *)
(* comes twice.                                                            *)
LEMMA ConcatGrows ==
    ASSUME NEW A, NEW B, NEW C, Follow(A, B, C), NEW s \in Seq(A), NEW u \in Seq(B)
    PROVE  /\ s \o u \in Seq(C) /\ Len(s \o u) = Len(s) + Len(u)
           /\ Range(s \o u) = Range(s) \cup Range(u)
           /\ Increasing(s) /\ Increasing(u) => Increasing(s \o u)
  <1>0. PICK n \in Nat, m \in Nat : A = 1 .. n /\ B = n + 1 .. n + m /\ C = 1 .. n + m
    BY DEF Follow
  <1> DEFINE w == s \o u
  <1>1. s \in Seq(C) /\ u \in Seq(C)
    <2>1. A \subseteq C /\ B \subseteq C
      BY <1>0
    <2>2. QED
      BY <2>1, SeqGrows
  <1>2. /\ w \in Seq(C) /\ Len(w) = Len(s) + Len(u)
        /\ \A i \in 1 .. Len(s) + Len(u) :
              w[i] = IF i <= Len(s) THEN s[i] ELSE u[i - Len(s)]
    BY <1>1, ConcatProperties
  <1>3. /\ Len(s) \in Nat /\ Len(u) \in Nat
        /\ DOMAIN s = 1 .. Len(s) /\ DOMAIN u = 1 .. Len(u) /\ DOMAIN w = 1 .. Len(s) + Len(u)
    BY <1>2
  <1>4. /\ \A i \in 1 .. Len(s) : s[i] \in 1 .. n
        /\ \A i \in 1 .. Len(u) : u[i] \in n + 1 .. n + m
    BY <1>0
  <1> HIDE DEF w
  <1>5. /\ \A i \in 1 .. Len(s) : i \in 1 .. Len(s) + Len(u) /\ w[i] = s[i]
        /\ \A i \in 1 .. Len(u) : Len(s) + i \in 1 .. Len(s) + Len(u) /\ w[Len(s) + i] = u[i]
    <2>1. ASSUME NEW i \in 1 .. Len(s) PROVE i \in 1 .. Len(s) + Len(u) /\ w[i] = s[i]
      BY <1>2, <1>3
    <2>2. ASSUME NEW i \in 1 .. Len(u)
          PROVE  Len(s) + i \in 1 .. Len(s) + Len(u) /\ w[Len(s) + i] = u[i]
      <3>1. /\ Len(s) + i \in 1 .. Len(s) + Len(u) /\ ~(Len(s) + i <= Len(s))
            /\ (Len(s) + i) - Len(s) = i
        BY <1>3
      <3>2. QED
        BY <1>2, <3>1
    <2>3. QED
      BY <2>1, <2>2
  <1>6. \A i \in 1 .. Len(s) + Len(u) :
           i \in 1 .. Len(s) \/ \E j \in 1 .. Len(u) : i = Len(s) + j
    <2>1. SUFFICES ASSUME NEW i \in 1 .. Len(s) + Len(u), i \notin 1 .. Len(s)
                   PROVE  \E j \in 1 .. Len(u) : i = Len(s) + j
      OBVIOUS
    <2>2. i - Len(s) \in 1 .. Len(u) /\ i = Len(s) + (i - Len(s))
      BY <1>3, <2>1
    <2>3. QED
      BY <2>2
  <1>7. Range(w) = Range(s) \cup Range(u)
    <2>1. Range(w) \subseteq Range(s) \cup Range(u)
      <3>1. SUFFICES ASSUME NEW i \in 1 .. Len(s) + Len(u)
                     PROVE  w[i] \in Range(s) \cup Range(u)
        BY <1>3 DEF Range
      <3>2. CASE i \in 1 .. Len(s)
        BY <1>3, <1>5, <3>2 DEF Range
      <3>3. CASE \E j \in 1 .. Len(u) : i = Len(s) + j
        BY <1>3, <1>5, <3>3 DEF Range
      <3>4. QED
        BY <1>6, <3>2, <3>3
    <2>2. Range(s) \subseteq Range(w)
      BY <1>3, <1>5 DEF Range
    <2>3. Range(u) \subseteq Range(w)
      BY <1>3, <1>5 DEF Range
    <2>4. QED
      BY <2>1, <2>2, <2>3
  <1>9. ASSUME Increasing(s), Increasing(u) PROVE Increasing(w)
    <2>1. SUFFICES ASSUME NEW i \in 1 .. Len(s) + Len(u), NEW j \in 1 .. Len(s) + Len(u), i < j
                   PROVE  w[i] < w[j]
      BY <1>3 DEF Increasing
    <2>2. CASE j \in 1 .. Len(s)
      <3>1. i \in 1 .. Len(s)
        BY <1>3, <2>1, <2>2
      <3>2. s[i] < s[j]
        BY <1>3, <1>9, <2>1, <2>2, <3>1 DEF Increasing
      <3>3. QED
        BY <1>5, <2>2, <3>1, <3>2
    <2>3. CASE \E l \in 1 .. Len(u) : j = Len(s) + l
      <3>1. PICK l \in 1 .. Len(u) : j = Len(s) + l
        BY <2>3
      <3>2. w[j] = u[l] /\ u[l] \in n + 1 .. n + m
        BY <1>4, <1>5, <3>1
      <3>3. CASE i \in 1 .. Len(s)
        <4>1. w[i] = s[i] /\ s[i] \in 1 .. n
          BY <1>4, <1>5, <3>3
        <4>2. QED
          BY <3>2, <4>1
      <3>4. CASE \E k \in 1 .. Len(u) : i = Len(s) + k
        <4>1. PICK k \in 1 .. Len(u) : i = Len(s) + k
          BY <3>4
        <4>2. k < l
          BY <1>3, <2>1, <3>1, <4>1
        <4>3. u[k] < u[l]
          BY <1>3, <1>9, <4>2 DEF Increasing
        <4>4. QED
          BY <1>5, <3>2, <4>1, <4>3
      <3>5. QED
        BY <1>6, <3>3, <3>4
    <2>4. QED
      BY <1>6, <2>2, <2>3
  <1>10. QED
    BY <1>2, <1>7, <1>9 DEF w

(* The units of a call, and those of them that write(2) takes. *)
LEMMA UnitsFacts ==
    ASSUME sent \in Nat, NEW size \in Nat, NEW result \in -1 .. size
    PROVE  /\ Units(size) \in Seq(sent + 1 .. sent + size) /\ Len(Units(size)) = size
           /\ Increasing(Units(size))
           /\ SubSeq(Units(size), 1, result) \in Seq(sent + 1 .. sent + size)
           /\ Increasing(SubSeq(Units(size), 1, result))
           /\ result = size => SubSeq(Units(size), 1, result) = Units(size)
  <1> DEFINE n == sent
             u == Units(size)
             w == SubSeq(u, 1, result)
  <1>1. /\ u \in Seq(n + 1 .. n + size) /\ Len(u) = size /\ DOMAIN u = 1 .. size
        /\ \A i \in 1 .. size : u[i] = n + i
    <2>1. u = [i \in 1 .. size |-> n + i]
      BY DEF Units
    <2>2. u \in [1 .. size -> n + 1 .. n + size]
      BY <2>1
    <2>3. QED
      BY <2>1, <2>2
  <1>2. Increasing(u)
    BY <1>1 DEF Increasing
  <1> HIDE DEF u
  <1>3. CASE result = -1 \/ result = 0
    <2>1. w = <<>>
      BY <1>1, <1>3
    <2>2. <<>> \in Seq(n + 1 .. n + size) /\ Increasing(<<>>)
      BY DEF Increasing
    <2>3. result = size => u = <<>>
      BY <1>1, <1>3
    <2>4. QED
      BY <1>1, <1>2, <2>1, <2>2, <2>3 DEF u
  <1>4. CASE result \in 1 .. size
    <2>1. /\ w \in Seq(n + 1 .. n + size) /\ Len(w) = result /\ DOMAIN w = 1 .. result
          /\ \A i \in 1 .. result : w[i] = u[i]
      <3>1. result \in 0 .. Len(u)
        BY <1>1, <1>4
      <3>2. QED
        BY <1>1, <3>1, SubSeqFacts
    <2>2. \A i \in 1 .. result : w[i] = n + i
      BY <1>1, <1>4, <2>1
    <2> HIDE DEF w
    <2>3. Increasing(w)
      BY <2>1, <2>2 DEF Increasing
    <2>4. result = size => w = u
      BY <1>1, <2>1, SameSeq
    <2>5. QED
      BY <1>1, <1>2, <2>1, <2>3, <2>4 DEF u, w
  <1>5. QED
    BY <1>3, <1>4
(* Both kinds of sink get the units behind what they have. *)
LEMMA TypesGrow ==
    ASSUME WriteInv, NEW size \in Nat
    PROVE  /\ accepted \in [Sinks -> Seq(1 .. sent + size)]
           /\ out \in [AllFd -> Seq(1 .. sent + size)]
           /\ mem \in [Buf -> Seq(1 .. sent + size)]
  <1>1. 1 .. sent \subseteq 1 .. sent + size
    BY DEF WriteInv
  <1>2. \A s \in Seq(1 .. sent) : s \in Seq(1 .. sent + size)
    BY <1>1, SeqGrows
  <1>3. QED
    BY <1>2 DEF WriteInv

LEMMA WriteBufferStep ==
    ASSUME TreeInv, WriteInv, NEW size \in 1 .. MaxSize, WriteBuffer(size)
    PROVE  WriteInv'
  <1> DEFINE b == Current("write_buf")
             u == Units(size)
             n == sent
  <1>1. b \in Buf
    BY CurrentSinks DEF WriteBuffer
  <1>2. size \in Nat /\ n \in Nat /\ MaxSize \in Nat
    BY Bounds DEF WriteInv
  <1>3. /\ u \in Seq(n + 1 .. n + size) /\ Len(u) = size
    <2>1. 0 \in -1 .. size
      BY <1>2
    <2>2. QED
      BY <1>2, <2>1, UnitsFacts
  <1>4. /\ mem' = [mem EXCEPT ![b] = CopyAt(mem[b], pos[b], u)]
        /\ pos' = [pos EXCEPT ![b] = @ + size]
        /\ accepted' = [accepted EXCEPT ![b] = @ \o u]
        /\ sent' = n + size /\ out' = out
    BY DEF WriteBuffer, Accept
  <1> HIDE DEF b, u
  <1>5. /\ mem[b] \in Seq(1 .. n) /\ accepted[b] = mem[b] /\ pos[b] = Len(mem[b])
        /\ b \in Sinks /\ b \notin AllFd
    BY <1>1, BufsAreNoFds DEF WriteInv, Delivered, Sinks
  <1> DEFINE w == mem[b] \o u
  <1>6. /\ w \in Seq(1 .. n + size) /\ Len(w) = Len(mem[b]) + size
        /\ Range(w) = Range(mem[b]) \cup Range(u)
        /\ Range(mem[b]) \subseteq 1 .. n /\ Range(u) \subseteq n + 1 .. n + size
    <2> DEFINE A == 1 .. n
               B == n + 1 .. n + size
               C == 1 .. n + size
    <2>1. Follow(A, B, C) /\ mem[b] \in Seq(A) /\ u \in Seq(B)
      BY <1>2, <1>3, <1>5 DEF Follow
    <2>2. /\ mem[b] \o u \in Seq(C) /\ Range(mem[b]) \subseteq A /\ Range(u) \subseteq B
          /\ Len(mem[b] \o u) = Len(mem[b]) + Len(u)
          /\ Range(mem[b] \o u) = Range(mem[b]) \cup Range(u)
          /\ Increasing(mem[b]) /\ Increasing(u) => Increasing(mem[b] \o u)
      <3> HIDE DEF A, B, C
      <3>1. QED
        BY <2>1, ConcatGrows, UnitsWithin
    <2>3. Len(mem[b] \o u) = Len(mem[b]) + size
      BY <1>3, <2>2
    <2> HIDE DEF A, B, C
    <2>4. QED
      BY <2>2, <2>3 DEF A, B, C
  <1>7. CopyAt(mem[b], pos[b], u) = w
    <2>1. Len(mem[b]) \in Nat /\ SubSeq(mem[b], 1, Len(mem[b])) = mem[b]
      BY <1>5
    <2>2. SubSeq(mem[b], Len(mem[b]) + Len(u) + 1, Len(mem[b])) = <<>>
      BY <1>2, <1>3, <1>5, <2>1
    <2>3. w \o <<>> = w
      BY <1>6, ConcatEmptySeq
    <2>4. QED
      BY <1>5, <2>1, <2>2, <2>3 DEF CopyAt
  <1> HIDE DEF w
  <1>8. /\ accepted \in [Sinks -> Seq(1 .. n + size)]
        /\ out \in [AllFd -> Seq(1 .. n + size)]
        /\ mem \in [Buf -> Seq(1 .. n + size)]
        /\ pos \in [Buf -> Nat]
    BY <1>2, TypesGrow DEF WriteInv
  <1>9. accepted' = [accepted EXCEPT ![b] = w] /\ mem' = [mem EXCEPT ![b] = w]
    BY <1>4, <1>5, <1>7 DEF w
  <1>10. /\ accepted' \in [Sinks -> Seq(1 .. n + size)]
         /\ mem' \in [Buf -> Seq(1 .. n + size)]
    BY <1>1, <1>5, <1>6, <1>8, <1>9
  <1>11. pos' \in [Buf -> Nat] /\ pos'[b] = Len(w)
    <2>1. pos[b] + size \in Nat /\ pos[b] + size = Len(w)
      BY <1>1, <1>2, <1>5, <1>6, <1>8
    <2>2. QED
      BY <1>1, <1>4, <1>8, <2>1
  <1>12. ASSUME NEW c \in Buf PROVE mem'[c] = accepted'[c] /\ pos'[c] = Len(mem'[c])
    <2>1. CASE c = b
      BY <1>1, <1>5, <1>8, <1>9, <1>11, <2>1
    <2>2. CASE c # b
      <3>1. mem'[c] = mem[c] /\ accepted'[c] = accepted[c] /\ pos'[c] = pos[c]
        BY <1>4, <1>8, <1>9, <2>2 DEF Sinks
      <3>2. QED
        BY <3>1 DEF WriteInv, Delivered
    <2>3. QED
      BY <2>1, <2>2
  <1>13. ASSUME NEW d \in AllFd
         PROVE  /\ Increasing(out'[d]) /\ Increasing(accepted'[d])
                /\ \A s \in Sinks : Range(out'[d]) \cap Range(accepted'[s])
                                      = IF s = d THEN Range(accepted'[d]) ELSE {}
    <2>1. d # b /\ d \in Sinks
      BY <1>5 DEF Sinks
    <2>2. out'[d] = out[d] /\ accepted'[d] = accepted[d]
      BY <1>4, <1>8, <1>9, <2>1
    <2>3. /\ Increasing(out[d]) /\ Increasing(accepted[d])
          /\ \A s \in Sinks : Range(out[d]) \cap Range(accepted[s])
                                = IF s = d THEN Range(accepted[d]) ELSE {}
      BY DEF WriteInv, Delivered
    <2>4. Range(out[d]) \subseteq 1 .. n
      <3>1. out[d] \in Seq(1 .. n)
        BY DEF WriteInv
      <3>2. QED
        BY <3>1, UnitsWithin
    <2>5. ASSUME NEW s \in Sinks
          PROVE  Range(out[d]) \cap Range(accepted'[s]) = IF s = d THEN Range(accepted[d]) ELSE {}
      <3>1. CASE s = b
        <4>1. Range(accepted'[s]) = Range(accepted[b]) \cup Range(u)
          BY <1>5, <1>6, <1>8, <1>9, <3>1
        <4>2. Range(out[d]) \cap Range(accepted[b]) = {}
          BY <1>5, <2>1, <2>3
        <4>3. Range(out[d]) \cap Range(u) = {}
          <5>1. (1 .. n) \cap (n + 1 .. n + size) = {}
            BY <1>2
          <5>2. QED
            BY <1>6, <2>4, <5>1
        <4>4. QED
          BY <2>1, <3>1, <4>1, <4>2, <4>3
      <3>2. CASE s # b
        <4>1. accepted'[s] = accepted[s]
          BY <1>8, <1>9, <3>2
        <4>2. QED
          BY <2>3, <4>1
      <3>3. QED
        BY <3>1, <3>2
    <2>6. QED
      BY <2>2, <2>3, <2>5
  <1>14. Delivered'
    BY <1>12, <1>13 DEF Delivered
  <1>15. sent' \in Nat /\ out' \in [AllFd -> Seq(1 .. sent')]
         /\ accepted' \in [Sinks -> Seq(1 .. sent')] /\ mem' \in [Buf -> Seq(1 .. sent')]
    BY <1>2, <1>4, <1>8, <1>10
  <1>16. QED
    BY <1>11, <1>14, <1>15 DEF WriteInv

LEMMA WriteOutStep ==
    ASSUME TreeInv, WriteInv, NEW size \in 1 .. MaxSize, NEW isset \in BOOLEAN,
           NEW result \in -1 .. size, WriteOut(isset, size, result)
    PROVE  WriteInv'
  <1> DEFINE d == WriteFd(isset)
             u == Units(size)
             v == SubSeq(u, 1, result)
             n == sent
  <1>1. d \in AllFd /\ d \in Sinks
    BY CurrentSinks DEF WriteFd, AllFd, Sinks
  <1>2. size \in Nat /\ n \in Nat /\ MaxSize \in Nat
    BY Bounds DEF WriteInv
  <1>3. /\ u \in Seq(n + 1 .. n + size) /\ Increasing(u)
        /\ v \in Seq(n + 1 .. n + size) /\ Increasing(v)
        /\ result = size => v = u
    BY <1>2, UnitsFacts
  <1>4. /\ out' = [out EXCEPT ![d] = @ \o v]
        /\ accepted' = IF result = size THEN [accepted EXCEPT ![d] = @ \o u] ELSE accepted
        /\ sent' = n + size /\ mem' = mem /\ pos' = pos
    BY DEF WriteOut, Accept
  <1> HIDE DEF d, u, v
  <1>5. /\ accepted \in [Sinks -> Seq(1 .. n)] /\ out \in [AllFd -> Seq(1 .. n)]
        /\ pos \in [Buf -> Nat]
    BY DEF WriteInv
  <1>6. /\ accepted \in [Sinks -> Seq(1 .. n + size)]
        /\ out \in [AllFd -> Seq(1 .. n + size)]
        /\ mem \in [Buf -> Seq(1 .. n + size)]
    BY <1>2, TypesGrow
  <1> DEFINE a == accepted[d]
             o == out[d]
             a2 == IF result = size THEN a \o u ELSE a
             o2 == o \o v
  <1>7. /\ Increasing(o) /\ Increasing(a) /\ Range(o) \cap Range(a) = Range(a)
    BY <1>1 DEF WriteInv, Delivered
  <1>8. a \in Seq(1 .. n) /\ o \in Seq(1 .. n) /\ a \in Seq(1 .. n + size)
    BY <1>1, <1>5, <1>6
  <1> HIDE DEF a, o
  <1>9. /\ o2 \in Seq(1 .. n + size) /\ Increasing(o2) /\ Range(o2) = Range(o) \cup Range(v)
        /\ Range(o) \subseteq 1 .. n /\ Range(v) \subseteq n + 1 .. n + size
    <2> DEFINE A == 1 .. n
               B == n + 1 .. n + size
               C == 1 .. n + size
    <2>1. Follow(A, B, C) /\ o \in Seq(A) /\ v \in Seq(B)
      BY <1>2, <1>3, <1>7, <1>8 DEF Follow
    <2>2. /\ o \o v \in Seq(C) /\ Range(o) \subseteq A /\ Range(v) \subseteq B
          /\ Len(o \o v) = Len(o) + Len(v)
          /\ Range(o \o v) = Range(o) \cup Range(v)
          /\ Increasing(o) /\ Increasing(v) => Increasing(o \o v)
      <3> HIDE DEF A, B, C
      <3>1. QED
        BY <2>1, ConcatGrows, UnitsWithin
    <2>3. Increasing(o \o v)
      BY <1>3, <1>7, <2>2
    <2> HIDE DEF A, B, C
    <2>4. QED
      BY <2>2, <2>3 DEF A, B, C
  <1>10. /\ a \o u \in Seq(1 .. n + size) /\ Increasing(a \o u)
         /\ Range(a \o u) = Range(a) \cup Range(u)
         /\ Range(a) \subseteq 1 .. n /\ Range(u) \subseteq n + 1 .. n + size
    <2> DEFINE A == 1 .. n
               B == n + 1 .. n + size
               C == 1 .. n + size
    <2>1. Follow(A, B, C) /\ a \in Seq(A) /\ u \in Seq(B)
      BY <1>2, <1>3, <1>7, <1>8 DEF Follow
    <2>2. /\ a \o u \in Seq(C) /\ Range(a) \subseteq A /\ Range(u) \subseteq B
          /\ Len(a \o u) = Len(a) + Len(u)
          /\ Range(a \o u) = Range(a) \cup Range(u)
          /\ Increasing(a) /\ Increasing(u) => Increasing(a \o u)
      <3> HIDE DEF A, B, C
      <3>1. QED
        BY <2>1, ConcatGrows, UnitsWithin
    <2>3. Increasing(a \o u)
      BY <1>3, <1>7, <2>2
    <2> HIDE DEF A, B, C
    <2>4. QED
      BY <2>2, <2>3 DEF A, B, C
  <1>11. a2 \in Seq(1 .. n + size) /\ Increasing(a2)
    BY <1>7, <1>8, <1>10
  <1>12. (1 .. n) \cap (n + 1 .. n + size) = {}
    BY <1>2
  <1>13. Range(o2) \cap Range(a2) = Range(a2)
    <2>1. CASE result = size
      BY <1>3, <1>7, <1>9, <1>10, <2>1
    <2>2. CASE result # size
      BY <1>7, <1>9, <2>2
    <2>3. QED
      BY <2>1, <2>2
  <1>14. /\ out' = [out EXCEPT ![d] = o2]
         /\ accepted' = [accepted EXCEPT ![d] = a2]
    <2>1. accepted = [accepted EXCEPT ![d] = a]
      BY <1>5 DEF a
    <2>2. QED
      BY <1>4, <2>1 DEF a, o
  <1> HIDE DEF a2, o2
  <1>15. /\ out' \in [AllFd -> Seq(1 .. n + size)] /\ accepted' \in [Sinks -> Seq(1 .. n + size)]
         /\ out'[d] = o2 /\ accepted'[d] = a2
         /\ \A e \in AllFd : e # d => out'[e] = out[e]
         /\ \A s \in Sinks : s # d => accepted'[s] = accepted[s]
    BY <1>1, <1>6, <1>9, <1>11, <1>14
  <1>16. ASSUME NEW c \in Buf PROVE mem'[c] = accepted'[c] /\ pos'[c] = Len(mem'[c])
    <2>1. c # d /\ c \in Sinks
      BY <1>1, BufsAreNoFds DEF Sinks
    <2>2. QED
      BY <1>4, <1>15, <2>1 DEF WriteInv, Delivered
  <1>17. ASSUME NEW e \in AllFd
         PROVE  Increasing(out'[e]) /\ Increasing(accepted'[e])
    <2>1. e \in Sinks
      BY DEF Sinks
    <2>2. CASE e = d
      BY <1>9, <1>11, <1>15, <2>2
    <2>3. CASE e # d
      BY <1>15, <2>1, <2>3 DEF WriteInv, Delivered
    <2>4. QED
      BY <2>2, <2>3
  <1>18. ASSUME NEW e \in AllFd, NEW s \in Sinks
         PROVE  Range(out'[e]) \cap Range(accepted'[s])
                  = IF s = e THEN Range(accepted'[e]) ELSE {}
    <2>1. /\ Range(out[e]) \cap Range(accepted[s]) = IF s = e THEN Range(accepted[e]) ELSE {}
          /\ Range(out[e]) \subseteq 1 .. n /\ Range(accepted[s]) \subseteq 1 .. n
      <3>1. out[e] \in Seq(1 .. n) /\ accepted[s] \in Seq(1 .. n)
        BY <1>5
      <3>2. QED
        BY <3>1, UnitsWithin DEF WriteInv, Delivered
    <2>2. e \in Sinks
      BY DEF Sinks
    <2>3. CASE e = d /\ s = d
      BY <1>13, <1>15, <2>3
    <2>4. CASE e = d /\ s # d
      <3>1. Range(o) \cap Range(accepted[s]) = {}
        BY <2>1, <2>4 DEF o
      <3>2. Range(v) \cap Range(accepted[s]) = {}
        BY <1>9, <1>12, <2>1
      <3>3. QED
        BY <1>9, <1>15, <2>4, <3>1, <3>2
    <2>5. CASE e # d /\ s = d
      <3>1. Range(out[e]) \cap Range(a) = {}
        BY <2>1, <2>5 DEF a
      <3>2. Range(out[e]) \cap Range(u) = {}
        BY <1>10, <1>12, <2>1
      <3>3. Range(out[e]) \cap Range(a2) = {}
        BY <1>10, <3>1, <3>2 DEF a2
      <3>4. QED
        BY <1>15, <2>5, <3>3
    <2>6. CASE e # d /\ s # d
      BY <1>15, <2>1, <2>2, <2>6
    <2>7. QED
      BY <2>3, <2>4, <2>5, <2>6
  <1>19. Delivered'
    BY <1>16, <1>17, <1>18 DEF Delivered
  <1>20. sent' \in Nat /\ out' \in [AllFd -> Seq(1 .. sent')]
         /\ accepted' \in [Sinks -> Seq(1 .. sent')] /\ mem' \in [Buf -> Seq(1 .. sent')]
         /\ pos' \in [Buf -> Nat]
    BY <1>2, <1>4, <1>5, <1>6, <1>15
  <1>21. QED
    BY <1>19, <1>20 DEF WriteInv

(* What x_base_write reports as written is, once and in order, in the sink *)
(* that was current, and in no other, whatever write(2) returns and        *)
(* wherever the stream is redirected.                                      *)
THEOREM EverythingIsDelivered == IOSpec => []Delivered
  <1>1. IOStart => WriteInv
    <2>1. SUFFICES ASSUME IOStart PROVE WriteInv
      OBVIOUS
    <2>2. /\ sent = 0 /\ out = [d \in AllFd |-> <<>>]
          /\ mem = [b \in Buf |-> <<>>] /\ pos = [b \in Buf |-> 0]
          /\ accepted = [s \in Sinks |-> <<>>]
      BY <2>1 DEF IOStart
    <2>3. /\ <<>> \in Seq(1 .. 0) /\ Len(<<>>) = 0 /\ Increasing(<<>>) /\ Range(<<>>) = {}
      BY DEF Increasing, Range
    <2>4. Delivered
      <3>1. /\ \A d \in AllFd : d \in Sinks /\ out[d] = <<>>
            /\ \A b \in Buf : b \in Sinks
            /\ \A s \in Sinks : accepted[s] = <<>>
        BY <2>2 DEF Sinks
      <3>2. QED
        BY <2>2, <2>3, <3>1 DEF Delivered
    <2>5. QED
      BY <2>2, <2>3, <2>4 DEF WriteInv
  <1>2. TreeInv /\ WriteInv /\ [IONext]_vars => WriteInv'
    <2>1. ASSUME WriteInv, UNCHANGED <<sent, out, mem, pos, accepted>> PROVE WriteInv'
      BY <2>1 DEF WriteInv, Delivered
    <2>2. ASSUME IONext \/ UNCHANGED vars
          PROVE  \/ \E size \in 1 .. MaxSize : Write(size)
                 \/ UNCHANGED <<sent, out, mem, pos, accepted>>
      <3>1. UNCHANGED ioVars => UNCHANGED <<sent, out, mem, pos, accepted>>
        BY DEF ioVars
      <3>2. \A isset, size, result :
               Read(isset, size, result) => UNCHANGED <<sent, out, mem, pos, accepted>>
        BY DEF Read
      <3>3. UNCHANGED vars => UNCHANGED ioVars
        BY DEF vars
      <3>4. QED
        BY <2>2, <3>1, <3>2, <3>3 DEF IONext
    <2>3. ASSUME TreeInv, WriteInv, NEW size \in 1 .. MaxSize, Write(size) PROVE WriteInv'
      BY <2>3, WriteBufferStep, WriteOutStep DEF Write
    <2>4. QED
      BY <2>1, <2>2, <2>3
  <1>3. WriteInv => Delivered
    BY DEF WriteInv
  <1>4. QED
    BY <1>1, <1>2, <1>3, TreeInvUnderIO, PTL DEF IOSpec
-----------------------------------------------------------------------------
(* Dispatch. *)

Asked == Question \cup {"error"}

LEMMA TreeInvUnderDispatch == DispatchSpec => []TreeInv
  <1>1. Init => TreeInv
    BY InitTree DEF TreeInv
  <1>2. DispatchNext => FieldStep \/ UNCHANGED baseVars
    BY DEF DispatchNext, Ask, x_obj_error, Call, HookReturns, HookJumps, baseVars
  <1>3. UNCHANGED <<baseVars, dispatchVars>> => UNCHANGED baseVars
    OBVIOUS
  <1>4. QED
    BY <1>1, <1>2, <1>3, TreeInvStep, PTL DEF DispatchSpec

(* The hook that is consulted is the newest value on the stack of the      *)
(* question's field: the override in force.                                *)
LEMMA HookIsDue ==
    ASSUME TreeInv, NEW asks \in Asked
    PROVE  Hook(asks) = Due(TRUE, asks) /\ Hook(asks) \in Val
  <1> DEFINE f == HookName[asks]
  <1>1. f \in Field \ Lists
    BY FieldNames DEF HookName, Asked, Question, Lists
  <1>2. HookField[asks] = Accessor[f]
    BY DEF HookField, HookName, Asked, Question
  <1> HIDE DEF f
  <1>3. PICK st : StacksOK(st) /\ IsTreeOf(st)
    BY DEF TreeInv
  <1>4. st[f] \in Seq(Val) /\ 1 \in 1 .. Len(st[f])
    BY <1>1, <1>3, SomeDepth DEF StacksOK
  <1>5. Hook(asks) = st[f][1]
    BY <1>1, <1>2, <1>3, CellFacts DEF Hook
  <1>6. Stacks[f] = View(f, st[f])
    BY <1>1, <1>3, StacksAre DEF Abs
  <1>7. View(f, st[f])[1] = st[f][1]
    BY <1>1, <1>4, ViewFacts DEF Shown
  <1>8. Due(TRUE, asks) = View(f, st[f])[1]
    <2>1. View(f, st[f]) \in Seq({Shown(f, v) : v \in Val}) /\ Len(View(f, st[f])) > 0
      BY <1>4, ViewFacts
    <2>2. QED
      BY <1>6, <2>1 DEF Due, f
  <1>9. st[f][1] \in Val
    BY <1>4
  <1>10. QED
    BY <1>5, <1>7, <1>8, <1>9

(* The calls in progress are of hooks that were in force. *)
Pending ==
    {c \in [asks : Asked, of : Subject, fn : Val, due : Val] :
        /\ c.fn = c.due /\ c.fn # nil
        /\ c.asks # "error" => c.of = "foreign"}

CallsInv == calls \in Seq(Pending)

LEMMA CallPends ==
    ASSUME TreeInv, CallsInv, NEW asks \in Asked, NEW obj \in Subject, NEW isset \in BOOLEAN,
           Consults(isset, asks), Call(asks, obj, isset), asks # "error" => obj = "foreign"
    PROVE  CallsInv' /\ UNCHANGED reply
  <1> DEFINE c == [asks |-> asks, of |-> obj, fn |-> Hook(asks), due |-> Due(isset, asks)]
  <1>1. isset = TRUE /\ Hook(asks) # nil
    BY DEF Consults, x_obj_isnil
  <1>2. Hook(asks) = Due(isset, asks) /\ Hook(asks) \in Val
    BY <1>1, HookIsDue
  <1>3. c \in Pending
    BY <1>1, <1>2 DEF Pending
  <1>4. calls' = Append(calls, c) /\ reply' = reply
    BY DEF Call
  <1> HIDE DEF c
  <1>5. QED
    BY <1>3, <1>4, AppendFacts DEF CallsInv

(* A question whose answer is settled by the type of the object            *)
LEMMA SettledAnswers ==
    ASSUME NEW asks \in Question, NEW obj \in Settled, NEW due,
           Answers(asks, obj, due, Unwrapped(asks, Prim(asks, obj)))
    PROVE  OverrideAnswers'
  <1>1. /\ reply'.asks = asks /\ reply'.of = obj
        /\ reply'.answer = Unwrapped(asks, Prim(asks, obj))
    BY DEF Answers
  <1>2. asks \in {"type_name", "units", "length"} /\ obj \in {"nil", "atom", "pair", "untyped"}
    BY DEF Question, Settled
  <1>3. CASE obj = "nil"
    <2>1. Prim(asks, obj) = nil
      BY <1>2, <1>3 DEF Prim, x_obj_prim_type_name, x_obj_prim_units, x_obj_prim_length
    <2>2. Unwrapped(asks, Prim(asks, obj))
            = [type_name |-> <<"NIL">>, units |-> <<"1">>, length |-> <<"0">>][asks]
      BY <1>2, <2>1 DEF Unwrapped, x_obj_isnil
    <2>3. QED
      BY <1>1, <1>2, <1>3, <2>2 DEF OverrideAnswers
  <1>4. CASE obj = "pair"
    <2>1. Prim(asks, obj) = IF asks = "type_name" THEN <<"PAIR">> ELSE <<"2">>
      BY <1>2, <1>4 DEF Prim, x_obj_prim_type_name, x_obj_prim_units, x_obj_prim_length,
         x_obj_type, x_type_pair_obj, x_type_units_pair_obj, x_type_length_pair_obj
    <2>2. Prim(asks, obj) # nil
      BY <2>1 DEF nil
    <2>3. QED
      BY <1>1, <1>2, <1>4, <2>1, <2>2 DEF OverrideAnswers, Unwrapped, x_obj_isnil
  <1>5. CASE obj = "atom"
    <2>1. Prim(asks, obj) = IF asks = "type_name" THEN <<"ATOM">> ELSE <<"1">>
      BY <1>2, <1>5 DEF Prim, x_obj_prim_type_name, x_obj_prim_units, x_obj_prim_length,
         x_obj_type, x_type_atom_obj, x_type_units_atom_obj, x_type_length_atom_obj
    <2>2. Prim(asks, obj) # nil
      BY <2>1 DEF nil
    <2>3. QED
      BY <1>1, <1>2, <1>5, <2>1, <2>2 DEF OverrideAnswers, Unwrapped, x_obj_isnil
  <1>6. CASE obj = "untyped"
    <2>1. Prim(asks, obj) = IF asks = "type_name" THEN nil ELSE <<"1">>
      BY <1>2, <1>6 DEF Prim, x_obj_prim_type_name, x_obj_prim_units, x_obj_prim_length,
         x_obj_type, x_type_units_atom_obj, x_type_length_atom_obj
    <2>2. CASE asks = "type_name"
      <3>1. Unwrapped(asks, Prim(asks, obj)) = <<"NIL">>
        BY <2>1, <2>2 DEF Unwrapped, x_obj_isnil
      <3>2. QED
        BY <1>1, <1>2, <1>6, <2>2, <3>1 DEF OverrideAnswers
    <2>3. CASE asks # "type_name"
      <3>1. Prim(asks, obj) = <<"1">> /\ Prim(asks, obj) # nil
        BY <2>1, <2>3 DEF nil
      <3>2. Unwrapped(asks, Prim(asks, obj)) = <<"1">>
        BY <3>1 DEF Unwrapped, x_obj_isnil
      <3>3. QED
        BY <1>1, <1>2, <1>6, <2>3, <3>2 DEF OverrideAnswers
    <2>4. QED
      BY <2>2, <2>3
  <1>7. QED
    BY <1>2, <1>3, <1>4, <1>5, <1>6

(* A question that is not: the answer of the hook in force, or the default *)
LEMMA HookAnswers ==
    ASSUME NEW asks \in Question, NEW due, NEW answer, answer = nil \/ answer = due,
           Answers(asks, "foreign", due, Unwrapped(asks, answer))
    PROVE  OverrideAnswers'
  <1>1. /\ reply'.asks = asks /\ reply'.of = "foreign" /\ reply'.due = due
        /\ reply'.answer = Unwrapped(asks, answer)
    BY DEF Answers
  <1>2. asks \in {"type_name", "units", "length"}
    BY DEF Question
  <1>3. Unwrapped(asks, answer)
          \in {[type_name |-> <<"NIL">>, units |-> <<"1">>, length |-> <<"0">>][asks]}
                \cup IF due = nil THEN {} ELSE {due}
    <2>1. CASE answer = nil
      BY <1>2, <2>1 DEF Unwrapped, x_obj_isnil
    <2>2. CASE answer # nil
      BY <2>2 DEF Unwrapped, x_obj_isnil
    <2>3. QED
      BY <2>1, <2>2
  <1>4. QED
    BY <1>1, <1>2, <1>3 DEF OverrideAnswers

LEMMA ErrorAnswers ==
    ASSUME NEW obj, NEW due, NEW answer, due = nil <=> answer # nil,
           Answers("error", obj, due, answer)
    PROVE  OverrideAnswers'
  <1>1. reply'.asks = "error" /\ reply'.due = due /\ reply'.answer = answer
    BY DEF Answers
  <1>2. "error" \notin Question
    BY DEF Question
  <1>3. QED
    BY <1>1, <1>2 DEF OverrideAnswers

LEMMA AskStep ==
    ASSUME TreeInv, CallsInv, OverrideAnswers, NEW asks \in Question, NEW obj \in Subject,
           NEW isset \in BOOLEAN, Ask(asks, obj, isset)
    PROVE  CallsInv' /\ OverrideAnswers'
  <1>1. obj \notin Settled => obj = "foreign"
    BY DEF Subject, Settled
  <1>2. asks \in Asked /\ asks # "error"
    BY DEF Asked, Question
  <1>3. CASE /\ obj \in Settled
             /\ Answers(asks, obj, Due(isset, asks), Unwrapped(asks, Prim(asks, obj)))
             /\ UNCHANGED <<baseVars, calls>>
    BY <1>3, SettledAnswers DEF CallsInv
  <1>4. CASE obj \notin Settled /\ Consults(isset, asks) /\ Call(asks, obj, isset)
    <2>1. CallsInv' /\ UNCHANGED reply
      BY <1>1, <1>2, <1>4, CallPends
    <2>2. QED
      BY <2>1 DEF OverrideAnswers
  <1>5. CASE /\ obj \notin Settled /\ ~Consults(isset, asks)
             /\ Answers(asks, obj, Due(isset, asks), Unwrapped(asks, nil))
             /\ UNCHANGED <<baseVars, calls>>
    BY <1>1, <1>5, HookAnswers DEF CallsInv
  <1>6. QED
    BY <1>3, <1>4, <1>5 DEF Ask

LEMMA ErrorStep ==
    ASSUME TreeInv, CallsInv, OverrideAnswers, NEW obj \in ErrorSubject,
           NEW isset \in BOOLEAN, x_obj_error(obj, isset)
    PROVE  CallsInv' /\ OverrideAnswers'
  <1>1. obj \in Subject /\ "error" \in Asked
    BY DEF ErrorSubject, Subject, Asked
  <1>2. CASE Consults(isset, "error") /\ Call("error", obj, isset)
    <2>1. CallsInv' /\ UNCHANGED reply
      BY <1>1, <1>2, CallPends
    <2>2. QED
      BY <2>1 DEF OverrideAnswers
  <1>3. CASE /\ ~Consults(isset, "error")
             /\ Answers("error", obj, Due(isset, "error"), x_error(obj))
             /\ UNCHANGED <<baseVars, calls>>
    <2>1. Due(isset, "error") = nil
      <3>1. CASE isset = TRUE
        BY <1>1, <1>3, <3>1, HookIsDue DEF Consults, x_obj_isnil
      <3>2. CASE isset = FALSE
        BY <3>2 DEF Due
      <3>3. QED
        BY <3>1, <3>2
    <2>2. x_error(obj) # nil
      <3> DEFINE S == {"*** ERROR: ", "message", " '", "text"}
                 h == <<"*** ERROR: ", "message">>
                 w == IF obj = "atom" THEN <<" '", "text">> ELSE <<>>
      <3>1. h \in Seq(S) /\ Len(h) = 2
        OBVIOUS
      <3>2. w \in Seq(S)
        <4>1. CASE obj = "atom"
          BY <4>1
        <4>2. CASE obj # "atom"
          BY <4>2
        <4>3. QED
          BY <4>1, <4>2
      <3>3. x_error(obj) = h \o w
        BY DEF x_error
      <3> HIDE DEF S, h, w
      <3>4. Len(h \o w) = Len(h) + Len(w) /\ Len(w) \in Nat
        <4>1. h \in Seq(S) /\ w \in Seq(S)
          BY <3>1, <3>2
        <4>2. Len(h \o w) = Len(h) + Len(w)
          BY <4>1, ConcatProperties
        <4>3. Len(w) \in Nat
          BY <4>1
        <4>4. QED
          BY <4>2, <4>3
      <3>5. Len(h \o w) # 0
        BY <3>1, <3>4
      <3>6. Len(nil) = 0
        BY DEF nil
      <3>7. QED
        BY <3>3, <3>5, <3>6
    <2>3. QED
      BY <1>3, <2>1, <2>2, ErrorAnswers DEF CallsInv
  <1>4. QED
    BY <1>2, <1>3 DEF x_obj_error

LEMMA HookReturnsStep ==
    ASSUME CallsInv, NEW null \in BOOLEAN, HookReturns(null)
    PROVE  CallsInv' /\ OverrideAnswers'
  <1> DEFINE c == calls[Len(calls)]
             answer == IF null THEN nil ELSE c.fn
  <1>1. calls \in Seq(Pending) /\ Len(calls) \in Nat \ {0}
    <2>1. calls \in Seq(Pending) /\ calls # <<>>
      BY DEF CallsInv, HookReturns
    <2>2. QED
      BY <2>1, FrontFacts
  <1>2. c \in Pending
    BY <1>1
  <1>3. CallsInv'
    <2>1. Len(calls) - 1 \in 0 .. Len(calls)
      BY <1>1
    <2>2. SubSeq(calls, 1, Len(calls) - 1) \in Seq(Pending)
      BY <1>1, <2>1, SubSeqFacts
    <2>3. QED
      BY <2>2 DEF HookReturns, CallsInv
  <1>4. Answers(c.asks, c.of, c.due, IF c.asks = "error" THEN nil ELSE Unwrapped(c.asks, answer))
    BY DEF HookReturns
  <1> HIDE DEF c
  <1>5. /\ c.asks \in Asked /\ c.due = c.fn /\ c.due # nil
        /\ c.asks # "error" => c.of = "foreign"
    BY <1>2 DEF Pending
  <1>6. CASE c.asks = "error"
    BY <1>4, <1>5, <1>6, <1>3, ErrorAnswers
  <1>7. CASE c.asks # "error"
    <2>1. c.asks \in Question /\ c.of = "foreign"
      BY <1>5, <1>7 DEF Asked
    <2>2. answer = nil \/ answer = c.due
      BY <1>5
    <2> HIDE DEF answer
    <2>3. Answers(c.asks, "foreign", c.due, Unwrapped(c.asks, answer))
      BY <1>4, <1>7, <2>1
    <2>4. QED
      BY <1>3, <2>1, <2>2, <2>3, HookAnswers
  <1>8. QED
    BY <1>6, <1>7

LEMMA DispatchInvHolds == DispatchSpec => [](CallsInv /\ OverrideAnswers)
  <1>1. DispatchStart => CallsInv /\ OverrideAnswers
    <2>1. SUFFICES ASSUME DispatchStart PROVE CallsInv /\ OverrideAnswers
      OBVIOUS
    <2>2. calls = <<>> /\ reply.asks = "none"
      BY <2>1 DEF DispatchStart, NoReply
    <2>3. QED
      BY <2>2 DEF CallsInv, OverrideAnswers, Question
  <1>2. TreeInv /\ CallsInv /\ OverrideAnswers /\ [DispatchNext]_<<baseVars, dispatchVars>>
          => (CallsInv /\ OverrideAnswers)'
    <2>1. SUFFICES ASSUME TreeInv, CallsInv, OverrideAnswers,
                          [DispatchNext]_<<baseVars, dispatchVars>>
                   PROVE  CallsInv' /\ OverrideAnswers'
      OBVIOUS
    <2>2. CASE UNCHANGED dispatchVars
      BY <2>1, <2>2 DEF dispatchVars, CallsInv, OverrideAnswers
    <2>3. CASE HookJumps
      <3>1. PICK n \in 0 .. Len(calls) - 1 : calls' = SubSeq(calls, 1, n)
        BY <2>3 DEF HookJumps
      <3>2. calls \in Seq(Pending) /\ n \in 0 .. Len(calls)
        BY <2>1, <3>1 DEF CallsInv
      <3>3. SubSeq(calls, 1, n) \in Seq(Pending)
        BY <3>2, SubSeqFacts
      <3>4. reply' = reply
        BY <2>3 DEF HookJumps
      <3>5. QED
        BY <2>1, <3>1, <3>3, <3>4 DEF CallsInv, OverrideAnswers
    <2>4. CASE \E null \in BOOLEAN : HookReturns(null)
      BY <2>1, <2>4, HookReturnsStep
    <2>5. CASE \E isset \in BOOLEAN :
                  \/ \E asks \in Question, obj \in Subject : Ask(asks, obj, isset)
                  \/ \E obj \in ErrorSubject : x_obj_error(obj, isset)
      BY <2>1, <2>5, AskStep, ErrorStep
    <2>6. QED
      BY <2>1, <2>2, <2>3, <2>4, <2>5 DEF DispatchNext, dispatchVars
  <1>3. QED
    BY <1>1, <1>2, TreeInvUnderDispatch, PTL DEF DispatchSpec

(* Every answer is that of the object's built-in type, of the override in  *)
(* force when the question was asked, or the default.                      *)
THEOREM AnswersAreDue == DispatchSpec => []OverrideAnswers
  BY DispatchInvHolds, PTL
=============================================================================
