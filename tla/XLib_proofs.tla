------------------------------ MODULE XLib_proofs ------------------------------
(***************************************************************************)
(* Proofs about XStdlib and XLib: for bytes, sizes and memories of any     *)
(* size, every call reads nothing behind its arguments and agrees with the *)
(* standard; for integers of any width, what strtoint reads is the value   *)
(* of a numeral, and what inttostr writes is read back as it was.          *)
(***************************************************************************)
EXTENDS XLib, XFacts

-----------------------------------------------------------------------------
(* Powers of two. *)

LEMMA Pow2Facts ==
    /\ Pow2 \in [Nat -> Nat \ {0}]
    /\ Pow2[0] = 1
    /\ \A w \in Nat : Pow2[w + 1] = 2 * Pow2[w]
  <1> DEFINE D == Nat \ {0}
             step == [n \in Nat |-> [x \in D |-> 2 * x]]
             Eq(f) == f = [w \in Nat |-> IF w = 0 THEN 1 ELSE 2 * f[w - 1]]
  <1>1. step \in [Nat -> [D -> D]] /\ 1 \in D
    OBVIOUS
  <1>2. PICK f \in Recursions(D, 1, step) : TRUE
    <2> HIDE DEF D, step
    <2>1. QED
      BY <1>1, RecursionExists
  <1>3. f \in [Nat -> D] /\ f[0] = 1 /\ \A n \in Nat : f[n + 1] = 2 * f[n]
    BY DEF Recursions
  <1>4. \A w \in Nat : f[w] = IF w = 0 THEN 1 ELSE 2 * f[w - 1]
    <2>1. SUFFICES ASSUME NEW w \in Nat, w # 0 PROVE f[w] = 2 * f[w - 1]
      BY <1>3
    <2>2. w - 1 \in Nat /\ (w - 1) + 1 = w
      BY <2>1
    <2>3. QED
      BY <1>3, <2>2
  <1>5. Eq(f)
    BY <1>3, <1>4
  <1>6. Eq(Pow2)
    BY <1>5 DEF Pow2
  <1> DEFINE g == Pow2
  <1>7. Eq(g)
    BY <1>6
  <1> HIDE DEF g
  <1>8. g[0] = 1 /\ \A w \in Nat : g[w + 1] = 2 * g[w]
    BY <1>7
  <1>9. g = [w \in Nat |-> g[w]]
    BY <1>7
  <1> HIDE DEF Eq
  <1> DEFINE S == {w \in Nat : g[w] \in D}
  <1>10. Nat \subseteq S
    <2>1. 0 \in S
      BY <1>8
    <2>2. ASSUME NEW w \in Nat, w \in S PROVE w + 1 \in S
      <3>1. g[w] \in Nat /\ g[w] # 0 /\ g[w + 1] = 2 * g[w]
        BY <1>8, <2>2
      <3>2. g[w + 1] \in Nat /\ g[w + 1] # 0
        BY <3>1
      <3>3. QED
        BY <3>2
    <2>3. QED
      <3> HIDE DEF S
      <3>1. QED
        BY <2>1, <2>2, InductionOnSet
  <1>11. g \in [Nat -> D]
    BY <1>9, <1>10
  <1>12. QED
    BY <1>8, <1>11 DEF g

LEMMA Widths ==
    /\ ByteValues \in Nat \ {0} /\ SizeValues \in Nat /\ Pow2[CharBits - 1] \in Nat
    /\ MemSize \in Nat /\ MemSize < SizeValues
  BY Pow2Facts, WidthsArePositive, SizeHoldsAddresses DEF ByteValues, SizeValues

LEMMA ByteFacts ==
    /\ Byte \subseteq Nat /\ NUL \in Byte
    /\ \A c \in Int : UChar(c) \in Byte
    /\ \A b \in Byte : UChar(b) = b
    /\ \A b, c \in Int : Char(b) = Char(c) <=> UChar(b) = UChar(c)
  <1> DEFINE V == ByteValues
             H == Pow2[CharBits - 1]
  <1>1. V \in Nat \ {0} /\ H \in Nat
    BY Widths
  <1> HIDE DEF V, H
  <1>2. \A c \in Int : c % V \in 0 .. V - 1
    BY <1>1
  <1>3. \A b \in 0 .. V - 1 : b % V = b
    BY <1>1
  <1>4. Byte = 0 .. V - 1 /\ \A c : UChar(c) = c % V
    BY DEF V, Byte, UChar
  <1>5. \A c : Char(c) = IF UChar(c) >= H THEN UChar(c) - V ELSE UChar(c)
    BY DEF V, H, Char
  <1>6. ASSUME NEW b \in Int, NEW c \in Int
        PROVE  Char(b) = Char(c) <=> UChar(b) = UChar(c)
    <2>1. UChar(b) \in 0 .. V - 1 /\ UChar(c) \in 0 .. V - 1
      BY <1>2, <1>4
    <2>2. /\ Char(b) = IF UChar(b) >= H THEN UChar(b) - V ELSE UChar(b)
          /\ Char(c) = IF UChar(c) >= H THEN UChar(c) - V ELSE UChar(c)
      BY <1>5
    <2>3. QED
      BY <1>1, <2>1, <2>2
  <1>7. Byte \subseteq Nat /\ NUL \in Byte
    BY <1>1, <1>4 DEF NUL
  <1>8. \A c \in Int : UChar(c) \in Byte
    BY <1>2, <1>4
  <1>9. \A b \in Byte : UChar(b) = b
    BY <1>3, <1>4
  <1>10. QED
    BY <1>6, <1>7, <1>8, <1>9

-----------------------------------------------------------------------------
(* Strings. *)

(* A loop over bytes comes to its end where its condition first fails.     *)
LEMMA FirstOf ==
    ASSUME NEW T, T \subseteq 0 .. MemSize, T # {}
    PROVE  \E k \in T : \A j \in 0 .. k - 1 : j \notin T
  <1>1. T \subseteq Nat
    BY Widths
  <1>2. PICK m \in T : \A k \in T : m <= k
    BY <1>1, LeastElement
  <1>3. \A j \in 0 .. m - 1 : j \notin T
    BY <1>1, <1>2
  <1>4. QED
    BY <1>3

(* The first n characters from p on end after k of them: a NUL follows, or *)
(* there are no more to look at.                                           *)
Ends(p, n, k) ==
    /\ k \in 0 .. n /\ p + k <= MemSize
    /\ \A j \in 0 .. k - 1 : mem[p + j] # NUL
    /\ k = n \/ (p + k \in Addr /\ mem[p + k] = NUL)

LEMMA ViewEnds ==
    ASSUME NEW p \in Addr, NEW n \in 0 .. MemSize, IsView(p, n)
    PROVE  \E k \in 0 .. MemSize : Ends(p, n, k)
  <1> DEFINE T == {k \in 0 .. n : k = n \/ (p + k \in Addr /\ mem[p + k] = NUL)}
  <1>1. MemSize \in Nat
    BY Widths
  <1>2. PICK k \in T : \A j \in 0 .. k - 1 : j \notin T
    <2>1. T \subseteq 0 .. MemSize /\ n \in T
      BY <1>1
    <2> HIDE DEF T
    <2>2. QED
      BY <2>1, FirstOf
  <1>3. p + k <= MemSize
    <2>1. CASE IsBlock(p, n)
      BY <1>1, <2>1 DEF IsBlock, Addr
    <2>2. CASE IsString(p)
      <3>1. PICK q \in Addr : q >= p /\ mem[q] = NUL
        BY <2>2 DEF IsString
      <3>2. q - p \in Nat /\ p + (q - p) = q
        BY <1>1, <3>1 DEF Addr
      <3>3. k <= q - p
        <4>1. SUFFICES ASSUME q - p < k PROVE FALSE
          BY <1>1, <3>2
        <4>2. q - p \in 0 .. k - 1 /\ q - p \in 0 .. n
          BY <1>1, <3>2, <4>1
        <4>3. QED
          BY <1>2, <3>1, <3>2, <4>2
      <3>4. QED
        BY <1>1, <3>2, <3>3 DEF Addr
    <2>3. QED
      BY <2>1, <2>2 DEF IsView
  <1>4. \A j \in 0 .. k - 1 : mem[p + j] # NUL
    BY <1>1, <1>2, <1>3 DEF Addr
  <1>5. QED
    BY <1>1, <1>2, <1>3, <1>4 DEF Ends

(* What the standard calls the string at p.                                *)
LEMMA CharsAre ==
    ASSUME NEW p \in Addr, NEW n \in Nat, NEW k \in Nat, Ends(p, n, k)
    PROVE  Chars(p, n) = Bytes(p, k)
  <1> DEFINE lengths == {j \in 0 .. n :
                  Span(p, j) \subseteq Addr /\ \A q \in Span(p, j) : mem[q] # NUL}
  <1>1. MemSize \in Nat /\ p \in Nat
    BY Widths DEF Addr
  <1>2. Span(p, k) \subseteq Addr
    BY <1>1 DEF Span, Addr, Ends
  <1>3. \A q \in Span(p, k) : mem[q] # NUL
    <2>1. SUFFICES ASSUME NEW q \in Span(p, k) PROVE mem[q] # NUL
      OBVIOUS
    <2>2. q - p \in 0 .. k - 1 /\ p + (q - p) = q
      BY <1>1 DEF Span
    <2>3. QED
      BY <2>2 DEF Ends
  <1>4. k \in lengths
    BY <1>2, <1>3 DEF Ends
  <1>5. ASSUME NEW j \in lengths PROVE j <= k
    <2>1. SUFFICES ASSUME k < j PROVE FALSE
      OBVIOUS
    <2>2. p + k \in Addr /\ mem[p + k] = NUL
      BY <2>1 DEF Ends
    <2>3. p + k \in Span(p, j)
      BY <1>1, <2>1 DEF Span
    <2>4. QED
      BY <1>5, <2>2, <2>3
  <1>6. (CHOOSE i \in lengths : \A j \in lengths : j <= i) = k
    <2> HIDE DEF lengths
    <2>1. lengths \subseteq Nat
      BY DEF lengths
    <2> DEFINE i == CHOOSE i \in lengths : \A j \in lengths : j <= i
    <2>2. i \in lengths /\ \A j \in lengths : j <= i
      BY <1>4, <1>5
    <2> HIDE DEF i
    <2>3. i <= k /\ k <= i
      BY <1>4, <1>5, <2>2
    <2>4. i = k
      BY <2>1, <2>2, <2>3
    <2>5. QED
      BY <2>4 DEF i
  <1>7. QED
    BY <1>6 DEF Chars

(* A string comes before another if it has the smaller character where     *)
(* they first differ, or ends there.                                       *)
LEMMA BeforeIs ==
    ASSUME NEW s \in Seq(Int), NEW t \in Seq(Int), NEW k \in Nat, k <= Len(s), k <= Len(t),
           \A i \in 1 .. k : s[i] = t[i],
           k = Len(s) \/ k = Len(t) \/ s[k + 1] # t[k + 1]
    PROVE  Before(s, t) <=> k < Len(t) /\ (k = Len(s) \/ s[k + 1] < t[k + 1])
  <1>1. Len(s) \in Nat /\ Len(t) \in Nat
    OBVIOUS
  <1>2. ASSUME k < Len(t), k = Len(s) \/ s[k + 1] < t[k + 1] PROVE Before(s, t)
    <2>1. SubSeq(s, 1, (k + 1) - 1) = SubSeq(t, 1, (k + 1) - 1)
      OBVIOUS
    <2>2. k + 1 \in 1 .. Len(t) /\ k + 1 <= Len(s) + 1
      BY <1>1, <1>2
    <2>3. k + 1 = Len(s) + 1 \/ (k + 1 <= Len(s) /\ s[k + 1] < t[k + 1])
      BY <1>1, <1>2
    <2>4. QED
      BY <2>1, <2>2, <2>3 DEF Before
  <1>3. ASSUME Before(s, t) PROVE k < Len(t) /\ (k = Len(s) \/ s[k + 1] < t[k + 1])
    <2>1. PICK i \in 1 .. Len(t) :
             /\ i <= Len(s) + 1
             /\ SubSeq(s, 1, i - 1) = SubSeq(t, 1, i - 1)
             /\ i = Len(s) + 1 \/ (i <= Len(s) /\ s[i] < t[i])
      BY <1>3 DEF Before
    <2>2. ASSUME NEW j \in 1 .. i - 1 PROVE s[j] = t[j]
      <3>1. SubSeq(s, 1, i - 1)[j] = s[j] /\ SubSeq(t, 1, i - 1)[j] = t[j]
        BY <1>1, <2>1
      <3>2. QED
        BY <2>1, <3>1
    <2>3. \A j \in 1 .. Len(s) : s[j] \in Int
      OBVIOUS
    <2>4. ~(i - 1 > k)
      <3>1. SUFFICES ASSUME i - 1 > k PROVE FALSE
        OBVIOUS
      <3>2. k + 1 \in 1 .. i - 1 /\ k < Len(s) /\ k < Len(t)
        BY <1>1, <2>1, <3>1
      <3>3. s[k + 1] = t[k + 1]
        BY <2>2, <3>2
      <3>4. QED
        BY <3>2, <3>3
    <2>5. ~(i <= k)
      <3>1. SUFFICES ASSUME i <= k PROVE FALSE
        OBVIOUS
      <3>2. i <= Len(s) /\ s[i] = t[i] /\ s[i] < t[i] /\ s[i] \in Int
        BY <1>1, <2>1, <2>3, <3>1
      <3>3. QED
        BY <3>2
    <2>6. i = k + 1
      BY <2>1, <2>4, <2>5
    <2>7. QED
      BY <1>1, <2>1, <2>6
  <1>4. QED
    BY <1>2, <1>3

MemoryOK == mem \in [Addr -> Byte]

LEMMA BytesFacts ==
    ASSUME MemoryOK, NEW p \in Addr, NEW k \in Nat
    PROVE  /\ Bytes(p, k) \in Seq(Int) /\ Len(Bytes(p, k)) = k
           /\ \A i \in 1 .. k : Bytes(p, k)[i] = At(p + i - 1)
           /\ \A q \in Int : At(q) \in Byte
  <1>1. \A q \in Int : At(q) \in Byte
    BY ByteFacts DEF At, MemoryOK
  <1>2. \A i \in 1 .. k : At(p + i - 1) \in Int
    <2>1. p \in Int
      BY Widths DEF Addr
    <2>2. \A i \in 1 .. k : p + i - 1 \in Int
      BY <2>1
    <2>3. \A i \in 1 .. k : At(p + i - 1) \in Byte
      BY <1>1, <2>2
    <2>4. QED
      BY <2>3 DEF Byte
  <1>3. Bytes(p, k) \in [1 .. k -> Int]
    BY <1>2 DEF Bytes
  <1>4. QED
    BY <1>1, <1>3 DEF Bytes

(* The difference of the bytes at which a comparison of two strings, or of *)
(* their first n characters, comes to its end has the sign the order of    *)
(* the strings gives it.                                                   *)
LEMMA DifferenceOrders ==
    ASSUME MemoryOK, NEW p \in Addr, NEW q \in Addr, NEW n \in Nat,
           NEW a \in Nat, Ends(p, n, a), NEW b \in Nat, Ends(q, n, b),
           NEW k \in Nat, \A j \in 0 .. k - 1 : Matches(p, q, j),
           k < n, Matches(p, q, k) => k + 1 = n
    PROVE  Orders(Difference(p, q, k), Chars(p, n), Chars(q, n))
  <1> DEFINE s == Bytes(p, a)
             t == Bytes(q, b)
             x == At(p + k)
             y == At(q + k)
  <1>1. Chars(p, n) = s /\ Chars(q, n) = t
    BY CharsAre
  <1>2. /\ s \in Seq(Int) /\ Len(s) = a /\ \A i \in 1 .. a : s[i] = At(p + i - 1)
        /\ t \in Seq(Int) /\ Len(t) = b /\ \A i \in 1 .. b : t[i] = At(q + i - 1)
    <2>1. /\ Bytes(p, a) \in Seq(Int) /\ Len(Bytes(p, a)) = a
          /\ \A i \in 1 .. a : Bytes(p, a)[i] = At(p + i - 1)
      BY BytesFacts
    <2>2. /\ Bytes(q, b) \in Seq(Int) /\ Len(Bytes(q, b)) = b
          /\ \A i \in 1 .. b : Bytes(q, b)[i] = At(q + i - 1)
      BY BytesFacts
    <2>3. QED
      BY <2>1, <2>2
  <1>3. x \in Nat /\ y \in Nat /\ p \in Nat /\ q \in Nat /\ MemSize \in Nat
    <2>1. p \in Nat /\ q \in Nat /\ MemSize \in Nat
      BY Widths DEF Addr
    <2>2. p + k \in Int /\ q + k \in Int
      BY <2>1
    <2>3. x \in Byte /\ y \in Byte
      BY <2>2, BytesFacts
    <2>4. QED
      BY <2>1, <2>3, ByteFacts
  <1>4. /\ \A j \in 0 .. a - 1 : p + j \in Addr /\ At(p + j) # NUL
        /\ \A j \in 0 .. b - 1 : q + j \in Addr /\ At(q + j) # NUL
        /\ a = n \/ At(p + a) = NUL
        /\ b = n \/ At(q + b) = NUL
        /\ a <= n /\ b <= n
    BY <1>3 DEF Ends, At, Addr
  <1>5. k <= a
    <2>1. SUFFICES ASSUME a < k PROVE FALSE
      BY <1>3
    <2>2. Matches(p, q, a) /\ At(p + a) = NUL
      BY <1>3, <1>4, <2>1
    <2>3. QED
      BY <2>2 DEF Matches
  <1>6. k <= b
    <2>1. SUFFICES ASSUME b < k PROVE FALSE
      BY <1>3
    <2>2. Matches(p, q, b) /\ At(q + b) = NUL
      BY <1>3, <1>4, <2>1
    <2>3. QED
      BY <2>2 DEF Matches
  <1>7. /\ k < a => s[k + 1] = x /\ x # NUL
        /\ k < b => t[k + 1] = y /\ y # NUL
        /\ k = a => x = NUL
        /\ k = b => y = NUL
    <2>1. k \in 0 .. n - 1 /\ p + (k + 1) - 1 = p + k /\ q + (k + 1) - 1 = q + k
      BY <1>3
    <2>2. ASSUME k < a PROVE s[k + 1] = x /\ x # NUL
      <3>1. k + 1 \in 1 .. a /\ k \in 0 .. a - 1
        BY <2>2
      <3>2. s[k + 1] = At(p + (k + 1) - 1)
        BY <1>2, <3>1
      <3>3. QED
        BY <1>4, <2>1, <3>1, <3>2
    <2>3. ASSUME k < b PROVE t[k + 1] = y /\ y # NUL
      <3>1. k + 1 \in 1 .. b /\ k \in 0 .. b - 1
        BY <2>3
      <3>2. t[k + 1] = At(q + (k + 1) - 1)
        BY <1>2, <3>1
      <3>3. QED
        BY <1>4, <2>1, <3>1, <3>2
    <2>4. k = a => x = NUL
      BY <1>4
    <2>5. k = b => y = NUL
      BY <1>4
    <2>6. QED
      BY <2>2, <2>3, <2>4, <2>5
  <1>8. \A i \in 1 .. k : s[i] = t[i]
    <2>1. SUFFICES ASSUME NEW i \in 1 .. k PROVE s[i] = t[i]
      OBVIOUS
    <2>2. Matches(p, q, i - 1) /\ p + (i - 1) = p + i - 1 /\ q + (i - 1) = q + i - 1
      BY <1>3
    <2>3. At(p + i - 1) = At(q + i - 1)
      BY <2>2 DEF Matches
    <2>4. s[i] = At(p + i - 1) /\ t[i] = At(q + i - 1)
      BY <1>2, <1>5, <1>6
    <2>5. QED
      BY <2>3, <2>4
  <1> HIDE DEF s, t, x, y
  <1>9. CASE ~Matches(p, q, k)
    <2>1. k = a \/ k = b \/ s[k + 1] # t[k + 1]
      BY <1>5, <1>6, <1>7, <1>9 DEF Matches, x, y
    <2>2. /\ Before(s, t) <=> k < b /\ (k = a \/ s[k + 1] < t[k + 1])
          /\ Before(t, s) <=> k < a /\ (k = b \/ t[k + 1] < s[k + 1])
      BY <1>2, <1>5, <1>6, <1>8, <2>1, BeforeIs
    <2>3. Before(s, t) <=> x < y
      BY <1>3, <1>5, <1>6, <1>7, <2>2 DEF NUL
    <2>4. Before(t, s) <=> y < x
      BY <1>3, <1>5, <1>6, <1>7, <2>2 DEF NUL
    <2>5. QED
      BY <1>1, <1>3, <2>3, <2>4 DEF Orders, Difference, x, y
  <1>10. CASE Matches(p, q, k)
    <2>1. x = y /\ x # NUL /\ y # NUL /\ k + 1 = n
      BY <1>10 DEF Matches, x, y
    <2>2. a = n /\ b = n
      BY <1>4, <1>5, <1>6, <1>7, <2>1
    <2>3. \A i \in 1 .. n : s[i] = t[i]
      <3>1. s[n] = t[n]
        BY <1>7, <2>1, <2>2
      <3>2. QED
        BY <1>8, <2>1, <3>1
    <2>4. ~Before(s, t) /\ ~Before(t, s)
      <3>1. s \in Seq(Int) /\ t \in Seq(Int) /\ n \in Nat /\ Len(s) = n /\ Len(t) = n
        BY <1>2, <2>2
      <3>2. Before(s, t) <=> n < Len(t) /\ (n = Len(s) \/ s[n + 1] < t[n + 1])
        <4>1. n <= Len(s) /\ n <= Len(t) /\ n = Len(s) /\ \A i \in 1 .. n : s[i] = t[i]
          BY <2>3, <3>1
        <4>2. QED
          BY <3>1, <4>1, BeforeIs, Zenon
      <3>3. Before(t, s) <=> n < Len(s) /\ (n = Len(t) \/ t[n + 1] < s[n + 1])
        <4>1. n <= Len(t) /\ n <= Len(s) /\ n = Len(t) /\ \A i \in 1 .. n : t[i] = s[i]
          BY <2>3, <3>1
        <4>2. QED
          BY <3>1, <4>1, BeforeIs, Zenon
      <3>4. QED
        BY <3>1, <3>2, <3>3
    <2>5. QED
      BY <1>1, <1>3, <2>1, <2>4 DEF Orders, Difference, x, y
  <1>11. QED
    BY <1>9, <1>10

-----------------------------------------------------------------------------
(* The calls. *)

(* What a call is held to: it reads what is there, and does what the       *)
(* standard says.                                                          *)
Correct ==
    /\ call'.read \subseteq Addr
    /\ Promised(call'.fn, call'.args, call'.value)
    /\ mem' = [p \in Addr |-> Stored(call'.fn, call'.args, p)]

LEMMA StoredNothing ==
    ASSUME MemoryOK, NEW fn, fn \notin {"memcpy", "memset"}, NEW a
    PROVE  mem = [p \in Addr |-> Stored(fn, a, p)]
  BY DEF MemoryOK, Stored

LEMMA SpanFacts ==
    ASSUME NEW p \in Addr, NEW k \in Nat, p + k <= MemSize
    PROVE  Span(p, k) \subseteq Addr
  BY Widths DEF Span, Addr

LEMMA AbsCorrect ==
    ASSUME MemoryOK, NEW i \in Int, x_lib_abs(i)
    PROVE  Correct
  <1>1. /\ call' = [fn |-> "abs", args |-> <<i>>, value |-> <<IF i >= 0 THEN i ELSE -i>>, read |-> {}]
        /\ mem' = mem
    BY DEF x_lib_abs, Return
  <1>2. Promised("abs", <<i>>, <<IF i >= 0 THEN i ELSE -i>>)
    BY DEF Promised
  <1>3. QED
    BY <1>1, <1>2, StoredNothing DEF Correct

LEMMA MemcpyCorrect ==
    ASSUME MemoryOK, NEW dest \in Addr, NEW src \in Addr, NEW size \in Size,
           x_lib_memcpy(dest, src, size)
    PROVE  Correct
  <1>1. /\ call' = [fn |-> "memcpy", args |-> <<dest, src, size>>, value |-> <<dest>>,
                    read |-> Span(src, size)]
        /\ mem' = [p \in Addr |-> IF p \in Span(dest, size) THEN mem[p - dest + src] ELSE mem[p]]
        /\ src + size <= MemSize
    BY DEF x_lib_memcpy, Return, IsBlock
  <1>2. Span(src, size) \subseteq Addr
    BY <1>1, SpanFacts, Widths DEF Size
  <1>3. Promised("memcpy", <<dest, src, size>>, <<dest>>)
    BY DEF Promised
  <1>4. mem' = [p \in Addr |-> Stored("memcpy", <<dest, src, size>>, p)]
    BY <1>1 DEF Stored
  <1>5. QED
    BY <1>1, <1>2, <1>3, <1>4 DEF Correct

LEMMA MemsetCorrect ==
    ASSUME MemoryOK, NEW dest \in Addr, NEW byte \in Int, NEW size \in Size,
           x_lib_memset(dest, byte, size)
    PROVE  Correct
  <1>1. /\ call' = [fn |-> "memset", args |-> <<dest, byte, size>>, value |-> <<dest>>,
                    read |-> {}]
        /\ mem' = [p \in Addr |-> IF p \in Span(dest, size) THEN UChar(byte) ELSE mem[p]]
    BY DEF x_lib_memset, Return
  <1>2. Promised("memset", <<dest, byte, size>>, <<dest>>)
    BY DEF Promised
  <1>3. mem' = [p \in Addr |-> IF p \in Span(dest, size) THEN UChar(byte) ELSE mem[p]]
    BY <1>1
  <1>4. mem' = [p \in Addr |-> Stored("memset", <<dest, byte, size>>, p)]
    <2>1. \A p \in Addr : Stored("memset", <<dest, byte, size>>, p)
                            = IF p \in Span(dest, size) THEN UChar(byte) ELSE mem[p]
      BY DEF Stored
    <2>2. QED
      BY <1>3, <2>1
  <1>5. QED
    BY <1>1, <1>2, <1>4 DEF Correct

(* A loop that looks for the end of a string comes to it. *)
LEMMA StringEnds ==
    ASSUME MemoryOK, NEW p \in Addr, IsString(p)
    PROVE  \E k \in 0 .. MemSize :
              Ends(p, MemSize, k) /\ p + k \in Addr /\ mem[p + k] = NUL
  <1>1. MemSize \in Nat /\ IsView(p, MemSize) /\ MemSize \in 0 .. MemSize
    BY Widths DEF IsView
  <1>2. PICK k \in 0 .. MemSize : Ends(p, MemSize, k)
    BY <1>1, ViewEnds
  <1>3. CASE k = MemSize
    <2>1. p = 0
      BY <1>1, <1>2, <1>3 DEF Ends, Addr
    <2>2. PICK q \in Addr : mem[q] = NUL
      BY DEF IsString
    <2>3. q \in 0 .. k - 1 /\ p + q = q
      BY <1>1, <1>3, <2>1 DEF Addr
    <2>4. QED
      BY <1>2, <2>2, <2>3 DEF Ends
  <1>4. CASE k # MemSize
    BY <1>2, <1>4 DEF Ends
  <1>5. QED
    BY <1>3, <1>4

LEMMA StrlenCorrect ==
    ASSUME MemoryOK, NEW s \in Addr, x_lib_strlen(s)
    PROVE  Correct
  <1> DEFINE k == Iterations(LAMBDA j : At(s + j) # NUL)
  <1>1. PICK n \in 0 .. MemSize : Ends(s, MemSize, n) /\ s + n \in Addr /\ mem[s + n] = NUL
    BY StringEnds DEF x_lib_strlen
  <1>2. /\ MemSize \in Nat /\ s \in Nat /\ n \in Nat
        /\ \A j \in 0 .. n : s + j \in Addr /\ At(s + j) = mem[s + j]
    BY <1>1, Widths DEF Addr, At
  <1>3. At(s + n) = NUL /\ \A j \in 0 .. n - 1 : At(s + j) # NUL
    BY <1>1, <1>2 DEF Ends
  <1>4. k = n
    <2> DEFINE Stops(i) == ~(At(s + i) # NUL) /\ \A j \in 0 .. i - 1 : At(s + j) # NUL
    <2>1. k = CHOOSE i \in 0 .. MemSize : Stops(i)
      BY DEF Iterations
    <2>2. Stops(n)
      BY <1>3
    <2>3. ASSUME NEW i \in 0 .. MemSize, Stops(i) PROVE i = n
      <3>1. ~(i < n) /\ ~(n < i)
        BY <1>2, <1>3, <2>3
      <3>2. QED
        BY <1>2, <3>1
    <2> HIDE DEF Stops, k
    <2>4. QED
      BY <2>1, <2>2, <2>3
  <1> HIDE DEF k
  <1>5. /\ call' = [fn |-> "strlen", args |-> <<s>>, value |-> <<n>>, read |-> Span(s, n + 1)]
        /\ mem' = mem
    BY <1>4 DEF x_lib_strlen, Return, k
  <1>6. Promised("strlen", <<s>>, <<n>>)
    <2>1. Len(String(s)) = n
      BY <1>1, <1>2, CharsAre, BytesFacts DEF String
    <2>2. QED
      BY <2>1 DEF Promised
  <1>7. Span(s, n + 1) \subseteq Addr
    BY <1>1, <1>2, SpanFacts DEF Addr
  <1>8. QED
    BY <1>5, <1>6, <1>7, StoredNothing DEF Correct

LEMMA StrchrCorrect ==
    ASSUME MemoryOK, NEW s \in Addr, NEW c \in Int, x_lib_strchr(s, c)
    PROVE  Correct
  <1> DEFINE k == Iterations(LAMBDA j : At(s + j) # NUL /\ Char(At(s + j)) # Char(c))
             T == {j \in 0 .. MemSize : ~(At(s + j) # NUL /\ Char(At(s + j)) # Char(c))}
             hits == {p \in Span(s, Len(String(s)) + 1) : UChar(mem[p]) = UChar(c)}
             value == IF Char(At(s + k)) = Char(c) THEN <<s + k>> ELSE NULL
  <1>1. PICK n \in 0 .. MemSize : Ends(s, MemSize, n) /\ s + n \in Addr /\ mem[s + n] = NUL
    BY StringEnds DEF x_lib_strchr
  <1>2. /\ MemSize \in Nat /\ s \in Nat /\ n \in Nat
        /\ \A j \in 0 .. n : s + j \in Addr /\ At(s + j) = mem[s + j]
    BY <1>1, Widths DEF Addr, At
  <1>3. At(s + n) = NUL /\ \A j \in 0 .. n - 1 : At(s + j) # NUL
    BY <1>1, <1>2 DEF Ends
  <1>4. n \in T
    BY <1>3
  <1>5. PICK m \in T : \A j \in 0 .. m - 1 : j \notin T
    <2>1. T \subseteq 0 .. MemSize
      OBVIOUS
    <2> HIDE DEF T
    <2>2. QED
      BY <1>4, <2>1, FirstOf
  <1>6. m <= n
    BY <1>2, <1>4, <1>5
  <1>7. \A j \in 0 .. m - 1 : At(s + j) # NUL /\ Char(At(s + j)) # Char(c)
    BY <1>2, <1>5, <1>6
  <1>8. k = m
    <2> DEFINE Goes(j) == At(s + j) # NUL /\ Char(At(s + j)) # Char(c)
               Stops(i) == ~Goes(i) /\ \A j \in 0 .. i - 1 : Goes(j)
    <2>1. k = CHOOSE i \in 0 .. MemSize : Stops(i)
      BY DEF Iterations
    <2>2. Stops(m)
      BY <1>5, <1>7
    <2>3. ASSUME NEW i \in 0 .. MemSize, Stops(i) PROVE i = m
      <3>1. ~(i < m) /\ ~(m < i)
        BY <1>2, <2>2, <2>3
      <3>2. QED
        BY <1>2, <3>1
    <2> HIDE DEF Stops, k
    <2>4. QED
      BY <2>1, <2>2, <2>3
  <1> HIDE DEF k
  <1>9. /\ call' = [fn |-> "strchr", args |-> <<s, c>>, value |-> value,
                    read |-> Span(s, m + 1)]
        /\ mem' = mem
    BY <1>8 DEF x_lib_strchr, Return, k
  <1>10. Span(s, Len(String(s)) + 1) = Span(s, n + 1)
    <2>1. Len(String(s)) = n
      BY <1>1, <1>2, CharsAre, BytesFacts DEF String
    <2>2. QED
      BY <2>1
  <1>11. ASSUME NEW p \in Addr PROVE UChar(mem[p]) = UChar(c) <=> Char(mem[p]) = Char(c)
    <2>1. mem[p] \in Int
      BY DEF MemoryOK, Byte
    <2>2. QED
      BY <2>1, ByteFacts
  <1>12. Promised("strchr", <<s, c>>, value)
    <2>1. /\ hits \subseteq Addr
          /\ \A p \in hits : p >= s + m
      <3>1. SUFFICES ASSUME NEW p \in hits PROVE p \in Addr /\ p >= s + m
        OBVIOUS
      <3>2. p - s \in 0 .. n /\ s + (p - s) = p
        BY <1>2, <1>10 DEF Span
      <3>3. p \in Addr /\ At(p) = mem[p] /\ Char(mem[p]) = Char(c)
        BY <1>2, <1>11, <3>2
      <3>4. ~(p - s < m)
        BY <1>7, <3>2, <3>3
      <3>5. QED
        BY <1>2, <3>2, <3>3, <3>4
    <2>2. CASE Char(At(s + m)) = Char(c)
      <3>1. s + m \in hits
        BY <1>2, <1>6, <1>10, <1>11, <2>2 DEF Span
      <3>2. value = <<s + m>>
        BY <1>8, <2>2
      <3> HIDE DEF hits, value
      <3>3. QED
        BY <2>1, <3>1, <3>2 DEF Promised, hits
    <2>3. CASE Char(At(s + m)) # Char(c)
      <3>1. At(s + m) = NUL /\ m = n
        BY <1>2, <1>3, <1>5, <1>6, <2>3
      <3>2. hits = {}
        <4>1. SUFFICES ASSUME NEW p \in hits PROVE FALSE
          OBVIOUS
        <4>2. p \in Span(s, n + 1) /\ p >= s + n
          BY <1>10, <2>1, <3>1
        <4>3. p = s + n
          BY <1>2, <4>2 DEF Span
        <4>4. QED
          BY <1>2, <1>11, <2>3, <3>1, <4>3
      <3>3. value = NULL
        BY <1>8, <2>3
      <3> HIDE DEF hits, value
      <3>4. QED
        BY <3>2, <3>3 DEF Promised, hits
    <2>4. QED
      BY <2>2, <2>3
  <1>13. Span(s, m + 1) \subseteq Addr
    BY <1>1, <1>2, <1>6, SpanFacts DEF Addr
  <1>14. QED
    BY <1>9, <1>12, <1>13, StoredNothing DEF Correct

LEMMA StrcmpCorrect ==
    ASSUME MemoryOK, NEW p \in Addr, NEW q \in Addr, x_lib_strcmp(p, q)
    PROVE  Correct
  <1> DEFINE k == Iterations(LAMBDA j : Matches(p, q, j))
             T == {j \in 0 .. MemSize : ~Matches(p, q, j)}
  <1>1. PICK a \in 0 .. MemSize : Ends(p, MemSize, a) /\ p + a \in Addr /\ mem[p + a] = NUL
    BY StringEnds DEF x_lib_strcmp
  <1>2. PICK b \in 0 .. MemSize : Ends(q, MemSize, b) /\ q + b \in Addr /\ mem[q + b] = NUL
    BY StringEnds DEF x_lib_strcmp
  <1>3. MemSize \in Nat /\ p \in Nat /\ q \in Nat /\ a \in Nat /\ b \in Nat
    BY Widths DEF Addr
  <1>4. a \in T /\ b \in T
    BY <1>1, <1>2 DEF Matches, At
  <1>5. PICK m \in T : \A j \in 0 .. m - 1 : j \notin T
    <2>1. T \subseteq 0 .. MemSize
      OBVIOUS
    <2> HIDE DEF T
    <2>2. QED
      BY <1>4, <2>1, FirstOf
  <1>6. m \in Nat /\ m <= a /\ m <= b
    BY <1>3, <1>4, <1>5
  <1>7. ~Matches(p, q, m) /\ \A j \in 0 .. m - 1 : Matches(p, q, j)
    BY <1>3, <1>5, <1>6
  <1>8. k = m
    <2> DEFINE Stops(i) == ~Matches(p, q, i) /\ \A j \in 0 .. i - 1 : Matches(p, q, j)
    <2>1. k = CHOOSE i \in 0 .. MemSize : Stops(i)
      BY DEF Iterations
    <2>2. Stops(m)
      BY <1>7
    <2>3. ASSUME NEW i \in 0 .. MemSize, Stops(i) PROVE i = m
      <3>1. ~(i < m) /\ ~(m < i)
        BY <1>6, <1>7, <2>3
      <3>2. QED
        BY <1>6, <3>1
    <2> HIDE DEF Stops, k
    <2>4. QED
      BY <1>5, <2>1, <2>2, <2>3
  <1> HIDE DEF k
  <1>9. /\ call' = [fn |-> "strcmp", args |-> <<p, q>>, value |-> <<Difference(p, q, m)>>,
                    read |-> Span(p, m + 1) \cup Span(q, m + 1)]
        /\ mem' = mem
    BY <1>8 DEF x_lib_strcmp, Return, k
  <1>10. Orders(Difference(p, q, m), String(p), String(q))
    <2>1. m < MemSize
      <3>1. ~(a = MemSize /\ b = MemSize) \/ m < MemSize
        <4>1. SUFFICES ASSUME a = MemSize PROVE FALSE
          BY <1>3, <1>6
        <4>2. QED
          BY <1>1, <1>3, <4>1 DEF Addr, Ends
      <3>2. QED
        BY <1>1, <1>3, <1>6, <3>1 DEF Addr
    <2>2. QED
      BY <1>1, <1>2, <1>3, <1>6, <1>7, <2>1, DifferenceOrders DEF String
  <1>11. Promised("strcmp", <<p, q>>, <<Difference(p, q, m)>>)
    BY <1>10 DEF Promised
  <1>12. Span(p, m + 1) \subseteq Addr /\ Span(q, m + 1) \subseteq Addr
    BY <1>1, <1>2, <1>3, <1>6, SpanFacts DEF Addr
  <1>13. QED
    BY <1>9, <1>11, <1>12, StoredNothing DEF Correct

(* After j + 1 decrements of a size n there is nothing left just if n is   *)
(* j + 1, as long as it does not wrap.                                     *)
LEMMA DecrementedFacts ==
    ASSUME NEW n \in Size, NEW j \in Nat, j < n
    PROVE  Decremented(n, j + 1) # 0 <=> j + 1 # n
  <1> DEFINE V == SizeValues
  <1>1. V \in Nat /\ n \in Nat /\ n < V
    BY Widths DEF Size
  <1> HIDE DEF V
  <1>2. n - (j + 1) \in 0 .. V - 1
    BY <1>1
  <1>3. (n - (j + 1)) % V = n - (j + 1)
    BY <1>1, <1>2
  <1>4. Decremented(n, j + 1) = n - (j + 1)
    BY <1>3 DEF Decremented, V
  <1>5. QED
    BY <1>1, <1>4

(* No strings of no characters come before each other. *)
LEMMA NothingOrders ==
    ASSUME NEW p \in Addr, NEW q \in Addr
    PROVE  Orders(0, Chars(p, 0), Chars(q, 0))
  <1>1. Ends(p, 0, 0) /\ Ends(q, 0, 0)
    BY Widths DEF Ends, Addr
  <1>2. Chars(p, 0) = Bytes(p, 0) /\ Chars(q, 0) = Bytes(q, 0)
    BY <1>1, CharsAre
  <1>3. Len(Bytes(p, 0)) = 0 /\ Len(Bytes(q, 0)) = 0
    BY DEF Bytes
  <1>4. ~Before(Chars(p, 0), Chars(q, 0)) /\ ~Before(Chars(q, 0), Chars(p, 0))
    BY <1>2, <1>3 DEF Before
  <1>5. QED
    BY <1>4 DEF Orders

LEMMA StrncmpCorrect ==
    ASSUME MemoryOK, NEW p \in Addr, NEW q \in Addr, NEW n \in Size, x_lib_strncmp(p, q, n)
    PROVE  Correct
  <1> DEFINE Goes(j) == Decremented(n, j + 1) # 0 /\ Matches(p, q, j)
             k == Iterations(LAMBDA j : Decremented(n, j + 1) # 0 /\ Matches(p, q, j))
             T == {j \in 0 .. MemSize : ~Goes(j)}
  <1>1. PICK a \in 0 .. MemSize : Ends(p, n, a)
    BY ViewEnds DEF x_lib_strncmp, Size
  <1>2. PICK b \in 0 .. MemSize : Ends(q, n, b)
    BY ViewEnds DEF x_lib_strncmp, Size
  <1>3. MemSize \in Nat /\ p \in Nat /\ q \in Nat /\ a \in Nat /\ b \in Nat /\ n \in Nat
    BY Widths DEF Addr, Size
  <1>4. CASE n = 0
    <2>1. /\ call' = [fn |-> "strncmp", args |-> <<p, q, n>>, value |-> <<0>>, read |-> {}]
          /\ mem' = mem
      BY <1>4 DEF x_lib_strncmp, Return
    <2>2. Promised("strncmp", <<p, q, n>>, <<0>>)
      BY <1>4, NothingOrders DEF Promised
    <2>3. QED
      BY <2>1, <2>2, StoredNothing DEF Correct
  <1>5. CASE n # 0
    <2>1. n - 1 \in T
      <3>1. n - 1 \in Nat /\ n - 1 < n /\ (n - 1) + 1 = n /\ n - 1 \in 0 .. MemSize
        BY <1>3, <1>5 DEF Size
      <3>2. Decremented(n, (n - 1) + 1) = 0
        BY <3>1, DecrementedFacts
      <3>3. QED
        BY <3>1, <3>2
    <2>2. PICK m \in T : \A j \in 0 .. m - 1 : j \notin T
      <3>1. T \subseteq 0 .. MemSize
        OBVIOUS
      <3> HIDE DEF T
      <3>2. QED
        BY <2>1, <3>1, FirstOf
    <2>3. m \in Nat /\ m < n
      BY <1>3, <2>1, <2>2
    <2>4. ~Goes(m) /\ \A j \in 0 .. m - 1 : Goes(j)
      BY <1>3, <2>2, <2>3
    <2>5. k = m
      <3> DEFINE Stops(i) == ~Goes(i) /\ \A j \in 0 .. i - 1 : Goes(j)
      <3>1. k = CHOOSE i \in 0 .. MemSize : Stops(i)
        BY DEF Iterations
      <3>2. Stops(m)
        BY <2>4
      <3>3. ASSUME NEW i \in 0 .. MemSize, Stops(i) PROVE i = m
        <4> HIDE DEF Goes
        <4>1. ~(i < m) /\ ~(m < i)
          BY <2>3, <2>4, <3>3
        <4>2. QED
          BY <2>3, <4>1
      <3> HIDE DEF Stops, k
      <3>4. QED
        BY <2>2, <3>1, <3>2, <3>3
    <2> HIDE DEF k
    <2>6. /\ call' = [fn |-> "strncmp", args |-> <<p, q, n>>, value |-> <<Difference(p, q, m)>>,
                      read |-> Span(p, m + 1) \cup Span(q, m + 1)]
          /\ mem' = mem
      BY <1>5, <2>5 DEF x_lib_strncmp, Return, k
    <2>7. Matches(p, q, m) => m + 1 = n
      BY <2>3, <2>4, DecrementedFacts
    <2>8. Orders(Difference(p, q, m), Chars(p, n), Chars(q, n))
      <3>1. \A j \in 0 .. m - 1 : Matches(p, q, j)
        BY <2>4
      <3>2. QED
        BY <1>1, <1>2, <1>3, <2>3, <2>7, <3>1, DifferenceOrders
    <2>9. Promised("strncmp", <<p, q, n>>, <<Difference(p, q, m)>>)
      BY <2>8 DEF Promised
    <2>10. ASSUME NEW r \in Addr, NEW c \in Nat, Ends(r, n, c),
                  \A j \in 0 .. m - 1 : At(r + j) # NUL
           PROVE  Span(r, m + 1) \subseteq Addr
      <3>1. r \in Nat /\ c \in 0 .. n /\ r + c <= MemSize
        BY <2>10, Widths DEF Ends, Addr
      <3>2. m <= c
        <4>1. SUFFICES ASSUME c < m PROVE FALSE
          BY <2>3, <3>1
        <4>2. r + c \in Addr /\ mem[r + c] = NUL
          BY <2>3, <2>10, <4>1 DEF Ends
        <4>3. At(r + c) = NUL
          BY <4>2 DEF At
        <4>4. QED
          BY <2>3, <2>10, <3>1, <4>1, <4>3
      <3>3. r + (m + 1) <= MemSize
        <4>1. CASE m < c
          BY <1>3, <2>3, <3>1, <4>1
        <4>2. CASE m = c
          <5>1. r + c \in Addr
            BY <2>3, <2>10, <4>2 DEF Ends
          <5>2. QED
            BY <1>3, <3>1, <4>2, <5>1 DEF Addr
        <4>3. QED
          BY <2>3, <3>1, <3>2, <4>1, <4>2
      <3>4. QED
        BY <2>3, <3>3, SpanFacts
    <2>11. Span(p, m + 1) \subseteq Addr /\ Span(q, m + 1) \subseteq Addr
      <3>1. \A j \in 0 .. m - 1 : At(p + j) # NUL /\ At(q + j) # NUL
        BY <2>4 DEF Matches
      <3>2. QED
        BY <1>1, <1>2, <1>3, <2>10, <3>1
    <2>12. QED
      BY <2>6, <2>9, <2>11, StoredNothing DEF Correct
  <1>6. QED
    BY <1>4, <1>5

LEMMA StrndupCorrect ==
    ASSUME MemoryOK, NEW s \in Addr, NEW size \in Size, NEW malloced \in BOOLEAN,
           x_lib_strndup(s, size, malloced)
    PROVE  Correct
  <1> DEFINE k == Iterations(LAMBDA j : j < size /\ At(s + j) # NUL)
             value == IF malloced THEN Bytes(s, k) \o <<NUL>> ELSE NULL
  <1>1. PICK n \in 0 .. MemSize : Ends(s, size, n)
    BY ViewEnds DEF x_lib_strndup, Size
  <1>2. MemSize \in Nat /\ s \in Nat /\ n \in Nat /\ size \in Nat /\ n <= size /\ s + n <= MemSize
    BY <1>1, Widths DEF Addr, Size, Ends
  <1>3. /\ \A j \in 0 .. n - 1 : j < size /\ At(s + j) # NUL
        /\ ~(n < size /\ At(s + n) # NUL)
    <2>1. \A j \in 0 .. n - 1 : s + j \in Addr
      BY <1>2 DEF Addr
    <2>2. QED
      BY <1>1, <1>2, <2>1 DEF Ends, At
  <1>4. k = n
    <2> DEFINE Goes(j) == j < size /\ At(s + j) # NUL
               Stops(i) == ~Goes(i) /\ \A j \in 0 .. i - 1 : Goes(j)
    <2>1. k = CHOOSE i \in 0 .. MemSize : Stops(i)
      BY DEF Iterations
    <2>2. Stops(n)
      BY <1>3
    <2>3. ASSUME NEW i \in 0 .. MemSize, Stops(i) PROVE i = n
      <3> HIDE DEF Goes
      <3>1. ~(i < n) /\ ~(n < i)
        BY <1>2, <2>2, <2>3
      <3>2. QED
        BY <1>2, <3>1
    <2> HIDE DEF Stops, k
    <2>4. QED
      BY <2>1, <2>2, <2>3
  <1> HIDE DEF k
  <1>5. /\ call' = [fn |-> "strndup", args |-> <<s, size>>, value |-> value,
                    read |-> Span(s, IF n < size THEN n + 1 ELSE n)]
        /\ mem' = mem
    BY <1>4 DEF x_lib_strndup, Return, k
  <1>6. value \in {NULL, Append(Chars(s, size), NUL)}
    <2>1. Chars(s, size) = Bytes(s, n)
      BY <1>1, <1>2, CharsAre
    <2>2. Bytes(s, n) \in Seq(Int) /\ NUL \in Int
      BY <1>2, BytesFacts DEF NUL
    <2>3. Append(Bytes(s, n), NUL) = Bytes(s, n) \o <<NUL>>
      BY <2>2
    <2>4. QED
      BY <1>4, <2>1, <2>3
  <1>7. Promised("strndup", <<s, size>>, value)
    <2> HIDE DEF value
    <2>1. QED
      BY <1>6 DEF Promised
  <1>8. Span(s, IF n < size THEN n + 1 ELSE n) \subseteq Addr
    <2>1. CASE n < size
      <3>1. s + n \in Addr
        BY <1>1, <1>2, <2>1 DEF Ends
      <3>2. s + (n + 1) <= MemSize
        BY <1>2, <3>1 DEF Addr
      <3>3. QED
        BY <1>2, <2>1, <3>2, SpanFacts
    <2>2. CASE ~(n < size)
      BY <1>2, <2>2, SpanFacts
    <2>3. QED
      BY <2>1, <2>2
  <1>9. QED
    BY <1>5, <1>7, <1>8, StoredNothing DEF Correct

LEMMA MemdupCorrect ==
    ASSUME MemoryOK, NEW src, src = NULL \/ \E p \in Addr : src = <<p>>, NEW size \in Size,
           NEW malloced \in BOOLEAN, x_lib_memdup(src, size, malloced)
    PROVE  Correct
  <1>1. mem' = mem /\ size \in Nat /\ MemSize \in Nat
    BY Widths DEF x_lib_memdup, Size
  <1>2. CASE ~malloced
    <2>1. call' = [fn |-> "memdup", args |-> src \o <<size>>, value |-> NULL, read |-> {}]
      BY <1>2 DEF x_lib_memdup, Return
    <2>2. Promised("memdup", src \o <<size>>, NULL)
      BY DEF Promised
    <2>3. QED
      BY <1>1, <2>1, <2>2, StoredNothing DEF Correct
  <1>3. CASE malloced /\ src # NULL
    <2>1. PICK p \in Addr : src = <<p>>
      BY <1>3
    <2>2. p + size <= MemSize
      BY <1>3, <2>1 DEF x_lib_memdup, IsBlock
    <2> DEFINE args == <<p>> \o <<size>>
    <2>3. Len(args) = 2 /\ args[1] = p /\ args[2] = size
      <3>1. <<p>> \in Seq(Int) /\ <<size>> \in Seq(Int)
        BY <1>1, Widths DEF Addr
      <3>2. QED
        BY <3>1
    <2>4. call' = [fn |-> "memdup", args |-> args, value |-> Bytes(p, size),
                   read |-> Span(p, size)]
      BY <1>3, <2>1 DEF x_lib_memdup, Return
    <2> HIDE DEF args
    <2>5. Promised("memdup", args, Bytes(p, size))
      <3>1. Bytes(p, size) = Bytes(args[1], args[2])
        BY <2>3
      <3>2. QED
        BY <2>3, <3>1 DEF Promised
    <2>6. QED
      BY <1>1, <2>2, <2>4, <2>5, StoredNothing, SpanFacts DEF Correct
  <1>4. CASE malloced /\ src = NULL
    <2>1. PICK bytes \in [1 .. size -> Byte] : Return("memdup", <<size>>, bytes, {})
      BY <1>4 DEF x_lib_memdup
    <2>2. call' = [fn |-> "memdup", args |-> <<size>>, value |-> bytes, read |-> {}]
      BY <2>1 DEF Return
    <2>3. Len(bytes) = size
      BY <1>1
    <2>4. Promised("memdup", <<size>>, bytes)
      BY <2>3 DEF Promised
    <2>5. QED
      BY <1>1, <2>2, <2>4, StoredNothing DEF Correct
  <1>5. QED
    BY <1>2, <1>3, <1>4

(* The conversions of integers, which neither read nor write the memory;   *)
(* the standard does not know them.                                        *)
LEMMA TextCorrect ==
    ASSUME MemoryOK, TextNext
    PROVE  Correct
  <1>1. ASSUME NEW fn \in {"inttostr", "strtoint"}, NEW args, NEW value,
               Return(fn, args, value, {}), mem' = mem
        PROVE  Correct
    <2>1. call' = [fn |-> fn, args |-> args, value |-> value, read |-> {}]
      BY <1>1 DEF Return
    <2>2. Promised(fn, args, value)
      BY DEF Promised
    <2>3. QED
      BY <1>1, <2>1, <2>2, StoredNothing DEF Correct
  <1>2. ASSUME NEW num \in XInt, NEW base \in 0 .. 37, NEW p_str,
               x_lib_inttostr(num, p_str, base)
        PROVE  Correct
    BY <1>1, <1>2 DEF x_lib_inttostr
  <1>3. ASSUME NEW text \in Texts, NEW base \in Bases, x_lib_strtoint(text, base)
        PROVE  Correct
    BY <1>1, <1>3 DEF x_lib_strtoint
  <1> HIDE DEF Correct
  <1>4. QED
    BY <1>2, <1>3 DEF TextNext

LEMMA CallsAreCorrect ==
    ASSUME MemoryOK, LibNext, ~TakeValue
    PROVE  Correct
  <1>1. Int3 \subseteq Int
    BY Widths DEF Int3
  <1>2. CASE TextNext
    BY <1>2, TextCorrect
  <1>3. CASE \E i \in Int3 : x_lib_abs(i)
    BY <1>1, <1>3, AbsCorrect
  <1>4. CASE \E p \in Addr, c \in Int3 : x_lib_strchr(p, c)
    BY <1>1, <1>4, StrchrCorrect
  <1>5. CASE \E p \in Addr, c \in Int3, n \in Size : x_lib_memset(p, c, n)
    BY <1>1, <1>5, MemsetCorrect
  <1>6. CASE \E p \in Addr : x_lib_strlen(p)
    BY <1>6, StrlenCorrect
  <1>7. CASE \E p, q \in Addr : x_lib_strcmp(p, q)
    BY <1>7, StrcmpCorrect
  <1>8. CASE \E p, q \in Addr, n \in Size : x_lib_memcpy(p, q, n)
    BY <1>8, MemcpyCorrect
  <1>9. CASE \E p, q \in Addr, n \in Size : x_lib_strncmp(p, q, n)
    BY <1>9, StrncmpCorrect
  <1>10. CASE \E p \in Addr, n \in Size, ok \in BOOLEAN : x_lib_strndup(p, n, ok)
    BY <1>10, StrndupCorrect
  <1>11. CASE \E p \in Addr, n \in Size, ok \in BOOLEAN : x_lib_memdup(<<p>>, n, ok)
    BY <1>11, MemdupCorrect
  <1>12. CASE \E n \in Size, ok \in BOOLEAN : x_lib_memdup(NULL, n, ok)
    BY <1>12, MemdupCorrect
  <1>13. QED
    BY <1>2, <1>3, <1>4, <1>5, <1>6, <1>7, <1>8, <1>9, <1>10, <1>11, <1>12
       DEF LibNext, StdlibNext

(* What a call stores are bytes. *)
LEMMA StoresBytes ==
    ASSUME MemoryOK, LibNext
    PROVE  MemoryOK'
  <1>1. CASE mem' = mem
    BY <1>1 DEF MemoryOK
  <1>2. CASE \E p \in Addr, c \in Int3, n \in Size : x_lib_memset(p, c, n)
    <2>1. PICK dest \in Addr, c \in Int3, n \in Size : x_lib_memset(dest, c, n)
      BY <1>2
    <2>2. UChar(c) \in Byte
      BY Widths, ByteFacts DEF Int3
    <2>3. QED
      BY <2>1, <2>2 DEF MemoryOK, x_lib_memset
  <1>3. CASE \E p, q \in Addr, n \in Size : x_lib_memcpy(p, q, n)
    <2>1. PICK dest \in Addr, src \in Addr, n \in Size : x_lib_memcpy(dest, src, n)
      BY <1>3
    <2>2. \A p \in Span(dest, n) : p - dest + src \in Addr
      BY <2>1, Widths DEF x_lib_memcpy, IsBlock, Span, Addr, Size
    <2>3. QED
      BY <2>1, <2>2 DEF MemoryOK, x_lib_memcpy
  <1> DEFINE Stores == \/ mem' = mem
                       \/ \E p \in Addr, c \in Int3, n \in Size : x_lib_memset(p, c, n)
                       \/ \E p, q \in Addr, n \in Size : x_lib_memcpy(p, q, n)
  <1>4. Stores
    <2>1. CASE StdlibNext
      <3>1. CASE \E i \in Int3 : x_lib_abs(i)
        BY <3>1 DEF x_lib_abs
      <3>2. CASE \E n \in Size, ok \in BOOLEAN : x_lib_memdup(NULL, n, ok)
        BY <3>2 DEF x_lib_memdup
      <3>3. CASE TakeValue
        BY <3>3 DEF TakeValue
      <3>4. ASSUME NEW p \in Addr,
                   \/ \E c \in Int3 : x_lib_strchr(p, c) \/ \E n \in Size : x_lib_memset(p, c, n)
                   \/ x_lib_strlen(p)
                   \/ \E q \in Addr :
                         \/ x_lib_strcmp(p, q)
                         \/ \E n \in Size : x_lib_memcpy(p, q, n) \/ x_lib_strncmp(p, q, n)
                   \/ \E n \in Size, ok \in BOOLEAN :
                         x_lib_strndup(p, n, ok) \/ x_lib_memdup(<<p>>, n, ok)
            PROVE  Stores
        <4>1. CASE \E c \in Int3 : x_lib_strchr(p, c) \/ \E n \in Size : x_lib_memset(p, c, n)
          BY <4>1 DEF x_lib_strchr
        <4>2. CASE x_lib_strlen(p)
          BY <4>2 DEF x_lib_strlen
        <4>3. CASE \E q \in Addr :
                      \/ x_lib_strcmp(p, q)
                      \/ \E n \in Size : x_lib_memcpy(p, q, n) \/ x_lib_strncmp(p, q, n)
          BY <4>3 DEF x_lib_strcmp, x_lib_strncmp
        <4>4. CASE \E n \in Size, ok \in BOOLEAN :
                      x_lib_strndup(p, n, ok) \/ x_lib_memdup(<<p>>, n, ok)
          BY <4>4 DEF x_lib_strndup, x_lib_memdup
        <4>5. QED
          BY <3>4, <4>1, <4>2, <4>3, <4>4
      <3> HIDE DEF Stores
      <3>5. QED
        BY <2>1, <3>1, <3>2, <3>3, <3>4 DEF StdlibNext
    <2>2. CASE TextNext
      BY <2>2 DEF TextNext, x_lib_inttostr, x_lib_strtoint
    <2>3. QED
      BY <2>1, <2>2 DEF LibNext
  <1>5. QED
    BY <1>1, <1>2, <1>3, <1>4

-----------------------------------------------------------------------------
(* The memory holds bytes, and what the last call read is in it: the       *)
(* invariant of the specification.                                         *)
LibInv == MemoryOK /\ NoOverread

LEMMA LibInvHolds == LibSpec => []LibInv
  <1>1. Init => LibInv
    BY DEF Init, LibInv, MemoryOK, NoOverread, None
  <1>2. LibInv /\ [LibNext]_stdlibVars => LibInv'
    <2>1. ASSUME LibInv, LibNext, ~TakeValue PROVE LibInv'
      BY <2>1, CallsAreCorrect, StoresBytes DEF LibInv, Correct, NoOverread
    <2>2. ASSUME LibInv, LibNext, TakeValue PROVE LibInv'
      BY <2>2, StoresBytes DEF LibInv, TakeValue, None, NoOverread
    <2>3. ASSUME LibInv, UNCHANGED stdlibVars PROVE LibInv'
      BY <2>3 DEF LibInv, MemoryOK, NoOverread, stdlibVars
    <2>4. QED
      BY <2>1, <2>2, <2>3
  <1>3. QED
    BY <1>1, <1>2, PTL DEF LibSpec

(* No function of x-stdlib.c, and neither x_lib_memdup nor a conversion,   *)
(* reads behind the string or the block its caller gave it, whatever the   *)
(* memory, its size and the width of a byte and of size_t.                 *)
THEOREM NothingIsOverread == LibSpec => []NoOverread
  <1>1. LibInv => NoOverread
    BY DEF LibInv
  <1>2. QED
    BY <1>1, LibInvHolds, PTL

(* Each call of the freestanding functions returns what C99 (for strndup   *)
(* POSIX) says, and changes the memory as it says and nowhere else         *)
(* (x-stdlib.c:5-10).                                                      *)
THEOREM FreestandingAgrees == LibSpec => AgreesWithStandard
  <1>1. LibInv /\ [LibNext]_stdlibVars =>
           [call = None => /\ Promised(call'.fn, call'.args, call'.value)
                           /\ mem' = [p \in Addr |-> Stored(call'.fn, call'.args, p)]]_stdlibVars
    <2>1. ASSUME LibInv, LibNext, call = None
          PROVE  /\ Promised(call'.fn, call'.args, call'.value)
                 /\ mem' = [p \in Addr |-> Stored(call'.fn, call'.args, p)]
      <3>1. ~TakeValue
        BY <2>1 DEF TakeValue
      <3>2. QED
        BY <2>1, <3>1, CallsAreCorrect DEF LibInv, Correct
    <2>2. QED
      BY <2>1
  <1>2. QED
    BY <1>1, LibInvHolds, PTL DEF LibSpec, AgreesWithStandard

-----------------------------------------------------------------------------
(* Integers that wrap. *)

(* Numbers that differ by a multiple of m have the same remainder. *)
LEMMA SameRemainder ==
    ASSUME NEW m \in Nat \ {0}, NEW i \in Int, NEW k \in Int
    PROVE  (i + k * m) % m = i % m
  <1> DEFINE j == i + k * m
             p == i \div m
             q == j \div m
             t == q - p - k
  <1>1. p \in Int /\ q \in Int /\ j \in Int /\ t \in Int
    OBVIOUS
  <1>2. i = m * p + (i % m) /\ i % m \in 0 .. m - 1
    OBVIOUS
  <1>3. j = m * q + (j % m) /\ j % m \in 0 .. m - 1
    <2> HIDE DEF j
    <2>1. QED
      BY <1>1
  <1>4. (i % m) - (j % m) = m * t
    <2> DEFINE r == i % m
               s == j % m
    <2>1. r \in Int /\ s \in Int /\ i = m * p + r /\ i + k * m = m * q + s
      BY <1>2, <1>3
    <2> HIDE DEF p, q, r, s
    <2>2. m * (q - p - k) = m * q - m * p - k * m
      BY <1>1
    <2>3. r - s = m * (q - p - k)
      BY <1>1, <2>1, <2>2
    <2>4. QED
      BY <2>3 DEF r, s
  <1>5. ~(t >= 1) /\ ~(t <= -1)
    <2>1. t >= 1 => m * t >= m
      <3> HIDE DEF t
      <3>1. QED
        BY <1>1
    <2>2. t <= -1 => m * t <= -m
      <3> HIDE DEF t
      <3>1. QED
        BY <1>1
    <2> HIDE DEF j, t
    <2>3. QED
      BY <1>1, <1>2, <1>3, <1>4, <2>1, <2>2
  <1>6. t = 0
    BY <1>1, <1>5
  <1>7. m * t = 0
    <2> HIDE DEF t
    <2>1. QED
      BY <1>6
  <1>8. QED
    BY <1>2, <1>3, <1>4, <1>7

Modulus == Pow2[IntBits]

LEMMA IntegerFacts ==
    /\ Modulus \in Nat \ {0} /\ IntMax \in Nat /\ IntMin \in Int
    /\ IntMin < 0 /\ IntMax - IntMin = Modulus - 1
    /\ XInt = IntMin .. IntMax /\ 0 \in XInt
  <1>1. IntBits - 1 \in Nat /\ (IntBits - 1) + 1 = IntBits
    BY IntBitsIsPositive
  <1>2. Pow2[IntBits - 1] \in Nat \ {0} /\ Pow2[IntBits] = 2 * Pow2[IntBits - 1]
    BY <1>1, Pow2Facts
  <1>3. QED
    BY <1>2 DEF Modulus, IntMax, IntMin, XInt

LEMMA WrapFacts ==
    /\ \A i \in Int : Wrap(i) \in XInt /\ Wrap(i) \in Int
    /\ \A i \in XInt : i \in Int /\ Wrap(i) = i
    /\ \A i, k \in Int : Wrap(i + k * Modulus) = Wrap(i)
    /\ \A i \in Int : \E k \in Int : Wrap(i) = i + k * Modulus
  <1> DEFINE m == Modulus
             a == IntMin
  <1>1. m \in Nat \ {0} /\ a \in Int /\ XInt = a .. a + m - 1
    BY IntegerFacts
  <1>2. \A i : Wrap(i) = ((i - a) % m) + a
    BY DEF Wrap, Modulus
  <1> HIDE DEF m, a
  <1>3. ASSUME NEW i \in Int PROVE Wrap(i) \in XInt /\ Wrap(i) \in Int
    <2>1. (i - a) % m \in 0 .. m - 1
      BY <1>1
    <2>2. QED
      BY <1>1, <1>2, <2>1
  <1>4. ASSUME NEW i \in XInt PROVE i \in Int /\ Wrap(i) = i
    <2>1. i \in Int /\ i - a \in 0 .. m - 1
      BY <1>1
    <2>2. (i - a) % m = i - a
      BY <1>1, <2>1
    <2>3. QED
      BY <1>1, <1>2, <2>1, <2>2
  <1>5. ASSUME NEW i \in Int, NEW k \in Int PROVE Wrap(i + k * m) = Wrap(i)
    <2>1. i - a \in Int /\ k * m \in Int /\ (i + k * m) - a = (i - a) + k * m
      BY <1>1
    <2>2. ((i - a) + k * m) % m = (i - a) % m
      BY <1>1, <2>1, SameRemainder
    <2>3. QED
      BY <1>2, <2>1, <2>2
  <1>6. ASSUME NEW i \in Int PROVE \E k \in Int : Wrap(i) = i + k * m
    <2> DEFINE d == (i - a) \div m
               r == (i - a) % m
    <2>1. i - a = m * d + r /\ d \in Int /\ r \in Int /\ Wrap(i) = r + a
      BY <1>1, <1>2
    <2> HIDE DEF d, r
    <2>2. (-d) * m = -(m * d) /\ m * d \in Int /\ -d \in Int
      BY <1>1, <2>1
    <2>3. Wrap(i) = i + (-d) * m
      BY <1>1, <2>1, <2>2
    <2>4. QED
      BY <2>2, <2>3
  <1>7. QED
    BY <1>3, <1>4, <1>5, <1>6 DEF m

(* It does not matter whether a sum or a product wraps once or on the way. *)
LEMMA WrapsOnce ==
    ASSUME NEW i \in Int, NEW b \in Int, NEW d \in Int
    PROVE  /\ Wrap(Wrap(Wrap(i) * b) + d) = Wrap(i * b + d)
           /\ Wrap(-Wrap(i)) = Wrap(-i)
  <1> DEFINE m == Modulus
  <1>1. m \in Int
    BY IntegerFacts
  <1>2. PICK k \in Int : Wrap(i) = i + k * m
    BY WrapFacts
  <1>3. Wrap(i) \in Int /\ Wrap(i) * b \in Int
    BY WrapFacts
  <1>4. PICK l \in Int : Wrap(Wrap(i) * b) = Wrap(i) * b + l * m
    <2> DEFINE c == Wrap(i) * b
    <2>1. c \in Int
      BY <1>3
    <2> HIDE DEF c
    <2>2. \E l \in Int : Wrap(c) = c + l * m
      BY <2>1, WrapFacts
    <2>3. QED
      BY <2>2 DEF c
  <1> HIDE DEF m
  <1>5. Wrap(Wrap(i) * b) + d = (i * b + d) + (k * b + l) * m
    <2>1. (i + k * m) * b = i * b + (k * b) * m
      BY <1>1
    <2>2. (k * b + l) * m = (k * b) * m + l * m
      BY <1>1
    <2>3. i * b \in Int /\ (k * b) * m \in Int /\ l * m \in Int
      BY <1>1
    <2>4. Wrap(i) * b = i * b + (k * b) * m
      BY <1>2, <2>1
    <2>5. QED
      BY <1>4, <2>2, <2>3, <2>4
  <1>6. i * b + d \in Int /\ k * b + l \in Int
    OBVIOUS
  <1>7. Wrap((i * b + d) + (k * b + l) * m) = Wrap(i * b + d)
    <2> DEFINE u == i * b + d
               v == k * b + l
    <2>1. u \in Int /\ v \in Int
      BY <1>6
    <2> HIDE DEF u, v
    <2>2. Wrap(u + v * m) = Wrap(u)
      BY <2>1, WrapFacts DEF m
    <2>3. QED
      BY <2>2 DEF u, v
  <1>8. -Wrap(i) = -i + (-k) * m /\ -i \in Int /\ -k \in Int
    BY <1>1, <1>2
  <1>9. Wrap(-i + (-k) * m) = Wrap(-i)
    BY <1>8, WrapFacts DEF m
  <1>10. QED
    BY <1>5, <1>7, <1>8, <1>9

-----------------------------------------------------------------------------
(* The recursive functions of the conversions: what their definitions      *)
(* choose satisfies their equations.                                       *)

LEMMA IntegersRecur ==
    ASSUME NEW a \in Int, NEW step \in [Nat -> [Int -> Int]]
    PROVE  \E f \in [Nat -> Int] :
               f[0] = a /\ \A n \in Nat : n # 0 => f[n] = step[n - 1][f[n - 1]]
  <1> DEFINE D == Int
             first == a
  <1>1. PICK f \in Recursions(Int, a, step) : TRUE
    <2>1. first \in D /\ step \in [Nat -> [D -> D]]
      OBVIOUS
    <2> HIDE DEF D, first
    <2>2. Recursions(D, first, step) # {}
      BY <2>1, RecursionExists
    <2>3. Recursions(Int, a, step) # {}
      BY <2>2 DEF D, first
    <2>4. QED
      BY <2>3
  <1>2. f \in [Nat -> Int] /\ f[0] = a /\ \A n \in Nat : f[n + 1] = step[n][f[n]]
    BY DEF Recursions
  <1>3. \A n \in Nat : n # 0 => n - 1 \in Nat /\ (n - 1) + 1 = n
    OBVIOUS
  <1>4. \A n \in Nat : n # 0 => f[n] = step[n - 1][f[n - 1]]
    BY <1>2, <1>3
  <1>5. QED
    BY <1>2, <1>4

LEMMA RestIs ==
    ASSUME NEW num \in Int, NEW base \in Nat \ {0}
    PROVE  /\ Rest(num, base)[0] = num
           /\ \A n \in Nat : Rest(num, base)[n + 1] = Quotient(Rest(num, base)[n], base)
  <1> DEFINE step == [n \in Nat |-> [i \in Int |-> Quotient(i, base)]]
             Eq(f) == f = [n \in Nat |-> IF n = 0 THEN num ELSE Quotient(f[n - 1], base)]
             g == Rest(num, base)
  <1>1. step \in [Nat -> [Int -> Int]]
    BY DEF Quotient
  <1>2. PICK f \in [Nat -> Int] :
                f[0] = num /\ \A n \in Nat : n # 0 => f[n] = step[n - 1][f[n - 1]]
    <2> HIDE DEF step
    <2>1. QED
      BY <1>1, IntegersRecur
  <1>3. \A n \in Nat : n # 0 => f[n] = Quotient(f[n - 1], base)
    <2>1. \A n \in Nat : n # 0 => n - 1 \in Nat /\ f[n - 1] \in Int
      OBVIOUS
    <2>2. QED
      BY <1>2, <2>1
  <1>4. Eq(f)
    BY <1>2, <1>3
  <1>5. Eq(g)
    BY <1>4 DEF Rest
  <1> HIDE DEF g
  <1>6. g[0] = num /\ \A n \in Nat : g[n + 1] = Quotient(g[n], base)
    BY <1>5
  <1>7. QED
    BY <1>6 DEF g

LEMMA DigitValueStays == \A c : DigitValue(c) \in 0 .. 36
  BY DEF DigitValue, Isdigit, Toupper, Zero, Nine, UpperA, UpperZ, LowerA, LowerZ

LEMMA AccumulatedIs ==
    ASSUME NEW digits, NEW base \in Nat
    PROVE  /\ Accumulated(digits, base)[0] = 0
           /\ \A n \in Nat : Accumulated(digits, base)[n + 1] =
                Wrap(Wrap(Accumulated(digits, base)[n] * base) + DigitValue(digits[n + 1]))
  <1> DEFINE step == [n \in Nat |-> [i \in Int |-> Wrap(Wrap(i * base) + DigitValue(digits[n + 1]))]]
             Eq(f) == f = [n \in Nat |-> IF n = 0 THEN 0
                                          ELSE Wrap(Wrap(f[n - 1] * base) + DigitValue(digits[n]))]
             g == Accumulated(digits, base)
  <1>1. step \in [Nat -> [Int -> Int]]
    <2>1. ASSUME NEW n \in Nat, NEW i \in Int
          PROVE  Wrap(Wrap(i * base) + DigitValue(digits[n + 1])) \in Int
      <3>1. i * base \in Int /\ DigitValue(digits[n + 1]) \in Int
        BY DigitValueStays
      <3>2. QED
        BY <3>1, WrapFacts
    <2>2. QED
      BY <2>1
  <1>2. PICK f \in [Nat -> Int] :
                f[0] = 0 /\ \A n \in Nat : n # 0 => f[n] = step[n - 1][f[n - 1]]
    <2> HIDE DEF step
    <2>1. 0 \in Int
      OBVIOUS
    <2>2. QED
      BY <1>1, <2>1, IntegersRecur
  <1>3. \A n \in Nat : n # 0 => f[n] = Wrap(Wrap(f[n - 1] * base) + DigitValue(digits[n]))
    <2>1. \A n \in Nat : n # 0 => n - 1 \in Nat /\ f[n - 1] \in Int /\ (n - 1) + 1 = n
      OBVIOUS
    <2>2. QED
      BY <1>2, <2>1
  <1>4. Eq(f)
    BY <1>2, <1>3
  <1>5. Eq(g)
    BY <1>4 DEF Accumulated
  <1> HIDE DEF g
  <1>6. g[0] = 0
    BY <1>5
  <1>7. \A n \in Nat : g[n + 1] = Wrap(Wrap(g[n] * base) + DigitValue(digits[n + 1]))
    BY <1>5
  <1>8. QED
    BY <1>6, <1>7 DEF g

LEMMA PowersAre ==
    ASSUME NEW base \in Nat
    PROVE  /\ Powers(base)[0] = 1
           /\ \A n \in Nat : Powers(base)[n] \in Int
                             /\ Powers(base)[n + 1] = base * Powers(base)[n]
  <1> DEFINE step == [n \in Nat |-> [i \in Int |-> base * i]]
             Eq(f) == f = [n \in Nat |-> IF n = 0 THEN 1 ELSE base * f[n - 1]]
             g == Powers(base)
  <1>1. step \in [Nat -> [Int -> Int]]
    OBVIOUS
  <1>2. PICK f \in [Nat -> Int] :
                f[0] = 1 /\ \A n \in Nat : n # 0 => f[n] = step[n - 1][f[n - 1]]
    <2> HIDE DEF step
    <2>1. 1 \in Int
      OBVIOUS
    <2>2. QED
      BY <1>1, <2>1, IntegersRecur
  <1>3. \A n \in Nat : n # 0 => f[n] = base * f[n - 1]
    <2>1. \A n \in Nat : n # 0 => n - 1 \in Nat /\ f[n - 1] \in Int
      OBVIOUS
    <2>2. QED
      BY <1>2, <2>1
  <1>4. Eq(f)
    BY <1>2, <1>3
  <1>5. Eq(g)
    BY <1>4 DEF Powers
  <1> HIDE DEF g
  <1>6. g[0] = 1 /\ \A n \in Nat : g[n + 1] = base * g[n]
    BY <1>5
  <1> DEFINE S == {n \in Nat : g[n] \in Int}
  <1>7. 0 \in S /\ \A n \in Nat : n \in S => n + 1 \in S
    BY <1>6
  <1>8. Nat \subseteq S
    <2> HIDE DEF S
    <2>1. QED
      BY <1>7, InductionOnSet
  <1>9. QED
    BY <1>6, <1>8 DEF g

LEMMA DigitsAre ==
    ASSUME NEW base \in 0 .. 36, NEW c
    PROVE  /\ c \in Digits(base) <=> IsDigitOf(c, base)
           /\ c \in Digits(base) => DigitOf(c, base) = DigitValue(c)
  <1>1. ASSUME NEW d \in 0 .. 35 PROVE \A a \in Faces(d) : DigitValue(a) = d
    BY DEF Faces, DigitValue, Isdigit, Toupper, Zero, Nine, UpperA, UpperZ, LowerA, LowerZ
  <1>2. ASSUME DigitValue(c) \in 0 .. 35 PROVE c \in Faces(DigitValue(c))
    BY <1>2 DEF Faces, DigitValue, Isdigit, Toupper, Zero, Nine, UpperA, UpperZ, LowerA, LowerZ
  <1>3. ASSUME NEW d \in 0 .. base - 1, c \in Faces(d) PROVE DigitValue(c) = d
    BY <1>1, <1>3
  <1>4. ASSUME IsDigitOf(c, base)
        PROVE  DigitValue(c) \in 0 .. base - 1 /\ c \in Faces(DigitValue(c))
    BY <1>2, <1>4, DigitValueStays DEF IsDigitOf
  <1> HIDE DEF Faces
  <1>5. c \in Digits(base) <=> \E d \in 0 .. base - 1 : c \in Faces(d)
    BY DEF Digits
  <1>6. ASSUME NEW d \in 0 .. base - 1, c \in Faces(d) PROVE DigitOf(c, base) = d
    BY <1>3, <1>6 DEF DigitOf
  <1>7. QED
    BY <1>3, <1>4, <1>5, <1>6 DEF IsDigitOf

LEMMA SumsAre ==
    ASSUME NEW base \in 0 .. 36, NEW s \in Seq(Digits(base))
    PROVE  /\ Sums(s, base)[0] = 0
           /\ \A n \in 0 .. Len(s) - 1 : Sums(s, base)[n + 1] =
                Sums(s, base)[n] + DigitValue(s[n + 1]) * Powers(base)[Len(s) - (n + 1)]
  <1> DEFINE term(n) == DigitOf(s[n], base) * Powers(base)[Len(s) - n]
             step == [n \in Nat |-> [i \in Int |-> i + IF n < Len(s) THEN term(n + 1) ELSE 0]]
             Eq(f) == f = [n \in 0 .. Len(s) |-> IF n = 0 THEN 0 ELSE f[n - 1] + term(n)]
             g == Sums(s, base)
  <1>1. Len(s) \in Nat
    OBVIOUS
  <1>2. \A n \in 1 .. Len(s) : DigitOf(s[n], base) = DigitValue(s[n])
    <2>1. \A n \in 1 .. Len(s) : s[n] \in Digits(base)
      OBVIOUS
    <2>2. QED
      BY <2>1, DigitsAre
  <1>3. \A n \in 1 .. Len(s) : term(n) \in Int
    <2>1. SUFFICES ASSUME NEW n \in 1 .. Len(s) PROVE term(n) \in Int
      BY Zenon
    <2>2. DigitValue(s[n]) \in 0 .. 36
      BY DigitValueStays, Zenon
    <2>3. Len(s) - n \in Nat /\ base \in Nat
      BY <1>1
    <2> DEFINE d == DigitValue(s[n])
               p == Powers(base)[Len(s) - n]
    <2>4. p \in Int
      BY <2>3, PowersAre
    <2>5. d \in 0 .. 36
      BY <2>2
    <2>6. term(n) = d * p
      <3>1. DigitOf(s[n], base) = d
        BY <1>2
      <3>2. QED
        BY <3>1
    <2> HIDE DEF d, p, term
    <2>7. QED
      BY <2>4, <2>5, <2>6
  <1> HIDE DEF term
  <1>4. step \in [Nat -> [Int -> Int]]
    <2>1. \A n \in Nat : n < Len(s) => n + 1 \in 1 .. Len(s)
      BY <1>1
    <2>2. QED
      BY <1>3, <2>1
  <1>5. PICK f \in [Nat -> Int] :
                f[0] = 0 /\ \A n \in Nat : n # 0 => f[n] = step[n - 1][f[n - 1]]
    <2> HIDE DEF step
    <2>1. 0 \in Int
      OBVIOUS
    <2>2. QED
      BY <1>4, <2>1, IntegersRecur
  <1>6. \A n \in 1 .. Len(s) : f[n] = f[n - 1] + term(n)
    <2>1. \A n \in 1 .. Len(s) : /\ n \in Nat /\ n # 0 /\ n - 1 \in Nat /\ f[n - 1] \in Int
                                 /\ (n - 1) + 1 = n /\ n - 1 < Len(s)
      BY <1>1
    <2>2. QED
      BY <1>5, <2>1
  <1> DEFINE h == [n \in 0 .. Len(s) |-> f[n]]
  <1>7. Eq(h)
    <2>1. \A n \in 1 .. Len(s) : n - 1 \in 0 .. Len(s)
      BY <1>1
    <2>2. \A n \in 0 .. Len(s) : n # 0 => n \in 1 .. Len(s)
      BY <1>1
    <2>3. \A n \in 0 .. Len(s) : h[n] = IF n = 0 THEN 0 ELSE h[n - 1] + term(n)
      BY <1>5, <1>6, <2>1, <2>2
    <2>4. QED
      BY <2>3
  <1>8. Eq(g)
    BY <1>7 DEF Sums, term
  <1> HIDE DEF g
  <1>9. g[0] = 0
    BY <1>1, <1>8
  <1>10. \A n \in 0 .. Len(s) - 1 : g[n + 1] = g[n] + term(n + 1)
    <2>1. \A n \in 0 .. Len(s) - 1 : n + 1 \in 0 .. Len(s) /\ n + 1 # 0 /\ (n + 1) - 1 = n
      BY <1>1
    <2>2. QED
      BY <1>8, <2>1
  <1>11. \A n \in 0 .. Len(s) - 1 :
            term(n + 1) = DigitValue(s[n + 1]) * Powers(base)[Len(s) - (n + 1)]
    <2>1. \A n \in 0 .. Len(s) - 1 : n + 1 \in 1 .. Len(s)
      BY <1>1
    <2>2. QED
      BY <1>2, <2>1 DEF term
  <1>12. QED
    BY <1>9, <1>10, <1>11 DEF g

-----------------------------------------------------------------------------
(* Reading. *)

(* What strtoint accumulates from digits is their value, wrapped: before   *)
(* the last l digits it has accumulated a number that, times the power of  *)
(* the base they shift it by, is the sum so far.                           *)
LEMMA AccumulatesValue ==
    ASSUME NEW base \in 0 .. 36, NEW s \in Seq(Digits(base))
    PROVE  ValueOf(s, base) \in Int /\ Accumulated(s, base)[Len(s)] = Wrap(ValueOf(s, base))
  <1> DEFINE acc == Accumulated(s, base)
             sum == Sums(s, base)
             P == Powers(base)
             l == Len(s)
             S == {n \in Nat : n <= l =>
                      \E h \in Int : sum[n] = h * P[l - n] /\ acc[n] = Wrap(h)}
  <1>1. l \in Nat /\ base \in Nat
    OBVIOUS
  <1>2. P[0] = 1 /\ \A n \in Nat : P[n] \in Int /\ P[n + 1] = base * P[n]
    BY <1>1, PowersAre
  <1>3. /\ acc[0] = 0
        /\ \A n \in Nat : acc[n + 1] = Wrap(Wrap(acc[n] * base) + DigitValue(s[n + 1]))
    BY <1>1, AccumulatedIs
  <1>4. /\ sum[0] = 0
        /\ \A n \in 0 .. l - 1 :
              sum[n + 1] = sum[n] + DigitValue(s[n + 1]) * P[l - (n + 1)]
    BY SumsAre
  <1>5. 0 \in S
    <2>1. 0 * P[l - 0] = 0
      <3>1. l - 0 \in Nat
        BY <1>1
      <3>2. P[l - 0] \in Int
        BY <1>2, <3>1
      <3>3. QED
        BY <3>2
    <2>2. Wrap(0) = 0
      BY IntegerFacts, WrapFacts
    <2> HIDE DEF acc, sum, P
    <2>3. QED
      BY <1>3, <1>4, <2>1, <2>2
  <1>6. ASSUME NEW n \in Nat, n \in S PROVE n + 1 \in S
    <2>1. SUFFICES ASSUME n + 1 <= l
                   PROVE  \E h \in Int : sum[n + 1] = h * P[l - (n + 1)] /\ acc[n + 1] = Wrap(h)
      OBVIOUS
    <2>2. PICK h \in Int : sum[n] = h * P[l - n] /\ acc[n] = Wrap(h)
      BY <1>1, <1>6, <2>1
    <2> DEFINE d == DigitValue(s[n + 1])
               p == P[l - (n + 1)]
    <2>3. d \in Int
      <3>1. d \in 0 .. 36
        BY DigitValueStays, Zenon
      <3> HIDE DEF d
      <3>2. QED
        BY <3>1
    <2>4. p \in Int /\ P[l - n] = base * p
      <3>1. l - (n + 1) \in Nat /\ (l - (n + 1)) + 1 = l - n
        BY <1>1, <2>1
      <3>2. QED
        BY <1>2, <3>1
    <2>5. sum[n + 1] = (h * base + d) * p
      <3>1. sum[n + 1] = h * (base * p) + d * p
        BY <1>1, <1>4, <2>1, <2>2, <2>4
      <3> HIDE DEF d, p, sum
      <3>2. h * (base * p) + d * p = (h * base + d) * p
        BY <2>3, <2>4
      <3>3. QED
        BY <3>1, <3>2
    <2>6. acc[n + 1] = Wrap(h * base + d)
      <3>1. acc[n + 1] = Wrap(Wrap(Wrap(h) * base) + d)
        BY <1>3, <2>2
      <3> HIDE DEF d
      <3>2. Wrap(Wrap(Wrap(h) * base) + d) = Wrap(h * base + d)
        BY <2>3, WrapsOnce
      <3>3. QED
        BY <3>1, <3>2
    <2> HIDE DEF d, p, sum, acc
    <2>7. h * base + d \in Int
      BY <2>3
    <2>8. QED
      BY <2>5, <2>6, <2>7 DEF p
  <1>7. l \in S
    <2> HIDE DEF S
    <2>1. QED
      BY <1>1, <1>5, <1>6, InductionOnSet
  <1>8. PICK h \in Int : sum[l] = h * P[l - l] /\ acc[l] = Wrap(h)
    BY <1>1, <1>7
  <1>9. sum[l] = h
    <2>1. l - l = 0
      BY <1>1
    <2>2. h * P[l - l] = h
      BY <1>2, <2>1
    <2>3. QED
      BY <1>8, <2>2
  <1>10. QED
    BY <1>8, <1>9 DEF ValueOf

LEMMA SpacesSkipped ==
    ASSUME NEW text \in Seq(1 .. 127), NEW q, q = Skip(text, 1, Isspace)
    PROVE  /\ q \in 1 .. Len(text) + 1
           /\ ~Isspace(CharAt(text, q))
           /\ \A r \in 1 .. q - 1 : Isspace(text[r])
  <1> DEFINE T == {k \in 1 .. Len(text) + 1 : k = Len(text) + 1 \/ ~Isspace(text[k])}
             Stops(k) == k \in T /\ \A r \in 1 .. k - 1 : Isspace(text[r])
  <1>1. Len(text) \in Nat
    OBVIOUS
  <1>2. PICK m \in T : \A k \in T : m <= k
    <2>1. T \subseteq Nat /\ Len(text) + 1 \in T
      BY <1>1
    <2> HIDE DEF T
    <2>2. QED
      BY <2>1, LeastElement
  <1>3. Stops(m)
    BY <1>1, <1>2
  <1>4. \E k \in 1 .. Len(text) + 1 :
            /\ k = Len(text) + 1 \/ ~Isspace(text[k])
            /\ \A r \in 1 .. k - 1 : Isspace(text[r])
    BY <1>3
  <1>5. Skip(text, 1, Isspace) = CHOOSE k \in 1 .. Len(text) + 1 :
            /\ k = Len(text) + 1 \/ ~Isspace(text[k])
            /\ \A r \in 1 .. k - 1 : Isspace(text[r])
    BY DEF Skip
  <1>6. Stops(q)
    BY <1>4, <1>5
  <1>7. ~Isspace(CharAt(text, q))
    BY <1>1, <1>6 DEF CharAt, Isspace, NUL
  <1>8. QED
    BY <1>6, <1>7

(* The loop over digits can come to its end, and does so behind digits.    *)
DigitsEnd(text, p, q, base) ==
    /\ q \in p .. Len(text) + 1
    /\ q = Len(text) + 1 \/ ~IsDigitOf(text[q], base)
    /\ \A r \in p .. q - 1 : IsDigitOf(text[r], base)

LEMMA DigitsEndSomewhere ==
    ASSUME NEW text \in Seq(1 .. 127), NEW p \in 1 .. Len(text) + 1, NEW base \in 0 .. 36
    PROVE  \E q : DigitsEnd(text, p, q, base)
  <1> DEFINE T == {k \in p .. Len(text) + 1 : k = Len(text) + 1 \/ ~IsDigitOf(text[k], base)}
  <1>1. Len(text) \in Nat
    OBVIOUS
  <1>2. PICK m \in T : \A k \in T : m <= k
    <2>1. T \subseteq Nat /\ Len(text) + 1 \in T
      BY <1>1
    <2> HIDE DEF T
    <2>2. QED
      BY <2>1, LeastElement
  <1>3. DigitsEnd(text, p, m, base)
    BY <1>1, <1>2 DEF DigitsEnd
  <1>4. QED
    BY <1>3

LEMMA DigitsEndFacts ==
    ASSUME NEW text \in Seq(1 .. 127), NEW p \in 1 .. Len(text) + 1, NEW base \in 0 .. 36,
           NEW q, DigitsEnd(text, p, q, base)
    PROVE  /\ q \in p .. Len(text) + 1
           /\ ~IsDigitOf(CharAt(text, q), base)
           /\ \A r \in p .. q - 1 : IsDigitOf(text[r], base)
           /\ SubSeq(text, p, q - 1) \in Seq(Digits(base))
           /\ Len(SubSeq(text, p, q - 1)) = q - p
  <1>1. Len(text) \in Nat /\ q \in p .. Len(text) + 1 /\ q - 1 \in Int /\ p \in Int
    BY DEF DigitsEnd
  <1>2. ~IsDigitOf(CharAt(text, q), base)
    <2>1. DigitValue(NUL) = 36
      BY DEF DigitValue, Isdigit, Toupper, NUL, Zero, Nine, UpperA, UpperZ, LowerA, LowerZ
    <2>2. ~IsDigitOf(NUL, base)
      BY <2>1 DEF IsDigitOf
    <2>3. QED
      BY <1>1, <2>2 DEF CharAt, DigitsEnd
  <1>3. \A r \in p .. q - 1 : text[r] \in Digits(base)
    BY DigitsAre DEF DigitsEnd
  <1>4. /\ SubSeq(text, p, q - 1) \in Seq(Digits(base))
        /\ Len(SubSeq(text, p, q - 1)) = IF p <= q - 1 THEN (q - 1) - p + 1 ELSE 0
    BY <1>1, <1>3, SubSeqProperties
  <1> DEFINE l == Len(SubSeq(text, p, q - 1))
  <1>5. l = q - p
    <2>1. l = IF p <= q - 1 THEN (q - 1) - p + 1 ELSE 0
      BY <1>4
    <2> HIDE DEF l
    <2>2. QED
      BY <1>1, <2>1
  <1>6. QED
    BY <1>1, <1>2, <1>4, <1>5 DEF DigitsEnd

LEMMA DigitsSkipped ==
    ASSUME NEW text \in Seq(1 .. 127), NEW p \in 1 .. Len(text) + 1, NEW base \in 0 .. 36
    PROVE  DigitsEnd(text, p, Skip(text, p, LAMBDA c : IsDigitOf(c, base)), base)
  <1>1. \E q \in p .. Len(text) + 1 :
            /\ q = Len(text) + 1 \/ ~IsDigitOf(text[q], base)
            /\ \A r \in p .. q - 1 : IsDigitOf(text[r], base)
    BY DigitsEndSomewhere DEF DigitsEnd
  <1>2. QED
    BY <1>1 DEF DigitsEnd, Skip

(* The base strtoint detects is the one the rest of the text shows.        *)
LEMMA DetectsShown ==
    ASSUME NEW text \in Seq(1 .. 127), NEW p \in 1 .. Len(text) + 1, NEW base \in {0} \cup 2 .. 36
    PROVE  /\ Detected(text, p, base) = IF base = 0 THEN ShownBase(SubSeq(text, p, Len(text)))
                                                   ELSE <<base, 0>>
           /\ Detected(text, p, base)[1] \in 2 .. 36
           /\ Detected(text, p, base)[2] \in 0 .. 2
           /\ p + Detected(text, p, base)[2] \in p .. Len(text) + 1
  <1> DEFINE s == SubSeq(text, p, Len(text))
             l == Len(text)
  <1>1. l \in Nat /\ p \in Nat /\ p >= 1 /\ p <= l + 1 /\ \A i \in 1 .. l : text[i] \in 1 .. 127
    BY ElementOfSeq
  <1>2. s \in Seq(1 .. 127) /\ Len(s) = l + 1 - p /\ \A i \in 1 .. l - p + 1 : s[i] = text[p + i - 1]
    <2>1. \A i \in p .. l : text[i] \in 1 .. 127
      BY <1>1
    <2> HIDE DEF l
    <2>2. /\ SubSeq(text, p, l) \in Seq(1 .. 127)
          /\ Len(SubSeq(text, p, l)) = IF p <= l THEN l - p + 1 ELSE 0
          /\ \A i \in 1 .. l - p + 1 : SubSeq(text, p, l)[i] = text[p + i - 1]
      BY <1>1, <2>1, SubSeqProperties
    <2>3. QED
      BY <1>1, <2>2 DEF l
  <1>3. p <= l => s[1] = text[p]
    BY <1>1, <1>2
  <1>4. p + 1 <= l => s[2] = text[p + 1]
    BY <1>1, <1>2
  <1>5. s = <<>> <=> p = l + 1
    <2>1. s = <<>> <=> Len(s) = 0
      BY <1>2, EmptySeq
    <2>2. QED
      BY <1>1, <1>2, <2>1
  <1>6. \A c \in 1 .. 127 : Toupper(c) = UpperX <=> c \in {UpperX, UpperX + LowerA - UpperA}
    BY DEF Toupper, UpperX, LowerA, LowerZ, UpperA
  <1> HIDE DEF s, l
  <1>7. CASE base # 0
    BY <1>1, <1>7 DEF Detected, l
  <1>8. CASE base = 0 /\ CharAt(text, p) # Zero
    <2>1. Detected(text, p, base) = <<10, 0>>
      BY <1>8 DEF Detected
    <2>2. s = <<>> \/ s[1] # Zero
      BY <1>1, <1>3, <1>5, <1>8 DEF CharAt, l
    <2>3. ShownBase(s) = <<10, 0>>
      BY <2>2 DEF ShownBase
    <2>4. QED
      BY <1>1, <1>8, <2>1, <2>3 DEF s, l
  <1>9. CASE base = 0 /\ CharAt(text, p) = Zero
    <2>1. p <= l /\ s # <<>> /\ s[1] = Zero
      BY <1>1, <1>3, <1>5, <1>9 DEF CharAt, Zero, NUL, l
    <2>2. Toupper(NUL) # UpperX
      BY DEF Toupper, NUL, UpperX, LowerA, LowerZ
    <2>3. CASE Toupper(CharAt(text, p + 1)) = UpperX
      <3>1. p + 1 <= l /\ CharAt(text, p + 1) = text[p + 1]
        BY <1>1, <2>2, <2>3 DEF CharAt, l
      <3>2. Len(s) > 1 /\ s[2] = text[p + 1] /\ text[p + 1] \in 1 .. 127
        BY <1>1, <1>2, <1>4, <3>1
      <3>3. s[2] \in {UpperX, UpperX + LowerA - UpperA}
        BY <1>6, <2>3, <3>1, <3>2
      <3>4. Detected(text, p, base) = <<16, 2>> /\ ShownBase(s) = <<16, 2>>
        BY <1>9, <2>1, <2>3, <3>2, <3>3 DEF Detected, ShownBase
      <3>5. QED
        BY <1>1, <1>9, <3>1, <3>4 DEF s, l
    <2>4. CASE Toupper(CharAt(text, p + 1)) # UpperX
      <3>1. ~(Len(s) > 1 /\ s[2] \in {UpperX, UpperX + LowerA - UpperA})
        <4>1. SUFFICES ASSUME Len(s) > 1, s[2] \in {UpperX, UpperX + LowerA - UpperA} PROVE FALSE
          OBVIOUS
        <4>2. p + 1 <= l /\ text[p + 1] = s[2] /\ text[p + 1] \in 1 .. 127
          BY <1>1, <1>2, <1>4, <4>1
        <4>3. CharAt(text, p + 1) = text[p + 1]
          BY <4>2 DEF CharAt, l
        <4>4. QED
          BY <1>6, <2>4, <4>1, <4>2, <4>3
      <3>2. Detected(text, p, base) = <<8, 1>> /\ ShownBase(s) = <<8, 1>>
        BY <1>9, <2>1, <2>4, <3>1 DEF Detected, ShownBase
      <3>3. QED
        BY <1>1, <1>9, <2>1, <3>2 DEF s, l
    <2>5. QED
      BY <2>3, <2>4
  <1>10. QED
    BY <1>7, <1>8, <1>9


(* What strtoint passes on its way: the sign at a, the prefix from p, the  *)
(* digits of the base b from f, and what is no digit at e.                 *)
Passes(text, base, a, p, b, f, e) ==
    /\ a \in 1 .. Len(text) + 1
    /\ ~Isspace(CharAt(text, a)) /\ \A r \in 1 .. a - 1 : Isspace(text[r])
    /\ p = IF CharAt(text, a) \in {Plus, Minus} THEN a + 1 ELSE a
    /\ p \in 1 .. Len(text) + 1
    /\ b \in 2 .. 36 /\ f \in p .. Len(text) + 1
    /\ Detected(text, p, base)[1] = b /\ p + Detected(text, p, base)[2] = f
    /\ DigitsEnd(text, f, e, b)

LEMMA ParsedIs ==
    ASSUME NEW text \in Seq(1 .. 127), NEW base \in {0} \cup 2 .. 36
    PROVE  \E a, p, b, f, e :
              LET value == ValueOf(SubSeq(text, f, e - 1), b)
              IN  /\ Passes(text, base, a, p, b, f, e)
                  /\ value \in Int
                  /\ Parsed(text, base) =
                        <<IF CharAt(text, a) = Minus THEN Wrap(-value) ELSE Wrap(value), e - 1>>
  <1> DEFINE a == Skip(text, 1, Isspace)
             p == IF CharAt(text, a) \in {Plus, Minus} THEN a + 1 ELSE a
             b == Detected(text, p, base)[1]
             f == p + Detected(text, p, base)[2]
             e == Skip(text, f, LAMBDA c : IsDigitOf(c, b))
             i == Accumulated(SubSeq(text, f, e - 1), b)[e - f]
             value == ValueOf(SubSeq(text, f, e - 1), b)
  <1>1. Parsed(text, base) = <<IF CharAt(text, a) = Minus THEN Wrap(-i) ELSE i, e - 1>>
    BY DEF Parsed
  <1>2. /\ a \in 1 .. Len(text) + 1
        /\ ~Isspace(CharAt(text, a)) /\ \A r \in 1 .. a - 1 : Isspace(text[r])
    BY SpacesSkipped
  <1> HIDE DEF a
  <1>3. p \in 1 .. Len(text) + 1
    <2>1. CharAt(text, a) \in {Plus, Minus} => a <= Len(text)
      BY <1>2 DEF CharAt, Plus, Minus, NUL
    <2>2. Len(text) \in Nat
      OBVIOUS
    <2>3. QED
      BY <1>2, <2>1, <2>2
  <1>4. p = IF CharAt(text, a) \in {Plus, Minus} THEN a + 1 ELSE a
    OBVIOUS
  <1> HIDE DEF p
  <1>5. b \in 2 .. 36 /\ f \in p .. Len(text) + 1
    BY <1>3, DetectsShown
  <1>6. Detected(text, p, base)[1] = b /\ p + Detected(text, p, base)[2] = f
    OBVIOUS
  <1> HIDE DEF b, f
  <1>7. Len(text) \in Nat /\ b \in 0 .. 36 /\ f \in 1 .. Len(text) + 1
    BY <1>3, <1>5
  <1>8. DigitsEnd(text, f, e, b)
    BY <1>7, DigitsSkipped
  <1> HIDE DEF e
  <1>9. value \in Int /\ i = Wrap(value)
    <2> DEFINE s == SubSeq(text, f, e - 1)
    <2>1. s \in Seq(Digits(b)) /\ Len(s) = e - f
      BY <1>7, <1>8, DigitsEndFacts
    <2> HIDE DEF s
    <2>2. ValueOf(s, b) \in Int /\ Accumulated(s, b)[Len(s)] = Wrap(ValueOf(s, b))
      BY <1>7, <2>1, AccumulatesValue
    <2>3. QED
      BY <2>1, <2>2 DEF s
  <1> HIDE DEF i, value
  <1>10. Wrap(-i) = Wrap(-value)
    BY <1>9, WrapsOnce
  <1>11. Passes(text, base, a, p, b, f, e)
    BY <1>2, <1>3, <1>4, <1>5, <1>6, <1>8 DEF Passes
  <1>12. Parsed(text, base) =
            <<IF CharAt(text, a) = Minus THEN Wrap(-value) ELSE Wrap(value), e - 1>>
    BY <1>1, <1>9, <1>10
  <1>13. QED
    BY <1>9, <1>11, <1>12 DEF value

LEMMA ReadsNumeral ==
    ASSUME NEW text \in Seq(1 .. 127), NEW base \in {0} \cup 2 .. 36
    PROVE  IsNumeral(text, base, Parsed(text, base)[1], Parsed(text, base)[2])
  <1>1. PICK a, p, b, f, e :
              LET value == ValueOf(SubSeq(text, f, e - 1), b)
              IN  /\ Passes(text, base, a, p, b, f, e)
                  /\ value \in Int
                  /\ Parsed(text, base) =
                        <<IF CharAt(text, a) = Minus THEN Wrap(-value) ELSE Wrap(value), e - 1>>
    BY ParsedIs
  <1> DEFINE value == ValueOf(SubSeq(text, f, e - 1), b)
             i == a - 1
             j == p - 1
             end == e - 1
             sign == SubSeq(text, i + 1, j)
             shown == IF base = 0 THEN ShownBase(SubSeq(text, j + 1, Len(text)))
                                  ELSE <<base, 0>>
             digits == SubSeq(text, j + shown[2] + 1, end)
  <1>2. /\ Len(text) \in Nat /\ Passes(text, base, a, p, b, f, e)
        /\ a \in 1 .. Len(text) + 1 /\ p \in {a, a + 1} /\ p \in 1 .. Len(text) + 1
        /\ b \in 2 .. 36 /\ f \in p .. Len(text) + 1 /\ f \in 1 .. Len(text) + 1
        /\ e \in f .. Len(text) + 1 /\ DigitsEnd(text, f, e, b) /\ b \in 0 .. 36
    BY <1>1 DEF Passes, DigitsEnd
  <1>3. i \in 0 .. end /\ j \in i .. end
    BY <1>2
  <1>4. \A r \in 1 .. i : Isspace(text[r])
    BY <1>2 DEF Passes
  <1>5. i + 1 = a /\ j + 1 = p /\ end + 1 = e
    BY <1>2
  <1>6. ~Isspace(CharAt(text, i + 1))
    BY <1>2, <1>5 DEF Passes
  <1>7. sign = IF p = a THEN <<>> ELSE <<text[a]>>
    <2>1. CASE p = a
      <3>1. SubSeq(text, a, p - 1) = <<>>
        BY <1>2, <2>1, SubSeqEmpty
      <3>2. QED
        BY <1>5, <2>1, <3>1
    <2>2. CASE p # a
      <3>1. p - 1 = a /\ a \in 1 .. Len(text)
        BY <1>2, <2>2
      <3>2. SubSeq(text, a, a) = <<text[a]>>
        <4> DEFINE s == SubSeq(text, a, a)
        <4>1. a \in Int /\ \A r \in a .. a : text[r] \in 1 .. 127
          BY <3>1, ElementOfSeq
        <4>2. s \in Seq(1 .. 127) /\ Len(s) = 1 /\ s[1] = text[a]
          BY <4>1, SubSeqProperties
        <4> HIDE DEF s
        <4>3. s = <<text[a]>>
          BY <4>2
        <4>4. QED
          BY <4>3 DEF s
      <3>3. QED
        BY <1>5, <2>2, <3>1, <3>2
    <2>3. QED
      BY <2>1, <2>2
  <1>8. p # a => CharAt(text, a) = text[a]
    BY <1>2 DEF CharAt
  <1>9. /\ sign \in {<<>>, <<Plus>>, <<Minus>>}
        /\ sign = <<>> => CharAt(text, i + 1) \notin {Plus, Minus}
        /\ sign = <<Minus>> <=> CharAt(text, a) = Minus
    <2> HIDE DEF sign
    <2>1. CASE p = a
      <3>1. sign = <<>> /\ CharAt(text, a) \notin {Plus, Minus}
        BY <1>2, <1>7, <2>1 DEF Passes
      <3>2. QED
        BY <1>5, <3>1
    <2>2. CASE p # a
      <3>1. sign = <<text[a]>> /\ text[a] \in {Plus, Minus} /\ CharAt(text, a) = text[a]
        BY <1>2, <1>7, <1>8, <2>2 DEF Passes
      <3>2. QED
        BY <3>1
    <2>3. QED
      BY <2>1, <2>2
  <1>10. shown[1] = b /\ p + shown[2] = f /\ shown = Detected(text, p, base)
    BY <1>2, <1>5, DetectsShown DEF Passes
  <1> HIDE DEF shown
  <1>11. shown[2] \in Int
    <2>1. shown[2] \in 0 .. 2
      BY <1>2, <1>10, DetectsShown
    <2>2. QED
      BY <2>1
  <1>12. j + shown[2] + 1 = f /\ end >= j + shown[2]
    BY <1>2, <1>10, <1>11
  <1>13. digits = SubSeq(text, f, e - 1)
    BY <1>12
  <1>14. Range(digits) \subseteq Digits(shown[1])
    <2>1. SubSeq(text, f, e - 1) \in Seq(Digits(b))
      BY <1>2, DigitsEndFacts
    <2> DEFINE s == SubSeq(text, f, e - 1)
    <2>2. s \in Seq(Digits(b))
      BY <2>1
    <2> HIDE DEF s, digits
    <2>3. \A k \in DOMAIN s : s[k] \in Digits(b)
      BY <2>2, ElementOfSeq
    <2>4. digits = s
      BY <1>13 DEF s
    <2>5. QED
      BY <1>10, <2>3, <2>4 DEF Range
  <1>15. CharAt(text, end + 1) \notin Digits(shown[1])
    <2>1. ~IsDigitOf(CharAt(text, e), b)
      BY <1>2, DigitsEndFacts
    <2>2. CharAt(text, e) \notin Digits(b)
      BY <1>2, <2>1, DigitsAre
    <2>3. QED
      BY <1>5, <1>10, <2>2
  <1>16. Parsed(text, base)[2] = end
    BY <1>1
  <1>17. Parsed(text, base)[1] =
            Wrap((IF sign = <<Minus>> THEN -1 ELSE 1) * ValueOf(digits, shown[1]))
    <2> DEFINE v == value
    <2>1. v \in Int /\ ValueOf(digits, shown[1]) = v
      <3> HIDE DEF digits
      <3>1. QED
        BY <1>1, <1>10, <1>13
    <2>2. Parsed(text, base)[1] = IF CharAt(text, a) = Minus THEN Wrap(-v) ELSE Wrap(v)
      <3>1. Parsed(text, base) = <<IF CharAt(text, a) = Minus THEN Wrap(-v) ELSE Wrap(v), end>>
        BY <1>1
      <3> HIDE DEF v, end
      <3>2. QED
        BY <3>1
    <2> HIDE DEF v, sign, digits
    <2>3. -1 * v = -v /\ 1 * v = v
      BY <2>1
    <2>4. QED
      BY <1>9, <2>1, <2>2, <2>3
  <1> HIDE DEF sign, digits, i, j, end
  <1>18. QED
    BY <1>3, <1>4, <1>6, <1>9, <1>12, <1>14, <1>15, <1>16, <1>17
       DEF IsNumeral, sign, digits, shown

-----------------------------------------------------------------------------
(* Writing. *)

LEMMA DigitCharFacts ==
    ASSUME NEW d \in 0 .. 35
    PROVE  LET c == DigitChar(d)
           IN  /\ c \in 1 .. 127 /\ c \notin UpperA .. UpperZ
               /\ ~Isspace(c) /\ c \notin {Plus, Minus}
               /\ DigitValue(c) = d
  BY DEF DigitChar, Isspace, Plus, Minus, DigitValue, Isdigit, Toupper,
         Zero, Nine, UpperA, UpperZ, LowerA, LowerZ

(* One round of the division of a number that is not negative.             *)
LEMMA QuotientFacts ==
    ASSUME NEW i \in Nat, NEW base \in 2 .. 36
    PROVE  /\ Quotient(i, base) \in Nat /\ Remainder(i, base) \in 0 .. base - 1
           /\ Quotient(i, base) * base + Remainder(i, base) = i
           /\ 2 * Quotient(i, base) <= i
  <1> DEFINE q == i \div base
             r == i % base
  <1>1. q \in Int /\ r \in 0 .. base - 1 /\ i = base * q + r
    OBVIOUS
  <1>2. Quotient(i, base) = q /\ Remainder(i, base) = i - base * Quotient(i, base)
    BY DEF Quotient, Remainder
  <1> HIDE DEF q, r
  <1>3. q >= 0
    <2>1. q <= -1 => base * q <= -base
      BY <1>1
    <2>2. base * q \in Int
      BY <1>1
    <2>3. QED
      BY <1>1, <2>1, <2>2
  <1>4. q * base = base * q /\ 2 * q <= base * q /\ base * q \in Int
    <2>1. q * base = base * q /\ base * q \in Int
      BY <1>1
    <2>2. (base - 2) * q >= 0
      BY <1>1, <1>3
    <2>3. (base - 2) * q = base * q - 2 * q
      BY <1>1
    <2>4. QED
      BY <1>1, <2>1, <2>2, <2>3
  <1>5. QED
    BY <1>1, <1>2, <1>3, <1>4

(* What is left of a number falls to 0 within as many rounds as it has bits. *)
LEMMA RestFalls ==
    ASSUME NEW num \in 0 .. IntMax, NEW base \in 2 .. 36
    PROVE  LET rest == Rest(num, base)
           IN  /\ rest[0] = num
               /\ \A n \in Nat : /\ rest[n] \in 0 .. IntMax
                                  /\ Remainder(rest[n], base) \in 0 .. base - 1
                                  /\ rest[n + 1] * base + Remainder(rest[n], base) = rest[n]
               /\ rest[IntBits - 1] = 0 /\ rest[IntBits] = 0
  <1> DEFINE rest == Rest(num, base)
             S == {n \in Nat : rest[n] \in 0 .. IntMax}
             T == {n \in Nat : n <= IntBits - 1 => rest[n] < Pow2[IntBits - 1 - n]}
  <1>1. IntMax \in Nat /\ IntBits - 1 \in Nat /\ IntMax = Pow2[IntBits - 1] - 1
    BY IntegerFacts, IntBitsIsPositive DEF IntMax
  <1>2. rest[0] = num /\ \A n \in Nat : rest[n + 1] = Quotient(rest[n], base)
    <2>1. num \in Int /\ base \in Nat \ {0}
      BY <1>1
    <2>2. QED
      BY <2>1, RestIs
  <1> HIDE DEF rest
  <1>3. \A n \in Nat : rest[n] \in 0 .. IntMax
    <2>1. 0 \in S
      BY <1>2
    <2>2. ASSUME NEW n \in Nat, n \in S PROVE n + 1 \in S
      <3>1. rest[n] \in Nat /\ rest[n] <= IntMax
        BY <1>1, <2>2
      <3>2. rest[n + 1] \in Nat /\ 2 * rest[n + 1] <= rest[n]
        BY <1>2, <3>1, QuotientFacts
      <3>3. QED
        BY <1>1, <3>1, <3>2
    <2>3. Nat \subseteq S
      <3> HIDE DEF S
      <3>1. QED
        BY <2>1, <2>2, InductionOnSet
    <2>4. QED
      BY <2>3
  <1>4. \A n \in Nat : /\ Remainder(rest[n], base) \in 0 .. base - 1
                       /\ rest[n + 1] * base + Remainder(rest[n], base) = rest[n]
                       /\ 2 * rest[n + 1] <= rest[n]
    <2>1. \A n \in Nat : rest[n] \in Nat
      BY <1>1, <1>3
    <2>2. QED
      BY <1>2, <2>1, QuotientFacts
  <1>5. IntBits - 1 \in T
    <2>1. 0 \in T
      <3>1. IntBits - 1 - 0 = IntBits - 1 /\ Pow2[IntBits - 1] \in Nat
        BY <1>1, Pow2Facts
      <3>2. QED
        BY <1>1, <1>2, <3>1
    <2>2. ASSUME NEW n \in Nat, n \in T PROVE n + 1 \in T
      <3>1. SUFFICES ASSUME n + 1 <= IntBits - 1
                     PROVE  rest[n + 1] < Pow2[IntBits - 1 - (n + 1)]
        OBVIOUS
      <3>2. IntBits - 1 - (n + 1) \in Nat /\ IntBits - 1 - n = (IntBits - 1 - (n + 1)) + 1
        BY <1>1, <3>1
      <3> DEFINE p == Pow2[IntBits - 1 - (n + 1)]
      <3>3. p \in Nat /\ Pow2[IntBits - 1 - n] = 2 * p
        BY <3>2, Pow2Facts
      <3>4. rest[n] < 2 * p
        BY <1>1, <2>2, <3>1, <3>3
      <3>5. rest[n] \in Int /\ rest[n + 1] \in Int /\ 2 * rest[n + 1] <= rest[n]
        BY <1>1, <1>3, <1>4
      <3> HIDE DEF p
      <3>6. rest[n + 1] < p
        BY <3>3, <3>4, <3>5
      <3>7. QED
        BY <3>6 DEF p
    <2>3. Nat \subseteq T
      <3> HIDE DEF T
      <3>1. QED
        BY <2>1, <2>2, InductionOnSet
    <2>4. QED
      BY <1>1, <2>3
  <1>6. rest[IntBits - 1] = 0
    <2>1. rest[IntBits - 1] < Pow2[IntBits - 1 - (IntBits - 1)]
      BY <1>1, <1>5
    <2>2. IntBits - 1 - (IntBits - 1) = 0
      BY <1>1
    <2>3. rest[IntBits - 1] \in Nat /\ rest[IntBits - 1] < 1
      BY <1>1, <1>3, <2>1, <2>2, Pow2Facts
    <2>4. QED
      BY <2>3
  <1>7. rest[IntBits] = 0
    <2>1. (IntBits - 1) + 1 = IntBits
      BY IntBitsIsPositive
    <2>2. rest[IntBits] \in Nat /\ 2 * rest[IntBits] <= 0
      BY <1>1, <1>3, <1>4, <1>6, <2>1
    <2>3. QED
      BY <2>2
  <1>8. QED
    BY <1>2, <1>3, <1>4, <1>6, <1>7 DEF rest

(* The digits of a number that is not negative: one a round, of which      *)
(* there are fewer than bits, or one.                                      *)
LEMMA DigitsOfIs ==
    ASSUME NEW num \in 0 .. IntMax, NEW base \in 2 .. 36
    PROVE  \E k \in 1 .. IntBits :
              /\ k = 1 \/ k <= IntBits - 1
              /\ Rest(num, base)[k] = 0
              /\ DigitsOf(num, base) =
                    [n \in 1 .. k |-> DigitChar(Remainder(Rest(num, base)[n - 1], base))]
  <1> DEFINE rest == Rest(num, base)
             T == {n \in 1 .. IntBits : rest[n] = 0}
             First(n) == rest[n] = 0 /\ \A m \in 1 .. n - 1 : rest[m] # 0
             k == CHOOSE n \in 1 .. IntBits : First(n)
  <1>1. IntBits \in Nat \ {0} /\ rest[IntBits] = 0 /\ rest[IntBits - 1] = 0
    BY IntBitsIsPositive, RestFalls
  <1>2. DigitsOf(num, base) = [n \in 1 .. k |-> DigitChar(Remainder(rest[n - 1], base))]
    BY DEF DigitsOf
  <1> HIDE DEF rest
  <1>3. PICK m \in T : \A n \in T : m <= n
    <2>1. T \subseteq Nat /\ IntBits \in T
      BY <1>1
    <2> HIDE DEF T
    <2>2. QED
      BY <2>1, LeastElement
  <1>4. m \in 1 .. IntBits /\ First(m)
    BY <1>1, <1>3
  <1>5. k \in 1 .. IntBits /\ First(k)
    <2> HIDE DEF First
    <2>1. QED
      BY <1>4
  <1> HIDE DEF k
  <1>6. k = 1 \/ k <= IntBits - 1
    <2>1. SUFFICES ASSUME k # 1, k > IntBits - 1 PROVE FALSE
      BY <1>1, <1>5
    <2>2. IntBits - 1 \in 1 .. k - 1
      BY <1>1, <1>5, <2>1
    <2>3. QED
      BY <1>1, <1>5, <2>2
  <1>7. QED
    BY <1>2, <1>5, <1>6 DEF rest

(* The digits of a number, as they stand in the buffer after the reversal: *)
(* strtoint accumulates the number from them again, since what it has      *)
(* before a digit is what was left of the number behind that digit.        *)
LEMMA DigitsReadBack ==
    ASSUME NEW num \in 0 .. IntMax, NEW base \in 2 .. 36
    PROVE  LET s == Reverse(DigitsOf(num, base))
           IN  /\ s \in Seq(1 .. 127)
               /\ Len(s) \in 1 .. IntBits /\ (Len(s) = 1 \/ Len(s) <= IntBits - 1)
               /\ \A n \in 1 .. Len(s) : /\ s[n] \notin UpperA .. UpperZ /\ ~Isspace(s[n])
                                          /\ s[n] \notin {Plus, Minus} /\ IsDigitOf(s[n], base)
               /\ Accumulated(s, base)[Len(s)] = num
  <1> DEFINE rest == Rest(num, base)
             s == Reverse(DigitsOf(num, base))
             acc == Accumulated(s, base)
             d(n) == Remainder(rest[n], base)
  <1>1. PICK k \in 1 .. IntBits :
              /\ k = 1 \/ k <= IntBits - 1
              /\ rest[k] = 0
              /\ DigitsOf(num, base) = [n \in 1 .. k |-> DigitChar(d(n - 1))]
    BY DigitsOfIs
  <1>2. k \in Nat \ {0} /\ IntBits \in Nat /\ IntMax \in Nat /\ base \in Nat
    BY IntBitsIsPositive, IntegerFacts
  <1>3. /\ rest[0] = num
        /\ \A n \in Nat : /\ rest[n] \in 0 .. IntMax /\ d(n) \in 0 .. base - 1
                           /\ rest[n + 1] * base + d(n) = rest[n]
    BY RestFalls
  <1>4. acc[0] = 0 /\ \A n \in Nat : acc[n + 1] = Wrap(Wrap(acc[n] * base) + DigitValue(s[n + 1]))
    BY <1>2, AccumulatedIs
  <1> HIDE DEF rest, d, acc
  <1>5. s = [n \in 1 .. k |-> DigitChar(d(k - n))]
    <2> DEFINE t == DigitsOf(num, base)
    <2>1. t = [n \in 1 .. k |-> DigitChar(d(n - 1))]
      BY <1>1
    <2>2. s = [n \in 1 .. Len(t) |-> t[(Len(t) - n) + 1]]
      BY DEF Reverse
    <2> HIDE DEF s, t
    <2>3. Len(t) = k
      BY <1>2, <2>1
    <2>4. \A n \in 1 .. k : t[(k - n) + 1] = DigitChar(d(k - n))
      <3>1. \A n \in 1 .. k : (k - n) + 1 \in 1 .. k /\ ((k - n) + 1) - 1 = k - n
        BY <1>2
      <3>2. QED
        BY <2>1, <3>1
    <2>5. QED
      BY <2>2, <2>3, <2>4
  <1> HIDE DEF s
  <1>6. ASSUME NEW n \in 1 .. k
        PROVE  /\ s[n] \in 1 .. 127 /\ s[n] \notin UpperA .. UpperZ /\ ~Isspace(s[n])
               /\ s[n] \notin {Plus, Minus} /\ IsDigitOf(s[n], base)
               /\ DigitValue(s[n]) = d(k - n)
    <2>1. k - n \in Nat
      BY <1>2
    <2>2. d(k - n) \in 0 .. base - 1
      BY <1>3, <2>1
    <2>3. d(k - n) \in 0 .. 35 /\ d(k - n) < base
      BY <2>2
    <2>4. s[n] = DigitChar(d(k - n))
      BY <1>5
    <2>5. /\ s[n] \in 1 .. 127 /\ s[n] \notin UpperA .. UpperZ
          /\ ~Isspace(s[n]) /\ s[n] \notin {Plus, Minus} /\ DigitValue(s[n]) = d(k - n)
      BY <2>3, <2>4, DigitCharFacts
    <2>6. QED
      BY <2>3, <2>5 DEF IsDigitOf
  <1>7. s \in Seq(1 .. 127) /\ Len(s) = k
    <2>1. s \in [1 .. k -> 1 .. 127]
      BY <1>5, <1>6
    <2>2. QED
      BY <1>2, <2>1
  <1> DEFINE S == {n \in Nat : n <= k => acc[n] = rest[k - n]}
  <1>8. 0 \in S
    <2>1. k - 0 = k
      BY <1>2
    <2>2. QED
      BY <1>1, <1>4, <2>1
  <1>9. ASSUME NEW n \in Nat, n \in S PROVE n + 1 \in S
    <2>1. SUFFICES ASSUME n + 1 <= k PROVE acc[n + 1] = rest[k - (n + 1)]
      OBVIOUS
    <2> DEFINE m == k - (n + 1)
    <2>2. m \in Nat /\ m + 1 = k - n /\ n + 1 \in 1 .. k
      BY <1>2, <2>1
    <2>3. acc[n] = rest[m + 1] /\ DigitValue(s[n + 1]) = d(m)
      BY <1>2, <1>6, <1>9, <2>1, <2>2
    <2> HIDE DEF m
    <2>4. /\ rest[m] \in Int /\ 0 <= rest[m] /\ rest[m] <= IntMax
          /\ rest[m + 1] \in Int /\ 0 <= rest[m + 1]
          /\ d(m) \in Int /\ 0 <= d(m)
          /\ rest[m + 1] * base + d(m) = rest[m]
      BY <1>2, <1>3, <2>2
    <2> DEFINE x == rest[m + 1] * base
    <2>5. x \in Int /\ x >= 0
      BY <1>2, <2>4
    <2>6. x + d(m) = rest[m]
      BY <2>4
    <2> HIDE DEF x
    <2>7. x \in XInt /\ rest[m] \in XInt
      BY <2>4, <2>5, <2>6, IntegerFacts
    <2>8. Wrap(x) = x /\ Wrap(rest[m]) = rest[m]
      BY <2>7, WrapFacts
    <2>9. acc[n + 1] = Wrap(Wrap(x) + d(m))
      BY <1>4, <2>3 DEF x
    <2>10. QED
      BY <2>6, <2>8, <2>9 DEF m
  <1>10. k \in S
    <2> HIDE DEF S
    <2>1. QED
      BY <1>2, <1>8, <1>9, InductionOnSet
  <1>11. acc[k] = num
    <2>1. k - k = 0
      BY <1>2
    <2>2. QED
      BY <1>2, <1>3, <1>10, <2>1
  <1>12. /\ s \in Seq(1 .. 127)
         /\ Len(s) \in 1 .. IntBits /\ (Len(s) = 1 \/ Len(s) <= IntBits - 1)
         /\ acc[Len(s)] = num
    BY <1>1, <1>7, <1>11
  <1>13. \A n \in 1 .. Len(s) : /\ s[n] \notin UpperA .. UpperZ /\ ~Isspace(s[n])
                                /\ s[n] \notin {Plus, Minus} /\ IsDigitOf(s[n], base)
    BY <1>6, <1>7
  <1>14. QED
    BY <1>12, <1>13 DEF s, acc

(* A sign and digits are read to the end.                                  *)
LEMMA NumeralReadBack ==
    ASSUME NEW s \in Seq(1 .. 127), NEW base \in 2 .. 36, Len(s) >= 1,
           \A n \in 1 .. Len(s) :
              ~Isspace(s[n]) /\ s[n] \notin {Plus, Minus} /\ IsDigitOf(s[n], base),
           NEW lead \in {<<>>, <<Minus>>}
    PROVE  LET acc == Accumulated(s, base)[Len(s)]
           IN  Parsed(lead \o s, base) =
                  <<IF lead = <<>> THEN acc ELSE Wrap(-acc), Len(lead) + Len(s)>>
  <1> DEFINE text == lead \o s
             l == Len(lead)
  <1>1. /\ Len(s) \in Nat /\ l \in {0, 1} /\ (lead = <<>> <=> l = 0) /\ lead \in Seq(1 .. 127)
        /\ \A n \in 1 .. l : lead[n] = Minus
    <2>1. CASE lead = <<>>
      BY <2>1
    <2>2. CASE lead = <<Minus>>
      BY <2>2 DEF Minus
    <2>3. QED
      BY <2>1, <2>2
  <1>2. /\ text \in Seq(1 .. 127) /\ Len(text) = l + Len(s)
        /\ \A n \in 1 .. l + Len(s) : text[n] = IF n <= l THEN lead[n] ELSE s[n - l]
    BY <1>1, ConcatProperties
  <1>3. \A n \in 1 .. Len(s) : text[n + l] = s[n]
    <2>1. \A n \in 1 .. Len(s) : n + l \in 1 .. l + Len(s) /\ ~(n + l <= l) /\ (n + l) - l = n
      BY <1>1
    <2>2. QED
      BY <1>2, <2>1
  <1> HIDE DEF text, l
  <1>4. PICK a, p, b, f, e :
              LET value == ValueOf(SubSeq(text, f, e - 1), b)
              IN  /\ Passes(text, base, a, p, b, f, e)
                  /\ value \in Int
                  /\ Parsed(text, base) =
                        <<IF CharAt(text, a) = Minus THEN Wrap(-value) ELSE Wrap(value), e - 1>>
    <2>1. base \in {0} \cup 2 .. 36 /\ text \in Seq(1 .. 127)
      BY <1>2
    <2>2. QED
      BY <2>1, ParsedIs
  <1> DEFINE v == ValueOf(SubSeq(text, f, e - 1), b)
  <1>5. /\ v \in Int
        /\ Parsed(text, base) = <<IF CharAt(text, a) = Minus THEN Wrap(-v) ELSE Wrap(v), e - 1>>
    BY <1>4
  <1> HIDE DEF v
  <1>6. Passes(text, base, a, p, b, f, e) /\ Len(text) \in Nat \ {0}
    BY <1>1, <1>2, <1>4
  <1>7. text[1] = IF l = 0 THEN s[1] ELSE Minus
    <2>1. 1 \in 1 .. l + Len(s)
      BY <1>1
    <2>2. l # 0 => 1 <= l /\ 1 \in 1 .. l
      BY <1>1
    <2>3. l = 0 => ~(1 <= l) /\ 1 - l = 1
      BY <1>1
    <2>4. QED
      BY <1>1, <1>2, <2>1, <2>2, <2>3
  <1>8. ~Isspace(text[1]) /\ (text[1] \in {Plus, Minus} <=> l # 0) /\ (text[1] = Minus <=> l # 0)
    <2>1. ~Isspace(Minus)
      BY DEF Isspace, Minus
    <2>2. 1 \in 1 .. Len(s)
      BY <1>1
    <2>3. QED
      BY <1>1, <1>7, <2>1, <2>2
  <1>9. a = 1 /\ CharAt(text, a) = text[1]
    <2>1. a \in 1 .. Len(text) + 1 /\ \A r \in 1 .. a - 1 : Isspace(text[r])
      BY <1>6 DEF Passes
    <2>2. a = 1
      <3>1. SUFFICES ASSUME a # 1 PROVE FALSE
        OBVIOUS
      <3>2. 1 \in 1 .. a - 1
        BY <1>6, <2>1, <3>1
      <3>3. QED
        BY <1>8, <2>1, <3>2
    <2>3. QED
      BY <1>6, <2>2 DEF CharAt
  <1>10. p = l + 1 /\ b = base /\ f = p
    <2>1. p = IF text[1] \in {Plus, Minus} THEN 2 ELSE 1
      BY <1>6, <1>9 DEF Passes
    <2>2. p = l + 1
      BY <1>1, <1>8, <2>1
    <2>3. Detected(text, p, base) = <<base, 0>>
      BY DEF Detected
    <2>4. QED
      BY <1>1, <1>6, <2>2, <2>3 DEF Passes
  <1>11. e = Len(text) + 1
    <2>1. /\ e \in f .. Len(text) + 1
          /\ e = Len(text) + 1 \/ ~IsDigitOf(text[e], base)
      BY <1>6, <1>10 DEF Passes, DigitsEnd
    <2>2. SUFFICES ASSUME e # Len(text) + 1 PROVE FALSE
      OBVIOUS
    <2>3. e - l \in 1 .. Len(s) /\ (e - l) + l = e
      BY <1>1, <1>2, <1>6, <1>10, <2>1, <2>2
    <2>4. text[e] = s[e - l]
      BY <1>3, <2>3
    <2>5. QED
      BY <2>1, <2>2, <2>3, <2>4
  <1>12. SubSeq(text, f, e - 1) = s
    <2> DEFINE t == SubSeq(text, f, e - 1)
    <2>1. f = l + 1 /\ e - 1 = l + Len(s) /\ f \in Int /\ e - 1 \in Int
      BY <1>1, <1>2, <1>10, <1>11
    <2>2. \A i \in f .. e - 1 : text[i] \in 1 .. 127
      <3>1. \A i \in f .. e - 1 : i \in 1 .. Len(text)
        BY <1>1, <1>2, <2>1
      <3>2. QED
        BY <1>2, <3>1, ElementOfSeq
    <2>3. /\ t \in Seq(1 .. 127)
          /\ Len(t) = IF f <= e - 1 THEN (e - 1) - f + 1 ELSE 0
          /\ \A i \in 1 .. (e - 1) - f + 1 : t[i] = text[f + i - 1]
      BY <2>1, <2>2, SubSeqProperties
    <2> HIDE DEF t
    <2>4. Len(t) = Len(s)
      BY <1>1, <2>1, <2>3
    <2>5. \A i \in 1 .. Len(s) : t[i] = s[i]
      <3>1. \A i \in 1 .. Len(s) : i \in 1 .. (e - 1) - f + 1 /\ f + i - 1 = i + l
        BY <1>1, <2>1
      <3>2. QED
        BY <1>3, <2>3, <3>1
    <2>6. t = s
      BY <2>3, <2>4, <2>5, SeqEqual
    <2>7. QED
      BY <2>6 DEF t
  <1>13. Accumulated(s, base)[Len(s)] = Wrap(v)
    <2>1. s \in Seq(Digits(base))
      <3>1. \A n \in 1 .. Len(s) : s[n] \in Digits(base)
        <4>1. base \in 0 .. 36
          OBVIOUS
        <4>2. QED
          BY <4>1, DigitsAre
      <3>2. QED
        BY <3>1
    <2>2. base \in 0 .. 36
      OBVIOUS
    <2>3. QED
      BY <1>10, <1>12, <2>1, <2>2, AccumulatesValue DEF v
  <1>14. Wrap(-Wrap(v)) = Wrap(-v)
    BY <1>5, WrapsOnce
  <1>15. e - 1 = Len(lead) + Len(s)
    BY <1>1, <1>2, <1>11 DEF l
  <1>16. CharAt(text, a) = Minus <=> lead # <<>>
    BY <1>1, <1>8, <1>9
  <1>17. QED
    BY <1>5, <1>13, <1>14, <1>15, <1>16 DEF text

LEMMA WrittenReadsBack ==
    ASSUME NEW num \in XInt, num # IntMin, NEW base \in 2 .. 36
    PROVE  IsTextOf(Written(num, base), num, base)
  <1> DEFINE m == IF num < 0 THEN Wrap(-num) ELSE num
             lead == IF num < 0 THEN <<Minus>> ELSE <<>>
             s == Reverse(DigitsOf(m, base))
             chars == lead \o s
             text == chars \o <<NUL>>
  <1>1. IntBits \in Nat \ {0} /\ IntMax \in Nat /\ num \in Int
    BY IntBitsIsPositive, IntegerFacts
  <1>2. m \in 0 .. IntMax /\ num = IF lead = <<>> THEN m ELSE Wrap(-m)
    <2>1. IntMin = -IntMax - 1 /\ XInt = IntMin .. IntMax
      BY DEF IntMin, XInt
    <2>2. CASE num < 0
      <3>1. -num \in 0 .. IntMax /\ -num \in XInt /\ -(-num) = num
        BY <1>1, <2>1, <2>2
      <3>2. Wrap(-num) = -num /\ Wrap(num) = num
        BY <3>1, WrapFacts
      <3>3. QED
        BY <2>2, <3>1, <3>2
    <2>3. CASE ~(num < 0)
      BY <1>1, <2>1, <2>3
    <2>4. QED
      BY <2>2, <2>3
  <1>3. num < 0 => IntBits >= 2
    <2>1. SUFFICES ASSUME num < 0, IntBits = 1 PROVE FALSE
      BY <1>1
    <2>2. IntMax = 0
      BY <2>1, Pow2Facts DEF IntMax
    <2>3. QED
      BY <1>1, <2>1, <2>2 DEF IntMin, XInt
  <1>4. Written(num, base) = text
    <2>1. CASE num < 0
      BY <2>1 DEF Written
    <2>2. CASE ~(num < 0)
      <3>1. DigitsOf(num, base) = DigitsOf(m, base) /\ lead = <<>>
        BY <2>2
      <3>2. s \in Seq(1 .. 127)
        BY <1>2, DigitsReadBack
      <3> HIDE DEF s
      <3>3. chars = s
        BY <3>1, <3>2
      <3>4. QED
        BY <2>2, <3>3 DEF Written, s
    <2>3. QED
      BY <2>1, <2>2
  <1> HIDE DEF m
  <1>5. /\ s \in Seq(1 .. 127)
        /\ Len(s) \in 1 .. IntBits /\ (Len(s) = 1 \/ Len(s) <= IntBits - 1)
        /\ \A n \in 1 .. Len(s) : /\ s[n] \notin UpperA .. UpperZ /\ ~Isspace(s[n])
                                   /\ s[n] \notin {Plus, Minus} /\ IsDigitOf(s[n], base)
        /\ Accumulated(s, base)[Len(s)] = m
    BY <1>2, DigitsReadBack
  <1> HIDE DEF s
  <1>6. lead \in {<<>>, <<Minus>>} /\ Len(s) >= 1
    BY <1>1, <1>5
  <1>7. Parsed(chars, base) = <<num, Len(lead) + Len(s)>>
    <2> HIDE DEF lead
    <2>1. Parsed(lead \o s, base) =
             <<IF lead = <<>> THEN Accumulated(s, base)[Len(s)]
                             ELSE Wrap(-Accumulated(s, base)[Len(s)]), Len(lead) + Len(s)>>
      BY <1>5, <1>6, NumeralReadBack
    <2>2. QED
      BY <1>2, <1>5, <2>1
  <1>8. /\ lead \in Seq(1 .. 127) /\ Len(lead) = IF num < 0 THEN 1 ELSE 0
        /\ \A n \in 1 .. Len(lead) : lead[n] = Minus
    <2>1. CASE num < 0
      BY <2>1 DEF Minus
    <2>2. CASE ~(num < 0)
      BY <2>2
    <2>3. QED
      BY <2>1, <2>2
  <1> HIDE DEF lead
  <1>9. /\ chars \in Seq(1 .. 127) /\ Len(chars) = Len(lead) + Len(s)
        /\ \A n \in 1 .. Len(chars) : chars[n] \notin UpperA .. UpperZ
    <2>1. /\ chars \in Seq(1 .. 127) /\ Len(chars) = Len(lead) + Len(s)
          /\ \A n \in 1 .. Len(lead) + Len(s) :
                chars[n] = IF n <= Len(lead) THEN lead[n] ELSE s[n - Len(lead)]
      <3>1. lead \in Seq(1 .. 127) /\ s \in Seq(1 .. 127)
        BY <1>5, <1>8
      <3>2. QED
        BY <3>1, ConcatProperties
    <2> HIDE DEF chars
    <2>2. Minus \notin UpperA .. UpperZ
      BY DEF Minus, UpperA, UpperZ
    <2>3. ASSUME NEW n \in 1 .. Len(chars) PROVE chars[n] \notin UpperA .. UpperZ
      <3>1. CASE n <= Len(lead)
        BY <1>5, <1>8, <2>1, <2>2, <3>1
      <3>2. CASE ~(n <= Len(lead))
        <4>1. n - Len(lead) \in 1 .. Len(s)
          BY <1>5, <1>8, <2>1, <3>2
        <4>2. chars[n] = s[n - Len(lead)]
          BY <2>1, <3>2
        <4>3. QED
          BY <1>5, <4>1, <4>2
      <3>3. QED
        BY <3>1, <3>2
    <2>4. QED
      BY <2>1, <2>3
  <1> HIDE DEF chars
  <1> DEFINE l == Len(chars)
  <1>10. /\ l \in Nat /\ text \in Seq(0 .. 127) /\ Len(text) = l + 1
         /\ \A n \in 1 .. l : text[n] = chars[n]
         /\ text[l + 1] = NUL
    <2>1. chars \in Seq(0 .. 127) /\ <<NUL>> \in Seq(0 .. 127) /\ l \in Nat
      BY <1>9 DEF NUL
    <2>2. /\ text \in Seq(0 .. 127) /\ Len(text) = l + 1
          /\ \A n \in 1 .. l + 1 : text[n] = IF n <= l THEN chars[n] ELSE <<NUL>>[n - l]
      <3>1. Len(<<NUL>>) = 1
        OBVIOUS
      <3>2. QED
        BY <2>1, <3>1, ConcatProperties
    <2> HIDE DEF text, l
    <2>3. \A n \in 1 .. l : text[n] = chars[n]
      BY <2>1, <2>2
    <2>4. text[l + 1] = NUL
      <3>1. l + 1 \in 1 .. l + 1 /\ ~(l + 1 <= l) /\ (l + 1) - l = 1
        BY <2>1
      <3>2. QED
        BY <2>2, <3>1
    <2>5. QED
      BY <2>1, <2>2, <2>3, <2>4
  <1> HIDE DEF text
  <1>11. Front(text) = chars /\ Last(text) = NUL /\ text # <<>>
    <2>1. text # <<>>
      BY <1>10
    <2>2. /\ Front(text) \in Seq(0 .. 127) /\ Len(Front(text)) = Len(text) - 1
          /\ \A n \in 1 .. Len(text) - 1 : Front(text)[n] = text[n]
          /\ Last(text) = text[Len(text)]
      <3> DEFINE S == 0 .. 127
      <3>1. text \in Seq(S)
        BY <1>10
      <3> HIDE DEF S
      <3>2. /\ Front(text) \in Seq(S) /\ Len(Front(text)) = Len(text) - 1
            /\ \A n \in 1 .. Len(text) - 1 : Front(text)[n] = text[n]
            /\ Last(text) = text[Len(text)]
        BY <2>1, <3>1, FrontFacts
      <3>3. QED
        BY <3>2 DEF S
    <2>3. chars \in Seq(0 .. 127) /\ Len(text) - 1 = l
      BY <1>9, <1>10
    <2>4. Front(text) = chars
      BY <1>10, <2>2, <2>3, SeqEqual
    <2>5. QED
      BY <1>10, <2>1, <2>2, <2>4
  <1>12. Len(text) <= IntBits + 1
    BY <1>1, <1>3, <1>5, <1>8, <1>9, <1>10
  <1>13. Range(text) \cap (UpperA .. UpperZ) = {}
    <2>1. DOMAIN text = 1 .. l + 1
      BY <1>10
    <2>2. NUL \notin UpperA .. UpperZ
      BY DEF NUL, UpperA, UpperZ
    <2>3. ASSUME NEW n \in DOMAIN text PROVE text[n] \notin UpperA .. UpperZ
      <3>1. n \in 1 .. l \/ n = l + 1
        BY <1>10, <2>1
      <3>2. QED
        BY <1>9, <1>10, <2>2, <3>1
    <2>4. QED
      BY <2>3 DEF Range
  <1>14. NUL \notin Range(chars)
    <2>1. chars \in Seq(1 .. 127) /\ DOMAIN chars = 1 .. Len(chars)
      BY <1>9
    <2>2. ASSUME NEW n \in DOMAIN chars PROVE chars[n] # NUL
      <3>1. chars[n] \in 1 .. 127
        BY <2>1, ElementOfSeq
      <3>2. QED
        BY <3>1 DEF NUL
    <2>3. QED
      BY <2>2 DEF Range
  <1>15. IsTextOf(text, num, base)
    BY <1>7, <1>9, <1>11, <1>12, <1>13, <1>14 DEF IsTextOf, NULL
  <1>16. QED
    BY <1>4, <1>15 DEF text, chars

-----------------------------------------------------------------------------
(* No function but strtoint and inttostr is one of the two.                *)
LEMMA OthersConvertNothing ==
    ASSUME StdlibNext
    PROVE  call'.fn \notin {"strtoint", "inttostr"}
  <1>1. ASSUME NEW fn, fn \notin {"strtoint", "inttostr"}, NEW args, NEW value, NEW read,
               Return(fn, args, value, read)
        PROVE  call'.fn \notin {"strtoint", "inttostr"}
    <2>1. call' = [fn |-> fn, args |-> args, value |-> value, read |-> read]
      BY <1>1 DEF Return
    <2>2. QED
      BY <1>1, <2>1
  <1>2. CASE TakeValue
    BY <1>2 DEF TakeValue, None
  <1>3. CASE \E i \in Int3 : x_lib_abs(i)
    BY <1>1, <1>3 DEF x_lib_abs
  <1>4. CASE \E p \in Addr, c \in Int3 : x_lib_strchr(p, c)
    BY <1>1, <1>4 DEF x_lib_strchr
  <1>5. CASE \E p \in Addr, c \in Int3, n \in Size : x_lib_memset(p, c, n)
    BY <1>1, <1>5 DEF x_lib_memset
  <1>6. CASE \E p \in Addr : x_lib_strlen(p)
    BY <1>1, <1>6 DEF x_lib_strlen
  <1>7. CASE \E p, q \in Addr : x_lib_strcmp(p, q)
    BY <1>1, <1>7 DEF x_lib_strcmp
  <1>8. CASE \E p, q \in Addr, n \in Size : x_lib_memcpy(p, q, n)
    BY <1>1, <1>8 DEF x_lib_memcpy
  <1>9. CASE \E p, q \in Addr, n \in Size : x_lib_strncmp(p, q, n)
    BY <1>1, <1>9 DEF x_lib_strncmp
  <1>10. CASE \E p \in Addr, n \in Size, ok \in BOOLEAN : x_lib_strndup(p, n, ok)
    BY <1>1, <1>10 DEF x_lib_strndup
  <1>11. CASE \E p \in Addr, n \in Size, ok \in BOOLEAN : x_lib_memdup(<<p>>, n, ok)
    BY <1>1, <1>11 DEF x_lib_memdup
  <1>12. CASE \E n \in Size, ok \in BOOLEAN : x_lib_memdup(NULL, n, ok)
    BY <1>1, <1>12 DEF x_lib_memdup
  <1>13. QED
    BY <1>2, <1>3, <1>4, <1>5, <1>6, <1>7, <1>8, <1>9, <1>10, <1>11, <1>12 DEF StdlibNext

(* What strtoint returns for any text and any base it is documented for,   *)
(* whatever the width of an integer: the value of the longest numeral the  *)
(* text begins with, wrapped, and where that ends (x-lib.c:116-121).       *)
THEOREM StrtointReads == LibSpec => []ReadsLongestNumeral
  <1>1. Init => ReadsLongestNumeral
    BY DEF Init, None, ReadsLongestNumeral
  <1>2. ReadsLongestNumeral /\ [LibNext]_stdlibVars => ReadsLongestNumeral'
    <2>1. CASE UNCHANGED stdlibVars
      BY <2>1 DEF stdlibVars, ReadsLongestNumeral
    <2>2. CASE StdlibNext
      BY <2>2, OthersConvertNothing DEF ReadsLongestNumeral
    <2>3. ASSUME NEW num \in XInt, NEW base \in 0 .. 37, NEW p_str,
                 x_lib_inttostr(num, p_str, base)
          PROVE  ReadsLongestNumeral'
      BY <2>3 DEF x_lib_inttostr, Return, ReadsLongestNumeral
    <2>4. ASSUME NEW text \in Texts, NEW base \in Bases, x_lib_strtoint(text, base)
          PROVE  ReadsLongestNumeral'
      <3>1. text \in Seq(1 .. 127) /\ base \in {0} \cup 2 .. 36
        BY TextsAreASCII, BasesAreDocumented
      <3>2. IsNumeral(text, base, Parsed(text, base)[1], Parsed(text, base)[2])
        BY <3>1, ReadsNumeral
      <3>3. call'.args = <<text, base>> /\ call'.value = Parsed(text, base)
        BY <2>4 DEF x_lib_strtoint, Return
      <3>4. QED
        BY <3>2, <3>3 DEF ReadsLongestNumeral
    <2>5. QED
      BY <2>1, <2>2, <2>3, <2>4 DEF LibNext, TextNext
  <1>3. QED
    BY <1>1, <1>2, PTL DEF LibSpec

(* What inttostr writes of a number, in any base from 2 to 36 and in any   *)
(* width, fits the buffer its documentation asks for and is read back to   *)
(* its end as that number; the least number, which has no negative, is the *)
(* exception (see ConvertsEveryInteger).                                   *)
THEOREM InttostrReadsBack == LibSpec => []TextReadsBack
  <1>1. Init => TextReadsBack
    BY DEF Init, None, TextReadsBack
  <1>2. TextReadsBack /\ [LibNext]_stdlibVars => TextReadsBack'
    <2>1. CASE UNCHANGED stdlibVars
      BY <2>1 DEF stdlibVars, TextReadsBack
    <2>2. CASE StdlibNext
      BY <2>2, OthersConvertNothing DEF TextReadsBack
    <2>3. ASSUME NEW num \in XInt, NEW base \in 0 .. 37, NEW p_str,
                 x_lib_inttostr(num, p_str, base)
          PROVE  TextReadsBack'
      <3>1. /\ call'.args = <<num, base>>
            /\ call'.value = IF p_str = NULL \/ base < 2 \/ base > 36 THEN NULL
                                                              ELSE Written(num, base)
        BY <2>3 DEF x_lib_inttostr, Return
      <3>2. base \in 2 .. 36 /\ num # IntMin => IsTextOf(Written(num, base), num, base)
        BY WrittenReadsBack
      <3>3. ~(base < 2) /\ ~(base > 36) => base \in 2 .. 36
        OBVIOUS
      <3>4. QED
        BY <3>1, <3>2, <3>3 DEF TextReadsBack
    <2>4. ASSUME NEW text \in Texts, NEW base \in Bases, x_lib_strtoint(text, base)
          PROVE  TextReadsBack'
      BY <2>4 DEF x_lib_strtoint, Return, TextReadsBack
    <2>5. QED
      BY <2>1, <2>2, <2>3, <2>4 DEF LibNext, TextNext
  <1>3. QED
    BY <1>1, <1>2, PTL DEF LibSpec
=============================================================================
