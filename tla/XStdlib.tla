------------------------------- MODULE XStdlib -------------------------------
(***************************************************************************)
(* The freestanding string and memory functions of x-stdlib.c, and         *)
(* x_lib_memdup, which builds on them, called on a flat memory of bytes.   *)
(*                                                                         *)
(* A loop is the number of times its condition holds (Iterations).  Every  *)
(* call leaves its value and the addresses it has read in "call", so that  *)
(* both can be compared with what C99 promises.  A value is a              *)
(* sequence: a number or an address is a sequence of one, what a new block *)
(* holds is the sequence of its bytes, NULL is empty.                      *)
(*                                                                         *)
(* Definitions that a comment calls wrong are slips the properties must    *)
(* notice, not part of the specification (see XHeap).                      *)
(***************************************************************************)
EXTENDS Integers, Sequences

CONSTANTS
    CharBits,   \* width of a byte
    SizeBits,   \* width of size_t
    MemSize     \* bound: bytes of memory

(* 2 ^ w: how many values w bits have.                                     *)
Pow2[w \in Nat] == IF w = 0 THEN 1 ELSE 2 * Pow2[w - 1]

ByteValues == Pow2[CharBits]
SizeValues == Pow2[SizeBits]

ASSUME WidthsArePositive == {CharBits, SizeBits, MemSize} \subseteq Nat \ {0}
ASSUME SizeHoldsAddresses == MemSize < SizeValues

VARIABLES
    mem,    \* the memory
    call    \* the last call: function, arguments, value, addresses read

stdlibVars == <<mem, call>>

Addr == 0 .. MemSize - 1
Byte == 0 .. ByteValues - 1

NUL == 0
NULL == <<>>

(* Conversions: to unsigned char, and to a plain char, which is signed.    *)
UChar(c) == c % ByteValues
Char(c) == IF UChar(c) >= Pow2[CharBits - 1] THEN UChar(c) - ByteValues ELSE UChar(c)

(* n-- done k times, in the width of size_t *)
Decremented(n, k) == (n - k) % SizeValues

(* What is read behind the end of the memory is as good as anything. *)
At(p) == IF p \in Addr THEN mem[p] ELSE NUL

None == [fn |-> "none", args |-> <<>>, value |-> NULL, read |-> {}]

(* How often a loop goes round: Goes(k) is its condition after k rounds. *)
Iterations(Goes(_)) ==
    CHOOSE k \in 0 .. MemSize : ~Goes(k) /\ \A j \in 0 .. k - 1 : Goes(j)

Bytes(p, n) == [i \in 1 .. n |-> At(p + i - 1)]
Span(p, n) == p .. p + n - 1

Init ==
    /\ mem \in [Addr -> Byte]
    /\ call = None

Return(fn, args, value, read) ==
    /\ call = None
    /\ call' = [fn |-> fn, args |-> args, value |-> value, read |-> read]

(* What a caller may pass: a string ends somewhere, a block is all there.  *)
IsString(p) == \E q \in Addr : q >= p /\ mem[q] = NUL
IsBlock(p, n) == p + n <= MemSize
IsView(p, n) == IsString(p) \/ IsBlock(p, n)

-----------------------------------------------------------------------------
x_lib_abs(i) ==
    /\ Return("abs", <<i>>, <<IF i >= 0 THEN i ELSE -i>>, {})
    /\ UNCHANGED mem

x_lib_memcpy(dest, src, size) ==
    /\ IsBlock(dest, size) /\ IsBlock(src, size)
    /\ Span(dest, size) \cap Span(src, size) = {}
    /\ mem' = [p \in Addr |-> IF p \in Span(dest, size) THEN mem[p - dest + src] ELSE mem[p]]
    /\ Return("memcpy", <<dest, src, size>>, <<dest>>, Span(src, size))

x_lib_memset(dest, byte, size) ==
    /\ IsBlock(dest, size)
    /\ mem' = [p \in Addr |-> IF p \in Span(dest, size) THEN UChar(byte) ELSE mem[p]]
    /\ Return("memset", <<dest, byte, size>>, <<dest>>, {})

x_lib_strchr(s, c) ==
    LET k == Iterations(LAMBDA j : At(s + j) # NUL /\ Char(At(s + j)) # Char(c))
    IN  /\ IsString(s)
        /\ Return("strchr", <<s, c>>,
                  IF Char(At(s + k)) = Char(c) THEN <<s + k>> ELSE NULL,
                  Span(s, k + 1))
        /\ UNCHANGED mem

Matches(s1, s2, j) ==
    At(s1 + j) # NUL /\ At(s2 + j) # NUL /\ At(s2 + j) = At(s1 + j)

(* Wrong: the bytes are compared as plain chars.                           *)
DifferenceSigned(s1, s2, k) == Char(At(s1 + k)) - Char(At(s2 + k))

(* *ps1 - *ps2 at the end of a comparison, of unsigned chars *)
Difference(s1, s2, k) == At(s1 + k) - At(s2 + k)

x_lib_strcmp(s1, s2) ==
    LET k == Iterations(LAMBDA j : Matches(s1, s2, j))
    IN  /\ IsString(s1) /\ IsString(s2)
        /\ Return("strcmp", <<s1, s2>>, <<Difference(s1, s2, k)>>,
                  Span(s1, k + 1) \cup Span(s2, k + 1))
        /\ UNCHANGED mem

x_lib_strlen(s) ==
    LET k == Iterations(LAMBDA j : At(s + j) # NUL)
    IN  /\ IsString(s)
        /\ Return("strlen", <<s>>, <<k>>, Span(s, k + 1))
        /\ UNCHANGED mem

(* Wrong: without the test for 0 the first decrement wraps.                *)
x_lib_strncmpUnguarded(s1, s2, n) ==
    LET k == Iterations(LAMBDA j : Decremented(n, j + 1) # 0 /\ Matches(s1, s2, j))
    IN  /\ IsView(s1, n) /\ IsView(s2, n)
        /\ Return("strncmp", <<s1, s2, n>>, <<Difference(s1, s2, k)>>,
                  Span(s1, k + 1) \cup Span(s2, k + 1))
        /\ UNCHANGED mem

x_lib_strncmp(s1, s2, n) ==
    LET k == Iterations(LAMBDA j : Decremented(n, j + 1) # 0 /\ Matches(s1, s2, j))
    IN  /\ IsView(s1, n) /\ IsView(s2, n)
        /\ IF n = 0
           THEN Return("strncmp", <<s1, s2, n>>, <<0>>, {})
           ELSE Return("strncmp", <<s1, s2, n>>, <<Difference(s1, s2, k)>>,
                       Span(s1, k + 1) \cup Span(s2, k + 1))
        /\ UNCHANGED mem

(* Wrong: one byte more is copied, and then overwritten by the terminator. *)
x_lib_strndupLong(s, size, malloced) ==
    LET len == Iterations(LAMBDA j : j < size /\ At(s + j) # NUL)
    IN  /\ IsView(s, size)
        /\ Return("strndup", <<s, size>>,
                  IF malloced THEN Bytes(s, len) \o <<NUL>> ELSE NULL,
                  Span(s, len + 1))
        /\ UNCHANGED mem

(* The loop of strndup looks at a byte only if it is among the first size. *)
x_lib_strndup(s, size, malloced) ==
    LET len == Iterations(LAMBDA j : j < size /\ At(s + j) # NUL)
    IN  /\ IsView(s, size)
        /\ Return("strndup", <<s, size>>,
                  IF malloced THEN Bytes(s, len) \o <<NUL>> ELSE NULL,
                  Span(s, IF len < size THEN len + 1 ELSE len))
        /\ UNCHANGED mem

(* The block is copied from, or with no source left as malloc returned it, *)
(* or zeroed (X_OPT_MEMZERO): any bytes at all.                            *)
x_lib_memdup(src, size, malloced) ==
    /\ src # NULL => IsBlock(src[1], size)
    /\ \/ /\ ~malloced
          /\ Return("memdup", src \o <<size>>, NULL, {})
       \/ /\ malloced /\ src # NULL
          /\ Return("memdup", src \o <<size>>, Bytes(src[1], size), Span(src[1], size))
       \/ /\ malloced /\ src = NULL
          /\ \E bytes \in [1 .. size -> Byte] : Return("memdup", <<size>>, bytes, {})
    /\ UNCHANGED mem

-----------------------------------------------------------------------------
Size == 0 .. MemSize
Int3 == -ByteValues .. ByteValues      \* int arguments, wider than a char

(* The caller takes the value of a call. *)
TakeValue == call # None /\ call' = None /\ UNCHANGED mem

StdlibNext ==
    \/ \E i \in Int3 : x_lib_abs(i)
    \/ \E p \in Addr :
          \/ \E c \in Int3 : x_lib_strchr(p, c) \/ \E n \in Size : x_lib_memset(p, c, n)
          \/ x_lib_strlen(p)
          \/ \E q \in Addr : \/ x_lib_strcmp(p, q)
                             \/ \E n \in Size : x_lib_memcpy(p, q, n) \/ x_lib_strncmp(p, q, n)
          \/ \E n \in Size, ok \in BOOLEAN :
                x_lib_strndup(p, n, ok) \/ x_lib_memdup(<<p>>, n, ok)
    \/ \E n \in Size, ok \in BOOLEAN : x_lib_memdup(NULL, n, ok)
    \/ TakeValue

-----------------------------------------------------------------------------
(* What C99 (and POSIX, for strndup) promises of each function, in terms   *)
(* of strings instead of loops.                                            *)

(* The string at p, of which at most n characters count. *)
Chars(p, n) ==
    LET lengths == {k \in 0 .. n : Span(p, k) \subseteq Addr /\ \A q \in Span(p, k) : mem[q] # NUL}
    IN  Bytes(p, CHOOSE k \in lengths : \A j \in lengths : j <= k)
String(p) == Chars(p, MemSize)

(* The order of strings is that of their first differing unsigned chars.   *)
Before(s, t) ==
    \E i \in 1 .. Len(t) :
        /\ i <= Len(s) + 1
        /\ SubSeq(s, 1, i - 1) = SubSeq(t, 1, i - 1)
        /\ i = Len(s) + 1 \/ (i <= Len(s) /\ s[i] < t[i])

Orders(value, s, t) ==
    /\ value < 0 <=> Before(s, t)
    /\ value > 0 <=> Before(t, s)

(* The value v of the call fn(a) *)
Promised(fn, a, v) ==
    CASE fn = "abs" -> v[1] \in {a[1], -a[1]} \cap Nat
      [] fn \in {"memcpy", "memset"} -> v = <<a[1]>>
      [] fn = "strchr" ->
            LET hits == {p \in Span(a[1], Len(String(a[1])) + 1) : UChar(mem[p]) = UChar(a[2])}
            IN  IF hits = {} THEN v = NULL
                ELSE v[1] \in hits /\ \A p \in hits : v[1] <= p
      [] fn = "strcmp" -> Orders(v[1], String(a[1]), String(a[2]))
      [] fn = "strlen" -> v = <<Len(String(a[1]))>>
      [] fn = "strncmp" -> Orders(v[1], Chars(a[1], a[3]), Chars(a[2], a[3]))
      [] fn = "strndup" -> v \in {NULL, Append(Chars(a[1], a[2]), NUL)}
      [] fn = "memdup" -> v = NULL \/ IF Len(a) = 2 THEN v = Bytes(a[1], a[2]) ELSE Len(v) = a[1]
      [] OTHER -> TRUE     \* no function of the standard

(* The memory after fn(a) *)
Stored(fn, a, p) ==
    CASE fn = "memcpy" /\ p \in Span(a[1], a[3]) -> mem[p - a[1] + a[2]]
      [] fn = "memset" /\ p \in Span(a[1], a[3]) -> UChar(a[2])
      [] OTHER -> mem[p]

(* "The freestanding path and an X_USE_STDLIB build agree byte-for-byte"   *)
(* (x-stdlib.c:5-10): whatever the memory holds, each call returns what the*)
(* standard says and changes the memory as it says, and nothing else.      *)
AgreesWithStandard ==
    [][call = None =>
          /\ Promised(call'.fn, call'.args, call'.value)
          /\ mem' = [p \in Addr |-> Stored(call'.fn, call'.args, p)]]_stdlibVars

(* No function looks behind the string or the block it was given, though   *)
(* that ends where the memory does ("copy an unterminated view without     *)
(* over-reading", 2.0.x-lib.spec.c:463).                                   *)
NoOverread == call.read \subseteq Addr
=============================================================================
