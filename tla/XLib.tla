-------------------------------- MODULE XLib --------------------------------
(***************************************************************************)
(* The integer conversions of x-lib.c: x_lib_inttostr and x_lib_strtoint.  *)
(*                                                                         *)
(* A text is the sequence of its character codes without the terminator,   *)
(* which is what is found behind its end.  An x_int_t has IntBits bits and *)
(* wraps, as it does in the builds of this code.                           *)
(***************************************************************************)
EXTENDS XStdlib, SequencesExt

CONSTANTS
    IntBits,    \* width of an x_int_t
    Bases,      \* bases a caller has texts read in
    Texts       \* texts a caller has read

ASSUME IntBitsIsPositive == IntBits \in Nat \ {0}

(* The bases strtoint is documented for (x-lib.c:116-118), and texts the   *)
(* character classes of C are defined for, even where a char is signed.    *)
ASSUME BasesAreDocumented == Bases \subseteq {0} \cup 2 .. 36
ASSUME TextsAreASCII == Texts \subseteq Seq(1 .. 127)

IntMax == Pow2[IntBits - 1] - 1
IntMin == -IntMax - 1
XInt == IntMin .. IntMax

Wrap(i) == ((i - IntMin) % Pow2[IntBits]) + IntMin

(* Division in C goes towards zero, and the remainder has the sign of the  *)
(* dividend.                                                               *)
Quotient(i, n) == IF i >= 0 THEN i \div n ELSE -((-i) \div n)
Remainder(i, n) == i - n * Quotient(i, n)

(* Character codes *)
Plus == 43
Minus == 45
Zero == 48
Nine == 57
UpperA == 65
UpperX == 88
UpperZ == 90
LowerA == 97
LowerZ == 122

Toupper(c) == IF c \in LowerA .. LowerZ THEN c - LowerA + UpperA ELSE c
Isspace(c) == c = 32 \/ c \in 9 .. 13
Isdigit(c) == c \in Zero .. Nine

-----------------------------------------------------------------------------
(* Wrong: the letters start one too late.                                  *)
DigitCharLate(offset) == offset + IF offset > 10 THEN LowerA - 10 ELSE Zero

DigitChar(offset) == offset + IF offset >= 10 THEN LowerA - 10 ELSE Zero

(* What is left of num after each round. *)
Rest(num, base) ==
    LET rest[n \in Nat] == IF n = 0 THEN num ELSE Quotient(rest[n - 1], base)
    IN  rest

(* The digits of num as they are written, the last one first, one a round  *)
(* until nothing is left: no number has more of them than bits.            *)
DigitsOf(num, base) ==
    LET rest == Rest(num, base)
        rounds == CHOOSE n \in 1 .. IntBits : rest[n] = 0 /\ \A m \in 1 .. n - 1 : rest[m] # 0
    IN  [n \in 1 .. rounds |-> DigitChar(Remainder(rest[n - 1], base))]

(* What inttostr leaves in the caller's buffer. *)
Written(num, base) ==
    (IF num < 0 THEN <<Minus>> \o Reverse(DigitsOf(Wrap(-num), base))
                ELSE Reverse(DigitsOf(num, base))) \o <<NUL>>

x_lib_inttostr(num, p_str, base) ==
    /\ Return("inttostr", <<num, base>>,
              IF p_str = NULL \/ base < 2 \/ base > 36 THEN NULL ELSE Written(num, base),
              {})
    /\ UNCHANGED mem

-----------------------------------------------------------------------------
CharAt(text, p) == IF p <= Len(text) THEN text[p] ELSE NUL

(* The first position from p on whose character stops a loop. *)
Skip(text, p, Goes(_)) ==
    CHOOSE q \in p .. Len(text) + 1 :
        /\ q = Len(text) + 1 \/ ~Goes(text[q])
        /\ \A r \in p .. q - 1 : Goes(text[r])

(* The base and the number of characters that show it: none for a base the *)
(* caller gave.                                                            *)
Detected(text, p, base) ==
    IF base # 0 THEN <<base, 0>>
    ELSE IF CharAt(text, p) # Zero THEN <<10, 0>>
    ELSE IF Toupper(CharAt(text, p + 1)) = UpperX THEN <<16, 2>>
    ELSE <<8, 1>>

(* The value of a character as a digit; 36 if it is none in any base.      *)
DigitValue(c) ==
    IF Isdigit(c) THEN c - Zero
    ELSE IF Toupper(c) \in UpperA .. UpperZ THEN Toupper(c) - UpperA + 10
    ELSE 36

(* Wrong: a digit as large as the base is taken.                           *)
IsDigitOfLax(c, base) == DigitValue(c) <= base

(* The loop goes on at c. *)
IsDigitOf(c, base) == DigitValue(c) < base

(* What i is after each of the digits. *)
Accumulated(digits, base) ==
    LET i[n \in Nat] ==
            IF n = 0 THEN 0 ELSE Wrap(Wrap(i[n - 1] * base) + DigitValue(digits[n]))
    IN  i

(* The value returned and the number of characters read, from pp_end. *)
Parsed(text, base) ==
    LET signAt == Skip(text, 1, Isspace)
        start == IF CharAt(text, signAt) \in {Plus, Minus} THEN signAt + 1 ELSE signAt
        detected == Detected(text, start, base)
        first == start + detected[2]
        end == Skip(text, first, LAMBDA c : IsDigitOf(c, detected[1]))
        i == Accumulated(SubSeq(text, first, end - 1), detected[1])[end - first]
    IN  <<IF CharAt(text, signAt) = Minus THEN Wrap(-i) ELSE i, end - 1>>

x_lib_strtoint(text, base) ==
    /\ Return("strtoint", <<text, base>>, Parsed(text, base), {})
    /\ UNCHANGED mem

TextNext ==
    \/ \E num \in XInt, base \in 0 .. 37, p_str \in {NULL, <<0>>} : x_lib_inttostr(num, p_str, base)
    \/ \E text \in Texts, base \in Bases : x_lib_strtoint(text, base)

(* All calls, one after the other. *)
LibNext == StdlibNext \/ TextNext
LibSpec == Init /\ [][LibNext]_stdlibVars

-----------------------------------------------------------------------------
(* The reference: a numeral is a sign, a prefix and digits, and its value  *)
(* the sum of what the digits stand for times the powers of the base.      *)

(* How the digit d is written *)
Faces(d) == IF d < 10 THEN {Zero + d} ELSE {UpperA + d - 10, LowerA + d - 10}
Digits(base) == UNION {Faces(d) : d \in 0 .. base - 1}

DigitOf(c, base) == CHOOSE d \in 0 .. base - 1 : c \in Faces(d)

Powers(base) ==
    LET power[k \in Nat] == IF k = 0 THEN 1 ELSE base * power[k - 1]
    IN  power

(* The sums of what the first digits of s stand for. *)
Sums(s, base) ==
    LET sum[n \in 0 .. Len(s)] ==
            IF n = 0 THEN 0 ELSE sum[n - 1] + DigitOf(s[n], base) * Powers(base)[Len(s) - n]
    IN  sum

ValueOf(s, base) == Sums(s, base)[Len(s)]

(* The base that a text shows, and on how many characters *)
ShownBase(s) ==
    IF s = <<>> \/ s[1] # Zero THEN <<10, 0>>
    ELSE IF Len(s) > 1 /\ s[2] \in {UpperX, UpperX + LowerA - UpperA} THEN <<16, 2>>
    ELSE <<8, 1>>

(* text is spaces up to i, a sign up to j, a prefix up to k, digits of a   *)
(* base up to end, and there something else.                               *)
IsNumeral(text, base, value, end) ==
    \E i \in 0 .. end : \E j \in i .. end :
        LET sign == SubSeq(text, i + 1, j)
        IN  /\ \A p \in 1 .. i : Isspace(text[p])
            /\ ~Isspace(CharAt(text, i + 1))
            /\ sign \in {<<>>, <<Plus>>, <<Minus>>}
            /\ sign = <<>> => CharAt(text, i + 1) \notin {Plus, Minus}
            /\ LET shown == IF base = 0 THEN ShownBase(SubSeq(text, j + 1, Len(text)))
                                         ELSE <<base, 0>>
                   digits == SubSeq(text, j + shown[2] + 1, end)
               IN  /\ end >= j + shown[2]
                   /\ Range(digits) \subseteq Digits(shown[1])
                   /\ CharAt(text, end + 1) \notin Digits(shown[1])
                   /\ value = Wrap((IF sign = <<Minus>> THEN -1 ELSE 1)
                                      * ValueOf(digits, shown[1]))

(* "Parses p_str as a signed integer in the given base", the base detected *)
(* from the prefix if it is 0, leading space skipped, and "pp_end is set   *)
(* to point past the last parsed character" (x-lib.c:116-121): the value   *)
(* is that of the longest numeral, wrapped, and the end is its end.        *)
ReadsLongestNumeral ==
    call.fn = "strtoint" =>
        IsNumeral(call.args[1], call.args[2], call.value[1], call.value[2])

(* The text of num ends in its only NUL, fits the buffer the documentation *)
(* asks for in base 2, 8 * sizeof(x_int_t) + 1 bytes, is written in small  *)
(* letters, and strtoint reads it to its end and finds num.                *)
IsTextOf(text, num, base) ==
    /\ text # NULL
    /\ Len(text) <= IntBits + 1
    /\ Range(text) \cap (UpperA .. UpperZ) = {}
    /\ LET chars == Front(text)
       IN  /\ NUL \notin Range(chars) /\ Last(text) = NUL
           /\ Parsed(chars, base) = <<num, Len(chars)>>

(* What inttostr writes reads back as the number it was given, in every    *)
(* base from 2 to 36 and for every number but the least, which has no      *)
(* negative (see ConvertsEveryInteger).                                    *)
TextReadsBack ==
    call.fn = "inttostr" /\ call.value # NULL /\ call.args[1] # IntMin =>
        IsTextOf(call.value, call.args[1], call.args[2])

(* "Converts num into an ASCII string ... using the given numeric base     *)
(* (2--36)" (x-lib.c:32-33), the least integer included.                   *)
ConvertsEveryInteger ==
    call.fn = "inttostr" /\ call.value # NULL =>
        IsTextOf(call.value, call.args[1], call.args[2])
=============================================================================
