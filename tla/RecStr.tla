------------------------------- MODULE RecStr -------------------------------
(***************************************************************************)
(* The string helpers of src/src/rec-utils.c.                              *)
(*                                                                         *)
(* A text is a sequence of characters, and a character a string of length  *)
(* one; Txt turns a literal into a text.                                   *)
(***************************************************************************)
EXTENDS Integers, Sequences, FiniteSets, SequencesExt

CONSTANTS IntMax,   \* INT_MAX
          LongMax   \* LONG_MAX

ASSUME WidthAssumption ==
  /\ IntMax \in Nat /\ LongMax \in Nat
  /\ (LongMax + 1) % (2 * IntMax + 2) = 0

INT_MAX == IntMax
INT_MIN == -IntMax - 1

Txt(str) == [i \in 1..Len(str) |-> SubSeq(str, i, i)]

Chars(str) == Range(Txt(str))

Digits == Chars("0123456789")
Upper == Txt("ABCDEFGHIJKLMNOPQRSTUVWXYZ")
Lower == Txt("abcdefghijklmnopqrstuvwxyz")
Letters == Range(Upper) \cup Range(Lower)
LowerCase == [c \in Range(Upper) |-> Lower[CHOOSE u \in 1..26 : c = Upper[u]]]
Blanks == {" ", "\n", "\t"}

rec_blank_p(c) == c \in Blanks
rec_digit_p(c) == c \in Digits
rec_letter_p(c) == c \in Letters

\* The sequence of Op of the elements.
Each(Op(_), seq) == << >> \o [i \in DOMAIN seq |-> Op(seq[i])]

\* The text from its i-th character on.
From(s, i) == SubSeq(s, i, Len(s))

\* The word stands in s at position i.
StandsAt(word, s, i) == IsPrefix(word, From(s, i))

\* The position of the first character from i on for which Test holds,
\* Len(s) + 1 if there is none.
FirstAt(s, i, Test(_)) ==
  LET hits == {k \in i..Len(s) : Test(s[k])}
  IN IF hits = {} THEN Len(s) + 1 ELSE Min(hits)

\* The numbers of 1..n for which Test holds, in order.
Where(n, Test(_)) == SelectSeq([i \in 1..n |-> i], Test)

\* A text is cut at every separator (strsep).
Split(s, seps) ==
  LET cuts == <<0>> \o Where(Len(s), LAMBDA i : s[i] \in seps) \o <<Len(s) + 1>>
  IN [i \in 1..(Len(cuts) - 1) |-> SubSeq(s, cuts[i] + 1, cuts[i + 1] - 1)]

rec_skip_blanks(s, i) == FirstAt(s, i, LAMBDA c : ~rec_blank_p(c))

rec_concat_strings(s1, s2, s3) == s1 \o s2 \o s3

---------------------------------------------------------------------------
(* Numbers *)

Abs(n) == IF n < 0 THEN -n ELSE n

Bad == [ok |-> FALSE, v |-> 0]
Good(v) == [ok |-> TRUE, v |-> v]

HexDigits == Txt("0123456789abcdefABCDEF")

DigitValue ==
  "0" :> 0 @@ "1" :> 1 @@ "2" :> 2 @@ "3" :> 3 @@ "4" :> 4 @@ "5" :> 5
  @@ "6" :> 6 @@ "7" :> 7 @@ "8" :> 8 @@ "9" :> 9
  @@ "a" :> 10 @@ "b" :> 11 @@ "c" :> 12 @@ "d" :> 13 @@ "e" :> 14 @@ "f" :> 15
  @@ "A" :> 10 @@ "B" :> 11 @@ "C" :> 12 @@ "D" :> 13 @@ "E" :> 14 @@ "F" :> 15

\* A text with a sign, or none: Read gets the rest and 1 or -1.
Signed(s, Read(_, _)) ==
  IF s # << >> /\ s[1] \in {"-", "+"}
  THEN Read(Tail(s), IF s[1] = "-" THEN -1 ELSE 1)
  ELSE Read(s, 1)

\* The number that the digits of a base stand for.
ValueOf10(digits) == FoldLeft(LAMBDA n, c : n * 10 + DigitValue[c], 0, digits)
InBase(base, digits, sign) ==
  IF digits # << >> /\ \A d \in DOMAIN digits : /\ digits[d] \in DOMAIN DigitValue
                                               /\ DigitValue[digits[d]] < base
  THEN Good(sign * FoldLeft(LAMBDA n, c : n * base + DigitValue[c], 0, digits))
  ELSE Bad

\* The number that is written, in the bases of strtol with base 0.
Written(str) ==
  LET number(s, sign) ==
        IF Len(s) > 2 /\ s[1] = "0" /\ s[2] \in {"x", "X"} THEN InBase(16, From(s, 3), sign)
        ELSE InBase(IF Len(s) > 1 /\ s[1] = "0" THEN 8 ELSE 10, s, sign)
  IN Signed(From(str, rec_skip_blanks(str, 1)), number)

\* strtol (external) gives the nearest long to a number that does not fit.
strtol(str) ==
  [Written(str) EXCEPT !.v = IF @ > LongMax THEN LongMax
                             ELSE IF @ < -LongMax - 1 THEN -LongMax - 1 ELSE @]

\* A long that becomes an int loses its upper bits.
LongToInt(n) == ((n - INT_MIN) % (2 * IntMax + 2)) + INT_MIN

\* rec_atoi: strtol has to accept the whole string.
rec_atoi(str) == [strtol(str) EXCEPT !.v = LongToInt(@)]

\* rec_atod: a real is a pair, numerator and denominator.  The exponents,
\* hexadecimal digits and infinities of strtod are left out.
rec_atod(str) ==
  LET number(whole, frac, sign) ==
        IF whole \o frac = << >> \/ ~(Range(whole \o frac) \subseteq Digits) THEN Bad
        ELSE Good(<<sign * ValueOf10(whole \o frac), 10 ^ Len(frac)>>)
      cutAt(s, dot, sign) == number(SubSeq(s, 1, dot - 1), From(s, dot + 1), sign)
      read(s, sign) == cutAt(s, FirstAt(s, 1, LAMBDA c : c = "."), sign)
  IN Signed(From(str, rec_skip_blanks(str, 1)), read)

\* rec_parse_int, at position i: [ok, v, at].
rec_parse_int(s, i) ==
  LET part(k) == \/ s[k] \in DOMAIN DigitValue \cup {"x", "X"}
                 \/ k = i /\ s[k] = "-"
      result(n, end) == [ok |-> n.ok, v |-> n.v, at |-> IF n.ok THEN end ELSE i]
      upTo(end) == result(rec_atoi(SubSeq(s, i, end - 1)), end)
  IN upTo(Min({k \in i..Len(s) : ~part(k)} \cup {Len(s) + 1}))

\* rec_timespec_subtract: the result, and whether it is negative.
rec_timespec_subtract(x, y) ==
  LET sec == x.sec - y.sec
      nsec == x.nsec - y.nsec
      diff == IF nsec < 0 THEN [sec |-> sec - 1, nsec |-> nsec + 1000000000]
              ELSE [sec |-> sec, nsec |-> nsec]
  IN [diff |-> diff, negative |-> diff.sec < 0]

=============================================================================
