------------------------------ MODULE RecTypes ------------------------------
(***************************************************************************)
(* Field types (src/src/rec-types.c): type descriptors, the check of a     *)
(* value against a type, and the order that a type gives to values.        *)
(*                                                                         *)
(* A type has a kind and what belongs to it: the bounds of a range, the    *)
(* limit of a size, the names of an enumeration, the body of a regular     *)
(* expression, the record type of a reference.  NoType stands for NULL.    *)
(* Of regular expressions written by the user only whether they compile is *)
(* of interest here.                                                       *)
(***************************************************************************)
EXTENDS RecRegex

ZBlanks == Star(In(Blanks))
Within(re) == Cat(<<ZBlanks, re, ZBlanks>>)
Words(strs) == Alt([i \in DOMAIN strs |-> Lit(strs[i])])

TrueWords == Words(<<"1", "yes", "true">>)
FalseWords == Words(<<"0", "no", "false">>)
RealValue == Cat(<<Opt(Lit("-")), Opt(Plus(In(Digits))),
                   Opt(Cat(<<Lit("."), Plus(In(Digits))>>))>>)
EnumName == Cat(<<In(Letters \cup Digits),
                  Star(In(Letters \cup Digits \cup {"_", "-"}))>>)
Host == Letters \cup Digits \cup {".", "-"}
Email == Cat(<<Plus(In(Host \cup {"_", "%", "+"})), Lit("@"), Plus(In(Host)),
               Lit("."), In(Letters), In(Letters), Opt(In(Letters)),
               Opt(In(Letters))>>)

\* REC_TYPE_CLASS_RE; no name is the beginning of another one.
Classes == {"int", "range", "real", "size", "line", "regexp", "date", "enum",
            "email", "bool", "field", "rec", "uuid"}

NoType == [kind |-> "none"]

---------------------------------------------------------------------------
(* Descriptors.  A parser of a part returns the type and the position      *)
(* after it.                                                               *)

NotType == [type |-> NoType, at |-> 1]

rec_type_parse_size(s, i) ==
  LET limit(n) == IF n.ok /\ n.v >= 0
                  THEN [type |-> [kind |-> "size", max |-> n.v], at |-> n.at]
                  ELSE NotType
  IN limit(rec_parse_int(s, rec_skip_blanks(s, i)))

\* A comment in parentheses, from its "(" at i.
SkipEnumComment(s, i) ==
  LET end == FirstAt(s, i + 1, LAMBDA c : c \in {"(", ")"})
  IN [ok |-> end <= Len(s) /\ s[end] = ")", at |-> end + 1]

\* The names and comments of an enumeration from position i on.
RECURSIVE EnumNames(_, _, _)
EnumNames(s, i, names) ==
  LET k == rec_skip_blanks(s, i)
      note == SkipEnumComment(s, k)
      name == rec_parse_regexp(s, k, EnumName)
  IN IF k > Len(s) THEN [ok |-> names # << >>, names |-> names]
     ELSE IF s[k] = "(" THEN IF note.ok THEN EnumNames(s, note.at, names)
                             ELSE [ok |-> FALSE, names |-> names]
     ELSE IF name.ok THEN EnumNames(s, name.at, Append(names, name.text))
     ELSE [ok |-> FALSE, names |-> names]

rec_type_parse_enum(s, i) ==
  LET list == EnumNames(s, i, << >>)
  IN IF list.ok THEN [type |-> [kind |-> "enum", names |-> list.names],
                      at |-> Len(s) + 1]
     ELSE NotType

\* regcomp (external), for the characters in use: a "(" has to be closed.
regcomp(re) ==
  0 = FoldLeft(LAMBDA open, c : IF c = "(" THEN open + 1
                                ELSE IF c = ")" /\ open > 0 THEN open - 1
                                ELSE open, 0, re)

\* The expression stands between two delimiters, the first character that
\* is not blank; a doubled delimiter stands for itself.  Without a first
\* delimiter the code reads past the end of the string; here it fails.
RECURSIVE RegexpBody(_, _, _, _)
RegexpBody(s, delim, i, re) ==
  IF i > Len(s) THEN NotType
  ELSE IF s[i] # delim THEN RegexpBody(s, delim, i + 1, Append(re, s[i]))
  ELSE IF i < Len(s) /\ s[i + 1] = delim
       THEN RegexpBody(s, delim, i + 2, Append(re, delim))
  ELSE IF regcomp(re) THEN [type |-> [kind |-> "regexp", re |-> re], at |-> i + 1]
  ELSE NotType

rec_type_parse_regexp_type(s, i) ==
  LET k == rec_skip_blanks(s, i)
  IN IF k > Len(s) THEN NotType ELSE RegexpBody(s, s[k], k + 1, << >>)

rec_type_parse_rec(s, i) ==
  LET name == rec_parse_regexp(s, rec_skip_blanks(s, i), FNAME)
  IN IF name.ok THEN [type |-> [kind |-> "rec", ref |-> name.text], at |-> name.at]
     ELSE NotType

rec_type_parse_range_point(s, i) ==
  CASE StandsAt(Txt("MIN"), s, i) -> [ok |-> TRUE, v |-> INT_MIN, at |-> i + 3]
    [] StandsAt(Txt("MAX"), s, i) -> [ok |-> TRUE, v |-> INT_MAX, at |-> i + 3]
    [] OTHER -> rec_parse_int(s, i)

\* One or two points; a single one is the upper bound.
RangeFrom(s, i, lower) ==
  LET range(min, max, at) == [type |-> [kind |-> "range", min |-> min, max |-> max], at |-> at]
      two(p, q) == IF q.ok THEN range(p.v, q.v, q.at) ELSE NotType
      next(p, k) == IF k > Len(s) THEN range(lower, p.v, k)
                    ELSE two(p, rec_type_parse_range_point(s, k))
      first(p) == IF p.ok THEN next(p, rec_skip_blanks(s, p.at)) ELSE NotType
  IN first(rec_type_parse_range_point(s, rec_skip_blanks(s, i)))

\* Slip: a range with one bound begins at the smallest integer.
rec_type_parse_range_unbounded(s, i) == RangeFrom(s, i, INT_MIN)

rec_type_parse_range(s, i) == RangeFrom(s, i, 0)

\* The kind that stands at position i, "none" if there is none.
rec_type_parse_type_kind(s, i) ==
  LET here == {c \in Classes : StandsAt(Txt(c), s, i)}
  IN IF here = {} THEN "none" ELSE CHOOSE c \in here : TRUE

rec_type_new(s) ==
  LET parsed(kind, k) ==
        CASE kind = "none" -> NotType
          [] kind = "size" -> rec_type_parse_size(s, k)
          [] kind = "enum" -> rec_type_parse_enum(s, k)
          [] kind = "regexp" -> rec_type_parse_regexp_type(s, k)
          [] kind = "range" -> rec_type_parse_range(s, k)
          [] kind = "rec" -> rec_type_parse_rec(s, k)
          [] OTHER -> [type |-> [kind |-> kind], at |-> k]
      whole(p) == IF rec_skip_blanks(s, p.at) > Len(s) THEN p.type ELSE NoType
      ofKind(kind, i) == whole(parsed(kind, i + Len(kind)))
      from(i) == ofKind(rec_type_parse_type_kind(s, i), i)
  IN from(rec_skip_blanks(s, 1))

rec_type_descr_p(s) == rec_type_new(s) # NoType

---------------------------------------------------------------------------
(* Values *)

\* parse_datetime (external) for the dates in use: "@" and a number of seconds.
parse_datetime(s) ==
  IF s # << >> /\ s[1] = "@"
  THEN Signed(Tail(s), LAMBDA digits, sign : InBase(10, digits, sign)) ELSE Bad

\* uuid_parse (external)
uuid_parse(s) ==
  /\ Len(s) = 36
  /\ \A i \in 1..36 : IF i \in {9, 14, 19, 24} THEN s[i] = "-"
                      ELSE s[i] \in DOMAIN DigitValue

rec_type_check_range(t, v) ==
  LET inside(n) == n.ok /\ t.min <= n.v /\ n.v <= t.max
  IN inside(rec_parse_int(v, rec_skip_blanks(v, 1)))

rec_type_check_enum(t, v) ==
  LET name == rec_parse_regexp(v, rec_skip_blanks(v, 1), EnumName)
  IN MatchAll(Within(EnumName), v) /\ name.text \in Range(t.names)

rec_type_check(t, v) ==
  CASE t.kind = "int" -> MatchAll(Within(INT), v)
    [] t.kind = "bool" -> MatchAll(Within(Alt(<<TrueWords, FalseWords>>)), v)
    [] t.kind = "range" -> rec_type_check_range(t, v)
    [] t.kind = "real" -> MatchAll(Within(RealValue), v)
    [] t.kind = "size" -> Len(v) <= t.max
    [] t.kind = "line" -> "\n" \notin Range(v)
    [] t.kind = "date" -> v # << >> /\ parse_datetime(v).ok
    [] t.kind = "enum" -> rec_type_check_enum(t, v)
    [] t.kind = "field" -> MatchAll(Within(FNAME), v)
    [] t.kind = "email" -> MatchAll(Within(Email), v)
    [] t.kind = "uuid" -> uuid_parse(v)
    [] t.kind = "rec" -> TRUE

\* The characters in use, in the order of their codes.
Ascii == Txt("\t\n !\"#%()+,-./0123456789:;<=>?@ABCDEFGHIJKLMNOPQRSTUVWXYZ[\\]_abcdefghijklmnopqrstuvwxyz{|}~")
Code(c) == CHOOSE i \in DOMAIN Ascii : Ascii[i] = c

Sign(m, n) == IF m < n THEN -1 ELSE IF m > n THEN 1 ELSE 0

\* The sign of strcmp.
strcmp(s1, s2) ==
  LET differ == {i \in 1..(Min({Len(s1), Len(s2)})) : s1[i] # s2[i]}
      i == Min(differ)
  IN IF differ = {} THEN Sign(Len(s1), Len(s2)) ELSE Sign(Code(s1[i]), Code(s2[i]))

TrueP(v) == MatchAny(TrueWords, v)

CmpInt(v1, v2) ==
  LET cmp(n1, n2) == IF n1.ok /\ n2.ok THEN Sign(n1.v, n2.v) ELSE strcmp(v1, v2)
  IN cmp(rec_atoi(v1), rec_atoi(v2))

\* A real is a fraction; its denominator is positive.
CmpReal(v1, v2) ==
  LET cmp(r1, r2) == IF r1.ok /\ r2.ok THEN Sign(r1.v[1] * r2.v[2], r2.v[1] * r1.v[2])
                     ELSE strcmp(v1, v2)
  IN cmp(rec_atod(v1), rec_atod(v2))

\* Slip: two different values are in this order in both directions.
CmpBoolUnequal(v1, v2) == IF TrueP(v1) = TrueP(v2) THEN 0 ELSE 1

CmpBool(v1, v2) ==
  CASE ~TrueP(v1) /\ TrueP(v2) -> -1
    [] TrueP(v1) = TrueP(v2) -> 0
    [] OTHER -> 1

CmpDate(v1, v2) ==
  LET cmp(d1, d2) == IF d1.ok /\ d2.ok THEN Sign(d1.v, d2.v) ELSE strcmp(v1, v2)
  IN cmp(parse_datetime(v1), parse_datetime(v2))

rec_type_values_cmp(t, v1, v2) ==
  CASE t.kind \in {"int", "range"} -> CmpInt(v1, v2)
    [] t.kind = "real" -> CmpReal(v1, v2)
    [] t.kind = "bool" -> CmpBool(v1, v2)
    [] t.kind = "date" -> CmpDate(v1, v2)
    [] OTHER -> strcmp(v1, v2)

=============================================================================
