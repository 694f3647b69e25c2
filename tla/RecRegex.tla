------------------------------ MODULE RecRegex ------------------------------
(***************************************************************************)
(* The extended regular expressions that src/src/rec-utils.c gives to      *)
(* regcomp and regexec (external): sets of characters, concatenation,      *)
(* alternatives and repetition.                                            *)
(***************************************************************************)
EXTENDS RecStr

In(chars) == [k |-> "in", of |-> chars]
NotIn(chars) == [k |-> "notin", of |-> chars]
Cat(res) == [k |-> "cat", of |-> res]
Alt(res) == [k |-> "alt", of |-> res]
Star(re) == [k |-> "star", of |-> re]
Lit(str) == Cat([i \in 1..Len(str) |-> In({SubSeq(str, i, i)})])
Empty == Cat(<< >>)
Opt(re) == Alt(<<re, Empty>>)
Plus(re) == Cat(<<re, Star(re)>>)

RECURSIVE Ends(_, _, _), CatEnds(_, _, _, _), StarEnds(_, _, _)

\* The positions where a match of re that starts at one of starts may end.
Ends(re, s, starts) ==
  CASE re.k = "in" -> {i + 1 : i \in {i \in starts : i <= Len(s)
                                                     /\ s[i] \in re.of}}
    [] re.k = "notin" -> {i + 1 : i \in {i \in starts : i <= Len(s)
                                                        /\ s[i] \notin re.of}}
    [] re.k = "cat" -> CatEnds(re.of, 1, s, starts)
    [] re.k = "alt" -> UNION {Ends(re.of[j], s, starts) : j \in DOMAIN re.of}
    [] re.k = "star" -> StarEnds(re.of, s, starts)

CatEnds(res, k, s, starts) ==
  IF k > Len(res) \/ starts = {} THEN starts
  ELSE CatEnds(res, k + 1, s, Ends(res[k], s, starts))

StarEnds(re, s, reached) ==
  LET more == Ends(re, s, reached) \ reached
  IN IF more = {} THEN reached ELSE StarEnds(re, s, reached \cup more)

\* rec_match with "^re$", with "^re", and without an anchor.
MatchAll(re, s) == Len(s) + 1 \in Ends(re, s, {1})
MatchStart(re, s) == Ends(re, s, {1}) # {}
MatchAny(re, s) == Ends(re, s, 1..(Len(s) + 1)) # {}

\* rec_parse_regexp with "^re", at position i: the longest match.
rec_parse_regexp(s, i, re) ==
  LET upTo(end) == [ok |-> TRUE, text |-> SubSeq(s, i, end - 1), at |-> end]
      longest(ends) == IF ends = {} THEN [ok |-> FALSE, text |-> << >>, at |-> i]
                       ELSE upTo(Max(ends))
  IN longest(Ends(re, s, {i}))

FNAME == Cat(<<In(Letters \cup {"%"}), Star(In(Letters \cup Digits \cup {"_"}))>>)
FNAME_FEX == Cat(<<FNAME, Opt(Cat(<<Lit("."), FNAME>>))>>)

\* REC_INT_RE
INT == Cat(<<Opt(Lit("-")),
             Alt(<<Cat(<<Lit("0x"), Plus(In(Digits \cup Chars("abcdefABCDEF")))>>),
                   Plus(In(Digits))>>)>>)
=============================================================================
