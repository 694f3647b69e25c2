------------------------------- MODULE RecFex -------------------------------
(***************************************************************************)
(* Field expressions (src/src/rec-fex.c): lists of field names, separated  *)
(* by blanks ("simple") or commas ("csv"), or with subscripts, function    *)
(* calls and rewrite rules ("subscripts").                                 *)
(*                                                                         *)
(* An element has a name, a subscript range (-1 if there is none), a       *)
(* function and a rewrite rule (<< >> if there is none).                   *)
(***************************************************************************)
EXTENDS RecRegex

Kinds == {"simple", "csv", "subscripts"}

FunctionName == Cat(<<In(Letters \cup {"_"}), Star(In(Letters \cup Digits \cup {"_"}))>>)
FexCall == Cat(<<FunctionName, Lit("("), FNAME_FEX, Lit(")")>>)
FnameSub == Cat(<<FNAME_FEX,
                  Opt(Cat(<<Lit("["), Plus(In(Digits)),
                            Opt(Cat(<<Lit("-"), Plus(In(Digits))>>)), Lit("]")>>))>>)
ListSubElem == Cat(<<Alt(<<FnameSub, FexCall>>), Opt(Cat(<<Lit(":"), FNAME_FEX>>))>>)
ListOf(re, sep) == Cat(<<re, Star(Cat(<<sep, re>>))>>)

rec_fex_check(s, kind) ==
  MatchAll(CASE kind = "simple" -> ListOf(FNAME, Plus(In(Blanks)))
             [] kind = "csv" -> ListOf(FNAME_FEX, Lit(","))
             [] kind = "subscripts" -> ListOf(ListSubElem, Lit(",")), s)

Elem(name, min, max) ==
  [name |-> name, min |-> min, max |-> max, function |-> << >>, to |-> << >>]

\* A name at position i; a subname is joined to it with an underscore.
FieldName(s, i) ==
  LET withSub(name) ==
        IF ~name.ok \/ name.at > Len(s) \/ s[name.at] # "." THEN name
        ELSE [rec_parse_regexp(s, name.at + 1, FNAME)
              EXCEPT !.text = rec_concat_strings(name.text, <<"_">>, @)]
  IN withSub(rec_parse_regexp(s, i, FNAME))

NotParsed == [ok |-> FALSE, elems |-> << >>]

\* strsep; empty elements are skipped.
rec_fex_parse_str_simple(s, seps) ==
  LET list(names) ==
        IF names # << >> /\ \A i \in DOMAIN names : names[i].ok
        THEN [ok |-> TRUE, elems |-> Each(LAMBDA n : Elem(n.text, -1, -1), names)]
        ELSE NotParsed
      whole(e, name) == [name EXCEPT !.ok = @ /\ name.at = Len(e) + 1]
  IN list(Each(LAMBDA e : whole(e, FieldName(e, 1)),
               SelectSeq(Split(s, seps), LAMBDA e : e # << >>)))

\* The subscripts at position i: [ok, min, max, at].
Subscripts(s, i) ==
  LET closed(min, max) ==
        [ok |-> min.ok /\ max.ok /\ max.at <= Len(s) /\ s[max.at] = "]",
         min |-> min.v, max |-> max.v, at |-> max.at + 1]
      second(min) ==
        closed(min, IF min.at <= Len(s) /\ s[min.at] = "-" THEN rec_parse_int(s, min.at + 1)
                    ELSE [ok |-> TRUE, v |-> -1, at |-> min.at])
  IN IF i > Len(s) \/ s[i] # "[" THEN [ok |-> TRUE, min |-> -1, max |-> -1, at |-> i]
     ELSE second(rec_parse_int(s, i + 1))

\* The function of a call, and the rewrite rule at position i; neither need
\* be there.
Function(s) ==
  IF MatchStart(FexCall, s) THEN rec_parse_regexp(s, 1, FunctionName)
  ELSE [ok |-> FALSE, text |-> << >>, at |-> 0]
RewriteRule(s, i) ==
  IF i <= Len(s) /\ s[i] = ":" THEN rec_parse_regexp(s, i + 1, FNAME)
  ELSE [ok |-> TRUE, text |-> << >>, at |-> i]

rec_fex_parse_elem(s) ==
  LET result(function, name, subs, rule) ==
        [ok |-> name.ok /\ subs.ok /\ rule.ok /\ rule.at = Len(s) + 1,
         elem |-> [Elem(name.text, subs.min, subs.max)
                   EXCEPT !.function = function.text, !.to = rule.text]]
      withRule(function, name, subs) ==
        result(function, name, subs,
               RewriteRule(s, IF function.ok THEN subs.at + 1 ELSE subs.at))
      withSubs(function, name) == withRule(function, name, Subscripts(s, name.at))
      withName(function) == withSubs(function, FieldName(s, function.at + 1))
  IN withName(Function(s))

rec_fex_parse_str_subscripts(s) ==
  LET list(parsed) ==
        IF \A i \in DOMAIN parsed : parsed[i].ok
        THEN [ok |-> TRUE, elems |-> Each(LAMBDA p : p.elem, parsed)]
        ELSE NotParsed
  IN list(Each(rec_fex_parse_elem, Split(s, {","})))

rec_fex_new(s, kind) ==
  CASE kind = "subscripts" -> rec_fex_parse_str_subscripts(s)
    [] kind = "simple" -> rec_fex_parse_str_simple(s, Blanks)
    [] kind = "csv" -> rec_fex_parse_str_simple(s, {","})

\* Function calls and rewrite rules are not written.
rec_fex_elem_str(e, kind) ==
  e.name \o
  IF kind # "subscripts" \/ (e.min = -1 /\ e.max = -1) THEN << >>
  ELSE <<"[">> \o (IF e.min # -1 THEN Txt(ToString(e.min)) ELSE << >>)
               \o (IF e.max # -1 THEN <<"-">> \o Txt(ToString(e.max)) ELSE << >>)
               \o <<"]">>

rec_fex_str(elems, kind) ==
  FoldLeft(LAMBDA out, i : out
                           \o (IF i = 1 THEN << >>
                               ELSE IF kind = "simple" THEN <<" ">> ELSE <<",">>)
                           \o rec_fex_elem_str(elems[i], kind),
           << >>, [i \in DOMAIN elems |-> i])

\* Slip: an element passes the ones with the same subscript.
InsertFexElemBefore(sorted, e) ==
  LET stay == {j \in DOMAIN sorted : sorted[j].min # -1 /\ sorted[j].min < e.min}
      j == IF stay = {} THEN 0 ELSE Max(stay)
  IN InsertAt(sorted, j + 1, e)

\* One step of the insertion sort: the element is moved before the ones at
\* the end that have no subscript or a larger one.
InsertFexElem(sorted, e) ==
  LET stay == {j \in DOMAIN sorted : ~(sorted[j].min = -1 \/ sorted[j].min > e.min)}
      j == IF stay = {} THEN 0 ELSE Max(stay)
  IN InsertAt(sorted, j + 1, e)

rec_fex_sort(elems) == FoldLeft(InsertFexElem, << >>, elems)

=============================================================================
