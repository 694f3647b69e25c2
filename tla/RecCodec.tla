------------------------------ MODULE RecCodec ------------------------------
(***************************************************************************)
(* The text of a record, character by character: what rec_parse_record     *)
(* (src/src/rec-parser.c) reads and what rec_write_record                  *)
(* (src/src/rec-writer.c) writes.                                          *)
(*                                                                         *)
(* An element of a record is a field or a comment.  A parser returns ok,   *)
(* what it has read, and the position of the next character.               *)
(***************************************************************************)
EXTENDS RecRegex

Fld(n, v) == [k |-> "field", n |-> n, v |-> v]
Cmt(v) == [k |-> "comment", n |-> << >>, v |-> v]

---------------------------------------------------------------------------
(* Reading *)

NoText == [ok |-> FALSE, text |-> << >>, at |-> 0]

\* The value from position i on; nl: the previous character was a newline
\* that is not escaped, and buf what has been read.
RECURSIVE FieldValue(_, _, _, _)
FieldValue(t, i, nl, buf) ==
  IF i > Len(t) THEN [ok |-> TRUE, text |-> IF nl THEN Front(buf) ELSE buf, at |-> i]
  ELSE IF nl /\ t[i] # "+" THEN [ok |-> TRUE, text |-> Front(buf), at |-> i]
  ELSE IF (nl \/ t[i] = "\\") /\ i = Len(t) THEN NoText
  ELSE IF nl THEN FieldValue(t, IF t[i + 1] = " " THEN i + 2 ELSE i + 1, FALSE, buf)
  ELSE IF t[i] = "\\" /\ t[i + 1] = "\n" THEN FieldValue(t, i + 2, FALSE, buf)
  ELSE FieldValue(t, i + 1, t[i] = "\n", Append(buf, t[i]))

\* The end of the input right after the name is an error here.
rec_parse_field_value(t, i) ==
  IF i > Len(t) THEN NoText ELSE FieldValue(t, i, FALSE, << >>)

\* A name and its colon; one blank after it is eaten, but not a newline.
rec_parse_field_name(t, i) ==
  LET colon(name) ==
        IF ~name.ok \/ name.at > Len(t) \/ t[name.at] # ":" THEN NoText
        ELSE [name EXCEPT !.at = IF @ < Len(t) /\ t[@ + 1] \in {" ", "\t"} THEN @ + 2
                                 ELSE @ + 1]
  IN colon(rec_parse_regexp(t, i, FNAME))

\* A blank at the end of the input leaves the end-of-file flag unset, and
\* the value is the empty text.
rec_parse_field(t, i) ==
  LET failed == [ok |-> FALSE, elem |-> Cmt(<< >>), at |-> i]
      field(name, value) ==
        IF value.ok THEN [ok |-> TRUE, elem |-> Fld(name.text, value.text), at |-> value.at]
        ELSE failed
      named(name) ==
        IF ~name.ok THEN failed
        ELSE field(name, IF t[name.at - 1] # ":" THEN FieldValue(t, name.at, FALSE, << >>)
                         ELSE rec_parse_field_value(t, name.at))
  IN named(rec_parse_field_name(t, i))

\* The comment whose "#" is at i ends at a newline that no "#" follows.
rec_parse_comment(t, i) ==
  LET ends == {k \in i..Len(t) : t[k] = "\n" /\ (k = Len(t) \/ t[k + 1] # "#")}
      end == Min(ends \cup {Len(t) + 1})
      kept == Where(end - 1, LAMBDA k : k > i /\ ~(t[k] = "#" /\ t[k - 1] = "\n"))
  IN [elem |-> Cmt(Each(LAMBDA k : t[k], kept)), at |-> end + 1]

\* The elements from position i on.
RECURSIVE RecordElems(_, _, _)
RecordElems(t, i, rec) ==
  LET failed == [ok |-> FALSE, rec |-> << >>, at |-> i]
      with(next) == RecordElems(t, next.at, Append(rec, next.elem))
      orFail(field) == IF field.ok THEN with(field) ELSE failed
      from(k) == IF k > Len(t) \/ t[k] = "\n" THEN [ok |-> TRUE, rec |-> rec, at |-> k + 1]
                 ELSE IF k > i THEN [failed EXCEPT !.at = k]
                 ELSE IF t[i] = "#" THEN with(rec_parse_comment(t, i))
                 ELSE orFail(rec_parse_field(t, i))
  IN from(FirstAt(t, i, LAMBDA c : c \notin {" ", "\t"}))

rec_parse_record(t, i) ==
  LET first(field) == IF field.ok THEN RecordElems(t, field.at, <<field.elem>>)
                      ELSE [ok |-> FALSE, rec |-> << >>, at |-> i]
  IN first(rec_parse_field(t, i))

rec_parse_field_name_str(s) ==
  LET only(colon, name) == IF name.ok /\ name.at > Len(colon) THEN name.text ELSE << >>
      read(colon) == only(colon, rec_parse_field_name(colon, 1))
  IN read(IF s # << >> /\ Last(s) = ":" THEN s ELSE Append(s, ":"))

rec_field_name_p(s) == MatchAll(FNAME, s)

\* The name, or << >> if it cannot be made one.
rec_field_name_normalise(s) ==
  LET kept == Letters \cup Digits \cup {"_", "-", "%"}
      name == Each(LAMBDA c : IF c \in kept THEN c ELSE "_", s)
  IN IF rec_field_name_p(name) THEN name ELSE << >>

---------------------------------------------------------------------------
(* Writing *)

Modes == {"normal", "sexp", "values", "row"}

\* Every character of s is replaced by the text Op gives for it.
Map(s, Op(_)) == FlattenSeq(Each(Op, s))

rec_write_field_name(n, mode) ==
  IF mode = "sexp" THEN <<"\"">> \o n \o <<"\"">> ELSE n \o <<":">>

\* Slip: no blank after the "+" of a continuation line.
FieldCharJoined(c, mode) ==
  CASE c = "\n" /\ mode = "sexp" -> Txt("\\n")
    [] c = "\n" /\ mode = "normal" -> Txt("\n+")
    [] c \in {"\"", "\\"} /\ mode = "sexp" -> <<"\\", c>>
    [] OTHER -> <<c>>

FieldChar(c, mode) ==
  CASE c = "\n" /\ mode = "sexp" -> Txt("\\n")
    [] c = "\n" /\ mode = "normal" -> Txt("\n+ ")
    [] c \in {"\"", "\\"} /\ mode = "sexp" -> <<"\\", c>>
    [] OTHER -> <<c>>

rec_write_field(f, mode) ==
  LET value == Map(f.v, LAMBDA c : FieldChar(c, mode))
      name == rec_write_field_name(f.n, mode)
  IN CASE mode = "sexp" -> Txt("(field ") \o name \o Txt(" \"") \o value \o Txt("\")")
       [] mode = "normal" -> name \o (IF f.v = << >> THEN << >> ELSE <<" ">>) \o value
       [] OTHER -> value

\* Slip: only the first line of a comment is marked as one.
rec_write_comment_first(c, mode) ==
  IF mode = "sexp" THEN Txt("(comment \"") \o c.v \o Txt("\")") ELSE <<"#">> \o c.v

\* In an s-expression only the newlines of a comment are escaped.
rec_write_comment(c, mode) ==
  IF mode = "sexp"
  THEN Txt("(comment \"")
       \o Map(c.v, LAMBDA ch : IF ch = "\n" THEN Txt("\\n") ELSE <<ch>>) \o Txt("\")")
  ELSE <<"#">> \o Map(c.v, LAMBDA ch : IF ch = "\n" THEN Txt("\n#") ELSE <<ch>>)

\* What follows element i of the record.
Separator(rec, i, mode, skip) ==
  LET later == {j \in (i + 1)..Len(rec) : rec[j].k = "field"}
  IN CASE rec[i].k = "field" /\ mode = "row" /\ later # {} -> <<" ">>
       [] skip /\ later # {} -> <<"\n">>
       [] ~skip /\ i < Len(rec) -> <<"\n">>
       [] OTHER -> << >>

\* Comments are not written when they are skipped or only values are.
rec_write_record(rec, mode, skip) ==
  LET shown(i) == \/ rec[i].k = "field"
                  \/ ~skip /\ mode \in {"normal", "sexp"}
      elem(i) == IF rec[i].k = "field" THEN rec_write_field(rec[i], mode)
                 ELSE rec_write_comment(rec[i], mode)
      body == FlattenSeq(Each(LAMBDA i : IF shown(i)
                                         THEN elem(i) \o Separator(rec, i, mode, skip)
                                         ELSE << >>,
                              [i \in DOMAIN rec |-> i]))
  IN IF mode = "sexp" THEN Txt("(record (\n") \o body \o Txt("))") ELSE body

rec_field_to_comment(f) == Cmt(rec_write_field(f, "normal"))

=============================================================================
