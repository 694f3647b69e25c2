------------------------------- MODULE RecCsv -------------------------------
(***************************************************************************)
(* rec2csv, csv2rec (src/utils) and the parser of src/libcsv between them, *)
(* and the templates of recfmt.                                            *)
(*                                                                         *)
(* A record is here a sequence of fields, and a record set a sequence of   *)
(* records.                                                                *)
(***************************************************************************)
EXTENDS RecCodec, RecFex

CONSTANT FexMaxElems  \* REC_FEX_MAX_ELEMS

ASSUME FexAssumption == FexMaxElems \in Nat

---------------------------------------------------------------------------
(* rec2csv *)

\* rec_record_get_field_index_by_name: how many fields of the record with
\* the name come before field i.
rec_record_get_field_index_by_name(rec, i) ==
  Cardinality({j \in 1..(i - 1) : rec[j].n = rec[i].n})

\* rec_record_get_field_by_name: << >> if there is none.
ValueOf(rec, name, n) ==
  LET at == {i \in DOMAIN rec : /\ rec[i].n = name
                                /\ rec_record_get_field_index_by_name(rec, i) = n}
  IN {rec[i].v : i \in at}

\* A subscript of -1 stands for any.
rec_fex_member_p(elems, name, min, max) ==
  \E i \in DOMAIN elems : /\ elems[i].name = name
                          /\ min \in {-1, elems[i].min}
                          /\ max \in {-1, elems[i].max}

\* A list that is full stays as it is: rec2csv does not look at the result.
rec_fex_append(elems, name, min, max) ==
  IF Len(elems) >= FexMaxElems THEN elems ELSE Append(elems, Elem(name, min, max))

\* Slip: only the first field of a name has a column.
rec2csv_determine_fields_once(rset) ==
  LET names == FoldLeft(LAMBDA ns, f : IF f.n \in Range(ns) THEN ns ELSE Append(ns, f.n),
                        << >>, FlattenSeq(rset))
  IN Each(LAMBDA n : Elem(n, 0, 0), names)

\* The columns, in the order in which the records first have the fields.
rec2csv_determine_fields(rset) ==
  LET fields(rec) == Each(LAMBDA i : [name |-> rec[i].n,
                                      n |-> rec_record_get_field_index_by_name(rec, i)],
                          [i \in DOMAIN rec |-> i])
  IN FoldLeft(LAMBDA fex, f : IF rec_fex_member_p(fex, f.name, f.n, f.n) THEN fex
                              ELSE rec_fex_append(fex, f.name, f.n, f.n),
              << >>, FlattenSeq(Each(fields, rset)))

csv_fwrite(v) ==
  <<"\"">> \o Map(v, LAMBDA c : IF c = "\"" THEN <<c, c>> ELSE <<c>>) \o <<"\"">>

Header(e) == IF e.min # 0 THEN e.name \o <<"_">> \o Txt(ToString(e.min + 1))
             ELSE e.name

Line(cells) ==
  FlattenSeq(Each(LAMBDA i : (IF i = 1 THEN << >> ELSE <<",">>) \o cells[i],
                  [i \in DOMAIN cells |-> i])) \o <<"\n">>

\* A field that the record does not have is written as nothing.
rec2csv_generate_csv(rset, fex) ==
  LET cell(rec, e) ==
        LET v == ValueOf(rec, e.name, e.min)
        IN IF v = {} THEN << >> ELSE csv_fwrite(CHOOSE x \in v : TRUE)
  IN Line(Each(LAMBDA e : csv_fwrite(Header(e)), fex))
     \o FlattenSeq(Each(LAMBDA rec : Line(Each(LAMBDA e : cell(rec, e), fex)), rset))

---------------------------------------------------------------------------
(* libcsv: the parser's state, with the row being read and the rows read.  *)

CsvInit == [state |-> "row", quoted |-> FALSE, spaces |-> 0, buf |-> << >>,
            row |-> << >>, rows |-> << >>]

SubmitChar(p, c) == [p EXCEPT !.buf = Append(@, c)]

\* cut: characters at the end of the buffer that are not part of the field
SubmitField(p, cut) ==
  [p EXCEPT !.row = Append(@, SubSeq(p.buf, 1, Len(p.buf) - cut)), !.buf = << >>,
            !.quoted = FALSE, !.spaces = 0, !.state = "field"]

SubmitRow(p) == [p EXCEPT !.rows = Append(@, p.row), !.row = << >>, !.state = "row"]

NotBegun(p, c) ==
  CASE c \in {" ", "\t"} -> p
    [] c = "\n" -> IF p.state = "field" THEN SubmitRow(SubmitField(p, 0)) ELSE p
    [] c = "," -> SubmitField(p, 0)
    [] c = "\"" -> [p EXCEPT !.state = "begun", !.quoted = TRUE]
    [] OTHER -> SubmitChar([p EXCEPT !.state = "begun"], c)

Begun(p, c) ==
  CASE c = "\"" /\ p.quoted -> SubmitChar([p EXCEPT !.state = "ended"], c)
    [] c = "," /\ ~p.quoted -> SubmitField(p, p.spaces)
    [] c = "\n" /\ ~p.quoted -> SubmitRow(SubmitField(p, p.spaces))
    [] c \in {" ", "\t"} /\ ~p.quoted -> SubmitChar([p EXCEPT !.spaces = @ + 1], c)
    [] c \in {",", "\n"} -> SubmitChar(p, c)
    [] OTHER -> SubmitChar([p EXCEPT !.spaces = 0], c)

\* A quote has been seen in a quoted field.
MightHaveEnded(p, c) ==
  CASE c = "," -> SubmitField(p, p.spaces + 1)
    [] c = "\n" -> SubmitRow(SubmitField(p, p.spaces + 1))
    [] c \in {" ", "\t"} -> SubmitChar([p EXCEPT !.spaces = @ + 1], c)
    [] c = "\"" /\ p.spaces = 0 -> [p EXCEPT !.state = "begun"]
    [] c = "\"" -> SubmitChar([p EXCEPT !.spaces = 0], c)
    [] OTHER -> SubmitChar([p EXCEPT !.state = "begun", !.spaces = 0], c)

csv_parse(text) ==
  FoldLeft(LAMBDA p, c : CASE p.state \in {"row", "field"} -> NotBegun(p, c)
                           [] p.state = "begun" -> Begun(p, c)
                           [] p.state = "ended" -> MightHaveEnded(p, c),
           CsvInit, text)

---------------------------------------------------------------------------
(* csv2rec *)

Name(cell) == Each(LAMBDA c : IF c \in {" ", "\t"} THEN "_" ELSE c, cell)

\* What becomes of cell i of a row.  One cell too many is not noticed: its
\* name is read beyond the end of the names.
field_cb(names, omit, cells, i) ==
  CASE omit /\ cells[i] = << >> -> "omit"
    [] i <= Len(names) -> "field"
    [] i = Len(names) + 1 -> "undefined"
    [] OTHER -> "fatal"

record_cb(names, omit, cells) ==
  Each(LAMBDA i : Fld(names[i], cells[i]),
       Where(Len(cells), LAMBDA i : field_cb(names, omit, cells, i) = "field"))

\* csv_fini is not called: what follows the last newline is dropped.
process_csv(text, omit) ==
  LET rows == csv_parse(text).rows
      names == Each(Name, rows[1])
      body == Tail(rows)
  IN CASE rows = << >> -> [ok |-> TRUE, rset |-> << >>]
       [] \/ \E i \in DOMAIN names : ~rec_field_name_p(names[i])
          \/ \E r \in DOMAIN body : \E i \in DOMAIN body[r] :
               field_cb(names, omit, body[r], i) \in {"fatal", "undefined"}
          -> [ok |-> FALSE, rset |-> << >>]
       [] OTHER -> [ok |-> TRUE,
                    rset |-> Each(LAMBDA cells : record_cb(names, omit, cells), body)]

---------------------------------------------------------------------------
(* recfmt *)

\* The text for a slot that holds a field name; other expressions are the
\* subject of RecSex.  What is no expression ends the program.
recfmt_get_subst(rec, slot) ==
  LET v == ValueOf(rec, slot, 0)
  IN [ok |-> rec_field_name_p(slot), text |-> IF v = {} THEN << >> ELSE CHOOSE x \in v : TRUE]

\* The places of t where a slot opens, and where it closes.
Close(t, i) == FirstAt(t, i + 2, LAMBDA c : c = "}")
Slots(t) == {i \in 1..(Len(t) - 3) : /\ t[i] = "{" /\ t[i + 1] = "{"
                                     /\ Close(t, i) < Len(t) /\ t[Close(t, i) + 1] = "}"}

\* Slip: the substituted text is scanned again.
RECURSIVE recfmt_apply_template_again(_, _)
recfmt_apply_template_again(rec, t) ==
  LET i == Min(Slots(t))
      subst == recfmt_get_subst(rec, SubSeq(t, i + 2, Close(t, i) - 1))
  IN IF Slots(t) = {} THEN [ok |-> TRUE, text |-> t]
     ELSE IF ~subst.ok THEN subst
     ELSE recfmt_apply_template_again(rec, SubSeq(t, 1, i - 1) \o subst.text
                                           \o From(t, Close(t, i) + 2))

\* Slots are replaced from left to right.
RECURSIVE recfmt_apply_template(_, _)
recfmt_apply_template(rec, t) ==
  LET i == Min(Slots(t))
      subst == recfmt_get_subst(rec, SubSeq(t, i + 2, Close(t, i) - 1))
      rest == recfmt_apply_template(rec, From(t, Close(t, i) + 2))
  IN IF Slots(t) = {} THEN [ok |-> TRUE, text |-> t]
     ELSE IF ~subst.ok THEN subst
     ELSE [rest EXCEPT !.text = SubSeq(t, 1, i - 1) \o subst.text \o @]

=============================================================================
