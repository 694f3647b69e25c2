----------------------------- MODULE RecSyntax ------------------------------
(***************************************************************************)
(* The languages of recutils, checked on every input up to a length: the   *)
(* text of records, field expressions, type descriptors, the order of      *)
(* typed values, CSV files and templates.                                  *)
(*                                                                         *)
(* A behaviour chooses a topic and writes an input for it word by word.    *)
(* The words are texts, values or fields, as the topic demands.            *)
(***************************************************************************)
EXTENDS RecTypes, RecCsv

CONSTANTS Topics,  \* a function from topics to [first, words, max]
          EndOfRecord  \* in a record set: the next field begins a record

VARIABLES topic, words

vars == <<topic, words>>

Init == topic \in DOMAIN Topics /\ \E w \in Topics[topic].first : words = <<w>>

Write(w) ==
  /\ Len(words) < Topics[topic].max
  /\ words' = Append(words, w)
  /\ UNCHANGED topic

Next == \E w \in Topics[topic].words : Write(w)

Spec == Init /\ [][Next]_vars

text == FlattenSeq(words)

---------------------------------------------------------------------------
(* Records *)

\* A backslash before a newline, or at the end of the value.
Fragile(v) ==
  \E i \in DOMAIN v : v[i] = "\\" /\ (i = Len(v) \/ v[i + 1] = "\n")

\* A field that rec_write_record writes is read back by rec_parse_record
\* with its value, whatever newlines, blanks and plus signs the value holds,
\* and so is the field after it; the values with a backslash at the end of
\* a line are exactly the ones that are not.
FieldRoundTrip ==
  topic = "value" =>
    LET rec == <<Fld(<<"A">>, text), Fld(<<"B">>, <<"x">>)>>
        again == rec_parse_record(rec_write_record(rec, "normal", FALSE), 1)
    IN (again.ok /\ again.rec = rec) <=> ~Fragile(text)

\* A value written as part of an s-expression is the one that a Lisp reader
\* finds between the quotes.
RECURSIVE LispRead(_, _, _)
LispRead(t, i, out) ==
  IF i > Len(t) \/ t[i] = "\"" THEN [text |-> out, at |-> i]
  ELSE IF t[i] # "\\" THEN LispRead(t, i + 1, Append(out, t[i]))
  ELSE LispRead(t, i + 2, Append(out, IF t[i + 1] = "n" THEN "\n" ELSE t[i + 1]))

SexpRoundTrip ==
  topic = "value" =>
    LET t == rec_write_field(Fld(<<"A">>, text), "sexp")
        start == Len("(field \"A\" \"") + 1
        read == LispRead(t, start, << >>)
    IN read.text = text /\ read.at = Len(t) - 1

\* A field comes back from what the writer makes of it, in either mode.
ValueRoundTrip == FieldRoundTrip /\ SexpRoundTrip

\* What rec_parse_record has read, comments included, is read again from
\* what rec_write_record makes of it and the newline that follows it; and a
\* record turned to a comment (rec_field_to_comment) is still one comment when
\* it is read back.
Reparse ==
  topic = "record" =>
    LET read == rec_parse_record(text, 1)
        written == Append(rec_write_record(read.rec, "normal", FALSE), "\n")
        again == rec_parse_record(written, 1)
        note == rec_field_to_comment(read.rec[1])
    IN read.ok =>
         /\ (\A i \in DOMAIN read.rec : ~Fragile(read.rec[i].v) \/ read.rec[i].k = "comment")
            => again.ok /\ again.rec = read.rec
         /\ rec_parse_comment(rec_write_comment(note, "normal"), 1).elem = note

---------------------------------------------------------------------------
(* Field expressions *)

\* A subscript that strtol takes for an octal number and does not accept.
BadOctal(t) ==
  \E i \in 1..(Len(t) - 1) :
    /\ i > 1 => t[i - 1] \notin Digits
    /\ t[i] = "0"
    /\ LET end == FirstAt(t, i, LAMBDA c : c \notin Digits)
       IN \E k \in i..(end - 1) : t[k] \in {"8", "9"}

\* A rewrite rule to a name with a subname.
DottedRule(t) ==
  \E i \in DOMAIN t : /\ t[i] = ":"
                      /\ LET to == rec_parse_regexp(t, i + 1, FNAME)
                         IN to.ok /\ to.at <= Len(t) /\ t[to.at] = "."

\* rec_fex_check and rec_fex_new agree: what one of them accepts (recsel -p,
\* for instance, is checked first) the other can parse, except for octal
\* subscripts and rewrite rules with a subname; and what is parsed again from
\* rec_fex_str is the same list.
FexAccepted ==
  LET plain(fex) == \A i \in DOMAIN fex.elems : /\ fex.elems[i].function = << >>
                                                /\ fex.elems[i].to = << >>
  IN topic = "fex" =>
       \A kind \in Kinds :
         rec_fex_check(text, kind) =>
           \A fex \in {rec_fex_new(text, kind)} :
             /\ fex.ok <=> ~(kind = "subscripts" /\ (BadOctal(text) \/ DottedRule(text)))
             /\ fex.ok /\ plain(fex) => rec_fex_new(rec_fex_str(fex.elems, kind), kind) = fex

\* rec_fex_sort keeps the elements; it orders those of a list in which every
\* element has a subscript, and elements with the same subscript stay in
\* their order (recset walks through the list that it gives).
FexSorted ==
  LET of(list, n) == SelectSeq(list, LAMBDA e : e.min = n)
      times(list, e) == Cardinality({j \in DOMAIN list : list[j] = e})
  IN topic = "fex" =>
       \A elems \in {rec_fex_new(text, "subscripts").elems} :
         \A sorted \in {rec_fex_sort(elems)} :
           /\ \A i \in DOMAIN elems : times(sorted, elems[i]) = times(elems, elems[i])
           /\ (\A i \in DOMAIN elems : elems[i].min >= 0) =>
                /\ \A i, j \in DOMAIN sorted : i < j => sorted[i].min <= sorted[j].min
                /\ \A i \in DOMAIN elems : of(sorted, elems[i].min) = of(elems, elems[i].min)

\* A field expression that is accepted can be parsed, printed and sorted.
FexExact == FexAccepted /\ FexSorted

---------------------------------------------------------------------------
(* Types *)

Parts(t) == SelectSeq(Split(t, Blanks), LAMBDA w : w # << >>)

\* The text with its comments in parentheses blanked; ok if they are closed.
NoComments(t) ==
  LET inside == {i \in DOMAIN t : \E o, c \in DOMAIN t :
                    /\ o <= i /\ i <= c /\ t[o] = "(" /\ t[c] = ")"
                    /\ \A k \in (o + 1)..(c - 1) : t[k] \notin {"(", ")"}}
  IN Each(LAMBDA i : IF i \in inside THEN " " ELSE t[i], [i \in DOMAIN t |-> i])

Point(w) ==
  CASE w = Txt("MIN") -> Good(INT_MIN)
    [] w = Txt("MAX") -> Good(INT_MAX)
    [] OTHER -> IF MatchAll(INT, w) /\ Written(w).v \in INT_MIN..INT_MAX
                THEN Written(w) ELSE Bad

\* The place of the delimiter that closes a regular expression s, {} if there
\* is none: of the delimiters behind the first, it is the last of the first
\* odd number of them that stand together.
Together(s, k) == k - Max({j \in 1..k : j = 1 \/ s[j] # s[1]})
Closing(s) ==
  LET ends == {k \in 2..Len(s) : /\ Together(s, k) % 2 = 1
                                 /\ k = Len(s) \/ s[k + 1] # s[1]}
  IN {k \in ends : k = Min(ends)}

\* The expression between s[1] and s[end], of two delimiters only the first.
Between(s, end) ==
  Each(LAMBDA k : s[k],
       SelectSeq([k \in 1..(end - 1) |-> k],
                 LAMBDA k : k > 1 /\ (s[k] # s[1] \/ Together(s, k) % 2 = 1)))

\* What a regular expression without its keyword means.
RegexpMeaning(s) ==
  IF \E end \in Closing(s) : /\ \A k \in (end + 1)..Len(s) : rec_blank_p(s[k])
                             /\ regcomp(Between(s, end))
  THEN [kind |-> "regexp", re |-> Between(s, Max(Closing(s)))]
  ELSE NoType

\* What rec_type_new makes of a descriptor is what its words say: the bounds
\* of a range (0 is the default of the lower one), the limit of a size, the
\* names of an enumeration without its comments, the expression of a regexp
\* and the record type of a rec.  Only numbers that fit an int count here.
TypeMeaning ==
  topic = "type" =>
    LET t == rec_type_new(text)
        ws == Parts(text)
        names == Tail(Parts(NoComments(text)))
        points == Each(Point, Tail(ws))
        start == rec_skip_blanks(text, 1)
        regexp == From(text, rec_skip_blanks(text, start + Len("regexp")))
        allPoints == \A i \in DOMAIN points : points[i].ok
    IN /\ ws[1] = Txt("range") /\ Len(ws) \in {2, 3} /\ allPoints =>
            t = [kind |-> "range",
                 min |-> IF Len(ws) = 2 THEN 0 ELSE points[1].v,
                 max |-> Last(points).v]
       /\ ws[1] = Txt("size") =>
            IF Len(ws) = 2 /\ allPoints
               /\ Tail(ws)[1] \notin {Txt("MIN"), Txt("MAX")} /\ points[1].v >= 0
            THEN t = [kind |-> "size", max |-> points[1].v]
            ELSE Len(ws) # 2 => t = NoType
       /\ Parts(NoComments(text))[1] = Txt("enum") =>
            IF names # << >> /\ \A i \in DOMAIN names : MatchAll(EnumName, names[i])
            THEN t = [kind |-> "enum", names |-> names]
            ELSE t = NoType
       /\ StandsAt(Txt("regexp"), text, start) /\ regexp # << >> =>
            t = RegexpMeaning(regexp)
       /\ ws[1] = Txt("rec") =>
            IF Len(ws) = 2 /\ MatchAll(FNAME, ws[2])
            THEN t = [kind |-> "rec", ref |-> ws[2]]
            ELSE t = NoType

Kind(k) == [kind |-> k]

\* rec_type_values_cmp orders the values that it can read as its type says
\* (and the texts) totally: the order of a sort depends on nothing else.
\* Integers that fit an int are in the order of numbers; what rec_atoi makes
\* of others is ordered too, but as the numbers that are left of them.
Ordered(t, vs) ==
  LET cmp(i, j) == rec_type_values_cmp(t, vs[i], vs[j])
  IN \A i, j, k \in DOMAIN vs :
       /\ cmp(i, j) = -cmp(j, i)
       /\ cmp(i, j) <= 0 /\ cmp(j, k) <= 0 => cmp(i, k) <= 0

Readable(t, v) ==
  CASE t.kind = "int" -> rec_atoi(v).ok
    [] t.kind = "real" -> rec_atod(v).ok
    [] t.kind = "date" -> parse_datetime(v).ok
    [] OTHER -> TRUE

Fits(v) == Written(v).ok /\ Written(v).v \in INT_MIN..INT_MAX
InOrderOfNumbers(vs) ==
  \A i, j \in DOMAIN vs :
    rec_type_values_cmp(Kind("int"), vs[i], vs[j])
      = Sign(Written(vs[i]).v, Written(vs[j]).v)

ValueOrder ==
  topic = "values" =>
    /\ \A k \in {"int", "real", "date", "bool", "line"} :
         Ordered(Kind(k), SelectSeq(words, LAMBDA v : Readable(Kind(k), v)))
    /\ InOrderOfNumbers(SelectSeq(words, Fits))

\* The manual: numeric fields "are numerically ordered", that is, the values
\* that rec_type_check accepts for the type of the field.
NumericFieldsOrdered ==
  /\ topic = "values"
  /\ \A i \in DOMAIN words : rec_type_check(Kind("int"), words[i])
  => Ordered(Kind("int"), words)

---------------------------------------------------------------------------
(* CSV files and templates *)

\* The record set that the words spell.
RsetOf(ws) ==
  LET ends == <<0>> \o Where(Len(ws), LAMBDA i : ws[i] = EndOfRecord) \o <<Len(ws) + 1>>
      recs == [i \in 1..(Len(ends) - 1) |-> SubSeq(ws, ends[i] + 1, ends[i + 1] - 1)]
  IN SelectSeq(recs, LAMBDA r : r # << >>)

\* What csv2rec reads from the output of rec2csv: the n-th field of a name
\* comes back under the name, or the name and n, with the value it had, and
\* all other columns of the record are empty.  Of more than FexMaxElems
\* columns those that come first are kept, and the others are lost in all
\* records (rec_fex_append).
CsvRoundTrip ==
  topic = "csv" =>
    LET rset == RsetOf(words)
        listed(rec) == [i \in DOMAIN rec |->
                          <<rec[i].n, Cardinality({j \in 1..i : rec[j].n = rec[i].n})>>]
        order == FlattenSeq(Each(listed, rset))
        all == {order[i] : i \in {i \in DOMAIN order :
                  Cardinality({order[j] : j \in 1..(i - 1)}) < FexMaxElems}}
        cells(r) == Range(listed(rset[r]))
        label(c) == IF c[2] = 1 THEN c[1] ELSE c[1] \o <<"_">> \o Txt(ToString(c[2]))
        back == process_csv(rec2csv_generate_csv(rset, rec2csv_determine_fields(rset)), FALSE)
    IN /\ back.ok /\ Len(back.rset) = Len(rset)
       /\ \A r \in DOMAIN rset :
            /\ Len(back.rset[r]) = Cardinality(all)
            /\ \A c \in all :
                 Cardinality({i \in DOMAIN back.rset[r] :
                                /\ back.rset[r][i].n = label(c)
                                /\ {back.rset[r][i].v} =
                                     IF c \in cells(r) THEN ValueOf(rset[r], c[1], c[2] - 1)
                                     ELSE {<< >>}}) >= 1

\* recfmt does not look for slots in the values it has put in: a template
\* gives the same text whatever the value is, up to the value itself.
Mark == "$"
NotRescanned ==
  topic = "template" =>
    LET value == Txt("{{B}}")
        marked == recfmt_apply_template(<<Fld(<<"A">>, <<Mark>>)>>, text)
        real == recfmt_apply_template(<<Fld(<<"A">>, value)>>, text)
    IN /\ marked.ok = real.ok
       /\ real.ok => real.text = Map(marked.text, LAMBDA c : IF c = Mark THEN value ELSE <<c>>)

=============================================================================
