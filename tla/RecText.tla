------------------------------ MODULE RecText ------------------------------
(***************************************************************************)
(* The rec format: the parser of src/src/rec-parser.c and the writer of    *)
(* src/src/rec-writer.c, at the level of lines.  The parser is a function  *)
(* that consumes a line at a time (ParseLine, ParseEof), so that it can be *)
(* run step by step by a client or folded over a whole file (Parse).       *)
(*                                                                         *)
(* A line is blank, a comment line "#...", a field "Name: value" with its  *)
(* continuation lines, a line that is neither ("bad"), or the start of a   *)
(* field cut by the end of the file ("cut").                               *)
(***************************************************************************)
EXTENDS Integers, Sequences, FiniteSets, SequencesExt

CONSTANTS
  REC,      \* the special field name %rec
  None,     \* no descriptor, no type
  Contents  \* the names and values of fields and the texts of comments

\* What records are made of: fields and comments.
Items ==
  [k : {"field"}, n : Contents, v : Contents]
    \cup [k : {"comment"}, texts : Seq(Contents)]

ASSUME RecTextAssumption ==
  REC \in Contents /\ None \notin Contents /\ None \notin Seq(Items)

Blank == [k |-> "blank"]
Bad == [k |-> "bad"]
Cut == [k |-> "cut"]
CommentLine(x) == [k |-> "comment", of |-> x]
FieldLine(n, v) == [k |-> "field", n |-> n, v |-> v]

---------------------------------------------------------------------------
(* Databases: a sequence of record sets.  A record is a sequence of items, *)
(* fields and comments; a record set is a sequence of elements, records    *)
(* and comments, with a descriptor written before element descriptor_pos.  *)

Field(n, v) == [k |-> "field", n |-> n, v |-> v]
Comment(texts) == [k |-> "comment", texts |-> texts]
Record(items) == [k |-> "record", items |-> items]

\* The members of the kind k: of the list of a record, its fields or its
\* comments, of that of a record set, its records or its comments.
Only(s, k) ==
  FlattenSeq([i \in DOMAIN s |-> IF s[i].k = k THEN <<s[i]>> ELSE << >>])

Fields(items) == Only(items, "field")
HasField(items, n) == \E i \in DOMAIN items : items[i].k = "field"
                                              /\ items[i].n = n
FieldValue(items, n) ==
  items[Min({i \in DOMAIN items : items[i].k = "field" /\ items[i].n = n})].v

NewRset(d) == [desc |-> d, dpos |-> 0, elems |-> << >>]

\* rec_rset_type: the value of %rec in the descriptor.
RsetType(rset) ==
  IF rset.desc = None \/ ~HasField(rset.desc, REC) THEN None
  ELSE FieldValue(rset.desc, REC)

Records(rset) == Only(rset.elems, "record")
Comments(rset) == Only(rset.elems, "comment")
NumRecords(rset) ==
  Cardinality({i \in DOMAIN rset.elems : rset.elems[i].k = "record"})
RsetsOfType(db, t) == {i \in DOMAIN db : RsetType(db[i]) = t}

---------------------------------------------------------------------------
(* The parser *)

\* rec: the items of the record being parsed; last: the last line was a
\* comment line, which the next one continues; out: the record sets that
\* were completed.
NewParser == [out |-> << >>, rset |-> NewRset(None), rec |-> << >>,
              last |-> FALSE, err |-> FALSE, eof |-> FALSE]

\* rec_parse_comment: a comment spans the adjacent comment lines.
AddText(s, continues, x) ==
  IF continues
  THEN [s EXCEPT ![Len(s)].texts = Append(@, x)]
  ELSE Append(s, Comment(<<x>>))

\* Slip: a descriptor is taken in place after records without a type.
EndRecordLate(st) ==
  IF st.rec = << >> THEN st
  ELSE IF ~HasField(st.rec, REC)
  THEN [st EXCEPT !.rset.elems = Append(@, Record(st.rec)), !.rec = << >>]
  ELSE IF st.rset.desc = None
  THEN [st EXCEPT !.rset.desc = st.rec,
                  !.rset.dpos = Len(st.rset.elems), !.rec = << >>]
  ELSE [st EXCEPT !.out = Append(@, st.rset),
                  !.rset = NewRset(st.rec), !.rec = << >>]

\* rec_parse_rset, once rec_parse_record has returned a record: the first
\* descriptor is taken in place, a later one ends the record set and starts
\* the next (parser->prev_descriptor).
EndRecord(st) ==
  IF st.rec = << >> THEN st
  ELSE IF ~HasField(st.rec, REC)
  THEN [st EXCEPT !.rset.elems = Append(@, Record(st.rec)), !.rec = << >>]
  ELSE IF NumRecords(st.rset) = 0 /\ st.rset.desc = None
  THEN [st EXCEPT !.rset.desc = st.rec,
                  !.rset.dpos = Len(st.rset.elems), !.rec = << >>]
  ELSE [st EXCEPT !.out = Append(@, st.rset),
                  !.rset = NewRset(st.rec), !.rec = << >>]

\* A parse error destroys the record and the record set being parsed.
Error(st) == [st EXCEPT !.err = TRUE, !.rset = NewRset(None), !.rec = << >>]

\* rec_parse_rset and rec_parse_record, for the lines up to the next one.
ParseLine(st, line) ==
  IF st.err \/ st.eof THEN st
  ELSE CASE line.k = "blank" -> [EndRecord(st) EXCEPT !.last = FALSE]
         [] line.k = "field" ->
              [st EXCEPT !.rec = Append(@, Field(line.n, line.v)),
                         !.last = FALSE]
         [] line.k = "comment" ->
              IF st.rec = << >>
              THEN [st EXCEPT
                      !.rset.elems = AddText(@, st.last, line.of),
                      !.last = TRUE]
              ELSE [st EXCEPT !.rec = AddText(@, st.last, line.of),
                              !.last = TRUE]
         [] line.k = "bad" -> Error(st)
         [] line.k = "cut" -> [Error(st) EXCEPT !.eof = TRUE]

\* Slip: a record set without records is dropped, descriptor and all.
ParseEofRecordsOnly(st) ==
  IF st.err THEN st
  ELSE LET s == EndRecord(st)
       IN IF NumRecords(s.rset) > 0
          THEN [s EXCEPT !.out = Append(@, s.rset), !.eof = TRUE,
                         !.rset = NewRset(None)]
          ELSE [s EXCEPT !.eof = TRUE]

\* The end of the input: rec_parse_rset returns the last record set if it
\* has a descriptor or a record.
ParseEof(st) ==
  IF st.err THEN st
  ELSE LET s == EndRecord(st)
       IN IF s.rset.desc # None \/ NumRecords(s.rset) > 0
          THEN [s EXCEPT !.out = Append(@, s.rset), !.eof = TRUE,
                         !.rset = NewRset(None)]
          ELSE [s EXCEPT !.eof = TRUE]

\* The parser st after the first n lines.
AfterLines(st, lines) ==
  LET after[n \in 0..Len(lines)] ==
        IF n = 0 THEN st ELSE ParseLine(after[n - 1], lines[n])
  IN after
ParseLines(st, lines) == AfterLines(st, lines)[Len(lines)]

Parse(lines) == ParseEof(ParseLines(NewParser, lines))

---------------------------------------------------------------------------
(* The writer *)

\* rec_write_field and rec_write_comment, with the newline that follows.
WriteItem(x) ==
  IF x.k = "field" THEN <<FieldLine(x.n, x.v)>>
  ELSE [i \in DOMAIN x.texts |-> CommentLine(x.texts[i])]

\* rec_write_record, with the newline that follows: a record without items
\* is an empty line.
WriteRecord(items) ==
  IF items = << >> THEN <<Blank>>
  ELSE FlattenSeq([i \in DOMAIN items |-> WriteItem(items[i])])

WriteElem(x) == IF x.k = "record" THEN WriteRecord(x.items) ELSE WriteItem(x)

\* Slip: a descriptor just behind the last element is not written.
WriteRsetPast(rset, n) ==
  LET here(i) ==
        (IF i # 1 THEN <<Blank>> ELSE << >>)
        \o (IF i - 1 = rset.dpos /\ rset.desc # None
            THEN WriteRecord(rset.desc) \o <<Blank>> ELSE << >>)
        \o WriteElem(rset.elems[i])
      body == FlattenSeq([i \in DOMAIN rset.elems |-> here(i)])
  IN IF n = 0 /\ rset.desc # None THEN WriteRecord(rset.desc)
     ELSE IF rset.desc # None /\ rset.dpos > n
     THEN body \o <<Blank>> \o WriteRecord(rset.desc)
     ELSE body

\* rec_write_rset, where n is rec_rset_num_elems, which is not the number
\* of the elements once the record set has been sorted.
WriteRsetCounting(rset, n) ==
  LET here(i) ==
        (IF i # 1 THEN <<Blank>> ELSE << >>)
        \o (IF i - 1 = rset.dpos /\ rset.desc # None
            THEN WriteRecord(rset.desc) \o <<Blank>> ELSE << >>)
        \o WriteElem(rset.elems[i])
      body == FlattenSeq([i \in DOMAIN rset.elems |-> here(i)])
  IN IF n = 0 /\ rset.desc # None THEN WriteRecord(rset.desc)
     ELSE IF rset.desc # None /\ rset.dpos >= n
     THEN body \o <<Blank>> \o WriteRecord(rset.desc)
     ELSE body

WriteRset(rset) == WriteRsetCounting(rset, Len(rset.elems))

\* rec_write_db: an empty line between two record sets.
Write(db) ==
  FlattenSeq([i \in DOMAIN db |->
                (IF i # 1 THEN <<Blank>> ELSE << >>) \o WriteRset(db[i])])

\* The lines that are not empty.
NonBlank(lines) ==
  FlattenSeq([i \in DOMAIN lines |-> IF lines[i] = Blank THEN << >>
                                     ELSE <<lines[i]>>])

=============================================================================
