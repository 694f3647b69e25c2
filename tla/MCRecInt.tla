------------------------------ MODULE MCRecInt ------------------------------
EXTENDS RecInt

\* The values of recset: a number and a word.  The new records of recins
\* also have the largest int and a text that looks encrypted.
Num(n) == <<"int", n>>
Word == <<"word", 0>>
MCValues == {Num(0), Word}

\* Blocks of four bytes and a checksum of two: the number 1 fills its block,
\* and the checksum of the word has a zero byte.
MCBytes(v) == CASE v[1] = "int" -> IF v[2] = 1 THEN <<7, 7>> ELSE <<7>>
                [] OTHER -> <<7, 8, 9>>
MCCrc(v) == IF v[1] = "word" THEN <<5, 0>> ELSE <<5, 6>>

MCPasswords == {<<"p">>, <<"q">>}

MCNewRecords ==
  {<< <<"A", Num(0)>> >>, << <<"B", Word>> >>,
   << <<"A", Num(3)>>, <<"B", Num(1)>> >>,
   << <<"B", Word>>, <<"B", <<"fake", 0>>>> >>}

SomeDirectives ==
  {Named("key", <<"A">>), Named("key", <<"B">>), Named("auto", <<"A">>),
   Named("auto", <<"A", "B">>), Named("mandatory", <<"B">>),
   Named("unique", <<"B">>), Named("prohibit", <<"B">>),
   Named("allowed", <<"A">>), Named("confidential", <<"B">>),
   Broken("unique"), Broken("key"), Broken("constraint"), Constraint("A", Num(0)),
   Type(<<"A">>, Kind("int")), Type(<<"A", "B">>, RangeType(0, 1)),
   Type(<<"A">>, TypeName("T")), Type(<<"A">>, Kind("uuid")),
   Type(<<"B">>, Kind("invalid")), Type(<<"B">>, RecType("R")),
   Typedef("T", Kind("date")), Typedef("T", TypeName("U")),
   Typedef("U", TypeName("T")), Typedef("U", Kind("int")),
   Size("=", 1), Size("<", 0), Size("<", 1), Size(">", 0),
   Size("<=", 1), Size(">=", 1)}

\* Local descriptors: one directive, two of which the second is one of six,
\* and a type name with two definitions.
Lists == {<<a>> : a \in SomeDirectives}
         \cup {<<a, b>> : a \in SomeDirectives, b \in {Named("key", <<"A">>), Named("auto", <<"A">>),
                 Named("confidential", <<"B">>), Type(<<"A">>, Kind("int")),
                 Type(<<"A">>, TypeName("T")), Typedef("T", Kind("date"))}}
         \cup {<<Type(<<"A">>, TypeName("T")), a, b>> :
                 a, b \in {c \in SomeDirectives : c.d = "typedef"}}

Missing == [state |-> "missing", descs |-> [n \in {} |-> << >>]]
External(l) == [state |-> "valid", descs |-> [n \in {"R"} |-> <<Rec("R", None)>> \o l]]
Externals ==
  {Missing, External(<<Named("key", <<"A">>)>>),
   External(<<Size("<=", 1), Type(<<"A">>, RangeType(0, 1))>>),
   External(<<Named("auto", <<"B">>), Type(<<"A">>, TypeName("V")),
              Typedef("V", Kind("int"))>>)}

Rset(desc, recs) == [desc |-> desc, recs |-> recs]
FirstRecords == {<< >>, << << <<"A", Num(2)>> >> >>}

\* One record set; one with an external descriptor; two of which the second
\* refers to the first.
MCStarts ==
  [file : {<<Rset(<<Rec("R", None)>> \o l, r)>> : l \in Lists, r \in FirstRecords},
   outside : {Missing}]
  \cup
  [file : {<<Rset(<<Rec("R", "ext"), l>>, r)>> : l \in SomeDirectives, r \in FirstRecords},
   outside : Externals]
  \cup
  [file : {<<Rset(<<Rec("R", None)>> \o l, << >>),
             Rset(<<Rec("S", None), Type(<<"B">>, RecType("R"))>>, << >>)>> :
             l \in {<< >>, <<Type(<<"A">>, Kind("int"))>>,
                    <<Named("key", <<"A">>), Type(<<"A">>, Kind("int"))>>}},
   outside : {Missing}]
=============================================================================
