---------------------------- MODULE MCRecSyntax -----------------------------
(* An instance of RecSyntax for TLC. *)
EXTENDS RecSyntax

Texts(strs) == {Txt(strs[i]) : i \in DOMAIN strs}

F(n, v) == Fld(Txt(n), Txt(v))
MCEndOfRecord == Fld(<< >>, << >>)
Fields == {F("A", "x"), F("A", ""), F("B", "a\"\n,"), F("A_2", " y"), MCEndOfRecord}

Values == Texts(<<"10", "9", "2 ", " 2", "0x1", "08", "-1.5", ".5", "-", "@10", "@9",
                  "yes", "no", "a", "65", "-99999">>)

MCTopics ==
  [t \in {"value", "record", "fex", "type", "values", "csv", "template"} |->
     CASE t = "value" ->
            [first |-> {<< >>}, words |-> Texts(<<"a", " ", "\n", "\\", "+", "\"">>), max |-> 7]
       [] t = "record" ->
            [first |-> {Txt("A:")},
             words |-> Texts(<<"B:", " ", "\n", "\\", "+", "#", "x">>), max |-> 7]
       [] t = "fex" ->
            [first |-> Texts(<<"A", "F(A)">>),
             words |-> Texts(<<"B", ".B", "[1]", "[0-2]", "[08]", ",", " ", ":A">>), max |-> 5]
       [] t = "type" ->
            [first |-> Texts(<<"range", "size", "enum", " rec", "regexp">>),
             words |-> Texts(<<" ", "1", "-2", "MAX", "40", "a", "(a)", "/", "(">>), max |-> 5]
       [] t = "values" -> [first |-> Values, words |-> Values, max |-> 3]
       [] t = "csv" -> [first |-> Fields \ {MCEndOfRecord}, words |-> Fields, max |-> 5]
       [] t = "template" ->
            [first |-> {<< >>}, words |-> Texts(<<"{", "{{", "A", "}}", "}", "+">>), max |-> 6]]

=============================================================================
