------------------------------ MODULE MCRecSex ------------------------------
(* Instances of RecSex for TLC. *)
EXTENDS RecSex

A == NameNode(<<"A">>, << >>, -1)
B == NameNode(<<"B">>, << >>, -1)
Leaves ==
  {A, NameNode(<<"A">>, << >>, 0), NameNode(<<"A">>, << >>, 1),
   NameNode(<<"A">>, <<"B">>, -1), B, NodeOf("sha", <<A>>),
   IntNode(1), IntNode(2), RealNode(<<3, 2>>), StrNode(Txt("2")),
   StrNode(Txt("a")), StrNode(Txt("@1.5"))}

Right == {A, B, IntNode(1), RealNode(<<3, 2>>), StrNode(Txt("a")),
          StrNode(Txt("@1.5"))}

Binary == {"add", "sub", "mul", "div", "mod", "eql", "neq", "mat", "before",
           "after", "sametime", "lt", "lte", "gt", "gte", "and", "or",
           "implies", "concat"}

IsTwo(l) == NodeOf("eql", <<l, IntNode(2)>>)

\* Every operator on two leaves, and ways to combine comparisons of a field
\* with others of the same or of another name.
Flat == {NodeOf(op, <<l, r>>) : op \in Binary, l \in Leaves, r \in Right}
        \cup {NodeOf("not", <<l>>) : l \in Leaves}
Compound ==
  {NodeOf(op, <<IsTwo(l), r>>) :
     op \in {"and", "or", "implies", "eql"}, l \in {A, B},
     r \in {IsTwo(B), NodeOf("not", <<IsTwo(A)>>),
            IsTwo(NameNode(<<"A">>, << >>, 1)),
            NodeOf("gt", <<NodeOf("sha", <<A>>), IntNode(1)>>),
            NodeOf("lt", <<B, A>>)}}
  \cup {NodeOf("cond", <<c, A, r>>) : c \in {IsTwo(B), A},
                                      r \in {IntNode(1), NameNode(<<"A">>, << >>, 1)}}

F(n, s) == [n |-> <<n>>, v |-> Txt(s)]
Rec1 == <<F("A", "1"), F("A", "2"), F("B", "1"), F("B", "2")>>
SmallRecords ==
  {<< >>, <<F("A", "2")>>, <<F("A", "a"), F("A", "2")>>,
   <<F("B", "2"), F("A", "1"), F("A", "2"), F("A", "a")>>, Rec1,
   <<F("A", "@1"), F("B", "@1.25")>>, <<F("B", "1.5"), F("A", "10")>>,
   <<[n |-> <<"A", "B">>, v |-> Txt("2")], F("A", "-1")>>,
   <<F("A", "257"), F("B", "700")>>}

SmallCases ==
  {[expr |-> e, icase |-> c, recs |-> <<r>>] :
     e \in Flat, c \in {FALSE}, r \in SmallRecords}
  \cup {[expr |-> e, icase |-> c, recs |-> <<r1, r2>>] :
          e \in Compound, c \in {FALSE}, r1 \in SmallRecords,
          r2 \in SmallRecords}
  \cup {[expr |-> NodeOf(op, <<A, StrNode(Txt("A"))>>), icase |-> c,
         recs |-> <<r>>] :
          op \in {"eql", "neq", "mat"}, c \in BOOLEAN, r \in SmallRecords}

=============================================================================
