----------------------------- MODULE MCRecQuery -----------------------------
EXTENDS RecQuery

R == <<"R">>
S == <<"S">>
F == <<"F">>    \* the foreign key of R
K == <<"K">>    \* the key of S
N == <<"N">>    \* a number
G == <<"G">>    \* a word

Field(n, v) == [n |-> n, v |-> Text(v)]

\* Records with repeated, missing and equal fields; two with the same key.
RRecords ==
  {<<Field(F, "1"), Field(N, "10")>>, <<Field(F, "1"), Field(F, "2"), Field(N, "2")>>,
   <<Field(N, "10"), Field(N, "2"), Field(N, "2")>>, <<Field(N, "-1"), Field(G, "x")>>,
   <<Field(G, "x"), Field(F, "2")>>}
RSets ==
  UNION {[1..n -> RRecords] : n \in 0..2}
  \cup {<<a, b, a>> : a, b \in RRecords}

TwoKeys == <<<<Field(K, "1"), Field(N, "2")>>, <<Field(K, "2")>>>>
OneKey == <<<<Field(N, "1"), Field(K, "2")>>>>

Rset(type, recs, sort, ints, key, refs) ==
  [type |-> type, recs |-> recs, count |-> Len(recs), sort |-> sort, order |-> sort,
   ints |-> ints, key |-> key, refs |-> refs]

RsetS(recs) == Rset(S, recs, None, {}, K, << >>)

\* With and without %sort, with N an integer or a text; S without a key, and
\* with a first record that lacks it.
MCDatabases ==
  {<<Rset(R, recs, None, {N}, None, F :> S), RsetS(TwoKeys)>> : recs \in RSets}
  \cup {<<Rset(R, recs, <<N>>, {}, None, F :> S), RsetS(OneKey)>> : recs \in RSets}
  \cup {<<Rset(R, <<r>>, None, {}, None, F :> S), Rset(S, OneKey, None, {}, None, << >>)>> :
          r \in RRecords}
  \cup {<<Rset(R, <<r>>, None, {}, None, F :> S),
          RsetS(<<<<Field(N, "1")>>>> \o TwoKeys)>> : r \in RRecords}
  \cup {<<Rset(None, recs, None, {}, None, << >>)>> : recs \in RSets}

Index(a, b) == [how |-> "index", index |-> <<<<a, b>>>>]
Sex(n, v) == [how |-> "sex", n |-> n, v |-> Text(v)]
Quick(v) == [how |-> "quick", v |-> Text(v)]
Random(num) == [how |-> "random", num |-> num]

Elem(n) == [n |-> n, min |-> NOINDEX, max |-> NOINDEX, function |-> "", alias |-> None]
Call(function, n) == [Elem(n) EXCEPT !.function = function]
Aggregates == <<Call("sum", N), Call("min", N), Call("max", N), Call("count", N),
                Call("median", N), Call("avg", N)>>

Of(type) == [NoQuery EXCEPT !.type = type]

MCQueries ==
  {[Of(R) EXCEPT !.group = g, !.sort = s, !.join = j] :
     g \in {None, <<N>>, <<G, N>>}, s \in {None, <<N>>}, j \in {None, F}}
  \cup {[Of(type) EXCEPT !.sel = sel] :
     type \in {None, R}, sel \in {Index(1, NOINDEX), Index(0, 1), Sex(N, "2"), Quick("1"),
                                  Random(0), Random(1), Random(2), Random(3)}}
  \cup {[Of(type) EXCEPT !.fex = Aggregates] :
     type \in {None, R, S}}
  \cup {[Of(R) EXCEPT !.fex = Append(Aggregates, [Elem(N) EXCEPT !.min = 1, !.alias = G]),
                      !.group = g] : g \in {None, <<G>>}}
  \cup {[Of(R) EXCEPT !.fex = <<[Elem(N) EXCEPT !.min = 0, !.max = 1], Elem(G)>>,
                      !.sort = <<G, N>>, !.descriptor = TRUE],
        [Of(R) EXCEPT !.uniq = TRUE], [Of(R) EXCEPT !.uniq = TRUE, !.sort = <<G>>],
        [Of(None) EXCEPT !.uniq = TRUE], Of(<<"T">>),
        [Of(S) EXCEPT !.join = K], [Of(S) EXCEPT !.group = <<K>>]}
=============================================================================
