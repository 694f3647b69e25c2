---------------------------- MODULE RecTextProofs ----------------------------
(***************************************************************************)
(* What the parser of RecText makes of what its writer writes.  A database *)
(* whose parts are read back one by one is read back as a whole            *)
(* (DbReadBack).                                                           *)
(***************************************************************************)
EXTENDS RecText, SeqLemmas

---------------------------------------------------------------------------
(* The parser over a sequence of lines *)

LEMMA AfterLinesDef ==
  ASSUME NEW st, NEW s, NEW N \in Nat, N = Len(s)
  PROVE  /\ AfterLines(st, s)[0] = st
         /\ \A n \in 1..N :
              AfterLines(st, s)[n] = ParseLine(AfterLines(st, s)[n - 1], s[n])
<1> DEFINE F == AfterLines(st, s)
           e(n) == s[n]
           at(h, n) == IF n = 0 THEN st ELSE ParseLine(h[n - 1], e(n))
           Upto(h, m) == h = [n \in 0..m |-> at(h, n)]
           S == {m \in Nat : \E h : Upto(h, m)}
<1>2. F = CHOOSE h : Upto(h, N)
  BY DEF AfterLines
<1> HIDE DEF F, e
<1>3. 0 \in S
  <2> DEFINE h == [n \in 0..0 |-> st]
  <2>1. Upto(h, 0)
    OBVIOUS
  <2> HIDE DEF Upto, h
  <2> QED BY <2>1
<1>4. ASSUME NEW m \in S PROVE m + 1 \in S
  <2>1. PICK g : Upto(g, m)
    OBVIOUS
  <2> DEFINE h == [n \in 0..(m + 1) |-> IF n = m + 1 THEN at(g, n) ELSE g[n]]
  <2>2. m \in Nat
    OBVIOUS
  <2>3. ASSUME NEW n \in 0..(m + 1) PROVE h[n] = at(h, n)
    <3>1. CASE n = 0
      BY <2>1, <2>2, <3>1
    <3>2. CASE n # 0
      <4>1. h[n - 1] = g[n - 1]
        BY <2>2, <3>2
      <4>2. h[n] = at(g, n)
        BY <2>1, <2>2, <3>2
      <4> QED BY <3>2, <4>1, <4>2
    <3> QED BY <3>1, <3>2
  <2>4. Upto(h, m + 1)
    BY <2>2, <2>3
  <2> HIDE DEF Upto, h
  <2> QED BY <2>2, <2>4
<1>5. N \in S
  <2>1. S \in SUBSET Nat
    OBVIOUS
  <2> HIDE DEF S
  <2> QED BY <1>3, <1>4, <2>1, NatSetInduction
<1>6. Upto(F, N)
  <2> HIDE DEF Upto
  <2> QED BY <1>2, <1>5
<1>7. F[0] = st /\ \A n \in 1..N : F[n] = ParseLine(F[n - 1], e(n))
  BY <1>6
<1> QED BY <1>7 DEF F, e

LEMMA ParseLinesNone == \A st : ParseLines(st, << >>) = st
<1> TAKE st
<1> DEFINE s == << >>
<1>1. Len(s) = 0
  OBVIOUS
<1> HIDE DEF s
<1>2. AfterLines(st, s)[0] = st
  BY <1>1, AfterLinesDef
<1>3. ParseLines(st, s) = st
  BY <1>1, <1>2 DEF ParseLines
<1> QED BY <1>3 DEF s

LEMMA ParseLinesOne == \A st, x : ParseLines(st, <<x>>) = ParseLine(st, x)
<1> TAKE st, x
<1> DEFINE s == <<x>>
<1>1. Len(s) = 1 /\ s[1] = x
  OBVIOUS
<1> HIDE DEF s
<1>2. AfterLines(st, s)[0] = st
      /\ \A n \in 1..Len(s) :
           AfterLines(st, s)[n] = ParseLine(AfterLines(st, s)[n - 1], s[n])
  <2>1. Len(s) \in Nat
    BY <1>1
  <2> QED BY <2>1, AfterLinesDef
<1>3. 1 \in 1..Len(s) /\ 1 - 1 = 0
  BY <1>1
<1>4. AfterLines(st, s)[1] = ParseLine(st, x)
  BY <1>1, <1>2, <1>3
<1>5. ParseLines(st, s) = ParseLine(st, x)
  BY <1>1, <1>4 DEF ParseLines
<1> QED BY <1>5 DEF s

LEMMA ParseLinesConcat ==
  ASSUME NEW L, NEW s \in Seq(L), NEW t \in Seq(L), NEW st
  PROVE  ParseLines(st, s \o t) = ParseLines(ParseLines(st, s), t)
<1> DEFINE r == s \o t
           M == Len(s)
           N == Len(t)
           A == AfterLines(st, s)
           B == AfterLines(A[M], t)
           C == AfterLines(st, r)
<1>1. /\ Len(r) = M + N /\ M \in Nat /\ N \in Nat
      /\ \A i \in 1..M + N : r[i] = IF i <= M THEN s[i] ELSE t[i - M]
  BY ConcatProperties
<1> HIDE DEF r
<1>2. /\ A[0] = st /\ \A n \in 1..M : A[n] = ParseLine(A[n - 1], s[n])
  BY <1>1, AfterLinesDef
<1>3. /\ B[0] = A[M] /\ \A n \in 1..N : B[n] = ParseLine(B[n - 1], t[n])
  <2> HIDE DEF A
  <2> QED BY <1>1, AfterLinesDef
<1>4. /\ C[0] = st /\ \A n \in 1..(M + N) : C[n] = ParseLine(C[n - 1], r[n])
  BY <1>1, AfterLinesDef
<1>5. /\ ParseLines(st, s) = A[M] /\ ParseLines(st, r) = C[M + N]
      /\ ParseLines(A[M], t) = B[N]
  BY <1>1 DEF ParseLines
<1> HIDE DEF M, N, A, B, C
<1>6. C[M] = A[M]
  <2> DEFINE T == {n \in 0..M : C[n] = A[n]}
  <2>1. 0 \in T
    BY <1>1, <1>2, <1>4
  <2>2. ASSUME NEW n \in 0..(M - 1), n \in T PROVE n + 1 \in T
    <3>1. n + 1 \in 1..M /\ n + 1 \in 1..(M + N) /\ (n + 1) - 1 = n
          /\ n + 1 <= M /\ n + 1 \in 0..M
      BY <1>1
    <3>2. r[n + 1] = s[n + 1]
      BY <1>1, <3>1
    <3>3. C[n + 1] = ParseLine(C[n], r[n + 1])
      BY <1>4, <3>1
    <3>4. A[n + 1] = ParseLine(A[n], s[n + 1])
      BY <1>2, <3>1
    <3> QED BY <2>2, <3>1, <3>2, <3>3, <3>4
  <2>3. 0..M \subseteq T
    <3> HIDE DEF T
    <3> QED BY <1>1, <2>1, <2>2, UpToInduction
  <2>4. M \in T
    BY <1>1, <2>3
  <2> QED BY <2>4
<1>7. C[M + N] = B[N]
  <2> DEFINE T == {n \in 0..N : C[M + n] = B[n]}
  <2>1. 0 \in T
    BY <1>1, <1>3, <1>6
  <2>2. ASSUME NEW n \in 0..(N - 1), n \in T PROVE n + 1 \in T
    <3>1. n + 1 \in 1..N /\ M + (n + 1) \in 1..(M + N) /\ (n + 1) - 1 = n
          /\ (M + (n + 1)) - 1 = M + n /\ ~(M + (n + 1) <= M)
          /\ (M + (n + 1)) - M = n + 1 /\ n + 1 \in 0..N
      BY <1>1, SMTT(60)
    <3>2. r[M + (n + 1)] = t[n + 1]
      BY <1>1, <3>1
    <3>3. C[M + (n + 1)] = ParseLine(C[M + n], r[M + (n + 1)])
      BY <1>4, <3>1
    <3>4. B[n + 1] = ParseLine(B[n], t[n + 1])
      BY <1>3, <3>1
    <3> QED BY <2>2, <3>1, <3>2, <3>3, <3>4
  <2>3. 0..N \subseteq T
    <3> HIDE DEF T
    <3> QED BY <1>1, <2>1, <2>2, UpToInduction
  <2>4. N \in T
    BY <1>1, <2>3
  <2> QED BY <2>4
<1>8. ParseLines(st, r) = ParseLines(ParseLines(st, s), t)
  BY <1>5, <1>7
<1> QED BY <1>8 DEF r

---------------------------------------------------------------------------
(* Lines, items and elements whose names, values and texts are in U *)

LinesOver(U) ==
  {Blank} \cup [k : {"comment"}, of : U] \cup [k : {"field"}, n : U, v : U]
ItemsOver(U) ==
  [k : {"field"}, n : U, v : U] \cup [k : {"comment"}, texts : Seq(U)]
ElemsOver(U) ==
  [k : {"record"}, items : Seq(ItemsOver(U))]
    \cup [k : {"comment"}, texts : Seq(U)]

\* The parser after the record sets of o and a part of r, with the items i
\* of a record; b: the last line was a comment line.  Yes and No keep the
\* truth values in a record apart from the formulas.
Yes == TRUE
No == FALSE
Parts == {"out", "rset", "rec", "last", "err", "eof"}
Reading(o, r, i, b) ==
  [out |-> o, rset |-> r, rec |-> i, last |-> b, err |-> No, eof |-> No]
RsetOf(d, n, s) == [desc |-> d, dpos |-> n, elems |-> s]

LEMMA ReadingIs ==
  \A o, r, i, b :
    /\ Reading(o, r, i, b).out = o /\ Reading(o, r, i, b).rset = r
    /\ Reading(o, r, i, b).rec = i /\ Reading(o, r, i, b).last = b
    /\ Reading(o, r, i, b).err = No /\ Reading(o, r, i, b).eof = No
    /\ DOMAIN Reading(o, r, i, b) = Parts
  BY DEF Reading, Parts

LEMMA IsReading ==
  ASSUME NEW q, NEW o, NEW r, NEW i, NEW b, q = [f \in Parts |-> q[f]],
         q.out = o, q.rset = r, q.rec = i, q.last = b,
         q.err = No, q.eof = No
  PROVE  q = Reading(o, r, i, b)
  BY DEF Reading, Parts

LEMMA RsetOfIs ==
  \A d, n, s : /\ RsetOf(d, n, s).desc = d /\ RsetOf(d, n, s).dpos = n
               /\ RsetOf(d, n, s).elems = s
  BY DEF RsetOf

\* What the parser does with a line, by its kind.
LEMMA ParseLineIs ==
  ASSUME NEW st, st.err = No, st.eof = No, NEW line
  PROVE  /\ line.k = "blank" =>
              ParseLine(st, line) = [EndRecord(st) EXCEPT !.last = No]
         /\ line.k = "field" =>
              ParseLine(st, line) =
                [st EXCEPT !.rec = Append(st.rec, Field(line.n, line.v)),
                           !.last = No]
         /\ line.k = "comment" /\ st.rec # << >> =>
              ParseLine(st, line) =
                [st EXCEPT !.rec = AddText(st.rec, st.last, line.of),
                           !.last = Yes]
         /\ line.k = "comment" /\ st.rec = << >> =>
              ParseLine(st, line) =
                [st EXCEPT
                   !.rset.elems = AddText(st.rset.elems, st.last, line.of),
                   !.last = Yes]
<1>0. ~st.err /\ ~st.eof
  BY DEF No
<1>1. CASE line.k = "blank"
  BY <1>0, <1>1 DEF ParseLine, No
<1>2. CASE line.k = "field"
  BY <1>0, <1>2 DEF ParseLine, No
<1>3. CASE line.k = "comment" /\ st.rec # << >>
  BY <1>0, <1>3 DEF ParseLine, Yes
<1>4. CASE line.k = "comment" /\ st.rec = << >>
  BY <1>0, <1>4 DEF ParseLine, Yes
<1> QED BY <1>1, <1>2, <1>3, <1>4

LEMMA ReadField ==
  \A o, r, i, b, n, v :
    ParseLine(Reading(o, r, i, b), FieldLine(n, v)) =
      Reading(o, r, Append(i, Field(n, v)), No)
<1> TAKE o, r, i, b, n, v
<1> DEFINE st == Reading(o, r, i, b)
           line == FieldLine(n, v)
           q == ParseLine(st, line)
           j == Append(i, Field(n, v))
<1>1. /\ st.out = o /\ st.rset = r /\ st.rec = i /\ st.last = b
      /\ st.err = No /\ st.eof = No /\ DOMAIN st = Parts
  BY ReadingIs
<1>2. line.k = "field" /\ line.n = n /\ line.v = v
  BY DEF FieldLine
<1> HIDE DEF st, line
<1>3. q = [st EXCEPT !.rec = Append(st.rec, Field(line.n, line.v)), !.last = No]
  BY <1>1, <1>2, ParseLineIs
<1>4. q = [st EXCEPT !.rec = j, !.last = No]
  BY <1>1, <1>2, <1>3
<1> HIDE DEF j, q
<1>5. /\ q.out = o /\ q.rset = r /\ q.rec = j /\ q.last = No
      /\ q.err = No /\ q.eof = No /\ q = [f \in Parts |-> q[f]]
  BY <1>1, <1>4 DEF Parts
<1>6. q = Reading(o, r, j, No)
  BY <1>5, IsReading
<1> QED BY <1>6 DEF q, j, st, line

LEMMA ReadCommentInRecord ==
  \A o, r, i, b, x : i # << >> =>
    ParseLine(Reading(o, r, i, b), CommentLine(x)) =
      Reading(o, r, AddText(i, b, x), Yes)
<1> TAKE o, r, i, b, x
<1> SUFFICES ASSUME i # << >>
             PROVE  ParseLine(Reading(o, r, i, b), CommentLine(x)) =
                      Reading(o, r, AddText(i, b, x), Yes)
  OBVIOUS
<1> DEFINE st == Reading(o, r, i, b)
           line == CommentLine(x)
           q == ParseLine(st, line)
           j == AddText(i, b, x)
<1>1. /\ st.out = o /\ st.rset = r /\ st.rec = i /\ st.last = b
      /\ st.err = No /\ st.eof = No /\ DOMAIN st = Parts
  BY ReadingIs
<1>2. line.k = "comment" /\ line.of = x
  BY DEF CommentLine
<1> HIDE DEF st, line
<1>3. q = [st EXCEPT !.rec = AddText(st.rec, st.last, line.of), !.last = Yes]
  BY <1>1, <1>2, ParseLineIs
<1>4. q = [st EXCEPT !.rec = j, !.last = Yes]
  BY <1>1, <1>2, <1>3
<1> HIDE DEF j, q
<1>5. /\ q.out = o /\ q.rset = r /\ q.rec = j /\ q.last = Yes
      /\ q.err = No /\ q.eof = No /\ q = [f \in Parts |-> q[f]]
  BY <1>1, <1>4 DEF Parts
<1>6. q = Reading(o, r, j, Yes)
  BY <1>5, IsReading
<1> QED BY <1>6 DEF q, j, st, line

LEMMA ReadComment ==
  \A o, d, n, s, b, x :
    ParseLine(Reading(o, RsetOf(d, n, s), << >>, b), CommentLine(x)) =
      Reading(o, RsetOf(d, n, AddText(s, b, x)), << >>, Yes)
<1> TAKE o, d, n, s, b, x
<1> DEFINE r == RsetOf(d, n, s)
           st == Reading(o, r, << >>, b)
           line == CommentLine(x)
           q == ParseLine(st, line)
           j == AddText(s, b, x)
           w == [r EXCEPT !.elems = j]
<1>0. r.elems = s
  BY RsetOfIs
<1>00. w = RsetOf(d, n, j)
  BY DEF RsetOf
<1> HIDE DEF r
<1>1. /\ st.out = o /\ st.rset = r /\ st.rec = << >> /\ st.last = b
      /\ st.err = No /\ st.eof = No /\ DOMAIN st = Parts
  BY ReadingIs
<1>2. line.k = "comment" /\ line.of = x
  BY DEF CommentLine
<1> HIDE DEF st, line
<1>3. q = [st EXCEPT !.rset.elems = AddText(st.rset.elems, st.last, line.of),
                     !.last = Yes]
  BY <1>1, <1>2, ParseLineIs
<1>4. q = [st EXCEPT !.rset.elems = j, !.last = Yes]
  BY <1>0, <1>1, <1>2, <1>3
<1> HIDE DEF j, q
<1>5. /\ q.out = o /\ q.rset = w /\ q.rec = << >> /\ q.last = Yes
      /\ q.err = No /\ q.eof = No /\ q = [f \in Parts |-> q[f]]
  BY <1>1, <1>4 DEF Parts
<1> HIDE DEF w
<1>6. q = Reading(o, w, << >>, Yes)
  BY <1>5, IsReading
<1> QED BY <1>00, <1>6 DEF q, j, st, line, r

\* What an empty line makes of nothing, of a record, of the descriptor of
\* the record set being read and of that of the next.
LEMMA BlankReads ==
  ASSUME NEW o, NEW d, NEW n, NEW s, NEW i, NEW b
  PROVE  LET r == RsetOf(d, n, s)
             q == ParseLine(Reading(o, r, i, b), Blank)
         IN /\ i = << >> => q = Reading(o, r, << >>, No)
            /\ i # << >> /\ ~HasField(i, REC) =>
                 q = Reading(o, RsetOf(d, n, Append(s, Record(i))), << >>, No)
            /\ i # << >> /\ HasField(i, REC) =>
                 q = IF NumRecords(r) = 0 /\ d = None
                     THEN Reading(o, RsetOf(i, Len(s), s), << >>, No)
                     ELSE Reading(Append(o, r), NewRset(i), << >>, No)
<1> DEFINE r == RsetOf(d, n, s)
           st == Reading(o, r, i, b)
           e == EndRecord(st)
           q == ParseLine(st, Blank)
<1>0. r.desc = d /\ r.elems = s
  BY RsetOfIs
<1>1. /\ st.out = o /\ st.rset = r /\ st.rec = i /\ st.last = b
      /\ st.err = No /\ st.eof = No /\ DOMAIN st = Parts
  BY ReadingIs
<1>2. Blank.k = "blank"
  BY DEF Blank
<1> HIDE DEF st
<1>3. q = [e EXCEPT !.last = No]
  BY <1>1, <1>2, ParseLineIs
<1> HIDE DEF e, q, r
<1>4. ASSUME NEW o2, NEW r2, e.out = o2, e.rset = r2, e.rec = << >>,
             e.err = No, e.eof = No, DOMAIN e = Parts
      PROVE  q = Reading(o2, r2, << >>, No)
  <2>1. /\ q.out = o2 /\ q.rset = r2 /\ q.rec = << >> /\ q.last = No
        /\ q.err = No /\ q.eof = No /\ q = [f \in Parts |-> q[f]]
    BY <1>3, <1>4 DEF Parts
  <2> QED BY <2>1, IsReading
<1>5. CASE i = << >>
  <2>1. e = st
    BY <1>1, <1>5 DEF EndRecord, e
  <2>2. q = Reading(o, r, << >>, No)
    BY <1>1, <1>4, <1>5, <2>1
  <2> QED BY <1>5, <2>2 DEF q, st, r
<1>6. CASE i # << >> /\ ~HasField(i, REC)
  <2> DEFINE t == Append(s, Record(i))
             w == [r EXCEPT !.elems = t]
  <2>1. e = [st EXCEPT !.rset.elems = t, !.rec = << >>]
    BY <1>0, <1>1, <1>6 DEF EndRecord, e
  <2>2. w = RsetOf(d, n, t)
    BY DEF RsetOf, r
  <2> HIDE DEF t
  <2>3. /\ e.out = o /\ e.rset = w /\ e.rec = << >> /\ e.err = No /\ e.eof = No
        /\ DOMAIN e = Parts
    BY <1>1, <2>1 DEF Parts
  <2> HIDE DEF w
  <2>4. q = Reading(o, w, << >>, No)
    BY <1>4, <2>3
  <2> QED BY <1>6, <2>2, <2>4 DEF q, st, r, t
<1>7. CASE i # << >> /\ HasField(i, REC)
  <2>1. CASE NumRecords(r) = 0 /\ d = None
    <3> DEFINE m == Len(s)
               w == [r EXCEPT !.desc = i, !.dpos = m]
    <3>1. e = [st EXCEPT !.rset.desc = i, !.rset.dpos = m, !.rec = << >>]
      <4>1. e = [st EXCEPT !.rset.desc = st.rec, !.rset.dpos = Len(st.rset.elems),
                           !.rec = << >>]
        BY <1>0, <1>1, <1>7, <2>1 DEF EndRecord, e
      <4> QED BY <1>0, <1>1, <4>1
    <3> HIDE DEF m
    <3>2. w = RsetOf(i, m, s)
      <4>1. DOMAIN r = {"desc", "dpos", "elems"}
        BY DEF RsetOf, r
      <4>2. w.desc = i /\ w.dpos = m /\ w.elems = s
            /\ w = [f \in {"desc", "dpos", "elems"} |-> w[f]]
        BY <1>0, <4>1
      <4> HIDE DEF w
      <4> QED BY <4>2 DEF RsetOf
    <3>3. /\ e.out = o /\ e.rset = w /\ e.rec = << >> /\ e.err = No
          /\ e.eof = No /\ DOMAIN e = Parts
      BY <1>1, <3>1 DEF Parts
    <3> HIDE DEF w
    <3>4. q = Reading(o, w, << >>, No)
      BY <1>4, <3>3
    <3> QED BY <1>7, <2>1, <3>2, <3>4 DEF q, st, r, m
  <2>2. CASE ~(NumRecords(r) = 0 /\ d = None)
    <3> DEFINE p == Append(o, r)
               w == NewRset(i)
    <3>1. e = [st EXCEPT !.out = p, !.rset = w, !.rec = << >>]
      BY <1>0, <1>1, <1>7, <2>2 DEF EndRecord, e
    <3> HIDE DEF p, w
    <3>3. /\ e.out = p /\ e.rset = w /\ e.rec = << >> /\ e.err = No
          /\ e.eof = No /\ DOMAIN e = Parts
      BY <1>1, <3>1 DEF Parts
    <3>4. q = Reading(p, w, << >>, No)
      BY <1>4, <3>3
    <3> QED BY <1>7, <2>2, <3>4 DEF q, st, r, p, w
  <2> QED BY <2>1, <2>2
<1> QED BY <1>5, <1>6, <1>7

---------------------------------------------------------------------------
(* A comment and a record are read back *)

LEMMA TextStarts == \A s, x : AddText(s, No, x) = Append(s, Comment(<<x>>))
  BY DEF AddText, No

LEMMA TextContinues ==
  ASSUME NEW S, NEW s \in Seq(S), NEW t, NEW x,
         Comment(t) \in S, Comment(Append(t, x)) \in S
  PROVE  AddText(Append(s, Comment(t)), Yes, x) = Append(s, Comment(Append(t, x)))
<1> DEFINE c == Comment(t)
           e == Comment(Append(t, x))
           u == Append(s, c)
           N == Len(s)
           v == AddText(u, Yes, x)
<1>1. /\ u \in Seq(S) /\ Len(u) = N + 1 /\ N \in Nat
      /\ \A i \in 1..N : u[i] = s[i]
      /\ u[N + 1] = c
  BY AppendProperties
<1>2. [c EXCEPT !.texts = Append(c.texts, x)] = e
  BY SMTT(60) DEF Comment
<1> HIDE DEF c, e, u
<1>3. v = [u EXCEPT ![Len(u)].texts = Append(@, x)]
  BY DEF AddText, Yes
<1>4. v = [u EXCEPT ![N + 1] = [u[N + 1] EXCEPT !.texts = Append(u[N + 1].texts, x)]]
  BY <1>1, <1>3
<1>5. v = [u EXCEPT ![N + 1] = e]
  BY <1>1, <1>2, <1>4
<1> HIDE DEF v, N
<1>6. DOMAIN u = 1..(N + 1)
  BY <1>1
<1>7. v = [i \in 1..(N + 1) |-> v[i]] /\ v[N + 1] = e
      /\ \A i \in 1..N : v[i] = s[i]
  <2>1. v = [i \in 1..(N + 1) |-> v[i]]
    BY <1>5, <1>6
  <2>2. v[N + 1] = e
    BY <1>1, <1>5, <1>6
  <2>3. ASSUME NEW i \in 1..N PROVE v[i] = s[i]
    <3>1. i \in 1..(N + 1) /\ i # N + 1
      BY <1>1
    <3>2. v[i] = u[i]
      BY <1>5, <1>6, <3>1
    <3> QED BY <1>1, <3>2
  <2> QED BY <2>1, <2>2, <2>3
<1>8. IsAppend(v, s, e)
  BY <1>7 DEF IsAppend, N
<1>9. v = Append(s, e)
  BY <1>8, AppendIs DEF e
<1> QED BY <1>9 DEF v, u, c, e

LEMMA CommentLinesAre ==
  ASSUME NEW U, NEW t \in Seq(U)
  PROVE  /\ WriteItem(Comment(t)) \in Seq(LinesOver(U))
         /\ WriteItem(Comment(<< >>)) = << >>
         /\ \A x \in U : WriteItem(Comment(Append(t, x))) =
                           WriteItem(Comment(t)) \o <<CommentLine(x)>>
<1> DEFINE L == LinesOver(U)
           W(s) == [i \in DOMAIN s |-> CommentLine(s[i])]
<1>1. \A s : WriteItem(Comment(s)) = W(s)
  BY DEF WriteItem, Comment
<1>2. \A x \in U : CommentLine(x) \in L
  BY DEF CommentLine, LinesOver
<1> HIDE DEF L
<1>3. W(t) \in Seq(L) /\ Len(W(t)) = Len(t)
  BY <1>2
<1>4. W(<< >>) = << >>
  OBVIOUS
<1>5. ASSUME NEW x \in U
      PROVE  W(Append(t, x)) = W(t) \o <<CommentLine(x)>>
  <2> DEFINE u == Append(t, x)
             N == Len(t)
             a == W(t)
             b == W(u)
             c(y) == CommentLine(y)
  <2>1. /\ DOMAIN u = 1..(N + 1) /\ DOMAIN t = 1..N /\ N \in Nat
        /\ u[N + 1] = x /\ \A i \in 1..N : u[i] = t[i]
    BY AppendProperties
  <2>2. b = [i \in 1..(N + 1) |-> c(u[i])] /\ a = [i \in 1..N |-> c(t[i])]
    BY <2>1
  <2> HIDE DEF u, c, a, b, N
  <2>3. b = [i \in 1..(N + 1) |-> b[i]] /\ b[N + 1] = c(x)
        /\ \A i \in 1..N : b[i] = a[i]
    BY <2>1, <2>2
  <2>4. IsAppend(b, a, c(x))
    <3>1. Len(a) = N
      BY <1>3 DEF a, N
    <3> QED BY <2>3, <3>1 DEF IsAppend
  <2>5. b = a \o <<c(x)>>
    <3>1. c(x) \in L /\ a \in Seq(L)
      BY <1>2, <1>3 DEF c, a
    <3> QED BY <2>4, <3>1, AppendIs
  <2> QED BY <2>5 DEF b, a, u, c
<1> HIDE DEF W
<1> QED BY <1>1, <1>3, <1>4, <1>5 DEF L

LEMMA CommentMembers ==
  ASSUME NEW U, NEW t \in Seq(U)
  PROVE  Comment(t) \in ItemsOver(U) /\ Comment(t) \in ElemsOver(U)
  BY DEF Comment, ItemsOver, ElemsOver

LEMMA LineOver ==
  ASSUME NEW U, NEW x \in U
  PROVE  <<CommentLine(x)>> \in Seq(LinesOver(U))
<1>1. CommentLine(x) \in LinesOver(U)
  BY DEF CommentLine, LinesOver
<1> HIDE DEF LinesOver
<1> QED BY <1>1

\* A comment of any number of lines, in a record and in a record set.
LEMMA CommentRead ==
  ASSUME NEW U, NEW t \in Seq(U), t # << >>
  PROVE  /\ \A o, r : \A i \in Seq(ItemsOver(U)) : i # << >> =>
              ParseLines(Reading(o, r, i, No), WriteItem(Comment(t))) =
                Reading(o, r, Append(i, Comment(t)), Yes)
         /\ \A o, d, n : \A s \in Seq(ElemsOver(U)) :
              ParseLines(Reading(o, RsetOf(d, n, s), << >>, No),
                         WriteItem(Comment(t))) =
                Reading(o, RsetOf(d, n, Append(s, Comment(t))), << >>, Yes)
<1> DEFINE W(c) == WriteItem(Comment(c))
           A(c) == \A o, r : \A i \in Seq(ItemsOver(U)) : i # << >> =>
                     ParseLines(Reading(o, r, i, No), W(c)) =
                       Reading(o, r, Append(i, Comment(c)), Yes)
           B(c) == \A o, d, n : \A s \in Seq(ElemsOver(U)) :
                     ParseLines(Reading(o, RsetOf(d, n, s), << >>, No), W(c)) =
                       Reading(o, RsetOf(d, n, Append(s, Comment(c))), << >>, Yes)
           G == {c \in Seq(U) : c # << >> => A(c) /\ B(c)}
<1>1. << >> \in G
  BY EmptySeq
<1>2. ASSUME NEW f \in Seq(U), NEW x \in U, f \in G
      PROVE  Append(f, x) \in G
  <2> DEFINE c == Append(f, x)
             L == LinesOver(U)
             l == <<CommentLine(x)>>
             y == CommentLine(x)
  <2>1. /\ W(c) = W(f) \o l /\ W(f) \in Seq(L) /\ l \in Seq(L)
        /\ W(<< >>) = << >>
    BY CommentLinesAre, LineOver
  <2>2. \A st : ParseLines(st, W(c)) = ParseLine(ParseLines(st, W(f)), y)
    <3> TAKE st
    <3>1. ParseLines(st, W(f) \o l) = ParseLines(ParseLines(st, W(f)), l)
      <4> HIDE DEF W, L, l
      <4> QED BY <2>1, ParseLinesConcat
    <3> QED BY <2>1, <3>1, ParseLinesOne
  <2>3. c \in Seq(U) /\ (f = << >> => c = <<x>>)
    <3>1. Append(<< >>, x) = <<x>>
      OBVIOUS
    <3> QED BY <3>1, AppendProperties
  <2>4. A(c)
    <3> TAKE o, r
    <3> TAKE i \in Seq(ItemsOver(U))
    <3> SUFFICES ASSUME i # << >>
                 PROVE  ParseLines(Reading(o, r, i, No), W(c)) =
                          Reading(o, r, Append(i, Comment(c)), Yes)
      OBVIOUS
    <3> DEFINE st == Reading(o, r, i, No)
    <3>1. CASE f = << >>
      <4>1. ParseLines(st, W(c)) = ParseLine(st, y)
        BY <2>1, <2>2, <3>1, ParseLinesNone
      <4>2. ParseLine(st, y) = Reading(o, r, AddText(i, No, x), Yes)
        BY ReadCommentInRecord
      <4> QED BY <2>3, <3>1, <4>1, <4>2, TextStarts
    <3>2. CASE f # << >>
      <4> DEFINE k == Append(i, Comment(f))
      <4>1. ParseLines(st, W(f)) = Reading(o, r, k, Yes)
        BY <1>2, <3>2
      <4>2. ParseLines(st, W(c)) = ParseLine(Reading(o, r, k, Yes), y)
        BY <2>2, <4>1
      <4>3. k # << >>
        BY CommentMembers, AppendProperties
      <4>4. AddText(k, Yes, x) = Append(i, Comment(c))
        <5>1. Comment(f) \in ItemsOver(U) /\ Comment(c) \in ItemsOver(U)
          BY <2>3, CommentMembers
        <5> QED BY <5>1, TextContinues
      <4>5. ParseLine(Reading(o, r, k, Yes), y) = Reading(o, r, AddText(k, Yes, x), Yes)
        <5> HIDE DEF k
        <5> QED BY <4>3, ReadCommentInRecord
      <4> QED BY <4>2, <4>4, <4>5
    <3> QED BY <3>1, <3>2
  <2>5. B(c)
    <3> TAKE o, d, n
    <3> TAKE s \in Seq(ElemsOver(U))
    <3> DEFINE st == Reading(o, RsetOf(d, n, s), << >>, No)
    <3>1. CASE f = << >>
      <4>1. ParseLines(st, W(c)) = ParseLine(st, y)
        BY <2>1, <2>2, <3>1, ParseLinesNone
      <4>2. ParseLine(st, y) = Reading(o, RsetOf(d, n, AddText(s, No, x)), << >>, Yes)
        BY ReadComment
      <4> QED BY <2>3, <3>1, <4>1, <4>2, TextStarts
    <3>2. CASE f # << >>
      <4> DEFINE k == Append(s, Comment(f))
      <4>1. ParseLines(st, W(f)) = Reading(o, RsetOf(d, n, k), << >>, Yes)
        BY <1>2, <3>2
      <4>2. ParseLines(st, W(c)) =
              ParseLine(Reading(o, RsetOf(d, n, k), << >>, Yes), y)
        BY <2>2, <4>1
      <4>4. AddText(k, Yes, x) = Append(s, Comment(c))
        <5>1. Comment(f) \in ElemsOver(U) /\ Comment(c) \in ElemsOver(U)
          BY <2>3, CommentMembers
        <5> QED BY <5>1, TextContinues
      <4>5. ParseLine(Reading(o, RsetOf(d, n, k), << >>, Yes), y) =
              Reading(o, RsetOf(d, n, AddText(k, Yes, x)), << >>, Yes)
        <5> HIDE DEF k
        <5> QED BY ReadComment
      <4> QED BY <4>2, <4>4, <4>5
    <3> QED BY <3>1, <3>2
  <2> HIDE DEF A, B
  <2> QED BY <2>3, <2>4, <2>5
<1>3. Seq(U) \subseteq G
  <2> HIDE DEF G
  <2> QED BY <1>1, <1>2, SeqInduction
<1>4. A(t) /\ B(t)
  <2> HIDE DEF A, B
  <2> QED BY <1>3
<1> QED BY <1>4

\* A record as the parser makes them: it starts with a field, its comments
\* have lines, and none follows another, which it would be a part of.
Packed(items) ==
  /\ items # << >> /\ items[1].k = "field"
  /\ \A i \in DOMAIN items : items[i].k = "comment" =>
       /\ items[i].texts # << >>
       /\ i + 1 \in DOMAIN items => items[i + 1].k = "field"

LEMMA PackedAppend ==
  ASSUME NEW S, NEW f \in Seq(S), NEW e \in S
  PROVE  /\ f = << >> => (Packed(Append(f, e)) <=> e.k = "field")
         /\ f # << >> =>
              (Packed(Append(f, e)) <=>
                 /\ Packed(f)
                 /\ e.k = "comment" => e.texts # << >>
                 /\ f[Len(f)].k = "comment" => e.k = "field")
<1> DEFINE u == Append(f, e)
           N == Len(f)
<1>1. /\ u # << >> /\ DOMAIN u = 1..(N + 1) /\ DOMAIN f = 1..N /\ N \in Nat
      /\ u[N + 1] = e /\ \A i \in 1..N : u[i] = f[i]
  BY AppendProperties
<1>2. f = << >> <=> N = 0
  BY EmptySeq
<1> HIDE DEF u, N
<1>3. CASE f = << >>
  <2>1. N = 0 /\ u[1] = e /\ DOMAIN u = 1..1
    BY <1>1, <1>2, <1>3
  <2>2. Packed(u) <=> e.k = "field"
    BY <1>1, <2>1 DEF Packed
  <2> QED BY <1>3, <2>2 DEF u
<1>4. CASE f # << >>
  <2>1. 1 \in 1..N /\ N \in 1..N /\ u[1] = f[1] /\ u[N] = f[N]
    BY <1>1, <1>2, <1>4
  <2>2. ASSUME Packed(u)
        PROVE  Packed(f) /\ (e.k = "comment" => e.texts # << >>)
               /\ (f[N].k = "comment" => e.k = "field")
    <3>1. ASSUME NEW i \in 1..N, f[i].k = "comment"
          PROVE  f[i].texts # << >> /\ (i + 1 \in 1..N => f[i + 1].k = "field")
      <4>1. i \in 1..(N + 1) /\ (i + 1 \in 1..N => i + 1 \in 1..(N + 1))
        BY <1>1
      <4> QED BY <1>1, <2>2, <3>1, <4>1 DEF Packed
    <3>2. Packed(f)
      BY <1>1, <1>4, <2>1, <2>2, <3>1 DEF Packed
    <3>3. N + 1 \in DOMAIN u /\ N \in DOMAIN u
      BY <1>1, <2>1
    <3> QED BY <1>1, <2>1, <2>2, <3>2, <3>3 DEF Packed
  <2>3. ASSUME Packed(f), e.k = "comment" => e.texts # << >>,
               f[N].k = "comment" => e.k = "field"
        PROVE  Packed(u)
    <3>1. ASSUME NEW i \in 1..(N + 1), u[i].k = "comment"
          PROVE  u[i].texts # << >>
                 /\ (i + 1 \in 1..(N + 1) => u[i + 1].k = "field")
      <4>1. CASE i = N + 1
        BY <1>1, <2>3, <3>1, <4>1
      <4>2. CASE i = N
        BY <1>1, <2>1, <2>3, <3>1, <4>2 DEF Packed
      <4>3. CASE i < N
        <5>1. i \in 1..N /\ i + 1 \in 1..N
          BY <1>1, <4>3
        <5> QED BY <1>1, <2>3, <3>1, <5>1 DEF Packed
      <4> QED BY <1>1, <4>1, <4>2, <4>3
    <3> QED BY <1>1, <2>1, <2>3, <3>1 DEF Packed
  <2> QED BY <1>4, <2>2, <2>3 DEF u, N
<1> QED BY <1>3, <1>4

ItemText(U) == [x \in ItemsOver(U) |-> WriteItem(x)]

LEMMA ItemOver ==
  ASSUME NEW U, NEW x \in ItemsOver(U)
  PROVE  /\ WriteItem(x) \in Seq(LinesOver(U))
         /\ x.k \in {"field", "comment"}
         /\ x.k = "field" => x = Field(x.n, x.v)
                             /\ WriteItem(x) = <<FieldLine(x.n, x.v)>>
         /\ x.k = "comment" => x = Comment(x.texts) /\ x.texts \in Seq(U)
<1>1. CASE x \in [k : {"field"}, n : U, v : U]
  <2>1. x = Field(x.n, x.v) /\ x.k = "field" /\ x.n \in U /\ x.v \in U
    BY <1>1 DEF Field
  <2>2. FieldLine(x.n, x.v) \in LinesOver(U)
    BY <2>1 DEF FieldLine, LinesOver
  <2>3. WriteItem(x) = <<FieldLine(x.n, x.v)>>
    BY <2>1 DEF WriteItem
  <2>4. WriteItem(x) \in Seq(LinesOver(U))
    <3> DEFINE y == FieldLine(x.n, x.v)
               L == LinesOver(U)
    <3>1. y \in L /\ WriteItem(x) = <<y>>
      BY <2>2, <2>3
    <3> HIDE DEF y, L
    <3>2. WriteItem(x) \in Seq(L)
      BY <3>1
    <3> QED BY <3>2 DEF L
  <2> QED BY <2>1, <2>3, <2>4
<1>2. CASE x \in [k : {"comment"}, texts : Seq(U)]
  <2>1. x = Comment(x.texts) /\ x.k = "comment" /\ x.texts \in Seq(U)
    BY <1>2 DEF Comment
  <2>2. WriteItem(Comment(x.texts)) \in Seq(LinesOver(U))
    BY <2>1, CommentLinesAre
  <2> QED BY <2>1, <2>2, Zenon
<1> QED BY <1>1, <1>2 DEF ItemsOver

LEMMA BlankOver ==
  ASSUME NEW U
  PROVE  Blank \in LinesOver(U) /\ <<Blank>> \in Seq(LinesOver(U))
<1>1. Blank \in LinesOver(U)
  BY DEF LinesOver
<1> HIDE DEF LinesOver, Blank
<1> QED BY <1>1

LEMMA RecordText ==
  ASSUME NEW U, NEW items \in Seq(ItemsOver(U))
  PROVE  /\ WriteRecord(items) \in Seq(LinesOver(U))
         /\ \A e \in ItemsOver(U) :
              WriteRecord(Append(items, e)) =
                (IF items = << >> THEN << >> ELSE WriteRecord(items))
                \o WriteItem(e)
<1> DEFINE I == ItemsOver(U)
           L == LinesOver(U)
           T == ItemText(U)
<1>1. T \in [I -> Seq(L)] /\ \A x \in I : T[x] = WriteItem(x)
  BY ItemOver DEF ItemText
<1>2. \A s \in Seq(I) : s # << >> => WriteRecord(s) = Spread(T, s)
  <2> TAKE s \in Seq(I)
  <2>1. \A i \in DOMAIN s : T[s[i]] = WriteItem(s[i])
    <3>1. \A i \in DOMAIN s : s[i] \in I
      <4> HIDE DEF I
      <4> QED OBVIOUS
    <3> QED BY <1>1, <3>1
  <2> DEFINE a(i) == T[s[i]]
             b(i) == WriteItem(s[i])
  <2>2. [i \in DOMAIN s |-> a(i)] = [i \in DOMAIN s |-> b(i)]
    <3>1. \A i \in DOMAIN s : a(i) = b(i)
      BY <2>1
    <3> HIDE DEF a, b
    <3> QED BY <3>1
  <2> QED BY <2>2 DEF Spread, WriteRecord
<1> HIDE DEF I, L, T
<1>3. items \in Seq(I)
  BY DEF I
<1>4. /\ Spread(T, items) \in Seq(L) /\ Spread(T, << >>) = << >>
      /\ \A e \in I : Spread(T, Append(items, e)) = Spread(T, items) \o T[e]
  BY <1>1, <1>3, SpreadIs, SpreadAppend
<1>5. WriteRecord(items) \in Seq(L)
  <2>1. CASE items = << >>
    BY <2>1, BlankOver DEF WriteRecord, L
  <2>2. CASE items # << >>
    BY <1>2, <1>3, <1>4, <2>2
  <2> QED BY <2>1, <2>2
<1>6. ASSUME NEW e \in I
      PROVE  WriteRecord(Append(items, e)) =
               (IF items = << >> THEN << >> ELSE WriteRecord(items)) \o WriteItem(e)
  <2>1. Append(items, e) \in Seq(I) /\ Append(items, e) # << >>
    BY <1>3, AppendProperties
  <2>2. WriteRecord(Append(items, e)) = Spread(T, items) \o WriteItem(e)
    BY <1>1, <1>2, <1>4, <2>1
  <2>3. Spread(T, items) = IF items = << >> THEN << >> ELSE WriteRecord(items)
    BY <1>2, <1>3, <1>4
  <2> QED BY <2>2, <2>3
<1> QED BY <1>5, <1>6 DEF I, L

\* Whether the next line continues the last item of a record.
Ends(items) == IF items[Len(items)].k = "comment" THEN Yes ELSE No

LEMMA RecordRead ==
  ASSUME NEW U, NEW items \in Seq(ItemsOver(U)), Packed(items)
  PROVE  \A o, r : ParseLines(Reading(o, r, << >>, No), WriteRecord(items)) =
                     Reading(o, r, items, Ends(items))
<1> DEFINE I == ItemsOver(U)
           L == LinesOver(U)
           P(s) == \A o, r :
                     ParseLines(Reading(o, r, << >>, No), WriteRecord(s)) =
                       Reading(o, r, s, Ends(s))
           G == {s \in Seq(I) : Packed(s) => P(s)}
<1>1. << >> \in G
  BY EmptySeq DEF Packed
<1>2. ASSUME NEW f \in Seq(I), NEW e \in I, f \in G
      PROVE  Append(f, e) \in G
  <2> DEFINE u == Append(f, e)
             w == IF f = << >> THEN << >> ELSE WriteRecord(f)
  <2>1. /\ u \in Seq(I) /\ u # << >> /\ u[Len(u)] = e
    <3> HIDE DEF I
    <3> QED BY AppendProperties
  <2>2. /\ WriteRecord(u) = w \o WriteItem(e) /\ WriteItem(e) \in Seq(L)
        /\ w \in Seq(L)
    BY RecordText, ItemOver, EmptySeq
  <2>3. \A st : ParseLines(st, WriteRecord(u)) =
                  ParseLines(ParseLines(st, w), WriteItem(e))
    <3> HIDE DEF L, w, u
    <3> QED BY <2>2, ParseLinesConcat
  <2>4. ASSUME Packed(u) PROVE P(u)
    <3> TAKE o, r
    <3> DEFINE st == Reading(o, r, << >>, No)
    <3>1. f = << >> => e.k = "field"
      BY <2>4, PackedAppend
    <3>2. f # << >> => /\ Packed(f) /\ (e.k = "comment" => e.texts # << >>)
                       /\ (f[Len(f)].k = "comment" => e.k = "field")
      BY <2>4, PackedAppend
    <3>3. PICK b : ParseLines(st, w) = Reading(o, r, f, b)
                   /\ (e.k = "comment" => b = No /\ f # << >>)
      <4>1. CASE f = << >>
        BY <3>1, <4>1, ParseLinesNone
      <4>2. CASE f # << >>
        <5>1. ParseLines(st, w) = Reading(o, r, f, Ends(f))
          BY <1>2, <3>2, <4>2
        <5>2. e.k = "comment" => Ends(f) = No
          BY <3>2, <4>2 DEF Ends
        <5> QED BY <4>2, <5>1, <5>2
      <4> QED BY <4>1, <4>2
    <3> HIDE DEF st, w
    <3>4. CASE e.k = "field"
      <4>1. e = Field(e.n, e.v) /\ WriteItem(e) = <<FieldLine(e.n, e.v)>>
        BY <3>4, ItemOver
      <4>2. ParseLines(st, WriteRecord(u)) =
              ParseLine(Reading(o, r, f, b), FieldLine(e.n, e.v))
        BY <2>3, <3>3, <4>1, ParseLinesOne
      <4>3. ParseLines(st, WriteRecord(u)) =
              Reading(o, r, Append(f, Field(e.n, e.v)), No)
        BY <4>2, ReadField
      <4>4. Ends(u) = No
        BY <2>1, <3>4 DEF Ends
      <4>5. Append(f, Field(e.n, e.v)) = u
        BY <4>1, Zenon
      <4> QED BY <4>3, <4>4, <4>5, Zenon DEF st
    <3>5. CASE e.k = "comment"
      <4>1. e = Comment(e.texts) /\ e.texts \in Seq(U)
        BY <3>5, ItemOver
      <4>2. ParseLines(st, WriteRecord(u)) =
              ParseLines(Reading(o, r, f, No), WriteItem(e)) /\ f # << >>
        BY <2>3, <3>3, <3>5
      <4>3. ParseLines(Reading(o, r, f, No), WriteItem(Comment(e.texts))) =
              Reading(o, r, Append(f, Comment(e.texts)), Yes)
        <5>1. e.texts # << >>
          BY <3>2, <3>5, <4>2
        <5> QED BY <4>1, <4>2, <5>1, CommentRead
      <4>4. ParseLines(Reading(o, r, f, No), WriteItem(e)) = Reading(o, r, u, Yes)
        BY <4>1, <4>3, Zenon
      <4>5. Ends(u) = Yes
        BY <2>1, <3>5 DEF Ends
      <4> QED BY <4>2, <4>4, <4>5, Zenon DEF st
    <3> QED BY <3>4, <3>5, ItemOver
  <2> HIDE DEF P, u
  <2>5. Packed(u) => P(u)
    BY <2>4
  <2>6. u \in G
    BY <2>1, <2>5
  <2> QED BY <2>6 DEF u
<1>3. Seq(I) \subseteq G
  <2> HIDE DEF G
  <2> QED BY <1>1, <1>2, SeqInduction
<1>4. P(items)
  <2> HIDE DEF P
  <2> QED BY <1>3
<1> QED BY <1>4

\* An element of a record set as the parser makes them.
Whole(e) ==
  IF e.k = "record" THEN Packed(e.items) /\ ~HasField(e.items, REC)
  ELSE e.texts # << >>

LEMMA ElemOver ==
  ASSUME NEW U, NEW x \in ElemsOver(U)
  PROVE  /\ WriteElem(x) \in Seq(LinesOver(U))
         /\ x.k \in {"record", "comment"}
         /\ x.k = "record" => /\ x = Record(x.items)
                              /\ x.items \in Seq(ItemsOver(U))
                              /\ WriteElem(x) = WriteRecord(x.items)
         /\ x.k = "comment" => /\ x = Comment(x.texts) /\ x.texts \in Seq(U)
                               /\ WriteElem(x) = WriteItem(Comment(x.texts))
<1> DEFINE I == ItemsOver(U)
           L == LinesOver(U)
<1>1. CASE x \in [k : {"record"}, items : Seq(I)]
  <2>1. x = Record(x.items) /\ x.k = "record" /\ x.items \in Seq(I)
    <3> HIDE DEF I
    <3> QED BY <1>1 DEF Record
  <2>2. WriteElem(x) = WriteRecord(x.items)
    BY <2>1 DEF WriteElem
  <2>3. WriteRecord(x.items) \in Seq(L)
    BY <2>1, RecordText
  <2> HIDE DEF I, L
  <2>4. WriteElem(x) \in Seq(L)
    BY <2>2, <2>3
  <2> QED BY <2>1, <2>2, <2>4 DEF I, L
<1>2. CASE x \in [k : {"comment"}, texts : Seq(U)]
  <2>1. x = Comment(x.texts) /\ x.k = "comment" /\ x.texts \in Seq(U)
    BY <1>2 DEF Comment
  <2>2. WriteElem(x) = WriteItem(x)
    BY <2>1 DEF WriteElem
  <2>3. WriteItem(Comment(x.texts)) \in Seq(L)
    BY <2>1, CommentLinesAre
  <2> HIDE DEF L
  <2>4. WriteElem(x) = WriteItem(Comment(x.texts)) /\ WriteElem(x) \in Seq(L)
    BY <2>1, <2>2, <2>3, Zenon
  <2> QED BY <2>1, <2>4 DEF L
<1> QED BY <1>1, <1>2 DEF ElemsOver

\* An element and the empty line behind it.
LEMMA ElemRead ==
  ASSUME NEW U, NEW e \in ElemsOver(U), Whole(e)
  PROVE  \A o, d, n : \A s \in Seq(ElemsOver(U)) :
           ParseLines(Reading(o, RsetOf(d, n, s), << >>, No),
                      WriteElem(e) \o <<Blank>>) =
             Reading(o, RsetOf(d, n, Append(s, e)), << >>, No)
<1> TAKE o, d, n
<1> TAKE s \in Seq(ElemsOver(U))
<1> DEFINE st == Reading(o, RsetOf(d, n, s), << >>, No)
           L == LinesOver(U)
           w == WriteElem(e)
           b == <<Blank>>
           q == Reading(o, RsetOf(d, n, Append(s, e)), << >>, No)
<1>1. w \in Seq(L) /\ b \in Seq(L)
  BY ElemOver, BlankOver
<1>2. ParseLines(st, w \o b) = ParseLine(ParseLines(st, w), Blank)
  <2>1. ParseLines(st, w \o b) = ParseLines(ParseLines(st, w), b)
    <3> HIDE DEF L, w, b
    <3> QED BY <1>1, ParseLinesConcat
  <2> QED BY <2>1, ParseLinesOne
<1>3. CASE e.k = "record"
  <2>1. e = Record(e.items) /\ e.items \in Seq(ItemsOver(U))
        /\ w = WriteRecord(e.items)
    BY <1>3, ElemOver
  <2>2. Packed(e.items) /\ ~HasField(e.items, REC) /\ e.items # << >>
    BY <1>3 DEF Whole, Packed
  <2>3. ParseLines(st, w) = Reading(o, RsetOf(d, n, s), e.items, Ends(e.items))
    BY <2>1, <2>2, RecordRead
  <2>4. ParseLine(Reading(o, RsetOf(d, n, s), e.items, Ends(e.items)), Blank) =
          Reading(o, RsetOf(d, n, Append(s, Record(e.items))), << >>, No)
    BY <2>2, BlankReads
  <2> QED BY <1>2, <2>1, <2>3, <2>4, Zenon
<1>4. CASE e.k = "comment"
  <2>1. e = Comment(e.texts) /\ e.texts \in Seq(U)
        /\ w = WriteItem(Comment(e.texts))
    BY <1>4, ElemOver
  <2>2. e.texts # << >>
    BY <1>4 DEF Whole
  <2>3. ParseLines(st, w) =
          Reading(o, RsetOf(d, n, Append(s, Comment(e.texts))), << >>, Yes)
    BY <2>1, <2>2, CommentRead
  <2>4. ParseLine(Reading(o, RsetOf(d, n, Append(s, Comment(e.texts))), << >>, Yes),
                  Blank) =
          Reading(o, RsetOf(d, n, Append(s, Comment(e.texts))), << >>, No)
    BY BlankReads
  <2> QED BY <1>2, <2>1, <2>3, <2>4, Zenon
<1> QED BY <1>3, <1>4, ElemOver

\* A descriptor and the empty line behind it.
LEMMA DescRead ==
  ASSUME NEW U, NEW c \in Seq(ItemsOver(U)), Packed(c), HasField(c, REC)
  PROVE  \A o, d, n, s :
           ParseLines(Reading(o, RsetOf(d, n, s), << >>, No),
                      WriteRecord(c) \o <<Blank>>) =
             IF NumRecords(RsetOf(d, n, s)) = 0 /\ d = None
             THEN Reading(o, RsetOf(c, Len(s), s), << >>, No)
             ELSE Reading(Append(o, RsetOf(d, n, s)), NewRset(c), << >>, No)
<1> TAKE o, d, n, s
<1> DEFINE r == RsetOf(d, n, s)
           st == Reading(o, r, << >>, No)
           L == LinesOver(U)
           w == WriteRecord(c)
           b == <<Blank>>
<1>1. w \in Seq(L) /\ b \in Seq(L)
  BY RecordText, BlankOver
<1>2. ParseLines(st, w \o b) = ParseLine(ParseLines(st, w), Blank)
  <2>1. ParseLines(st, w \o b) = ParseLines(ParseLines(st, w), b)
    <3> HIDE DEF L, w, b
    <3> QED BY <1>1, ParseLinesConcat
  <2> QED BY <2>1, ParseLinesOne
<1>3. ParseLines(st, w) = Reading(o, r, c, Ends(c))
  BY RecordRead
<1>4. c # << >>
  BY DEF Packed
<1> QED BY <1>2, <1>3, <1>4, BlankReads

---------------------------------------------------------------------------
(* What rec_write_rset writes, one element after another *)

\* Element i: an empty line, the descriptor if its place is here, the
\* element.
Gap(i) == IF i # 1 THEN <<Blank>> ELSE << >>
DescAt(r, i) ==
  IF i - 1 = r.dpos /\ r.desc # None THEN WriteRecord(r.desc) \o <<Blank>>
  ELSE << >>
Here(r, i) == Gap(i) \o DescAt(r, i) \o WriteElem(r.elems[i])
RsetMap(r) == [i \in DOMAIN r.elems |-> Here(r, i)]

LEMMA WriteRsetIs ==
  ASSUME NEW r
  PROVE  WriteRset(r) =
           IF Len(r.elems) = 0 /\ r.desc # None THEN WriteRecord(r.desc)
           ELSE IF r.desc # None /\ r.dpos >= Len(r.elems)
           THEN FlattenSeq(RsetMap(r)) \o <<Blank>> \o WriteRecord(r.desc)
           ELSE FlattenSeq(RsetMap(r))
  BY DEF WriteRset, WriteRsetCounting, RsetMap, Here, Gap, DescAt

DescOver(U, d) == d # None => d \in Seq(ItemsOver(U))

LEMMA PiecesOver ==
  ASSUME NEW U, NEW d, DescOver(U, d), NEW n,
         NEW e \in ElemsOver(U), NEW i, NEW r, r.desc = d, r.dpos = n
  PROVE  /\ Gap(i) \in Seq(LinesOver(U))
         /\ DescAt(r, i) \in Seq(LinesOver(U))
         /\ WriteElem(e) \in Seq(LinesOver(U))
         /\ Gap(i) \o DescAt(r, i) \o WriteElem(e) \in Seq(LinesOver(U))
<1> DEFINE L == LinesOver(U)
           g == Gap(i)
           a == DescAt(r, i)
           w == WriteElem(e)
<1>1. g \in Seq(L)
  BY BlankOver, EmptySeq DEF Gap
<1>2. a \in Seq(L)
  <2>1. CASE d = None
    BY <2>1, EmptySeq DEF DescAt
  <2>2. CASE d # None
    <3> DEFINE c == WriteRecord(d)
               b == <<Blank>>
    <3>1. c \in Seq(L) /\ b \in Seq(L)
      BY <2>2, RecordText, BlankOver DEF DescOver
    <3>2. a = c \o b \/ a = << >>
      BY DEF DescAt
    <3> HIDE DEF L, a, b, c
    <3>3. c \o b \in Seq(L)
      BY <3>1, ConcatProperties
    <3> QED BY <3>2, <3>3, EmptySeq
  <2> QED BY <2>1, <2>2
<1>3. w \in Seq(L)
  BY ElemOver
<1> HIDE DEF L, g, a, w
<1>4. (g \o a) \o w \in Seq(L)
  BY <1>1, <1>2, <1>3, ConcatProperties
<1> QED BY <1>1, <1>2, <1>3, <1>4 DEF L, g, a, w

LEMMA RsetMapOver ==
  ASSUME NEW U, NEW d, DescOver(U, d), NEW n,
         NEW s \in Seq(ElemsOver(U))
  PROVE  /\ SeqsOver(RsetMap(RsetOf(d, n, s)), LinesOver(U))
         /\ Len(RsetMap(RsetOf(d, n, s))) = Len(s)
         /\ FlattenSeq(RsetMap(RsetOf(d, n, s))) \in Seq(LinesOver(U))
         /\ s = << >> => FlattenSeq(RsetMap(RsetOf(d, n, s))) = << >>
<1> DEFINE L == LinesOver(U)
           r == RsetOf(d, n, s)
           m == RsetMap(r)
           N == Len(s)
           Q == Seq(L)
           h(i) == Here(r, i)
<1>1. DOMAIN s = 1..N /\ N \in Nat /\ \A i \in 1..N : s[i] \in ElemsOver(U)
  <2> DEFINE E == ElemsOver(U)
  <2>1. s \in Seq(E)
    OBVIOUS
  <2> HIDE DEF E
  <2>2. DOMAIN s = 1..N /\ N \in Nat /\ \A i \in 1..N : s[i] \in E
    BY <2>1
  <2> QED BY <2>2 DEF E
<1>2. r.desc = d /\ r.dpos = n /\ r.elems = s
  BY RsetOfIs
<1> HIDE DEF r
<1>3. \A i \in 1..N : h(i) \in Q
  BY <1>1, <1>2, PiecesOver DEF Here
<1>4. m = [i \in 1..N |-> h(i)]
  BY <1>1, <1>2 DEF RsetMap
<1> HIDE DEF h, m, Q
<1>5. m \in Seq(Q) /\ Len(m) = N
  <2> HIDE DEF N
  <2> QED BY <1>1, <1>3, <1>4
<1>6. SeqsOver(m, L)
  BY <1>5 DEF SeqsOver, Q
<1>7. FlattenSeq(m) \in Seq(L)
  <2>1. PICK G \in [0..Len(m) -> Seq(L)] : JoinOf(G, m) /\ FlattenSeq(m) = G[Len(m)]
    BY <1>6, FlattenIs
  <2>2. Len(m) \in Nat
    BY <1>6, SeqsAre
  <2> QED BY <2>1, <2>2
<1>8. s = << >> => FlattenSeq(m) = << >>
  <2>1. s = << >> => m = << >>
    BY <1>5, EmptySeq
  <2> QED BY <2>1, FlattenNone
<1> QED BY <1>5, <1>6, <1>7, <1>8 DEF m, r

LEMMA RsetMapAppend ==
  ASSUME NEW U, NEW d, DescOver(U, d), NEW n,
         NEW s \in Seq(ElemsOver(U)), NEW e \in ElemsOver(U)
  PROVE  FlattenSeq(RsetMap(RsetOf(d, n, Append(s, e)))) =
           FlattenSeq(RsetMap(RsetOf(d, n, s)))
           \o (Gap(Len(s) + 1) \o DescAt(RsetOf(d, n, s), Len(s) + 1)
               \o WriteElem(e))
<1> DEFINE u == Append(s, e)
           N == Len(s)
           r == RsetOf(d, n, s)
           q == RsetOf(d, n, u)
           a == RsetMap(r)
           b == RsetMap(q)
           h(i, x) == Gap(i) \o DescAt(r, i) \o WriteElem(x)
<1>1. /\ DOMAIN u = 1..(N + 1) /\ DOMAIN s = 1..N /\ N \in Nat
      /\ u[N + 1] = e /\ \A i \in 1..N : u[i] = s[i]
  BY AppendProperties
<1> HIDE DEF u
<1>2. /\ r.desc = d /\ r.dpos = n /\ r.elems = s
      /\ q.desc = d /\ q.dpos = n /\ q.elems = u
  BY RsetOfIs
<1>3. SeqsOver(a, LinesOver(U)) /\ Len(a) = N
  BY RsetMapOver
<1> HIDE DEF r, q
<1>4. \A i : DescAt(q, i) = DescAt(r, i)
  BY <1>2 DEF DescAt
<1>5. \A i, x : h(i, x) = Gap(i) \o DescAt(q, i) \o WriteElem(x)
  BY <1>4
<1>6. a = [i \in 1..N |-> h(i, s[i])]
  BY <1>1, <1>2 DEF RsetMap, Here
<1>7. b = [i \in 1..(N + 1) |-> h(i, u[i])]
  <2>1. b = [i \in 1..(N + 1) |-> Gap(i) \o DescAt(q, i) \o WriteElem(u[i])]
    BY <1>1, <1>2 DEF RsetMap, Here
  <2> HIDE DEF h, b
  <2> QED BY <1>5, <2>1
<1>8. h(N + 1, e) \in Seq(LinesOver(U))
  BY <1>2, PiecesOver
<1> HIDE DEF h, a, b, N, u
<1>9. b = [i \in 1..(N + 1) |-> b[i]] /\ b[N + 1] = h(N + 1, e)
      /\ \A i \in 1..N : b[i] = a[i]
  BY <1>1, <1>6, <1>7
<1>10. b = Append(a, h(N + 1, e))
  <2>1. IsAppend(b, a, h(N + 1, e))
    BY <1>3, <1>9 DEF IsAppend
  <2> QED BY <1>3, <1>8, <2>1, SeqsAppendIs
<1>11. FlattenSeq(b) = FlattenSeq(a) \o h(N + 1, e)
  BY <1>3, <1>8, <1>10, FlattenAppend
<1> QED BY <1>11 DEF a, b, q, r, h, N, u

\* A record set as it is written, with an empty line behind it.
RsetText(r) ==
  IF r.desc = None /\ r.elems = << >> THEN << >> ELSE WriteRset(r) \o <<Blank>>

LEMMA TextAppend ==
  ASSUME NEW U, NEW d, DescOver(U, d),
         NEW s \in Seq(ElemsOver(U)), NEW n \in 0..Len(s), NEW e \in ElemsOver(U)
  PROVE  RsetText(RsetOf(d, n, Append(s, e))) =
           RsetText(RsetOf(d, n, s)) \o (WriteElem(e) \o <<Blank>>)
<1> DEFINE u == Append(s, e)
           N == Len(s)
           r == RsetOf(d, n, s)
           q == RsetOf(d, n, u)
           A == FlattenSeq(RsetMap(r))
           G == Gap(N + 1)
           D == DescAt(r, N + 1)
           W == WriteElem(e)
           B == <<Blank>>
           L == LinesOver(U)
<1>1. u # << >> /\ Len(u) = N + 1 /\ N \in Nat /\ n <= N
      /\ (N = 0 <=> s = << >>)
  BY AppendProperties, EmptySeq
<1> HIDE DEF u
<1>2. /\ r.desc = d /\ r.dpos = n /\ r.elems = s
      /\ q.desc = d /\ q.dpos = n /\ q.elems = u
  BY RsetOfIs
<1>A. A \in Seq(L)
  BY RsetMapOver
<1>3. /\ s = << >> => A = << >>
      /\ FlattenSeq(RsetMap(q)) = A \o ((G \o D) \o W)
  BY RsetMapOver, RsetMapAppend, SMTT(30) DEF u
<1>4. G \in Seq(L) /\ D \in Seq(L) /\ W \in Seq(L) /\ B \in Seq(L)
  BY <1>2, PiecesOver, BlankOver
<1>5. WriteRset(q) = A \o ((G \o D) \o W)
  <2> HIDE DEF u, q, A, G, D, W
  <2> QED BY <1>1, <1>2, <1>3, WriteRsetIs, SMTT(60)
<1>6. RsetText(q) = (A \o ((G \o D) \o W)) \o B
  <2> HIDE DEF u, q, A, G, D, W
  <2> QED BY <1>1, <1>2, <1>5 DEF RsetText
<1> DEFINE C == WriteRecord(d)
<1>7. G = IF s = << >> THEN << >> ELSE B
  BY <1>1 DEF Gap
<1>8. D = IF n = N /\ d # None THEN C \o B ELSE << >>
  <2> HIDE DEF r
  <2> QED BY <1>1, <1>2 DEF DescAt
<1>9. d # None => C \in Seq(L)
  BY RecordText DEF DescOver
<1> DEFINE T == RsetText(r)
<1>10. T = IF s = << >> /\ d = None THEN << >>
           ELSE (IF s = << >> THEN C
                 ELSE IF d # None /\ n = N THEN (A \o B) \o C ELSE A) \o B
  <2> HIDE DEF r, A
  <2>1. WriteRset(r) = IF N = 0 /\ d # None THEN C
                       ELSE IF d # None /\ n >= N THEN A \o B \o C ELSE A
    BY <1>2, WriteRsetIs DEF A
  <2> QED BY <1>1, <1>2, <2>1 DEF RsetText
<1> HIDE DEF A, G, D, W, B, L, C, T
<1>11. (A \o ((G \o D) \o W)) \o B = ((A \o G) \o D) \o (W \o B)
  <2> DEFINE p == A \o G
             m1 == D \o W
             r1 == p \o D
             Q == Seq(L)
  <2>1. \A x, y, z \in Q : (x \o y) \o z = x \o (y \o z)
    BY ConcatAssociative, SMTT(60)
  <2>2. \A x, y \in Q : x \o y \in Q
    <3> SUFFICES ASSUME NEW x \in Q, NEW y \in Q PROVE x \o y \in Q
      OBVIOUS
    <3> QED BY ConcatProperties
  <2>3. A \in Q /\ G \in Q /\ D \in Q /\ W \in Q /\ B \in Q
    BY <1>4, <1>A
  <2> HIDE DEF Q
  <2>4. p \in Q
    BY ONLY <2>2, <2>3, Zenon
  <2>5. m1 \in Q
    BY ONLY <2>2, <2>3, Zenon
  <2>6. r1 \in Q
    <3> HIDE DEF p
    <3> QED BY ONLY <2>2, <2>3, <2>4, Zenon
  <2>7. (G \o D) \o W = G \o m1
    BY ONLY <2>1, <2>3, ZenonT(60)
  <2> HIDE DEF p, m1
  <2>8. p \o m1 = A \o (G \o m1)
    <3>1. (A \o G) \o m1 = A \o (G \o m1)
      BY ONLY <2>1, <2>3, <2>5, ZenonT(60)
    <3> QED BY ONLY <3>1, Zenon DEF p
  <2>9. r1 \o W = p \o m1
    <3>1. (p \o D) \o W = p \o (D \o W)
      BY ONLY <2>1, <2>3, <2>4, Zenon
    <3> QED BY ONLY <3>1, Zenon DEF m1
  <2> HIDE DEF r1
  <2>10. (r1 \o W) \o B = r1 \o (W \o B)
    BY ONLY <2>1, <2>3, <2>6, Zenon
  <2> QED BY ONLY <2>7, <2>8, <2>9, <2>10, Zenon DEF r1, p
<1>12. T = (A \o G) \o D
  <2>1. CASE s = << >> /\ d = None
    <3>1. (A \o G) \o D = (<< >> \o << >>) \o << >>
      BY <1>3, <1>7, <1>8, <2>1
    <3>2. (<< >> \o << >>) \o << >> = << >>
      OBVIOUS
    <3> QED BY <1>10, <2>1, <3>1, <3>2
  <2>2. CASE s = << >> /\ d # None
    <3>1. n = N
      BY <1>1, <2>2
    <3>2. (A \o G) \o D = (<< >> \o << >>) \o (C \o B)
      BY <1>3, <1>7, <1>8, <2>2, <3>1
    <3>3. C \o B \in Seq(L)
      BY ONLY <1>4, <1>9, <2>2, ConcatProperties
    <3>4. << >> \o << >> = << >>
      OBVIOUS
    <3>5. << >> \o (C \o B) = C \o B
      BY ONLY <3>3, ConcatEmptySeq
    <3> QED BY <1>10, <2>2, <3>2, <3>4, <3>5
  <2>3. CASE s # << >> /\ d # None /\ n = N
    <3>1. (A \o G) \o D = (A \o B) \o (C \o B)
      BY <1>7, <1>8, <2>3
    <3>2. A \o B \in Seq(L)
      BY ONLY <1>A, <1>4, ConcatProperties
    <3>3. C \in Seq(L) /\ B \in Seq(L)
      BY <1>4, <1>9, <2>3
    <3>4. ((A \o B) \o C) \o B = (A \o B) \o (C \o B)
      BY ONLY <3>2, <3>3, ConcatAssociative, SMTT(60)
    <3> QED BY <1>10, <2>3, <3>1, <3>4
  <2>4. CASE s # << >> /\ (d = None \/ n # N)
    <3>1. (A \o G) \o D = (A \o B) \o << >>
      BY <1>7, <1>8, <2>4
    <3>2. A \o B \in Seq(L)
      BY ONLY <1>A, <1>4, ConcatProperties
    <3>3. (A \o B) \o << >> = A \o B
      BY ONLY <3>2, ConcatEmptySeq
    <3> QED BY <1>10, <2>4, <3>1, <3>3
  <2> QED BY <2>1, <2>2, <2>3, <2>4
<1>13. RsetText(q) = T \o (W \o B)
  BY <1>6, <1>11, <1>12
<1> QED BY <1>13 DEF T, W, B, u

LEMMA TextDescribed ==
  ASSUME NEW U, NEW d \in Seq(ItemsOver(U)), d # None,
         NEW s \in Seq(ElemsOver(U))
  PROVE  RsetText(RsetOf(d, Len(s), s)) =
           RsetText(RsetOf(None, 0, s)) \o (WriteRecord(d) \o <<Blank>>)
<1> DEFINE N == Len(s)
           r == RsetOf(None, 0, s)
           q == RsetOf(d, N, s)
           A == FlattenSeq(RsetMap(r))
           C == WriteRecord(d)
           B == <<Blank>>
           L == LinesOver(U)
<1>1. N \in Nat /\ (N = 0 <=> s = << >>) /\ DOMAIN s = 1..N
  BY EmptySeq
<1>2. /\ r.desc = None /\ r.dpos = 0 /\ r.elems = s
      /\ q.desc = d /\ q.dpos = N /\ q.elems = s
  BY RsetOfIs
<1>3. A \in Seq(L) /\ C \in Seq(L) /\ B \in Seq(L)
  <2>1. DescOver(U, None)
    BY DEF DescOver
  <2> QED BY <2>1, RsetMapOver, RecordText, BlankOver
<1>4. FlattenSeq(RsetMap(q)) = A
  <2> DEFINE w(i) == WriteElem(s[i])
             a(i) == Gap(i) \o DescAt(r, i) \o w(i)
             b(i) == Gap(i) \o DescAt(q, i) \o w(i)
  <2> HIDE DEF q, r, N
  <2>1. \A i \in 1..N : DescAt(r, i) = << >> /\ DescAt(q, i) = << >>
    <3>1. \A i \in 1..N : i - 1 # N
      BY <1>1
    <3> QED BY <1>2, <3>1 DEF DescAt
  <2>2. RsetMap(r) = [i \in 1..N |-> a(i)] /\ RsetMap(q) = [i \in 1..N |-> b(i)]
    BY <1>1, <1>2 DEF RsetMap, Here
  <2>3. \A i \in 1..N : a(i) = b(i)
    BY <2>1
  <2> HIDE DEF a, b
  <2>4. RsetMap(q) = RsetMap(r)
    BY <2>2, <2>3
  <2> QED BY <2>4
<1>5. WriteRset(q) = IF s = << >> THEN C ELSE (A \o B) \o C
  <2>1. WriteRset(q) =
          IF Len(q.elems) = 0 /\ q.desc # None THEN WriteRecord(q.desc)
          ELSE IF q.desc # None /\ q.dpos >= Len(q.elems)
          THEN FlattenSeq(RsetMap(q)) \o <<Blank>> \o WriteRecord(q.desc)
          ELSE FlattenSeq(RsetMap(q))
    BY WriteRsetIs
  <2>2. N >= N
    BY <1>1
  <2> HIDE DEF q, A, N
  <2>3. WriteRset(q) = IF N = 0 THEN C ELSE (A \o B) \o C
    BY <1>2, <1>4, <2>1, <2>2 DEF N
  <2> QED BY <1>1, <2>3
<1>6. RsetText(q) = (IF s = << >> THEN C ELSE (A \o B) \o C) \o B
  <2> HIDE DEF q, A
  <2> QED BY <1>1, <1>2, <1>5 DEF RsetText
<1>7. RsetText(r) = IF s = << >> THEN << >> ELSE A \o B
  <2>1. WriteRset(r) = A
    <3> HIDE DEF r
    <3> QED BY <1>1, <1>2, WriteRsetIs
  <2> HIDE DEF r, A
  <2> QED BY <1>2, <2>1 DEF RsetText
<1> HIDE DEF A, B, C, L, q, r
<1>8. CASE s = << >>
  <2>1. C \o B \in Seq(L)
    BY ONLY <1>3, ConcatProperties
  <2>2. << >> \o (C \o B) = C \o B
    BY ONLY <2>1, ConcatEmptySeq
  <2> QED BY <1>6, <1>7, <1>8, <2>2 DEF q, r, B, C
<1>9. CASE s # << >>
  <2>1. A \o B \in Seq(L)
    BY ONLY <1>3, ConcatProperties
  <2>2. ((A \o B) \o C) \o B = (A \o B) \o (C \o B)
    BY ONLY <1>3, <2>1, ConcatAssociative, SMTT(60)
  <2> QED BY <1>6, <1>7, <1>9, <2>2 DEF q, r, B, C
<1> QED BY <1>8, <1>9

---------------------------------------------------------------------------
(* A record set that is written is read back *)

AllWhole(s) == \A i \in DOMAIN s : Whole(s[i])

LEMMA AllWholeAppend ==
  ASSUME NEW S, NEW s \in Seq(S), NEW e \in S
  PROVE  AllWhole(Append(s, e)) <=> AllWhole(s) /\ Whole(e)
<1> DEFINE u == Append(s, e)
           N == Len(s)
           W(x) == Whole(x)
<1>1. /\ DOMAIN u = 1..(N + 1) /\ DOMAIN s = 1..N /\ N \in Nat
      /\ u[N + 1] = e /\ \A i \in 1..N : u[i] = s[i]
  BY AppendProperties
<1>2. \A i : i \in 1..(N + 1) <=> i \in 1..N \/ i = N + 1
  BY <1>1
<1>3. /\ AllWhole(u) <=> \A i \in DOMAIN u : W(u[i])
      /\ AllWhole(s) <=> \A i \in DOMAIN s : W(s[i])
      /\ Whole(e) <=> W(e)
  BY DEF AllWhole
<1> HIDE DEF u, N, W
<1> QED BY <1>1, <1>2, <1>3 DEF u

\* The lines of a record set are lines.
LEMMA TextOver ==
  ASSUME NEW U, NEW d, DescOver(U, d), NEW s \in Seq(ElemsOver(U)), NEW n
  PROVE  /\ WriteRset(RsetOf(d, n, s)) \in Seq(LinesOver(U))
         /\ RsetText(RsetOf(d, n, s)) \in Seq(LinesOver(U))
<1> DEFINE r == RsetOf(d, n, s)
           A == FlattenSeq(RsetMap(r))
           C == WriteRecord(d)
           L == LinesOver(U)
           B == <<Blank>>
<1>1. A \in Seq(L) /\ B \in Seq(L)
  BY RsetMapOver, BlankOver
<1>2. d # None => C \in Seq(L)
  BY RecordText DEF DescOver
<1>3. r.desc = d
  BY RsetOfIs
<1>4. \/ d # None /\ WriteRset(r) = C
      \/ d # None /\ WriteRset(r) = (A \o B) \o C
      \/ WriteRset(r) = A
  BY <1>3, WriteRsetIs
<1> HIDE DEF r, A, C, L, B
<1>5. A \o B \in Seq(L)
  BY <1>1, ConcatProperties
<1>6. d # None => (A \o B) \o C \in Seq(L)
  <2> SUFFICES ASSUME d # None PROVE (A \o B) \o C \in Seq(L)
    OBVIOUS
  <2> DEFINE ab == A \o B
  <2> HIDE DEF ab
  <2>1. ab \in Seq(L) /\ C \in Seq(L)
    BY <1>2, <1>5 DEF ab
  <2>2. ab \o C \in Seq(L)
    BY <2>1, ConcatProperties
  <2> QED BY <2>2 DEF ab
<1>7. WriteRset(r) \in Seq(L)
  BY <1>1, <1>2, <1>4, <1>6
<1>8. RsetText(r) = << >> \/ RsetText(r) = WriteRset(r) \o B
  BY DEF RsetText, B
<1> DEFINE w == WriteRset(r)
<1> HIDE DEF w
<1>9. w \in Seq(L) /\ w \o B \in Seq(L) /\ << >> \in Seq(L)
  <2>1. w \in Seq(L)
    BY <1>7 DEF w
  <2> QED BY <1>1, <2>1, ConcatProperties, EmptySeq
<1>10. RsetText(r) \in Seq(L)
  BY <1>8, <1>9 DEF w
<1> QED BY <1>7, <1>10 DEF r, L

\* A state from which a record set has been read is one from which the
\* elements that follow are read too.
LEMMA RestRead ==
  ASSUME NEW U, NEW d, DescOver(U, d), NEW s \in Seq(ElemsOver(U)),
         NEW n \in 0..Len(s), NEW o, NEW st,
         ParseLines(st, RsetText(RsetOf(d, n, s))) =
           Reading(o, RsetOf(d, n, s), << >>, No)
  PROVE  \A t \in Seq(ElemsOver(U)) : AllWhole(t) =>
           ParseLines(st, RsetText(RsetOf(d, n, s \o t))) =
             Reading(o, RsetOf(d, n, s \o t), << >>, No)
<1> DEFINE E == ElemsOver(U)
           Read(u) == ParseLines(st, RsetText(RsetOf(d, n, u))) =
                        Reading(o, RsetOf(d, n, u), << >>, No)
           G == {t \in Seq(E) : AllWhole(t) => Read(s \o t)}
<1>1. << >> \in G
  <2>1. s \o << >> = s
    OBVIOUS
  <2>2. Read(s)
    OBVIOUS
  <2> HIDE DEF Read
  <2> QED BY <2>1, <2>2, EmptySeq
<1>2. ASSUME NEW t \in Seq(E), NEW e \in E, t \in G
      PROVE  Append(t, e) \in G
  <2> SUFFICES ASSUME AllWhole(Append(t, e)) PROVE Read(s \o Append(t, e))
    BY AppendProperties
  <2> DEFINE u == s \o t
             L == LinesOver(U)
             w == RsetText(RsetOf(d, n, u))
             x == WriteElem(e) \o <<Blank>>
  <2>1. AllWhole(t) /\ Whole(e)
    BY AllWholeAppend
  <2>2. s \o Append(t, e) = Append(u, e)
    OBVIOUS
  <2>3. u \in Seq(E) /\ n \in 0..Len(u)
    OBVIOUS
  <2>4. ParseLines(st, w) = Reading(o, RsetOf(d, n, u), << >>, No)
    <3>1. Read(u)
      <4> HIDE DEF Read
      <4> QED BY <1>2, <2>1
    <3> QED BY <3>1
  <2> HIDE DEF u
  <2>5. RsetText(RsetOf(d, n, Append(u, e))) = w \o x
    BY <2>3, TextAppend, SMTT(30)
  <2>6. w \in Seq(L) /\ x \in Seq(L)
    <3>1. w \in Seq(L)
      BY <2>3, TextOver
    <3> DEFINE y == WriteElem(e)
               b == <<Blank>>
    <3>2. y \in Seq(L) /\ b \in Seq(L)
      BY ElemOver, BlankOver
    <3> HIDE DEF y, b, L
    <3>3. y \o b \in Seq(L)
      BY <3>2, ConcatProperties
    <3> QED BY <3>1, <3>3 DEF y, b
  <2>7. ParseLines(st, w \o x) = ParseLines(ParseLines(st, w), x)
    <3> HIDE DEF w, x, L
    <3> QED BY <2>6, ParseLinesConcat
  <2>8. ParseLines(Reading(o, RsetOf(d, n, u), << >>, No), x) =
          Reading(o, RsetOf(d, n, Append(u, e)), << >>, No)
    BY <2>1, <2>3, ElemRead
  <2> QED BY <2>2, <2>4, <2>5, <2>7, <2>8
<1>3. Seq(E) \subseteq G
  <2> HIDE DEF G, E
  <2> QED BY <1>1, <1>2, SeqInduction
<1> QED BY <1>3

\* The parser before the first line is reading nothing.
LEMMA NewParserReads ==
  /\ NewParser = Reading(<< >>, RsetOf(None, 0, << >>), << >>, No)
  /\ RsetText(RsetOf(None, 0, << >>)) = << >>
  /\ DescOver({}, None) /\ \A U : DescOver(U, None)
  BY DEF NewParser, Reading, RsetOf, NewRset, No, RsetText, DescOver

\* A record set without a descriptor, from the first line.
LEMMA PlainRead ==
  ASSUME NEW U, NEW t \in Seq(ElemsOver(U)), AllWhole(t)
  PROVE  ParseLines(NewParser, RsetText(RsetOf(None, 0, t))) =
           Reading(<< >>, RsetOf(None, 0, t), << >>, No)
<1> DEFINE E == ElemsOver(U)
           e == << >>
           o == << >>
           st == NewParser
           d == None
           n == 0
<1>1. e \in Seq(E) /\ 0 \in 0..Len(e) /\ e \o t = t /\ DescOver(U, None)
  BY EmptySeq, NewParserReads
<1>2. ParseLines(NewParser, RsetText(RsetOf(None, 0, e))) =
        Reading(<< >>, RsetOf(None, 0, e), << >>, No)
  BY NewParserReads, ParseLinesNone
<1> HIDE DEF e, o, st, d, n
<1>3. ParseLines(st, RsetText(RsetOf(d, n, e))) =
        Reading(o, RsetOf(d, n, e), << >>, No)
  BY <1>2 DEF o, st, d, n
<1>4. DescOver(U, d) /\ n \in 0..Len(e) /\ e \in Seq(ElemsOver(U))
  BY <1>1 DEF d, n, E
<1>5. ParseLines(st, RsetText(RsetOf(d, n, e \o t))) =
        Reading(o, RsetOf(d, n, e \o t), << >>, No)
  BY <1>3, <1>4, RestRead
<1> QED BY <1>1, <1>5 DEF o, st, d, n

\* The record sets that are read: a descriptor is a record with a %rec,
\* that is where it was between comments, and what is read is a descriptor
\* or has a record.
Complete(r) == r.desc # None \/ NumRecords(r) > 0
RsetsOver(U) ==
  {r \in [desc : {None} \cup Seq(ItemsOver(U)), dpos : Nat,
          elems : Seq(ElemsOver(U))] :
     /\ r.dpos <= Len(r.elems) /\ AllWhole(r.elems)
     /\ r.desc = None => r.dpos = 0
     /\ r.desc # None => Packed(r.desc) /\ HasField(r.desc, REC)
     /\ \A i \in 1..r.dpos : r.elems[i].k = "comment"}

LEMMA RsetParts ==
  ASSUME NEW U, NEW r \in RsetsOver(U)
  PROVE  /\ r = RsetOf(r.desc, r.dpos, r.elems)
         /\ r.dpos \in 0..Len(r.elems) /\ r.elems \in Seq(ElemsOver(U))
         /\ AllWhole(r.elems)
         /\ \A i \in 1..r.dpos : r.elems[i].k = "comment"
         /\ r.desc = None => r.dpos = 0
         /\ r.desc # None => /\ r.desc \in Seq(ItemsOver(U)) /\ Packed(r.desc)
                             /\ HasField(r.desc, REC)
         /\ DescOver(U, r.desc)
  BY DEF RsetsOver, RsetOf, DescOver

LEMMA NoRecordsYet ==
  ASSUME NEW d, NEW n, NEW s, \A i \in DOMAIN s : s[i].k = "comment"
  PROVE  NumRecords(RsetOf(d, n, s)) = 0
<1>1. RsetOf(d, n, s).elems = s
  BY RsetOfIs
<1>2. {i \in DOMAIN s : s[i].k = "record"} = {}
  OBVIOUS
<1>3. NumRecords(RsetOf(d, n, s)) = Cardinality({})
  BY <1>1, <1>2 DEF NumRecords
<1> QED BY <1>3, FS_EmptySet

\* The first record set of a text.
LEMMA FirstRead ==
  ASSUME NEW U, NEW r \in RsetsOver(U)
  PROVE  ParseLines(NewParser, RsetText(r)) = Reading(<< >>, r, << >>, No)
<1> DEFINE d == r.desc
           n == r.dpos
           u == r.elems
           E == ElemsOver(U)
<1>1. /\ r = RsetOf(d, n, u) /\ n \in 0..Len(u) /\ u \in Seq(E)
      /\ AllWhole(u) /\ DescOver(U, d)
      /\ \A i \in 1..n : u[i].k = "comment"
  BY RsetParts
<1>2. CASE d = None
  <2>1. n = 0
    BY <1>2, RsetParts
  <2> HIDE DEF d, n, u
  <2>2. ParseLines(NewParser, RsetText(RsetOf(None, 0, u))) =
          Reading(<< >>, RsetOf(None, 0, u), << >>, No)
    BY <1>1, PlainRead
  <2> QED BY <1>1, <1>2, <2>1, <2>2
<1>3. CASE d # None
  <2> DEFINE s == SubSeq(u, 1, n)
             t == SubSeq(u, n + 1, Len(u))
             L == LinesOver(U)
             o == << >>
             st == NewParser
  <2>1. d \in Seq(ItemsOver(U)) /\ Packed(d) /\ HasField(d, REC)
    BY <1>3, RsetParts
  <2> HIDE DEF d, n, u, E
  <2>2. /\ s \in Seq(E) /\ t \in Seq(E) /\ Len(s) = n /\ s \o t = u
        /\ \A i \in DOMAIN s : s[i] = u[i] /\ i \in 1..n
        /\ \A i \in DOMAIN t : t[i] = u[n + i] /\ n + i \in DOMAIN u
    <3>1. n \in 0..Len(u)
      BY <1>1
    <3> QED BY <1>1, <3>1, SplitAt
  <2> HIDE DEF s, t
  <2>3. AllWhole(s) /\ AllWhole(t)
    <3>1. \A i \in DOMAIN s : i \in DOMAIN u
      BY <1>1, <2>2
    <3> QED BY <1>1, <2>2, <3>1 DEF AllWhole
  <2>4. NumRecords(RsetOf(None, 0, s)) = 0
    BY <1>1, <2>2, NoRecordsYet
  <2> DEFINE a == RsetText(RsetOf(None, 0, s))
             b == WriteRecord(d) \o <<Blank>>
             c == RsetText(RsetOf(d, n, s))
  <2>5. ParseLines(st, a) = Reading(<< >>, RsetOf(None, 0, s), << >>, No)
    BY <2>2, <2>3, PlainRead DEF E
  <2>6. c = a \o b
    BY <1>3, <2>1, <2>2, TextDescribed DEF E
  <2>7. a \in Seq(L) /\ b \in Seq(L)
    <3>1. a \in Seq(L)
      BY <2>2, NewParserReads, TextOver DEF E
    <3> DEFINE w == WriteRecord(d)
               x == <<Blank>>
    <3>2. w \in Seq(L) /\ x \in Seq(L)
      BY <2>1, RecordText, BlankOver
    <3> HIDE DEF w, x, L
    <3>3. w \o x \in Seq(L)
      BY <3>2, ConcatProperties
    <3> QED BY <3>1, <3>3 DEF w, x
  <2>8. ParseLines(st, a \o b) = ParseLines(ParseLines(st, a), b)
    <3> HIDE DEF a, b, L, st
    <3> QED BY <2>7, ParseLinesConcat
  <2>9. ParseLines(Reading(<< >>, RsetOf(None, 0, s), << >>, No), b) =
          Reading(<< >>, RsetOf(d, Len(s), s), << >>, No)
    BY <2>1, <2>4, DescRead
  <2>10. ParseLines(st, c) = Reading(o, RsetOf(d, n, s), << >>, No)
    <3> HIDE DEF a, b, c, st
    <3> QED BY <2>2, <2>5, <2>6, <2>8, <2>9
  <2> HIDE DEF st, o
  <2>11. n \in 0..Len(s)
    BY <1>1, <2>2
  <2>12. ParseLines(st, RsetText(RsetOf(d, n, s \o t))) =
           Reading(o, RsetOf(d, n, s \o t), << >>, No)
    <3>1. DescOver(U, d) /\ s \in Seq(ElemsOver(U))
      BY <1>1, <2>2 DEF E
    <3>2. \A x \in Seq(ElemsOver(U)) : AllWhole(x) =>
            ParseLines(st, RsetText(RsetOf(d, n, s \o x))) =
              Reading(o, RsetOf(d, n, s \o x), << >>, No)
      BY ONLY <2>10, <2>11, <3>1, RestRead
    <3>3. t \in Seq(ElemsOver(U)) /\ AllWhole(t)
      BY <2>2, <2>3 DEF E
    <3> QED BY ONLY <3>2, <3>3
  <2> QED BY <1>1, <2>2, <2>12 DEF st, o
<1> QED BY <1>2, <1>3

\* A record set behind another one.
LEMMA NextRsetRead ==
  ASSUME NEW U, NEW r \in RsetsOver(U), r.desc # None, r.dpos = 0,
         NEW o, NEW d, NEW n, NEW s, Complete(RsetOf(d, n, s))
  PROVE  ParseLines(Reading(o, RsetOf(d, n, s), << >>, No), RsetText(r)) =
           Reading(Append(o, RsetOf(d, n, s)), r, << >>, No)
<1> DEFINE c == r.desc
           u == r.elems
           q == RsetOf(d, n, s)
           st == Reading(o, q, << >>, No)
           oq == Append(o, q)
           e == << >>
           z == 0
           E == ElemsOver(U)
<1>1. /\ r = RsetOf(c, z, u) /\ u \in Seq(E) /\ AllWhole(u) /\ DescOver(U, c)
      /\ c \in Seq(ItemsOver(U)) /\ Packed(c) /\ HasField(c, REC) /\ c # None
  BY RsetParts
<1> HIDE DEF c, u
<1>2. RsetText(RsetOf(c, 0, << >>)) = WriteRecord(c) \o <<Blank>>
  <2> DEFINE p == RsetOf(c, 0, << >>)
  <2>1. p.desc = c /\ p.elems = << >>
    BY RsetOfIs
  <2> HIDE DEF p
  <2>2. Len(<< >>) = 0
    OBVIOUS
  <2>3. WriteRset(p) = WriteRecord(c)
    BY <1>1, <2>1, <2>2, WriteRsetIs
  <2> QED BY <1>1, <2>1, <2>3 DEF RsetText, p
<1>3. ~(NumRecords(q) = 0 /\ d = None)
  <2>1. q.desc = d
    BY RsetOfIs
  <2> HIDE DEF q
  <2>2. Complete(q)
    BY DEF q
  <2> QED BY <2>1, <2>2 DEF Complete
<1>4. NewRset(c) = RsetOf(c, 0, << >>)
  BY DEF NewRset, RsetOf
<1>5. ParseLines(st, WriteRecord(c) \o <<Blank>>) =
        Reading(oq, NewRset(c), << >>, No)
  BY <1>1, <1>3, DescRead
<1>6. ParseLines(st, RsetText(RsetOf(c, z, e))) =
        Reading(oq, RsetOf(c, z, e), << >>, No)
  BY <1>2, <1>4, <1>5
<1>7. e \in Seq(E) /\ z \in 0..Len(e) /\ e \o u = u
  BY <1>1, EmptySeq
<1> HIDE DEF st, oq, e, z
<1>8. ParseLines(st, RsetText(RsetOf(c, z, e \o u))) =
        Reading(oq, RsetOf(c, z, e \o u), << >>, No)
  <2>1. DescOver(U, c) /\ z \in 0..Len(e) /\ e \in Seq(ElemsOver(U))
    BY <1>1, <1>7
  <2>2. \A t \in Seq(ElemsOver(U)) : AllWhole(t) =>
          ParseLines(st, RsetText(RsetOf(c, z, e \o t))) =
            Reading(oq, RsetOf(c, z, e \o t), << >>, No)
    BY ONLY <1>6, <2>1, RestRead
  <2> QED BY ONLY <1>1, <2>2
<1> QED BY <1>1, <1>7, <1>8 DEF st, oq, q

---------------------------------------------------------------------------
(* A database that is written is read back *)

DbMap(d) ==
  [i \in DOMAIN d |-> (IF i # 1 THEN <<Blank>> ELSE << >>) \o WriteRset(d[i])]

\* The record sets that are read one behind the other: all but the first
\* start at their descriptors.
CompleteRsets(U) == {r \in RsetsOver(U) : Complete(r)}
OneByOne(d) == \A i \in 2..Len(d) : d[i].desc # None /\ d[i].dpos = 0

\* A database as it is written, with an empty line behind it.
DbText(d) == IF d = << >> THEN << >> ELSE Write(d) \o <<Blank>>

LEMMA RsetWritten ==
  ASSUME NEW U, NEW r \in CompleteRsets(U)
  PROVE  /\ WriteRset(r) \in Seq(LinesOver(U)) /\ RsetText(r) \in Seq(LinesOver(U))
         /\ RsetText(r) = WriteRset(r) \o <<Blank>>
<1>1. r \in RsetsOver(U) /\ Complete(r)
  BY DEF CompleteRsets
<1>2. /\ r = RsetOf(r.desc, r.dpos, r.elems) /\ r.elems \in Seq(ElemsOver(U))
      /\ DescOver(U, r.desc)
  BY <1>1, RsetParts
<1>3. ~(r.desc = None /\ r.elems = << >>)
  <2> SUFFICES ASSUME r.desc = None, r.elems = << >> PROVE FALSE
    OBVIOUS
  <2>1. NumRecords(r) = 0
    <3>1. NumRecords(RsetOf(r.desc, r.dpos, r.elems)) = 0
      BY NoRecordsYet
    <3> QED BY <1>2, <3>1
  <2> QED BY <1>1, <2>1 DEF Complete
<1> DEFINE d == r.desc
           n == r.dpos
           s == r.elems
<1> HIDE DEF d, n, s
<1>4. /\ WriteRset(RsetOf(d, n, s)) \in Seq(LinesOver(U))
      /\ RsetText(RsetOf(d, n, s)) \in Seq(LinesOver(U))
  BY <1>2, TextOver DEF d, n, s
<1>5. r = RsetOf(d, n, s)
  BY <1>2 DEF d, n, s
<1>6. RsetText(r) = WriteRset(r) \o <<Blank>>
  BY <1>3 DEF RsetText
<1> QED BY <1>4, <1>5, <1>6

LEMMA DbMapOver ==
  ASSUME NEW U, NEW d \in Seq(CompleteRsets(U))
  PROVE  /\ SeqsOver(DbMap(d), LinesOver(U)) /\ Len(DbMap(d)) = Len(d)
         /\ Write(d) = FlattenSeq(DbMap(d)) /\ Write(d) \in Seq(LinesOver(U))
<1> DEFINE m == DbMap(d)
           L == LinesOver(U)
           N == Len(d)
           C == CompleteRsets(U)
           b(i) == IF i # 1 THEN <<Blank>> ELSE << >>
           w(i) == WriteRset(d[i])
<1>1. N \in Nat /\ DOMAIN d = 1..N /\ \A i \in 1..N : d[i] \in C
  <2> HIDE DEF C
  <2>1. d \in Seq(C)
    BY DEF C
  <2> QED BY <2>1
<1>2. \A i \in 1..N : w(i) \in Seq(L)
  BY <1>1, RsetWritten
<1>3. \A i \in 1..N : b(i) \in Seq(L)
  BY BlankOver, EmptySeq
<1>4. m = [i \in 1..N |-> b(i) \o w(i)]
  BY <1>1 DEF DbMap
<1> HIDE DEF b, w, L, m
<1>5. \A i \in 1..N : b(i) \o w(i) \in Seq(L)
  BY <1>2, <1>3, ConcatProperties
<1>6. m \in Seq(Seq(L)) /\ Len(m) = N
  BY <1>1, <1>4, <1>5
<1>7. SeqsOver(m, L)
  BY <1>6 DEF SeqsOver
<1>8. FlattenSeq(m) \in Seq(L)
  BY <1>7, FlattenAppend, EmptySeq
<1>9. Write(d) = FlattenSeq(m)
  BY DEF Write, DbMap, m
<1> QED BY <1>6, <1>7, <1>8, <1>9 DEF m, L

LEMMA DbTextAppend ==
  ASSUME NEW U, NEW d \in Seq(CompleteRsets(U)), NEW r \in CompleteRsets(U)
  PROVE  /\ DbText(Append(d, r)) = DbText(d) \o RsetText(r)
         /\ Write(Append(d, r)) \in Seq(LinesOver(U))
         /\ DbText(d) \in Seq(LinesOver(U))
<1> DEFINE C == CompleteRsets(U)
           u == Append(d, r)
           N == Len(d)
           L == LinesOver(U)
           a == DbMap(d)
           b == DbMap(u)
           g == IF N + 1 # 1 THEN <<Blank>> ELSE << >>
           w == WriteRset(r)
           B == <<Blank>>
<1>1. /\ DOMAIN u = 1..(N + 1) /\ DOMAIN d = 1..N /\ N \in Nat
      /\ u[N + 1] = r /\ (\A i \in 1..N : u[i] = d[i]) /\ u \in Seq(C)
      /\ u # << >> /\ (N = 0 <=> d = << >>)
  <2> HIDE DEF C
  <2>1. d \in Seq(C) /\ r \in C
    BY DEF C
  <2> QED BY <2>1, AppendProperties, EmptySeq
<1> HIDE DEF u, C
<1>2. /\ SeqsOver(a, L) /\ Len(a) = N /\ Write(d) = FlattenSeq(a)
      /\ Write(d) \in Seq(L)
  BY DbMapOver
<1>3. Write(u) = FlattenSeq(b) /\ Write(u) \in Seq(L)
  BY <1>1, DbMapOver DEF C
<1>4. w \in Seq(L) /\ B \in Seq(L) /\ RsetText(r) = w \o B
  BY RsetWritten, BlankOver
<1>5. g \in Seq(L) /\ g = IF d = << >> THEN << >> ELSE B
  BY <1>1, BlankOver, EmptySeq
<1>6. b = [i \in 1..(N + 1) |->
             (IF i # 1 THEN <<Blank>> ELSE << >>) \o WriteRset(u[i])]
      /\ a = [i \in 1..N |->
                (IF i # 1 THEN <<Blank>> ELSE << >>) \o WriteRset(d[i])]
  BY <1>1 DEF DbMap
<1> DEFINE h(i, x) == (IF i # 1 THEN <<Blank>> ELSE << >>) \o WriteRset(x)
<1>7. b = [i \in 1..(N + 1) |-> h(i, u[i])] /\ a = [i \in 1..N |-> h(i, d[i])]
      /\ h(N + 1, r) = g \o w
  BY <1>6
<1> HIDE DEF a, b, h, g, w, B, L
<1>8. g \o w \in Seq(L)
  BY <1>4, <1>5, ConcatProperties
<1> DEFINE x == g \o w
<1> HIDE DEF x
<1>9. b = Append(a, x)
  <2>1. IsAppend(b, a, x)
    <3> HIDE DEF N
    <3> QED BY <1>1, <1>2, <1>7 DEF IsAppend, x
  <2>2. x \in Seq(L)
    BY <1>8 DEF x
  <2> QED BY <1>2, <2>1, <2>2, SeqsAppendIs
<1>10. Write(u) = Write(d) \o x
  <2>1. x \in Seq(L)
    BY <1>8 DEF x
  <2> QED BY <1>2, <1>3, <1>9, <2>1, FlattenAppend
<1> DEFINE y == Write(d)
<1> HIDE DEF y
<1>11. y \in Seq(L) /\ w \in Seq(L) /\ B \in Seq(L) /\ << >> \in Seq(L)
  BY <1>2, <1>4, EmptySeq DEF y
<1>12. DbText(u) = (y \o x) \o B
  BY <1>1, <1>10 DEF DbText, y, B
<1>13. CASE d = << >>
  <2>1. Write(d) = << >>
    <3>1. a = << >>
      BY <1>1, <1>2, <1>13, EmptySeq
    <3> QED BY <1>2, <3>1, FlattenNone
  <2>2. DbText(d) = << >>
    BY <1>13 DEF DbText
  <2>3. x = << >> \o w /\ << >> \o w = w
    <3>1. << >> \o w = w
      BY <1>11
    <3> QED BY <1>5, <1>13, <3>1 DEF x
  <2>4. y \o x = w
    BY <1>11, <2>1, <2>3 DEF y
  <2>5. w \o B \in Seq(L)
    BY <1>11, ConcatProperties
  <2>6. << >> \o (w \o B) = w \o B
    BY <2>5
  <2> QED BY <1>3, <1>4, <1>11, <1>12, <2>2, <2>4, <2>6 DEF u, L
<1>14. CASE d # << >>
  <2>1. x = B \o w
    BY <1>5, <1>14 DEF x
  <2>2. DbText(d) = y \o B
    BY <1>14 DEF DbText, y, B
  <2>3. y \o B \in Seq(L)
    BY <1>11, ConcatProperties
  <2>4. (y \o B) \o (w \o B) = (y \o (B \o w)) \o B
    <3> DEFINE Q == Seq(L)
               yb == y \o B
    <3>1. \A e, f, i \in Q : (e \o f) \o i = e \o (f \o i)
      BY ConcatAssociative, SMTT(60)
    <3>2. y \in Q /\ w \in Q /\ B \in Q
      BY <1>11
    <3>3. yb \in Q
      BY <2>3
    <3> HIDE DEF Q
    <3>4. (y \o B) \o w = y \o (B \o w)
      BY ONLY <3>1, <3>2, Zenon
    <3> HIDE DEF yb
    <3>5. (yb \o w) \o B = yb \o (w \o B)
      BY ONLY <3>1, <3>2, <3>3, Zenon
    <3> QED BY ONLY <3>4, <3>5, Zenon DEF yb
  <2> QED BY <1>3, <1>4, <1>12, <2>1, <2>2, <2>3, <2>4 DEF u, L
<1> QED BY <1>13, <1>14

\* The text of a database, followed by an empty line, leaves the parser
\* with all its record sets, the last one still open.
LEMMA DbRead ==
  ASSUME NEW U
  PROVE  \A d \in Seq(CompleteRsets(U)) : \A r \in CompleteRsets(U) :
           OneByOne(Append(d, r)) =>
             ParseLines(NewParser, DbText(Append(d, r))) =
               Reading(d, r, << >>, No)
<1> DEFINE C == CompleteRsets(U)
           L == LinesOver(U)
           Read(d, r) == ParseLines(NewParser, DbText(Append(d, r))) =
                           Reading(d, r, << >>, No)
           G == {d \in Seq(C) : \A r \in C : OneByOne(Append(d, r)) => Read(d, r)}
<1>1. << >> \in G
  <2>1. ASSUME NEW r \in C PROVE Read(<< >>, r)
    <3>1. r \in RsetsOver(U)
      BY DEF CompleteRsets
    <3> DEFINE e == << >>
               w == RsetText(r)
    <3>2. e \in Seq(C) /\ DbText(e) = << >>
      BY EmptySeq DEF DbText
    <3>3. w \in Seq(L) /\ DbText(Append(e, r)) = DbText(e) \o w
      <4> HIDE DEF e
      <4> QED BY <3>2, RsetWritten, DbTextAppend
    <3>4. << >> \o w = w
      <4> HIDE DEF w
      <4> QED BY <3>3
    <3> HIDE DEF w
    <3> QED BY <3>1, <3>2, <3>3, <3>4, FirstRead DEF w
  <2> HIDE DEF Read, C
  <2> QED BY <2>1, EmptySeq
<1>2. ASSUME NEW d \in Seq(C), NEW e \in C, d \in G
      PROVE  Append(d, e) \in G
  <2> DEFINE u == Append(d, e)
             N == Len(d)
  <2>1. u \in Seq(C) /\ DOMAIN u = 1..(N + 1) /\ Len(u) = N + 1 /\ N \in Nat
    <3> HIDE DEF C
    <3> QED BY AppendProperties
  <2>2. ASSUME NEW r \in C, OneByOne(Append(u, r)) PROVE Read(u, r)
    <3> DEFINE v == Append(u, r)
               p == DbText(u)
               q == RsetText(r)
    <3>1. /\ Len(v) = N + 2 /\ v[N + 2] = r
          /\ \A i \in 1..(N + 1) : v[i] = u[i]
      <4> HIDE DEF u, C, N
      <4> QED BY <2>1, AppendProperties
    <3> HIDE DEF v, u
    <3>2. OneByOne(u) /\ r.desc # None /\ r.dpos = 0
      <4>1. \A i \in 2..(N + 2) : v[i].desc # None /\ v[i].dpos = 0
        BY <2>2, <3>1 DEF OneByOne, v
      <4>2. N + 2 \in 2..(N + 2)
            /\ \A i \in 2..(N + 1) : i \in 2..(N + 2) /\ i \in 1..(N + 1)
        BY <2>1
      <4> HIDE DEF N
      <4> QED BY <2>1, <3>1, <4>1, <4>2 DEF OneByOne
    <3>3. Read(d, e)
      <4> HIDE DEF Read
      <4> QED BY <1>2, <3>2 DEF u
    <3>4. ParseLines(NewParser, p) = Reading(d, e, << >>, No)
      BY <3>3 DEF u
    <3>5. DbText(v) = p \o q /\ p \in Seq(L) /\ q \in Seq(L)
      BY <2>1, RsetWritten, DbTextAppend DEF v
    <3>6. ParseLines(NewParser, p \o q) =
            ParseLines(ParseLines(NewParser, p), q)
      <4> HIDE DEF p, q, L
      <4> QED BY <3>5, ParseLinesConcat
    <3>7. r \in RsetsOver(U) /\ e \in RsetsOver(U) /\ Complete(e)
      BY DEF CompleteRsets
    <3>8. ParseLines(Reading(d, e, << >>, No), q) = Reading(u, r, << >>, No)
      <4> DEFINE a == e.desc
                 b == e.dpos
                 c == e.elems
                 f == RsetOf(a, b, c)
      <4>1. e = f
        BY <3>7, RsetParts
      <4> HIDE DEF a, b, c
      <4>2. Complete(RsetOf(a, b, c))
        BY <3>7, <4>1
      <4>3. ParseLines(Reading(d, RsetOf(a, b, c), << >>, No), RsetText(r)) =
              Reading(Append(d, RsetOf(a, b, c)), r, << >>, No)
        BY <3>2, <3>7, <4>2, NextRsetRead
      <4> QED BY <4>1, <4>3 DEF u
    <3> HIDE DEF p, q
    <3> QED BY <3>4, <3>5, <3>6, <3>8 DEF v
  <2> HIDE DEF Read, C, u
  <2>3. \A r \in C : OneByOne(Append(u, r)) => Read(u, r)
    BY <2>2
  <2> QED BY <2>1, <2>3 DEF u
<1>3. Seq(C) \subseteq G
  <2> HIDE DEF G, C
  <2> QED BY <1>1, <1>2, SeqInduction
<1> QED BY <1>3

\* The end of the file ends what an empty line would have ended.
LEMMA BlankThenEof ==
  ASSUME NEW p, NEW d, NEW r, Complete(r),
         ParseLine(p, Blank) = Reading(d, r, << >>, No)
  PROVE  ParseEof(p).out = Append(d, r) /\ ~ParseEof(p).err
<1> DEFINE q == Reading(d, r, << >>, No)
           s == EndRecord(p)
<1>1. /\ q.out = d /\ q.rset = r /\ q.err = No /\ q.eof = No
      /\ DOMAIN q = Parts
  BY ReadingIs
<1>2. Blank.k = "blank"
  BY DEF Blank
<1> HIDE DEF q
<1>3. ~(p.err \/ p.eof)
  <2> SUFFICES ASSUME p.err \/ p.eof PROVE FALSE
    OBVIOUS
  <2>1. ParseLine(p, Blank) = p
    BY DEF ParseLine
  <2>2. p = q
    BY <2>1 DEF q
  <2> QED BY <1>1, <2>2 DEF No
<1>4. ParseLine(p, Blank) = [s EXCEPT !.last = FALSE]
  BY <1>2, <1>3 DEF ParseLine
<1> HIDE DEF s
<1>5. [s EXCEPT !.last = FALSE] = q
  BY <1>4 DEF q
<1>6. DOMAIN s = Parts
  BY <1>1, <1>5
<1>7. s.out = d /\ s.rset = r /\ s.err = No
  BY <1>1, <1>5, <1>6 DEF Parts
<1>8. ParseEof(p) = [s EXCEPT !.out = Append(s.out, s.rset), !.eof = TRUE,
                              !.rset = NewRset(None)]
  BY <1>3, <1>7 DEF ParseEof, s, Complete
<1> QED BY <1>6, <1>7, <1>8 DEF Parts, No

\* What the writer writes of a database the parser reads back: the same
\* record sets with their descriptors, records and comments in the same
\* places (rec_write_db, rec_parse_db).
THEOREM DbReadBack ==
  ASSUME NEW U, NEW d \in Seq(CompleteRsets(U)), OneByOne(d)
  PROVE  Parse(Write(d)).out = d /\ ~Parse(Write(d)).err
<1> DEFINE C == CompleteRsets(U)
           p == ParseLines(NewParser, Write(d))
<1>1. Parse(Write(d)) = ParseEof(p)
  BY DEF Parse
<1>2. CASE d = << >>
  <2>1. Write(d) = << >>
    <3>1. DbMap(d) = << >>
      BY <1>2, EmptySeq DEF DbMap
    <3> QED BY <3>1, FlattenNone DEF Write, DbMap
  <2>2. p = NewParser
    BY <2>1, ParseLinesNone
  <2> DEFINE s == NewParser
  <2>3. /\ ~s.err /\ s.rec = << >> /\ s.rset = NewRset(None) /\ s.out = << >>
        /\ DOMAIN s = Parts
    BY DEF NewParser, Parts
  <2>4. NumRecords(NewRset(None)) = 0 /\ NewRset(None).desc = None
    <3>1. NumRecords(RsetOf(None, 0, << >>)) = 0
      BY NoRecordsYet
    <3> QED BY <3>1 DEF NewRset, RsetOf
  <2> HIDE DEF s
  <2>5. EndRecord(s) = s
    BY <2>3 DEF EndRecord
  <2>6. ParseEof(s) = [s EXCEPT !.eof = TRUE]
    BY <2>3, <2>4, <2>5 DEF ParseEof
  <2>7. ParseEof(s).out = s.out /\ ParseEof(s).err = s.err
    BY <2>3, <2>6 DEF Parts
  <2> HIDE DEF p
  <2> QED BY <1>1, <1>2, <2>2, <2>3, <2>7 DEF s
<1>3. CASE d # << >>
  <2> DEFINE N == Len(d)
             L == LinesOver(U)
             w == Write(d)
             b == <<Blank>>
  <2>1. \E f \in Seq(C) : \E r \in C : d = Append(f, r)
    <3>1. d[N] \in C
      <4> HIDE DEF C
      <4>1. d \in Seq(C)
        BY DEF C
      <4> QED BY <1>3, <4>1, EmptySeq
    <3>2. PICK f \in Seq(C) : LastIs(d, f, d[N])
      <4> HIDE DEF C
      <4>1. d \in Seq(C)
        BY DEF C
      <4> QED BY <1>3, <3>1, <4>1, LastReplaced
    <3> QED BY <3>1, <3>2 DEF LastIs
  <2>2. PICK f \in Seq(C), r \in C : d = Append(f, r)
    BY <2>1
  <2>3. Complete(r)
    BY DEF CompleteRsets
  <2>4. ParseLines(NewParser, DbText(d)) = Reading(f, r, << >>, No)
    BY <2>2, DbRead
  <2>5. DbText(d) = w \o b
    BY <1>3 DEF DbText
  <2>6. w \in Seq(L) /\ b \in Seq(L)
    BY DbMapOver, BlankOver
  <2>7. ParseLines(NewParser, w \o b) = ParseLine(p, Blank)
    <3>1. ParseLines(NewParser, w \o b) =
            ParseLines(ParseLines(NewParser, w), b)
      <4> HIDE DEF w, b, L
      <4> QED BY <2>6, ParseLinesConcat
    <3> QED BY <3>1, ParseLinesOne
  <2> HIDE DEF p, w, b
  <2>8. ParseLine(p, Blank) = Reading(f, r, << >>, No)
    BY <2>4, <2>5, <2>7
  <2> QED BY <1>1, <2>2, <2>3, <2>8, BlankThenEof
<1> QED BY <1>2, <1>3

---------------------------------------------------------------------------
(* The members of a kind *)

LEMMA OnlyIs ==
  ASSUME NEW E, NEW k, NEW s \in Seq(E)
  PROVE  /\ Only(s, k) \in Seq(E) /\ Only(<< >>, k) = << >>
         /\ \A e \in E : Only(Append(s, e), k) =
                           IF e.k = k THEN Append(Only(s, k), e) ELSE Only(s, k)
<1> DEFINE f == [x \in E |-> IF x.k = k THEN <<x>> ELSE << >>]
<1>1. f \in [E -> Seq(E)]
  <2>1. \A x \in E : (IF x.k = k THEN <<x>> ELSE << >>) \in Seq(E)
    <3> TAKE x \in E
    <3>1. <<x>> \in Seq(E) /\ << >> \in Seq(E)
      BY EmptySeq
    <3> QED BY <3>1
  <2> QED BY <2>1
<1>2. ASSUME NEW u \in Seq(E) PROVE Only(u, k) = Spread(f, u)
  <2> DEFINE a == [i \in DOMAIN u |-> IF u[i].k = k THEN <<u[i]>> ELSE << >>]
             b == [i \in DOMAIN u |-> f[u[i]]]
  <2>1. \A i \in DOMAIN u : u[i] \in E
    OBVIOUS
  <2>2. \A i \in DOMAIN u :
          f[u[i]] = IF u[i].k = k THEN <<u[i]>> ELSE << >>
    BY <2>1
  <2>3. a = b
    <3> HIDE DEF f
    <3> QED BY <2>2
  <2> QED BY <2>3 DEF Only, Spread
<1>3. \A x \in E : f[x] = IF x.k = k THEN <<x>> ELSE << >>
  OBVIOUS
<1> HIDE DEF f
<1>4. << >> \in Seq(E) /\ Spread(f, s) \in Seq(E) /\ Spread(f, << >>) = << >>
  BY <1>1, EmptySeq, SpreadIs
<1>5. ASSUME NEW e \in E
      PROVE  Only(Append(s, e), k) =
               IF e.k = k THEN Append(Only(s, k), e) ELSE Only(s, k)
  <2> DEFINE u == Append(s, e)
             o == Only(s, k)
  <2>1. u \in Seq(E)
    BY AppendProperties
  <2>2. Only(u, k) = o \o f[e]
    <3>1. Spread(f, u) = Spread(f, s) \o f[e]
      BY <1>1, SpreadAppend
    <3> HIDE DEF u
    <3> QED BY <1>2, <2>1, <3>1
  <2>3. o \in Seq(E)
    BY <1>2, <1>4
  <2> HIDE DEF o, u
  <2>4. o \o <<e>> = Append(o, e) /\ o \o << >> = o
    BY <2>3
  <2> QED BY <1>3, <2>2, <2>4 DEF o, u
<1> QED BY <1>2, <1>4, <1>5

\* The members of the kind k are members, of that kind, in a number that is
\* at least that of the first ones; there is one if s has one.
OnlyFacts(E, k, s) ==
  /\ \A j \in DOMAIN Only(s, k) :
       /\ Only(s, k)[j].k = k
       /\ \E i \in DOMAIN s : s[i] = Only(s, k)[j]
  /\ \A n \in 0..Len(s) :
       (\A i \in 1..n : s[i].k = k) => n <= Len(Only(s, k))
  /\ (\E i \in DOMAIN s : s[i].k = k) => Only(s, k) # << >>

LEMMA OnlyMembers ==
  ASSUME NEW E, NEW k
  PROVE  \A s \in Seq(E) : OnlyFacts(E, k, s)
<1> DEFINE G == {s \in Seq(E) : OnlyFacts(E, k, s)}
<1>1. << >> \in G
  <2>1. << >> \in Seq(E)
    BY EmptySeq
  <2>2. Only(<< >>, k) = << >>
    BY <2>1, OnlyIs
  <2> DEFINE z == << >>
  <2>3. DOMAIN z = {} /\ Len(z) = 0
    OBVIOUS
  <2>4. OnlyFacts(E, k, z)
    <3>1. DOMAIN Only(z, k) = {} /\ Len(Only(z, k)) = 0
      BY <2>2, <2>3
    <3>2. \A n \in 0..0 : n <= 0
      OBVIOUS
    <3> HIDE DEF z
    <3> QED BY <2>3, <3>1, <3>2 DEF OnlyFacts
  <2> QED BY <2>1, <2>4
<1>2. ASSUME NEW s \in Seq(E), NEW e \in E, s \in G
      PROVE  Append(s, e) \in G
  <2> DEFINE u == Append(s, e)
             a == Only(s, k)
             b == Only(u, k)
             N == Len(s)
             M == Len(a)
  <2>1. /\ u \in Seq(E) /\ DOMAIN u = 1..(N + 1) /\ DOMAIN s = 1..N /\ N \in Nat
        /\ Len(u) = N + 1 /\ u[N + 1] = e /\ \A i \in 1..N : u[i] = s[i]
    BY AppendProperties
  <2>2. a \in Seq(E) /\ b = IF e.k = k THEN Append(a, e) ELSE a
    BY OnlyIs
  <2>3. /\ \A j \in DOMAIN a : a[j].k = k /\ \E i \in DOMAIN s : s[i] = a[j]
        /\ \A n \in 0..N : (\A i \in 1..n : s[i].k = k) => n <= M
        /\ (\E i \in DOMAIN s : s[i].k = k) => a # << >>
    BY <1>2 DEF OnlyFacts
  <2>4. M \in Nat /\ DOMAIN a = 1..M
    BY <2>2
  <2>5. /\ N + 1 \in 1..(N + 1)
        /\ \A i \in 1..(N + 1) : i = N + 1 \/ i \in 1..N
        /\ \A i \in 1..N : i \in 1..(N + 1)
        /\ \A n \in 0..(N + 1) : n = N + 1 \/ n \in 0..N
    BY <2>1
  <2> HIDE DEF u, a, b
  <2>6. CASE e.k = k
    <3>1. /\ b # << >> /\ Len(b) = M + 1 /\ DOMAIN b = 1..(M + 1)
          /\ b[M + 1] = e /\ \A j \in 1..M : b[j] = a[j]
      <4>1. b = Append(a, e)
        BY <2>2, <2>6
      <4> QED BY <2>2, <4>1, AppendProperties
    <3>2. \A j \in 1..(M + 1) : j = M + 1 \/ j \in 1..M
      BY <2>4
    <3> HIDE DEF N, M
    <3>3. \A j \in DOMAIN b : b[j].k = k /\ \E i \in DOMAIN u : u[i] = b[j]
      <4> TAKE j \in DOMAIN b
      <4>1. CASE j = M + 1
        BY <2>1, <2>5, <2>6, <3>1, <4>1
      <4>2. CASE j \in 1..M
        <5>1. b[j] = a[j] /\ a[j].k = k
          BY <2>3, <2>4, <3>1, <4>2
        <5>2. PICK i \in 1..N : s[i] = a[j]
          BY <2>1, <2>3, <2>4, <4>2
        <5> QED BY <2>1, <2>5, <5>1, <5>2
      <4> QED BY <3>1, <3>2, <4>1, <4>2
    <3>4. ASSUME NEW n \in 0..(N + 1), \A i \in 1..n : u[i].k = k
          PROVE  n <= M + 1
      <4>1. CASE n \in 0..N
        <5>1. \A i \in 1..n : i \in 1..N
          BY <2>1, <4>1
        <5>2. n <= M
          BY <2>1, <2>3, <3>4, <4>1, <5>1
        <5> QED BY <2>4, <4>1, <5>2
      <4>2. CASE n = N + 1
        <5>1. \A i \in 1..N : s[i].k = k
          BY <2>1, <2>5, <3>4, <4>2
        <5>2. N \in 0..N
          BY <2>1
        <5>3. N <= M
          BY <2>3, <5>1, <5>2
        <5> QED BY <2>1, <2>4, <4>2, <5>3
      <4> QED BY <2>5, <4>1, <4>2
    <3>5. OnlyFacts(E, k, u)
      <4>1. \A n \in 0..(N + 1) : (\A i \in 1..n : u[i].k = k) => n <= M + 1
        BY <3>4
      <4> QED BY <2>1, <3>1, <3>3, <4>1 DEF OnlyFacts, b
    <3> QED BY <2>1, <3>5 DEF u
  <2>7. CASE e.k # k
    <3>1. b = a
      BY <2>2, <2>7
    <3> HIDE DEF N, M
    <3>2. \A j \in DOMAIN b : b[j].k = k /\ \E i \in DOMAIN u : u[i] = b[j]
      <4> TAKE j \in DOMAIN b
      <4>1. b[j].k = k
        BY <2>3, <3>1
      <4>2. PICK i \in 1..N : s[i] = b[j]
        BY <2>1, <2>3, <3>1
      <4> QED BY <2>1, <2>5, <4>1, <4>2
    <3>3. ASSUME NEW n \in 0..(N + 1), \A i \in 1..n : u[i].k = k
          PROVE  n <= M
      <4>1. CASE n \in 0..N
        <5>1. \A i \in 1..n : i \in 1..N
          BY <2>1, <4>1
        <5> QED BY <2>1, <2>3, <3>3, <4>1, <5>1
      <4>2. CASE n = N + 1
        BY <2>1, <2>5, <2>7, <3>3, <4>2
      <4> QED BY <2>5, <4>1, <4>2
    <3>4. (\E i \in DOMAIN u : u[i].k = k) => b # << >>
      BY <2>1, <2>3, <2>5, <2>7, <3>1
    <3>5. OnlyFacts(E, k, u)
      <4>1. \A n \in 0..(N + 1) : (\A i \in 1..n : u[i].k = k) => n <= Len(b)
        BY <3>1, <3>3 DEF M
      <4> QED BY <2>1, <3>2, <3>4, <4>1 DEF OnlyFacts, b
    <3> QED BY <2>1, <3>5 DEF u
  <2> QED BY <2>6, <2>7
<1>3. Seq(E) \subseteq G
  <2> HIDE DEF G
  <2> QED BY <1>1, <1>2, SeqInduction
<1> QED BY <1>3

---------------------------------------------------------------------------
(* What the files and the databases are made of *)

AllLines ==
  {Blank, Bad, Cut} \cup [k : {"comment"}, of : Contents]
    \cup [k : {"field"}, n : Contents, v : Contents]
Elems ==
  [k : {"record"}, items : Seq(Items)] \cup [k : {"comment"}, texts : Seq(Contents)]
Descs == {d \in Seq(Items) : HasField(d, REC)}
Rsets ==
  {r \in [desc : {None} \cup Descs, dpos : Nat, elems : Seq(Elems)] :
     r.dpos <= Len(r.elems)}
Parsers ==
  [out : Seq(Rsets), rset : Rsets, rec : Seq(Items),
   last : BOOLEAN, err : BOOLEAN, eof : BOOLEAN]

---------------------------------------------------------------------------
(* The lines that are not empty *)

Kept(line) == IF line = Blank THEN << >> ELSE <<line>>

LEMMA KeptSeqs ==
  ASSUME NEW s \in Seq(AllLines)
  PROVE  SeqsOver([i \in DOMAIN s |-> Kept(s[i])], AllLines)
<1> DEFINE r == [i \in DOMAIN s |-> Kept(s[i])]
<1>1. \A i \in 1..Len(s) : Kept(s[i]) \in Seq(AllLines)
  BY DEF Kept
<1>2. Len(s) \in Nat /\ r \in [1..Len(s) -> Seq(AllLines)]
  BY <1>1
<1>3. r \in Seq(Seq(AllLines))
  <2> HIDE DEF r
  <2> QED BY <1>2
<1> QED BY <1>3 DEF SeqsOver

LEMMA NonBlankConcat ==
  ASSUME NEW s \in Seq(AllLines), NEW t \in Seq(AllLines)
  PROVE  /\ s \o t \in Seq(AllLines)
         /\ NonBlank(s) \in Seq(AllLines) /\ NonBlank(t) \in Seq(AllLines)
         /\ NonBlank(s \o t) = NonBlank(s) \o NonBlank(t)
<1> DEFINE m(x) == [i \in DOMAIN x |-> Kept(x[i])]
<1>1. s \o t \in Seq(AllLines)
  BY ConcatProperties
<1>2. NonBlank(s) = FlattenSeq(m(s)) /\ NonBlank(t) = FlattenSeq(m(t))
      /\ NonBlank(s \o t) = FlattenSeq(m(s \o t))
  BY DEF NonBlank, Kept
<1>3. SeqsOver(m(s), AllLines) /\ SeqsOver(m(t), AllLines)
  BY KeptSeqs
<1>4. m(s \o t) = m(s) \o m(t)
  <2> DEFINE a == m(s)
             b == m(t)
             c == m(s \o t)
             M == Len(s)
             N == Len(t)
  <2>1. /\ M \in Nat /\ N \in Nat /\ Len(s \o t) = M + N
        /\ DOMAIN (s \o t) = 1..(M + N)
        /\ \A i \in 1..(M + N) : (s \o t)[i] = IF i <= M THEN s[i] ELSE t[i - M]
    BY <1>1, ConcatProperties
  <2>2. /\ DOMAIN a = 1..M /\ DOMAIN b = 1..N /\ Len(a) = M /\ Len(b) = N
        /\ \A i \in 1..M : a[i] = Kept(s[i])
        /\ \A i \in 1..N : b[i] = Kept(t[i])
    <3>1. DOMAIN s = 1..M /\ DOMAIN t = 1..N
      OBVIOUS
    <3>2. DOMAIN a = 1..M /\ DOMAIN b = 1..N
      BY <3>1
    <3>3. Len(a) = M /\ Len(b) = N
      <4> HIDE DEF a, b
      <4>1. a \in Seq(Seq(AllLines)) /\ b \in Seq(Seq(AllLines))
        BY <1>3 DEF a, b, SeqsOver
      <4> QED BY <2>1, <3>2, <4>1, LenProperties
    <3> QED BY <3>1, <3>2, <3>3
  <2>3. c = [i \in 1..(M + N) |-> Kept((s \o t)[i])]
    BY <2>1
  <2>4. a \in Seq(Seq(AllLines)) /\ b \in Seq(Seq(AllLines))
    BY <1>3 DEF SeqsOver
  <2> HIDE DEF a, b, c, M, N
  <2>5. /\ a \o b \in Seq(Seq(AllLines)) /\ Len(a \o b) = M + N
        /\ \A i \in 1..(M + N) : (a \o b)[i] = IF i <= M THEN a[i] ELSE b[i - M]
    <3>1. /\ a \o b \in Seq(Seq(AllLines)) /\ Len(a \o b) = Len(a) + Len(b)
          /\ \A i \in 1..Len(a) + Len(b) :
               (a \o b)[i] = IF i <= Len(a) THEN a[i] ELSE b[i - Len(a)]
      BY <2>4, ConcatProperties
    <3> QED BY <2>2, <3>1
  <2>6. a \o b = [i \in 1..(M + N) |-> (a \o b)[i]]
    <3> DEFINE e == a \o b
               Q == Seq(AllLines)
    <3>1. e \in Seq(Q) /\ Len(e) = M + N
      BY <2>5
    <3> HIDE DEF e, Q
    <3>2. e = [i \in 1..(M + N) |-> e[i]]
      BY <3>1
    <3> QED BY <3>2 DEF e
  <2>7. ASSUME NEW i \in 1..(M + N) PROVE Kept((s \o t)[i]) = (a \o b)[i]
    <3>1. CASE i <= M
      <4>1. i \in 1..M
        BY <2>1, <3>1
      <4> QED BY <2>1, <2>2, <2>5, <3>1, <4>1
    <3>2. CASE ~(i <= M)
      <4>1. i - M \in 1..N
        BY <2>1, <3>2
      <4>2. (s \o t)[i] = t[i - M] /\ (a \o b)[i] = b[i - M]
        BY <2>1, <2>5, <3>2
      <4>3. b[i - M] = Kept(t[i - M])
        BY <2>2, <4>1
      <4> QED BY <4>2, <4>3
    <3> QED BY <3>1, <3>2
  <2>8. c = a \o b
    BY <2>3, <2>6, <2>7
  <2> QED BY <2>8 DEF a, b, c
<1> DEFINE a == m(s)
           b == m(t)
<1>5. NonBlank(s \o t) = FlattenSeq(a \o b) /\ SeqsOver(a, AllLines)
      /\ NonBlank(s) = FlattenSeq(a) /\ NonBlank(t) = FlattenSeq(b)
      /\ SeqsOver(b, AllLines)
  BY <1>2, <1>3, <1>4
<1> HIDE DEF a, b
<1> QED BY <1>1, <1>5, FlattenConcat

LEMMA NonBlankOne ==
  ASSUME NEW x \in AllLines
  PROVE  NonBlank(<<x>>) = Kept(x) /\ <<x>> \in Seq(AllLines)
<1>1. [i \in DOMAIN <<x>> |-> Kept(<<x>>[i])] = <<Kept(x)>>
  OBVIOUS
<1>2. NonBlank(<<x>>) = FlattenSeq(<<Kept(x)>>)
  BY <1>1 DEF NonBlank, Kept
<1>3. Kept(x) \in Seq(AllLines)
  BY DEF Kept
<1> QED BY <1>2, <1>3, FlattenOne

LEMMA LineIsLines ==
  ASSUME NEW x \in AllLines
  PROVE  <<x>> \in Seq(AllLines)
  OBVIOUS

LEMMA LinesConcat ==
  ASSUME NEW A \in Seq(AllLines), NEW B \in Seq(AllLines), NEW C \in Seq(AllLines)
  PROVE  /\ (A \o B) \o C = A \o (B \o C) /\ A \o (B \o C) \in Seq(AllLines)
         /\ A \o B \in Seq(AllLines) /\ A \o << >> = A
         /\ (A \o (B \o C)) \o << >> = A \o (B \o C)
         /\ (A \o B) \o << >> = A \o B
<1>1. A \o B \in Seq(AllLines) /\ B \o C \in Seq(AllLines)
  BY ConcatProperties
<1>2. A \o (B \o C) \in Seq(AllLines)
  BY <1>1, ConcatProperties
<1>3. (A \o B) \o C = A \o (B \o C)
  BY ConcatAssociative
<1> QED BY <1>1, <1>2, <1>3, ConcatEmptySeq

LEMMA LinesAssociative ==
  \A A, B, C \in Seq(AllLines) : (A \o B) \o C = A \o (B \o C)
BY ConcatAssociative

LEMMA NonBlankNone == NonBlank(<< >>) = << >>
<1>1. [i \in DOMAIN << >> |-> Kept(<< >>[i])] = << >>
  OBVIOUS
<1> QED BY <1>1, FlattenNone DEF NonBlank, Kept

---------------------------------------------------------------------------
(* The lines of a record *)

LEMMA ItemLines ==
  ASSUME NEW x \in Items
  PROVE  /\ WriteItem(x) \in Seq(AllLines)
         /\ x.k = "comment" => x \in [k : {"comment"}, texts : Seq(Contents)]
         /\ x.k = "field" => WriteItem(x) = <<FieldLine(x.n, x.v)>>
<1>1. CASE x.k = "field"
  <2>1. FieldLine(x.n, x.v) \in AllLines
    BY <1>1 DEF Items, AllLines, FieldLine
  <2> QED BY <1>1, <2>1 DEF WriteItem
<1>2. CASE x.k # "field"
  <2>1. x \in [k : {"comment"}, texts : Seq(Contents)]
    BY <1>2 DEF Items
  <2>2. \A i \in DOMAIN x.texts : CommentLine(x.texts[i]) \in AllLines
    BY <2>1 DEF CommentLine, AllLines
  <2>3. WriteItem(x) \in [1..Len(x.texts) -> AllLines]
    BY <1>2, <2>1, <2>2 DEF WriteItem
  <2> QED BY <1>2, <2>1, <2>3
<1> QED BY <1>1, <1>2

ItemsMap(items) == [i \in DOMAIN items |-> WriteItem(items[i])]

LEMMA ItemsSeqs ==
  ASSUME NEW items \in Seq(Items)
  PROVE  /\ SeqsOver(ItemsMap(items), AllLines)
         /\ Len(ItemsMap(items)) = Len(items)
<1>1. \A i \in 1..Len(items) : items[i] \in Items
  OBVIOUS
<1> DEFINE r == ItemsMap(items)
           Q == Seq(AllLines)
<1>2. Len(items) \in Nat /\ r \in [1..Len(items) -> Q]
  BY <1>1, ItemLines DEF ItemsMap
<1>3. r \in Seq(Q) /\ Len(r) = Len(items)
  <2> HIDE DEF r, Q
  <2> QED BY <1>2
<1> QED BY <1>3 DEF SeqsOver

LEMMA ItemsMapAppend ==
  ASSUME NEW items \in Seq(Items), NEW x \in Items
  PROVE  ItemsMap(Append(items, x)) = Append(ItemsMap(items), WriteItem(x))
<1> DEFINE a == ItemsMap(items)
           b == ItemsMap(Append(items, x))
           e == WriteItem(x)
           N == Len(items)
<1>1. SeqsOver(a, AllLines) /\ e \in Seq(AllLines) /\ Len(a) = N /\ N \in Nat
  BY ItemsSeqs, ItemLines
<1>2. /\ DOMAIN Append(items, x) = 1..(N + 1) /\ DOMAIN items = 1..N
      /\ Append(items, x)[N + 1] = x
      /\ \A i \in 1..N : Append(items, x)[i] = items[i]
  OBVIOUS
<1>3. b = [i \in 1..(N + 1) |-> b[i]] /\ b[N + 1] = e
      /\ \A i \in 1..N : b[i] = a[i]
  BY <1>1, <1>2 DEF ItemsMap
<1> HIDE DEF a, b, e, N
<1>4. b = Append(a, e)
  <2>1. IsAppend(b, a, e)
    BY <1>1, <1>3 DEF IsAppend
  <2> QED BY <1>1, <2>1, SeqsAppendIs
<1> QED BY <1>4 DEF a, b, e

\* The lines of a record that are not empty, which are those of its items.
RecordLines(items) == NonBlank(WriteRecord(items))

LEMMA BlankIsLine == Blank \in AllLines /\ Kept(Blank) = << >>
  BY DEF AllLines, Kept

LEMMA RecordLinesAre ==
  ASSUME NEW items \in Seq(Items)
  PROVE  /\ WriteRecord(items) \in Seq(AllLines)
         /\ RecordLines(items) \in Seq(AllLines)
         /\ RecordLines(items) = NonBlank(FlattenSeq(ItemsMap(items)))
         /\ FlattenSeq(ItemsMap(items)) \in Seq(AllLines)
<1>1. FlattenSeq(ItemsMap(items)) \in Seq(AllLines)
  BY ItemsSeqs, FlattenConcat
<1>2. CASE items = << >>
  <2>1. ItemsMap(items) = << >>
    BY <1>2 DEF ItemsMap
  <2>2. FlattenSeq(ItemsMap(items)) = << >>
    BY <2>1, FlattenNone
  <2>3. NonBlank(FlattenSeq(ItemsMap(items))) = << >>
    BY <2>2, NonBlankNone
  <2>4. WriteRecord(items) = <<Blank>>
    BY <1>2 DEF WriteRecord
  <2>5. RecordLines(items) = << >>
    BY <2>4, BlankIsLine, NonBlankOne DEF RecordLines
  <2>6. WriteRecord(items) \in Seq(AllLines) /\ << >> \in Seq(AllLines)
    BY <2>4, BlankIsLine
  <2> QED BY <1>1, <2>3, <2>5, <2>6
<1>3. CASE items # << >>
  <2>1. WriteRecord(items) = FlattenSeq(ItemsMap(items))
    BY <1>3 DEF WriteRecord, ItemsMap
  <2> QED BY <1>1, <2>1, NonBlankConcat DEF RecordLines
<1> QED BY <1>2, <1>3

LEMMA RecordAppend ==
  ASSUME NEW items \in Seq(Items), NEW x \in Items
  PROVE  RecordLines(Append(items, x)) =
           RecordLines(items) \o NonBlank(WriteItem(x))
<1> DEFINE a == FlattenSeq(ItemsMap(items))
           e == WriteItem(x)
<1>1. Append(items, x) \in Seq(Items)
  OBVIOUS
<1>2. FlattenSeq(ItemsMap(Append(items, x))) = a \o e
  <2> DEFINE m == ItemsMap(items)
  <2>1. ItemsMap(Append(items, x)) = Append(m, e)
    BY ItemsMapAppend
  <2>2. SeqsOver(m, AllLines) /\ e \in Seq(AllLines)
    BY ItemsSeqs, ItemLines
  <2> HIDE DEF m, e
  <2>3. FlattenSeq(Append(m, e)) = FlattenSeq(m) \o e
    BY <2>2, FlattenAppend
  <2> QED BY <2>1, <2>3 DEF m
<1>3. a \in Seq(AllLines) /\ e \in Seq(AllLines)
  BY RecordLinesAre, ItemLines
<1>4. NonBlank(a \o e) = NonBlank(a) \o NonBlank(e)
  BY <1>3, NonBlankConcat
<1> QED BY <1>1, <1>2, <1>4, RecordLinesAre

\* A comment that is continued by a line.
LEMMA CommentContinued ==
  ASSUME NEW x \in [k : {"comment"}, texts : Seq(Contents)], NEW v \in Contents
  PROVE  /\ [x EXCEPT !.texts = Append(@, v)]
               \in [k : {"comment"}, texts : Seq(Contents)]
         /\ CommentLine(v) \in AllLines
         /\ NonBlank(<<CommentLine(v)>>) = <<CommentLine(v)>>
         /\ NonBlank(WriteItem([x EXCEPT !.texts = Append(@, v)])) =
              NonBlank(WriteItem(x)) \o <<CommentLine(v)>>
<1> DEFINE y == [x EXCEPT !.texts = Append(@, v)]
           a == WriteItem(x)
           b == WriteItem(y)
           e == CommentLine(v)
           N == Len(x.texts)
<1>1. y \in [k : {"comment"}, texts : Seq(Contents)] /\ y.texts = Append(x.texts, v)
  BY SMTT(30)
<1>2. e \in AllLines /\ e # Blank
  BY DEF AllLines, CommentLine, Blank
<1>3. x \in Items /\ y \in Items
  BY <1>1 DEF Items
<1>0. x.k # "field" /\ y.k # "field" /\ x.texts \in Seq(Contents)
  BY <1>1
<1>4. a = [i \in 1..N |-> CommentLine(x.texts[i])]
  BY <1>0 DEF WriteItem
<1>5. b = [i \in 1..(N + 1) |-> CommentLine(Append(x.texts, v)[i])]
  <2>1. DOMAIN Append(x.texts, v) = 1..(N + 1)
    BY <1>0
  <2> HIDE DEF N, y
  <2> QED BY <1>0, <1>1, <2>1 DEF WriteItem
<1>51. /\ Append(x.texts, v)[N + 1] = v
       /\ \A i \in 1..N : Append(x.texts, v)[i] = x.texts[i]
  BY <1>0
<1>6. a \in Seq(AllLines) /\ Len(a) = N /\ N \in Nat
  <2>1. a \in Seq(AllLines) /\ N \in Nat
    BY <1>3, ItemLines
  <2> HIDE DEF N, a
  <2> QED BY <1>4, <2>1
<1>7. b = [i \in 1..(N + 1) |-> b[i]] /\ b[N + 1] = e
      /\ \A i \in 1..N : b[i] = a[i]
  <2> DEFINE u == Append(x.texts, v)
             w == x.texts
  <2>1. b = [i \in 1..(N + 1) |-> CommentLine(u[i])] /\ u[N + 1] = v
        /\ a = [i \in 1..N |-> CommentLine(w[i])] /\ N \in Nat
        /\ \A i \in 1..N : u[i] = w[i]
    BY <1>4, <1>5, <1>51, <1>6
  <2> HIDE DEF a, b, N, u, w, y
  <2> QED BY <2>1
<1> HIDE DEF a, b, e, N, y
<1>8. b = a \o <<e>>
  <2>1. IsAppend(b, a, e)
    BY <1>6, <1>7 DEF IsAppend
  <2> QED BY <1>2, <1>6, <2>1, AppendIs
<1>9. <<e>> \in Seq(AllLines)
  BY <1>2
<1>10. NonBlank(<<e>>) = <<e>>
  BY <1>2, NonBlankOne DEF Kept
<1>11. NonBlank(b) = NonBlank(a) \o <<e>>
  <2> DEFINE f == <<e>>
  <2>1. a \in Seq(AllLines) /\ f \in Seq(AllLines) /\ b = a \o f
    BY <1>6, <1>8, <1>9
  <2>2. NonBlank(f) = f
    BY <1>10
  <2> HIDE DEF f
  <2>3. NonBlank(a \o f) = NonBlank(a) \o NonBlank(f)
    BY <2>1, NonBlankConcat
  <2>4. NonBlank(b) = NonBlank(a) \o f
    BY <2>1, <2>2, <2>3
  <2> QED BY <2>4 DEF f
<1> QED BY <1>1, <1>2, <1>10, <1>11 DEF a, b, e, y

\* A comment of one line.
LEMMA CommentStarted ==
  ASSUME NEW v \in Contents
  PROVE  /\ Comment(<<v>>) \in [k : {"comment"}, texts : Seq(Contents)]
         /\ Comment(<<v>>) \in Items
         /\ NonBlank(WriteItem(Comment(<<v>>))) = <<CommentLine(v)>>
<1>1. Comment(<<v>>) \in [k : {"comment"}, texts : Seq(Contents)]
  BY DEF Comment
<1>2. CommentLine(v) \in AllLines /\ CommentLine(v) # Blank
  BY DEF AllLines, CommentLine, Blank
<1>3. WriteItem(Comment(<<v>>)) = <<CommentLine(v)>>
  BY DEF WriteItem, Comment
<1>4. NonBlank(<<CommentLine(v)>>) = <<CommentLine(v)>>
  BY <1>2, NonBlankOne DEF Kept
<1> QED BY <1>1, <1>3, <1>4 DEF Items

\* A comment line behind the first field of a record (rec_parse_record).
LEMMA RecordAddText ==
  ASSUME NEW items \in Seq(Items), items # << >>, NEW c \in BOOLEAN,
         c => items[Len(items)].k = "comment", NEW v \in Contents
  PROVE  LET r == AddText(items, c, v)
         IN /\ r \in Seq(Items) /\ r # << >>
            /\ r[Len(r)].k = "comment" /\ r[1].k = items[1].k
            /\ RecordLines(r) = RecordLines(items) \o <<CommentLine(v)>>
<1> DEFINE r == AddText(items, c, v)
<1> SUFFICES /\ r \in Seq(Items) /\ r # << >>
             /\ r[Len(r)].k = "comment" /\ r[1].k = items[1].k
             /\ RecordLines(r) = RecordLines(items) \o <<CommentLine(v)>>
  OBVIOUS
<1>0. Len(items) \in Nat \ {0}
  BY EmptySeq
<1>1. CASE ~c
  <2> DEFINE e == Comment(<<v>>)
  <2>1. r = Append(items, e)
    BY <1>1 DEF AddText
  <2>2. e \in Items /\ e.k = "comment"
    BY CommentStarted
  <2>3. NonBlank(WriteItem(e)) = <<CommentLine(v)>>
    BY CommentStarted
  <2> HIDE DEF e, r
  <2>4. RecordLines(r) = RecordLines(items) \o <<CommentLine(v)>>
    BY <2>1, <2>2, <2>3, RecordAppend
  <2>5. /\ r \in Seq(Items) /\ r # << >> /\ Len(r) = Len(items) + 1
        /\ r[Len(items) + 1] = e /\ r[1] = items[1]
    BY <1>0, <2>1, <2>2, AppendProperties
  <2> QED BY <2>2, <2>4, <2>5
<1>2. CASE c
  <2> DEFINE x == items[Len(items)]
             y == [x EXCEPT !.texts = Append(@, v)]
  <2>1. x \in [k : {"comment"}, texts : Seq(Contents)]
    <3>1. x \in Items
      BY <1>0
    <3> HIDE DEF x
    <3> QED BY <1>2, <3>1, ItemLines DEF x
  <2>2. y \in [k : {"comment"}, texts : Seq(Contents)]
        /\ NonBlank(WriteItem(y)) = NonBlank(WriteItem(x)) \o <<CommentLine(v)>>
        /\ CommentLine(v) \in AllLines
    <3> HIDE DEF x
    <3> QED BY <2>1, CommentContinued
  <2>3. y \in Items /\ x \in Items
    BY <2>1, <2>2 DEF Items
  <2>4. r = [items EXCEPT ![Len(items)] = y]
    BY <1>2 DEF AddText
  <2>5. PICK f \in Seq(Items) : LastIs(items, f, y)
    <3> HIDE DEF y
    <3> QED BY <2>3, LastReplaced
  <2>6. x.k = "comment" /\ y.k = "comment"
    BY <2>1, <2>2
  <2> HIDE DEF x, y, r
  <2>7. r = Append(f, y) /\ items = Append(f, x) /\ Len(f) = Len(items) - 1
    BY <2>4, <2>5 DEF LastIs, x
  <2>8. /\ r \in Seq(Items) /\ r # << >> /\ Len(r) = Len(items)
        /\ r[Len(r)] = y
    BY <1>0, <2>3, <2>7, AppendProperties
  <2>9. r[1].k = items[1].k
    <3>1. CASE f = << >>
      <4>1. Len(f) = 0
        BY <3>1
      <4>2. r[1] = y /\ items[1] = x
        BY <2>3, <2>7, <4>1, AppendProperties
      <4> QED BY <2>6, <4>2
    <3>2. CASE f # << >>
      <4>1. 1 \in 1..Len(f)
        BY <3>2, EmptySeq
      <4>2. r[1] = f[1] /\ items[1] = f[1]
        BY <2>3, <2>7, <4>1, AppendProperties
      <4> QED BY <4>2
    <3> QED BY <3>1, <3>2
  <2>10. RecordLines(r) = RecordLines(items) \o <<CommentLine(v)>>
    <3> DEFINE A == RecordLines(f)
               B == NonBlank(WriteItem(x))
               C == <<CommentLine(v)>>
    <3>1. RecordLines(items) = A \o B
      BY <2>3, <2>7, RecordAppend
    <3>2. RecordLines(r) = A \o (B \o C)
      BY <2>2, <2>3, <2>7, RecordAppend
    <3>3. A \in Seq(AllLines) /\ B \in Seq(AllLines) /\ C \in Seq(AllLines)
      <4>1. WriteItem(x) \in Seq(AllLines)
        BY <2>3, ItemLines
      <4>2. A \in Seq(AllLines)
        BY <2>2, RecordLinesAre
      <4>3. B \in Seq(AllLines)
        BY <4>1, NonBlankConcat
      <4>4. C \in Seq(AllLines)
        BY <2>2, LineIsLines
      <4> QED BY <4>2, <4>3, <4>4
    <3> HIDE DEF A, B, C
    <3>4. (A \o B) \o C = A \o (B \o C)
      BY ONLY <3>3, LinesAssociative
    <3>5. RecordLines(r) = RecordLines(items) \o C
      BY <3>1, <3>2, <3>4
    <3> QED BY <3>5 DEF C
  <2> QED BY <2>6, <2>8, <2>9, <2>10
<1> QED BY <1>1, <1>2

---------------------------------------------------------------------------
(* The lines of a record set *)

LEMMA RsetFacts ==
  ASSUME NEW r \in Rsets
  PROVE  /\ r.elems \in Seq(Elems) /\ r.dpos \in Nat /\ Len(r.elems) \in Nat
         /\ r.dpos <= Len(r.elems)
         /\ r.desc # None => r.desc \in Seq(Items) /\ HasField(r.desc, REC)
         /\ r = [desc |-> r.desc, dpos |-> r.dpos, elems |-> r.elems]
  BY DEF Rsets, Descs

LEMMA RsetIs ==
  ASSUME NEW d \in {None} \cup Descs, NEW n \in Nat, NEW s \in Seq(Elems),
         n <= Len(s)
  PROVE  [desc |-> d, dpos |-> n, elems |-> s] \in Rsets
  BY DEF Rsets

LEMMA SameRset ==
  ASSUME NEW r \in Rsets, NEW q \in [desc : {None} \cup Descs, dpos : Nat,
                                    elems : Seq(Elems)],
         q.desc = r.desc, q.dpos = r.dpos, q.elems = r.elems
  PROVE  q = r
  BY DEF Rsets

LEMMA ElemLines ==
  ASSUME NEW x \in Elems
  PROVE  /\ WriteElem(x) \in Seq(AllLines)
         /\ NonBlank(WriteElem(x)) \in Seq(AllLines)
<1>1. CASE x.k = "record"
  <2>1. x.items \in Seq(Items)
    BY <1>1 DEF Elems
  <2>2. WriteElem(x) = WriteRecord(x.items)
    BY <1>1 DEF WriteElem
  <2> QED BY <2>1, <2>2, RecordLinesAre, NonBlankConcat
<1>2. CASE x.k # "record"
  <2>1. x \in Items
    BY <1>2 DEF Elems, Items
  <2>2. WriteElem(x) = WriteItem(x)
    BY <1>2 DEF WriteElem
  <2> QED BY <2>1, <2>2, ItemLines, NonBlankConcat
<1> QED BY <1>1, <1>2

\* The descriptor in the lines of a record set, and those lines.
DescLines(r, i) ==
  IF i - 1 = r.dpos /\ r.desc # None THEN RecordLines(r.desc) ELSE << >>
RsetLines(r) == NonBlank(WriteRset(r))

LEMMA NoLines == << >> \in Seq(AllLines) /\ NonBlank(<< >>) = << >>
  BY NonBlankNone, EmptySeq

LEMMA BlankLines ==
  ASSUME NEW s \in Seq(AllLines)
  PROVE  /\ s \o <<Blank>> \in Seq(AllLines) /\ <<Blank>> \in Seq(AllLines)
         /\ NonBlank(<<Blank>>) = << >>
         /\ NonBlank(s \o <<Blank>>) = NonBlank(s)
<1> DEFINE b == <<Blank>>
<1>1. b \in Seq(AllLines) /\ NonBlank(b) = << >>
  BY BlankIsLine, NonBlankOne
<1> HIDE DEF b
<1>2. s \o b \in Seq(AllLines) /\ NonBlank(s) \in Seq(AllLines)
      /\ NonBlank(s \o b) = NonBlank(s) \o NonBlank(b)
  BY <1>1, NonBlankConcat
<1>3. NonBlank(s) \o << >> = NonBlank(s)
  BY <1>2, ConcatEmptySeq
<1> QED BY <1>1, <1>2, <1>3 DEF b

LEMMA HereLines ==
  ASSUME NEW r \in Rsets, NEW i \in 1..Len(r.elems)
  PROVE  /\ Here(r, i) \in Seq(AllLines)
         /\ DescLines(r, i) \in Seq(AllLines)
         /\ NonBlank(Here(r, i)) =
              DescLines(r, i) \o NonBlank(WriteElem(r.elems[i]))
<1> DEFINE g == Gap(i)
           d == DescAt(r, i)
           e == WriteElem(r.elems[i])
<1>1. g \in Seq(AllLines) /\ NonBlank(g) = << >>
  BY NoLines, BlankLines DEF Gap
<1>2. d \in Seq(AllLines) /\ NonBlank(d) = DescLines(r, i)
  <2>1. CASE i - 1 = r.dpos /\ r.desc # None
    <3>1. r.desc \in Seq(Items)
      BY <2>1, RsetFacts
    <3>2. d = WriteRecord(r.desc) \o <<Blank>>
          /\ DescLines(r, i) = RecordLines(r.desc)
      BY <2>1 DEF DescAt, DescLines
    <3>3. WriteRecord(r.desc) \in Seq(AllLines)
      BY <3>1, RecordLinesAre
    <3> QED BY <3>2, <3>3, BlankLines DEF RecordLines
  <2>2. CASE ~(i - 1 = r.dpos /\ r.desc # None)
    BY <2>2, NoLines DEF DescAt, DescLines
  <2> QED BY <2>1, <2>2
<1>3. e \in Seq(AllLines)
  <2>1. r.elems[i] \in Elems
    BY RsetFacts
  <2> QED BY <2>1, ElemLines
<1>4. Here(r, i) = g \o d \o e
  BY DEF Here
<1> HIDE DEF g, d, e
<1>5. g \o d \in Seq(AllLines) /\ NonBlank(g \o d) = NonBlank(d)
  <2>1. g \o d \in Seq(AllLines) /\ NonBlank(g \o d) = << >> \o NonBlank(d)
        /\ NonBlank(d) \in Seq(AllLines)
    BY <1>1, <1>2, NonBlankConcat
  <2> QED BY <2>1, ConcatEmptySeq
<1>6. /\ (g \o d) \o e \in Seq(AllLines)
      /\ NonBlank((g \o d) \o e) = NonBlank(d) \o NonBlank(e)
  BY <1>3, <1>5, NonBlankConcat
<1>7. NonBlank(d) \in Seq(AllLines)
  BY <1>2, NonBlankConcat
<1> QED BY <1>2, <1>4, <1>6, <1>7 DEF e

LEMMA RsetSeqs ==
  ASSUME NEW r \in Rsets
  PROVE  /\ SeqsOver(RsetMap(r), AllLines)
         /\ Len(RsetMap(r)) = Len(r.elems)
         /\ FlattenSeq(RsetMap(r)) \in Seq(AllLines)
<1> DEFINE m == RsetMap(r)
           Q == Seq(AllLines)
           N == Len(r.elems)
<1>1. N \in Nat /\ DOMAIN r.elems = 1..N
  BY RsetFacts
<1>2. \A i \in 1..N : Here(r, i) \in Q
  BY HereLines
<1>3. m \in [1..N -> Q]
  <2> HIDE DEF Q, N
  <2> QED BY <1>1, <1>2 DEF RsetMap
<1>4. m \in Seq(Q) /\ Len(m) = N
  <2> HIDE DEF m, Q, N
  <2> QED BY <1>1, <1>3
<1>5. SeqsOver(m, AllLines)
  BY <1>4 DEF SeqsOver
<1> QED BY <1>4, <1>5, FlattenConcat

\* The descriptor comes behind the elements if its place is there.
LEMMA RsetLinesAre ==
  ASSUME NEW r \in Rsets
  PROVE  /\ WriteRset(r) \in Seq(AllLines) /\ RsetLines(r) \in Seq(AllLines)
         /\ RsetLines(r) =
              NonBlank(FlattenSeq(RsetMap(r))) \o DescLines(r, Len(r.elems) + 1)
         /\ DescLines(r, Len(r.elems) + 1) \in Seq(AllLines)
<1> DEFINE b == FlattenSeq(RsetMap(r))
           w == WriteRecord(r.desc)
           N == Len(r.elems)
           t == DescLines(r, N + 1)
<1>0. N \in Nat /\ r.dpos \in Nat /\ r.dpos <= N
  BY RsetFacts
<1>1. b \in Seq(AllLines) /\ NonBlank(b) \in Seq(AllLines)
  BY RsetSeqs, NonBlankConcat
<1>2. CASE r.desc # None /\ r.dpos = N
  <2>1. w \in Seq(AllLines)
    BY <1>2, RsetFacts, RecordLinesAre
  <2>2. t = NonBlank(w) /\ t \in Seq(AllLines)
    <3>1. t = NonBlank(w)
      BY <1>0, <1>2 DEF DescLines, RecordLines
    <3> QED BY <2>1, <3>1, NonBlankConcat
  <2>3. CASE N = 0
    <3>1. WriteRset(r) = w
      BY <1>2, <2>3, WriteRsetIs
    <3>2. b = << >>
      <4>1. DOMAIN r.elems = {}
        BY <2>3, RsetFacts
      <4>2. RsetMap(r) = << >>
        BY <4>1 DEF RsetMap
      <4> QED BY <4>2, FlattenNone
    <3>3. NonBlank(b) \o t = t
      BY <2>2, <3>2, NoLines, ConcatEmptySeq
    <3> QED BY <2>1, <2>2, <3>1, <3>3 DEF RsetLines
  <2>4. CASE N # 0
    <3>1. WriteRset(r) = b \o <<Blank>> \o w
      BY <1>0, <1>2, <2>4, WriteRsetIs
    <3> DEFINE c == b \o <<Blank>>
    <3>2. c \in Seq(AllLines) /\ NonBlank(c) = NonBlank(b)
      BY <1>1, BlankLines
    <3>3. WriteRset(r) = c \o w
      BY <3>1
    <3> HIDE DEF c, w, b, t
    <3>4. c \o w \in Seq(AllLines) /\ NonBlank(c \o w) = NonBlank(c) \o NonBlank(w)
      BY <2>1, <3>2, NonBlankConcat
    <3>5. RsetLines(r) = NonBlank(b) \o t /\ WriteRset(r) \in Seq(AllLines)
      BY <2>2, <3>2, <3>3, <3>4 DEF RsetLines
    <3>6. RsetLines(r) \in Seq(AllLines)
      BY <1>1, <2>2, <3>5, ConcatProperties
    <3> QED BY <2>2, <3>5, <3>6 DEF b, t
  <2> QED BY <2>3, <2>4
<1>3. CASE ~(r.desc # None /\ r.dpos = N)
  <2>1. t = << >>
    BY <1>0, <1>3 DEF DescLines
  <2>2. WriteRset(r) = b
    BY <1>0, <1>3, WriteRsetIs
  <2>3. NonBlank(b) \o t = NonBlank(b) /\ t \in Seq(AllLines)
    BY <1>1, <2>1, NoLines, ConcatEmptySeq
  <2> QED BY <1>1, <2>2, <2>3 DEF RsetLines
<1> QED BY <1>2, <1>3

\* An element behind the others (rec_mset_append in rec_parse_rset).
WithElems(r, s) == [desc |-> r.desc, dpos |-> r.dpos, elems |-> s]

LEMMA RsetAppend ==
  ASSUME NEW r \in Rsets, NEW e \in Elems
  PROVE  LET q == WithElems(r, Append(r.elems, e))
         IN /\ q \in Rsets
            /\ RsetLines(q) = RsetLines(r) \o NonBlank(WriteElem(e))
<1> DEFINE q == WithElems(r, Append(r.elems, e))
           N == Len(r.elems)
           a == RsetMap(r)
           b == RsetMap(q)
           h == Here(q, N + 1)
<1>1. /\ r.elems \in Seq(Elems) /\ r.dpos \in Nat /\ N \in Nat /\ r.dpos <= N
      /\ r.desc \in {None} \cup Descs
  BY RsetFacts DEF Rsets
<1>2. /\ Append(r.elems, e) \in Seq(Elems) /\ Len(Append(r.elems, e)) = N + 1
      /\ \A i \in 1..N : Append(r.elems, e)[i] = r.elems[i]
      /\ Append(r.elems, e)[N + 1] = e
  BY <1>1, AppendProperties
<1>3. q \in Rsets
  <2>1. r.dpos <= N + 1
    BY <1>1
  <2> QED BY <1>1, <1>2, <2>1, RsetIs DEF WithElems
<1>4. q.desc = r.desc /\ q.dpos = r.dpos /\ q.elems = Append(r.elems, e)
  BY DEF WithElems
<1> HIDE DEF q
<1>5. SeqsOver(a, AllLines) /\ Len(a) = N /\ h \in Seq(AllLines)
  <2>1. N + 1 \in 1..Len(q.elems)
    BY <1>1, <1>2, <1>4
  <2> QED BY <1>3, <2>1, RsetSeqs, HereLines
<1>6. IsAppend(b, a, h)
  <2>1. DOMAIN r.elems = 1..N /\ DOMAIN q.elems = 1..(N + 1)
    BY <1>1, <1>2, <1>4
  <2>2. \A i \in 1..N : Here(q, i) = Here(r, i)
    BY <1>2, <1>4 DEF Here, DescAt
  <2>3. a = [i \in 1..N |-> Here(r, i)] /\ b = [i \in 1..(N + 1) |-> Here(q, i)]
    BY <2>1 DEF RsetMap
  <2>4. b[N + 1] = h /\ (\A i \in 1..N : b[i] = a[i])
        /\ b = [i \in 1..(N + 1) |-> b[i]]
    <3> HIDE DEF N, a, b
    <3> QED BY <1>1, <2>2, <2>3
  <2> HIDE DEF N, a, b, h
  <2> QED BY <1>5, <2>4 DEF IsAppend
<1> HIDE DEF a, b, h
<1>7. b = Append(a, h)
  BY <1>5, <1>6, SeqsAppendIs
<1>8. FlattenSeq(b) = FlattenSeq(a) \o h /\ FlattenSeq(a) \in Seq(AllLines)
  BY <1>5, <1>7, FlattenAppend
<1> DEFINE A == NonBlank(FlattenSeq(a))
           D == DescLines(r, N + 1)
           E == NonBlank(WriteElem(e))
<1>9. NonBlank(h) = D \o E
  <2>1. N + 1 \in 1..Len(q.elems) /\ q.elems[N + 1] = e
    BY <1>1, <1>2, <1>4
  <2>2. DescLines(q, N + 1) = D
    BY <1>4 DEF DescLines
  <2> QED BY <1>3, <2>1, <2>2, HereLines DEF h
<1>10. A \in Seq(AllLines) /\ D \in Seq(AllLines) /\ E \in Seq(AllLines)
       /\ RsetLines(r) = A \o D
  BY <1>8, RsetLinesAre, ElemLines, NonBlankConcat DEF a
<1>11. RsetLines(q) = A \o (D \o E)
  <2>1. DescLines(q, Len(q.elems) + 1) = << >>
    <3>1. ~(Len(q.elems) + 1 - 1 = q.dpos)
      BY <1>1, <1>2, <1>4
    <3> QED BY <3>1 DEF DescLines
  <2>2. NonBlank(FlattenSeq(b)) = A \o (D \o E)
    BY <1>5, <1>8, <1>9, NonBlankConcat
  <2>3. RsetLines(q) = (A \o (D \o E)) \o << >>
    BY <1>3, <2>1, <2>2, RsetLinesAre DEF b
  <2> HIDE DEF A, D, E
  <2>4. A \o (D \o E) \in Seq(AllLines)
    BY <1>10, ConcatProperties
  <2> QED BY <2>3, <2>4, ConcatEmptySeq
<1>12. RsetLines(q) = RsetLines(r) \o E
  <2> HIDE DEF A, D, E
  <2>1. A \o (D \o E) = (A \o D) \o E
    BY <1>10, ConcatAssociative
  <2> QED BY <1>10, <1>11, <2>1
<1> QED BY <1>3, <1>12 DEF q

\* The first descriptor of a record set, behind the comments before it.
LEMMA RsetDescribed ==
  ASSUME NEW r \in Rsets, r.desc = None, NEW d \in Descs, d # None
  PROVE  LET q == [desc |-> d, dpos |-> Len(r.elems), elems |-> r.elems]
         IN /\ q \in Rsets
            /\ RsetLines(q) = RsetLines(r) \o RecordLines(d)
<1> DEFINE q == [desc |-> d, dpos |-> Len(r.elems), elems |-> r.elems]
           N == Len(r.elems)
<1>1. r.elems \in Seq(Elems) /\ N \in Nat
  BY RsetFacts
<1>2. q \in Rsets
  BY <1>1, RsetIs
<1>3. q.desc = d /\ q.dpos = N /\ q.elems = r.elems
  OBVIOUS
<1> HIDE DEF q
<1>4. RsetMap(q) = RsetMap(r)
  <2>1. DOMAIN r.elems = 1..N
    BY <1>1
  <2>2. ASSUME NEW i \in 1..N PROVE Here(q, i) = Here(r, i)
    <3>1. i - 1 # N
      BY <1>1
    <3>2. DescAt(q, i) = << >> /\ DescAt(r, i) = << >>
      BY <1>3, <3>1 DEF DescAt
    <3> QED BY <1>3, <3>2 DEF Here
  <2> QED BY <1>3, <2>1, <2>2 DEF RsetMap
<1>5. DescLines(q, Len(q.elems) + 1) = RecordLines(d)
      /\ DescLines(r, Len(r.elems) + 1) = << >>
  BY <1>1, <1>3 DEF DescLines
<1> DEFINE A == NonBlank(FlattenSeq(RsetMap(r)))
<1>6. A \in Seq(AllLines)
  BY RsetSeqs, NonBlankConcat
<1>7. RsetLines(r) = A \o << >> /\ RsetLines(q) = A \o RecordLines(d)
  BY <1>2, <1>4, <1>5, RsetLinesAre
<1>8. RsetLines(r) = A
  <2> HIDE DEF A
  <2> QED BY <1>6, <1>7, ConcatEmptySeq
<1> QED BY <1>2, <1>7, <1>8 DEF q

LEMMA NewRsetLines ==
  /\ NewRset(None) \in Rsets /\ RsetLines(NewRset(None)) = << >>
  /\ \A d \in Descs : d # None =>
       NewRset(d) \in Rsets /\ RsetLines(NewRset(d)) = RecordLines(d)
<1> DEFINE r == NewRset(None)
<1>1. r \in Rsets /\ r.elems = << >> /\ r.desc = None
  BY DEF NewRset, Rsets
<1>2. RsetLines(r) = << >>
  <2>1. RsetMap(r) = << >>
    BY <1>1 DEF RsetMap
  <2>2. WriteRset(r) = << >>
    BY <1>1, <2>1, WriteRsetIs, FlattenNone
  <2> QED BY <2>2, NoLines DEF RsetLines
<1>3. ASSUME NEW d \in Descs, d # None
      PROVE  NewRset(d) \in Rsets /\ RsetLines(NewRset(d)) = RecordLines(d)
  <2>1. [desc |-> d, dpos |-> Len(r.elems), elems |-> r.elems] = NewRset(d)
    BY <1>1 DEF NewRset
  <2>2. NewRset(d) \in Rsets /\ RsetLines(NewRset(d)) = << >> \o RecordLines(d)
    <3> HIDE DEF r
    <3> QED BY <1>1, <1>2, <1>3, <2>1, RsetDescribed
  <2>3. RecordLines(d) \in Seq(AllLines)
    BY RecordLinesAre DEF Descs
  <2> QED BY <2>2, <2>3, ConcatEmptySeq
<1> QED BY <1>1, <1>2, <1>3

HasRecord(s) == \E i \in DOMAIN s : s[i].k = "record"

LEMMA NumRecordsIs ==
  ASSUME NEW r \in Rsets
  PROVE  /\ NumRecords(r) = 0 <=> ~HasRecord(r.elems)
         /\ NumRecords(r) > 0 <=> HasRecord(r.elems)
<1> DEFINE T == {i \in DOMAIN r.elems : r.elems[i].k = "record"}
<1>1. T \subseteq 1..Len(r.elems) /\ Len(r.elems) \in Nat
  BY RsetFacts
<1>2. IsFiniteSet(T)
  <2> HIDE DEF T
  <2>1. IsFiniteSet(1..Len(r.elems))
    BY <1>1, FS_Interval
  <2>2. T \in SUBSET (1..Len(r.elems))
    BY <1>1
  <2> QED BY <2>1, <2>2, FS_Subset
<1>3. NumRecords(r) = Cardinality(T)
  BY DEF NumRecords
<1>4. HasRecord(r.elems) <=> T # {}
  BY DEF HasRecord
<1> HIDE DEF T
<1>5. Cardinality(T) \in Nat /\ (Cardinality(T) = 0 <=> T = {})
  BY <1>2, FS_CardinalityType, FS_EmptySet
<1> QED BY <1>3, <1>4, <1>5

LEMMA HasRecordAppend ==
  ASSUME NEW s \in Seq(Elems), NEW e \in Elems
  PROVE  HasRecord(Append(s, e)) <=> HasRecord(s) \/ e.k = "record"
<1>1. /\ DOMAIN Append(s, e) = 1..(Len(s) + 1) /\ DOMAIN s = 1..Len(s)
      /\ \A i \in 1..Len(s) : Append(s, e)[i] = s[i]
      /\ Append(s, e)[Len(s) + 1] = e /\ Len(s) \in Nat
  BY AppendProperties
<1>2. \A i \in 1..(Len(s) + 1) : i \in 1..Len(s) \/ i = Len(s) + 1
  BY <1>1
<1>3. Len(s) + 1 \in 1..(Len(s) + 1) /\ 1..Len(s) \subseteq 1..(Len(s) + 1)
  BY <1>1
<1> DEFINE a == Append(s, e)
           n == Len(s)
<1>4. /\ DOMAIN a = 1..(n + 1) /\ DOMAIN s = 1..n
      /\ \A i \in 1..n : a[i] = s[i]
      /\ a[n + 1] = e
  BY <1>1
<1>5. \A i \in 1..(n + 1) : i \in 1..n \/ i = n + 1
  BY <1>2
<1>6. n + 1 \in 1..(n + 1) /\ 1..n \subseteq 1..(n + 1)
  BY <1>3
<1> HIDE DEF a, n
<1>7. HasRecord(a) <=> HasRecord(s) \/ e.k = "record"
  BY <1>4, <1>5, <1>6 DEF HasRecord
<1> QED BY <1>7 DEF a

LEMMA ElemComment ==
  ASSUME NEW x \in [k : {"comment"}, texts : Seq(Contents)]
  PROVE  x \in Elems /\ x \in Items /\ WriteElem(x) = WriteItem(x)
         /\ x.k # "record"
  BY DEF Elems, Items, WriteElem

\* A comment line between records (rec_parse_rset), which continues the last
\* comment only if no descriptor has come behind it.
LEMMA RsetAddText ==
  ASSUME NEW r \in Rsets, NEW c \in BOOLEAN, NEW v \in Contents,
         c => /\ r.elems # << >> /\ r.elems[Len(r.elems)].k = "comment"
              /\ r.dpos < Len(r.elems)
  PROVE  LET s == AddText(r.elems, c, v)
             q == WithElems(r, s)
         IN /\ q \in Rsets /\ s # << >> /\ s[Len(s)].k = "comment"
            /\ r.dpos < Len(s) /\ (HasRecord(s) <=> HasRecord(r.elems))
            /\ RsetLines(q) = RsetLines(r) \o <<CommentLine(v)>>
<1> DEFINE s == AddText(r.elems, c, v)
           q == WithElems(r, s)
<1> SUFFICES /\ q \in Rsets /\ s # << >> /\ s[Len(s)].k = "comment"
             /\ r.dpos < Len(s) /\ (HasRecord(s) <=> HasRecord(r.elems))
             /\ RsetLines(q) = RsetLines(r) \o <<CommentLine(v)>>
  OBVIOUS
<1>0. /\ r.elems \in Seq(Elems) /\ Len(r.elems) \in Nat
      /\ r.dpos \in Nat /\ r.dpos <= Len(r.elems)
  BY RsetFacts
<1>1. CASE ~c
  <2> DEFINE e == Comment(<<v>>)
  <2>1. s = Append(r.elems, e)
    BY <1>1 DEF AddText
  <2>2. e \in [k : {"comment"}, texts : Seq(Contents)] /\ e.k = "comment"
        /\ NonBlank(WriteItem(e)) = <<CommentLine(v)>>
    BY CommentStarted
  <2> HIDE DEF e
  <2>3. e \in Elems /\ WriteElem(e) = WriteItem(e)
    BY <2>2, ElemComment
  <2> HIDE DEF s
  <2>4. /\ s \in Seq(Elems) /\ s # << >> /\ Len(s) = Len(r.elems) + 1
        /\ s[Len(s)] = e
    BY <1>0, <2>1, <2>3, AppendProperties
  <2>5. q \in Rsets /\ RsetLines(q) = RsetLines(r) \o <<CommentLine(v)>>
    BY <2>1, <2>2, <2>3, RsetAppend
  <2>6. HasRecord(s) <=> HasRecord(r.elems)
    BY <1>0, <2>1, <2>2, <2>3, HasRecordAppend
  <2>7. r.dpos < Len(s)
    BY <1>0, <2>4
  <2> QED BY <2>2, <2>4, <2>5, <2>6, <2>7
<1>2. CASE c
  <2> DEFINE x == r.elems[Len(r.elems)]
             y == [x EXCEPT !.texts = Append(@, v)]
  <2>0. r.elems # << >> /\ x.k = "comment" /\ r.dpos < Len(r.elems)
    BY <1>2
  <2>1. x \in [k : {"comment"}, texts : Seq(Contents)]
    <3>1. x \in Elems
      <4>1. Len(r.elems) \in 1..Len(r.elems)
        BY <1>0, <2>0, EmptySeq
      <4> QED BY <1>0, <4>1
    <3> HIDE DEF x
    <3> QED BY <2>0, <3>1 DEF Elems
  <2>2. y \in [k : {"comment"}, texts : Seq(Contents)]
        /\ NonBlank(WriteItem(y)) = NonBlank(WriteItem(x)) \o <<CommentLine(v)>>
        /\ CommentLine(v) \in AllLines
    <3> HIDE DEF x
    <3> QED BY <2>1, CommentContinued
  <2>3. s = [r.elems EXCEPT ![Len(r.elems)] = y]
    BY <1>2 DEF AddText
  <2>4. x.k = "comment" /\ y.k = "comment"
    BY <2>1, <2>2
  <2> HIDE DEF x, y, s
  <2>5. /\ y \in Elems /\ x \in Elems /\ WriteElem(x) = WriteItem(x)
        /\ WriteElem(y) = WriteItem(y) /\ x.k # "record" /\ y.k # "record"
        /\ WriteItem(x) \in Seq(AllLines)
    BY <2>1, <2>2, ElemComment, ItemLines
  <2>6. PICK f \in Seq(Elems) : LastIs(r.elems, f, y)
    BY <1>0, <2>0, <2>5, LastReplaced
  <2>7. /\ Len(f) = Len(r.elems) - 1 /\ r.elems = Append(f, x)
        /\ s = Append(f, y)
    BY <2>3, <2>6 DEF LastIs, x
  <2>8. /\ s \in Seq(Elems) /\ s # << >> /\ Len(s) = Len(r.elems)
        /\ s[Len(s)] = y
    BY <1>0, <2>5, <2>7, AppendProperties
  <2>9. HasRecord(s) <=> HasRecord(r.elems)
    BY <2>5, <2>7, HasRecordAppend
  <2> DEFINE p == WithElems(r, f)
  <2>10. p \in Rsets /\ p.elems = f
    <3>1. r.dpos <= Len(f)
      BY <1>0, <2>0, <2>7
    <3>2. r.desc \in {None} \cup Descs
      BY DEF Rsets
    <3> QED BY <1>0, <3>1, <3>2, RsetIs DEF WithElems
  <2>11. q = WithElems(p, Append(p.elems, y)) /\ r = WithElems(p, Append(p.elems, x))
    <3>1. r = WithElems(r, r.elems)
      BY RsetFacts DEF WithElems
    <3> QED BY <2>7, <3>1 DEF WithElems
  <2> HIDE DEF p
  <2>12. q \in Rsets /\ RsetLines(q) = RsetLines(r) \o <<CommentLine(v)>>
    <3> DEFINE A == RsetLines(p)
               B == NonBlank(WriteItem(x))
               C == <<CommentLine(v)>>
    <3>1. q \in Rsets /\ RsetLines(q) = A \o (B \o C) /\ RsetLines(r) = A \o B
      <4>1. /\ WithElems(p, Append(p.elems, y)) \in Rsets
            /\ RsetLines(WithElems(p, Append(p.elems, y))) =
                 RsetLines(p) \o NonBlank(WriteElem(y))
        BY <2>5, <2>10, RsetAppend
      <4>2. RsetLines(WithElems(p, Append(p.elems, x))) =
              RsetLines(p) \o NonBlank(WriteElem(x))
        BY <2>5, <2>10, RsetAppend
      <4> HIDE DEF q
      <4>3. q \in Rsets /\ RsetLines(q) = A \o NonBlank(WriteItem(y))
            /\ RsetLines(r) = A \o B
        BY <2>5, <2>11, <4>1, <4>2
      <4> QED BY <2>2, <4>3
    <3>2. A \in Seq(AllLines) /\ B \in Seq(AllLines) /\ C \in Seq(AllLines)
      BY <2>2, <2>5, <2>10, RsetLinesAre, NonBlankConcat
    <3> HIDE DEF A, B, C
    <3>3. (A \o B) \o C = A \o (B \o C)
      BY <3>2, ConcatAssociative
    <3>4. q \in Rsets /\ RsetLines(q) = RsetLines(r) \o C
      BY <3>1, <3>3
    <3> QED BY <3>4 DEF C
  <2> QED BY <2>0, <2>4, <2>8, <2>9, <2>12
<1> QED BY <1>1, <1>2

---------------------------------------------------------------------------
(* The lines of a database *)

DbLines(d) == NonBlank(Write(d))

LEMMA DbSeqs ==
  ASSUME NEW d \in Seq(Rsets)
  PROVE  /\ SeqsOver(DbMap(d), AllLines) /\ Len(DbMap(d)) = Len(d)
         /\ Write(d) = FlattenSeq(DbMap(d)) /\ Write(d) \in Seq(AllLines)
         /\ DbLines(d) \in Seq(AllLines)
<1> DEFINE m == DbMap(d)
           Q == Seq(AllLines)
           N == Len(d)
           g(i) == Gap(i) \o WriteRset(d[i])
<1>1. N \in Nat /\ DOMAIN d = 1..N
  OBVIOUS
<1>2. ASSUME NEW i \in 1..N PROVE g(i) \in Q
  <2>1. d[i] \in Rsets
    OBVIOUS
  <2>2. Gap(i) \in Q
    BY NoLines, BlankLines DEF Gap
  <2> QED BY <2>1, <2>2, RsetLinesAre, NonBlankConcat
<1>3. m = [i \in 1..N |-> g(i)]
  BY <1>1 DEF DbMap, Gap
<1>4. m \in Seq(Q) /\ Len(m) = N
  <2> HIDE DEF m, Q, N, g
  <2>1. m \in [1..N -> Q]
    BY <1>2, <1>3
  <2> QED BY <1>1, <2>1
<1>5. SeqsOver(m, AllLines)
  BY <1>4 DEF SeqsOver
<1>6. Write(d) = FlattenSeq(m)
  BY DEF Write, DbMap
<1>7. FlattenSeq(m) \in Seq(AllLines)
  BY <1>5, FlattenConcat
<1> QED BY <1>4, <1>5, <1>6, <1>7, NonBlankConcat DEF DbLines

LEMMA WriteAppend ==
  ASSUME NEW d \in Seq(Rsets), NEW r \in Rsets
  PROVE  /\ Write(Append(d, r)) = Write(d) \o (Gap(Len(d) + 1) \o WriteRset(r))
         /\ NonBlank(Gap(Len(d) + 1) \o WriteRset(r)) = RsetLines(r)
         /\ Write(d) \in Seq(AllLines)
         /\ Gap(Len(d) + 1) \o WriteRset(r) \in Seq(AllLines)
<1> DEFINE N == Len(d)
           a == DbMap(d)
           b == DbMap(Append(d, r))
           h == Gap(N + 1) \o WriteRset(r)
<1>1. /\ Append(d, r) \in Seq(Rsets) /\ Len(Append(d, r)) = N + 1
      /\ \A i \in 1..N : Append(d, r)[i] = d[i]
      /\ Append(d, r)[N + 1] = r /\ N \in Nat
      /\ DOMAIN Append(d, r) = 1..(N + 1) /\ DOMAIN d = 1..N
  BY AppendProperties
<1>2. h \in Seq(AllLines) /\ NonBlank(h) = RsetLines(r)
  <2> DEFINE g == Gap(N + 1)
             w == WriteRset(r)
  <2>1. g \in Seq(AllLines) /\ NonBlank(g) = << >>
    BY NoLines, BlankLines DEF Gap
  <2>2. w \in Seq(AllLines) /\ NonBlank(w) = RsetLines(r)
        /\ RsetLines(r) \in Seq(AllLines)
    BY RsetLinesAre DEF RsetLines
  <2>3. h = g \o w
    OBVIOUS
  <2> HIDE DEF g, w, h
  <2>4. g \o w \in Seq(AllLines) /\ NonBlank(g \o w) = NonBlank(g) \o NonBlank(w)
    BY <2>1, <2>2, NonBlankConcat
  <2> QED BY <2>1, <2>2, <2>3, <2>4, ConcatEmptySeq
<1>3. SeqsOver(a, AllLines) /\ Len(a) = N
  BY DbSeqs
<1>4. IsAppend(b, a, h)
  <2> DEFINE u == Append(d, r)
  <2>1. a = [i \in 1..N |-> Gap(i) \o WriteRset(d[i])]
        /\ b = [i \in 1..(N + 1) |-> Gap(i) \o WriteRset(u[i])]
    BY <1>1 DEF DbMap, Gap
  <2>2. N \in Nat /\ u[N + 1] = r /\ \A i \in 1..N : u[i] = d[i]
    BY <1>1
  <2> DEFINE g(i, x) == Gap(i) \o WriteRset(x)
  <2>3. a = [i \in 1..N |-> g(i, d[i])] /\ b = [i \in 1..(N + 1) |-> g(i, u[i])]
        /\ h = g(N + 1, r)
    BY <2>1
  <2> HIDE DEF u, N, a, b, h, g
  <2>4. b[N + 1] = h /\ (\A i \in 1..N : b[i] = a[i])
        /\ b = [i \in 1..(N + 1) |-> b[i]]
    BY <2>2, <2>3
  <2> QED BY <1>3, <2>4 DEF IsAppend
<1> HIDE DEF a, b, h
<1>5. b = Append(a, h)
  BY <1>2, <1>3, <1>4, SeqsAppendIs
<1>6. FlattenSeq(b) = FlattenSeq(a) \o h /\ FlattenSeq(a) \in Seq(AllLines)
  BY <1>2, <1>3, <1>5, FlattenAppend
<1>7. Write(Append(d, r)) = FlattenSeq(b) /\ Write(d) = FlattenSeq(a)
  BY <1>1, DbSeqs DEF a, b
<1> QED BY <1>2, <1>6, <1>7 DEF h

LEMMA DbAppend ==
  ASSUME NEW d \in Seq(Rsets), NEW r \in Rsets
  PROVE  DbLines(Append(d, r)) = DbLines(d) \o RsetLines(r)
<1> DEFINE h == Gap(Len(d) + 1) \o WriteRset(r)
           w == Write(d)
<1>1. Write(Append(d, r)) = w \o h /\ NonBlank(h) = RsetLines(r)
      /\ w \in Seq(AllLines) /\ h \in Seq(AllLines)
  BY WriteAppend
<1> HIDE DEF h, w
<1>2. NonBlank(w \o h) = NonBlank(w) \o NonBlank(h)
  BY <1>1, NonBlankConcat
<1> QED BY <1>1, <1>2 DEF DbLines, w

LEMMA NoDbLines == DbLines(<< >>) = << >>
<1>1. DbMap(<< >>) = << >>
  BY DEF DbMap
<1>2. Write(<< >>) = FlattenSeq(DbMap(<< >>))
  BY DEF Write, DbMap
<1> QED BY <1>1, <1>2, FlattenNone, NoLines DEF DbLines

---------------------------------------------------------------------------
(* The parser, between two lines *)

LEMMA NonBlankAppend ==
  ASSUME NEW f \in Seq(AllLines), NEW x \in AllLines
  PROVE  /\ Append(f, x) \in Seq(AllLines)
         /\ NonBlank(Append(f, x)) = NonBlank(f) \o Kept(x)
<1> DEFINE b == <<x>>
<1>1. Append(f, x) = f \o b /\ Append(f, x) \in Seq(AllLines)
  BY AppendIsConcat, AppendProperties
<1>2. b \in Seq(AllLines) /\ NonBlank(b) = Kept(x)
  BY NonBlankOne
<1> HIDE DEF b
<1>3. NonBlank(f \o b) = NonBlank(f) \o NonBlank(b)
  BY <1>2, NonBlankConcat
<1> QED BY <1>1, <1>2, <1>3

LEMMA NoRecordLines == RecordLines(<< >>) = << >>
  BY BlankIsLine, NonBlankOne DEF RecordLines, WriteRecord

LEMMA RecordElem ==
  ASSUME NEW items \in Seq(Items)
  PROVE  /\ Record(items) \in Elems /\ Record(items).k = "record"
         /\ NonBlank(WriteElem(Record(items))) = RecordLines(items)
  BY DEF Record, Elems, WriteElem, RecordLines

\* The last line was one of a comment, which is the last thing read.
Continues(p) ==
  p.last => IF p.rec = << >>
            THEN /\ p.rset.elems # << >>
                 /\ p.rset.elems[Len(p.rset.elems)].k = "comment"
                 /\ p.rset.dpos < Len(p.rset.elems)
            ELSE p.rec[Len(p.rec)].k = "comment"

\* Only the first record set has no descriptor.
Described(p) ==
  p.out # << >> => /\ p.rset.desc # None
                   /\ \A i \in 2..Len(p.out) : p.out[i].desc # None

NothingYet(p) ==
  p.out = << >> /\ p.rset.desc = None /\ ~HasRecord(p.rset.elems) /\ p.rec = << >>
NoField(f) == \A i \in DOMAIN f : f[i].k # "field"

\* Every line of f is in what the parser p has made of it.
Parsed(p, f) ==
  /\ p \in Parsers /\ f \in Seq(AllLines) /\ ~p.err /\ ~p.eof
  /\ NonBlank(f) = DbLines(p.out) \o RsetLines(p.rset) \o RecordLines(p.rec)
  /\ p.rec # << >> => p.rec[1].k = "field"
  /\ Continues(p) /\ Described(p)
  /\ NothingYet(p) => NoField(f)

\* At most one record set is completed by a line.
OneMore(p, q) == q.out = p.out \/ q.out = Append(p.out, p.rset)

LEMMA ParserFacts ==
  ASSUME NEW p \in Parsers
  PROVE  /\ p.out \in Seq(Rsets) /\ p.rset \in Rsets /\ p.rec \in Seq(Items)
         /\ p.last \in BOOLEAN
         /\ DbLines(p.out) \in Seq(AllLines) /\ RsetLines(p.rset) \in Seq(AllLines)
         /\ RecordLines(p.rec) \in Seq(AllLines)
<1>1. /\ p.out \in Seq(Rsets) /\ p.rset \in Rsets /\ p.rec \in Seq(Items)
      /\ p.last \in BOOLEAN
  BY DEF Parsers
<1> QED BY <1>1, DbSeqs, RsetLinesAre, RecordLinesAre

LEMMA EndRecordParsed ==
  ASSUME NEW p, NEW f, Parsed(p, f)
  PROVE  LET q == [EndRecord(p) EXCEPT !.last = FALSE]
         IN Parsed(q, f) /\ q.rec = << >> /\ OneMore(p, q)
<1> DEFINE q == [EndRecord(p) EXCEPT !.last = FALSE]
<1> SUFFICES Parsed(q, f) /\ q.rec = << >> /\ OneMore(p, q)
  OBVIOUS
<1>0. p \in Parsers /\ ~p.err /\ ~p.eof /\ f \in Seq(AllLines)
  BY DEF Parsed
<1>1. /\ p.out \in Seq(Rsets) /\ p.rset \in Rsets /\ p.rec \in Seq(Items)
      /\ DbLines(p.out) \in Seq(AllLines) /\ RsetLines(p.rset) \in Seq(AllLines)
      /\ RecordLines(p.rec) \in Seq(AllLines)
  BY <1>0, ParserFacts
<1>2. /\ NonBlank(f) = DbLines(p.out) \o RsetLines(p.rset) \o RecordLines(p.rec)
      /\ Described(p) /\ (NothingYet(p) => NoField(f))
  BY DEF Parsed
<1>3. << >> \in Seq(Items)
  BY EmptySeq
<1>32. p.rset = [desc |-> p.rset.desc, dpos |-> p.rset.dpos,
                 elems |-> p.rset.elems]
  BY <1>1, RsetFacts
<1>4. CASE p.rec = << >>
  <2>1. q = [p EXCEPT !.last = FALSE]
    BY <1>4 DEF EndRecord
  <2>2. /\ q \in Parsers /\ q.out = p.out /\ q.rset = p.rset /\ q.rec = p.rec
        /\ q.last = FALSE /\ ~q.err /\ ~q.eof
    BY <1>0, <2>1 DEF Parsers
  <2> HIDE DEF q
  <2>3. Continues(q) /\ Described(q) /\ (NothingYet(q) => NoField(f))
    BY <1>2, <2>2 DEF Continues, Described, NothingYet
  <2> QED BY <1>0, <1>2, <1>4, <2>2, <2>3 DEF Parsed, OneMore
<1>5. CASE p.rec # << >> /\ ~HasField(p.rec, REC)
  <2> DEFINE r == WithElems(p.rset, Append(p.rset.elems, Record(p.rec)))
  <2>1. q = [p EXCEPT !.rset.elems = Append(@, Record(p.rec)), !.rec = << >>,
                      !.last = FALSE]
    BY <1>0, <1>5 DEF EndRecord, Parsers
  <2>2. /\ r \in Rsets /\ RsetLines(r) = RsetLines(p.rset) \o RecordLines(p.rec)
        /\ r.elems = Append(p.rset.elems, Record(p.rec))
    BY <1>1, RecordElem, RsetAppend DEF WithElems
  <2>3. [p.rset EXCEPT !.elems = Append(@, Record(p.rec))] = r
    BY <1>32 DEF WithElems
  <2>4. HasRecord(r.elems)
    <3>1. p.rset.elems \in Seq(Elems)
      BY <1>1, RsetFacts
    <3> QED BY <1>1, <2>2, <3>1, RecordElem, HasRecordAppend
  <2> HIDE DEF r
  <2> HIDE DEF q
  <2>6. /\ q \in Parsers /\ q.out = p.out /\ q.rset = r /\ q.rec = << >>
        /\ q.last = FALSE /\ ~q.err /\ ~q.eof
    BY <1>0, <1>1, <1>3, <2>1, <2>2, <2>3 DEF Parsers
  <2>7. r.desc = p.rset.desc
    BY DEF r, WithElems
  <2>8. Continues(q) /\ Described(q) /\ ~NothingYet(q)
    BY <1>2, <2>4, <2>6, <2>7 DEF Continues, Described, NothingYet
  <2>9. NonBlank(f) = DbLines(q.out) \o RsetLines(q.rset) \o RecordLines(q.rec)
    <3> DEFINE A == DbLines(p.out)
               B == RsetLines(p.rset)
               C == RecordLines(p.rec)
    <3>1. NonBlank(f) = (A \o B) \o C /\ A \in Seq(AllLines)
          /\ B \in Seq(AllLines) /\ C \in Seq(AllLines)
      BY <1>1, <1>2
    <3>2. DbLines(q.out) = A /\ RsetLines(q.rset) = B \o C
          /\ RecordLines(q.rec) = << >>
      BY <2>2, <2>6, NoRecordLines
    <3> HIDE DEF A, B, C
    <3>3. (A \o B) \o C = A \o (B \o C) /\ A \o (B \o C) \in Seq(AllLines)
      BY <3>1, LinesConcat
    <3>4. (A \o (B \o C)) \o << >> = A \o (B \o C)
      BY <3>3, ConcatEmptySeq
    <3> QED BY <3>1, <3>2, <3>3, <3>4
  <2> QED BY <1>0, <2>6, <2>8, <2>9 DEF Parsed, OneMore
<1> DEFINE d == p.rec
<1>6. p.rec # << >> /\ HasField(p.rec, REC) => d \in Descs /\ d # None
  BY <1>1, RecTextAssumption DEF Descs
<1>7. CASE /\ p.rec # << >> /\ HasField(p.rec, REC)
           /\ NumRecords(p.rset) = 0 /\ p.rset.desc = None
  <2> DEFINE r == [desc |-> d, dpos |-> Len(p.rset.elems), elems |-> p.rset.elems]
  <2>1. q = [p EXCEPT !.rset.desc = p.rec, !.rset.dpos = Len(p.rset.elems),
                      !.rec = << >>, !.last = FALSE]
    BY <1>0, <1>7 DEF EndRecord, Parsers
  <2>2. r \in Rsets /\ RsetLines(r) = RsetLines(p.rset) \o RecordLines(p.rec)
    BY <1>1, <1>6, <1>7, RsetDescribed
  <2>3. [p.rset EXCEPT !.desc = p.rec, !.dpos = Len(p.rset.elems)] = r
    <3> DEFINE q1 == [p.rset EXCEPT !.desc = p.rec, !.dpos = Len(p.rset.elems)]
    <3>1. q1 \in [desc : {None} \cup Descs, dpos : Nat, elems : Seq(Elems)]
      <4>1. Len(p.rset.elems) \in Nat
        BY <1>1, RsetFacts
      <4> QED BY <1>1, <1>6, <1>7, <4>1 DEF Rsets
    <3>2. q1.desc = r.desc /\ q1.dpos = r.dpos /\ q1.elems = r.elems
      BY <1>1 DEF Rsets
    <3> HIDE DEF q1, r
    <3>3. q1 = r
      BY <2>2, <3>1, <3>2, SameRset
    <3> QED BY <3>3 DEF q1
  <2>4. r.desc = p.rec
    OBVIOUS
  <2> HIDE DEF r
  <2> HIDE DEF q
  <2>6. /\ q \in Parsers /\ q.out = p.out /\ q.rset = r /\ q.rec = << >>
        /\ q.last = FALSE /\ ~q.err /\ ~q.eof
    BY <1>0, <1>1, <1>3, <2>1, <2>2, <2>3 DEF Parsers
  <2>8. Continues(q) /\ Described(q) /\ ~NothingYet(q)
    BY <1>2, <1>6, <1>7, <2>4, <2>6 DEF Continues, Described, NothingYet
  <2>9. NonBlank(f) = DbLines(q.out) \o RsetLines(q.rset) \o RecordLines(q.rec)
    <3> DEFINE A == DbLines(p.out)
               B == RsetLines(p.rset)
               C == RecordLines(p.rec)
    <3>1. NonBlank(f) = (A \o B) \o C /\ A \in Seq(AllLines)
          /\ B \in Seq(AllLines) /\ C \in Seq(AllLines)
      BY <1>1, <1>2
    <3>2. DbLines(q.out) = A /\ RsetLines(q.rset) = B \o C
          /\ RecordLines(q.rec) = << >>
      BY <2>2, <2>6, NoRecordLines
    <3> HIDE DEF A, B, C
    <3>3. (A \o B) \o C = A \o (B \o C) /\ A \o (B \o C) \in Seq(AllLines)
      BY <3>1, LinesConcat
    <3>4. (A \o (B \o C)) \o << >> = A \o (B \o C)
      BY <3>3, ConcatEmptySeq
    <3> QED BY <3>1, <3>2, <3>3, <3>4
  <2> QED BY <1>0, <2>6, <2>8, <2>9 DEF Parsed, OneMore
<1>8. CASE /\ p.rec # << >> /\ HasField(p.rec, REC)
           /\ ~(NumRecords(p.rset) = 0 /\ p.rset.desc = None)
  <2> DEFINE r == NewRset(d)
             out == Append(p.out, p.rset)
  <2>1. q = [p EXCEPT !.out = Append(@, p.rset), !.rset = NewRset(p.rec),
                      !.rec = << >>, !.last = FALSE]
    BY <1>0, <1>8 DEF EndRecord, Parsers
  <2>2. r \in Rsets /\ RsetLines(r) = RecordLines(p.rec) /\ r.desc = p.rec
    BY <1>6, <1>8, NewRsetLines DEF NewRset
  <2>3. /\ out \in Seq(Rsets) /\ Len(out) = Len(p.out) + 1 /\ out # << >>
        /\ \A i \in 1..Len(p.out) : out[i] = p.out[i]
        /\ out[Len(p.out) + 1] = p.rset
    <3>1. p.out \in Seq(Rsets) /\ p.rset \in Rsets
      BY <1>1
    <3> DEFINE o == p.out
               x == p.rset
    <3> HIDE DEF q, r, d, o, x
    <3>2. /\ Append(o, x) \in Seq(Rsets) /\ Len(Append(o, x)) = Len(o) + 1
          /\ Append(o, x) # << >>
          /\ \A i \in 1..Len(o) : Append(o, x)[i] = o[i]
          /\ Append(o, x)[Len(o) + 1] = x
      BY <3>1, AppendProperties DEF o, x
    <3> QED BY <3>2 DEF o, x
  <2>4. DbLines(out) = DbLines(p.out) \o RsetLines(p.rset)
    BY <1>1, DbAppend
  <2>5. q = [p EXCEPT !.out = out, !.rset = r, !.rec = << >>, !.last = FALSE]
    BY <2>1
  <2> HIDE DEF q, r
  <2>6. /\ q \in Parsers /\ q.out = out /\ q.rset = r /\ q.rec = << >>
        /\ q.last = FALSE /\ ~q.err /\ ~q.eof
    <3> HIDE DEF out
    <3> QED BY <1>0, <1>1, <1>3, <2>2, <2>3, <2>5 DEF Parsers
  <2>7. \A i \in 2..Len(out) : out[i].desc # None
    <3> TAKE i \in 2..Len(out)
    <3>1. CASE i = Len(p.out) + 1
      <4>1. p.out # << >>
        BY <3>1
      <4>2. p.rset.desc # None
        BY <1>2, <4>1 DEF Described
      <4> QED BY <2>3, <3>1, <4>2
    <3>2. CASE i # Len(p.out) + 1
      <4>1. i \in 2..Len(p.out) /\ i \in 1..Len(p.out) /\ p.out # << >>
        BY <1>1, <2>3, <3>2
      <4> QED BY <1>2, <2>3, <4>1 DEF Described
    <3> QED BY <3>1, <3>2
  <2>8. Continues(q) /\ Described(q) /\ ~NothingYet(q)
    <3>1. r.desc # None
      BY <1>6, <1>8, <2>2
    <3> HIDE DEF out
    <3> QED BY <2>3, <2>6, <2>7, <3>1 DEF Continues, Described, NothingYet
  <2>9. NonBlank(f) = DbLines(q.out) \o RsetLines(q.rset) \o RecordLines(q.rec)
    <3> DEFINE A == DbLines(p.out) \o RsetLines(p.rset)
               C == RecordLines(p.rec)
    <3>1. NonBlank(f) = A \o C
      BY <1>2
    <3>2. DbLines(q.out) = A /\ RsetLines(q.rset) = C
          /\ RecordLines(q.rec) = << >>
      <4> HIDE DEF out
      <4> QED BY <2>2, <2>4, <2>6, NoRecordLines
    <3>3. A \o C \in Seq(AllLines)
      BY <1>1, ConcatProperties
    <3> HIDE DEF A, C
    <3>4. (A \o C) \o << >> = A \o C
      BY <3>3, ConcatEmptySeq
    <3> QED BY <3>1, <3>2, <3>4
  <2> QED BY <1>0, <2>6, <2>8, <2>9 DEF Parsed, OneMore
<1> QED BY <1>4, <1>5, <1>7, <1>8

LEMMA NoFieldAppend ==
  ASSUME NEW f \in Seq(AllLines), NEW x \in AllLines, NoField(f), x.k # "field"
  PROVE  NoField(Append(f, x))
<1>1. /\ DOMAIN Append(f, x) = 1..(Len(f) + 1) /\ DOMAIN f = 1..Len(f)
      /\ \A i \in 1..Len(f) : Append(f, x)[i] = f[i]
      /\ Append(f, x)[Len(f) + 1] = x /\ Len(f) \in Nat
  BY AppendProperties
<1>2. ASSUME NEW i \in 1..(Len(f) + 1) PROVE Append(f, x)[i].k # "field"
  <2>1. CASE i = Len(f) + 1
    BY <1>1, <2>1
  <2>2. CASE i # Len(f) + 1
    <3>1. i \in 1..Len(f)
      BY <1>1, <2>2
    <3> QED BY <1>1, <3>1 DEF NoField
  <2> QED BY <2>1, <2>2
<1> QED BY <1>1, <1>2 DEF NoField

LEMMA LineKinds ==
  ASSUME NEW line \in AllLines
  PROVE  /\ line.k \in {"blank", "bad", "cut", "comment", "field"}
         /\ line.k = "blank" <=> line = Blank
         /\ line.k = "comment" =>
              /\ line.of \in Contents /\ line = CommentLine(line.of)
              /\ Kept(line) = <<CommentLine(line.of)>>
         /\ line.k = "field" =>
              /\ Field(line.n, line.v) \in Items
              /\ Field(line.n, line.v).k = "field"
              /\ Kept(line) = <<line>>
              /\ NonBlank(WriteItem(Field(line.n, line.v))) = <<line>>
<1>1. CASE line \in {Blank, Bad, Cut}
  BY <1>1 DEF Blank, Bad, Cut
<1>2. CASE line \in [k : {"comment"}, of : Contents]
  <2>1. line.k = "comment" /\ line.of \in Contents /\ line = CommentLine(line.of)
    BY <1>2 DEF CommentLine
  <2>2. line # Blank
    BY <2>1 DEF Blank
  <2> QED BY <2>1, <2>2 DEF Kept
<1>3. CASE line \in [k : {"field"}, n : Contents, v : Contents]
  <2>1. line.k = "field" /\ line = FieldLine(line.n, line.v)
    BY <1>3 DEF FieldLine
  <2>2. line # Blank
    BY <2>1 DEF Blank
  <2> DEFINE x == Field(line.n, line.v)
  <2>3. x \in Items /\ x.k = "field"
    BY <1>3 DEF Field, Items
  <2>4. WriteItem(x) = <<line>>
    <3>1. x.k = "field" /\ x.n = line.n /\ x.v = line.v
      BY DEF Field
    <3> HIDE DEF x
    <3> QED BY <2>1, <3>1 DEF WriteItem
  <2>5. NonBlank(<<line>>) = <<line>> /\ Kept(line) = <<line>>
    BY <2>2, NonBlankOne DEF Kept
  <2> HIDE DEF x
  <2>6. NonBlank(WriteItem(x)) = <<line>>
    BY <2>4, <2>5
  <2> QED BY <2>1, <2>2, <2>3, <2>5, <2>6 DEF x
<1> QED BY <1>1, <1>2, <1>3 DEF AllLines

LEMMA ParseLineParsed ==
  ASSUME NEW p, NEW f, Parsed(p, f), NEW line \in AllLines,
         line.k # "bad", line.k # "cut"
  PROVE  Parsed(ParseLine(p, line), Append(f, line)) /\ OneMore(p, ParseLine(p, line))
<1> DEFINE q == ParseLine(p, line)
           g == Append(f, line)
<1> SUFFICES Parsed(q, g) /\ OneMore(p, q)
  OBVIOUS
<1>0. p \in Parsers /\ ~p.err /\ ~p.eof /\ f \in Seq(AllLines)
  BY DEF Parsed
<1>1. /\ p.out \in Seq(Rsets) /\ p.rset \in Rsets /\ p.rec \in Seq(Items)
      /\ DbLines(p.out) \in Seq(AllLines) /\ RsetLines(p.rset) \in Seq(AllLines)
      /\ RecordLines(p.rec) \in Seq(AllLines)
  BY <1>0, ParserFacts
<1>2. /\ NonBlank(f) = DbLines(p.out) \o RsetLines(p.rset) \o RecordLines(p.rec)
      /\ (p.rec # << >> => p.rec[1].k = "field") /\ Continues(p)
      /\ Described(p) /\ (NothingYet(p) => NoField(f))
  BY DEF Parsed
<1>3. g \in Seq(AllLines) /\ NonBlank(g) = NonBlank(f) \o Kept(line)
      /\ NonBlank(f) \in Seq(AllLines)
  BY <1>0, NonBlankAppend, NonBlankConcat
<1> HIDE DEF g
<1>4. CASE line.k = "blank"
  <2>1. q = [EndRecord(p) EXCEPT !.last = FALSE]
    BY <1>0, <1>4 DEF ParseLine
  <2>2. Parsed(q, f) /\ q.rec = << >> /\ OneMore(p, q)
    BY <2>1, EndRecordParsed
  <2>3. line = Blank /\ Kept(line) = << >>
    BY <1>4, LineKinds, BlankIsLine
  <2>4. NonBlank(g) = NonBlank(f)
    BY <1>3, <2>3, ConcatEmptySeq
  <2>5. NothingYet(q) => NoField(g)
    <3>1. NothingYet(q) => NoField(f)
      BY <2>2 DEF Parsed
    <3>2. line.k # "field"
      BY <1>4
    <3> QED BY <1>0, <3>1, <3>2, NoFieldAppend DEF g
  <2> HIDE DEF q
  <2> QED BY <1>3, <2>2, <2>4, <2>5 DEF Parsed
<1> DEFINE A == DbLines(p.out)
           B == RsetLines(p.rset)
           C == RecordLines(p.rec)
           D == Kept(line)
<1>D. D \in Seq(AllLines) /\ A \in Seq(AllLines) /\ B \in Seq(AllLines)
      /\ C \in Seq(AllLines) /\ NonBlank(g) = ((A \o B) \o C) \o D
      /\ A \o B \in Seq(AllLines)
  <2>1. D \in Seq(AllLines)
    BY DEF Kept
  <2>2. A \o B \in Seq(AllLines)
    BY <1>1, ConcatProperties
  <2> QED BY <1>1, <1>2, <1>3, <2>1, <2>2
<1>5. CASE line.k = "field"
  <2> DEFINE x == Field(line.n, line.v)
             rec == Append(p.rec, x)
  <2>1. q = [p EXCEPT !.rec = rec, !.last = FALSE]
    BY <1>0, <1>5 DEF ParseLine
  <2>2. x \in Items /\ x.k = "field" /\ D = NonBlank(WriteItem(x))
    BY <1>5, LineKinds
  <2> HIDE DEF q, x
  <2>3. /\ rec \in Seq(Items) /\ rec # << >> /\ RecordLines(rec) = C \o D
        /\ rec[1].k = "field"
    <3>1. rec \in Seq(Items) /\ rec # << >> /\ RecordLines(rec) = C \o D
      <4> DEFINE o == p.rec
      <4>0. o \in Seq(Items)
        BY <1>1
      <4> HIDE DEF o
      <4>1. Append(o, x) \in Seq(Items) /\ Append(o, x) # << >>
        BY <2>2, <4>0, AppendProperties
      <4>2. RecordLines(Append(o, x)) = RecordLines(o) \o NonBlank(WriteItem(x))
        BY <2>2, <4>0, RecordAppend
      <4> QED BY <2>2, <4>1, <4>2 DEF o
    <3>2. rec[1].k = "field"
      <4> DEFINE o == p.rec
      <4>0. o \in Seq(Items) /\ rec = Append(o, x) /\ (o # << >> => o[1].k = "field")
        BY <1>1, <1>2
      <4> HIDE DEF o, rec
      <4>1. CASE o = << >>
        BY <2>2, <4>0, <4>1
      <4>2. CASE o # << >>
        <5>1. 1 \in 1..Len(o)
          BY <4>0, <4>2, EmptySeq
        <5>2. rec[1] = o[1]
          BY <2>2, <4>0, <5>1, AppendProperties
        <5> QED BY <4>0, <4>2, <5>2
      <4> QED BY <4>1, <4>2
    <3> QED BY <3>1, <3>2
  <2> HIDE DEF rec
  <2>4. /\ q \in Parsers /\ q.out = p.out /\ q.rset = p.rset /\ q.rec = rec
        /\ q.last = FALSE /\ ~q.err /\ ~q.eof
    BY <1>0, <2>1, <2>3 DEF Parsers
  <2>5. Continues(q) /\ Described(q) /\ ~NothingYet(q)
    BY <1>2, <2>3, <2>4 DEF Continues, Described, NothingYet
  <2>6. NonBlank(g) = DbLines(q.out) \o RsetLines(q.rset) \o RecordLines(q.rec)
    <3>1. DbLines(q.out) = A /\ RsetLines(q.rset) = B /\ RecordLines(q.rec) = C \o D
      BY <2>3, <2>4
    <3> DEFINE E == A \o B
    <3>2. E \in Seq(AllLines) /\ NonBlank(g) = (E \o C) \o D
          /\ DbLines(q.out) \o RsetLines(q.rset) = E
      BY <1>D, <3>1
    <3>0. E \in Seq(AllLines) /\ C \in Seq(AllLines) /\ D \in Seq(AllLines)
      BY <1>D
    <3> HIDE DEF A, B, C, D, E
    <3>3. (E \o C) \o D = E \o (C \o D)
      BY <3>0, LinesConcat
    <3> QED BY <3>1, <3>2, <3>3
  <2> QED BY <1>3, <2>3, <2>4, <2>5, <2>6 DEF Parsed, OneMore
<1> DEFINE v == line.of
<1>6. line.k = "comment" => v \in Contents /\ D = <<CommentLine(v)>>
  BY LineKinds
<1>7. CASE line.k = "comment" /\ p.rec = << >>
  <2> DEFINE s == AddText(p.rset.elems, p.last, v)
             r == WithElems(p.rset, s)
  <2>1. q = [p EXCEPT !.rset.elems = AddText(@, p.last, v), !.last = TRUE]
    BY <1>0, <1>7 DEF ParseLine
  <2>2. p.last => /\ p.rset.elems # << >>
                  /\ p.rset.elems[Len(p.rset.elems)].k = "comment"
                  /\ p.rset.dpos < Len(p.rset.elems)
    BY <1>2, <1>7 DEF Continues
  <2>3. /\ r \in Rsets /\ s # << >> /\ s[Len(s)].k = "comment"
        /\ p.rset.dpos < Len(s) /\ (HasRecord(s) <=> HasRecord(p.rset.elems))
        /\ RsetLines(r) = B \o D
    <3>1. v \in Contents /\ D = <<CommentLine(v)>> /\ p.last \in BOOLEAN
      BY <1>0, <1>6, <1>7 DEF Parsers
    <3> HIDE DEF v, D
    <3> QED BY <1>1, <2>2, <3>1, RsetAddText
  <2>4. p.rset = [desc |-> p.rset.desc, dpos |-> p.rset.dpos,
                  elems |-> p.rset.elems]
    BY <1>1, RsetFacts
  <2>5. [p.rset EXCEPT !.elems = AddText(@, p.last, v)] = r
    <3> HIDE DEF v
    <3> QED BY <2>4 DEF WithElems
  <2>6. r.desc = p.rset.desc /\ r.dpos = p.rset.dpos /\ r.elems = s
    BY DEF WithElems
  <2> HIDE DEF q, r, s, v
  <2>7. /\ q \in Parsers /\ q.out = p.out /\ q.rset = r /\ q.rec = p.rec
        /\ q.last = TRUE /\ ~q.err /\ ~q.eof
    BY <1>0, <2>1, <2>3, <2>5 DEF Parsers
  <2>8. Continues(q) /\ Described(q)
    BY <1>2, <1>7, <2>3, <2>6, <2>7 DEF Continues, Described
  <2>9. NothingYet(q) => NoField(g)
    <3>1. NothingYet(q) => NothingYet(p)
      BY <2>3, <2>6, <2>7 DEF NothingYet
    <3>2. line.k # "field"
      BY <1>7
    <3> QED BY <1>0, <1>2, <3>1, <3>2, NoFieldAppend DEF g
  <2>10. NonBlank(g) = DbLines(q.out) \o RsetLines(q.rset) \o RecordLines(q.rec)
    <3>1. DbLines(q.out) = A /\ RsetLines(q.rset) = B \o D
          /\ RecordLines(q.rec) = << >> /\ C = << >>
      BY <1>7, <2>3, <2>7, NoRecordLines
    <3>0. A \in Seq(AllLines) /\ B \in Seq(AllLines) /\ D \in Seq(AllLines)
      BY <1>D
    <3> HIDE DEF A, B, C, D
    <3>2. A \o (B \o D) = (A \o B) \o D
      BY <3>0, LinesConcat
    <3>4. (A \o B) \o << >> = A \o B
      BY <3>0, LinesConcat
    <3>3. (A \o (B \o D)) \o << >> = A \o (B \o D)
      BY <3>0, LinesConcat
    <3> QED BY <1>D, <3>1, <3>2, <3>3, <3>4
  <2> QED BY <1>3, <1>7, <2>7, <2>8, <2>9, <2>10 DEF Parsed, OneMore
<1>8. CASE line.k = "comment" /\ p.rec # << >>
  <2> DEFINE rec == AddText(p.rec, p.last, v)
  <2>1. q = [p EXCEPT !.rec = rec, !.last = TRUE]
    BY <1>0, <1>8 DEF ParseLine
  <2>2. p.last => p.rec[Len(p.rec)].k = "comment"
    BY <1>2, <1>8 DEF Continues
  <2>3. /\ rec \in Seq(Items) /\ rec # << >> /\ rec[Len(rec)].k = "comment"
        /\ rec[1].k = p.rec[1].k /\ RecordLines(rec) = C \o D
    <3>1. v \in Contents /\ D = <<CommentLine(v)>> /\ p.last \in BOOLEAN
      BY <1>0, <1>6, <1>8 DEF Parsers
    <3> HIDE DEF v, D
    <3> QED BY <1>1, <1>8, <2>2, <3>1, RecordAddText
  <2> HIDE DEF q, rec, v
  <2>4. /\ q \in Parsers /\ q.out = p.out /\ q.rset = p.rset /\ q.rec = rec
        /\ q.last = TRUE /\ ~q.err /\ ~q.eof
    BY <1>0, <2>1, <2>3 DEF Parsers
  <2>5. Continues(q) /\ Described(q) /\ ~NothingYet(q) /\ q.rec[1].k = "field"
    BY <1>2, <1>8, <2>3, <2>4 DEF Continues, Described, NothingYet
  <2>6. NonBlank(g) = DbLines(q.out) \o RsetLines(q.rset) \o RecordLines(q.rec)
    <3>1. DbLines(q.out) = A /\ RsetLines(q.rset) = B /\ RecordLines(q.rec) = C \o D
      BY <2>3, <2>4
    <3> DEFINE E == A \o B
    <3>2. E \in Seq(AllLines) /\ NonBlank(g) = (E \o C) \o D
          /\ DbLines(q.out) \o RsetLines(q.rset) = E
      BY <1>D, <3>1
    <3>0. E \in Seq(AllLines) /\ C \in Seq(AllLines) /\ D \in Seq(AllLines)
      BY <1>D
    <3> HIDE DEF A, B, C, D, E
    <3>3. (E \o C) \o D = E \o (C \o D)
      BY <3>0, LinesConcat
    <3> QED BY <3>1, <3>2, <3>3
  <2> QED BY <1>3, <2>4, <2>5, <2>6 DEF Parsed, OneMore
<1>9. line.k \in {"blank", "field", "comment"}
  BY LineKinds
<1> QED BY <1>4, <1>5, <1>7, <1>8, <1>9

\* The end of the file, where the last record set has no record if it is not
\* returned, and neither has the file then.
DescribedDb(d) == \A i \in 2..Len(d) : d[i].desc # None
Prefix(d, e) == Len(d) <= Len(e) /\ \A i \in 1..Len(d) : e[i] = d[i]

LEMMA ParsedOut ==
  ASSUME NEW p, NEW f, Parsed(p, f)
  PROVE  p.out \in Seq(Rsets) /\ DescribedDb(p.out)
<1>1. p.out \in Seq(Rsets) /\ Len(p.out) \in Nat
  BY DEF Parsed, Parsers
<1>2. p.out = << >> => Len(p.out) = 0
  OBVIOUS
<1>3. CASE p.out = << >>
  BY <1>1, <1>2, <1>3 DEF DescribedDb
<1>4. CASE p.out # << >>
  BY <1>1, <1>4 DEF DescribedDb, Parsed, Described
<1> QED BY <1>3, <1>4

LEMMA OneMorePrefix ==
  ASSUME NEW p \in Parsers, NEW q, OneMore(p, q)
  PROVE  Prefix(p.out, q.out)
<1>1. p.out \in Seq(Rsets) /\ p.rset \in Rsets
  BY DEF Parsers
<1> DEFINE o == p.out
           x == p.rset
<1>2. o \in Seq(Rsets) /\ x \in Rsets /\ (q.out = o \/ q.out = Append(o, x))
  BY <1>1 DEF OneMore
<1> HIDE DEF o, x
<1>3. Len(o) \in Nat /\ Len(Append(o, x)) = Len(o) + 1
      /\ \A i \in 1..Len(o) : Append(o, x)[i] = o[i]
  BY <1>2, AppendProperties
<1>4. Prefix(o, q.out)
  BY <1>2, <1>3 DEF Prefix
<1> QED BY <1>4 DEF o

\* The last record set is returned if it has a descriptor or a record.
LEMMA EofOut ==
  ASSUME NEW p \in Parsers, ~p.err
  PROVE  ParseEof(p).out =
           IF [EndRecord(p) EXCEPT !.last = FALSE].rset.desc # None
              \/ NumRecords([EndRecord(p) EXCEPT !.last = FALSE].rset) > 0
           THEN Append([EndRecord(p) EXCEPT !.last = FALSE].out,
                       [EndRecord(p) EXCEPT !.last = FALSE].rset)
           ELSE [EndRecord(p) EXCEPT !.last = FALSE].out
<1> DEFINE q == ParseEof(p)
           s == EndRecord(p)
           t == [s EXCEPT !.last = FALSE]
<1>3. s.out = t.out /\ s.rset = t.rset
  OBVIOUS
<1>4. q = IF s.rset.desc # None \/ NumRecords(s.rset) > 0
          THEN [s EXCEPT !.out = Append(@, s.rset), !.eof = TRUE,
                         !.rset = NewRset(None)]
          ELSE [s EXCEPT !.eof = TRUE]
  BY DEF ParseEof
<1>5. DOMAIN s = {"out", "rset", "rec", "last", "err", "eof"}
  BY DEF EndRecord, Parsers
<1> HIDE DEF q, s, t
<1>6. q.out = IF t.rset.desc # None \/ NumRecords(t.rset) > 0
              THEN Append(t.out, t.rset) ELSE t.out
  <2>1. CASE s.rset.desc # None \/ NumRecords(s.rset) > 0
    <3>1. q = [s EXCEPT !.out = Append(@, s.rset), !.eof = TRUE,
                         !.rset = NewRset(None)]
      BY <1>4, <2>1
    <3>2. q.out = Append(s.out, s.rset)
      BY <1>5, <3>1
    <3> QED BY <1>3, <2>1, <3>2
  <2>2. CASE ~(s.rset.desc # None \/ NumRecords(s.rset) > 0)
    <3>1. q = [s EXCEPT !.eof = TRUE]
      BY <1>4, <2>2
    <3>2. q.out = s.out
      BY <1>5, <3>1
    <3> QED BY <1>3, <2>2, <3>2
  <2> QED BY <2>1, <2>2
<1> QED BY <1>6 DEF q, s, t

LEMMA ParseEofParsed ==
  ASSUME NEW p, NEW f, Parsed(p, f)
  PROVE  LET q == ParseEof(p)
         IN /\ q.out \in Seq(Rsets) /\ DescribedDb(q.out) /\ Prefix(p.out, q.out)
            /\ NoField(f) \/ NonBlank(f) = DbLines(q.out)
<1> DEFINE q == ParseEof(p)
           s == EndRecord(p)
           t == [s EXCEPT !.last = FALSE]
<1> SUFFICES /\ q.out \in Seq(Rsets) /\ DescribedDb(q.out) /\ Prefix(p.out, q.out)
             /\ NoField(f) \/ NonBlank(f) = DbLines(q.out)
  OBVIOUS
<1>1. p \in Parsers /\ ~p.err
  BY DEF Parsed
<1>2. Parsed(t, f) /\ t.rec = << >> /\ OneMore(p, t)
  BY EndRecordParsed
<1>3. s.out = t.out /\ s.rset = t.rset
  OBVIOUS
<1> HIDE DEF q, s
<1>6. q.out = IF t.rset.desc # None \/ NumRecords(t.rset) > 0
              THEN Append(t.out, t.rset) ELSE t.out
  BY <1>1, EofOut DEF q, s
<1> HIDE DEF t
<1>7. /\ t \in Parsers /\ t.out \in Seq(Rsets) /\ t.rset \in Rsets
      /\ DbLines(t.out) \in Seq(AllLines) /\ RsetLines(t.rset) \in Seq(AllLines)
      /\ NonBlank(f) = DbLines(t.out) \o RsetLines(t.rset) \o << >>
      /\ DescribedDb(t.out) /\ Described(t) /\ (NothingYet(t) => NoField(f))
  <2>1. t \in Parsers /\ Described(t) /\ (NothingYet(t) => NoField(f))
        /\ NonBlank(f) = DbLines(t.out) \o RsetLines(t.rset) \o RecordLines(t.rec)
    BY <1>2 DEF Parsed
  <2> QED BY <1>2, <2>1, ParserFacts, ParsedOut, NoRecordLines
<1>8. Prefix(p.out, t.out)
  BY <1>1, <1>2, OneMorePrefix
<1> DEFINE o == t.out
           x == t.rset
<1>9. o \in Seq(Rsets) /\ x \in Rsets /\ DescribedDb(o) /\ Prefix(p.out, o)
      /\ (o # << >> => x.desc # None) /\ NonBlank(f) = DbLines(o) \o RsetLines(x)
  <2>1. DbLines(o) \o RsetLines(x) \in Seq(AllLines)
    BY <1>7, ConcatProperties
  <2>2. (DbLines(o) \o RsetLines(x)) \o << >> = DbLines(o) \o RsetLines(x)
    BY <2>1, ConcatEmptySeq
  <2> QED BY <1>7, <1>8, <2>2 DEF Described
<1>10. CASE t.rset.desc # None \/ NumRecords(t.rset) > 0
  <2>1. q.out = Append(o, x)
    BY <1>6, <1>10
  <2> HIDE DEF o, x
  <2>2. /\ Append(o, x) \in Seq(Rsets) /\ Len(Append(o, x)) = Len(o) + 1
        /\ \A i \in 1..Len(o) : Append(o, x)[i] = o[i]
        /\ Append(o, x)[Len(o) + 1] = x /\ Len(o) \in Nat
    BY <1>9, AppendProperties
  <2>3. DescribedDb(Append(o, x))
    <3> SUFFICES ASSUME NEW i \in 2..(Len(o) + 1) PROVE Append(o, x)[i].desc # None
      BY <2>2 DEF DescribedDb
    <3>1. CASE i = Len(o) + 1
      <4>1. o # << >>
        BY <3>1
      <4> QED BY <1>9, <2>2, <3>1, <4>1
    <3>2. CASE i # Len(o) + 1
      <4>1. i \in 2..Len(o) /\ i \in 1..Len(o)
        BY <2>2, <3>2
      <4> QED BY <1>9, <2>2, <4>1 DEF DescribedDb
    <3> QED BY <3>1, <3>2
  <2>4. Prefix(p.out, Append(o, x))
    <3>1. Len(p.out) \in Nat
      BY <1>1 DEF Parsers
    <3> QED BY <1>9, <2>2, <3>1 DEF Prefix
  <2>5. DbLines(Append(o, x)) = NonBlank(f)
    BY <1>9, DbAppend
  <2> QED BY <2>1, <2>2, <2>3, <2>4, <2>5
<1>11. CASE ~(t.rset.desc # None \/ NumRecords(t.rset) > 0)
  <2>1. q.out = o
    BY <1>6, <1>11
  <2>2. o = << >>
    BY <1>9, <1>11
  <2>3. NothingYet(t)
    <3>1. ~HasRecord(t.rset.elems)
      BY <1>7, <1>11, NumRecordsIs
    <3> QED BY <1>2, <1>11, <2>2, <3>1 DEF NothingYet
  <2> QED BY <1>7, <1>9, <2>1, <2>3
<1> QED BY <1>10, <1>11

---------------------------------------------------------------------------
(* The type of a record set *)

LEMMA TypeIs ==
  ASSUME NEW r \in Rsets
  PROVE  /\ r.desc = None => RsetType(r) = None
         /\ r.desc # None => RsetType(r) \in Contents /\ RsetType(r) # None
<1>1. CASE r.desc = None
  BY <1>1 DEF RsetType
<1>2. CASE r.desc # None
  <2> DEFINE d == r.desc
             S == {i \in DOMAIN d : d[i].k = "field" /\ d[i].n = REC}
             m == CHOOSE x \in S : \A y \in S : x <= y
  <2>1. d \in Seq(Items) /\ HasField(d, REC)
    BY <1>2, RsetFacts
  <2>2. RsetType(r) = d[m].v
    BY <1>2, <2>1 DEF RsetType, FieldValue, Min
  <2> HIDE DEF d
  <2>3. S \in SUBSET Nat /\ S # {}
    BY <2>1 DEF HasField
  <2>4. m \in S
    <3> HIDE DEF S
    <3>1. \E x \in S : \A y \in S : x <= y
      BY <2>3, NatMin
    <3> QED BY <3>1
  <2> HIDE DEF m
  <2>5. d[m] \in Items /\ d[m].k = "field" /\ d[m].n = REC
    BY <2>1, <2>4
  <2>6. d[m].v \in Contents
    BY <2>5 DEF Items
  <2> QED BY <1>2, <2>2, <2>6, RecTextAssumption
<1> QED BY <1>1, <1>2

\* The members of all kinds, of the data that RecText is about.
LEMMA MembersOver ==
  /\ Seq(Items) = Seq(ItemsOver(Contents))
  /\ Seq(Elems) = Seq(ElemsOver(Contents))
<1>1. Items = ItemsOver(Contents)
  BY DEF Items, ItemsOver
<1>2. Elems = ElemsOver(Contents)
  BY <1>1 DEF Elems, ElemsOver
<1> QED BY <1>1, <1>2

---------------------------------------------------------------------------
(* The steps of the parser *)

LEMMA NewParsed == Parsed(NewParser, << >>)
<1> DEFINE p == NewParser
<1>2. /\ p.out = << >> /\ p.rset = NewRset(None) /\ p.rec = << >>
      /\ p.last = FALSE /\ ~p.err /\ ~p.eof
  BY DEF NewParser
<1>3. p \in Parsers
  <2>1. NewRset(None) \in Rsets
    BY NewRsetLines
  <2> QED BY <2>1 DEF NewParser, Parsers
<1> HIDE DEF p
<1>4. Continues(p) /\ Described(p) /\ NoField(<< >>)
  BY <1>2 DEF Continues, Described, NoField
<1>5. NonBlank(<< >>) = DbLines(p.out) \o RsetLines(p.rset) \o RecordLines(p.rec)
  <2>1. << >> \o << >> = << >>
    BY NoLines, ConcatEmptySeq
  <2>2. NonBlank(<< >>) = << >> /\ DbLines(p.out) = << >>
        /\ RsetLines(p.rset) = << >> /\ RecordLines(p.rec) = << >>
    BY <1>2, NoLines, NoDbLines, NewRsetLines, NoRecordLines
  <2> QED BY <2>1, <2>2
<1>6. Parsed(p, << >>)
  BY <1>2, <1>3, <1>4, <1>5, NoLines DEF Parsed
<1> QED BY <1>6 DEF p

\* The four ways in which a record ends (rec_parse_rset).
LEMMA EndRecordIs ==
  ASSUME NEW p \in Parsers
  PROVE  LET q == [EndRecord(p) EXCEPT !.last = FALSE]
         IN /\ q.rec = << >> /\ q.last = FALSE
            /\ \/ p.rec = << >> /\ q.out = p.out /\ q.rset = p.rset
               \/ /\ p.rec # << >> /\ ~HasField(p.rec, REC) /\ q.out = p.out
                  /\ q.rset.desc = p.rset.desc /\ q.rset.dpos = p.rset.dpos
                  /\ q.rset.elems = Append(p.rset.elems, Record(p.rec))
               \/ /\ p.rec # << >> /\ HasField(p.rec, REC) /\ q.out = p.out
                  /\ NumRecords(p.rset) = 0 /\ p.rset.desc = None
                  /\ q.rset.desc = p.rec /\ q.rset.dpos = Len(p.rset.elems)
                  /\ q.rset.elems = p.rset.elems
               \/ /\ p.rec # << >> /\ HasField(p.rec, REC)
                  /\ ~(NumRecords(p.rset) = 0 /\ p.rset.desc = None)
                  /\ q.out = Append(p.out, p.rset)
                  /\ q.rset.desc = p.rec /\ q.rset.dpos = 0
                  /\ q.rset.elems = << >>
<1> DEFINE q == [EndRecord(p) EXCEPT !.last = FALSE]
           x == p.rset
<1>1. /\ DOMAIN p = Parts /\ x \in Rsets
      /\ DOMAIN x = {"desc", "dpos", "elems"}
  BY DEF Parsers, Parts, Rsets
<1>2. CASE p.rec = << >>
  <2>1. q = [p EXCEPT !.last = FALSE]
    BY <1>2 DEF EndRecord
  <2> HIDE DEF q
  <2>2. q.rec = << >> /\ q.last = FALSE /\ q.out = p.out /\ q.rset = p.rset
    BY <1>1, <1>2, <2>1 DEF Parts
  <2> QED BY <1>2, <2>2 DEF q
<1>3. CASE p.rec # << >> /\ ~HasField(p.rec, REC)
  <2> DEFINE e == Record(p.rec)
  <2>1. q = [p EXCEPT !.rset.elems = Append(@, e), !.rec = << >>,
                      !.last = FALSE]
    BY <1>1, <1>3 DEF EndRecord, Parts
  <2> HIDE DEF e
  <2>2. /\ q.rec = << >> /\ q.last = FALSE /\ q.out = p.out
        /\ q.rset = [x EXCEPT !.elems = Append(@, e)]
    BY <1>1, <2>1 DEF Parts
  <2>3. /\ q.rset.desc = x.desc /\ q.rset.dpos = x.dpos
        /\ q.rset.elems = Append(x.elems, e)
    BY <1>1, <2>2
  <2> QED BY <1>3, <2>2, <2>3 DEF e
<1>4. CASE /\ p.rec # << >> /\ HasField(p.rec, REC)
           /\ NumRecords(p.rset) = 0 /\ p.rset.desc = None
  <2>1. q = [p EXCEPT !.rset.desc = p.rec, !.rset.dpos = Len(p.rset.elems),
                      !.rec = << >>, !.last = FALSE]
    BY <1>1, <1>4 DEF EndRecord, Parts
  <2> HIDE DEF q
  <2>2. /\ q.rec = << >> /\ q.last = FALSE /\ q.out = p.out
        /\ q.rset = [x EXCEPT !.desc = p.rec, !.dpos = Len(x.elems)]
    BY <1>1, <2>1 DEF Parts
  <2>3. /\ q.rset.desc = p.rec /\ q.rset.dpos = Len(x.elems)
        /\ q.rset.elems = x.elems
    BY <1>1, <2>2
  <2> QED BY <1>4, <2>2, <2>3 DEF q
<1>5. CASE /\ p.rec # << >> /\ HasField(p.rec, REC)
           /\ ~(NumRecords(p.rset) = 0 /\ p.rset.desc = None)
  <2> DEFINE r == NewRset(p.rec)
             o == Append(p.out, x)
  <2>1. q = [p EXCEPT !.out = o, !.rset = r, !.rec = << >>, !.last = FALSE]
    BY <1>1, <1>5 DEF EndRecord, Parts
  <2>2. r.desc = p.rec /\ r.dpos = 0 /\ r.elems = << >>
    BY DEF NewRset
  <2> HIDE DEF q, r, o
  <2>3. q.rec = << >> /\ q.last = FALSE /\ q.out = o /\ q.rset = r
    BY <1>1, <2>1 DEF Parts
  <2> QED BY <1>5, <2>2, <2>3 DEF q, o
<1> QED BY <1>2, <1>3, <1>4, <1>5

\* A line of a comment starts a comment or continues the last one.
Extends(S, s, c, v) ==
  c => /\ s # << >> /\ s[Len(s)].k = "comment"
       /\ [s[Len(s)] EXCEPT !.texts = Append(@, v)] \in S
       /\ s[Len(s)] \in [k : {"comment"}, texts : Seq(Contents)]
HasText(S, s, c, u, f, y) ==
  /\ u = Append(f, y) /\ y.k = "comment" /\ y.texts # << >>
  /\ ~c => f = s
  /\ c => \E x \in S : s = Append(f, x) /\ x.k = "comment"

LEMMA TextAdded ==
  ASSUME NEW S, NEW s \in Seq(S), NEW c, c = TRUE \/ c = FALSE, NEW v \in Contents,
         Comment(<<v>>) \in S, Extends(S, s, c, v)
  PROVE  \E f \in Seq(S), y \in S : HasText(S, s, c, AddText(s, c, v), f, y)
<1>1. CASE c = FALSE
  <2> DEFINE e == Comment(<<v>>)
  <2>1. AddText(s, c, v) = Append(s, e) /\ e.k = "comment" /\ e.texts # << >>
    BY <1>1 DEF AddText, Comment
  <2>2. HasText(S, s, c, AddText(s, c, v), s, e)
    <3> HIDE DEF e
    <3> QED BY <1>1, <2>1 DEF HasText
  <2> QED BY <2>2
<1>2. CASE c = TRUE
  <2> DEFINE x == s[Len(s)]
             y == [x EXCEPT !.texts = Append(@, v)]
  <2>1. x \in [k : {"comment"}, texts : Seq(Contents)] /\ s # << >> /\ y \in S
        /\ x.k = "comment"
    BY <1>2 DEF Extends
  <2>2. y.k = "comment" /\ y.texts # << >> /\ x.k = "comment"
    <3> HIDE DEF x
    <3>1. x.texts \in Seq(Contents) /\ y.texts = Append(x.texts, v) /\ y.k = x.k
      BY <2>1
    <3>2. Append(x.texts, v) # << >>
      <4> DEFINE t == x.texts
      <4>1. t \in Seq(Contents)
        BY <3>1
      <4> HIDE DEF t
      <4>2. Len(Append(t, v)) = Len(t) + 1 /\ Len(t) \in Nat
        BY <4>1
      <4> DEFINE u == Append(t, v)
      <4> HIDE DEF u
      <4>3. u # << >>
        <5>1. Len(u) # 0
          BY <4>2 DEF u
        <5> QED BY ONLY <5>1, EmptySeq
      <4> QED BY <4>3 DEF t, u
    <3> QED BY <2>1, <3>1, <3>2
  <2>3. AddText(s, c, v) = [s EXCEPT ![Len(s)] = y]
    BY <1>2 DEF AddText
  <2>4. x \in S
    BY <2>1, EmptySeq
  <2> HIDE DEF y
  <2>5. PICK f \in Seq(S) : LastIs(s, f, y)
    BY <2>1, LastReplaced
  <2>6. s = Append(f, x) /\ AddText(s, c, v) = Append(f, y)
    BY <2>3, <2>5 DEF LastIs
  <2> HIDE DEF x
  <2>7. HasText(S, s, c, AddText(s, c, v), f, y)
    BY <1>2, <2>1, <2>2, <2>4, <2>6 DEF HasText
  <2> QED BY <2>1, <2>7
<1> QED BY <1>1, <1>2

=============================================================================
