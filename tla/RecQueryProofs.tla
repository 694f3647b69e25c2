--------------------------- MODULE RecQueryProofs ---------------------------
(***************************************************************************)
(* Proofs about the queries of RecQuery, for all databases and queries.    *)
(* What a query does to the records of a record set is counted: how often  *)
(* a field or a record stands in a sequence is known for what Where keeps, *)
(* for concatenations, insertions and folds, so that sorting is a          *)
(* permutation, grouping moves fields, a random selection has places, and  *)
(* a join has pairs of places.  Aggregates are folds, whose steps commute  *)
(* and associate, so that the fold over records is the one over their      *)
(* concatenation.                                                          *)
(***************************************************************************)
EXTENDS RecQuery, SeqLemmas

---------------------------------------------------------------------------
(* Counting *)

\* How many elements of s are in X.
CountIn(s, X) == Cardinality({i \in DOMAIN s : s[i] \in X})

\* At most all elements are counted.
LEMMA CountBounds ==
  ASSUME NEW S, NEW s \in Seq(S), NEW X
  PROVE  /\ IsFiniteSet({i \in DOMAIN s : s[i] \in X})
         /\ CountIn(s, X) \in Nat /\ CountIn(s, X) <= Len(s)
<1> DEFINE A == {i \in DOMAIN s : s[i] \in X}
<1>1. DOMAIN s = 1..Len(s) /\ Len(s) \in Nat
  OBVIOUS
<1>2. IsFiniteSet(1..Len(s)) /\ Cardinality(1..Len(s)) = Len(s)
  BY <1>1, FS_Interval, SMT
<1>3. A \subseteq 1..Len(s)
  BY <1>1
<1> HIDE DEF A
<1>4. IsFiniteSet(A) /\ Cardinality(A) <= Len(s)
  BY <1>2, <1>3, FS_Subset, Zenon
<1>5. Cardinality(A) \in Nat
  BY <1>4, FS_CardinalityType, Zenon
<1> QED BY <1>4, <1>5 DEF A, CountIn

\* All elements of S are counted.
LEMMA CountAll ==
  ASSUME NEW S, NEW s \in Seq(S)
  PROVE  CountIn(s, S) = Len(s)
<1>1. {i \in DOMAIN s : s[i] \in S} = 1..Len(s)
  OBVIOUS
<1>2. Len(s) \in Nat
  OBVIOUS
<1>3. Cardinality(1..Len(s)) = Len(s)
  BY <1>2, FS_Interval, SMTT(30)
<1> QED BY <1>1, <1>3 DEF CountIn

\* An empty sequence has no elements to count.
LEMMA CountNone == \A X : CountIn(<< >>, X) = 0
<1> TAKE X
<1>1. {i \in DOMAIN << >> : << >>[i] \in X} = {}
  OBVIOUS
<1> QED BY <1>1, FS_EmptySet DEF CountIn

\* One element more counts once, or not at all.
LEMMA CountAppend ==
  ASSUME NEW S, NEW s \in Seq(S), NEW e \in S, NEW X
  PROVE  CountIn(Append(s, e), X) = CountIn(s, X) + (IF e \in X THEN 1 ELSE 0)
<1> DEFINE t == Append(s, e)
           N == Len(s)
           A == {i \in DOMAIN s : s[i] \in X}
           B == {i \in DOMAIN t : t[i] \in X}
<1>1. /\ t \in Seq(S) /\ Len(t) = N + 1 /\ t[N + 1] = e /\ N \in Nat
      /\ \A i \in 1..N : t[i] = s[i]
  BY AppendProperties
<1>2. DOMAIN s = 1..N /\ DOMAIN t = 1..(N + 1)
  BY <1>1
<1> HIDE DEF t, N
<1>3. B = IF e \in X THEN A \cup {N + 1} ELSE A
  <2>1. \A i : i \in B <=> i \in A \/ (i = N + 1 /\ e \in X)
    <3> TAKE i
    <3>1. CASE i = N + 1
      BY <1>1, <1>2, <3>1
    <3>2. CASE i # N + 1
      <4>1. i \in 1..(N + 1) <=> i \in 1..N
        BY <1>1, <3>2
      <4> QED BY <1>1, <1>2, <3>2, <4>1
    <3> QED BY <3>1, <3>2
  <2> HIDE DEF A, B
  <2> QED BY <2>1
<1>4. IsFiniteSet(A) /\ Cardinality(A) \in Nat
  BY CountBounds DEF CountIn
<1>5. N + 1 \notin A
  BY <1>1, <1>2
<1> HIDE DEF A
<1>6. Cardinality(A \cup {N + 1}) = Cardinality(A) + 1
  BY <1>4, <1>5, FS_AddElement
<1>7. CountIn(s, X) = Cardinality(A) /\ CountIn(t, X) = Cardinality(B)
  BY DEF CountIn, A
<1> HIDE DEF B
<1>8. CountIn(t, X) = CountIn(s, X) + (IF e \in X THEN 1 ELSE 0)
  BY <1>3, <1>4, <1>6, <1>7
<1> QED BY <1>8 DEF t

\* The counts of a concatenation add up.
LEMMA CountConcat ==
  ASSUME NEW S, NEW s \in Seq(S), NEW X
  PROVE  \A u \in Seq(S) : CountIn(s \o u, X) = CountIn(s, X) + CountIn(u, X)
<1> DEFINE G == {u \in Seq(S) : CountIn(s \o u, X) = CountIn(s, X) + CountIn(u, X)}
<1>0. CountIn(s, X) \in Nat
  BY CountBounds
<1>1. << >> \in G
  <2>1. << >> \in Seq(S) /\ s \o << >> = s
    BY EmptySeq, ConcatEmptySeq
  <2> DEFINE z == << >>
  <2>2. CountIn(z, X) = 0
    BY CountNone
  <2> HIDE DEF z
  <2> QED BY <1>0, <2>1, <2>2 DEF z
<1>2. ASSUME NEW u \in Seq(S), NEW e \in S, u \in G PROVE Append(u, e) \in G
  <2>1. s \o Append(u, e) = Append(s \o u, e) /\ s \o u \in Seq(S)
        /\ Append(u, e) \in Seq(S)
    OBVIOUS
  <2>2. CountIn(Append(s \o u, e), X) = CountIn(s \o u, X) + (IF e \in X THEN 1 ELSE 0)
    BY <2>1, CountAppend
  <2>3. CountIn(Append(u, e), X) = CountIn(u, X) + (IF e \in X THEN 1 ELSE 0)
    BY CountAppend
  <2>4. CountIn(u, X) \in Nat
    BY CountBounds
  <2>5. CountIn(s \o u, X) = CountIn(s, X) + CountIn(u, X)
    BY <1>2
  <2>6. CountIn(s \o Append(u, e), X) = CountIn(s, X) + CountIn(Append(u, e), X)
    BY <1>0, <2>1, <2>2, <2>3, <2>4, <2>5
  <2> QED BY <2>1, <2>6
<1>3. Seq(S) \subseteq G
  <2> HIDE DEF G
  <2> QED BY <1>1, <1>2, SeqInduction
<1> QED BY <1>3

\* Each piece has as many elements in X as P says, in different places.
Shares(F, P, X) ==
  /\ \A i \in 1..Len(F) : IsFiniteSet(P[i]) /\ Cardinality(P[i]) = CountIn(F[i], X)
  /\ \A i, j \in 1..Len(F) : i # j => P[i] \cap P[j] = {}

\* The count over all pieces is the number of the places P gives to them.
LEMMA FlattenCount ==
  ASSUME NEW S, NEW X, NEW F, NEW P, SeqsOver(F, S), Shares(F, P, X)
  PROVE  /\ FlattenSeq(F) \in Seq(S)
         /\ IsFiniteSet(UNION {P[i] : i \in 1..Len(F)})
         /\ CountIn(FlattenSeq(F), X) = Cardinality(UNION {P[i] : i \in 1..Len(F)})
<1> DEFINE N == Len(F)
           U(n) == UNION {P[i] : i \in 1..n}
<1>1. N \in Nat /\ \A i \in 1..N : F[i] \in Seq(S)
  BY SeqsAre
<1>2. PICK G \in [0..N -> Seq(S)] : JoinOf(G, F) /\ FlattenSeq(F) = G[N]
  BY FlattenIs
<1>3. G[0] = << >> /\ \A n \in 1..N : G[n] = G[n - 1] \o F[n]
  BY <1>2 DEF JoinOf
<1> DEFINE T == {n \in 0..N : IsFiniteSet(U(n)) /\ CountIn(G[n], X) = Cardinality(U(n))}
<1> HIDE DEF N
<1>4. 0 \in T
  <2>1. U(0) = {}
    OBVIOUS
  <2> DEFINE z == << >>
  <2>2. CountIn(z, X) = 0 /\ G[0] = z
    BY <1>3, CountNone
  <2> HIDE DEF z
  <2>3. IsFiniteSet({}) /\ Cardinality({}) = 0
    BY FS_EmptySet
  <2>4. 0 \in 0..N
    BY <1>1
  <2> QED BY <2>1, <2>2, <2>3, <2>4
<1>5. ASSUME NEW n \in 0..(N - 1), n \in T PROVE n + 1 \in T
  <2>1. n + 1 \in 1..N /\ (n + 1) - 1 = n /\ n \in Nat /\ n \in 0..N /\ n + 1 \in 0..N
    BY <1>1
  <2>2. G[n + 1] = G[n] \o F[n + 1] /\ G[n] \in Seq(S) /\ F[n + 1] \in Seq(S)
    BY <1>1, <1>2, <1>3, <2>1
  <2>3. CountIn(G[n] \o F[n + 1], X) = CountIn(G[n], X) + CountIn(F[n + 1], X)
    BY <2>2, CountConcat
  <2> DEFINE A == U(n)
             B == P[n + 1]
  <2>4. U(n + 1) = A \cup B
    <3>1. 1..(n + 1) = (1..n) \cup {n + 1}
      BY <2>1
    <3> QED BY <3>1
  <2>5. IsFiniteSet(B) /\ Cardinality(B) = CountIn(F[n + 1], X)
    BY <2>1 DEF Shares, N
  <2>6. A \cap B = {}
    <3>1. ASSUME NEW i \in 1..n PROVE P[i] \cap B = {}
      <4>1. i \in 1..N /\ i # n + 1
        BY <1>1, <2>1
      <4> QED BY <2>1, <4>1 DEF Shares, N
    <3> QED BY <3>1
  <2>7. IsFiniteSet(A) /\ CountIn(G[n], X) = Cardinality(A)
    BY <1>5
  <2> HIDE DEF A, B
  <2>8. IsFiniteSet(A \cup B) /\ Cardinality(A \cup B) = Cardinality(A) + Cardinality(B)
    <3>1. /\ IsFiniteSet(A \cup B)
          /\ Cardinality(A \cup B) = Cardinality(A) + Cardinality(B) - Cardinality(A \cap B)
      BY <2>5, <2>7, FS_Union
    <3>2. Cardinality(A \cap B) = 0
      BY <2>6, FS_EmptySet
    <3>3. Cardinality(A) \in Nat /\ Cardinality(B) \in Nat
      BY <2>5, <2>7, FS_CardinalityType
    <3> QED BY <3>1, <3>2, <3>3
  <2>9. CountIn(G[n + 1], X) = Cardinality(A \cup B)
    BY <2>2, <2>3, <2>5, <2>7, <2>8
  <2> QED BY <2>1, <2>4, <2>8, <2>9
<1>6. 0..N \subseteq T
  <2> HIDE DEF T
  <2>1. \A n \in 0..(N - 1) : n \in T => n + 1 \in T
    BY <1>5
  <2>2. N \in Nat
    BY <1>1
  <2> QED BY ONLY <1>4, <2>1, <2>2, UpToInduction
<1>7. N \in T
  <2>1. N \in 0..N
    BY <1>1
  <2> HIDE DEF T
  <2> QED BY <1>6, <2>1
<1> QED BY <1>2, <1>7 DEF N

\* The elements at the places in K.
Keep(s, K) == FlattenSeq([i \in DOMAIN s |-> IF i \in K THEN <<s[i]>> ELSE << >>])

\* The one element counts once, or not at all.
LEMMA CountOne ==
  ASSUME NEW S, NEW e \in S, NEW X
  PROVE  CountIn(<<e>>, X) = IF e \in X THEN 1 ELSE 0
<1> DEFINE z == << >>
<1>1. z \in Seq(S) /\ Append(z, e) = <<e>>
  OBVIOUS
<1>2. CountIn(z, X) = 0
  BY CountNone
<1> HIDE DEF z
<1>3. CountIn(Append(z, e), X) = CountIn(z, X) + (IF e \in X THEN 1 ELSE 0)
  BY <1>1, CountAppend
<1> QED BY <1>1, <1>2, <1>3

\* The places in K of elements in X.
PlacesKept(s, K, X) == {i \in DOMAIN s : i \in K /\ s[i] \in X}

\* What Where keeps is counted at the places it is kept from.
LEMMA KeepCount ==
  ASSUME NEW S, NEW s \in Seq(S), NEW K, NEW X
  PROVE  /\ Keep(s, K) \in Seq(S)
         /\ IsFiniteSet(PlacesKept(s, K, X))
         /\ CountIn(Keep(s, K), X) = Cardinality(PlacesKept(s, K, X))
<1> DEFINE N == Len(s)
           F == [i \in DOMAIN s |-> IF i \in K THEN <<s[i]>> ELSE << >>]
           P == [i \in 1..N |-> IF i \in K /\ s[i] \in X THEN {i} ELSE {}]
           C == {i \in DOMAIN s : i \in K /\ s[i] \in X}
<1>1. N \in Nat /\ DOMAIN s = 1..N /\ \A i \in 1..N : s[i] \in S
  OBVIOUS
<1>2. \A i \in 1..N : F[i] = IF i \in K THEN <<s[i]>> ELSE << >>
  BY <1>1
<1>3. SeqsOver(F, S) /\ Len(F) = N
  <2> DEFINE Q == Seq(S)
  <2>1. \A i \in 1..N : F[i] \in Q
    BY <1>1
  <2>2. F = [i \in 1..N |-> F[i]]
    BY <1>1
  <2> HIDE DEF F, Q
  <2>3. F \in Seq(Q) /\ Len(F) = N
    BY <1>1, <2>1, <2>2
  <2> QED BY <2>3 DEF SeqsOver, Q
<1>4. UNION {P[i] : i \in 1..N} = C
  BY <1>1
<1>5. \A i \in 1..N : P[i] = IF i \in K /\ s[i] \in X THEN {i} ELSE {}
  OBVIOUS
<1> HIDE DEF F, P, N
<1>6. Shares(F, P, X)
  <2>1. ASSUME NEW i \in 1..N
        PROVE  IsFiniteSet(P[i]) /\ Cardinality(P[i]) = CountIn(F[i], X)
    <3> DEFINE z == << >>
               one == <<s[i]>>
    <3>0. F[i] = IF i \in K THEN one ELSE z
      BY <1>2
    <3>1. CountIn(z, X) = 0
      BY CountNone
    <3>2. CountIn(one, X) = IF s[i] \in X THEN 1 ELSE 0
      BY <1>1, CountOne
    <3>3. IsFiniteSet({}) /\ Cardinality({}) = 0 /\ IsFiniteSet({i}) /\ Cardinality({i}) = 1
      BY FS_EmptySet, FS_Singleton
    <3> HIDE DEF z, one
    <3>4. P[i] = IF i \in K /\ s[i] \in X THEN {i} ELSE {}
      BY <1>5
    <3>5. CASE i \in K
      BY <3>0, <3>2, <3>3, <3>4, <3>5
    <3>6. CASE i \notin K
      BY <3>0, <3>1, <3>3, <3>4, <3>6
    <3> QED BY <3>5, <3>6
  <2>2. \A i, j \in 1..N : i # j => P[i] \cap P[j] = {}
    <3>1. \A i \in 1..N : P[i] \subseteq {i}
      BY <1>5
    <3> QED BY <3>1
  <2> QED BY <1>3, <2>1, <2>2 DEF Shares
<1> HIDE DEF C
<1>7. /\ FlattenSeq(F) \in Seq(S) /\ IsFiniteSet(C)
      /\ CountIn(FlattenSeq(F), X) = Cardinality(C)
  <2>1. /\ FlattenSeq(F) \in Seq(S)
        /\ IsFiniteSet(UNION {P[i] : i \in 1..Len(F)})
        /\ CountIn(FlattenSeq(F), X) = Cardinality(UNION {P[i] : i \in 1..Len(F)})
    <3>1. SeqsOver(F, S)
      BY <1>3
    <3> QED BY ONLY <1>6, <3>1, FlattenCount, Z3T(30)
  <2> QED BY <1>3, <1>4, <2>1, Zenon
<1> QED BY <1>7 DEF Keep, PlacesKept, F, C

---------------------------------------------------------------------------
(* Folding *)

\* A step g for every element of s, from b.
Folds(h, g, b, s) == h[0] = b /\ \A n \in 1..Len(s) : h[n] = g[h[n - 1]][s[n]]

\* The values of a fold exist, and are in X.
LEMMA FoldWitness ==
  ASSUME NEW X, NEW E, NEW g \in [X -> [E -> X]], NEW b \in X, NEW s \in Seq(E)
  PROVE  \E h \in [0..Len(s) -> X] : Folds(h, g, b, s)
<1> DEFINE N == Len(s)
           k == [n \in Nat |-> [x \in X |-> IF n \in 1..N THEN g[x][s[n]] ELSE b]]
<1>1. N \in Nat /\ \A n \in 1..N : s[n] \in E
  OBVIOUS
<1>2. k \in [Nat -> [X -> X]]
  <2>1. ASSUME NEW n \in Nat, NEW x \in X
        PROVE  (IF n \in 1..N THEN g[x][s[n]] ELSE b) \in X
    BY <1>1
  <2> QED BY <2>1
<1>3. \A n \in 1..N, x \in X : k[n][x] = g[x][s[n]]
  BY <1>1
<1> HIDE DEF k, N
<1>4. PICK h \in [0..N -> X] : FoldOf(h, k, b, N)
  BY <1>1, <1>2, FoldExists, Zenon
<1>5. h[0] = b /\ \A n \in 1..N : h[n] = k[n][h[n - 1]]
  BY <1>4 DEF FoldOf
<1>6. ASSUME NEW n \in 1..N PROVE h[n] = g[h[n - 1]][s[n]]
  <2>1. h[n - 1] \in X
    BY <1>1
  <2> QED BY <1>3, <1>5, <2>1
<1> QED BY <1>4, <1>5, <1>6 DEF N, Folds

\* The beginning of a sequence grows by one element.
LEMMA PrefixNext ==
  ASSUME NEW S, NEW s \in Seq(S)
  PROVE  /\ SubSeq(s, 1, 0) = << >> /\ SubSeq(s, 1, Len(s)) = s
         /\ \A n \in 0..Len(s) : SubSeq(s, 1, n) \in Seq(S)
         /\ \A n \in 0..(Len(s) - 1) :
              SubSeq(s, 1, n + 1) = Append(SubSeq(s, 1, n), s[n + 1])
<1>1. SubSeq(s, 1, 0) = << >> /\ SubSeq(s, 1, Len(s)) = s
  OBVIOUS
<1>2. \A n \in 0..Len(s) : SubSeq(s, 1, n) \in Seq(S)
  OBVIOUS
<1>3. ASSUME NEW n \in 0..(Len(s) - 1)
      PROVE  SubSeq(s, 1, n + 1) = Append(SubSeq(s, 1, n), s[n + 1])
  <2> DEFINE p == SubSeq(s, 1, n)
             q == SubSeq(s, 1, n + 1)
             r == Append(p, s[n + 1])
  <2>0. n \in Nat /\ Len(s) \in Nat /\ n + 1 \in 1..Len(s)
        /\ \A i \in 1..Len(s) : s[i] \in S
    OBVIOUS
  <2>1. p \in Seq(S) /\ Len(p) = n /\ \A i \in 1..n : p[i] = s[i]
    BY <2>0, SubSeqProperties
  <2>2. q \in Seq(S) /\ Len(q) = n + 1 /\ \A i \in 1..(n + 1) : q[i] = s[i]
    BY <2>0, SubSeqProperties
  <2> HIDE DEF p, q
  <2>3. r \in Seq(S) /\ Len(r) = n + 1 /\ r[n + 1] = s[n + 1] /\ \A i \in 1..n : r[i] = p[i]
    BY <2>0, <2>1, AppendProperties
  <2> HIDE DEF r
  <2>4. \A i \in 1..(n + 1) : q[i] = r[i]
    <3> TAKE i \in 1..(n + 1)
    <3>1. i = n + 1 \/ i \in 1..n
      BY <2>0
    <3> QED BY <2>1, <2>2, <2>3, <3>1
  <2>5. q = r
    BY <2>2, <2>3, <2>4, SeqEqual
  <2> QED BY <2>5 DEF p, q, r
<1> QED BY <1>1, <1>2, <1>3

\* An element counts the same wherever it is put.
LEMMA InsertCount ==
  ASSUME NEW S, NEW s \in Seq(S), NEW d \in S, NEW p \in 0..Len(s), NEW X
  PROVE  /\ InsertAt(s, p + 1, d) \in Seq(S)
         /\ CountIn(InsertAt(s, p + 1, d), X) = CountIn(s, X) + CountIn(<<d>>, X)
<1> DEFINE x == SubSeq(s, 1, p)
           y == SubSeq(s, p + 1, Len(s))
<1>0. (p + 1) - 1 = p
  OBVIOUS
<1>1. /\ x \in Seq(S) /\ y \in Seq(S) /\ s = x \o y
      /\ InsertAt(s, p + 1, d) = (x \o <<d>>) \o y
  BY <1>0, SplitAt DEF InsertAt
<1> HIDE DEF x, y
<1>2. <<d>> \in Seq(S) /\ x \o <<d>> \in Seq(S) /\ (x \o <<d>>) \o y \in Seq(S)
  BY <1>1, ConcatProperties
<1>3. CountIn(s, X) = CountIn(x, X) + CountIn(y, X)
  BY <1>1, CountConcat
<1>4. CountIn(x \o <<d>>, X) = CountIn(x, X) + CountIn(<<d>>, X)
  BY <1>1, <1>2, CountConcat, ZenonT(60)
<1>5. CountIn((x \o <<d>>) \o y, X) = CountIn(x \o <<d>>, X) + CountIn(y, X)
  BY <1>1, <1>2, CountConcat
<1>6. CountIn(x, X) \in Nat /\ CountIn(y, X) \in Nat /\ CountIn(<<d>>, X) \in Nat
  BY <1>1, <1>2, CountBounds
<1>7. CountIn((x \o <<d>>) \o y, X) = CountIn(s, X) + CountIn(<<d>>, X)
  BY <1>3, <1>4, <1>5, <1>6
<1>8. InsertAt(s, p + 1, d) = (x \o <<d>>) \o y
  BY <1>1
<1> QED BY ONLY <1>2, <1>7, <1>8, Zenon

\* The same for the elements of the elements.
LEMMA InsertTimes ==
  ASSUME NEW S, NEW s \in Seq(Seq(S)), NEW d \in Seq(S), NEW p \in 0..Len(s), NEW X
  PROVE  CountIn(FlattenSeq(InsertAt(s, p + 1, d)), X)
           = CountIn(FlattenSeq(s), X) + CountIn(d, X)
<1> DEFINE Q == Seq(S)
           F(a) == FlattenSeq(a)
           one == <<d>>
<1> DEFINE x == SubSeq(s, 1, p)
           y == SubSeq(s, p + 1, Len(s))
<1>0. (p + 1) - 1 = p /\ s \in Seq(Q) /\ d \in Q
  OBVIOUS
<1>1. /\ x \in Seq(Q) /\ y \in Seq(Q) /\ s = x \o y
      /\ InsertAt(s, p + 1, d) = (x \o one) \o y
  <2> HIDE DEF Q
  <2> QED BY <1>0, SplitAt DEF InsertAt
<1> HIDE DEF x, y
<1>2. one \in Seq(Q) /\ x \o one \in Seq(Q)
  BY <1>1, ConcatProperties
<1>3. F(one) = d
  BY FlattenOne
<1>4. \A a, b \in Seq(Q) : F(a) \in Seq(S) /\ F(b) \in Seq(S) /\ F(a \o b) = F(a) \o F(b)
  <2> TAKE a, b \in Seq(Q)
  <2>1. SeqsOver(a, S) /\ SeqsOver(b, S)
    BY DEF SeqsOver
  <2> QED BY <2>1, FlattenConcat
<1>5. \A a, b \in Seq(S) : CountIn(a \o b, X) = CountIn(a, X) + CountIn(b, X)
  BY CountConcat
<1>6. \A a \in Seq(S) : CountIn(a, X) \in Nat
  BY CountBounds
<1> HIDE DEF F, one, Q
<1>7. F(x \o y) = F(x) \o F(y) /\ F(x \o one) = F(x) \o F(one)
      /\ F((x \o one) \o y) = F(x \o one) \o F(y)
  BY <1>1, <1>2, <1>4
<1>8. F(x) \in Seq(S) /\ F(y) \in Seq(S) /\ F(one) \in Seq(S) /\ F(x \o one) \in Seq(S)
  BY <1>1, <1>2, <1>4
<1>9. /\ CountIn(F(x \o y), X) = CountIn(F(x), X) + CountIn(F(y), X)
      /\ CountIn(F(x \o one), X) = CountIn(F(x), X) + CountIn(F(one), X)
      /\ CountIn(F((x \o one) \o y), X) = CountIn(F(x \o one), X) + CountIn(F(y), X)
  BY <1>5, <1>7, <1>8
<1>10. CountIn(F(x), X) \in Nat /\ CountIn(F(y), X) \in Nat /\ CountIn(F(one), X) \in Nat
  BY <1>6, <1>8
<1>11. CountIn(F((x \o one) \o y), X) = CountIn(F(x \o y), X) + CountIn(F(one), X)
  BY <1>9, <1>10
<1> QED BY <1>1, <1>3, <1>11 DEF F

---------------------------------------------------------------------------
(* Sorting *)

\* How many of the list are not greater, and the list with r behind that many.
SortSpot(rset, fields, l, r) ==
  Cardinality({i \in DOMAIN l : rec_rset_compare_typed_records(rset, l[i], r, fields) <= 0})
SortAdd(rset, fields, l, r) == InsertAt(l, SortSpot(rset, fields, l, r) + 1, r)

\* A record is put somewhere in the list.
LEMMA SpotInList ==
  ASSUME NEW S, NEW rset, NEW fields, NEW l \in Seq(S), NEW r
  PROVE  SortSpot(rset, fields, l, r) \in 0..Len(l)
<1> DEFINE A == {i \in DOMAIN l : rec_rset_compare_typed_records(rset, l[i], r, fields) <= 0}
<1>1. A \subseteq 1..Len(l)
  OBVIOUS
<1>0. Len(l) \in Nat
  OBVIOUS
<1> HIDE DEF A
<1>2. IsFiniteSet(1..Len(l)) /\ Cardinality(1..Len(l)) = Len(l)
  BY <1>0, FS_Interval, SMTT(30)
<1>3. IsFiniteSet(A) /\ Cardinality(A) <= Len(l)
  BY <1>1, <1>2, FS_Subset, Zenon
<1>4. Cardinality(A) \in Nat
  BY <1>3, FS_CardinalityType, Zenon
<1>5. Cardinality(A) \in 0..Len(l)
  BY <1>0, <1>3, <1>4
<1> QED BY <1>5 DEF A, SortSpot

\* The values of the fold in SortedRecords.
SortRun(v, rset, fields) ==
  /\ SortedRecords(rset, fields) = v[Len(rset.recs)]
  /\ v[0] = << >>
  /\ \A n \in 1..Len(rset.recs) :
       v[n] = SortAdd(rset, fields, v[n - 1], rset.recs[n])
LEMMA SortedSteps ==
  ASSUME NEW S, NEW rset, NEW fields, rset.recs \in Seq(S)
  PROVE  \E v \in [0..Len(rset.recs) -> Seq(S)] : SortRun(v, rset, fields)
<1> DEFINE s == rset.recs
           N == Len(s)
           Q == Seq(S)
           add(l, r) == SortAdd(rset, fields, l, r)
           at(f, n) == IF n = 0 THEN << >> ELSE add(f[n - 1], s[n])
           rec(f) == [n \in 0..N |-> at(f, n)]
           g == [l \in Q |-> [r \in S |-> add(l, r)]]
           v == CHOOSE f : f = rec(f)
<1>1. SortedRecords(rset, fields) = v[N]
  BY DEF SortedRecords, Folded, SortAdd, SortSpot
<1>2. N \in Nat /\ << >> \in Q /\ \A n \in 1..N : s[n] \in S
  OBVIOUS
<1>3. \A l \in Q, r \in S : add(l, r) \in Q
  <2> TAKE l \in Q, r \in S
  <2> DEFINE p == SortSpot(rset, fields, l, r)
  <2>1. p \in 0..Len(l)
    BY SpotInList
  <2> HIDE DEF p
  <2>2. InsertAt(l, p + 1, r) \in Seq(S)
    BY <2>1, InsertCount
  <2> QED BY <2>2 DEF SortAdd, p
<1> DEFINE b == << >>
<1> HIDE DEF add, Q, b
<1>4. g \in [Q -> [S -> Q]]
  BY <1>3
<1>5. \A l \in Q, r \in S : g[l][r] = add(l, r)
  OBVIOUS
<1> HIDE DEF g
<1>6. s \in Seq(S) /\ b \in Q
  BY <1>2 DEF b
<1> HIDE DEF s
<1>14. PICK h \in [0..N -> Q] : Folds(h, g, b, s)
  BY <1>4, <1>6, FoldWitness, Zenon
<1>7. h \in [0..N -> Q] /\ h[0] = b /\ \A n \in 1..N : h[n] = g[h[n - 1]][s[n]]
  BY <1>14 DEF Folds
<1> HIDE DEF N
<1>8. ASSUME NEW n \in 0..N PROVE h[n] = at(h, n)
  <2>1. CASE n = 0
    BY <1>7, <2>1 DEF b
  <2>2. CASE n # 0
    <3>1. n \in 1..N /\ h[n - 1] \in Q
      BY <1>2, <1>7, <2>2
    <3> QED BY <1>2, <1>5, <1>7, <2>2, <3>1
  <2> QED BY <2>1, <2>2
<1>9. h = rec(h)
  BY <1>7, <1>8
<1>10. v = rec(v)
  <2> HIDE DEF rec
  <2> QED BY <1>9
<1>11. v[0] = b /\ \A n \in 1..N : v[n] = add(v[n - 1], s[n])
  <2> HIDE DEF v
  <2> QED BY <1>2, <1>10 DEF b
<1>12. \A n \in 0..N : v[n] \in Q
  <2> DEFINE T == {n \in 0..N : v[n] \in Q}
  <2> HIDE DEF v
  <2>1. 0 \in T
    BY <1>2, <1>6, <1>11
  <2>2. \A n \in 0..(N - 1) : n \in T => n + 1 \in T
    <3> TAKE n \in 0..(N - 1)
    <3>1. n + 1 \in 1..N /\ (n + 1) - 1 = n /\ n + 1 \in 0..N
      BY <1>2
    <3> QED BY <1>2, <1>3, <1>11, <3>1
  <2> HIDE DEF T
  <2>3. 0..N \subseteq T
    BY <1>2, <2>1, <2>2, UpToInduction
  <2> QED BY <2>3 DEF T
<1>13. v \in [0..N -> Q]
  <2> HIDE DEF v
  <2> QED BY <1>10, <1>12
<1> HIDE DEF v
<1>15. SortRun(v, rset, fields)
  BY <1>1, <1>11 DEF N, s, add, b, SortRun
<1> QED BY <1>13, <1>15 DEF N, s, Q

\* A sorted record set has the same records, and the same fields in them.
LEMMA SortKeepsRecords ==
  ASSUME NEW S, NEW rset, NEW fields, rset.recs \in Seq(S), NEW X
  PROVE  /\ SortedRecords(rset, fields) \in Seq(S)
         /\ CountIn(SortedRecords(rset, fields), X) = CountIn(rset.recs, X)
<1> DEFINE s == rset.recs
           N == Len(s)
           J(n) == SubSeq(s, 1, n)
           Step(v) == \A n \in 1..N : v[n] = SortAdd(rset, fields, v[n - 1], s[n])
<1>8. PICK v \in [0..N -> Seq(S)] : SortRun(v, rset, fields)
  BY SortedSteps
<1>1. SortedRecords(rset, fields) = v[N] /\ v[0] = << >> /\ Step(v)
  BY <1>8 DEF SortRun
<1>2. N \in Nat /\ s \in Seq(S) /\ \A n \in 1..N : s[n] \in S
  OBVIOUS
<1>3. /\ J(0) = << >> /\ J(N) = s
      /\ \A n \in 0..N : J(n) \in Seq(S)
      /\ \A n \in 0..(N - 1) : J(n + 1) = Append(J(n), s[n + 1])
  BY PrefixNext
<1> DEFINE T == {n \in 0..N : CountIn(v[n], X) = CountIn(J(n), X)}
<1>4. 0 \in T
  <2>1. v[0] = J(0) /\ 0 \in 0..N
    BY <1>1, <1>2, <1>3
  <2> QED BY <2>1
<1>5. \A n \in 0..(N - 1) : n \in T => n + 1 \in T
  <2> SUFFICES ASSUME NEW n \in 0..(N - 1), n \in T PROVE n + 1 \in T
    OBVIOUS
  <2> DEFINE l == v[n]
             r == s[n + 1]
             p == SortSpot(rset, fields, l, r)
             w == v[n + 1]
             a == J(n)
             c == J(n + 1)
  <2>1. n + 1 \in 1..N /\ (n + 1) - 1 = n /\ n + 1 \in 0..N /\ n \in 0..N
    BY <1>2
  <2>2. l \in Seq(S) /\ r \in S /\ w = SortAdd(rset, fields, l, r)
    BY <1>1, <1>2, <2>1
  <2>3. a \in Seq(S) /\ c = Append(a, r) /\ CountIn(l, X) = CountIn(a, X)
    BY <1>3, <2>1
  <2>4. p \in 0..Len(l)
    BY <2>2, SpotInList
  <2> HIDE DEF l, r, p, w, a, c
  <2>5. w = InsertAt(l, p + 1, r)
    BY <2>2 DEF SortAdd, p
  <2>6. CountIn(w, X) = CountIn(l, X) + CountIn(<<r>>, X)
    BY <2>2, <2>4, <2>5, InsertCount
  <2>7. CountIn(c, X) = CountIn(a, X) + (IF r \in X THEN 1 ELSE 0)
    BY <2>2, <2>3, CountAppend
  <2>8. CountIn(<<r>>, X) = IF r \in X THEN 1 ELSE 0
    BY <2>2, CountOne
  <2>9. CountIn(w, X) = CountIn(c, X)
    BY <2>3, <2>6, <2>7, <2>8
  <2> QED BY <2>1, <2>9 DEF w, c
<1>6. N \in T
  <2> HIDE DEF T
  <2>1. 0..N \subseteq T
    BY <1>2, <1>4, <1>5, UpToInduction
  <2> QED BY <1>2, <2>1
<1>7. CountIn(v[N], X) = CountIn(s, X) /\ v[N] \in Seq(S)
  BY <1>1, <1>2, <1>3, <1>6
<1> QED BY <1>1, <1>7

\* Sorting keeps every field as often as it was.
LEMMA SortKeepsFields ==
  ASSUME NEW S, NEW rset, NEW fields, rset.recs \in Seq(Seq(S)), NEW X
  PROVE  CountIn(FlattenSeq(SortedRecords(rset, fields)), X) = CountIn(FlattenSeq(rset.recs), X)
<1> DEFINE s == rset.recs
           Q == Seq(S)
           N == Len(s)
           J(n) == SubSeq(s, 1, n)
           F(a) == FlattenSeq(a)
           Step(v) == \A n \in 1..N : v[n] = SortAdd(rset, fields, v[n - 1], s[n])
<1>8. PICK v \in [0..N -> Seq(Q)] : SortRun(v, rset, fields)
  BY SortedSteps
<1>1. SortedRecords(rset, fields) = v[N] /\ v[0] = << >> /\ Step(v)
  BY <1>8 DEF SortRun
<1>2. N \in Nat /\ s \in Seq(Q) /\ \A n \in 1..N : s[n] \in Q
  OBVIOUS
<1>3. /\ J(0) = << >> /\ J(N) = s
      /\ \A n \in 0..N : J(n) \in Seq(Q)
      /\ \A n \in 0..(N - 1) : J(n + 1) = Append(J(n), s[n + 1])
  <2> HIDE DEF Q, s, N
  <2> QED BY <1>2, PrefixNext DEF N
<1> DEFINE T == {n \in 0..N : CountIn(F(v[n]), X) = CountIn(F(J(n)), X)}
<1>4. 0 \in T
  <2>1. v[0] = J(0) /\ 0 \in 0..N
    BY <1>1, <1>2, <1>3
  <2> QED BY <2>1
<1>5. \A n \in 0..(N - 1) : n \in T => n + 1 \in T
  <2> SUFFICES ASSUME NEW n \in 0..(N - 1), n \in T PROVE n + 1 \in T
    OBVIOUS
  <2> DEFINE l == v[n]
             r == s[n + 1]
             p == SortSpot(rset, fields, l, r)
             w == v[n + 1]
             a == J(n)
             c == J(n + 1)
  <2>1. n + 1 \in 1..N /\ (n + 1) - 1 = n /\ n + 1 \in 0..N /\ n \in 0..N
    BY <1>2
  <2>2. l \in Seq(Q) /\ r \in Q /\ w = SortAdd(rset, fields, l, r)
    BY <1>1, <1>2, <2>1
  <2>3. a \in Seq(Q) /\ c = Append(a, r) /\ CountIn(F(l), X) = CountIn(F(a), X)
    BY <1>3, <2>1
  <2>4. p \in 0..Len(l)
    BY <2>2, SpotInList
  <2> HIDE DEF l, r, p, w, a, c
  <2>5. w = InsertAt(l, p + 1, r)
    BY <2>2 DEF SortAdd, p
  <2>6. CountIn(F(w), X) = CountIn(F(l), X) + CountIn(r, X)
    BY <2>2, <2>4, <2>5, InsertTimes
  <2>7. F(c) = F(a) \o r /\ F(a) \in Q
    <3>1. SeqsOver(a, S)
      BY <2>3 DEF SeqsOver
    <3> QED BY <2>2, <2>3, <3>1, FlattenAppend
  <2>8. CountIn(F(a) \o r, X) = CountIn(F(a), X) + CountIn(r, X)
    BY <2>2, <2>7, CountConcat
  <2>9. CountIn(F(w), X) = CountIn(F(c), X)
    BY <2>3, <2>6, <2>7, <2>8
  <2> QED BY <2>1, <2>9 DEF w, c
<1>6. N \in T
  <2> HIDE DEF T
  <2>1. 0..N \subseteq T
    BY <1>2, <1>4, <1>5, UpToInduction
  <2> QED BY <1>2, <2>1
<1>7. CountIn(F(v[N]), X) = CountIn(F(s), X)
  BY <1>3, <1>6
<1> QED BY <1>1, <1>7

\* Sorting keeps the number of the records.
LEMMA SortKeepsLength ==
  ASSUME NEW S, NEW rset, NEW fields, rset.recs \in Seq(S)
  PROVE  Len(SortedRecords(rset, fields)) = Len(rset.recs)
<1> DEFINE t == SortedRecords(rset, fields)
<1>1. t \in Seq(S) /\ CountIn(t, S) = CountIn(rset.recs, S)
  BY SortKeepsRecords
<1> HIDE DEF t
<1>2. CountIn(t, S) = Len(t) /\ CountIn(rset.recs, S) = Len(rset.recs)
  BY <1>1, CountAll
<1> QED BY <1>1, <1>2 DEF t

---------------------------------------------------------------------------
(* Grouping *)

\* One step of a grouping, and the records at its end.
GroupAdd(rset, by, groups, r) ==
  IF groups # << >> /\ rec_rset_compare_typed_records(rset, Last(groups), r, by) = 0
  THEN Append(Front(groups), rec_rset_merge_records(Last(groups), r, by))
  ELSE Append(groups, r)
Grouped(rset, by) == rec_rset_group(rset, by).recs

\* The fields whose names are not in a sequence.
Others(by) == {f \in Fields : f.n \notin Range(by)}

\* Nothing that counts is lost if the places of all that counts are kept.
LEMMA KeepIsSame ==
  ASSUME NEW S, NEW s \in Seq(S), NEW K, NEW X, \A i \in DOMAIN s : s[i] \in X => i \in K
  PROVE  CountIn(Keep(s, K), X) = CountIn(s, X)
<1> DEFINE A == {i \in DOMAIN s : i \in K /\ s[i] \in X}
           B == {i \in DOMAIN s : s[i] \in X}
<1>1. A = B
  OBVIOUS
<1>2. CountIn(Keep(s, K), X) = Cardinality(A)
  <2>1. CountIn(Keep(s, K), X) = Cardinality(PlacesKept(s, K, X))
    BY KeepCount
  <2> QED BY <2>1 DEF PlacesKept
<1>3. CountIn(s, X) = Cardinality(B)
  BY DEF CountIn
<1> HIDE DEF A, B
<1> QED BY <1>1, <1>2, <1>3

\* The merged record has the fields of both but those of the group.
LEMMA MergeKeeps ==
  ASSUME NEW to \in Records, NEW from \in Records, NEW by, NEW X \in SUBSET Others(by)
  PROVE  /\ rec_rset_merge_records(to, from, by) \in Records
         /\ CountIn(rec_rset_merge_records(to, from, by), X)
              = CountIn(to, X) + CountIn(from, X)
<1> DEFINE K == {i \in DOMAIN from : from[i].n \notin Range(by)}
           k == Keep(from, K)
           m == rec_rset_merge_records(to, from, by)
<1>1. m = to \o k
  <2>1. [i \in DOMAIN from |-> IF from[i].n \notin Range(by) THEN <<from[i]>> ELSE << >>]
          = [i \in DOMAIN from |-> IF i \in K THEN <<from[i]>> ELSE << >>]
    OBVIOUS
  <2> QED BY <2>1 DEF rec_rset_merge_records, Where, Keep
<1>2. to \in Seq(Fields) /\ from \in Seq(Fields) /\ to # << >>
  BY DEF Records
<1>3. k \in Seq(Fields)
  BY <1>2, KeepCount
<1>4. \A i \in DOMAIN from : from[i] \in X => i \in K
  BY DEF Others
<1> HIDE DEF K
<1>5. CountIn(k, X) = CountIn(from, X)
  BY <1>2, <1>4, KeepIsSame
<1> HIDE DEF k, m
<1>6. CountIn(to \o k, X) = CountIn(to, X) + CountIn(k, X)
  BY <1>2, <1>3, CountConcat
<1>7. to \o k \in Seq(Fields) /\ to \o k # << >>
  <2>1. Len(to) # 0 /\ Len(to) \in Nat /\ Len(k) \in Nat
    BY <1>2, <1>3, EmptySeq
  <2>2. to \o k \in Seq(Fields) /\ Len(to \o k) = Len(to) + Len(k)
    BY <1>2, <1>3, ConcatProperties
  <2>3. Len(to \o k) # 0
    BY <2>1, <2>2
  <2> QED BY <2>2, <2>3
<1>8. m \in Records /\ CountIn(m, X) = CountIn(to, X) + CountIn(from, X)
  BY <1>1, <1>5, <1>6, <1>7 DEF Records
<1> QED BY <1>8 DEF m

\* A record more, in a group of its own or in the last one.
LEMMA GroupAddKeeps ==
  ASSUME NEW rset, NEW by, NEW l \in Seq(Records), NEW r \in Records,
         NEW X \in SUBSET Others(by)
  PROVE  /\ GroupAdd(rset, by, l, r) \in Seq(Records)
         /\ CountIn(FlattenSeq(GroupAdd(rset, by, l, r)), X)
              = CountIn(FlattenSeq(l), X) + CountIn(r, X)
<1> DEFINE w == GroupAdd(rset, by, l, r)
           F(a) == FlattenSeq(a)
<1>1. \A a \in Seq(Records) : SeqsOver(a, Fields)
  BY DEF Records, SeqsOver
<1>2. \A a \in Records : a \in Seq(Fields)
  BY DEF Records
<1>3. ASSUME NEW a \in Seq(Records), NEW e \in Records
      PROVE  /\ F(a) \in Seq(Fields)
             /\ CountIn(F(Append(a, e)), X) = CountIn(F(a), X) + CountIn(e, X)
  <2>1. F(a) \in Seq(Fields) /\ F(Append(a, e)) = F(a) \o e
    BY <1>1, <1>2, FlattenAppend
  <2> QED BY <1>2, <2>1, CountConcat
<1>4. CASE w = Append(l, r)
  BY <1>3, <1>4
<1>5. CASE l # << >> /\ w = Append(Front(l), rec_rset_merge_records(Last(l), r, by))
  <2> DEFINE f == Front(l)
             e == Last(l)
             m == rec_rset_merge_records(e, r, by)
  <2>1. f \in Seq(Records) /\ e \in Records /\ l = Append(f, e)
    <3> DEFINE R == Records
               n == Len(l) - 1
    <3>1. l \in Seq(R) /\ n \in Nat /\ Len(l) = n + 1 /\ \A i \in 1..(n + 1) : l[i] \in R
      BY <1>5, EmptySeq
    <3> HIDE DEF R
    <3>2. /\ SubSeq(l, 1, Len(l)) = l /\ n \in 0..(Len(l) - 1)
          /\ \A j \in 0..Len(l) : SubSeq(l, 1, j) \in Seq(R)
          /\ \A j \in 0..(Len(l) - 1) :
               SubSeq(l, 1, j + 1) = Append(SubSeq(l, 1, j), l[j + 1])
      BY <3>1, PrefixNext
    <3>3. f = SubSeq(l, 1, n) /\ e = l[n + 1]
      BY <3>1 DEF Front, Last
    <3>4. l = Append(f, e) /\ f \in Seq(R) /\ e \in R
      BY <3>1, <3>2, <3>3
    <3> QED BY <3>4 DEF R
  <2> HIDE DEF f, e
  <2>2. m \in Records /\ CountIn(m, X) = CountIn(e, X) + CountIn(r, X)
    BY <2>1, MergeKeeps
  <2>3. w = Append(f, m)
    BY <1>5 DEF f, e
  <2> HIDE DEF m, w
  <2>4. F(f) \in Seq(Fields)
        /\ CountIn(F(w), X) = CountIn(F(f), X) + CountIn(m, X)
        /\ CountIn(F(l), X) = CountIn(F(f), X) + CountIn(e, X)
    BY <1>3, <2>1, <2>2, <2>3
  <2>5. CountIn(F(f), X) \in Nat /\ CountIn(e, X) \in Nat /\ CountIn(r, X) \in Nat
    BY <1>2, <2>1, <2>4, CountBounds
  <2>6. w \in Seq(Records)
    BY <2>1, <2>2, <2>3
  <2>7. CountIn(F(w), X) = CountIn(F(l), X) + CountIn(r, X)
    BY <2>2, <2>4, <2>5
  <2> QED BY <2>6, <2>7 DEF w
<1> QED BY <1>4, <1>5 DEF GroupAdd

\* The values of the fold in rec_rset_group.
GroupRun(v, rset, by) ==
  /\ Grouped(rset, by) = v[Len(rset.recs)]
  /\ v[0] = << >>
  /\ \A n \in 1..Len(rset.recs) : v[n] = GroupAdd(rset, by, v[n - 1], rset.recs[n])

\* The records of a grouping are the last value of its steps.
LEMMA GroupSteps ==
  ASSUME NEW rset, IsRset(rset), NEW by
  PROVE  \E v \in [0..Len(rset.recs) -> Seq(Records)] : GroupRun(v, rset, by)
<1> DEFINE s == rset.recs
           N == Len(s)
           Q == Seq(Records)
           add(l, r) == GroupAdd(rset, by, l, r)
           at(f, n) == IF n = 0 THEN << >> ELSE add(f[n - 1], s[n])
           rec(f) == [n \in 0..N |-> at(f, n)]
           g == [l \in Q |-> [r \in Records |-> add(l, r)]]
           v == CHOOSE f : f = rec(f)
<1>1. Grouped(rset, by) = v[N]
  <2> DEFINE y == Folded(LAMBDA l, r : add(l, r), << >>, s)
             c == rset.count - (Len(s) - Len(y))
  <2>1. rec_rset_group(rset, by) = [rset EXCEPT !.recs = y, !.count = c]
    BY DEF rec_rset_group, GroupAdd
  <2>2. y = v[N]
    BY DEF Folded
  <2> HIDE DEF y, c
  <2>3. [rset EXCEPT !.recs = y, !.count = c].recs = y
    BY DEF IsRset
  <2> QED BY <2>1, <2>2, <2>3 DEF Grouped
<1>2. s \in Seq(Records) /\ N \in Nat /\ << >> \in Q /\ \A n \in 1..N : s[n] \in Records
  BY DEF IsRset
<1>3. \A l \in Q, r \in Records : add(l, r) \in Q
  <2> TAKE l \in Q, r \in Records
  <2>1. {} \in SUBSET Others(by)
    OBVIOUS
  <2> QED BY <2>1, GroupAddKeeps
<1> DEFINE b == << >>
<1> HIDE DEF add, Q, b
<1>4. g \in [Q -> [Records -> Q]]
  BY <1>3
<1>5. \A l \in Q, r \in Records : g[l][r] = add(l, r)
  OBVIOUS
<1> HIDE DEF g
<1>6. b \in Q
  BY <1>2 DEF b
<1> HIDE DEF s
<1>14. PICK h \in [0..N -> Q] : Folds(h, g, b, s)
  BY <1>2, <1>4, <1>6, FoldWitness, Zenon
<1>7. h \in [0..N -> Q] /\ h[0] = b /\ \A n \in 1..N : h[n] = g[h[n - 1]][s[n]]
  BY <1>14 DEF Folds
<1> HIDE DEF N
<1>8. ASSUME NEW n \in 0..N PROVE h[n] = at(h, n)
  <2>1. CASE n = 0
    BY <1>7, <2>1 DEF b
  <2>2. CASE n # 0
    <3>1. n \in 1..N /\ h[n - 1] \in Q
      BY <1>2, <1>7, <2>2
    <3> QED BY <1>2, <1>5, <1>7, <2>2, <3>1
  <2> QED BY <2>1, <2>2
<1>9. h = rec(h)
  BY <1>7, <1>8
<1>10. v = rec(v)
  <2> HIDE DEF rec
  <2> QED BY <1>9
<1>11. v[0] = b /\ \A n \in 1..N : v[n] = add(v[n - 1], s[n])
  <2> HIDE DEF v
  <2> QED BY <1>2, <1>10 DEF b
<1>12. \A n \in 0..N : v[n] \in Q
  <2> DEFINE T == {n \in 0..N : v[n] \in Q}
  <2> HIDE DEF v
  <2>1. 0 \in T
    BY <1>2, <1>6, <1>11
  <2>2. \A n \in 0..(N - 1) : n \in T => n + 1 \in T
    <3> TAKE n \in 0..(N - 1)
    <3>1. n + 1 \in 1..N /\ (n + 1) - 1 = n /\ n + 1 \in 0..N
      BY <1>2
    <3> QED BY <1>2, <1>3, <1>11, <3>1
  <2> HIDE DEF T
  <2>3. 0..N \subseteq T
    BY <1>2, <2>1, <2>2, UpToInduction
  <2> QED BY <2>3 DEF T
<1>13. v \in [0..N -> Q]
  <2> HIDE DEF v
  <2> QED BY <1>10, <1>12
<1> HIDE DEF v
<1>15. GroupRun(v, rset, by)
  BY <1>1, <1>11 DEF N, s, add, b, GroupRun
<1> QED BY <1>13, <1>15 DEF N, s, Q

\* A grouping keeps every field but those it groups by as often as it was.
LEMMA GroupKeepsFields ==
  ASSUME NEW rset, IsRset(rset), NEW by, NEW X \in SUBSET Others(by)
  PROVE  /\ Grouped(rset, by) \in Seq(Records)
         /\ CountIn(FlattenSeq(Grouped(rset, by)), X) = CountIn(FlattenSeq(rset.recs), X)
<1> DEFINE s == rset.recs
           N == Len(s)
           J(n) == SubSeq(s, 1, n)
           F(a) == FlattenSeq(a)
           Step(v) == \A n \in 1..N : v[n] = GroupAdd(rset, by, v[n - 1], s[n])
<1>8. PICK v \in [0..N -> Seq(Records)] : GroupRun(v, rset, by)
  BY GroupSteps
<1>1. Grouped(rset, by) = v[N] /\ v[0] = << >> /\ Step(v)
  BY <1>8 DEF GroupRun
<1>2. s \in Seq(Records) /\ N \in Nat /\ \A n \in 1..N : s[n] \in Records
  BY DEF IsRset
<1>3. /\ J(0) = << >> /\ J(N) = s
      /\ \A n \in 0..N : J(n) \in Seq(Records)
      /\ \A n \in 0..(N - 1) : J(n + 1) = Append(J(n), s[n + 1])
  <2> HIDE DEF s, N
  <2> QED BY <1>2, PrefixNext DEF N
<1> HIDE DEF s
<1> DEFINE T == {n \in 0..N : CountIn(F(v[n]), X) = CountIn(F(J(n)), X)}
<1>4. 0 \in T
  <2>1. v[0] = J(0) /\ 0 \in 0..N
    BY <1>1, <1>2, <1>3
  <2> QED BY <2>1
<1>5. \A n \in 0..(N - 1) : n \in T => n + 1 \in T
  <2> SUFFICES ASSUME NEW n \in 0..(N - 1), n \in T PROVE n + 1 \in T
    OBVIOUS
  <2> DEFINE l == v[n]
             r == s[n + 1]
             w == v[n + 1]
             a == J(n)
             c == J(n + 1)
  <2>1. n + 1 \in 1..N /\ (n + 1) - 1 = n /\ n + 1 \in 0..N /\ n \in 0..N
    BY <1>2
  <2>2. l \in Seq(Records) /\ r \in Records /\ w = GroupAdd(rset, by, l, r)
    BY <1>1, <1>2, <2>1
  <2>3. a \in Seq(Records) /\ c = Append(a, r) /\ CountIn(F(l), X) = CountIn(F(a), X)
    BY <1>3, <2>1
  <2> HIDE DEF l, r, w, a, c
  <2>6. CountIn(F(w), X) = CountIn(F(l), X) + CountIn(r, X)
    BY <2>2, GroupAddKeeps
  <2>7. F(c) = F(a) \o r /\ F(a) \in Seq(Fields) /\ r \in Seq(Fields)
    <3>1. SeqsOver(a, Fields) /\ r \in Seq(Fields)
      BY <2>2, <2>3 DEF SeqsOver, Records
    <3> QED BY <2>3, <3>1, FlattenAppend
  <2>8. CountIn(F(a) \o r, X) = CountIn(F(a), X) + CountIn(r, X)
    BY <2>7, CountConcat
  <2>9. CountIn(F(w), X) = CountIn(F(c), X)
    BY <2>3, <2>6, <2>7, <2>8
  <2> QED BY <2>1, <2>9 DEF w, c
<1>6. N \in T
  <2> HIDE DEF T
  <2>1. 0..N \subseteq T
    BY <1>2, <1>4, <1>5, UpToInduction
  <2> QED BY <1>2, <2>1
<1>7. CountIn(F(v[N]), X) = CountIn(F(s), X) /\ v[N] \in Seq(Records)
  <2>1. v[N] \in Seq(Records)
    BY <1>2, <1>8 DEF s
  <2> QED BY <1>3, <1>6, <2>1
<1> QED BY <1>1, <1>7 DEF s

---------------------------------------------------------------------------
(* What a query leaves *)

\* A record set with other records, number and order.
Rebuilt(r, s, c, o) ==
  [type |-> r.type, recs |-> s, count |-> c, sort |-> r.sort, order |-> o,
   ints |-> r.ints, key |-> r.key, refs |-> r.refs]

Changed(r, s, c, o) == [r EXCEPT !.recs = s, !.count = c, !.order = o]
Recounted(r, s, c) == [r EXCEPT !.recs = s, !.count = c]

\* What EXCEPT makes of a record set is the record set rebuilt.
LEMMA RebuiltIs ==
  ASSUME NEW r, IsRset(r), NEW s \in Seq(Records), NEW c \in Int, NEW o
  PROVE  /\ IsRset(Rebuilt(r, s, c, o))
         /\ Changed(r, s, c, o) = Rebuilt(r, s, c, o)
         /\ Recounted(r, s, c) = Rebuilt(r, s, c, r.order)
<1>1. r = Rebuilt(r, r.recs, r.count, r.order) /\ r.type \in Seq(STRING) /\ r.key \in Seq(STRING)
  BY DEF IsRset, Rebuilt
<1>2. IsRset(Rebuilt(r, s, c, o))
  <2> DEFINE R == Seq(Records)
             N == Seq(STRING)
  <2> HIDE DEF R, N
  <2>1. s \in R /\ r.type \in N /\ r.key \in N
    BY <1>1 DEF R, N
  <2>2. Rebuilt(r, s, c, o) \in [type : N, recs : R, count : Int, sort : {r.sort},
         order : {o}, ints : {r.ints}, key : N, refs : {r.refs}]
    BY <2>1 DEF Rebuilt
  <2> QED BY <2>2 DEF IsRset, Rebuilt, R, N
<1>3. [r EXCEPT !.recs = s, !.count = c, !.order = o] = Rebuilt(r, s, c, o)
  <2> DEFINE y == [r EXCEPT !.recs = s, !.count = c, !.order = o]
             names == {"type", "recs", "count", "sort", "order", "ints", "key", "refs"}
  <2>1. DOMAIN r = names
    BY DEF IsRset
  <2>2. DOMAIN y = names /\ y = [f \in DOMAIN y |-> y[f]]
    BY <2>1
  <2>3. /\ y.type = r.type /\ y.recs = s /\ y.count = c /\ y.sort = r.sort
        /\ y.order = o /\ y.ints = r.ints /\ y.key = r.key /\ y.refs = r.refs
    BY <2>1
  <2> HIDE DEF y
  <2>4. y = Rebuilt(r, s, c, o)
    BY <2>2, <2>3 DEF Rebuilt
  <2> QED BY <2>4 DEF y
<1>4. [r EXCEPT !.recs = s, !.count = c] = Rebuilt(r, s, c, r.order)
  <2> DEFINE y == [r EXCEPT !.recs = s, !.count = c]
             names == {"type", "recs", "count", "sort", "order", "ints", "key", "refs"}
  <2>1. DOMAIN r = names
    BY DEF IsRset
  <2>2. DOMAIN y = names /\ y = [f \in DOMAIN y |-> y[f]]
    BY <2>1
  <2>3. /\ y.type = r.type /\ y.recs = s /\ y.count = c /\ y.sort = r.sort
        /\ y.order = r.order /\ y.ints = r.ints /\ y.key = r.key /\ y.refs = r.refs
    BY <2>1
  <2> HIDE DEF y
  <2>4. y = Rebuilt(r, s, c, r.order)
    BY <2>2, <2>3 DEF Rebuilt
  <2> QED BY <2>4 DEF y
<1> QED BY <1>2, <1>3, <1>4 DEF Changed, Recounted

\* The same records and fields, but for the names in a sequence.
Same(r, q, by) ==
  /\ IsRset(q)
  /\ \A X \in SUBSET Others(by) :
       CountIn(FlattenSeq(q.recs), X) = CountIn(FlattenSeq(r.recs), X)

\* rec_rset_sort keeps the records, and their fields.
LEMMA SortIsSame ==
  ASSUME NEW r, IsRset(r), NEW order, NEW by
  PROVE  Same(r, rec_rset_sort(r, order), by)
         /\ Len(rec_rset_sort(r, order).recs) = Len(r.recs)
<1> DEFINE q == rec_rset_sort(r, order)
           o == IF order = None THEN r.order ELSE order
           s == SortedRecords(r, o)
           c == r.count + Len(r.recs)
           p == IF r.sort = None THEN o ELSE r.sort
<1>1. r.recs \in Seq(Records) /\ r.recs \in Seq(Seq(Fields)) /\ r.count \in Int
  BY DEF IsRset, Records
<1>2. s \in Seq(Records) /\ Len(s) = Len(r.recs)
  BY <1>1, SortKeepsRecords, SortKeepsLength
<1>3. \A X : CountIn(FlattenSeq(s), X) = CountIn(FlattenSeq(r.recs), X)
  <2>1. \A f, X : CountIn(FlattenSeq(SortedRecords(r, f)), X) = CountIn(FlattenSeq(r.recs), X)
    <3> TAKE f, X
    <3>1. r.recs \in Seq(Seq(Fields))
      BY <1>1
    <3> QED BY ONLY <3>1, SortKeepsFields, Z3
  <2> HIDE DEF o
  <2> QED BY <2>1
<1>4. c \in Int
  <2>1. Len(r.recs) \in Nat
    BY <1>1
  <2> QED BY <1>1, <2>1
<1>5. q = IF o = None THEN r ELSE Changed(r, s, c, p)
  BY DEF rec_rset_sort, Changed
<1> HIDE DEF q, o, s, c, p
<1>6. CASE q = r
  BY <1>6 DEF Same, q
<1>7. CASE q = Changed(r, s, c, p)
  <2>1. q = Rebuilt(r, s, c, p) /\ IsRset(q)
    BY <1>2, <1>4, <1>7, RebuiltIs
  <2>2. q.recs = s
    BY <2>1 DEF Rebuilt
  <2> QED BY <1>2, <1>3, <2>1, <2>2 DEF Same, q
<1> QED BY <1>5, <1>6, <1>7

\* rec_rset_group keeps the fields but those it groups by.
LEMMA GroupIsSame ==
  ASSUME NEW r, IsRset(r), NEW by
  PROVE  Same(r, rec_rset_group(r, by), by)
<1> DEFINE q == rec_rset_group(r, by)
           s == Grouped(r, by)
           c == r.count - (Len(r.recs) - Len(s))
           y == Folded(LAMBDA l, e : GroupAdd(r, by, l, e), << >>, r.recs)
           d == r.count - (Len(r.recs) - Len(y))
<1>1. s \in Seq(Records)
      /\ \A X \in SUBSET Others(by) :
           CountIn(FlattenSeq(s), X) = CountIn(FlattenSeq(r.recs), X)
  <2>1. {} \in SUBSET Others(by)
    OBVIOUS
  <2> QED BY <2>1, GroupKeepsFields
<1>2. q = Recounted(r, y, d)
  BY DEF rec_rset_group, GroupAdd, Recounted
<1>3. s = y
  <2> HIDE DEF y, d
  <2>1. [r EXCEPT !.recs = y, !.count = d].recs = y
    BY DEF IsRset
  <2> QED BY <1>2, <2>1 DEF Grouped, Recounted
<1> HIDE DEF y
<1>4. c \in Int /\ d = c
  <2>1. Len(r.recs) \in Nat /\ r.count \in Int
    BY DEF IsRset
  <2>2. Len(s) \in Nat
    BY <1>1
  <2> QED BY <1>3, <2>1, <2>2
<1> HIDE DEF q, s, c, d
<1>5. q = Rebuilt(r, s, c, r.order) /\ IsRset(q)
  BY <1>1, <1>2, <1>3, <1>4, RebuiltIs
<1>6. q.recs = s
  BY <1>5 DEF Rebuilt
<1>7. Same(r, q, by)
  BY <1>1, <1>5, <1>6 DEF Same
<1> QED BY <1>7 DEF q

\* So does the arrangement of a query, in whatever order it sorts and groups.
LEMMA ArrangedIsSame ==
  ASSUME NEW r, IsRset(r), NEW q
  PROVE  /\ Same(r, Arranged(r, q), q.group)
         /\ q.group = None => Len(Arranged(r, q).recs) = Len(r.recs)
<1> DEFINE by == q.group
           a == rec_rset_sort(r, by)
           b == rec_rset_group(a, by)
           g == IF by = None THEN r ELSE b
           z == rec_rset_sort(g, q.sort)
<1>1. Same(r, a, by)
  BY SortIsSame
<1>2. Same(a, b, by)
  <2>1. IsRset(a)
    BY <1>1 DEF Same
  <2> HIDE DEF a
  <2> QED BY <2>1, GroupIsSame
<1>3. Same(r, b, by)
  <2> HIDE DEF a, b
  <2> QED BY <1>1, <1>2 DEF Same
<1>4. Same(r, r, by)
  BY DEF Same
<1>5. Same(r, g, by) /\ (by = None => g = r)
  <2> HIDE DEF b
  <2> QED BY <1>3, <1>4
<1> HIDE DEF g
<1>6. Same(g, z, by) /\ Len(z.recs) = Len(g.recs)
  <2>1. IsRset(g)
    BY <1>5 DEF Same
  <2> QED BY <2>1, SortIsSame
<1> HIDE DEF z
<1>7. Same(r, z, by)
  BY <1>5, <1>6 DEF Same
<1>8. Arranged(r, q) = IF AggregatesOnly(q) THEN r ELSE z
  BY DEF Arranged, z, g
<1> HIDE DEF by
<1> QED BY <1>4, <1>5, <1>6, <1>7, <1>8 DEF by

\* The places of a database.
LEMMA DbDomain ==
  ASSUME NEW d, IsDb(d)
  PROVE  Len(d) \in Nat /\ DOMAIN d = 1..Len(d)
BY DEF IsDb

\* The record set that is found is one of the database.
LEMMA TargetInDb ==
  ASSUME NEW d, IsDb(d), NEW q, Target(d, q) # 0
  PROVE  Target(d, q) \in DOMAIN d
<1> DEFINE at == {i \in DOMAIN d : d[i].type = q.type}
           g == rec_db_get_rset_by_type(d, q.type)
<1>1. g = IF at = {} THEN 0 ELSE CHOOSE i \in at : TRUE
  BY DEF rec_db_get_rset_by_type
<1>2. at # {} => (CHOOSE i \in at : TRUE) \in at
  OBVIOUS
<1>3. at \subseteq DOMAIN d
  OBVIOUS
<1>4. Target(d, q) = IF g = 0 /\ q.type = None /\ Len(d) = 1 THEN 1 ELSE g
  BY DEF Target
<1>5. Len(d) = 1 => 1 \in DOMAIN d
  BY DbDomain
<1> HIDE DEF at, g
<1> QED BY <1>1, <1>2, <1>3, <1>4, <1>5

\* A query changes at most one record set.
Leaves(d, e, q) ==
  e = d \/ \E t \in DOMAIN d : e = [d EXCEPT ![t] = Arranged(d[t], q)]

\* The only thing a query does to the database is to arrange its record set.
LEMMA QueryLeaves ==
  ASSUME IsDb(db), NEW q, rec_db_query(q)
  PROVE  Leaves(db, db', q)
<1> DEFINE t == Target(db, q)
<1>1. CASE db' = db
  BY <1>1 DEF Leaves
<1>2. CASE t # 0 /\ ~JoinP(db, q) /\ db' = [db EXCEPT ![t] = Arranged(db[t], q)]
  <2>1. t \in DOMAIN db
    BY <1>2, TargetInDb
  <2> QED BY <1>2, <2>1 DEF Leaves
<1> QED BY <1>1, <1>2 DEF rec_db_query, Source

\* A database of records is left, with the same fields.
LEMMA LeavesSame ==
  ASSUME NEW d, IsDb(d), NEW e, NEW q, Leaves(d, e, q)
  PROVE  /\ IsDb(e) /\ DOMAIN e = DOMAIN d
         /\ \A i \in DOMAIN d :
              /\ Same(d[i], e[i], q.group)
              /\ q.group = None => Len(e[i].recs) = Len(d[i].recs)
<1>1. CASE e = d
  BY <1>1 DEF Same, IsDb
<1>2. CASE e # d
  <2>1. PICK t \in DOMAIN d : e = [d EXCEPT ![t] = Arranged(d[t], q)]
    BY <1>2 DEF Leaves
  <2> DEFINE a == Arranged(d[t], q)
  <2>2. IsRset(d[t])
    BY DEF IsDb
  <2>3. /\ Same(d[t], a, q.group)
        /\ q.group = None => Len(a.recs) = Len(d[t].recs)
    BY <2>2, ArrangedIsSame
  <2> HIDE DEF a
  <2>4. DOMAIN e = DOMAIN d /\ \A i \in DOMAIN d : e[i] = IF i = t THEN a ELSE d[i]
    BY <2>1 DEF a
  <2>5. \A i \in DOMAIN d : IsRset(d[i]) /\ Same(d[i], d[i], q.group)
    BY DEF IsDb, Same
  <2>6. \A i \in DOMAIN d :
          /\ Same(d[i], e[i], q.group)
          /\ q.group = None => Len(e[i].recs) = Len(d[i].recs)
    <3> TAKE i \in DOMAIN d
    <3>1. CASE i = t
      BY <2>3, <2>4, <3>1
    <3>2. CASE i # t
      BY <2>4, <2>5, <3>2
    <3> QED BY <3>1, <3>2
  <2>7. e \in Seq(Range(e))
    <3>1. d = [i \in 1..Len(d) |-> d[i]] /\ DOMAIN d = 1..Len(d) /\ Len(d) \in Nat
      BY DEF IsDb
    <3>2. e = [i \in DOMAIN e |-> e[i]]
      BY <2>1
    <3> DEFINE n == Len(d)
    <3> HIDE DEF n
    <3>3. e = [i \in 1..n |-> e[i]] /\ n \in Nat
      BY <2>4, <3>1, <3>2 DEF n
    <3>4. DOMAIN e = 1..n
      BY <2>4, <3>1 DEF n
    <3> DEFINE R == Range(e)
    <3>5. \A i \in 1..n : e[i] \in R
      BY <3>4 DEF Range
    <3> HIDE DEF R
    <3>6. e \in Seq(R)
      BY ONLY <3>3, <3>5
    <3> QED BY <3>6 DEF R
  <2>8. IsDb(e)
    BY <2>4, <2>6, <2>7 DEF IsDb, Same
  <2> QED BY <2>4, <2>6, <2>8
<1> QED BY <1>1, <1>2

\* The invariant: the database consists of records with at least one field.
QueryInv == IsDb(db)

\* Every step but a stutter leaves the database as a query does.
LEMMA StepLeaves ==
  ASSUME QueryInv, Next
  PROVE  \E q : query' = q /\ before' = db /\ Leaves(db, db', q)
<1>1. PICK q \in Queries : Query(q) \/ Recsel(q)
  BY DEF Next
<1>2. query' = q /\ before' = db
  BY <1>1 DEF Query, Recsel
<1>3. CASE rec_db_query(q)
  BY <1>2, <1>3, QueryLeaves DEF QueryInv
<1>4. CASE db' = db
  BY <1>2, <1>4 DEF Leaves
<1> QED BY <1>1, <1>3, <1>4 DEF Query, Recsel

\* The databases that are read consist of records.
LEMMA QueryInvInit == Init => QueryInv
BY DatabasesAssumption DEF Init, QueryInv

\* A query leaves a database of records.
LEMMA QueryInvStep == QueryInv /\ [Next]_vars => QueryInv'
<1> SUFFICES ASSUME QueryInv, [Next]_vars PROVE QueryInv'
  OBVIOUS
<1>1. CASE Next
  <2>1. PICK q : query' = q /\ before' = db /\ Leaves(db, db', q)
    BY <1>1, StepLeaves
  <2>2. IsDb(db')
    BY <2>1, LeavesSame DEF QueryInv
  <2> QED BY <2>2 DEF QueryInv
<1>2. CASE UNCHANGED vars
  BY <1>2 DEF vars, QueryInv
<1> QED BY <1>1, <1>2

\* The database always consists of records.
LEMMA QueryInvAlways == Spec => []QueryInv
BY QueryInvInit, QueryInvStep, PTL DEF Spec

\* Times counts one field in all records.
LEMMA TimesIs == \A recs, f : Times(recs, f) = CountIn(FlattenSeq(recs), {f})
<1> TAKE recs, f
<1> DEFINE s == FlattenSeq(recs)
           A == {i \in DOMAIN s : s[i] = f}
           B == {i \in DOMAIN s : s[i] \in {f}}
<1>1. A = B
  OBVIOUS
<1>2. Times(recs, f) = Cardinality(A) /\ CountIn(s, {f}) = Cardinality(B)
  BY DEF Times, CountIn
<1> HIDE DEF A, B
<1> QED BY <1>1, <1>2

\* The fields of records are fields.
LEMMA FieldsInAre ==
  ASSUME NEW r, IsRset(r), NEW f \in FieldsIn(r.recs)
  PROVE  f \in Fields
<1>1. r.recs \in Seq(Records)
  BY DEF IsRset
<1>2. PICK i \in DOMAIN r.recs : f \in Range(r.recs[i])
  BY DEF FieldsIn
<1>3. r.recs[i] \in Seq(Fields)
  BY <1>1, <1>2 DEF Records
<1> HIDE DEF Fields
<1> QED BY <1>2, <1>3 DEF Range

\* QueryKeepsFields, for all databases and queries: a query (rec_db_query with its
\* sorting and grouping in place) loses no record without grouping, and no field
\* but those it groups by with it.
THEOREM QueriesKeepFields == Spec => QueryKeepsFields
<1>1. QueryInv /\ [Next]_vars => [\A i \in DOMAIN db :
       /\ query'.group = None => Len(db'[i].recs) = Len(db[i].recs)
       /\ \A f \in FieldsIn(db[i].recs) \cup FieldsIn(db'[i].recs) :
            f.n \notin Range(query'.group) => Times(db'[i].recs, f) = Times(db[i].recs, f)]_vars
  <2> SUFFICES ASSUME QueryInv, Next, NEW i \in DOMAIN db
               PROVE  /\ query'.group = None => Len(db'[i].recs) = Len(db[i].recs)
                      /\ \A f \in FieldsIn(db[i].recs) \cup FieldsIn(db'[i].recs) :
                           f.n \notin Range(query'.group)
                             => Times(db'[i].recs, f) = Times(db[i].recs, f)
    BY DEF vars
  <2>1. PICK q : query' = q /\ before' = db /\ Leaves(db, db', q)
    BY StepLeaves
  <2>2. /\ Same(db[i], db'[i], q.group)
        /\ q.group = None => Len(db'[i].recs) = Len(db[i].recs)
    BY <2>1, LeavesSame DEF QueryInv
  <2>3. IsRset(db[i]) /\ IsRset(db'[i])
    BY <2>2 DEF QueryInv, IsDb, Same
  <2>4. ASSUME NEW f \in FieldsIn(db[i].recs) \cup FieldsIn(db'[i].recs),
               f.n \notin Range(q.group)
        PROVE  Times(db'[i].recs, f) = Times(db[i].recs, f)
    <3>1. f \in Fields
      BY <2>3, FieldsInAre
    <3>2. {f} \in SUBSET Others(q.group)
      BY <2>4, <3>1 DEF Others
    <3>3. CountIn(FlattenSeq(db'[i].recs), {f}) = CountIn(FlattenSeq(db[i].recs), {f})
      BY <2>2, <3>2 DEF Same
    <3> QED BY <3>3, TimesIs
  <2> QED BY <2>1, <2>2, <2>4
<1> QED BY <1>1, QueryInvAlways, PTL DEF Spec, QueryKeepsFields

---------------------------------------------------------------------------
(* Random indexes *)

\* The numbers that are free, the one that is taken, and what it is added to.
Free(index, limit) == {i \in 0..(limit - 1) : ~rec_db_index_p(index, i)}
Pick(index, limit, d) ==
  IF rec_db_index_p(index, d) /\ Free(index, limit) # {}
  THEN CHOOSE i \in Free(index, limit) : \A j \in Free(index, limit) : i <= j
  ELSE d
IndexAdd(limit, index, d) == Append(index, <<Pick(index, limit, d), NOINDEX>>)
Indexes(limit) == Seq((0..(limit - 1)) \X {NOINDEX})

\* The places of the records with these indexes.
Drawn(index, limit) == {i \in 1..limit : rec_db_index_p(index, i - 1)}

\* The number taken is one of the record set, and free unless none is.
LEMMA PickIs ==
  ASSUME NEW limit \in Nat, NEW index, NEW d \in 0..(limit - 1)
  PROVE  /\ Pick(index, limit, d) \in 0..(limit - 1)
         /\ Pick(index, limit, d) \in Free(index, limit) \/ Free(index, limit) = {}
<1> DEFINE F == Free(index, limit)
           e == CHOOSE i \in F : \A j \in F : i <= j
<1>1. F \in SUBSET Nat /\ F \subseteq 0..(limit - 1)
  BY DEF Free
<1>2. F # {} => e \in F
  <2> SUFFICES ASSUME F # {} PROVE e \in F
    OBVIOUS
  <2> HIDE DEF F
  <2>1. \E m \in F : \A x \in F : m <= x
    BY <1>1, NatMin
  <2> QED BY <2>1
<1>3. ~rec_db_index_p(index, d) => d \in F
  BY DEF Free
<1>4. Pick(index, limit, d) = IF rec_db_index_p(index, d) /\ F # {} THEN e ELSE d
  BY DEF Pick
<1> HIDE DEF e, F
<1> QED BY <1>1, <1>2, <1>3, <1>4 DEF F

\* A number is in the index if it was before or is the one added.
LEMMA IndexAppend ==
  ASSUME NEW limit \in Nat, NEW index \in Indexes(limit), NEW e \in 0..(limit - 1), NEW n
  PROVE  rec_db_index_p(Append(index, <<e, NOINDEX>>), n)
           <=> rec_db_index_p(index, n) \/ n = e
<1> DEFINE x == <<e, NOINDEX>>
           S == (0..(limit - 1)) \X {NOINDEX}
           t == Append(index, x)
           N == Len(index)
           Hit(y) == IF y[2] = NOINDEX THEN n = y[1] ELSE y[1] <= n /\ n <= y[2]
<1>1. index \in Seq(S) /\ x \in S
  BY DEF Indexes
<1>2. Hit(x) <=> n = e
  OBVIOUS
<1>3. /\ Len(t) = N + 1 /\ N \in Nat /\ t[N + 1] = x /\ \A i \in 1..N : t[i] = index[i]
      /\ DOMAIN t = 1..(N + 1) /\ DOMAIN index = 1..N
  <2> HIDE DEF S, x
  <2> QED BY <1>1, AppendProperties
<1>4. rec_db_index_p(t, n) <=> \E i \in DOMAIN t : Hit(t[i])
  BY DEF rec_db_index_p
<1>5. rec_db_index_p(index, n) <=> \E i \in DOMAIN index : Hit(index[i])
  BY DEF rec_db_index_p
<1> HIDE DEF Hit, t, N, x
<1>6. 1..(N + 1) = (1..N) \cup {N + 1}
  BY <1>3
<1>7. (\E i \in DOMAIN t : Hit(t[i])) <=> (\E i \in DOMAIN index : Hit(index[i])) \/ Hit(x)
  BY <1>3, <1>6
<1> QED BY <1>2, <1>4, <1>5, <1>7 DEF t, x

\* One more number is drawn, or all of them have been.
LEMMA IndexStep ==
  ASSUME NEW limit \in Nat, NEW index \in Indexes(limit), NEW d \in 0..(limit - 1),
         NEW k \in Nat, IsFiniteSet(Drawn(index, limit)),
         Cardinality(Drawn(index, limit)) = IF k < limit THEN k ELSE limit
  PROVE  /\ IndexAdd(limit, index, d) \in Indexes(limit)
         /\ IsFiniteSet(Drawn(IndexAdd(limit, index, d), limit))
         /\ Cardinality(Drawn(IndexAdd(limit, index, d), limit))
              = IF k + 1 < limit THEN k + 1 ELSE limit
<1> DEFINE e == Pick(index, limit, d)
           D == Drawn(index, limit)
           w == IndexAdd(limit, index, d)
           E == Drawn(w, limit)
<1>1. e \in 0..(limit - 1) /\ (e \in Free(index, limit) \/ Free(index, limit) = {})
  BY PickIs
<1> HIDE DEF e
<1>2. w \in Indexes(limit)
  <2> DEFINE S == (0..(limit - 1)) \X {NOINDEX}
  <2>1. index \in Seq(S) /\ <<e, NOINDEX>> \in S
    BY <1>1 DEF Indexes
  <2> HIDE DEF S
  <2>2. Append(index, <<e, NOINDEX>>) \in Seq(S)
    BY <2>1
  <2> QED BY <2>2 DEF IndexAdd, Indexes, S, e
<1>3. E = D \cup {e + 1}
  <2>1. \A n : rec_db_index_p(w, n) <=> rec_db_index_p(index, n) \/ n = e
    BY <1>1, IndexAppend DEF IndexAdd, e
  <2> HIDE DEF w
  <2> QED BY <1>1, <2>1 DEF Drawn
<1>4. D \subseteq 1..limit /\ E \subseteq 1..limit
  BY DEF Drawn
<1>5. IsFiniteSet(1..limit) /\ Cardinality(1..limit) = limit
  BY FS_Interval, SMT
<1>6. e \in Free(index, limit) => e + 1 \notin D
  BY <1>1 DEF Free, Drawn
<1>7. Free(index, limit) = {} => D = 1..limit
  BY DEF Free, Drawn
<1> HIDE DEF D, E, w
<1>8. IsFiniteSet(D) /\ Cardinality(D) = IF k < limit THEN k ELSE limit
  BY DEF D
<1>9. IsFiniteSet(E) /\ Cardinality(E) <= limit
  BY <1>4, <1>5, FS_Subset, Zenon
<1>10. Cardinality(E) = IF k + 1 < limit THEN k + 1 ELSE limit
  <2>1. CASE e + 1 \notin D
    <3>1. Cardinality(D \cup {e + 1}) = Cardinality(D) + 1
      BY <1>8, <2>1, FS_AddElement
    <3>2. Cardinality(E) = Cardinality(D) + 1
      BY <1>3, <3>1
    <3> QED BY <1>8, <1>9, <3>2
  <2>2. CASE D = 1..limit
    <3>1. E = 1..limit
      BY <1>3, <1>4, <2>2
    <3> QED BY <1>5, <1>8, <2>2, <3>1
  <2> QED BY <1>1, <1>6, <1>7, <2>1, <2>2
<1> QED BY <1>2, <1>9, <1>10 DEF E, w

\* The values of the fold in rec_db_add_random_indexes.
IndexRun(v, draws, limit) ==
  /\ rec_db_add_random_indexes(draws, limit) = v[Len(draws)]
  /\ v[0] = << >>
  /\ \A n \in 1..Len(draws) : v[n] = IndexAdd(limit, v[n - 1], draws[n])

\* The index is the last value of its steps.
LEMMA IndexSteps ==
  ASSUME NEW limit \in Nat, NEW draws \in Seq(0..(limit - 1))
  PROVE  \E v \in [0..Len(draws) -> Indexes(limit)] : IndexRun(v, draws, limit)
<1> DEFINE s == draws
           N == Len(s)
           Q == Indexes(limit)
           D == 0..(limit - 1)
           add(l, d) == IndexAdd(limit, l, d)
           at(f, n) == IF n = 0 THEN << >> ELSE add(f[n - 1], s[n])
           rec(f) == [n \in 0..N |-> at(f, n)]
           g == [l \in Q |-> [d \in D |-> add(l, d)]]
           v == CHOOSE f : f = rec(f)
<1>1. rec_db_add_random_indexes(draws, limit) = v[N]
  BY DEF rec_db_add_random_indexes, Folded, IndexAdd, Pick, Free
<1>2. s \in Seq(D) /\ N \in Nat /\ << >> \in Q /\ \A n \in 1..N : s[n] \in D
  BY DEF Indexes
<1>3. \A l \in Q, d \in D : add(l, d) \in Q
  <2> SUFFICES ASSUME NEW l \in Q, NEW d \in D PROVE add(l, d) \in Q
    OBVIOUS
  <2> DEFINE S == D \X {NOINDEX}
             e == Pick(l, limit, d)
  <2>1. e \in D
    BY PickIs
  <2> HIDE DEF e
  <2>2. l \in Seq(S) /\ <<e, NOINDEX>> \in S
    BY <2>1 DEF Indexes
  <2> HIDE DEF S
  <2>3. Append(l, <<e, NOINDEX>>) \in Seq(S)
    BY <2>2
  <2> QED BY <2>3 DEF IndexAdd, Indexes, S, e
<1> DEFINE b == << >>
<1> HIDE DEF add, Q, b, D
<1>4. g \in [Q -> [D -> Q]]
  BY <1>3
<1>5. \A l \in Q, d \in D : g[l][d] = add(l, d)
  OBVIOUS
<1> HIDE DEF g
<1>6. b \in Q
  BY <1>2 DEF b
<1> HIDE DEF s
<1>14. PICK h \in [0..N -> Q] : Folds(h, g, b, s)
  BY <1>2, <1>4, <1>6, FoldWitness, Zenon
<1>7. h \in [0..N -> Q] /\ h[0] = b /\ \A n \in 1..N : h[n] = g[h[n - 1]][s[n]]
  BY <1>14 DEF Folds
<1> HIDE DEF N
<1>8. ASSUME NEW n \in 0..N PROVE h[n] = at(h, n)
  <2>1. CASE n = 0
    BY <1>7, <2>1 DEF b
  <2>2. CASE n # 0
    <3>1. n \in 1..N /\ h[n - 1] \in Q
      BY <1>2, <1>7, <2>2
    <3> QED BY <1>2, <1>5, <1>7, <2>2, <3>1
  <2> QED BY <2>1, <2>2
<1>9. h = rec(h)
  BY <1>7, <1>8
<1>10. v = rec(v)
  <2> HIDE DEF rec
  <2> QED BY <1>9
<1>11. v[0] = b /\ \A n \in 1..N : v[n] = add(v[n - 1], s[n])
  <2> HIDE DEF v
  <2> QED BY <1>2, <1>10 DEF b
<1>12. \A n \in 0..N : v[n] \in Q
  <2> DEFINE T == {n \in 0..N : v[n] \in Q}
  <2> HIDE DEF v
  <2>1. 0 \in T
    BY <1>2, <1>6, <1>11
  <2>2. \A n \in 0..(N - 1) : n \in T => n + 1 \in T
    <3> TAKE n \in 0..(N - 1)
    <3>1. n + 1 \in 1..N /\ (n + 1) - 1 = n /\ n + 1 \in 0..N
      BY <1>2
    <3> QED BY <1>2, <1>3, <1>11, <3>1
  <2> HIDE DEF T
  <2>3. 0..N \subseteq T
    BY <1>2, <2>1, <2>2, UpToInduction
  <2> QED BY <2>3 DEF T
<1>13. v \in [0..N -> Q]
  <2> HIDE DEF v
  <2> QED BY <1>10, <1>12
<1> HIDE DEF v
<1>15. IndexRun(v, draws, limit)
  BY <1>1, <1>11 DEF N, s, add, b, IndexRun
<1> QED BY <1>13, <1>15 DEF N, s, Q

\* As many different indexes as were drawn, or all of them.
LEMMA IndexesDiffer ==
  ASSUME NEW limit \in Nat, NEW draws \in Seq(0..(limit - 1))
  PROVE  LET index == rec_db_add_random_indexes(draws, limit)
         IN /\ IsFiniteSet(Drawn(index, limit))
            /\ Cardinality(Drawn(index, limit))
                 = IF Len(draws) < limit THEN Len(draws) ELSE limit
<1> DEFINE N == Len(draws)
           Good(l, n) == /\ IsFiniteSet(Drawn(l, limit))
                         /\ Cardinality(Drawn(l, limit)) = IF n < limit THEN n ELSE limit
<1>8. PICK v \in [0..N -> Indexes(limit)] : IndexRun(v, draws, limit)
  BY IndexSteps
<1>1. /\ rec_db_add_random_indexes(draws, limit) = v[N] /\ v[0] = << >>
      /\ \A n \in 1..N : v[n] = IndexAdd(limit, v[n - 1], draws[n])
  BY <1>8 DEF IndexRun
<1>2. N \in Nat /\ \A n \in 1..N : draws[n] \in 0..(limit - 1)
  OBVIOUS
<1> DEFINE T == {n \in 0..N : Good(v[n], n)}
<1>3. 0 \in T
  <2>1. Drawn(v[0], limit) = {}
    BY <1>1 DEF Drawn, rec_db_index_p
  <2>2. IsFiniteSet({}) /\ Cardinality({}) = 0
    BY FS_EmptySet
  <2>3. 0 \in 0..N
    BY <1>2
  <2> QED BY <2>1, <2>2, <2>3
<1>4. \A n \in 0..(N - 1) : n \in T => n + 1 \in T
  <2> SUFFICES ASSUME NEW n \in 0..(N - 1), n \in T PROVE n + 1 \in T
    OBVIOUS
  <2> DEFINE l == v[n]
             w == v[n + 1]
             d == draws[n + 1]
  <2>1. n + 1 \in 1..N /\ (n + 1) - 1 = n /\ n + 1 \in 0..N /\ n \in 0..N /\ n \in Nat
    BY <1>2
  <2>2. l \in Indexes(limit) /\ d \in 0..(limit - 1) /\ w = IndexAdd(limit, l, d)
    BY <1>1, <1>2, <1>8, <2>1
  <2>3. IsFiniteSet(Drawn(l, limit))
    OBVIOUS
  <2>4. Cardinality(Drawn(l, limit)) = IF n < limit THEN n ELSE limit
    OBVIOUS
  <2> HIDE DEF l, w, d
  <2>5. IsFiniteSet(Drawn(w, limit))
    BY <2>1, <2>2, <2>3, <2>4, IndexStep
  <2>6. Cardinality(Drawn(w, limit)) = IF n + 1 < limit THEN n + 1 ELSE limit
    BY <2>1, <2>2, <2>3, <2>4, IndexStep
  <2>7. Good(w, n + 1)
    BY <2>5, <2>6
  <2> QED BY <2>1, <2>7 DEF w
<1>5. N \in T
  <2> HIDE DEF T
  <2>1. 0..N \subseteq T
    BY <1>2, <1>3, <1>4, UpToInduction
  <2> QED BY <1>2, <2>1
<1> QED BY <1>1, <1>5

---------------------------------------------------------------------------
(* What is selected *)

\* A query that asks for entire records.
Entire(q) == q.fex = None /\ ~q.uniq

\* The places that are selected.
SelectedPlaces(rset, q, index) ==
  {i \in DOMAIN rset.recs : rec_db_record_selected_p(q.sel, index, i - 1, rset.recs[i])}

\* Entire records are selected, each as often as places of it are.
LEMMA SelectedCount ==
  ASSUME NEW rset, rset.recs \in Seq(Records), NEW q, Entire(q), NEW index, NEW X
  PROVE  /\ Selected(rset, q, index) \in Seq(Records)
         /\ CountIn(Selected(rset, q, index), X)
              = Cardinality(PlacesKept(rset.recs, SelectedPlaces(rset, q, index), X))
<1> DEFINE s == rset.recs
           N == Len(s)
           K == SelectedPlaces(rset, q, index)
           id == [i \in DOMAIN s |-> i]
           at == Keep(id, K)
           b == [j \in DOMAIN at |-> s[at[j]]]
           Y == {i \in 1..N : s[i] \in X}
<1>1. N \in Nat /\ DOMAIN s = 1..N /\ \A i \in 1..N : s[i] \in Records
  OBVIOUS
<1>2. id \in Seq(1..N) /\ DOMAIN id = 1..N /\ \A i \in 1..N : id[i] = i
  BY <1>1
<1>3. Where(id, LAMBDA i : rec_db_record_selected_p(q.sel, index, i - 1, s[i])) = at
  <2> DEFINE P(i) == rec_db_record_selected_p(q.sel, index, i - 1, s[i])
  <2>1. \A i \in DOMAIN s : P(i) <=> i \in K
    BY DEF SelectedPlaces
  <2>2. Where(id, P) = FlattenSeq([i \in DOMAIN id |-> IF P(id[i]) THEN <<id[i]>> ELSE << >>])
    BY DEF Where
  <2> HIDE DEF P, K
  <2>3. [i \in DOMAIN id |-> IF P(id[i]) THEN <<id[i]>> ELSE << >>]
          = [i \in DOMAIN id |-> IF i \in K THEN <<id[i]>> ELSE << >>]
    BY <1>1, <1>2, <2>1
  <2> QED BY <2>2, <2>3 DEF Keep, P
<1>4. \A r : Shown(q, r) = r
  BY DEF Shown, rec_db_process_fex, Entire
<1>5. Selected(rset, q, index) = Where(b, LAMBDA r : r # << >>)
  <2>1. ~AggregatesOnly(q)
    BY DEF AggregatesOnly, Entire
  <2>2. Selected(rset, q, index)
          = Where([j \in DOMAIN at |-> Shown(q, s[at[j]])], LAMBDA r : r # << >>)
    BY <1>3, <2>1 DEF Selected, Each
  <2>3. [j \in DOMAIN at |-> Shown(q, s[at[j]])] = b
    BY <1>4
  <2> QED BY <2>2, <2>3
<1>6. at \in Seq(1..N) /\ CountIn(at, Y) = Cardinality(PlacesKept(id, K, Y))
  <2> HIDE DEF id, K, Y
  <2> QED BY <1>2, KeepCount
<1>7. PlacesKept(id, K, Y) = PlacesKept(s, K, X)
  BY <1>1, <1>2 DEF PlacesKept
<1> HIDE DEF at, id, K
<1>8. /\ b \in Seq(Records) /\ DOMAIN b = DOMAIN at
      /\ \A j \in DOMAIN at : b[j] = s[at[j]] /\ b[j] \in Records
  <2> DEFINE R == Records
             n == Len(at)
  <2>1. DOMAIN at = 1..n /\ n \in Nat /\ \A j \in 1..n : at[j] \in 1..N
    BY <1>6
  <2>2. \A i \in 1..N : s[i] \in R
    BY <1>1
  <2> HIDE DEF R, n, s, N
  <2>3. b = [j \in 1..n |-> s[at[j]]] /\ \A j \in 1..n : b[j] = s[at[j]] /\ b[j] \in R
    BY <2>1, <2>2
  <2>4. b \in Seq(R)
    <3>1. b = [j \in 1..n |-> b[j]]
      BY <2>3
    <3> HIDE DEF b
    <3> QED BY ONLY <2>1, <2>3, <3>1
  <2>5. DOMAIN b = 1..n
    BY <2>3
  <2> QED BY <2>1, <2>3, <2>4, <2>5 DEF R
<1>9. CountIn(b, X) = CountIn(at, Y)
  <2>1. \A j \in DOMAIN at : at[j] \in 1..N
    BY <1>6
  <2> DEFINE A == {j \in DOMAIN b : b[j] \in X}
             B == {j \in DOMAIN at : at[j] \in Y}
  <2>2. A = B
    BY <1>8, <2>1
  <2>3. CountIn(b, X) = Cardinality(A) /\ CountIn(at, Y) = Cardinality(B)
    BY DEF CountIn
  <2> HIDE DEF A, B
  <2> QED BY <2>2, <2>3
<1> HIDE DEF b, s, Y
<1>10. Where(b, LAMBDA r : r # << >>) = Keep(b, DOMAIN b)
  <2>1. \A j \in DOMAIN b : b[j] # << >>
    BY <1>8 DEF Records
  <2>2. Where(b, LAMBDA r : r # << >>)
          = FlattenSeq([j \in DOMAIN b |-> IF b[j] # << >> THEN <<b[j]>> ELSE << >>])
    BY DEF Where
  <2>3. [j \in DOMAIN b |-> IF b[j] # << >> THEN <<b[j]>> ELSE << >>]
          = [j \in DOMAIN b |-> IF j \in DOMAIN b THEN <<b[j]>> ELSE << >>]
    BY <2>1
  <2> QED BY <2>2, <2>3 DEF Keep
<1> DEFINE k == Keep(b, DOMAIN b)
<1>11. k \in Seq(Records) /\ CountIn(k, X) = CountIn(b, X)
  <2>1. \A j \in DOMAIN b : b[j] \in X => j \in DOMAIN b
    OBVIOUS
  <2> QED BY <1>8, <2>1, KeepCount, KeepIsSame
<1> HIDE DEF k
<1> QED BY <1>5, <1>6, <1>7, <1>9, <1>10, <1>11 DEF k, K, s

\* Without grouping, the arrangement is a permutation.
LEMMA ArrangedIsPermuted ==
  ASSUME NEW r, IsRset(r), NEW q, q.group = None, NEW X
  PROVE  /\ Arranged(r, q).recs \in Seq(Records)
         /\ CountIn(Arranged(r, q).recs, X) = CountIn(r.recs, X)
<1> DEFINE o == IF q.sort = None THEN r.order ELSE q.sort
           s == SortedRecords(r, o)
           c == r.count + Len(r.recs)
           p == IF r.sort = None THEN o ELSE r.sort
           z == rec_rset_sort(r, q.sort)
<1>1. r.recs \in Seq(Records) /\ r.count \in Int
  BY DEF IsRset
<1>2. s \in Seq(Records) /\ CountIn(s, X) = CountIn(r.recs, X)
  BY <1>1, SortKeepsRecords
<1>3. c \in Int
  <2>1. Len(r.recs) \in Nat
    BY <1>1
  <2> QED BY <1>1, <2>1
<1>4. z = IF o = None THEN r ELSE Changed(r, s, c, p)
  BY DEF rec_rset_sort, Changed
<1>5. Arranged(r, q) = r \/ Arranged(r, q) = z
  BY DEF Arranged
<1> HIDE DEF o, s, c, p, z
<1>6. Changed(r, s, c, p).recs = s
  <2>1. Changed(r, s, c, p) = Rebuilt(r, s, c, p)
    BY <1>2, <1>3, RebuiltIs
  <2> QED BY <2>1 DEF Rebuilt
<1> QED BY <1>1, <1>2, <1>4, <1>5, <1>6

\* As many as all of them are all of them.
LEMMA CardinalBound ==
  ASSUME NEW S, NEW s \in Seq(S), NEW K, NEW X
  PROVE  Cardinality(PlacesKept(s, K, X)) <= CountIn(s, X)
<1> DEFINE A == {i \in DOMAIN s : s[i] \in X}
           B == PlacesKept(s, K, X)
<1>1. IsFiniteSet(A) /\ CountIn(s, X) = Cardinality(A)
  BY CountBounds DEF CountIn
<1>2. B \subseteq A
  BY DEF PlacesKept
<1> HIDE DEF A, B
<1>3. Cardinality(B) <= Cardinality(A)
  BY <1>1, <1>2, FS_Subset, Zenon
<1> QED BY <1>1, <1>3 DEF B

\* The answer to a random query.
AsksRandom(q) == q.sel.how = "random" /\ q.sel.num \in Nat \ {0} /\ q.group = None /\ Entire(q)
IsRandomAnswer(rset, q, recs) ==
  /\ Len(recs) = IF q.sel.num < Len(rset.recs) THEN q.sel.num ELSE Len(rset.recs)
  /\ \A r \in Range(recs) : Times(<<recs>>, r) <= Times(<<rset.recs>>, r)

\* The records at the places that were drawn are a random answer.
LEMMA RandomIs ==
  ASSUME NEW rset, IsRset(rset), rset.count = Len(rset.recs), NEW q, AsksRandom(q),
         NEW draws \in Draws(q, rset)
  PROVE  IsRandomAnswer(rset, q,
           Selected(Arranged(rset, q), q,
                                    rec_db_add_random_indexes(draws, rset.count)))
<1> DEFINE N == rset.count
           m == q.sel.num
           index == rec_db_add_random_indexes(draws, N)
           a == Arranged(rset, q)
           P == SelectedPlaces(a, q, index)
           res == Selected(a, q, index)
<1>1. N \in Nat /\ Len(rset.recs) = N /\ rset.recs \in Seq(Records)
  BY DEF IsRset
<1>2. m \in Nat /\ draws \in Seq(0..(N - 1)) /\ Len(draws) = m
  BY DEF AsksRandom, Draws
<1>3. /\ IsFiniteSet(Drawn(index, N))
      /\ Cardinality(Drawn(index, N)) = IF m < N THEN m ELSE N
  BY <1>1, <1>2, IndexesDiffer
<1>4. a.recs \in Seq(Records) /\ \A X : CountIn(a.recs, X) = CountIn(rset.recs, X)
  BY ArrangedIsPermuted DEF AsksRandom
<1>5. Len(a.recs) = N
  BY <1>1, ArrangedIsSame DEF AsksRandom
<1> HIDE DEF index, a
<1>6. P = Drawn(index, N)
  <2>1. DOMAIN a.recs = 1..N
    BY <1>4, <1>5
  <2>2. \A i : rec_db_record_selected_p(q.sel, index, i - 1, a.recs[i])
                 <=> rec_db_index_p(index, i - 1)
    BY DEF rec_db_record_selected_p, AsksRandom
  <2> QED BY <2>1, <2>2 DEF SelectedPlaces, Drawn
<1> HIDE DEF P
<1>7. /\ res \in Seq(Records)
      /\ \A X : CountIn(res, X) = Cardinality(PlacesKept(a.recs, P, X))
  BY <1>4, SelectedCount DEF AsksRandom, P
<1> HIDE DEF res
<1>8. Len(res) = IF m < N THEN m ELSE N
  <2>1. PlacesKept(a.recs, P, Records) = P
    <3>1. \A i \in DOMAIN a.recs : a.recs[i] \in Records
      BY <1>4
    <3>2. P \subseteq DOMAIN a.recs
      BY DEF P, SelectedPlaces
    <3> QED BY <3>1, <3>2 DEF PlacesKept
  <2>2. CountIn(res, Records) = Len(res)
    BY <1>7, CountAll
  <2>3. CountIn(res, Records) = Cardinality(PlacesKept(a.recs, P, Records))
    BY <1>7
  <2> QED BY <1>3, <1>6, <2>1, <2>2, <2>3
<1>9. ASSUME NEW r PROVE Times(<<res>>, r) <= Times(<<rset.recs>>, r)
  <2>1. FlattenSeq(<<res>>) = res /\ FlattenSeq(<<rset.recs>>) = rset.recs
    BY <1>1, <1>7, FlattenOne
  <2>2. Times(<<res>>, r) = CountIn(res, {r}) /\ Times(<<rset.recs>>, r) = CountIn(rset.recs, {r})
    <3>1. Times(<<res>>, r) = CountIn(FlattenSeq(<<res>>), {r})
      BY TimesIs
    <3>2. Times(<<rset.recs>>, r) = CountIn(FlattenSeq(<<rset.recs>>), {r})
      BY TimesIs
    <3> QED BY <2>1, <3>1, <3>2
  <2>3. Cardinality(PlacesKept(a.recs, P, {r})) <= CountIn(a.recs, {r})
    BY <1>4, CardinalBound
  <2>4. CountIn(res, {r}) <= CountIn(a.recs, {r})
    BY <1>7, <2>3
  <2> QED BY <1>4, <2>2, <2>4
<1>10. IsRandomAnswer(rset, q, res)
  BY <1>1, <1>8, <1>9 DEF IsRandomAnswer
<1> QED BY <1>10 DEF res, a, index

\* A query for random records is answered by as many different ones.
LEMMA RandomAnswered ==
  ASSUME IsDb(db), NEW q, AsksRandom(q), ~JoinP(db, q), Target(db, q) # 0,
         db[Target(db, q)].count = Len(db[Target(db, q)].recs),
         rec_db_query(q), result'.status = "ok"
  PROVE  IsRandomAnswer(db[Target(db, q)], q, result'.recs)
<1> DEFINE t == Target(db, q)
           rset == db[t]
<1>1. IsRset(rset)
  BY TargetInDb DEF IsDb
<1>2. Source(db, q) = rset
  BY DEF Source
<1>3. q.sel.how = "random" /\ q.sel.num > 0 /\ q.sel.num # 0
  BY DEF AsksRandom
<1>4. CASE rset.count = 0
  <2>1. result' = Answer("division by zero", None, << >>)
    BY <1>2, <1>3, <1>4 DEF rec_db_query
  <2> QED BY <2>1 DEF Answer
<1>5. CASE rset.count # 0
  <2>1. \E draws \in Draws(q, rset) :
          result' = Answer("ok", IF q.descriptor THEN Arranged(rset, q).type ELSE None,
                           Selected(Arranged(rset, q), q,
                                    rec_db_add_random_indexes(draws, rset.count)))
    BY <1>2, <1>3, <1>5 DEF rec_db_query
  <2>2. PICK draws \in Draws(q, rset) :
          result'.recs = Selected(Arranged(rset, q), q,
                                  rec_db_add_random_indexes(draws, rset.count))
    BY <2>1 DEF Answer
  <2>3. rset.count = Len(rset.recs)
    OBVIOUS
  <2> HIDE DEF rset
  <2>4. IsRandomAnswer(rset, q,
          Selected(Arranged(rset, q), q,
                                    rec_db_add_random_indexes(draws, rset.count)))
    BY <1>1, <2>3, RandomIs
  <2> QED BY <2>2, <2>4 DEF rset
<1> QED BY <1>4, <1>5

\* A query that is answered answers RandomExact.
LEMMA RandomStep ==
  ASSUME IsDb(db), NEW q \in Queries, rec_db_query(q), before' = db, query' = q
  PROVE  RandomExact'
<1> DEFINE t == Target(db, q)
<1>1. SUFFICES ASSUME result'.status = "ok", t # 0, q.sel.how = "random", q.fex = None,
                      q.group = None, q.sel.num > 0, ~q.uniq, ~JoinP(db, q),
                      db[t].count = Len(db[t].recs)
               PROVE  IsRandomAnswer(db[t], q, result'.recs)
  BY DEF RandomExact, Answered, IsRandomAnswer
<1>2. q.sel.num \in Nat \ {0}
  BY <1>1, QueriesAssumption DEF IsQuery
<1>3. AsksRandom(q)
  BY <1>1, <1>2 DEF AsksRandom, Entire
<1> QED BY <1>1, <1>3, RandomAnswered

\* RandomExact, for all databases and queries: rec_db_add_random_indexes draws as
\* many different records as were asked for, or all of them, as long as the record
\* set knows how many it has.
THEOREM RandomIsExact == Spec => []RandomExact
<1>1. Init => RandomExact
  BY DEF Init, RandomExact, Answered
<1>2. IsDb(db) /\ RandomExact /\ [Next]_vars => RandomExact'
  <2>1. SUFFICES ASSUME IsDb(db), RandomExact, [Next]_vars PROVE RandomExact'
    OBVIOUS
  <2>2. CASE UNCHANGED vars
    BY <2>1, <2>2 DEF vars, RandomExact, Answered
  <2>3. ASSUME NEW q \in Queries, Query(q) PROVE RandomExact'
    BY <2>1, <2>3, RandomStep DEF Query
  <2>4. ASSUME NEW q \in Queries, Recsel(q) PROVE RandomExact'
    <3>1. CASE q.type = None /\ Len(db) > 1
      <4>1. result' = Answer("fatal", None, << >>)
        BY <2>4, <3>1 DEF Recsel
      <4> QED BY <4>1 DEF RandomExact, Answered, Answer
    <3>2. CASE ~(q.type = None /\ Len(db) > 1)
      BY <2>1, <2>4, <3>2, RandomStep DEF Recsel
    <3> QED BY <3>1, <3>2
  <2> QED BY <2>1, <2>2, <2>3, <2>4 DEF Next
<1> QED BY <1>1, <1>2, QueryInvAlways, PTL DEF Spec, QueryInv

---------------------------------------------------------------------------
(* Joining *)

\* The same places of two sequences count.
LEMMA CountSame ==
  ASSUME NEW s, NEW b, NEW X, NEW Y, DOMAIN b = DOMAIN s,
         \A i \in DOMAIN s : b[i] \in X <=> s[i] \in Y
  PROVE  CountIn(b, X) = CountIn(s, Y)
<1> DEFINE A == {i \in DOMAIN b : b[i] \in X}
           B == {i \in DOMAIN s : s[i] \in Y}
<1>1. A = B
  OBVIOUS
<1>2. CountIn(b, X) = Cardinality(A) /\ CountIn(s, Y) = Cardinality(B)
  BY DEF CountIn
<1> HIDE DEF A, B
<1> QED BY <1>1, <1>2

\* What counts is there.
LEMMA CountHas ==
  ASSUME NEW S, NEW s \in Seq(S), NEW X
  PROVE  CountIn(s, X) = 0 <=> \A i \in DOMAIN s : s[i] \notin X
<1> DEFINE A == {i \in DOMAIN s : s[i] \in X}
<1>1. IsFiniteSet(A) /\ CountIn(s, X) = Cardinality(A)
  BY CountBounds DEF CountIn
<1>2. A = {} <=> \A i \in DOMAIN s : s[i] \notin X
  OBVIOUS
<1> HIDE DEF A
<1>3. Cardinality(A) = 0 <=> A = {}
  BY <1>1, FS_EmptySet
<1> QED BY <1>1, <1>2, <1>3

\* The places of the fields with a name.
PlacesNamed(r, name) == {i \in DOMAIN r : r[i].n = name}

\* Named finds the fields at those places.
LEMMA NamedIs ==
  ASSUME NEW r \in Seq(Fields), NEW name
  PROVE  /\ Named(r, name) \in Seq(Fields) /\ Len(Named(r, name)) \in Nat
         /\ IsFiniteSet(PlacesNamed(r, name))
         /\ Len(Named(r, name)) = Cardinality(PlacesNamed(r, name))
         /\ \A X : CountIn(Named(r, name), X)
                     = Cardinality(PlacesKept(r, PlacesNamed(r, name), X))
<1> DEFINE K == PlacesNamed(r, name)
           s == Named(r, name)
<1>1. s = Keep(r, K)
  <2>1. s = FlattenSeq([i \in DOMAIN r |-> IF r[i].n = name THEN <<r[i]>> ELSE << >>])
    BY DEF Named, Where
  <2>2. [i \in DOMAIN r |-> IF r[i].n = name THEN <<r[i]>> ELSE << >>]
          = [i \in DOMAIN r |-> IF i \in K THEN <<r[i]>> ELSE << >>]
    BY DEF PlacesNamed
  <2> QED BY <2>1, <2>2 DEF Keep
<1>2. \A i \in DOMAIN r : r[i] \in Fields
  OBVIOUS
<1>3. PlacesKept(r, K, Fields) = K
  BY <1>2 DEF PlacesKept, PlacesNamed
<1> HIDE DEF s, K, Fields
<1>4. s \in Seq(Fields)
  BY <1>1, KeepCount
<1>5. \A X : IsFiniteSet(PlacesKept(r, K, X)) /\ CountIn(s, X) = Cardinality(PlacesKept(r, K, X))
  <2> TAKE X
  <2> QED BY <1>1, KeepCount
<1>6. Len(s) = CountIn(s, Fields) /\ Len(s) \in Nat
  BY <1>4, CountAll
<1> QED BY <1>3, <1>4, <1>5, <1>6 DEF s, K

\* Without a field of the name there is no value.
LEMMA NoneNamed ==
  ASSUME NEW r \in Seq(Fields), NEW name
  PROVE  Len(Named(r, name)) = 0 <=> ValuesOf(r, name) = {}
<1> DEFINE K == PlacesNamed(r, name)
<1>1. ValuesOf(r, name) = {} <=> K = {}
  BY DEF ValuesOf, PlacesNamed
<1>2. IsFiniteSet(K) /\ Len(Named(r, name)) = Cardinality(K)
  BY NamedIs
<1> HIDE DEF K
<1> QED BY <1>1, <1>2, FS_EmptySet

\* With one field of the name its value is the only one.
LEMMA OneNamed ==
  ASSUME NEW r \in Seq(Fields), NEW name, Len(Named(r, name)) = 1
  PROVE  ValuesOf(r, name) = {Named(r, name)[1].v}
<1> DEFINE K == PlacesNamed(r, name)
           s == Named(r, name)
<1>1. IsFiniteSet(K) /\ Cardinality(K) = 1 /\ s \in Seq(Fields) /\ Len(s) = 1
  BY NamedIs
<1>2. PICK p : K = {p}
  <2> HIDE DEF K
  <2> QED BY <1>1, FS_Singleton
<1>3. p \in DOMAIN r /\ r[p].n = name
  <2>1. p \in PlacesNamed(r, name)
    BY <1>2
  <2> QED BY <2>1 DEF PlacesNamed
<1>4. ValuesOf(r, name) = {r[p].v}
  <2>1. \A i : i \in DOMAIN r /\ r[i].n = name <=> i = p
    BY <1>2, <1>3 DEF PlacesNamed
  <2> QED BY <2>1 DEF ValuesOf
<1>5. s[1] = r[p]
  <2> DEFINE X == {s[1]}
  <2>1. CountIn(s, X) = Cardinality(PlacesKept(r, K, X))
    BY NamedIs
  <2>2. ~(\A i \in DOMAIN s : s[i] \notin X)
    <3>1. 1 \in DOMAIN s
      BY <1>1
    <3> QED BY <3>1
  <2> HIDE DEF s, K, X
  <2>3. CountIn(s, X) # 0
    BY <1>1, <2>2, CountHas
  <2>4. PlacesKept(r, K, X) # {}
    BY <2>1, <2>3, FS_EmptySet
  <2>5. r[p] \in X
    BY <1>2, <2>4 DEF PlacesKept
  <2> QED BY <2>5 DEF X
<1> QED BY <1>4, <1>5

\* Every record has one key, as the integrity check demands.
OneKey(rset) ==
  \A i \in DOMAIN rset.recs : rec_record_get_num_fields_by_name(rset.recs[i], rset.key) = 1

\* The places of the records that a record is joined with.
Mates(r1, field, rset2) ==
  {j \in DOMAIN rset2.recs :
     ValuesOf(rset2.recs[j], rset2.key) \cap ValuesOf(r1, field) # {}}

\* Where keeps nothing if nothing passes the test.
LEMMA KeepNone ==
  ASSUME NEW S, NEW s \in Seq(S)
  PROVE  Keep(s, {}) = << >>
<1> DEFINE k == Keep(s, {})
<1>1. PlacesKept(s, {}, S) = {}
  BY DEF PlacesKept
<1>2. k \in Seq(S) /\ CountIn(k, S) = Cardinality(PlacesKept(s, {}, S))
  BY KeepCount
<1> HIDE DEF k
<1>3. Len(k) = 0
  BY <1>1, <1>2, CountAll, FS_EmptySet
<1> QED BY <1>2, <1>3, EmptySeq DEF k

\* Where keeps everything if everything passes the test.
LEMMA KeepAll ==
  ASSUME NEW S, NEW s \in Seq(S)
  PROVE  Keep(s, DOMAIN s) = s
<1> DEFINE N == Len(s)
           F == [i \in DOMAIN s |-> IF i \in DOMAIN s THEN <<s[i]>> ELSE << >>]
<1>1. N \in Nat /\ DOMAIN s = 1..N /\ \A i \in 1..N : s[i] \in S
  OBVIOUS
<1>2. SeqsOver(F, S) /\ Len(F) = N /\ \A i \in 1..N : F[i] = <<s[i]>>
  <2> DEFINE Q == Seq(S)
  <2>1. \A i \in 1..N : F[i] \in Q /\ F[i] = <<s[i]>>
    BY <1>1
  <2>2. F = [i \in 1..N |-> F[i]]
    BY <1>1
  <2> HIDE DEF F, Q
  <2>3. F \in Seq(Q) /\ Len(F) = N
    BY <1>1, <2>1, <2>2
  <2> QED BY <2>1, <2>3 DEF SeqsOver, Q
<1> HIDE DEF F, N
<1>3. PICK G \in [0..N -> Seq(S)] : JoinOf(G, F) /\ FlattenSeq(F) = G[N]
  BY <1>2, FlattenIs
<1>4. G[0] = << >> /\ \A n \in 1..N : G[n] = G[n - 1] \o F[n]
  BY <1>2, <1>3 DEF JoinOf
<1> DEFINE T == {n \in 0..N : Len(G[n]) = n /\ \A i \in 1..n : G[n][i] = s[i]}
<1>5. 0 \in T
  BY <1>1, <1>4
<1>6. ASSUME NEW n \in 0..(N - 1), n \in T PROVE n + 1 \in T
  <2>1. n + 1 \in 1..N /\ (n + 1) - 1 = n /\ n \in Nat /\ n \in 0..N /\ n + 1 \in 0..N
    BY <1>1
  <2>2. G[n + 1] = G[n] \o <<s[n + 1]>> /\ G[n] \in Seq(S) /\ s[n + 1] \in S
    BY <1>1, <1>2, <1>3, <1>4, <2>1
  <2>3. Len(G[n]) = n /\ \A i \in 1..n : G[n][i] = s[i]
    BY <1>6
  <2> DEFINE g == G[n]
             e == s[n + 1]
             a == g \o <<e>>
  <2> HIDE DEF g, e
  <2>4. Len(a) = n + 1 /\ \A i \in 1..(n + 1) : a[i] = IF i <= n THEN g[i] ELSE e
    BY <2>1, <2>2, <2>3 DEF g, e
  <2> HIDE DEF a
  <2>5. Len(G[n + 1]) = n + 1 /\ \A i \in 1..(n + 1) : G[n + 1][i] = s[i]
    <3>1. G[n + 1] = a
      BY <2>2 DEF a, g, e
    <3>2. \A i \in 1..(n + 1) : a[i] = s[i]
      <4> TAKE i \in 1..(n + 1)
      <4>1. CASE i <= n
        <5>1. i \in 1..n
          BY <2>1, <4>1
        <5> QED BY <2>3, <2>4, <4>1, <5>1 DEF g
      <4>2. CASE i = n + 1
        <5>1. ~(i <= n)
          BY <2>1, <4>2
        <5> QED BY <2>4, <4>2, <5>1 DEF e
      <4> QED BY <2>1, <4>1, <4>2
    <3> QED BY <2>4, <3>1, <3>2
  <2> QED BY <2>1, <2>5
<1>7. 0..N \subseteq T
  <2> HIDE DEF T
  <2>1. \A n \in 0..(N - 1) : n \in T => n + 1 \in T
    BY <1>6
  <2>2. N \in Nat
    BY <1>1
  <2> QED BY ONLY <1>5, <2>1, <2>2, UpToInduction
<1> DEFINE r == G[N]
<1>8. r \in Seq(S) /\ Len(r) = N /\ \A i \in 1..N : r[i] = s[i]
  <2>1. N \in 0..N
    BY <1>1
  <2> HIDE DEF T
  <2>2. N \in T
    BY <1>7, <2>1
  <2> QED BY <1>3, <2>1, <2>2 DEF T
<1> HIDE DEF r
<1>9. r = s
  <2>1. Len(s) = N
    BY DEF N
  <2> QED BY <1>1, <1>8, <2>1
<1> QED BY <1>3, <1>9 DEF r, F, Keep

\* The records without a k-th key.
LEMMA KeylessAre ==
  ASSUME NEW rset, rset.recs \in Seq(Records), OneKey(rset), NEW k \in Nat
  PROVE  Where([i \in DOMAIN rset.recs |-> i],
               LAMBDA i : rec_record_get_num_fields_by_name(rset.recs[i], rset.key) <= k)
           = IF k = 0 THEN << >> ELSE [i \in DOMAIN rset.recs |-> i]
<1> DEFINE s == rset.recs
           id == [i \in DOMAIN s |-> i]
           P(i) == rec_record_get_num_fields_by_name(s[i], rset.key) <= k
           N == Len(s)
<1>1. N \in Nat /\ DOMAIN s = 1..N
  OBVIOUS
<1>2. id \in Seq(1..N) /\ DOMAIN id = 1..N /\ \A i \in 1..N : id[i] = i
  BY <1>1
<1>3. \A i \in 1..N : P(id[i]) <=> k # 0
  <2>1. \A i \in 1..N : rec_record_get_num_fields_by_name(s[i], rset.key) = 1
    BY <1>1 DEF OneKey
  <2> QED BY <1>2, <2>1
<1>4. Where(id, P) = FlattenSeq([i \in DOMAIN id |-> IF P(id[i]) THEN <<id[i]>> ELSE << >>])
  BY DEF Where
<1>5. CASE k = 0
  <2> HIDE DEF P, id, N
  <2>1. [i \in DOMAIN id |-> IF P(id[i]) THEN <<id[i]>> ELSE << >>]
          = [i \in DOMAIN id |-> IF i \in {} THEN <<id[i]>> ELSE << >>]
    BY <1>2, <1>3, <1>5
  <2>2. Keep(id, {}) = << >>
    BY <1>2, KeepNone
  <2> QED BY <1>4, <1>5, <2>1, <2>2 DEF Keep, P, id
<1>6. CASE k # 0
  <2> HIDE DEF P, id, N
  <2>1. [i \in DOMAIN id |-> IF P(id[i]) THEN <<id[i]>> ELSE << >>]
          = [i \in DOMAIN id |-> IF i \in DOMAIN id THEN <<id[i]>> ELSE << >>]
    BY <1>2, <1>3, <1>6
  <2>2. Keep(id, DOMAIN id) = id
    BY <1>2, KeepAll
  <2> QED BY <1>4, <1>6, <2>1, <2>2 DEF Keep, P, id
<1> QED BY <1>5, <1>6

\* The scan for the first key finds all mates, the others end at once.
LEMMA ScanIs ==
  ASSUME NEW rset2, rset2.recs \in Seq(Records), OneKey(rset2), NEW r1, NEW field, NEW k \in Nat
  PROVE  JoinScan(r1, field, rset2, k)
           = IF k = 0 THEN Keep(rset2.recs, Mates(r1, field, rset2)) ELSE << >>
<1> DEFINE s == rset2.recs
           N == Len(s)
           V == ValuesOf(r1, field)
           P(r2) == rec_record_get_field_by_name(r2, rset2.key, k).v \in V
           without == Where([i \in DOMAIN s |-> i],
                            LAMBDA i : rec_record_get_num_fields_by_name(s[i], rset2.key) <= k)
           scanned == IF without = << >> THEN s ELSE SubSeq(s, 1, without[1] - 1)
<1>1. N \in Nat /\ DOMAIN s = 1..N /\ \A i \in 1..N : s[i] \in Seq(Fields)
  <2>1. \A i \in DOMAIN s : s[i] \in Records
    OBVIOUS
  <2> QED BY <2>1 DEF Records
<1>2. without = IF k = 0 THEN << >> ELSE [i \in DOMAIN s |-> i]
  BY KeylessAre
<1>3. JoinScan(r1, field, rset2, k) = Where(scanned, P)
  BY DEF JoinScan
<1>4. Where(scanned, P)
        = FlattenSeq([i \in DOMAIN scanned |-> IF P(scanned[i]) THEN <<scanned[i]>> ELSE << >>])
  BY DEF Where
<1>5. CASE k = 0
  <2>1. scanned = s
    BY <1>2, <1>5
  <2>2. ASSUME NEW i \in DOMAIN s PROVE P(s[i]) <=> i \in Mates(r1, field, rset2)
    <3>1. Len(Named(s[i], rset2.key)) = 1
      BY DEF OneKey, rec_record_get_num_fields_by_name
    <3>2. ValuesOf(s[i], rset2.key) = {Named(s[i], rset2.key)[1].v}
      BY <1>1, <3>1, OneNamed
    <3>3. rec_record_get_field_by_name(s[i], rset2.key, k) = Named(s[i], rset2.key)[1]
      BY <1>5 DEF rec_record_get_field_by_name
    <3> QED BY <3>2, <3>3 DEF Mates
  <2> HIDE DEF P, scanned, s
  <2>3. [i \in DOMAIN s |-> IF P(s[i]) THEN <<s[i]>> ELSE << >>]
          = [i \in DOMAIN s |-> IF i \in Mates(r1, field, rset2) THEN <<s[i]>> ELSE << >>]
    BY <2>2
  <2> QED BY <1>3, <1>4, <1>5, <2>1, <2>3 DEF Keep, s
<1>6. CASE k # 0
  <2> DEFINE z == << >>
  <2>1. scanned = z
    <3>1. CASE N = 0
      <4>1. s = << >>
        BY <1>1, <3>1, EmptySeq
      <4>2. [i \in DOMAIN s |-> i] = << >>
        BY <4>1
      <4> QED BY <1>2, <1>6, <4>1, <4>2
    <3>2. CASE N # 0
      <4> DEFINE id == [i \in DOMAIN s |-> i]
      <4>1. 1 \in DOMAIN s
        BY <1>1, <3>2
      <4>2. id # << >> /\ id[1] = 1
        BY <4>1
      <4>3. without = id
        BY <1>2, <1>6
      <4>4. SubSeq(s, 1, 0) = << >>
        OBVIOUS
      <4> HIDE DEF id, without
      <4> QED BY <4>2, <4>3, <4>4
    <3> QED BY <3>1, <3>2
  <2> HIDE DEF P, scanned
  <2>2. [i \in DOMAIN z |-> IF P(z[i]) THEN <<z[i]>> ELSE << >>] = << >>
    OBVIOUS
  <2> QED BY <1>3, <1>4, <1>6, <2>1, <2>2, FlattenNone
<1> QED BY <1>5, <1>6

\* Names of foreign keys.
Names == Seq(STRING) \ {<< >>}

\* The joined record has the fields of both without the foreign keys.
LEMMA JoinedIs ==
  ASSUME NEW r1 \in Records, NEW r2 \in Records, NEW field \in Names
  PROVE  /\ Joined(r1, r2, field) \in Records
         /\ Joined(r1, r2, field)
              = Where(r1, LAMBDA f : f.n # field)
                \o [i \in DOMAIN r2 |-> [n |-> field \o r2[i].n, v |-> r2[i].v]]
<1> DEFINE N1 == Len(r1)
           N2 == Len(r2)
           b == [i \in DOMAIN r2 |-> [n |-> field \o r2[i].n, v |-> r2[i].v]]
           s == r1 \o b
           piece(t) == [i \in DOMAIN t |-> IF t[i].n # field THEN <<t[i]>> ELSE << >>]
<1>1. /\ N1 \in Nat /\ DOMAIN r1 = 1..N1 /\ \A i \in 1..N1 : r1[i] \in Fields
      /\ N2 \in Nat /\ DOMAIN r2 = 1..N2 /\ \A i \in 1..N2 : r2[i] \in Fields
      /\ N2 # 0 /\ r1 \in Seq(Fields) /\ r2 \in Seq(Fields)
  BY EmptySeq DEF Records
<1>2. ASSUME NEW i \in 1..N2
      PROVE  b[i] \in Fields /\ b[i].n # field
  <2> DEFINE n == r2[i].n
             m == field \o n
  <2>1. n \in Seq(STRING) /\ Len(n) # 0 /\ r2[i].v \in {"text"} \X STRING
    BY <1>1, EmptySeq DEF Fields
  <2>2. field \in Seq(STRING) /\ Len(field) \in Nat /\ Len(n) \in Nat
    BY <2>1 DEF Names
  <2>3. m \in Seq(STRING) /\ Len(m) = Len(field) + Len(n)
    BY <2>1, <2>2, ConcatProperties
  <2>4. b[i] = [n |-> m, v |-> r2[i].v]
    BY <1>1
  <2> HIDE DEF m, n
  <2>5. m # field /\ m # << >>
    <3>1. Len(m) # Len(field) /\ Len(m) # 0
      BY ONLY <2>1, <2>2, <2>3
    <3>2. m = << >> => Len(m) = 0
      OBVIOUS
    <3> QED BY ONLY <3>1, <3>2, Zenon
  <2> DEFINE NonEmpty == Seq(STRING) \ {<< >>}
             Texts == {"text"} \X STRING
             w == r2[i].v
  <2>6. m \in NonEmpty /\ w \in Texts
    BY <2>1, <2>3, <2>5
  <2>7. Fields = [n : NonEmpty, v : Texts]
    BY DEF Fields
  <2>8. b[i] = [n |-> m, v |-> w]
    BY <2>4
  <2> HIDE DEF NonEmpty, Texts, w, b
  <2> QED BY ONLY <2>5, <2>6, <2>7, <2>8
<1>3. b \in Seq(Fields) /\ Len(b) = N2 /\ DOMAIN b = 1..N2
  <2>1. b = [i \in 1..N2 |-> b[i]]
    BY <1>1
  <2> HIDE DEF b, Fields
  <2>2. \A i \in 1..N2 : b[i] \in Fields
    BY <1>2
  <2> QED BY ONLY <1>1, <2>1, <2>2
<1>4. Joined(r1, r2, field) = FlattenSeq(piece(s))
  BY DEF Joined, Where, rec_db_merge_records, Each
<1> HIDE DEF b, Fields
<1>5. s \in Seq(Fields) /\ Len(s) = N1 + N2
      /\ \A i \in 1..(N1 + N2) : s[i] = IF i <= N1 THEN r1[i] ELSE b[i - N1]
  <2> DEFINE L == Fields
  <2>1. r1 \in Seq(L) /\ b \in Seq(L)
    BY <1>1, <1>3
  <2>2. Len(b) = N2
    BY <1>3
  <2> HIDE DEF L, N2
  <2>3. s \in Seq(L) /\ Len(s) = N1 + N2
    BY <2>1, <2>2, ConcatProperties
  <2>4. \A i \in 1..(N1 + N2) : s[i] = IF i <= N1 THEN r1[i] ELSE b[i - N1]
    BY <2>1, <2>2, ConcatProperties
  <2> QED BY <2>3, <2>4 DEF L
<1> HIDE DEF s, N1, N2
<1>6. ASSUME NEW t \in Seq(Fields)
      PROVE  SeqsOver(piece(t), Fields) /\ Len(piece(t)) = Len(t)
             /\ \A i \in 1..Len(t) : piece(t)[i] = IF t[i].n # field THEN <<t[i]>> ELSE << >>
  <2> DEFINE Q == Seq(Fields)
             p == piece(t)
             N == Len(t)
  <2>0. N \in Nat /\ DOMAIN t = 1..N /\ \A i \in 1..N : t[i] \in Fields
    OBVIOUS
  <2>1. \A i \in 1..N : p[i] \in Q /\ p[i] = IF t[i].n # field THEN <<t[i]>> ELSE << >>
    BY <2>0
  <2>2. p = [i \in 1..N |-> p[i]]
    BY <2>0
  <2> HIDE DEF p, Q, N
  <2>3. p \in Seq(Q) /\ Len(p) = N
    BY <2>0, <2>1, <2>2
  <2> QED BY <2>1, <2>3 DEF SeqsOver, Q, p, N
<1>7. piece(s) = piece(r1) \o piece(b)
  <2> DEFINE p == piece(s)
             a == piece(r1)
             c == piece(b)
             Q == Seq(Fields)
             M == N1 + N2
  <2>1. /\ p \in Seq(Q) /\ Len(p) = M
        /\ \A i \in 1..M : p[i] = IF s[i].n # field THEN <<s[i]>> ELSE << >>
    BY <1>5, <1>6 DEF SeqsOver
  <2>2. /\ a \in Seq(Q) /\ Len(a) = N1
        /\ \A i \in 1..N1 : a[i] = IF r1[i].n # field THEN <<r1[i]>> ELSE << >>
    BY <1>1, <1>6 DEF SeqsOver, N1
  <2>3. /\ c \in Seq(Q) /\ Len(c) = N2
        /\ \A i \in 1..N2 : c[i] = IF b[i].n # field THEN <<b[i]>> ELSE << >>
    BY <1>3, <1>6 DEF SeqsOver
  <2> HIDE DEF p, a, c, Q
  <2>4. /\ a \o c \in Seq(Q) /\ Len(a \o c) = M
        /\ \A i \in 1..M : (a \o c)[i] = IF i <= N1 THEN a[i] ELSE c[i - N1]
    <3>1. a \in Seq(Q) /\ c \in Seq(Q) /\ Len(a) = N1 /\ Len(c) = N2
      BY <2>2, <2>3
    <3> QED BY ONLY <3>1, ConcatProperties
  <2>5. \A i \in 1..M : p[i] = (a \o c)[i]
    <3> TAKE i \in 1..M
    <3>0. N1 \in Nat /\ N2 \in Nat
      BY <1>1 DEF N1, N2
    <3>1. CASE i <= N1
      <4>1. i \in 1..N1
        BY <3>0, <3>1
      <4> QED BY <1>5, <2>1, <2>2, <2>4, <3>1, <4>1
    <3>2. CASE ~(i <= N1)
      <4>1. i - N1 \in 1..N2
        BY <3>0, <3>2
      <4> QED BY <1>5, <2>1, <2>3, <2>4, <3>2, <4>1
    <3> QED BY <3>1, <3>2
  <2>6. M \in Nat
    BY <1>1 DEF N1, N2
  <2> DEFINE d == a \o c
  <2> HIDE DEF M, d
  <2>7. p = d
    <3>1. p \in Seq(Q) /\ d \in Seq(Q) /\ Len(p) = M /\ Len(d) = M /\ \A i \in 1..M : p[i] = d[i]
      BY <2>1, <2>4, <2>5 DEF d
    <3> QED BY ONLY <2>6, <3>1
  <2> QED BY <2>7 DEF p, a, c, d
<1> DEFINE x == FlattenSeq(piece(r1))
<1>8. Joined(r1, r2, field) = x \o FlattenSeq(piece(b)) /\ x \in Seq(Fields)
  <2>1. SeqsOver(piece(r1), Fields) /\ SeqsOver(piece(b), Fields)
    BY <1>1, <1>3, <1>6
  <2> DEFINE a == piece(r1)
             c == piece(b)
  <2>0. SeqsOver(a, Fields) /\ SeqsOver(c, Fields)
    BY <2>1
  <2> HIDE DEF a, c, piece
  <2>2. FlattenSeq(a) \in Seq(Fields) /\ FlattenSeq(a \o c) = FlattenSeq(a) \o FlattenSeq(c)
    BY ONLY <2>0, FlattenConcat
  <2> QED BY <1>4, <1>7, <2>2 DEF a, c
<1>9. FlattenSeq(piece(b)) = b
  <2>1. \A i \in DOMAIN b : b[i].n # field
    BY <1>2, <1>3
  <2>2. piece(b) = [i \in DOMAIN b |-> IF i \in DOMAIN b THEN <<b[i]>> ELSE << >>]
    BY <2>1
  <2> QED BY <1>3, <2>2, KeepAll DEF Keep
<1>10. x = Where(r1, LAMBDA f : f.n # field)
  BY DEF Where
<1> HIDE DEF x, piece
<1>11. x \o b \in Records
  <2>1. x \o b \in Seq(Fields) /\ Len(x \o b) = Len(x) + Len(b)
    BY <1>3, <1>8, ConcatProperties
  <2>2. Len(x) \in Nat /\ Len(b) # 0 /\ Len(b) \in Nat
    BY <1>1, <1>3, <1>8 DEF N2
  <2> DEFINE y == x \o b
  <2> HIDE DEF y
  <2>3. Len(y) # 0
    BY <2>1, <2>2 DEF y
  <2>4. y # << >>
    BY <2>3
  <2> QED BY <2>1, <2>4 DEF Records, y
<1> QED BY <1>8, <1>9, <1>10, <1>11 DEF b

\* What one foreign key, and one record, bring.
OfKey(r1, field, rset2, k) ==
  Each(LAMBDA r2 : Joined(r1, r2, field), JoinScan(r1, field, rset2, k - 1))
OfRecord(r1, field, rset2) ==
  FlattenSeq([k \in 1..rec_record_get_num_fields_by_name(r1, field) |->
                OfKey(r1, field, rset2, k)])

\* The places of the records with which a record becomes one in X.
Matched(r1, field, rset2, X) ==
  {j \in DOMAIN rset2.recs :
     j \in Mates(r1, field, rset2) /\ Joined(r1, rset2.recs[j], field) \in X}

\* The first key brings a record for every mate, the others bring nothing.
LEMMA OfKeyIs ==
  ASSUME NEW rset2, rset2.recs \in Seq(Records), OneKey(rset2), NEW r1 \in Records,
         NEW field \in Names, NEW X
  PROVE  /\ OfKey(r1, field, rset2, 1) \in Seq(Records)
         /\ IsFiniteSet(Matched(r1, field, rset2, X))
         /\ CountIn(OfKey(r1, field, rset2, 1), X) = Cardinality(Matched(r1, field, rset2, X))
         /\ \A k \in Nat : k > 1 => OfKey(r1, field, rset2, k) = << >>
<1> DEFINE s == rset2.recs
           K == Mates(r1, field, rset2)
           scan == Keep(s, K)
           b == [i \in DOMAIN scan |-> Joined(r1, scan[i], field)]
           Y == {r2 \in Records : Joined(r1, r2, field) \in X}
<1>1. OfKey(r1, field, rset2, 1) = b
  <2>1. JoinScan(r1, field, rset2, 1 - 1) = scan
    <3>1. 1 - 1 = 0 /\ 0 \in Nat
      OBVIOUS
    <3> QED BY <3>1, ScanIs
  <2> QED BY <2>1 DEF OfKey, Each
<1>2. \A k \in Nat : k > 1 => OfKey(r1, field, rset2, k) = << >>
  <2> TAKE k \in Nat
  <2> HAVE k > 1
  <2>1. k - 1 \in Nat /\ k - 1 # 0
    OBVIOUS
  <2>2. JoinScan(r1, field, rset2, k - 1) = << >>
    BY <2>1, ScanIs
  <2> QED BY <2>2 DEF OfKey, Each
<1>3. /\ scan \in Seq(Records) /\ IsFiniteSet(PlacesKept(s, K, Y))
      /\ CountIn(scan, Y) = Cardinality(PlacesKept(s, K, Y))
  <2> HIDE DEF K, Y
  <2> QED BY KeepCount
<1>4. PlacesKept(s, K, Y) = Matched(r1, field, rset2, X)
  <2>1. \A i \in DOMAIN s : s[i] \in Records
    OBVIOUS
  <2> HIDE DEF K
  <2> QED BY <2>1 DEF PlacesKept, Matched, K
<1> HIDE DEF scan
<1>5. b \in Seq(Records) /\ DOMAIN b = DOMAIN scan
      /\ \A i \in DOMAIN scan : b[i] \in X <=> scan[i] \in Y
  <2> DEFINE R == Records
             n == Len(scan)
  <2>1. DOMAIN scan = 1..n /\ n \in Nat /\ \A i \in 1..n : scan[i] \in R
    BY <1>3
  <2>2. \A r2 \in R : Joined(r1, r2, field) \in R
    BY JoinedIs
  <2> HIDE DEF R, n
  <2>3. b = [i \in 1..n |-> b[i]] /\ DOMAIN b = 1..n
        /\ \A i \in 1..n : b[i] = Joined(r1, scan[i], field) /\ b[i] \in R
    BY <2>1, <2>2
  <2>4. b \in Seq(R)
    <3> HIDE DEF b
    <3> QED BY ONLY <2>1, <2>3
  <2>5. \A i \in 1..n : b[i] \in X <=> scan[i] \in Y
    BY <2>1, <2>3 DEF R
  <2> QED BY <2>1, <2>3, <2>4, <2>5 DEF R
<1> HIDE DEF b, Y
<1>6. CountIn(b, X) = CountIn(scan, Y)
  BY <1>5, CountSame
<1> QED BY <1>1, <1>2, <1>3, <1>4, <1>5, <1>6

\* A record brings a record for every mate.
LEMMA OfRecordIs ==
  ASSUME NEW rset2, rset2.recs \in Seq(Records), OneKey(rset2), NEW r1 \in Records,
         NEW field \in Names, NEW X
  PROVE  /\ OfRecord(r1, field, rset2) \in Seq(Records)
         /\ IsFiniteSet(Matched(r1, field, rset2, X))
         /\ CountIn(OfRecord(r1, field, rset2), X) = Cardinality(Matched(r1, field, rset2, X))
<1> DEFINE M == Matched(r1, field, rset2, X)
           n == rec_record_get_num_fields_by_name(r1, field)
           F == [k \in 1..n |-> OfKey(r1, field, rset2, k)]
           P == [k \in 1..n |-> IF k = 1 THEN M ELSE {}]
           Q == Seq(Records)
<1>1. /\ OfKey(r1, field, rset2, 1) \in Q /\ IsFiniteSet(M)
      /\ CountIn(OfKey(r1, field, rset2, 1), X) = Cardinality(M)
      /\ \A k \in Nat : k > 1 => OfKey(r1, field, rset2, k) = << >>
  BY OfKeyIs
<1>2. n \in Nat /\ (n = 0 => M = {})
  <2>1. r1 \in Seq(Fields)
    BY DEF Records
  <2>2. n = Len(Named(r1, field))
    BY DEF rec_record_get_num_fields_by_name
  <2>3. n = 0 => ValuesOf(r1, field) = {}
    BY <2>1, <2>2, NoneNamed
  <2>4. n \in Nat
    BY <2>1, <2>2, NamedIs
  <2> HIDE DEF n
  <2> QED BY <2>3, <2>4 DEF Matched, Mates
<1> HIDE DEF n, M
<1>3. \A k \in 1..n : F[k] = OfKey(r1, field, rset2, k) /\ F[k] \in Q /\ (k # 1 => F[k] = << >>)
  <2> TAKE k \in 1..n
  <2>1. k \in Nat /\ (k = 1 \/ k > 1) /\ F[k] = OfKey(r1, field, rset2, k)
    BY <1>2
  <2>2. << >> \in Q
    OBVIOUS
  <2> QED BY <1>1, <2>1, <2>2
<1>4. SeqsOver(F, Records) /\ Len(F) = n
  <2>1. F = [k \in 1..n |-> F[k]]
    OBVIOUS
  <2>2. \A k \in 1..n : F[k] \in Q
    BY <1>3
  <2> HIDE DEF F, Q
  <2>3. F \in Seq(Q) /\ Len(F) = n
    BY ONLY <1>2, <2>1, <2>2
  <2> QED BY <2>3 DEF SeqsOver, Q
<1>5. \A k \in 1..n : P[k] = IF k = 1 THEN M ELSE {}
  OBVIOUS
<1>6. UNION {P[k] : k \in 1..n} = M
  <2>1. CASE n = 0
    BY <1>2, <2>1
  <2>2. CASE n # 0
    <3>1. 1 \in 1..n
      BY <1>2, <2>2
    <3> HIDE DEF P
    <3> QED BY <1>5, <3>1
  <2> QED BY <2>1, <2>2
<1> HIDE DEF F, P, Q
<1>7. Shares(F, P, X)
  <2>1. ASSUME NEW k \in 1..n
        PROVE  IsFiniteSet(P[k]) /\ Cardinality(P[k]) = CountIn(F[k], X)
    <3> DEFINE z == << >>
    <3>1. CountIn(z, X) = 0
      BY CountNone
    <3>2. IsFiniteSet({}) /\ Cardinality({}) = 0
      BY FS_EmptySet
    <3>3. k # 1 => F[k] = z
      BY <1>3
    <3> HIDE DEF z
    <3>4. CASE k = 1
      BY <1>1, <1>3, <1>5, <3>4
    <3>5. CASE k # 1
      BY <1>5, <3>1, <3>2, <3>3, <3>5
    <3> QED BY <3>4, <3>5
  <2>2. \A i, j \in 1..n : i # j => P[i] \cap P[j] = {}
    BY <1>5
  <2> QED BY <1>4, <2>1, <2>2 DEF Shares
<1>8. /\ FlattenSeq(F) \in Seq(Records)
      /\ IsFiniteSet(UNION {P[i] : i \in 1..Len(F)})
      /\ CountIn(FlattenSeq(F), X) = Cardinality(UNION {P[i] : i \in 1..Len(F)})
  <2>1. SeqsOver(F, Records)
    BY <1>4
  <2> QED BY ONLY <1>7, <2>1, FlattenCount, Z3
<1>9. CountIn(FlattenSeq(F), X) = Cardinality(M)
  BY <1>4, <1>6, <1>8, Zenon
<1> QED BY <1>1, <1>8, <1>9 DEF OfRecord, F, n, M

\* The pairs of records that become one in X.
PairsIn(rset1, rset2, field, X) ==
  {p \in (DOMAIN rset1.recs) \X (DOMAIN rset2.recs) :
     p[2] \in Matched(rset1.recs[p[1]], field, rset2, X)}

\* The records of a join are those that the records bring.
LEMMA JoinRecs ==
  ASSUME NEW rset1, IsRset(rset1), NEW rset2, NEW field
  PROVE  rec_db_join(rset1, rset2, field).recs
           = FlattenSeq([i \in DOMAIN rset1.recs |-> OfRecord(rset1.recs[i], field, rset2)])
<1> DEFINE ofKey(r1, k) == Each(LAMBDA r2 : Joined(r1, r2, field),
                                JoinScan(r1, field, rset2, k - 1))
           ofRecord(r1) ==
             FlattenSeq([k \in 1..rec_record_get_num_fields_by_name(r1, field) |-> ofKey(r1, k)])
           recs == FlattenSeq(Each(ofRecord, rset1.recs))
           type == rset1.type \o field
           n == Len(recs)
           j == [rset1 EXCEPT !.type = type, !.recs = recs, !.count = n,
                              !.sort = None, !.order = None, !.ints = {}, !.key = None,
                              !.refs = << >>]
<1>1. rec_db_join(rset1, rset2, field) = j
  BY DEF rec_db_join
<1>2. recs = FlattenSeq([i \in DOMAIN rset1.recs |-> OfRecord(rset1.recs[i], field, rset2)])
  BY DEF OfRecord, OfKey, Each
<1> HIDE DEF recs, type, n
<1>3. "recs" \in DOMAIN rset1
  BY DEF IsRset
<1>4. j.recs = recs
  BY <1>3
<1> QED BY <1>1, <1>2, <1>4

\* A join has each record as often as pairs of mates become it.
LEMMA JoinCount ==
  ASSUME NEW rset1, IsRset(rset1), NEW rset2, rset2.recs \in Seq(Records), OneKey(rset2),
         NEW field \in Names, NEW X
  PROVE  /\ rec_db_join(rset1, rset2, field).recs \in Seq(Records)
         /\ IsFiniteSet(PairsIn(rset1, rset2, field, X))
         /\ CountIn(rec_db_join(rset1, rset2, field).recs, X)
              = Cardinality(PairsIn(rset1, rset2, field, X))
<1> DEFINE s == rset1.recs
           N == Len(s)
           M(i) == Matched(s[i], field, rset2, X)
           F == [i \in DOMAIN s |-> OfRecord(s[i], field, rset2)]
           P == [i \in 1..N |-> {i} \X M(i)]
           Q == Seq(Records)
           pairs == PairsIn(rset1, rset2, field, X)
<1>1. N \in Nat /\ DOMAIN s = 1..N /\ \A i \in 1..N : s[i] \in Records
  BY DEF IsRset
<1>2. \A i \in 1..N : /\ OfRecord(s[i], field, rset2) \in Q /\ IsFiniteSet(M(i))
                      /\ CountIn(OfRecord(s[i], field, rset2), X) = Cardinality(M(i))
  <2> TAKE i \in 1..N
  <2>1. s[i] \in Records
    BY <1>1
  <2> DEFINE r1 == s[i]
  <2> HIDE DEF r1
  <2>2. /\ OfRecord(r1, field, rset2) \in Seq(Records)
        /\ IsFiniteSet(Matched(r1, field, rset2, X))
        /\ CountIn(OfRecord(r1, field, rset2), X) = Cardinality(Matched(r1, field, rset2, X))
    <3>1. r1 \in Records
      BY <2>1 DEF r1
    <3> QED BY <3>1, OfRecordIs
  <2> QED BY <2>2 DEF r1
<1>3. rec_db_join(rset1, rset2, field).recs = FlattenSeq(F)
  BY JoinRecs
<1>4. \A p : p \in pairs <=> \E i \in 1..N : p \in {i} \X M(i)
  <2> TAKE p
  <2>1. ASSUME p \in pairs PROVE \E i \in 1..N : p \in {i} \X M(i)
    <3>1. p \in (1..N) \X (DOMAIN rset2.recs) /\ p[2] \in M(p[1])
      BY <1>1, <2>1 DEF PairsIn
    <3> HIDE DEF M
    <3>2. p = <<p[1], p[2]>> /\ p[1] \in 1..N
      BY <3>1
    <3>3. p \in {p[1]} \X M(p[1])
      BY <3>1, <3>2
    <3> QED BY <3>2, <3>3
  <2>2. ASSUME NEW i \in 1..N, p \in {i} \X M(i) PROVE p \in pairs
    <3>1. M(i) \subseteq DOMAIN rset2.recs
      BY DEF Matched
    <3> HIDE DEF M
    <3>2. p = <<p[1], p[2]>> /\ p[1] = i /\ p[2] \in M(i)
      BY <2>2
    <3>3. p \in (DOMAIN s) \X (DOMAIN rset2.recs) /\ p[2] \in M(p[1])
      <4>1. i \in DOMAIN s /\ p[2] \in DOMAIN rset2.recs
        BY <1>1, <3>1, <3>2
      <4> QED BY <3>2, <4>1
    <3> QED BY <3>3 DEF PairsIn, M
  <2> QED BY <2>1, <2>2
<1> HIDE DEF M
<1>5. F = [i \in 1..N |-> F[i]] /\ \A i \in 1..N : F[i] = OfRecord(s[i], field, rset2)
  BY <1>1
<1>6. \A i \in 1..N : P[i] = {i} \X M(i)
  OBVIOUS
<1> HIDE DEF pairs, F, P, N
<1>7. SeqsOver(F, Records) /\ Len(F) = N
  <2>1. \A i \in 1..N : F[i] \in Q
    BY <1>2, <1>5
  <2> HIDE DEF Q
  <2>2. F \in Seq(Q) /\ Len(F) = N
    BY ONLY <1>1, <1>5, <2>1
  <2> QED BY <2>2 DEF SeqsOver, Q
<1>8. UNION {P[i] : i \in 1..N} = pairs
  BY <1>4, <1>6
<1>9. Shares(F, P, X)
  <2>1. ASSUME NEW i \in 1..N
        PROVE  IsFiniteSet(P[i]) /\ Cardinality(P[i]) = CountIn(F[i], X)
    <3> DEFINE A == M(i)
               B == {i}
    <3>1. IsFiniteSet(A) /\ CountIn(F[i], X) = Cardinality(A)
      BY <1>2, <1>5
    <3>2. IsFiniteSet(B) /\ Cardinality(B) = 1
      BY FS_Singleton
    <3>3. P[i] = B \X A
      BY <1>6
    <3> HIDE DEF A, B
    <3>4. IsFiniteSet(B \X A) /\ Cardinality(B \X A) = Cardinality(B) * Cardinality(A)
      BY <3>1, <3>2, FS_Product
    <3>5. Cardinality(A) \in Nat
      BY <3>1, FS_CardinalityType
    <3> QED BY <3>1, <3>2, <3>3, <3>4, <3>5
  <2>2. \A i, j \in 1..N : i # j => P[i] \cap P[j] = {}
    BY <1>6
  <2> QED BY <1>7, <2>1, <2>2 DEF Shares
<1>10. /\ FlattenSeq(F) \in Seq(Records)
       /\ IsFiniteSet(UNION {P[i] : i \in 1..Len(F)})
       /\ CountIn(FlattenSeq(F), X) = Cardinality(UNION {P[i] : i \in 1..Len(F)})
  <2>1. SeqsOver(F, Records)
    BY <1>7
  <2> QED BY ONLY <1>9, <2>1, FlattenCount, Z3
<1> QED
  <2>1. Len(F) = N
    BY <1>7
  <2> QED BY <1>3, <1>8, <1>10, <2>1, Zenon DEF pairs

\* The pairs of records that have a key in common, and what becomes of one.
JoinPairs(rset1, rset2, field) ==
  {p \in (DOMAIN rset1.recs) \X (DOMAIN rset2.recs) :
     ValuesOf(rset2.recs[p[2]], rset2.key) \cap ValuesOf(rset1.recs[p[1]], field) # {}}
JoinOfPair(rset1, rset2, field, p) ==
  Where(rset1.recs[p[1]], LAMBDA f : f.n # field)
    \o [i \in DOMAIN rset2.recs[p[2]] |->
          [n |-> field \o rset2.recs[p[2]][i].n, v |-> rset2.recs[p[2]][i].v]]
IsJoin(rset1, rset2, field, recs) ==
  /\ Len(recs) = Cardinality(JoinPairs(rset1, rset2, field))
  /\ \A p \in JoinPairs(rset1, rset2, field) :
       Cardinality({i \in DOMAIN recs : recs[i] = JoinOfPair(rset1, rset2, field, p)})
         = Cardinality({o \in JoinPairs(rset1, rset2, field) :
                          JoinOfPair(rset1, rset2, field, o) = JoinOfPair(rset1, rset2, field, p)})

\* Sequences that count the same as the join are the relational join.
LEMMA JoinIs ==
  ASSUME NEW rset1, IsRset(rset1), NEW rset2, IsRset(rset2), OneKey(rset2), NEW field \in Names,
         NEW recs \in Seq(Records),
         \A X : CountIn(recs, X) = CountIn(rec_db_join(rset1, rset2, field).recs, X)
  PROVE  IsJoin(rset1, rset2, field, recs)
<1> DEFINE A == JoinPairs(rset1, rset2, field)
           made1(p) == JoinOfPair(rset1, rset2, field, p)
           B(X) == PairsIn(rset1, rset2, field, X)
<1>0. rset1.recs \in Seq(Records) /\ rset2.recs \in Seq(Records)
  BY DEF IsRset
<1>1. \A X : CountIn(recs, X) = Cardinality(B(X))
  <2> TAKE X
  <2>1. CountIn(rec_db_join(rset1, rset2, field).recs, X) = Cardinality(B(X))
    BY <1>0, JoinCount
  <2> QED BY <2>1
<1>2. \A p \in A : /\ p[1] \in DOMAIN rset1.recs /\ p[2] \in DOMAIN rset2.recs
                   /\ made1(p) = Joined(rset1.recs[p[1]], rset2.recs[p[2]], field)
                   /\ made1(p) \in Records
  <2> TAKE p \in A
  <2>1. p[1] \in DOMAIN rset1.recs /\ p[2] \in DOMAIN rset2.recs
    BY DEF JoinPairs
  <2> DEFINE r1 == rset1.recs[p[1]]
             r2 == rset2.recs[p[2]]
  <2>2. r1 \in Records /\ r2 \in Records
    BY <1>0, <2>1
  <2> HIDE DEF r1, r2
  <2>3. /\ Joined(r1, r2, field) \in Records
        /\ Joined(r1, r2, field)
             = Where(r1, LAMBDA f : f.n # field)
               \o [i \in DOMAIN r2 |-> [n |-> field \o r2[i].n, v |-> r2[i].v]]
    BY <2>2, JoinedIs
  <2>4. made1(p) = Where(r1, LAMBDA f : f.n # field)
               \o [i \in DOMAIN r2 |-> [n |-> field \o r2[i].n, v |-> r2[i].v]]
    BY DEF JoinOfPair, r1, r2
  <2>5. made1(p) = Joined(r1, r2, field) /\ made1(p) \in Records
    BY <2>3, <2>4
  <2> QED BY <2>1, <2>5 DEF r1, r2
<1> HIDE DEF made1
<1>3. \A X : B(X) = {o \in A : made1(o) \in X}
  <2> TAKE X
  <2>1. \A o : o \in B(X) <=> o \in A /\ Joined(rset1.recs[o[1]], rset2.recs[o[2]], field) \in X
    <3> TAKE o
    <3>1. o \in (DOMAIN rset1.recs) \X (DOMAIN rset2.recs) => o[2] \in DOMAIN rset2.recs
      OBVIOUS
    <3> QED BY <3>1 DEF PairsIn, JoinPairs, Matched, Mates
  <2> HIDE DEF A, B
  <2>2. \A o : o \in B(X) <=> o \in A /\ made1(o) \in X
    BY <1>2, <2>1
  <2> QED BY <2>2
<1> HIDE DEF A, B
<1>4. Len(recs) = Cardinality(A)
  <2>1. B(Records) = A
    <3>1. B(Records) = {o \in A : made1(o) \in Records}
      BY <1>3
    <3>2. \A o \in A : made1(o) \in Records
      BY <1>2
    <3> QED BY <3>1, <3>2
  <2>2. CountIn(recs, Records) = Len(recs)
    BY CountAll
  <2>3. CountIn(recs, Records) = Cardinality(B(Records))
    BY <1>1
  <2> QED BY <2>1, <2>2, <2>3
<1>5. ASSUME NEW p \in A
      PROVE  Cardinality({i \in DOMAIN recs : recs[i] = made1(p)})
               = Cardinality({o \in A : made1(o) = made1(p)})
  <2> DEFINE x == made1(p)
  <2>1. {i \in DOMAIN recs : recs[i] = x} = {i \in DOMAIN recs : recs[i] \in {x}}
    OBVIOUS
  <2>2. CountIn(recs, {x}) = Cardinality({i \in DOMAIN recs : recs[i] = x})
    BY <2>1 DEF CountIn
  <2>3. B({x}) = {o \in A : made1(o) = x}
    <3>1. B({x}) = {o \in A : made1(o) \in {x}}
      BY <1>3
    <3> QED BY <3>1
  <2>4. CountIn(recs, {x}) = Cardinality(B({x}))
    BY <1>1
  <2> HIDE DEF x
  <2>5. Cardinality({i \in DOMAIN recs : recs[i] = x}) = Cardinality({o \in A : made1(o) = x})
    BY <2>2, <2>3, <2>4
  <2> QED BY <2>5 DEF x
<1> QED BY <1>4, <1>5 DEF IsJoin, A, made1

\* The record set of a join has no order.
LEMMA JoinUnordered ==
  ASSUME NEW rset1, IsRset(rset1), NEW rset2, NEW field
  PROVE  rec_db_join(rset1, rset2, field).order = None
<1> DEFINE ofKey(r1, k) == Each(LAMBDA r2 : Joined(r1, r2, field),
                                JoinScan(r1, field, rset2, k - 1))
           ofRecord(r1) ==
             FlattenSeq([k \in 1..rec_record_get_num_fields_by_name(r1, field) |-> ofKey(r1, k)])
           recs == FlattenSeq(Each(ofRecord, rset1.recs))
           type == rset1.type \o field
           n == Len(recs)
           j == [rset1 EXCEPT !.type = type, !.recs = recs, !.count = n,
                              !.sort = None, !.order = None, !.ints = {}, !.key = None,
                              !.refs = << >>]
<1>1. rec_db_join(rset1, rset2, field) = j
  BY DEF rec_db_join
<1> HIDE DEF recs, type, n
<1>3. "order" \in DOMAIN rset1
  BY DEF IsRset
<1>4. j.order = None
  BY <1>3
<1> QED BY <1>1, <1>4

\* Everything is selected, once.
LEMMA AllSelected ==
  ASSUME NEW rset, rset.recs \in Seq(Records), NEW q, Entire(q), q.sel.how = "all", NEW index
  PROVE  /\ Selected(rset, q, index) \in Seq(Records)
         /\ \A X : CountIn(Selected(rset, q, index), X) = CountIn(rset.recs, X)
<1> DEFINE s == rset.recs
           K == SelectedPlaces(rset, q, index)
<1>1. K = DOMAIN s
  BY DEF SelectedPlaces, rec_db_record_selected_p
<1>2. \A X : Cardinality(PlacesKept(s, K, X)) = CountIn(s, X)
  <2> TAKE X
  <2>1. PlacesKept(s, K, X) = {i \in DOMAIN s : s[i] \in X}
    BY <1>1 DEF PlacesKept
  <2> QED BY <2>1 DEF CountIn
<1>3. /\ Selected(rset, q, index) \in Seq(Records)
      /\ \A X : CountIn(Selected(rset, q, index), X) = Cardinality(PlacesKept(s, K, X))
  BY SelectedCount
<1> HIDE DEF K
<1> QED BY <1>2, <1>3

\* The record set that is referred to is one of the database.
LEMMA ReferredInDb ==
  ASSUME NEW d, NEW q, JoinP(d, q)
  PROVE  Referred(d, q) \in DOMAIN d
<1> DEFINE type == d[Target(d, q)].refs[q.join]
           at == {i \in DOMAIN d : d[i].type = type}
           g == rec_db_get_rset_by_type(d, type)
<1>1. Referred(d, q) = g /\ g # 0
  BY DEF JoinP, Referred
<1>2. g = IF at = {} THEN 0 ELSE CHOOSE i \in at : TRUE
  BY DEF rec_db_get_rset_by_type
<1>3. at # {} => (CHOOSE i \in at : TRUE) \in at
  OBVIOUS
<1>4. at \subseteq DOMAIN d
  OBVIOUS
<1> HIDE DEF at, g
<1> QED BY <1>1, <1>2, <1>3, <1>4

\* A query for a join, and nothing else, is answered by the relational join.
LEMMA JoinAnswered ==
  ASSUME IsDb(db), NEW q, rec_db_query(q), result'.status = "ok", Target(db, q) # 0,
         Whole(q), q.group = None, q.join \in Seq(STRING), JoinP(db, q), KeysComplete(q, db)
  PROVE  IsJoin(db[Target(db, q)], db[Referred(db, q)], q.join, result'.recs)
<1> DEFINE rset1 == db[Target(db, q)]
           rset2 == db[Referred(db, q)]
           j == rec_db_join(rset1, rset2, q.join)
<1>1. q.sel.how = "all" /\ q.fex = None /\ ~q.uniq /\ q.sort = None /\ Entire(q)
      /\ q.join \in Names
  BY DEF Whole, Entire, JoinP, Names, None
<1>2. IsRset(rset1)
  BY TargetInDb DEF IsDb
<1>3. IsRset(rset2)
  BY ReferredInDb DEF IsDb
<1>4. OneKey(rset2)
  BY DEF KeysComplete, OneKey
<1>5. Source(db, q) = j
  BY DEF Source
<1>6. j.order = None
  BY <1>2, JoinUnordered
<1>7. Arranged(j, q) = j
  BY <1>1, <1>6 DEF Arranged, AggregatesOnly, rec_rset_sort
<1>8. ~(rset2.key = None)
  <2>1. SUFFICES ASSUME rset2.key = None PROVE FALSE
    OBVIOUS
  <2>2. result' = Answer("out of memory", None, << >>)
    BY <2>1 DEF rec_db_query
  <2> QED BY <2>2 DEF Answer
<1>9. \E index : result'.recs = Selected(j, q, index)
  <2>1. \E draws \in Draws(q, j) :
          result' = Answer("ok", IF q.descriptor THEN j.type ELSE None,
                           Selected(j, q, q.sel.index))
    BY <1>1, <1>5, <1>7, <1>8 DEF rec_db_query
  <2> QED BY <2>1 DEF Answer
<1>10. PICK index : result'.recs = Selected(j, q, index)
  BY <1>9
<1> DEFINE recs == Selected(j, q, index)
<1>11. j.recs \in Seq(Records)
  <2> HIDE DEF rset1, rset2
  <2>1. rset2.recs \in Seq(Records)
    BY <1>3 DEF IsRset
  <2> QED BY <1>1, <1>2, <1>4, <2>1, JoinCount
<1> HIDE DEF rset1, rset2
<1>12. recs \in Seq(Records) /\ \A X : CountIn(recs, X) = CountIn(j.recs, X)
  <2> HIDE DEF j
  <2> QED BY <1>1, <1>11, AllSelected
<1> HIDE DEF recs
<1>13. IsJoin(rset1, rset2, q.join, recs)
  BY <1>1, <1>2, <1>3, <1>4, <1>12, JoinIs
<1> QED BY <1>10, <1>13 DEF recs, rset1, rset2

\* A query that is answered answers JoinExact.
LEMMA JoinStep ==
  ASSUME IsDb(db), NEW q \in Queries, rec_db_query(q), before' = db, query' = q
  PROVE  JoinExact'
<1>1. SUFFICES ASSUME result'.status = "ok", Target(db, q) # 0, Whole(q), q.group = None,
                      JoinP(db, q), KeysComplete(q, db)
               PROVE  IsJoin(db[Target(db, q)], db[Referred(db, q)], q.join, result'.recs)
  <2>1. InnerJoin(query, before)'
          <=> IsJoin(before'[Target(before', query')], before'[Referred(before', query')],
                     query'.join, result'.recs)
    BY Zenon DEF InnerJoin, IsJoin, JoinPairs, JoinOfPair, Where, Target, Referred,
                 rec_db_get_rset_by_type
  <2> QED BY <2>1 DEF JoinExact, Answered
<1>2. q.join \in Seq(STRING)
  BY QueriesAssumption DEF IsQuery
<1> QED BY <1>1, <1>2, JoinAnswered

\* JoinExact, for all databases and queries: rec_db_join makes one record of every
\* pair with a key in common, as long as every record that is referred to has one key.
THEOREM JoinIsExact == Spec => []JoinExact
<1>1. Init => JoinExact
  BY DEF Init, JoinExact, Answered
<1>2. IsDb(db) /\ JoinExact /\ [Next]_vars => JoinExact'
  <2>1. SUFFICES ASSUME IsDb(db), JoinExact, [Next]_vars PROVE JoinExact'
    OBVIOUS
  <2>2. CASE UNCHANGED vars
    <3>1. InnerJoin(query, before)
            <=> IsJoin(before[Target(before, query)], before[Referred(before, query)],
                       query.join, result.recs)
      BY Zenon DEF InnerJoin, IsJoin, JoinPairs, JoinOfPair
    <3>2. InnerJoin(query, before)'
            <=> IsJoin(before'[Target(before', query')], before'[Referred(before', query')],
                       query'.join, result'.recs)
      BY Zenon DEF InnerJoin, IsJoin, JoinPairs, JoinOfPair, Where, Target, Referred,
                   rec_db_get_rset_by_type
    <3>3. before' = before /\ query' = query /\ result' = result /\ made' = made
      BY <2>2 DEF vars
    <3> QED BY <2>1, <3>1, <3>2, <3>3 DEF JoinExact, Answered
  <2>3. ASSUME NEW q \in Queries, Query(q) PROVE JoinExact'
    BY <2>1, <2>3, JoinStep DEF Query
  <2>4. ASSUME NEW q \in Queries, Recsel(q) PROVE JoinExact'
    <3>1. CASE q.type = None /\ Len(db) > 1
      <4>1. result' = Answer("fatal", None, << >>)
        BY <2>4, <3>1 DEF Recsel
      <4> QED BY <4>1 DEF JoinExact, Answered, Answer
    <3>2. CASE ~(q.type = None /\ Len(db) > 1)
      BY <2>1, <2>4, <3>2, JoinStep DEF Recsel
    <3> QED BY <3>1, <3>2
  <2> QED BY <2>1, <2>2, <2>3, <2>4 DEF Next
<1> QED BY <1>1, <1>2, QueryInvAlways, PTL DEF Spec, QueryInv

---------------------------------------------------------------------------
(* Aggregates *)

\* The value of the fold of s.
FoldG(X, g, b, s) == (CHOOSE h \in [0..Len(s) -> X] : Folds(h, g, b, s))[Len(s)]

\* The values of a fold, as long as they are in X.
FoldsIn(v, X, g, b, s) ==
  v[0] = b /\ \A n \in 1..Len(s) : v[n - 1] \in X => v[n] = g[v[n - 1]][s[n]]

\* Whatever satisfies the equations of the fold has its last value.
LEMMA FoldGIs ==
  ASSUME NEW X, NEW E, NEW g \in [X -> [E -> X]], NEW b \in X, NEW s \in Seq(E),
         NEW v, FoldsIn(v, X, g, b, s)
  PROVE  v[Len(s)] = FoldG(X, g, b, s) /\ FoldG(X, g, b, s) \in X
<1> DEFINE N == Len(s)
           h == CHOOSE h \in [0..N -> X] : Folds(h, g, b, s)
<1>1. \E k \in [0..N -> X] : Folds(k, g, b, s)
  BY FoldWitness
<1>2. h \in [0..N -> X] /\ Folds(h, g, b, s)
  <2> HIDE DEF N
  <2> QED BY <1>1, Zenon
<1>3. FoldG(X, g, b, s) = h[N]
  BY DEF FoldG
<1>0. N \in Nat
  OBVIOUS
<1> HIDE DEF h
<1>4. h[0] = b /\ \A n \in 1..N : h[n] = g[h[n - 1]][s[n]]
  BY <1>2 DEF Folds
<1>8. v[0] = b /\ \A n \in 1..N : v[n - 1] \in X => v[n] = g[v[n - 1]][s[n]]
  BY DEF FoldsIn
<1> HIDE DEF N
<1> DEFINE T == {n \in 0..N : v[n] = h[n]}
<1>5. 0 \in T
  BY <1>0, <1>4, <1>8
<1>6. \A n \in 0..(N - 1) : n \in T => n + 1 \in T
  <2> TAKE n \in 0..(N - 1)
  <2> HAVE n \in T
  <2>1. n + 1 \in 1..N /\ (n + 1) - 1 = n /\ n \in 0..N /\ n + 1 \in 0..N
    BY <1>0, SMTT(30)
  <2>2. h[n] \in X /\ v[n] = h[n]
    BY <1>2, <2>1
  <2>3. v[n + 1] = g[v[n]][s[n + 1]] /\ h[n + 1] = g[h[n]][s[n + 1]]
    BY <1>4, <1>8, <2>1, <2>2
  <2> QED BY <2>1, <2>2, <2>3
<1>7. N \in T
  <2> HIDE DEF T
  <2>1. 0..N \subseteq T
    BY ONLY <1>0, <1>5, <1>6, UpToInduction
  <2>2. N \in 0..N
    BY <1>0
  <2> QED BY <2>1, <2>2
<1> QED
  <2>1. h[N] \in X /\ v[N] = h[N]
    BY <1>0, <1>2, <1>7
  <2> QED BY <1>3, <2>1 DEF N

\* The fold begins with b, stays in X and takes a step of g for an element more.
FoldsNext(X, E, g, b) ==
  /\ FoldG(X, g, b, << >>) = b
  /\ \A s \in Seq(E) : FoldG(X, g, b, s) \in X
  /\ \A s \in Seq(E), e \in E : FoldG(X, g, b, Append(s, e)) = g[FoldG(X, g, b, s)][e]

\* A fold goes by the steps of g.
LEMMA FoldGNext ==
  ASSUME NEW X, NEW E, NEW g \in [X -> [E -> X]], NEW b \in X
  PROVE  FoldsNext(X, E, g, b)
<1>1. FoldG(X, g, b, << >>) = b
  <2>1. << >> \in Seq(E) /\ Len(<< >>) = 0
    OBVIOUS
  <2> DEFINE z == << >>
  <2>2. Len(z) = 0
    BY <2>1
  <2>6. z \in Seq(E)
    BY <2>1
  <2> HIDE DEF z
  <2>3. PICK h \in [0..Len(z) -> X] : Folds(h, g, b, z)
    BY <2>6, FoldWitness
  <2>4. h[0] = b
    BY <2>3 DEF Folds
  <2>7. FoldsIn(h, X, g, b, z)
    BY <2>3 DEF FoldsIn, Folds
  <2>5. h[Len(z)] = FoldG(X, g, b, z) /\ FoldG(X, g, b, z) \in X
    BY <2>6, <2>7, FoldGIs
  <2> QED BY <2>2, <2>4, <2>5 DEF z
<1>2. ASSUME NEW s \in Seq(E) PROVE FoldG(X, g, b, s) \in X
  <2>1. PICK h \in [0..Len(s) -> X] : Folds(h, g, b, s)
    BY FoldWitness
  <2>2. FoldsIn(h, X, g, b, s)
    BY <2>1 DEF Folds, FoldsIn
  <2> QED BY <2>2, FoldGIs
<1>3. ASSUME NEW s \in Seq(E), NEW e \in E
      PROVE  FoldG(X, g, b, Append(s, e)) = g[FoldG(X, g, b, s)][e]
  <2> DEFINE t == Append(s, e)
             N == Len(s)
  <2>1. /\ t \in Seq(E) /\ Len(t) = N + 1 /\ t[N + 1] = e /\ N \in Nat
        /\ \A i \in 1..N : t[i] = s[i]
    BY AppendProperties
  <2> HIDE DEF t
  <2>2. PICK h \in [0..Len(t) -> X] : Folds(h, g, b, t)
    BY <2>1, FoldWitness
  <2>3. h[0] = b /\ \A n \in 1..(N + 1) : h[n] = g[h[n - 1]][t[n]]
    BY <2>1, <2>2 DEF Folds
  <2>4. h[Len(t)] = FoldG(X, g, b, t) /\ FoldG(X, g, b, t) \in X
    <3>1. FoldsIn(h, X, g, b, t)
      BY <2>2 DEF Folds, FoldsIn
    <3> QED BY <2>1, <3>1, FoldGIs
  <2>5. h[Len(s)] = FoldG(X, g, b, s) /\ FoldG(X, g, b, s) \in X
    <3>1. \A n \in 1..N : n \in 1..(N + 1) /\ t[n] = s[n]
      BY <2>1
    <3>2. \A n \in 1..N : h[n] = g[h[n - 1]][s[n]]
      BY <2>3, <3>1
    <3>3. FoldsIn(h, X, g, b, s)
      BY <2>3, <3>2 DEF FoldsIn
    <3> QED BY <3>3, FoldGIs
  <2>6. h[N + 1] = g[h[N]][e]
    <3>1. N + 1 \in 1..(N + 1) /\ (N + 1) - 1 = N
      BY <2>1
    <3> QED BY <2>1, <2>3, <3>1
  <2> QED BY <2>1, <2>4, <2>5, <2>6 DEF t
<1> QED BY <1>1, <1>2, <1>3 DEF FoldsNext

\* The laws of a step that make the fold of a concatenation the step of the folds.
Collects(X, g, b) ==
  /\ b \in X /\ g \in [X -> [X -> X]]
  /\ g[b][b] = b
  /\ \A x, y \in X : g[x][y] = g[y][x]
  /\ \A x, y, z \in X : g[g[x][y]][z] = g[x][g[y][z]]

\* The fold of a concatenation is one step between the folds.
LEMMA FoldGConcat ==
  ASSUME NEW X, NEW g, NEW b, Collects(X, g, b), NEW s \in Seq(X)
  PROVE  \A t \in Seq(X) : FoldG(X, g, b, s \o t) = g[FoldG(X, g, b, s)][FoldG(X, g, b, t)]
<1> DEFINE F(a) == FoldG(X, g, b, a)
           G == {t \in Seq(X) : F(s \o t) = g[F(s)][F(t)] /\ g[F(t)][b] = F(t)}
<1>0. b \in X /\ g \in [X -> [X -> X]]
  BY DEF Collects
<1>1. /\ F(<< >>) = b /\ \A a \in Seq(X) : F(a) \in X
      /\ \A a \in Seq(X), e \in X : F(Append(a, e)) = g[F(a)][e]
  <2>1. FoldsNext(X, X, g, b)
    BY <1>0, FoldGNext
  <2> QED BY <2>1 DEF FoldsNext
<1>2. /\ g[b][b] = b
      /\ \A x, y \in X : g[x][y] = g[y][x] /\ g[x][y] \in X
      /\ \A x, y, z \in X : g[g[x][y]][z] = g[x][g[y][z]]
  BY <1>0 DEF Collects
<1> HIDE DEF F
<1>3. \A a \in Seq(X) : g[F(a)][b] = F(a)
  <2> DEFINE H == {a \in Seq(X) : g[F(a)][b] = F(a)}
  <2>1. << >> \in H
    BY <1>1, <1>2, EmptySeq
  <2>2. ASSUME NEW a \in Seq(X), NEW e \in X, a \in H PROVE Append(a, e) \in H
    <3>1. Append(a, e) \in Seq(X) /\ F(Append(a, e)) = g[F(a)][e] /\ F(a) \in X
      BY <1>1, AppendProperties
    <3>2. g[g[F(a)][e]][b] = g[F(a)][g[e][b]] /\ g[e][b] = g[b][e]
          /\ g[F(a)][g[b][e]] = g[g[F(a)][b]][e]
      BY <1>0, <1>2, <3>1
    <3>3. g[F(a)][b] = F(a)
      BY <2>2
    <3> QED BY <3>1, <3>2, <3>3
  <2>3. Seq(X) \subseteq H
    <3> HIDE DEF H
    <3> QED BY <2>1, <2>2, SeqInduction
  <2> QED BY <2>3
<1> DEFINE K == {t \in Seq(X) : F(s \o t) = g[F(s)][F(t)]}
<1>4. << >> \in K
  <2>1. << >> \in Seq(X) /\ s \o << >> = s
    BY EmptySeq, ConcatEmptySeq
  <2>2. g[F(s)][b] = F(s)
    BY <1>3
  <2> QED BY <1>1, <2>1, <2>2
<1>5. ASSUME NEW t \in Seq(X), NEW e \in X, t \in K PROVE Append(t, e) \in K
  <2>1. s \o Append(t, e) = Append(s \o t, e) /\ s \o t \in Seq(X) /\ Append(t, e) \in Seq(X)
    OBVIOUS
  <2>2. F(Append(s \o t, e)) = g[F(s \o t)][e] /\ F(Append(t, e)) = g[F(t)][e]
    BY <1>1, <2>1
  <2>3. F(s \o t) = g[F(s)][F(t)] /\ F(s) \in X /\ F(t) \in X
    BY <1>1, <1>5
  <2>4. g[g[F(s)][F(t)]][e] = g[F(s)][g[F(t)][e]]
    BY <1>2, <2>3
  <2>5. F(s \o Append(t, e)) = g[F(s)][F(Append(t, e))]
    BY <2>1, <2>2, <2>3, <2>4
  <2> QED BY <2>1, <2>5
<1>6. Seq(X) \subseteq K
  <2> HIDE DEF K
  <2> QED BY <1>4, <1>5, SeqInduction
<1> QED BY <1>6 DEF F

\* The functions that REC_AGGREGATE_ACCUM_FUNC defines, and their values.
Accumulating == {"sum", "min", "max"}
Wholes == {Num(n) : n \in Int}
OpValues(c) == IF c = "max" THEN Wholes \cup {DBL_MIN} ELSE Wholes
OpStep(c) == [a \in OpValues(c) |-> [b \in OpValues(c) |-> OP(c, a, b)]]

\* The one of higher rank.
LEMMA PickCollects ==
  ASSUME NEW X, NEW R \in [X -> Int], \A x, y \in X : R[x] = R[y] => x = y,
         NEW g, g = [x \in X |-> [y \in X |-> IF R[x] < R[y] THEN y ELSE x]], NEW b \in X
  PROVE  Collects(X, g, b)
<1>1. g \in [X -> [X -> X]]
  OBVIOUS
<1>2. \A x, y \in X : g[x][y] = IF R[x] < R[y] THEN y ELSE x
  OBVIOUS
<1>3. \A x \in X : R[x] \in Int
  OBVIOUS
<1>4. \A x, y \in X : g[x][y] = g[y][x]
  <2>1. \A x, y \in X : R[x] = R[y] => x = y
    OBVIOUS
  <2> QED BY ONLY <1>2, <1>3, <2>1
<1>5. ASSUME NEW x \in X, NEW y \in X, NEW z \in X
      PROVE  g[g[x][y]][z] = g[x][g[y][z]]
  <2>1. R[x] \in Int /\ R[y] \in Int /\ R[z] \in Int
    BY <1>3
  <2>2. /\ g[x][y] = IF R[x] < R[y] THEN y ELSE x
        /\ g[y][z] = IF R[y] < R[z] THEN z ELSE y
        /\ g[x][z] = IF R[x] < R[z] THEN z ELSE x
    BY <1>2
  <2>3. x \in X /\ y \in X /\ z \in X
    OBVIOUS
  <2> QED BY ONLY <1>2, <2>1, <2>2, <2>3
<1>6. g[b][b] = b
  BY <1>2
<1> QED BY <1>1, <1>4, <1>5, <1>6 DEF Collects

\* Whole numbers,
LEMMA NumIs == \A m \in Int : Num(m) \in Wholes /\ Num(m)[2] = m
BY DEF Wholes, Num

\* which are nothing but numbers,
LEMMA WholeIs == \A x \in Wholes : x[2] \in Int /\ x = Num(x[2])
BY DEF Wholes, Num

\* add and compare as integers do.
LEMMA NumsAre ==
  \A m, n \in Int : /\ Plus(Num(m), Num(n)) = Num(m + n)
                    /\ Less(Num(m), Num(n)) <=> m < n
BY DEF Num, Plus, Less

\* What REC_AGGREGATE_ACCUM_FUNC is given.
LEMMA OpIs ==
  /\ \A a, b : /\ OP("sum", a, b) = Plus(a, b) /\ OP("min", a, b) = Lesser(a, b)
               /\ OP("max", a, b) = Greater(a, b)
  /\ INIT_VAL("sum") = Num(0) /\ INIT_VAL("min") = DBL_MAX /\ INIT_VAL("max") = DBL_MIN
BY Zenon DEF OP, INIT_VAL

\* Sums collect.
LEMMA SumCollects == Collects(Wholes, OpStep("sum"), INIT_VAL("sum"))
<1> DEFINE g == OpStep("sum")
           b == INIT_VAL("sum")
<1>1. b = Num(0) /\ b \in Wholes
  BY NumIs, OpIs
<1>2. \A x, y \in Wholes : OP("sum", x, y) = Num(x[2] + y[2]) /\ OP("sum", x, y) \in Wholes
  <2> TAKE x, y \in Wholes
  <2>1. x[2] \in Int /\ x = Num(x[2]) /\ y[2] \in Int /\ y = Num(y[2])
    BY WholeIs
  <2>2. OP("sum", x, y) = Plus(x, y)
    BY OpIs
  <2>3. Plus(Num(x[2]), Num(y[2])) = Num(x[2] + y[2])
    BY <2>1, NumsAre
  <2>4. Num(x[2] + y[2]) \in Wholes
    <3>1. x[2] + y[2] \in Int
      BY <2>1
    <3> QED BY <3>1, NumIs
  <2> QED BY <2>1, <2>2, <2>3, <2>4
<1>3. g = [x \in Wholes |-> [y \in Wholes |-> OP("sum", x, y)]]
  BY DEF OpStep, OpValues
<1>4. g \in [Wholes -> [Wholes -> Wholes]]
  BY <1>2, <1>3
<1>5. \A x, y \in Wholes : g[x][y] = Num(x[2] + y[2]) /\ g[x][y] \in Wholes
  BY <1>2, <1>3
<1> HIDE DEF g, b
<1>6. \A x, y \in Wholes : x[2] \in Int /\ g[x][y][2] = x[2] + y[2]
  <2> TAKE x, y \in Wholes
  <2>1. x[2] \in Int /\ y[2] \in Int
    BY WholeIs
  <2>2. x[2] + y[2] \in Int
    BY <2>1
  <2>3. Num(x[2] + y[2])[2] = x[2] + y[2]
    BY <2>2, NumIs
  <2> QED BY <1>5, <2>1, <2>3
<1>7. \A x, y \in Wholes : g[x][y] = g[y][x]
  <2> TAKE x, y \in Wholes
  <2>1. x[2] + y[2] = y[2] + x[2]
    BY <1>6
  <2> QED BY <1>5, <2>1
<1>8. \A x, y, z \in Wholes : g[g[x][y]][z] = g[x][g[y][z]]
  <2> TAKE x, y, z \in Wholes
  <2> DEFINE u == g[x][y]
             w == g[y][z]
  <2>1. u \in Wholes /\ w \in Wholes /\ u[2] = x[2] + y[2] /\ w[2] = y[2] + z[2]
        /\ x[2] \in Int /\ y[2] \in Int /\ z[2] \in Int
    BY <1>5, <1>6
  <2> HIDE DEF u, w
  <2>2. g[u][z] = Num(u[2] + z[2]) /\ g[x][w] = Num(x[2] + w[2])
    BY <1>5, <2>1
  <2>3. u[2] + z[2] = x[2] + w[2]
    BY <2>1
  <2> QED BY <2>2, <2>3 DEF u, w
<1>9. g[b][b] = b
  <2>1. Num(0)[2] = 0
    BY NumIs
  <2>2. b[2] = 0
    BY <1>1, <2>1
  <2>3. g[b][b] = Num(b[2] + b[2])
    BY <1>1, <1>5
  <2> QED BY <1>1, <2>2, <2>3
<1> QED BY <1>1, <1>4, <1>7, <1>8, <1>9 DEF Collects, g, b

\* The smallest numbers collect, and DBL_MAX is a whole number.
LEMMA MinCollects == Collects(Wholes, OpStep("min"), INIT_VAL("min"))
<1> DEFINE g == OpStep("min")
           R == [x \in Wholes |-> 0 - x[2]]
<1>1. INIT_VAL("min") \in Wholes
  BY NumIs, OpIs DEF DBL_MAX
<1>2. R \in [Wholes -> Int] /\ \A x \in Wholes : R[x] = 0 - x[2]
  <2>1. \A x \in Wholes : x[2] \in Int
    BY WholeIs
  <2>2. \A x \in Wholes : 0 - x[2] \in Int
    BY <2>1
  <2> QED BY <2>2
<1>3. \A x, y \in Wholes : /\ OP("min", x, y) = IF R[x] < R[y] THEN y ELSE x
                           /\ R[x] = R[y] => x = y
  <2> TAKE x, y \in Wholes
  <2>1. x[2] \in Int /\ x = Num(x[2]) /\ y[2] \in Int /\ y = Num(y[2])
    BY WholeIs
  <2>2. OP("min", x, y) = IF Less(y, x) THEN y ELSE x
    BY OpIs DEF Lesser
  <2>3. Less(Num(y[2]), Num(x[2])) <=> y[2] < x[2]
    BY <2>1, NumsAre
  <2>4. Less(y, x) <=> R[x] < R[y]
    BY <1>2, <2>1, <2>3
  <2>5. R[x] = R[y] => x[2] = y[2]
    BY <1>2, <2>1
  <2> QED BY <2>1, <2>2, <2>4, <2>5
<1>4. g = [x \in Wholes |-> [y \in Wholes |-> OP("min", x, y)]]
  BY DEF OpStep, OpValues
<1> HIDE DEF g, R
<1>5. g = [x \in Wholes |-> [y \in Wholes |-> IF R[x] < R[y] THEN y ELSE x]]
  BY <1>3, <1>4
<1>6. \A x, y \in Wholes : R[x] = R[y] => x = y
  BY <1>3
<1> QED BY <1>1, <1>2, <1>5, <1>6, PickCollects DEF g

\* The greatest numbers collect, although DBL_MIN is no whole number.
LEMMA MaxCollects == Collects(OpValues("max"), OpStep("max"), INIT_VAL("max"))
<1> DEFINE X == OpValues("max")
           g == OpStep("max")
           R == [x \in X |-> IF x = DBL_MIN THEN 1 ELSE 10000000 * x[2]]
<1>0. X = Wholes \cup {DBL_MIN} /\ DBL_MIN \notin Wholes
  BY SMT, WholeIs DEF OpValues, DBL_MIN, Num
<1>1. INIT_VAL("max") \in X
  BY SMT, <1>0, OpIs
<1>2. /\ R \in [X -> Int] /\ R[DBL_MIN] = 1
      /\ \A x \in Wholes : R[x] = 10000000 * x[2]
  <2>1. \A x \in X : R[x] = IF x = DBL_MIN THEN 1 ELSE 10000000 * x[2]
    BY SMT
  <2>4. \A x \in Wholes : x[2] \in Int
    BY SMT, WholeIs
  <2>2. \A x \in Wholes : 10000000 * x[2] \in Int
    BY SMT, <2>4
  <2>3. \A x \in X : R[x] \in Int
    BY SMT, <1>0, <2>1, <2>2
  <2> QED BY SMT, <1>0, <2>1, <2>3
<1>3. \A x, y \in X : /\ OP("max", x, y) = IF R[x] < R[y] THEN y ELSE x
                      /\ R[x] = R[y] => x = y
  <2> HIDE DEF R, X
  <2> TAKE x, y \in X
  <2>2. OP("max", x, y) = IF Less(x, y) THEN y ELSE x
    BY SMT, OpIs DEF Greater
  <2> DEFINE d == DBL_MIN
  <2>3. ASSUME NEW u \in Wholes, NEW w \in Wholes
        PROVE  (Less(u, w) <=> R[u] < R[w]) /\ (R[u] = R[w] => u = w)
    <3>1. u[2] \in Int /\ u = Num(u[2]) /\ w[2] \in Int /\ w = Num(w[2])
      BY SMT, WholeIs
    <3>2. Less(Num(u[2]), Num(w[2])) <=> u[2] < w[2]
      BY Zenon, <3>1, NumsAre
    <3>3. R[u] = 10000000 * u[2] /\ R[w] = 10000000 * w[2]
      BY SMT, <1>2
    <3>4. (u[2] < w[2] <=> R[u] < R[w]) /\ (R[u] = R[w] => u[2] = w[2])
      BY SMT, <3>1, <3>3
    <3> QED BY SMT, <3>1, <3>2, <3>4
  <2>4. ASSUME NEW u \in Wholes
        PROVE  /\ Less(u, d) <=> R[u] < R[d]
               /\ Less(d, u) <=> R[d] < R[u]
               /\ R[u] # R[d]
    <3> DEFINE n == u[2]
    <3>1. n \in Int /\ u = <<"number", n, 1>>
      BY SMT, WholeIs DEF Num
    <3>2. R[u] = 10000000 * n /\ R[d] = 1
      BY SMT, <1>2
    <3>3. d = <<"number", 1, 10000000>>
      BY SMT DEF DBL_MIN
    <3> HIDE DEF n
    <3>4. (Less(u, d) <=> n * 10000000 < 1 * 1) /\ (Less(d, u) <=> 1 * 1 < n * 10000000)
      <4>1. u[2] = n /\ u[3] = 1 /\ d[2] = 1 /\ d[3] = 10000000
        BY SMT, <3>1, <3>3
      <4> HIDE DEF d
      <4> QED BY SMT, <4>1 DEF Less
    <3> QED BY SMT, <3>1, <3>2, <3>4
  <2>5. Less(d, d) <=> R[d] < R[d]
    BY SMT, <1>2 DEF Less, DBL_MIN
  <2> HIDE DEF d
  <2>6. (Less(x, y) <=> R[x] < R[y]) /\ (R[x] = R[y] => x = y)
    <3>1. (x \in Wholes \/ x = d) /\ (y \in Wholes \/ y = d)
      BY SMT, <1>0 DEF d, X
    <3>2. CASE x \in Wholes /\ y \in Wholes
      BY SMT, <2>3, <3>2
    <3>3. CASE x \in Wholes /\ y = d
      BY SMT, <2>4, <3>3
    <3>4. CASE x = d /\ y \in Wholes
      BY SMT, <2>4, <3>4
    <3>5. CASE x = d /\ y = d
      BY SMT, <2>5, <3>5
    <3> QED BY SMT, <3>1, <3>2, <3>3, <3>4, <3>5
  <2> QED BY SMT, <2>2, <2>6
<1>4. g = [x \in X |-> [y \in X |-> OP("max", x, y)]]
  BY SMT DEF OpStep
<1> HIDE DEF g, R, X
<1>5. g = [x \in X |-> [y \in X |-> IF R[x] < R[y] THEN y ELSE x]]
  BY SMT, <1>3, <1>4
<1>6. \A x, y \in X : R[x] = R[y] => x = y
  BY SMT, <1>3
<1>7. R \in [X -> Int]
  BY SMT, <1>2
<1> QED BY Zenon, <1>1, <1>5, <1>6, <1>7, PickCollects DEF g, X

\* All of them collect.
LEMMA OpCollects ==
  ASSUME NEW c \in Accumulating
  PROVE  Collects(OpValues(c), OpStep(c), INIT_VAL(c)) /\ Wholes \subseteq OpValues(c)
<1>1. OpValues("sum") = Wholes /\ OpValues("min") = Wholes /\ Wholes \subseteq OpValues("max")
  BY DEF OpValues
<1> QED BY <1>1, SumCollects, MinCollects, MaxCollects DEF Accumulating

\* What k makes of each element.
Mapped(k, s) == [i \in DOMAIN s |-> k[s[i]]]

\* k maps the concatenation of s and t to that of what it makes of them.
MapsBoth(k, s, t, W) ==
  /\ Mapped(k, s) \in Seq(W) /\ Len(Mapped(k, s)) = Len(s)
  /\ Mapped(k, s \o t) = Mapped(k, s) \o Mapped(k, t)

\* Mapping distributes over concatenation.
LEMMA MappedConcat ==
  ASSUME NEW L, NEW W, NEW k \in [L -> W], NEW s \in Seq(L), NEW t \in Seq(L)
  PROVE  MapsBoth(k, s, t, W)
<1>1. ASSUME NEW a \in Seq(L)
      PROVE  /\ Mapped(k, a) \in Seq(W) /\ Len(Mapped(k, a)) = Len(a)
             /\ \A i \in 1..Len(a) : Mapped(k, a)[i] = k[a[i]]
  <2> DEFINE N == Len(a)
             m == Mapped(k, a)
  <2>1. N \in Nat /\ DOMAIN a = 1..N /\ \A i \in 1..N : a[i] \in L
    OBVIOUS
  <2>2. m = [i \in 1..N |-> m[i]] /\ \A i \in 1..N : m[i] = k[a[i]] /\ m[i] \in W
    BY <2>1 DEF Mapped
  <2> HIDE DEF m, N
  <2>3. m = [i \in 1..N |-> m[i]] /\ N \in Nat
    BY <2>1, <2>2
  <2>4. \A i \in 1..N : m[i] \in W
    BY <2>2
  <2>5. m \in Seq(W) /\ Len(m) = N
    <3>1. m \in [1..N -> W]
      BY ONLY <2>3, <2>4
    <3> QED BY ONLY <2>3, <3>1
  <2> QED BY <2>2, <2>5 DEF m, N
<1> DEFINE u == s \o t
           M == Len(s)
           N == Len(t)
           a == Mapped(k, s)
           b == Mapped(k, t)
           c == Mapped(k, u)
<1>2. /\ u \in Seq(L) /\ Len(u) = M + N /\ M \in Nat /\ N \in Nat
      /\ \A i \in 1..(M + N) : u[i] = IF i <= M THEN s[i] ELSE t[i - M]
  BY ConcatProperties
<1>3. /\ a \in Seq(W) /\ Len(a) = M /\ \A i \in 1..M : a[i] = k[s[i]]
      /\ b \in Seq(W) /\ Len(b) = N /\ \A i \in 1..N : b[i] = k[t[i]]
  BY <1>1
<1> HIDE DEF u
<1>4. c \in Seq(W) /\ Len(c) = M + N /\ \A i \in 1..(M + N) : c[i] = k[u[i]]
  <2>1. c \in Seq(W) /\ Len(c) = Len(u) /\ \A i \in 1..Len(u) : c[i] = k[u[i]]
    BY <1>1, <1>2
  <2> QED BY <1>2, <2>1
<1> HIDE DEF a, b, c, M, N
<1> DEFINE d == a \o b
<1>5. /\ d \in Seq(W) /\ Len(d) = M + N
      /\ \A i \in 1..(M + N) : d[i] = IF i <= M THEN a[i] ELSE b[i - M]
  <2>1. a \in Seq(W) /\ b \in Seq(W) /\ Len(a) = M /\ Len(b) = N
    BY <1>3
  <2> QED BY ONLY <2>1, ConcatProperties
<1> HIDE DEF d
<1>6. \A i \in 1..(M + N) : c[i] = d[i]
  <2> TAKE i \in 1..(M + N)
  <2>1. CASE i <= M
    <3>1. i \in 1..M
      BY <1>2, <2>1
    <3>2. u[i] = s[i] /\ c[i] = k[u[i]]
      BY <1>2, <1>4, <2>1
    <3>3. d[i] = a[i] /\ a[i] = k[s[i]]
      BY <1>3, <1>5, <2>1, <3>1
    <3> QED BY <3>2, <3>3
  <2>2. CASE ~(i <= M)
    <3>1. i - M \in 1..N
      BY <1>2, <2>2
    <3>2. u[i] = t[i - M] /\ c[i] = k[u[i]]
      BY <1>2, <1>4, <2>2
    <3>3. d[i] = b[i - M] /\ b[i - M] = k[t[i - M]]
      BY <1>3, <1>5, <2>2, <3>1
    <3> QED BY <3>2, <3>3
  <2> QED BY <2>1, <2>2
<1>7. c = d
  <2>1. M + N \in Nat
    BY <1>2
  <2> QED BY <1>4, <1>5, <1>6, <2>1, SeqEqual
<1> QED BY <1>3, <1>7 DEF a, b, c, d, u, M, MapsBoth

\* The numbers that texts stand for are integers.
LEMMA NumberOfInt == \A x \in DOMAIN NumberOf : NumberOf[x] \in Int
<1>1. /\ DOMAIN NumberOf = {"-1", "1", "2", "10"}
      /\ NumberOf["-1"] = -1 /\ NumberOf["1"] = 1
      /\ NumberOf["2"] = 2 /\ NumberOf["10"] = 10
  BY Zenon DEF NumberOf
<1> QED BY <1>1

\* The fields that count for an aggregate.
NumericOf(name) == {f \in Fields : f.n = name /\ f.v[1] = "text" /\ IsNumber(f.v)}

\* The numbers of two records in one are those of the one, then of the other.
LEMMA NumbersConcat ==
  ASSUME NEW name, NEW r \in Seq(Fields), NEW s \in Seq(Fields)
  PROVE  /\ Numbers(r, name) \in Seq(Wholes)
         /\ Numbers(r \o s, name) = Numbers(r, name) \o Numbers(s, name)
<1> DEFINE L == NumericOf(name)
           g == [f \in Fields |-> IF f \in L THEN <<f>> ELSE << >>]
           k == [f \in L |-> Num(NumberOf[f.v[2]])]
           P(f) == f.n = name /\ f.v[1] = "text" /\ IsNumber(f.v)
<1>1. g \in [Fields -> Seq(L)]
  OBVIOUS
<1>2. k \in [L -> Wholes]
  <2>1. ASSUME NEW f \in L PROVE Num(NumberOf[f.v[2]]) \in Wholes
    <3>1. f.v[2] \in DOMAIN NumberOf
      BY DEF NumericOf, IsNumber
    <3>2. NumberOf[f.v[2]] \in Int
      BY <3>1, NumberOfInt
    <3> QED BY <3>2, NumIs
  <2> QED BY <2>1
<1>3. ASSUME NEW a \in Seq(Fields)
      PROVE  Numbers(a, name) = Mapped(k, Spread(g, a)) /\ Spread(g, a) \in Seq(L)
  <2>1. \A i \in DOMAIN a : a[i] \in Fields
    OBVIOUS
  <2>2. Spread(g, a) \in Seq(L)
    BY <1>1, SpreadIs
  <2>3. Where(a, P) = FlattenSeq([i \in DOMAIN a |-> IF P(a[i]) THEN <<a[i]>> ELSE << >>])
    BY DEF Where
  <2>4. \A i \in DOMAIN a : P(a[i]) <=> a[i] \in L
    BY <2>1 DEF NumericOf
  <2> HIDE DEF P, L
  <2>5. \A i \in DOMAIN a : g[a[i]] = IF a[i] \in L THEN <<a[i]>> ELSE << >>
    BY <2>1
  <2>6. [i \in DOMAIN a |-> IF P(a[i]) THEN <<a[i]>> ELSE << >>] = [i \in DOMAIN a |-> g[a[i]]]
    BY <2>4, <2>5
  <2>7. Where(a, P) = Spread(g, a)
    BY <2>3, <2>6 DEF Spread
  <2> DEFINE w == Spread(g, a)
  <2>8. Numbers(a, name) = [i \in DOMAIN w |-> Num(NumberOf[w[i].v[2]])]
    BY <2>7 DEF Numbers, Each, P
  <2> HIDE DEF w, g
  <2>9. \A i \in DOMAIN w : w[i] \in L
    <3>1. w \in Seq(L)
      BY <2>2 DEF w
    <3> QED BY <3>1
  <2>10. [i \in DOMAIN w |-> Num(NumberOf[w[i].v[2]])] = [i \in DOMAIN w |-> k[w[i]]]
    BY <2>9
  <2> QED BY <2>2, <2>8, <2>10 DEF Mapped, w
<1> HIDE DEF g, k, L
<1>4. Spread(g, r \o s) = Spread(g, r) \o Spread(g, s)
  BY <1>1, SpreadConcat
<1>5. r \o s \in Seq(Fields)
  BY ConcatProperties
<1>6. /\ Mapped(k, Spread(g, r)) \in Seq(Wholes)
      /\ Mapped(k, Spread(g, r) \o Spread(g, s))
           = Mapped(k, Spread(g, r)) \o Mapped(k, Spread(g, s))
  <2> DEFINE x == Spread(g, r)
             y == Spread(g, s)
  <2>1. x \in Seq(L)
    BY <1>3
  <2>3. y \in Seq(L)
    BY <1>3
  <2> HIDE DEF x, y
  <2>2. MapsBoth(k, x, y, Wholes)
    BY ONLY <1>2, <2>1, <2>3, MappedConcat
  <2> QED BY <2>2 DEF x, y, MapsBoth
<1> QED BY <1>3, <1>4, <1>5, <1>6

\* So are the fields with a name.
LEMMA NamedConcat ==
  ASSUME NEW name, NEW r \in Seq(Fields), NEW s \in Seq(Fields)
  PROVE  Named(r \o s, name) = Named(r, name) \o Named(s, name)
<1> DEFINE g == [f \in Fields |-> IF f.n = name THEN <<f>> ELSE << >>]
<1>1. g \in [Fields -> Seq(Fields)]
  OBVIOUS
<1>2. ASSUME NEW a \in Seq(Fields) PROVE Named(a, name) = Spread(g, a)
  <2>1. \A i \in DOMAIN a : a[i] \in Fields
    OBVIOUS
  <2>2. Named(a, name)
          = FlattenSeq([i \in DOMAIN a |-> IF a[i].n = name THEN <<a[i]>> ELSE << >>])
    BY DEF Named, Where
  <2>3. [i \in DOMAIN a |-> IF a[i].n = name THEN <<a[i]>> ELSE << >>]
          = [i \in DOMAIN a |-> g[a[i]]]
    BY <2>1
  <2> QED BY <2>2, <2>3 DEF Spread
<1> HIDE DEF g
<1>3. Spread(g, r \o s) = Spread(g, r) \o Spread(g, s)
  BY <1>1, SpreadConcat, SMTT(30)
<1>4. r \o s \in Seq(Fields)
  BY ConcatProperties
<1> QED BY <1>2, <1>3, <1>4

\* The fold over numbers, by the function of its step.
LEMMA FoldedOP ==
  ASSUME NEW c \in Accumulating, NEW ns \in Seq(OpValues(c))
  PROVE  Folded(LAMBDA x, y : OP(c, x, y), INIT_VAL(c), ns)
           = FoldG(OpValues(c), OpStep(c), INIT_VAL(c), ns)
<1> DEFINE s == ns
           N == Len(s)
           X == OpValues(c)
           g == OpStep(c)
           b == INIT_VAL(c)
           op(x, y) == OP(c, x, y)
           at(f, n) == IF n = 0 THEN b ELSE op(f[n - 1], s[n])
           rec(f) == [n \in 0..N |-> at(f, n)]
           v == CHOOSE f : f = rec(f)
<1>1. Collects(OpValues(c), OpStep(c), INIT_VAL(c))
  BY OpCollects
<1>2. Folded(LAMBDA x, y : OP(c, x, y), INIT_VAL(c), ns) = v[N]
  BY DEF Folded
<1>3. g \in [X -> [X -> X]] /\ b \in X /\ s \in Seq(X)
      /\ \A x \in X, y \in X : g[x][y] = op(x, y)
  BY <1>1 DEF Collects, OpStep
<1>4. N \in Nat /\ \A n \in 1..N : s[n] \in X
  BY <1>3
<1> HIDE DEF op, b, X, g, s
<1>5. PICK h \in [0..N -> X] : Folds(h, g, b, s)
  BY <1>3, FoldWitness
<1>6. h[0] = b /\ \A n \in 1..N : h[n] = g[h[n - 1]][s[n]]
  BY <1>5 DEF Folds
<1> HIDE DEF N
<1>7. ASSUME NEW n \in 0..N PROVE h[n] = at(h, n)
  <2>1. CASE n = 0
    BY <1>6, <2>1
  <2>2. CASE n # 0
    <3>1. n \in 1..N /\ n - 1 \in 0..N
      BY <1>4, <2>2
    <3>2. h[n - 1] \in X
      BY <1>5, <3>1
    <3> QED BY <1>3, <1>4, <1>6, <2>2, <3>1, <3>2
  <2> QED BY <2>1, <2>2
<1>8. h = rec(h)
  BY <1>5, <1>7
<1>9. v = rec(v)
  <2> HIDE DEF rec
  <2> QED BY <1>8
<1>10. v[0] = b /\ \A n \in 1..N : v[n] = op(v[n - 1], s[n])
  <2> HIDE DEF v
  <2> QED BY <1>4, <1>9
<1> HIDE DEF v
<1>11. FoldsIn(v, X, g, b, s)
  <2>1. \A n \in 1..N : v[n - 1] \in X => v[n] = g[v[n - 1]][s[n]]
    BY <1>3, <1>4, <1>10
  <2> QED BY <1>10, <2>1 DEF FoldsIn, N
<1>12. v[Len(s)] = FoldG(X, g, b, s) /\ FoldG(X, g, b, s) \in X
  BY <1>3, <1>11, FoldGIs
<1> QED BY <1>2, <1>12 DEF N, X, g, b, s

\* What is accumulated of a record is the fold of its numbers.
LEMMA AccumulatedRecordIs ==
  ASSUME NEW c \in Accumulating, NEW name, NEW r \in Seq(Fields)
  PROVE  /\ Numbers(r, name) \in Seq(OpValues(c))
         /\ AccumulatedRecord(c, r, name)
              = FoldG(OpValues(c), OpStep(c), INIT_VAL(c), Numbers(r, name))
         /\ AccumulatedRecord(c, r, name) \in OpValues(c)
<1> DEFINE ns == Numbers(r, name)
           X == OpValues(c)
<1>1. Collects(X, OpStep(c), INIT_VAL(c)) /\ Wholes \subseteq X
  BY OpCollects
<1>2. ns \in Seq(Wholes)
  BY NumbersConcat
<1>3. AccumulatedRecord(c, r, name) = Folded(LAMBDA x, y : OP(c, x, y), INIT_VAL(c), ns)
  BY DEF AccumulatedRecord
<1> HIDE DEF ns
<1>4. ns \in Seq(X)
  <2> HIDE DEF X
  <2> QED BY <1>1, <1>2
<1>5. AccumulatedRecord(c, r, name) = FoldG(X, OpStep(c), INIT_VAL(c), ns)
  BY <1>3, <1>4, FoldedOP
<1>6. OpStep(c) \in [X -> [X -> X]] /\ INIT_VAL(c) \in X
  BY <1>1 DEF Collects
<1> HIDE DEF X
<1>7. FoldG(X, OpStep(c), INIT_VAL(c), ns) \in X
  <2>1. FoldsNext(X, X, OpStep(c), INIT_VAL(c))
    BY <1>6, FoldGNext
  <2> QED BY <1>4, <2>1 DEF FoldsNext
<1> QED BY <1>4, <1>5, <1>7 DEF ns, X

\* The step from the records before to the ones with one record more.
RecordStep(c, name) ==
  [x \in OpValues(c) |-> [y \in Seq(Fields) |-> OP(c, x, AccumulatedRecord(c, y, name))]]

\* The fold over records, by the function of its step.
LEMMA FoldedRecords ==
  ASSUME NEW c \in Accumulating, NEW name, NEW recs \in Seq(Seq(Fields))
  PROVE  Accumulated(c, recs, name) = FoldG(OpValues(c), RecordStep(c, name), INIT_VAL(c), recs)
<1> DEFINE s == recs
           N == Len(s)
           X == OpValues(c)
           g == RecordStep(c, name)
           b == INIT_VAL(c)
           op(x, y) == OP(c, x, AccumulatedRecord(c, y, name))
           at(f, n) == IF n = 0 THEN b ELSE op(f[n - 1], s[n])
           rec(f) == [n \in 0..N |-> at(f, n)]
           v == CHOOSE f : f = rec(f)
<1>13. Collects(OpValues(c), OpStep(c), INIT_VAL(c))
  BY OpCollects
<1>14. \A r \in Seq(Fields) : AccumulatedRecord(c, r, name) \in X
  BY AccumulatedRecordIs
<1>1. /\ g \in [X -> [Seq(Fields) -> X]] /\ b \in X
      /\ \A x \in X, y \in Seq(Fields) : g[x][y] = op(x, y)
  <2>1. \A x, y \in X : OP(c, x, y) \in X
    <3>1. OpStep(c) \in [X -> [X -> X]] /\ OpStep(c) = [x \in X |-> [y \in X |-> OP(c, x, y)]]
      BY <1>13 DEF Collects, OpStep
    <3> HIDE DEF X
    <3>2. \A x, y \in X : OpStep(c)[x][y] = OP(c, x, y) /\ OpStep(c)[x][y] \in X
      BY <3>1
    <3> QED BY <3>2
  <2>2. b \in X
    BY <1>13 DEF Collects
  <2> HIDE DEF X
  <2>3. \A x \in X, y \in Seq(Fields) : op(x, y) \in X
    BY <1>14, <2>1
  <2> HIDE DEF op
  <2>4. g = [x \in X |-> [y \in Seq(Fields) |-> op(x, y)]]
    BY DEF RecordStep, op, X
  <2> QED BY <2>2, <2>3, <2>4
<1>2. Accumulated(c, recs, name) = v[N]
  BY DEF Folded, Accumulated
<1>3. g \in [X -> [Seq(Fields) -> X]] /\ b \in X /\ s \in Seq(Seq(Fields))
      /\ \A x \in X, y \in Seq(Fields) : g[x][y] = op(x, y)
  BY <1>1 DEF Collects, OpStep, RecordStep
<1>4. N \in Nat /\ \A n \in 1..N : s[n] \in Seq(Fields)
  BY <1>3
<1> HIDE DEF op, b, X, g, s
<1>5. PICK h \in [0..N -> X] : Folds(h, g, b, s)
  BY <1>3, FoldWitness
<1>6. h[0] = b /\ \A n \in 1..N : h[n] = g[h[n - 1]][s[n]]
  BY <1>5 DEF Folds
<1> HIDE DEF N
<1>7. ASSUME NEW n \in 0..N PROVE h[n] = at(h, n)
  <2>1. CASE n = 0
    BY <1>6, <2>1
  <2>2. CASE n # 0
    <3>1. n \in 1..N /\ n - 1 \in 0..N
      BY <1>4, <2>2
    <3>2. h[n - 1] \in X
      BY <1>5, <3>1
    <3> QED BY <1>3, <1>4, <1>6, <2>2, <3>1, <3>2
  <2> QED BY <2>1, <2>2
<1>8. h = rec(h)
  BY <1>5, <1>7
<1>9. v = rec(v)
  <2> HIDE DEF rec
  <2> QED BY <1>8
<1>10. v[0] = b /\ \A n \in 1..N : v[n] = op(v[n - 1], s[n])
  <2> HIDE DEF v
  <2> QED BY <1>4, <1>9
<1> HIDE DEF v
<1>11. FoldsIn(v, X, g, b, s)
  <2>1. \A n \in 1..N : v[n - 1] \in X => v[n] = g[v[n - 1]][s[n]]
    BY <1>3, <1>4, <1>10
  <2> QED BY <1>10, <2>1 DEF FoldsIn, N
<1>12. v[Len(s)] = FoldG(X, g, b, s) /\ FoldG(X, g, b, s) \in X
  BY <1>3, <1>11, FoldGIs
<1> QED BY <1>2, <1>12 DEF N, X, g, b, s

\* The step of rec_aggregate_std_count.
CountStep(name) ==
  [x \in Nat |-> [y \in Seq(Fields) |-> x + rec_record_get_num_fields_by_name(y, name)]]

\* The count over records, by the function of its step.
LEMMA FoldedCount ==
  ASSUME NEW name, NEW recs \in Seq(Seq(Fields))
  PROVE  Folded(LAMBDA n, r : n + rec_record_get_num_fields_by_name(r, name), 0, recs)
           = FoldG(Nat, CountStep(name), 0, recs)
<1> DEFINE s == recs
           N == Len(s)
           X == Nat
           g == CountStep(name)
           b == 0
           op(x, y) == x + rec_record_get_num_fields_by_name(y, name)
           at(f, n) == IF n = 0 THEN b ELSE op(f[n - 1], s[n])
           rec(f) == [n \in 0..N |-> at(f, n)]
           v == CHOOSE f : f = rec(f)
<1>1. /\ g \in [X -> [Seq(Fields) -> X]] /\ b \in X /\ s \in Seq(Seq(Fields))
      /\ \A x \in X, y \in Seq(Fields) : g[x][y] = op(x, y)
  <2>1. \A y \in Seq(Fields) : rec_record_get_num_fields_by_name(y, name) \in Nat
    BY NamedIs DEF rec_record_get_num_fields_by_name
  <2>2. g = [x \in X |-> [y \in Seq(Fields) |-> op(x, y)]]
    BY DEF CountStep
  <2>3. \A x \in X, y \in Seq(Fields) : op(x, y) \in X
    BY <2>1
  <2> HIDE DEF op
  <2> QED BY <2>2, <2>3
<1>2. Folded(LAMBDA n, r : n + rec_record_get_num_fields_by_name(r, name), 0, recs) = v[N]
  BY DEF Folded
<1>3. g \in [X -> [Seq(Fields) -> X]] /\ b \in X /\ s \in Seq(Seq(Fields))
      /\ \A x \in X, y \in Seq(Fields) : g[x][y] = op(x, y)
  BY <1>1
<1>4. N \in Nat /\ \A n \in 1..N : s[n] \in Seq(Fields)
  BY <1>3
<1> HIDE DEF op, b, X, g, s
<1>5. PICK h \in [0..N -> X] : Folds(h, g, b, s)
  BY <1>3, FoldWitness
<1>6. h[0] = b /\ \A n \in 1..N : h[n] = g[h[n - 1]][s[n]]
  BY <1>5 DEF Folds
<1> HIDE DEF N
<1>7. ASSUME NEW n \in 0..N PROVE h[n] = at(h, n)
  <2>1. CASE n = 0
    BY <1>6, <2>1
  <2>2. CASE n # 0
    <3>1. n \in 1..N /\ n - 1 \in 0..N
      BY <1>4, <2>2
    <3>2. h[n - 1] \in X
      BY <1>5, <3>1
    <3> QED BY <1>3, <1>4, <1>6, <2>2, <3>1, <3>2
  <2> QED BY <2>1, <2>2
<1>8. h = rec(h)
  BY <1>5, <1>7
<1>9. v = rec(v)
  <2> HIDE DEF rec
  <2> QED BY <1>8
<1>10. v[0] = b /\ \A n \in 1..N : v[n] = op(v[n - 1], s[n])
  <2> HIDE DEF v
  <2> QED BY <1>4, <1>9
<1> HIDE DEF v
<1>11. FoldsIn(v, X, g, b, s)
  <2>1. \A n \in 1..N : v[n - 1] \in X => v[n] = g[v[n - 1]][s[n]]
    BY <1>3, <1>4, <1>10
  <2> QED BY <1>10, <2>1 DEF FoldsIn, N
<1>12. v[Len(s)] = FoldG(X, g, b, s) /\ FoldG(X, g, b, s) \in X
  BY <1>3, <1>11, FoldGIs
<1> QED BY <1>2, <1>12 DEF N, X, g, b, s

\* An empty record has no numbers.
LEMMA NumbersNone == \A name : Numbers(<< >>, name) = << >>
<1> TAKE name
<1>1. << >> \in Seq(Fields) /\ << >> \o << >> = << >>
  BY EmptySeq, ConcatEmptySeq
<1> DEFINE z == << >>
<1>2. z \in Seq(Fields) /\ z \o z = z
  BY <1>1
<1> HIDE DEF z
<1> DEFINE n == Numbers(z, name)
<1>3. n \in Seq(Wholes) /\ Numbers(z \o z, name) = n \o n
  BY <1>2, NumbersConcat
<1> HIDE DEF n
<1>4. n = n \o n
  BY <1>2, <1>3 DEF n
<1>5. Len(n) \in Nat /\ Len(n) = Len(n) + Len(n)
  <2>1. Len(n \o n) = Len(n) + Len(n)
    BY <1>3, ConcatProperties
  <2>2. Len(n) \in Nat
    BY <1>3
  <2> QED BY ONLY <1>4, <2>1, <2>2
<1>6. n = << >>
  <2>1. Len(n) = 0
    BY <1>5
  <2> QED BY <1>3, <2>1
<1> QED BY <1>6 DEF n, z

\* Records are sequences of fields.
LEMMA RecordsOver == \A s \in Seq(Seq(Fields)) : SeqsOver(s, Fields)
BY DEF SeqsOver

\* What is accumulated of records is what is accumulated of all their fields.
LEMMA AccumulatedIs ==
  ASSUME NEW c \in Accumulating, NEW name, NEW recs \in Seq(Seq(Fields))
  PROVE  /\ FlattenSeq(recs) \in Seq(Fields)
         /\ Accumulated(c, recs, name) = AccumulatedRecord(c, FlattenSeq(recs), name)
<1> DEFINE X == OpValues(c)
           g == OpStep(c)
           h == RecordStep(c, name)
           b == INIT_VAL(c)
           F(s) == FoldG(X, g, b, Numbers(s, name))
           H(s) == FoldG(X, h, b, s)
<1>1. Collects(X, g, b) /\ Wholes \subseteq X
  BY OpCollects
<1>2. b \in X /\ g \in [X -> [X -> X]]
  BY <1>1 DEF Collects
<1>3. \A r \in Seq(Fields) : /\ Numbers(r, name) \in Seq(X)
                             /\ AccumulatedRecord(c, r, name) = F(r)
                             /\ F(r) \in X
  <2> TAKE r \in Seq(Fields)
  <2>1. /\ Numbers(r, name) \in Seq(OpValues(c))
        /\ AccumulatedRecord(c, r, name)
             = FoldG(OpValues(c), OpStep(c), INIT_VAL(c), Numbers(r, name))
        /\ AccumulatedRecord(c, r, name) \in OpValues(c)
    BY AccumulatedRecordIs
  <2> QED BY <2>1
<1>4. \A x \in X, y \in X : OP(c, x, y) = g[x][y] /\ g[x][y] \in X
  <2>1. \A x \in X, y \in X : g[x][y] = OP(c, x, y)
    BY DEF OpStep
  <2> HIDE DEF X, g
  <2> QED BY <1>2, <2>1
<1>5. \A x \in X, r \in Seq(Fields) : h[x][r] = g[x][F(r)] /\ h[x][r] \in X
  <2>1. \A x \in X, r \in Seq(Fields) : h[x][r] = OP(c, x, AccumulatedRecord(c, r, name))
    BY DEF RecordStep
  <2> HIDE DEF X, g, h, F
  <2> QED BY <1>3, <1>4, <2>1
<1>6. h \in [X -> [Seq(Fields) -> X]]
  <2> DEFINE k(x, r) == OP(c, x, AccumulatedRecord(c, r, name))
  <2>1. h = [x \in X |-> [r \in Seq(Fields) |-> k(x, r)]]
    BY DEF RecordStep
  <2> HIDE DEF k, h, X
  <2>2. \A x \in X, r \in Seq(Fields) : h[x][r] = k(x, r)
    BY <2>1
  <2>3. \A x \in X, r \in Seq(Fields) : k(x, r) \in X
    BY <1>5, <2>2
  <2> QED BY <2>1, <2>3
<1>7. /\ H(<< >>) = b
      /\ \A s \in Seq(Seq(Fields)) : H(s) \in X
      /\ \A s \in Seq(Seq(Fields)), e \in Seq(Fields) : H(Append(s, e)) = h[H(s)][e]
  <2> HIDE DEF X, h, b
  <2>1. b \in X
    BY <1>2
  <2> DEFINE E == Seq(Fields)
  <2>2. h \in [X -> [E -> X]]
    BY <1>6
  <2> HIDE DEF E
  <2>3. FoldsNext(X, E, h, b)
    BY ONLY <2>1, <2>2, FoldGNext
  <2> QED BY <2>3 DEF E, FoldsNext
<1>8. F(<< >>) = b
  <2>1. F(<< >>) = FoldG(X, g, b, << >>)
    BY NumbersNone
  <2> HIDE DEF X, g, b, F
  <2>2. b \in X
    BY <1>2
  <2>3. g \in [X -> [X -> X]]
    BY <1>2
  <2>4. FoldsNext(X, X, g, b)
    BY ONLY <2>2, <2>3, FoldGNext
  <2> QED BY <2>1, <2>4 DEF FoldsNext
<1>9. \A r, s \in Seq(Fields) : F(r \o s) = g[F(r)][F(s)]
  <2> TAKE r, s \in Seq(Fields)
  <2> DEFINE m == Numbers(r, name)
             n == Numbers(s, name)
  <2>1. Numbers(r \o s, name) = m \o n
    BY NumbersConcat
  <2>2. m \in Seq(X)
    BY <1>3
  <2>3. n \in Seq(X)
    BY <1>3
  <2>4. F(r \o s) = FoldG(X, g, b, m \o n) /\ F(r) = FoldG(X, g, b, m) /\ F(s) = FoldG(X, g, b, n)
    BY <2>1
  <2> HIDE DEF m, n, X, g, b, F
  <2>5. \A t \in Seq(X) : FoldG(X, g, b, m \o t) = g[FoldG(X, g, b, m)][FoldG(X, g, b, t)]
    BY <1>1, <2>2, FoldGConcat
  <2> QED BY <2>3, <2>4, <2>5
<1> DEFINE T == {s \in Seq(Seq(Fields)) :
                   FlattenSeq(s) \in Seq(Fields) /\ H(s) = F(FlattenSeq(s))}
<1>10. << >> \in T
  <2>1. << >> \in Seq(Seq(Fields)) /\ << >> \in Seq(Fields)
    BY EmptySeq
  <2>2. FlattenSeq(<< >>) = << >>
    BY FlattenNone
  <2> HIDE DEF H, F
  <2> QED BY <1>7, <1>8, <2>1, <2>2
<1>11. ASSUME NEW s \in Seq(Seq(Fields)), NEW e \in Seq(Fields), s \in T PROVE Append(s, e) \in T
  <2>1. Append(s, e) \in Seq(Seq(Fields))
    OBVIOUS
  <2>2. FlattenSeq(s) \in Seq(Fields) /\ H(s) = F(FlattenSeq(s))
    BY <1>11
  <2>3. FlattenSeq(Append(s, e)) = FlattenSeq(s) \o e
    BY RecordsOver, FlattenAppend
  <2> HIDE DEF H, F, X, g, h, b
  <2> DEFINE d == FlattenSeq(s)
  <2>4. d \o e \in Seq(Fields)
    BY <2>2, ConcatProperties
  <2>5. H(Append(s, e)) = h[H(s)][e] /\ H(s) \in X
    BY <1>7
  <2>6. H(Append(s, e)) = g[F(d)][F(e)]
    BY <1>5, <2>2, <2>5
  <2>7. F(d \o e) = g[F(d)][F(e)]
    BY <1>9, <2>2
  <2> QED BY <2>1, <2>3, <2>4, <2>6, <2>7
<1>12. Seq(Seq(Fields)) \subseteq T
  <2> HIDE DEF T
  <2>1. \A s \in Seq(Seq(Fields)), e \in Seq(Fields) : s \in T => Append(s, e) \in T
    BY <1>11
  <2> QED BY ONLY <1>10, <2>1, SeqInduction
<1>13. FlattenSeq(recs) \in Seq(Fields) /\ H(recs) = F(FlattenSeq(recs))
  BY <1>12
<1>14. Accumulated(c, recs, name) = H(recs)
  BY FoldedRecords
<1> HIDE DEF H, F
<1> QED BY <1>3, <1>13, <1>14

\* The fields of all records are counted.
LEMMA CountIs ==
  ASSUME NEW name, NEW recs \in Seq(Seq(Fields))
  PROVE  rec_aggregate_std_count(recs, name)
           = Num(rec_record_get_num_fields_by_name(FlattenSeq(recs), name))
<1> DEFINE N(r) == rec_record_get_num_fields_by_name(r, name)
           h == CountStep(name)
           H(s) == FoldG(Nat, h, 0, s)
<1>1. \A r \in Seq(Fields) : N(r) \in Nat /\ Named(r, name) \in Seq(Fields)
  <2> TAKE r \in Seq(Fields)
  <2>1. Named(r, name) \in Seq(Fields)
    BY NamedIs
  <2> QED BY <2>1 DEF rec_record_get_num_fields_by_name
<1>2. /\ h \in [Nat -> [Seq(Fields) -> Nat]]
      /\ \A x \in Nat, r \in Seq(Fields) : h[x][r] = x + N(r)
  <2>1. h = [x \in Nat |-> [r \in Seq(Fields) |-> x + N(r)]]
    BY DEF CountStep
  <2> HIDE DEF N, h
  <2>2. \A x \in Nat, r \in Seq(Fields) : x + N(r) \in Nat
    BY <1>1
  <2> QED BY <2>1, <2>2
<1>3. /\ H(<< >>) = 0
      /\ \A s \in Seq(Seq(Fields)) : H(s) \in Nat
      /\ \A s \in Seq(Seq(Fields)), e \in Seq(Fields) : H(Append(s, e)) = h[H(s)][e]
  <2> HIDE DEF h
  <2>1. 0 \in Nat
    OBVIOUS
  <2> DEFINE E == Seq(Fields)
  <2>2. h \in [Nat -> [E -> Nat]]
    BY <1>2
  <2> HIDE DEF E
  <2>3. FoldsNext(Nat, E, h, 0)
    BY ONLY <2>1, <2>2, FoldGNext
  <2> QED BY <2>3 DEF E, FoldsNext
<1>4. N(<< >>) = 0
  <2>1. Named(<< >>, name) = << >>
    <3>1. Named(<< >>, name)
            = FlattenSeq([i \in DOMAIN << >> |-> IF << >>[i].n = name THEN << <<>>[i] >> ELSE << >>])
      BY DEF Named, Where
    <3>2. [i \in DOMAIN << >> |-> IF << >>[i].n = name THEN << <<>>[i] >> ELSE << >>] = << >>
      OBVIOUS
    <3> QED BY <3>1, <3>2, FlattenNone
  <2> QED BY <2>1 DEF rec_record_get_num_fields_by_name
<1>5. \A r, s \in Seq(Fields) : N(r \o s) = N(r) + N(s)
  <2> TAKE r, s \in Seq(Fields)
  <2>1. Named(r \o s, name) = Named(r, name) \o Named(s, name)
    BY NamedConcat
  <2>2. Named(r, name) \in Seq(Fields) /\ Named(s, name) \in Seq(Fields)
    BY <1>1
  <2> DEFINE x == Named(r, name)
             y == Named(s, name)
  <2> HIDE DEF x, y
  <2>3. Len(x \o y) = Len(x) + Len(y)
    BY <2>2, ConcatProperties DEF x, y
  <2> QED BY <2>1, <2>3 DEF rec_record_get_num_fields_by_name, x, y
<1> DEFINE T == {s \in Seq(Seq(Fields)) :
                   FlattenSeq(s) \in Seq(Fields) /\ H(s) = N(FlattenSeq(s))}
<1> HIDE DEF N, h
<1>6. << >> \in T
  <2>1. << >> \in Seq(Seq(Fields)) /\ << >> \in Seq(Fields)
    BY EmptySeq
  <2>2. FlattenSeq(<< >>) = << >>
    BY FlattenNone
  <2> HIDE DEF H
  <2> QED BY <1>3, <1>4, <2>1, <2>2
<1>7. ASSUME NEW s \in Seq(Seq(Fields)), NEW e \in Seq(Fields), s \in T PROVE Append(s, e) \in T
  <2>1. Append(s, e) \in Seq(Seq(Fields))
    OBVIOUS
  <2>2. FlattenSeq(s) \in Seq(Fields) /\ H(s) = N(FlattenSeq(s))
    BY <1>7
  <2>3. FlattenSeq(Append(s, e)) = FlattenSeq(s) \o e
    BY RecordsOver, FlattenAppend
  <2> HIDE DEF H
  <2> DEFINE d == FlattenSeq(s)
  <2>4. d \o e \in Seq(Fields)
    BY <2>2, ConcatProperties
  <2>5. H(Append(s, e)) = h[H(s)][e] /\ H(s) \in Nat
    BY <1>3
  <2>6. H(Append(s, e)) = N(d) + N(e)
    BY <1>2, <2>2, <2>5
  <2>7. N(d \o e) = N(d) + N(e)
    BY <1>5, <2>2
  <2> QED BY <2>1, <2>3, <2>4, <2>6, <2>7
<1>8. Seq(Seq(Fields)) \subseteq T
  <2> HIDE DEF T
  <2>1. \A s \in Seq(Seq(Fields)), e \in Seq(Fields) : s \in T => Append(s, e) \in T
    BY <1>7
  <2> QED BY ONLY <1>6, <2>1, SeqInduction
<1>9. H(recs) = N(FlattenSeq(recs))
  BY <1>8
<1>10. rec_aggregate_std_count(recs, name) = Num(H(recs))
  <2>1. rec_aggregate_std_count(recs, name)
          = Num(Folded(LAMBDA n, r : n + rec_record_get_num_fields_by_name(r, name), 0, recs))
    BY DEF rec_aggregate_std_count
  <2>2. Folded(LAMBDA n, r : n + rec_record_get_num_fields_by_name(r, name), 0, recs)
          = FoldG(Nat, CountStep(name), 0, recs)
    BY FoldedCount
  <2> QED BY Zenon, <2>1, <2>2 DEF h
<1> HIDE DEF H
<1> QED BY <1>9, <1>10 DEF N

\* An aggregate over several records is the one over their concatenation.
LEMMA AggregateIs ==
  ASSUME NEW c \in Standard \ {"avg"}, NEW name, NEW recs \in Seq(Seq(Fields))
  PROVE  Aggregate(c, recs, name) = Aggregate(c, <<FlattenSeq(recs)>>, name)
<1> DEFINE d == FlattenSeq(recs)
           one == <<d>>
<1>1. c \in {"count", "sum", "min", "max"}
  BY DEF Standard
<1>2. d \in Seq(Fields)
  <2>1. "sum" \in Accumulating
    BY DEF Accumulating
  <2> QED BY <2>1, AccumulatedIs
<1> HIDE DEF d
<1>3. one \in Seq(Seq(Fields)) /\ FlattenSeq(one) = d
  <2>1. one \in Seq(Seq(Fields))
    BY <1>2
  <2>2. FlattenSeq(one) = d
    BY <1>2, FlattenOne
  <2> QED BY <2>1, <2>2
<1> HIDE DEF one
<1>4. \A e \in Accumulating : Accumulated(e, recs, name) = Accumulated(e, one, name)
  <2> TAKE e \in Accumulating
  <2>1. Accumulated(e, recs, name) = AccumulatedRecord(e, d, name)
    BY AccumulatedIs DEF d
  <2>2. Accumulated(e, one, name) = AccumulatedRecord(e, FlattenSeq(one), name)
    BY <1>3, AccumulatedIs
  <2> QED BY <1>3, <2>1, <2>2
<1>5. rec_aggregate_std_count(recs, name) = rec_aggregate_std_count(one, name)
  <2>1. rec_aggregate_std_count(recs, name) = Num(rec_record_get_num_fields_by_name(d, name))
    BY CountIs DEF d
  <2>2. rec_aggregate_std_count(one, name)
          = Num(rec_record_get_num_fields_by_name(FlattenSeq(one), name))
    BY <1>3, CountIs
  <2> QED BY <1>3, <2>1, <2>2
<1>6. ASSUME NEW s
      PROVE  /\ Aggregate("count", s, name) = rec_aggregate_std_count(s, name)
             /\ Aggregate("sum", s, name) = Printed(Accumulated("sum", s, name))
             /\ Aggregate("min", s, name) = Printed(Accumulated("min", s, name))
             /\ Aggregate("max", s, name) = Printed(Accumulated("max", s, name))
  BY Zenon DEF Aggregate, rec_aggregate_std_sum
<1>7. \A e \in {"count", "sum", "min", "max"} : Aggregate(e, recs, name) = Aggregate(e, one, name)
  BY <1>4, <1>5, <1>6 DEF Accumulating
<1>8. Aggregate(c, recs, name) = Aggregate(c, one, name)
  BY <1>1, <1>7
<1> QED BY <1>8 DEF one, d

\* How many of the first i places are in K, and where the element at i goes.
PlacesUpTo(K, i) == {j \in 1..i : j \in K}
KeptPlace(K, i) == Cardinality(PlacesUpTo(K, i))

\* A place in K is one place more.
LEMMA KeptPlaceNext ==
  ASSUME NEW K
  PROVE  /\ KeptPlace(K, 0) = 0
         /\ \A n \in Nat :
              /\ KeptPlace(K, n) \in Nat
              /\ KeptPlace(K, n + 1) = KeptPlace(K, n) + (IF n + 1 \in K THEN 1 ELSE 0)
<1>1. PlacesUpTo(K, 0) = {}
  BY DEF PlacesUpTo
<1>2. KeptPlace(K, 0) = 0
  BY <1>1, FS_EmptySet DEF KeptPlace
<1>3. ASSUME NEW n \in Nat
      PROVE  /\ KeptPlace(K, n) \in Nat
             /\ KeptPlace(K, n + 1) = KeptPlace(K, n) + (IF n + 1 \in K THEN 1 ELSE 0)
  <2> DEFINE A == PlacesUpTo(K, n)
             B == PlacesUpTo(K, n + 1)
  <2>1. IsFiniteSet(A)
    <3>1. IsFiniteSet(1..n)
      BY FS_Interval
    <3>2. A \subseteq 1..n
      BY DEF PlacesUpTo
    <3> QED BY <3>1, <3>2, FS_Subset
  <2>2. B = (IF n + 1 \in K THEN A \cup {n + 1} ELSE A) /\ n + 1 \notin A
    <3>1. \A j : j \in 1..(n + 1) <=> j \in 1..n \/ j = n + 1
      OBVIOUS
    <3>2. ~(n + 1 \in 1..n)
      OBVIOUS
    <3> QED BY <3>1, <3>2 DEF PlacesUpTo
  <2> HIDE DEF A, B
  <2>3. Cardinality(A) \in Nat
    BY <2>1, FS_CardinalityType
  <2>4. Cardinality(A \cup {n + 1}) = Cardinality(A) + 1
    BY <2>1, <2>2, FS_AddElement
  <2>5. Cardinality(B) = Cardinality(A) + (IF n + 1 \in K THEN 1 ELSE 0)
    BY <2>2, <2>3, <2>4
  <2> QED BY <2>3, <2>5 DEF A, B, KeptPlace
<1> QED BY <1>2, <1>3

\* The element at i is kept at the place that K gives to it.
LEMMA KeepPlaces ==
  ASSUME NEW S, NEW s \in Seq(S), NEW K
  PROVE  \A i \in DOMAIN s : i \in K => Keep(s, K)[KeptPlace(K, i)] = s[i]
<1> DEFINE N == Len(s)
           F == [i \in DOMAIN s |-> IF i \in K THEN <<s[i]>> ELSE << >>]
           C(i) == KeptPlace(K, i)
<1>1. N \in Nat /\ DOMAIN s = 1..N /\ \A i \in 1..N : s[i] \in S
  OBVIOUS
<1>2. \A i \in 1..N : F[i] = IF i \in K THEN <<s[i]>> ELSE << >>
  BY <1>1
<1>3. SeqsOver(F, S) /\ Len(F) = N
  <2> DEFINE Q == Seq(S)
  <2>1. \A i \in 1..N : F[i] \in Q
    BY <1>1
  <2>2. F = [i \in 1..N |-> F[i]]
    BY <1>1
  <2> HIDE DEF F, Q
  <2>3. F \in Seq(Q) /\ Len(F) = N
    BY <1>1, <2>1, <2>2
  <2> QED BY <2>3 DEF SeqsOver, Q
<1>4. C(0) = 0 /\ \A n \in Nat : C(n) \in Nat /\ C(n + 1) = C(n) + (IF n + 1 \in K THEN 1 ELSE 0)
  BY KeptPlaceNext
<1>5. Keep(s, K) = FlattenSeq(F)
  BY DEF Keep
<1> HIDE DEF F, C
<1>6. PICK G \in [0..Len(F) -> Seq(S)] : JoinOf(G, F) /\ FlattenSeq(F) = G[Len(F)]
  BY <1>3, FlattenIs
<1>7. /\ G[0] = << >> /\ \A n \in 1..N : G[n] = G[n - 1] \o F[n]
      /\ \A n \in 0..N : G[n] \in Seq(S)
  BY <1>3, <1>6 DEF JoinOf
<1> HIDE DEF N
<1> DEFINE T == {n \in 0..N : /\ Len(G[n]) = C(n)
                              /\ \A i \in 1..n : i \in K => C(i) \in 1..C(n) /\ G[n][C(i)] = s[i]}
<1>8. 0 \in T
  <2>1. Len(G[0]) = 0
    BY <1>7
  <2>2. 0 \in 0..N /\ ~(\E i \in 1..0 : TRUE)
    BY <1>1
  <2> QED BY <1>4, <2>1, <2>2
<1>9. ASSUME NEW n \in 0..(N - 1), n \in T PROVE n + 1 \in T
  <2> DEFINE a == G[n]
             b == G[n + 1]
             c == C(n)
  <2>0. n \in Nat /\ n + 1 \in 1..N /\ n + 1 \in 0..N /\ (n + 1) - 1 = n /\ n \in 0..N
    BY <1>1
  <2>1. /\ n \in Nat /\ n + 1 \in 1..N /\ n + 1 \in 0..N /\ (n + 1) - 1 = n /\ n \in 0..N
        /\ c \in Nat /\ C(n + 1) = c + (IF n + 1 \in K THEN 1 ELSE 0)
    <3>1. C(n) \in Nat /\ C(n + 1) = C(n) + (IF n + 1 \in K THEN 1 ELSE 0)
      BY <1>4, <2>0
    <3> QED BY <2>0, <3>1
  <2>2. b = a \o F[n + 1] /\ a \in Seq(S) /\ b \in Seq(S)
    BY <1>7, <2>1
  <2>3. Len(a) = c /\ \A i \in 1..n : i \in K => C(i) \in 1..c /\ a[C(i)] = s[i]
    BY <1>9
  <2> HIDE DEF a, b, c
  <2>4. CASE n + 1 \in K
    <3> DEFINE e == s[n + 1]
    <3>1. F[n + 1] = <<e>> /\ e \in S
      BY <1>1, <1>2, <2>1, <2>4
    <3> HIDE DEF e
    <3>2. b = Append(a, e)
      BY <2>2, <3>1
    <3>3. Len(b) = c + 1 /\ b[c + 1] = e /\ \A k \in 1..c : b[k] = a[k]
      <4>1. /\ Len(Append(a, e)) = Len(a) + 1 /\ Append(a, e)[Len(a) + 1] = e
            /\ \A k \in 1..Len(a) : Append(a, e)[k] = a[k]
        BY <2>2, <3>1, AppendProperties
      <4>2. Len(a) = c
        BY <2>3
      <4> QED BY ONLY <3>2, <4>1, <4>2
    <3>4. C(n + 1) = c + 1
      BY <2>1, <2>4
    <3>5. ASSUME NEW i \in 1..(n + 1), i \in K
          PROVE  C(i) \in 1..(c + 1) /\ b[C(i)] = s[i]
      <4>1. CASE i = n + 1
        BY <2>1, <3>3, <3>4, <4>1 DEF e
      <4>2. CASE i # n + 1
        <5>1. i \in 1..n
          BY <2>1, <4>2
        <5>2. C(i) \in 1..c /\ a[C(i)] = s[i]
          BY <2>3, <3>5, <5>1
        <5> QED BY <2>1, <3>3, <5>2
      <4> QED BY <4>1, <4>2
    <3> QED BY <2>1, <3>3, <3>4, <3>5 DEF b
  <2>5. CASE n + 1 \notin K
    <3>1. F[n + 1] = << >>
      BY <1>2, <2>1, <2>5
    <3>2. b = a
      BY <2>2, <3>1, ConcatEmptySeq
    <3>3. C(n + 1) = c
      BY <2>1, <2>5
    <3>4. ASSUME NEW i \in 1..(n + 1), i \in K
          PROVE  C(i) \in 1..c /\ b[C(i)] = s[i]
      <4>1. i \in 1..n
        BY <2>1, <2>5, <3>4
      <4> QED BY <2>3, <3>2, <3>4, <4>1
    <3> QED BY <2>1, <2>3, <3>2, <3>3, <3>4 DEF b
  <2> QED BY <2>4, <2>5
<1>10. N \in T
  <2> HIDE DEF T
  <2>1. \A n \in 0..(N - 1) : n \in T => n + 1 \in T
    BY <1>9
  <2>2. 0..N \subseteq T
    BY ONLY <1>1, <1>8, <2>1, UpToInduction
  <2>3. N \in 0..N
    BY <1>1
  <2> QED BY <2>2, <2>3
<1>11. \A i \in 1..N : i \in K => G[N][C(i)] = s[i]
  BY <1>10
<1> QED BY <1>1, <1>3, <1>5, <1>6, <1>11 DEF C

\* Sequences over S are flattened to one.
LEMMA FlattenOver ==
  ASSUME NEW S, NEW s, SeqsOver(s, S)
  PROVE  FlattenSeq(s) \in Seq(S)
<1>1. << >> \in Seq(S)
  BY EmptySeq
<1> DEFINE x == << >>
<1>2. x \in Seq(S)
  BY <1>1
<1> HIDE DEF x
<1>3. /\ FlattenSeq(s) \in Seq(S) /\ SeqsOver(Append(s, x), S)
      /\ FlattenSeq(Append(s, x)) = FlattenSeq(s) \o x
  BY ONLY <1>2, SeqsOver(s, S), FlattenAppend
<1> QED BY <1>3

\* A scan brings records of the second record set.
LEMMA ScanBrings ==
  ASSUME NEW rset2, rset2.recs \in Seq(Records), NEW r1, NEW field, NEW k
  PROVE  JoinScan(r1, field, rset2, k) \in Seq(Records)
<1> DEFINE s == rset2.recs
           N == Len(s)
           P(r2) == rec_record_get_field_by_name(r2, rset2.key, k).v \in ValuesOf(r1, field)
           L(i) == rec_record_get_num_fields_by_name(s[i], rset2.key) <= k
           id == [i \in DOMAIN s |-> i]
           without == Where(id, L)
           scanned == IF without = << >> THEN s ELSE SubSeq(s, 1, without[1] - 1)
<1>1. N \in Nat /\ DOMAIN s = 1..N
  OBVIOUS
<1>2. JoinScan(r1, field, rset2, k) = Where(scanned, P)
  BY DEF JoinScan
<1>3. Where(scanned, P)
        = FlattenSeq([i \in DOMAIN scanned |-> IF P(scanned[i]) THEN <<scanned[i]>> ELSE << >>])
  BY DEF Where
<1>4. without \in Seq(1..N)
  <2>1. without = FlattenSeq([i \in DOMAIN id |-> IF L(id[i]) THEN <<id[i]>> ELSE << >>])
    BY DEF Where
  <2> DEFINE K == {i \in DOMAIN id : L(id[i])}
  <2>2. id \in Seq(1..N)
    BY <1>1
  <2>3. [i \in DOMAIN id |-> IF L(id[i]) THEN <<id[i]>> ELSE << >>]
          = [i \in DOMAIN id |-> IF i \in K THEN <<id[i]>> ELSE << >>]
    OBVIOUS
  <2> HIDE DEF K, id, without, N
  <2>4. \A X : Keep(id, K) \in Seq(1..N)
    BY <2>2, KeepCount
  <2> QED BY <2>1, <2>3, <2>4 DEF Keep
<1> HIDE DEF without
<1>5. scanned \in Seq(Records)
  <2> HIDE DEF s
  <2>1. CASE without = << >>
    BY <2>1 DEF s
  <2>2. CASE without # << >>
    <3>1. without[1] \in 1..N
      BY <1>4, <2>2
    <3> DEFINE m == without[1] - 1
    <3>2. m \in 0..N
      BY <1>1, <3>1
    <3>3. s \in Seq(Records)
      BY DEF s
    <3> HIDE DEF m
    <3>4. SubSeq(s, 1, m) \in Seq(Records)
      BY <1>1, <3>2, <3>3
    <3> QED BY <2>2, <3>4 DEF m
  <2> QED BY <2>1, <2>2
<1> DEFINE K == {i \in DOMAIN scanned : P(scanned[i])}
<1> HIDE DEF scanned, P
<1>6. [i \in DOMAIN scanned |-> IF P(scanned[i]) THEN <<scanned[i]>> ELSE << >>]
        = [i \in DOMAIN scanned |-> IF i \in K THEN <<scanned[i]>> ELSE << >>]
  OBVIOUS
<1> HIDE DEF K
<1>7. \A X : Keep(scanned, K) \in Seq(Records)
  BY <1>5, KeepCount
<1> QED BY <1>2, <1>3, <1>6, <1>7 DEF Keep

\* What is joined are records.
LEMMA JoinBrings ==
  ASSUME NEW rset1, IsRset(rset1), NEW rset2, rset2.recs \in Seq(Records), NEW field \in Names
  PROVE  rec_db_join(rset1, rset2, field).recs \in Seq(Records)
<1> DEFINE Q == Seq(Records)
<1>1. ASSUME NEW r1 \in Records, NEW k PROVE OfKey(r1, field, rset2, k) \in Q
  <2> DEFINE scan == JoinScan(r1, field, rset2, k - 1)
             b == [i \in DOMAIN scan |-> Joined(r1, scan[i], field)]
             n == Len(scan)
             R == Records
  <2>1. OfKey(r1, field, rset2, k) = b
    BY DEF OfKey, Each
  <2>2. scan \in Seq(R)
    BY ScanBrings
  <2> HIDE DEF scan
  <2>3. DOMAIN scan = 1..n /\ n \in Nat /\ \A i \in 1..n : scan[i] \in R
    BY <2>2
  <2>4. \A r2 \in R : Joined(r1, r2, field) \in R
    BY JoinedIs
  <2> HIDE DEF R, n
  <2>5. b = [i \in 1..n |-> b[i]] /\ \A i \in 1..n : b[i] \in R
    BY <2>3, <2>4
  <2>6. b \in Seq(R)
    <3> HIDE DEF b
    <3> QED BY ONLY <2>3, <2>5
  <2> QED BY <2>1, <2>6 DEF R
<1>2. ASSUME NEW r1 \in Records PROVE OfRecord(r1, field, rset2) \in Q
  <2> DEFINE m == rec_record_get_num_fields_by_name(r1, field)
             F == [k \in 1..m |-> OfKey(r1, field, rset2, k)]
  <2>1. m \in Nat
    <3>1. r1 \in Seq(Fields)
      BY DEF Records
    <3>2. Named(r1, field) \in Seq(Fields)
      BY <3>1, NamedIs
    <3> QED BY <3>2 DEF rec_record_get_num_fields_by_name
  <2> HIDE DEF m, Q
  <2>2. F = [k \in 1..m |-> F[k]] /\ \A k \in 1..m : F[k] \in Q
    BY <1>1
  <2>3. OfRecord(r1, field, rset2) = FlattenSeq(F)
    BY DEF OfRecord, m
  <2> HIDE DEF F
  <2>4. F \in Seq(Q)
    BY ONLY <2>1, <2>2
  <2>5. SeqsOver(F, Records)
    BY <2>4 DEF SeqsOver, Q
  <2>6. FlattenSeq(F) \in Seq(Records)
    BY <2>5, FlattenOver
  <2> QED BY <2>3, <2>6 DEF Q
<1> DEFINE s == rset1.recs
           N == Len(s)
           F == [i \in DOMAIN s |-> OfRecord(s[i], field, rset2)]
<1>3. N \in Nat /\ DOMAIN s = 1..N /\ \A i \in 1..N : s[i] \in Records
  BY DEF IsRset
<1>4. rec_db_join(rset1, rset2, field).recs = FlattenSeq(F)
  BY JoinRecs
<1> HIDE DEF Q, s, N
<1>5. F = [i \in 1..N |-> F[i]] /\ \A i \in 1..N : F[i] \in Q
  BY <1>2, <1>3
<1> HIDE DEF F
<1>6. F \in Seq(Q)
  BY ONLY <1>3, <1>5
<1>7. SeqsOver(F, Records)
  BY <1>6 DEF SeqsOver, Q
<1> QED BY <1>4, <1>7, FlattenOver

\* The record set that is queried has records.
LEMMA SourceBrings ==
  ASSUME NEW d, IsDb(d), NEW q, q.join \in Seq(STRING), Target(d, q) # 0
  PROVE  Source(d, q).recs \in Seq(Records)
<1> DEFINE rset1 == d[Target(d, q)]
           rset2 == d[Referred(d, q)]
<1>1. IsRset(rset1) /\ rset1.recs \in Seq(Records)
  BY TargetInDb DEF IsDb, IsRset
<1>2. CASE JoinP(d, q)
  <2>1. rset2.recs \in Seq(Records)
    BY <1>2, ReferredInDb DEF IsDb, IsRset
  <2>2. q.join \in Names
    BY <1>2 DEF JoinP, Names, None
  <2> HIDE DEF rset1, rset2
  <2>3. rec_db_join(rset1, rset2, q.join).recs \in Seq(Records)
    BY <1>1, <2>1, <2>2, JoinBrings
  <2> QED BY <1>2, <2>3 DEF Source, rset1, rset2
<1>3. CASE ~JoinP(d, q)
  BY <1>1, <1>3 DEF Source
<1> QED BY <1>2, <1>3

\* The elements of a field expression that give a field, and the field.
Giving(fex) == {i \in DOMAIN fex : fex[i].function \in Standard}
GivenField(e, recs) ==
  [n |-> IF e.alias # None THEN e.alias ELSE <<e.function>> \o e.n,
   v |-> Aggregate(e.function, recs, e.n)]

\* The n-th function that is known gives the n-th field.
LEMMA CallsGive ==
  ASSUME NEW fex, fex \in Seq(Range(fex)), fex # None, rec_fex_all_calls_p(fex), NEW recs
  PROVE  \A i \in Giving(fex) :
           rec_db_process_fex(fex, recs)[KeptPlace(Giving(fex), i)] = GivenField(fex[i], recs)
<1> DEFINE N == Len(fex)
           K == Giving(fex)
           s == [i \in 1..N |-> GivenField(fex[i], recs)]
           S == {s[i] : i \in 1..N}
           p(e) == FexFields(e, recs)
<1>1. N \in Nat /\ DOMAIN fex = 1..N
  OBVIOUS
<1>2. rec_db_process_fex(fex, recs) = FlattenSeq([i \in DOMAIN fex |-> p(fex[i])])
  BY DEF rec_db_process_fex, Each
<1>3. \A i \in 1..N : p(fex[i]) = IF i \in K THEN <<s[i]>> ELSE << >>
  <2> TAKE i \in 1..N
  <2>1. fex[i].function # ""
    BY <1>1 DEF rec_fex_all_calls_p
  <2>2. p(fex[i]) = IF fex[i].function \notin Standard THEN << >>
                    ELSE <<GivenField(fex[i], recs)>>
    BY <2>1 DEF FexFields, GivenField
  <2> HIDE DEF p
  <2> QED BY <1>1, <2>2 DEF Giving
<1> HIDE DEF p, K
<1>4. DOMAIN s = 1..N /\ s \in Seq(S)
  <2>1. s = [i \in 1..N |-> s[i]] /\ \A i \in 1..N : s[i] \in S
    OBVIOUS
  <2> HIDE DEF s, S
  <2> QED BY ONLY <1>1, <2>1
<1>5. [i \in DOMAIN fex |-> p(fex[i])] = [i \in DOMAIN s |-> IF i \in K THEN <<s[i]>> ELSE << >>]
  <2> HIDE DEF s
  <2> QED BY <1>1, <1>3, <1>4
<1>6. \A i \in 1..N : s[i] = GivenField(fex[i], recs)
  OBVIOUS
<1> HIDE DEF s, S
<1>7. rec_db_process_fex(fex, recs) = Keep(s, K)
  BY <1>2, <1>5 DEF Keep
<1>8. \A i \in DOMAIN s : i \in K => Keep(s, K)[KeptPlace(K, i)] = s[i]
  BY <1>4, KeepPlaces
<1>9. \A i \in K : i \in 1..N
  BY <1>1 DEF K, Giving
<1> QED BY <1>4, <1>6, <1>7, <1>8, <1>9 DEF K

\* The aggregates in recs are those of the concatenated records of rset.
IsConcatenation(rset, fex, functions, recs) ==
  \A i \in DOMAIN fex :
    fex[i].function \in functions =>
      recs[1][Cardinality({j \in 1..i : fex[j].function \in Standard})].v
        = Aggregate(fex[i].function, <<FlattenSeq(rset.recs)>>, fex[i].n)

\* A query for aggregates alone is answered by those of the concatenation.
LEMMA AggregateAnswered ==
  ASSUME IsDb(db), NEW q, IsQuery(q), rec_db_query(q), result'.status = "ok",
         Target(db, q) # 0, AggregatesOnly(q)
  PROVE  IsConcatenation(Source(db, q), q.fex, Standard \ {"avg"}, result'.recs)
<1> DEFINE rset == Source(db, q)
           sel == [q EXCEPT !.sel.how = "all"]
<1>1. q.join \in Seq(STRING) /\ q.fex \in Seq(Range(q.fex)) /\ q.fex # None
      /\ q.group = None /\ rec_fex_all_calls_p(q.fex)
  BY DEF IsQuery, AggregatesOnly
<1>2. rset.recs \in Seq(Records)
  BY <1>1, SourceBrings
<1>3. Arranged(rset, q) = rset
  BY <1>1 DEF Arranged, AggregatesOnly
<1>4. AggregatesOnly(sel) /\ sel.fex = q.fex
  <2>1. sel.fex = q.fex /\ sel.group = q.group
    BY DEF IsQuery
  <2> HIDE DEF sel
  <2> QED BY <2>1 DEF AggregatesOnly
<1>5. \E x \in {q, sel} : \E index : result'.recs = Selected(rset, x, index)
  <2> HIDE DEF rset
  <2>1. ~(JoinP(db, q) /\ db[Referred(db, q)].key = None)
    <3>1. SUFFICES ASSUME JoinP(db, q) /\ db[Referred(db, q)].key = None PROVE FALSE
      OBVIOUS
    <3>2. result' = Answer("out of memory", None, << >>)
      BY <3>1 DEF rec_db_query
    <3> QED BY <3>2 DEF Answer
  <2>2. ~(q.sel.how = "random" /\ q.sel.num > 0 /\ rset.count = 0)
    <3>1. SUFFICES ASSUME q.sel.how = "random" /\ q.sel.num > 0 /\ rset.count = 0 PROVE FALSE
      OBVIOUS
    <3>2. result' = Answer("division by zero", None, << >>)
      BY <2>1, <3>1 DEF rec_db_query, rset
    <3> QED BY <3>2 DEF Answer
  <2>3. \E x \in {q, sel} : \E index :
          result' = Answer("ok", IF q.descriptor THEN rset.type ELSE None,
                           Selected(rset, x, index))
    BY <1>3, <2>1, <2>2 DEF rec_db_query, rset
  <2> QED BY <2>3 DEF Answer
<1>12. PICK x \in {q, sel} : \E index : result'.recs = Selected(rset, x, index)
  BY <1>5
<1>6. PICK index : result'.recs = Selected(rset, x, index)
  BY <1>12
<1>7. AggregatesOnly(x) /\ x.fex = q.fex
  BY <1>4, <1>12
<1> DEFINE fex == q.fex
           K == Giving(fex)
<1> HIDE DEF rset, sel
<1>8. result'.recs = <<rec_db_process_fex(fex, rset.recs)>>
  BY <1>6, <1>7 DEF Selected
<1>9. \A i \in K : rec_db_process_fex(fex, rset.recs)[KeptPlace(K, i)]
                     = GivenField(fex[i], rset.recs)
  BY <1>1, CallsGive
<1>10. rset.recs \in Seq(Seq(Fields))
  <2>1. Records \subseteq Seq(Fields)
    BY DEF Records
  <2> DEFINE A == Records
             B == Seq(Fields)
  <2> HIDE DEF A, B
  <2> QED BY <1>2, <2>1 DEF A, B
<1>11. ASSUME NEW i \in DOMAIN fex, fex[i].function \in Standard \ {"avg"}
       PROVE  result'.recs[1][Cardinality({j \in 1..i : fex[j].function \in Standard})].v
                = Aggregate(fex[i].function, <<FlattenSeq(rset.recs)>>, fex[i].n)
  <2>1. {j \in 1..i : fex[j].function \in Standard} = PlacesUpTo(K, i)
    <3>1. DOMAIN fex = 1..Len(fex) /\ Len(fex) \in Nat
      BY <1>1
    <3>2. \A j \in 1..i : j \in DOMAIN fex
      BY <1>11, <3>1
    <3> QED BY <3>2 DEF PlacesUpTo, Giving
  <2>2. i \in K
    BY <1>11 DEF Giving
  <2>3. result'.recs[1] = rec_db_process_fex(fex, rset.recs)
    BY <1>8
  <2>4. result'.recs[1][KeptPlace(K, i)] = GivenField(fex[i], rset.recs)
    BY <1>9, <2>2, <2>3
  <2>5. GivenField(fex[i], rset.recs).v = Aggregate(fex[i].function, rset.recs, fex[i].n)
    BY DEF GivenField
  <2> DEFINE c == fex[i].function
             n == fex[i].n
  <2>6. c \in Standard \ {"avg"}
    BY <1>11
  <2> HIDE DEF c, n
  <2>7. Aggregate(c, rset.recs, n) = Aggregate(c, <<FlattenSeq(rset.recs)>>, n)
    BY <1>10, <2>6, AggregateIs
  <2> QED BY <2>1, <2>4, <2>5, <2>7 DEF c, n, KeptPlace
<1> QED BY <1>11 DEF IsConcatenation, rset

\* A query that is answered answers AggregateConcat.
LEMMA AggregateStep ==
  ASSUME IsDb(db), NEW q \in Queries, rec_db_query(q), before' = db, query' = q
  PROVE  AggregateConcat'
<1>1. SUFFICES ASSUME result'.status = "ok", Target(db, q) # 0, AggregatesOnly(q)
               PROVE  IsConcatenation(Source(db, q), q.fex, Standard \ {"avg"}, result'.recs)
  BY ZenonT(60) DEF AggregateConcat, OfConcatenation, IsConcatenation, Answered, AggregatesOnly,
               Source, Target, rec_db_get_rset_by_type
<1>2. IsQuery(q)
  BY QueriesAssumption
<1> QED BY <1>1, <1>2, AggregateAnswered

\* AggregateConcat, for all databases and queries: the counts, sums, minima and
\* maxima of all records are those of the record that concatenates them, as the
\* manual says.
THEOREM AggregatesAreOfConcatenation == Spec => []AggregateConcat
<1>1. Init => AggregateConcat
  BY DEF Init, AggregateConcat, OfConcatenation, Answered
<1>2. IsDb(db) /\ AggregateConcat /\ [Next]_vars => AggregateConcat'
  <2>1. SUFFICES ASSUME IsDb(db), AggregateConcat, [Next]_vars PROVE AggregateConcat'
    OBVIOUS
  <2>2. CASE UNCHANGED vars
    <3>3. before' = before /\ query' = query /\ result' = result /\ made' = made
      BY <2>2 DEF vars
    <3> QED BY <2>1, <3>3 DEF AggregateConcat, OfConcatenation, Answered
  <2>3. ASSUME NEW q \in Queries, Query(q) PROVE AggregateConcat'
    BY <2>1, <2>3, AggregateStep DEF Query
  <2>4. ASSUME NEW q \in Queries, Recsel(q) PROVE AggregateConcat'
    <3>1. CASE q.type = None /\ Len(db) > 1
      <4>1. result' = Answer("fatal", None, << >>)
        BY <2>4, <3>1 DEF Recsel
      <4> QED BY <4>1 DEF AggregateConcat, OfConcatenation, Answered, Answer
    <3>2. CASE ~(q.type = None /\ Len(db) > 1)
      BY <2>1, <2>4, <3>2, AggregateStep DEF Recsel
    <3> QED BY <3>1, <3>2
  <2> QED BY <2>1, <2>2, <2>3, <2>4 DEF Next
<1> QED BY <1>1, <1>2, QueryInvAlways, PTL DEF Spec, QueryInv

=============================================================================
