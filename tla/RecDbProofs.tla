---------------------------- MODULE RecDbProofs ----------------------------
(***************************************************************************)
(* The operations of RecDb on a database of any size, and what writing and *)
(* reading back makes of it.                                               *)
(***************************************************************************)
EXTENDS RecDb, RecTextProofs

---------------------------------------------------------------------------
(* The members of a kind, over a concatenation *)

OnlyBy(f, E, k) ==
  /\ \A x \in E : f[x] = IF x.k = k THEN <<x>> ELSE << >>
  /\ \A s \in Seq(E) : Only(s, k) = Spread(f, s)

LEMMA OnlySpread ==
  ASSUME NEW E, NEW k
  PROVE  \E f \in [E -> Seq(E)] : OnlyBy(f, E, k)
<1> DEFINE f == [x \in E |-> IF x.k = k THEN <<x>> ELSE << >>]
<1>1. f \in [E -> Seq(E)]
  <2>1. \A x \in E : (IF x.k = k THEN <<x>> ELSE << >>) \in Seq(E)
    <3> TAKE x \in E
    <3>1. <<x>> \in Seq(E) /\ << >> \in Seq(E)
      BY EmptySeq
    <3> QED BY <3>1
  <2> QED BY <2>1
<1>2. ASSUME NEW u \in Seq(E) PROVE Only(u, k) = Spread(f, u)
  <2> DEFINE a == [i \in DOMAIN u |-> IF u[i].k = k THEN <<u[i]>> ELSE << >>]
             b == [i \in DOMAIN u |-> f[u[i]]]
  <2>1. \A i \in DOMAIN u : u[i] \in E
    OBVIOUS
  <2>2. \A i \in DOMAIN u :
          f[u[i]] = IF u[i].k = k THEN <<u[i]>> ELSE << >>
    BY <2>1
  <2>3. a = b
    <3> HIDE DEF f
    <3> QED BY <2>2
  <2> QED BY <2>3 DEF Only, Spread
<1>3. \A x \in E : f[x] = IF x.k = k THEN <<x>> ELSE << >>
  OBVIOUS
<1> HIDE DEF f
<1>4. OnlyBy(f, E, k)
  BY <1>2, <1>3 DEF OnlyBy
<1> QED BY <1>1, <1>4

LEMMA OnlyConcat ==
  ASSUME NEW E, NEW k, NEW s \in Seq(E), NEW u \in Seq(E)
  PROVE  Only(s \o u, k) = Only(s, k) \o Only(u, k)
<1>0. PICK f \in [E -> Seq(E)] : OnlyBy(f, E, k)
  BY OnlySpread
<1>1. \A x \in Seq(E) : Only(x, k) = Spread(f, x)
  BY <1>0 DEF OnlyBy
<1>2. s \o u \in Seq(E)
  BY ConcatProperties
<1>3. Spread(f, s \o u) = Spread(f, s) \o Spread(f, u)
  BY SpreadConcat, SMTT(30)
<1> QED BY <1>1, <1>2, <1>3

LEMMA OnlyNone ==
  ASSUME NEW E, NEW k, NEW s \in Seq(E), \A i \in 1..Len(s) : s[i].k # k
  PROVE  Only(s, k) = << >>
<1>0. PICK f \in [E -> Seq(E)] : OnlyBy(f, E, k)
  BY OnlySpread
<1>1. /\ \A y \in E : f[y] = IF y.k = k THEN <<y>> ELSE << >>
      /\ \A y \in Seq(E) : Only(y, k) = Spread(f, y)
  BY <1>0 DEF OnlyBy
<1>2. \A i \in 1..Len(s) : f[s[i]] = << >>
  <2> TAKE i \in 1..Len(s)
  <2>1. s[i] \in E
    OBVIOUS
  <2> QED BY <1>1, <2>1
<1>3. Spread(f, s) = << >>
  BY <1>2, SpreadNone
<1> QED BY <1>1, <1>3

---------------------------------------------------------------------------
(* The fields and the comments among the lines of a record *)

TextLines ==
  [k : {"comment"}, of : Contents] \cup [k : {"field"}, n : Contents, v : Contents]

LEMMA TextIsLines ==
  /\ \A x \in TextLines : x \in AllLines
  /\ \A s \in Seq(TextLines) : s \in Seq(AllLines)
<1>1. \A x \in TextLines : x \in AllLines
  BY DEF TextLines, AllLines
<1> HIDE DEF TextLines
<1> QED BY <1>1

LEMMA ItemLinesAre ==
  ASSUME NEW x \in Items
  PROVE  /\ WriteItem(x) \in Seq(TextLines)
         /\ Only(WriteItem(x), "field") = IF x.k = "field" THEN <<x>> ELSE << >>
<1>1. CASE x \in [k : {"field"}, n : Contents, v : Contents]
  <2>1. x.k = "field" /\ x = FieldLine(x.n, x.v) /\ x \in TextLines
    BY <1>1 DEF FieldLine, TextLines
  <2>2. WriteItem(x) = <<x>>
    BY <2>1 DEF WriteItem
  <2> DEFINE e == << >>
  <2>3. e \in Seq(TextLines) /\ <<x>> = Append(e, x) /\ <<x>> \in Seq(TextLines)
    BY <2>1, EmptySeq
  <2>4. Only(Append(e, x), "field") = Append(Only(e, "field"), x)
        /\ Only(e, "field") = << >>
    <3> HIDE DEF e
    <3>1. Only(e, "field") \in Seq(TextLines) /\ Only(<< >>, "field") = << >>
          /\ \A y \in TextLines : Only(Append(e, y), "field") =
               IF y.k = "field" THEN Append(Only(e, "field"), y)
               ELSE Only(e, "field")
      BY <2>3, OnlyIs
    <3> QED BY <2>1, <3>1 DEF e
  <2> QED BY <2>1, <2>2, <2>3, <2>4
<1>2. CASE x \in [k : {"comment"}, texts : Seq(Contents)]
  <2> DEFINE w == x.texts
             N == Len(w)
             a == [i \in 1..N |-> CommentLine(w[i])]
  <2>1. x.k = "comment" /\ w \in Seq(Contents)
    BY <1>2
  <2>2. WriteItem(x) = a
    BY <2>1 DEF WriteItem
  <2>3. N \in Nat /\ \A i \in 1..N : w[i] \in Contents
    BY <2>1
  <2>4. \A i \in 1..N : CommentLine(w[i]) \in TextLines /\ CommentLine(w[i]).k = "comment"
    BY <2>3 DEF CommentLine, TextLines
  <2>5. a \in Seq(TextLines) /\ Len(a) = N /\ \A i \in 1..N : a[i].k # "field"
    <3> HIDE DEF N, w
    <3> QED BY <2>3, <2>4
  <2> HIDE DEF a
  <2>6. Only(a, "field") = << >>
    BY <2>5, OnlyNone
  <2> QED BY <2>1, <2>2, <2>5, <2>6
<1> QED BY <1>1, <1>2 DEF Items

\* The lines of a record are its items, and the field lines its fields.
LEMMA RecordFields ==
  ASSUME NEW items \in Seq(Items), items # << >>
  PROVE  /\ WriteRecord(items) \in Seq(TextLines)
         /\ Only(WriteRecord(items), "field") = Fields(items)
<1> DEFINE F(s) == FlattenSeq(ItemsMap(s))
           Good(s) == /\ F(s) \in Seq(TextLines)
                      /\ Only(F(s), "field") = Only(s, "field")
           G == {s \in Seq(Items) : Good(s)}
<1>1. << >> \in G
  <2> DEFINE e == << >>
  <2>1. e \in Seq(Items) /\ e \in Seq(TextLines)
    BY EmptySeq
  <2>2. ItemsMap(e) = << >>
    BY DEF ItemsMap
  <2>3. F(e) = << >>
    BY <2>2, FlattenNone
  <2>4. Good(e)
    <3> HIDE DEF F
    <3> QED BY <2>1, <2>3
  <2> HIDE DEF Good
  <2> QED BY <2>1, <2>4
<1>2. ASSUME NEW s \in Seq(Items), NEW x \in Items, s \in G
      PROVE  Append(s, x) \in G
  <2> DEFINE w == WriteItem(x)
             u == Append(s, x)
             a == F(s)
  <2>1. u \in Seq(Items)
    BY AppendProperties
  <2>2. F(u) = a \o w
    <3>1. ItemsMap(u) = Append(ItemsMap(s), w)
      BY ItemsMapAppend
    <3>2. SeqsOver(ItemsMap(s), AllLines) /\ w \in Seq(AllLines)
      BY ItemsSeqs, ItemLines
    <3> HIDE DEF u, w
    <3> QED BY <3>1, <3>2, FlattenAppend
  <2>3. a \in Seq(TextLines) /\ Only(a, "field") = Only(s, "field")
    BY <1>2
  <2>4. w \in Seq(TextLines)
        /\ Only(w, "field") = IF x.k = "field" THEN <<x>> ELSE << >>
    BY ItemLinesAre
  <2>5. /\ Only(s, "field") \in Seq(Items)
        /\ Only(u, "field") =
             IF x.k = "field" THEN Append(Only(s, "field"), x)
             ELSE Only(s, "field")
    <3>1. Only(s, "field") \in Seq(Items)
          /\ \A e \in Items : Only(Append(s, e), "field") =
               IF e.k = "field" THEN Append(Only(s, "field"), e)
               ELSE Only(s, "field")
      BY OnlyIs
    <3> QED BY <3>1
  <2> HIDE DEF w, a, u, F
  <2>6. a \o w \in Seq(TextLines)
        /\ Only(a \o w, "field") = Only(a, "field") \o Only(w, "field")
    BY <2>3, <2>4, OnlyConcat, ConcatProperties
  <2> DEFINE o == Only(s, "field")
  <2> HIDE DEF o
  <2>7. o \o << >> = o /\ Append(o, x) = o \o <<x>>
    <3>1. o \in Seq(Items)
      BY <2>5 DEF o
    <3> HIDE DEF u, a, w
    <3>2. \A y \in Items : Append(o, y) = o \o <<y>>
      BY <3>1, AppendIsConcat
    <3>3. o \o << >> = o
      BY <3>1, ConcatEmptySeq
    <3> QED BY <3>2, <3>3
  <2>8. Only(a \o w, "field") = Only(u, "field")
    <3>1. Only(a \o w, "field") = o \o Only(w, "field")
      BY <2>3, <2>6 DEF o
    <3>2. CASE x.k = "field"
      <4>1. Only(w, "field") = <<x>> /\ Only(u, "field") = Append(o, x)
        BY <2>4, <2>5, <3>2 DEF o
      <4> QED BY <2>7, <3>1, <4>1
    <3>3. CASE x.k # "field"
      <4>1. Only(w, "field") = << >> /\ Only(u, "field") = o
        BY <2>4, <2>5, <3>3 DEF o
      <4> QED BY <2>7, <3>1, <4>1
    <3> QED BY <3>2, <3>3
  <2>9. Good(u)
    BY <2>2, <2>6, <2>8
  <2> HIDE DEF Good
  <2> QED BY <2>1, <2>9 DEF u
<1>3. Seq(Items) \subseteq G
  <2> HIDE DEF G
  <2> QED BY <1>1, <1>2, SeqInduction
<1>4. Good(items)
  <2> HIDE DEF Good
  <2> QED BY <1>3
<1>5. WriteRecord(items) = F(items)
  BY DEF WriteRecord, ItemsMap
<1> QED BY <1>4, <1>5 DEF Fields

---------------------------------------------------------------------------
(* The records of a record set and of a database *)

FieldsBy(f) ==
  /\ \A x \in Elems : f[x] = FieldsIn(x)
  /\ \A s \in Seq(Elems) : FieldsOf(s) = Spread(f, s)
RecordsBy(f, t) ==
  /\ \A r \in Rsets : f[r] = RecordsIn(r, t)
  /\ \A d \in Seq(Rsets) : RecordsOf(d, t) = Spread(f, d)

LEMMA FieldsSpread == \E f \in [Elems -> Seq(Seq(Items))] : FieldsBy(f)
<1> DEFINE f == [x \in Elems |-> FieldsIn(x)]
<1>1. f \in [Elems -> Seq(Seq(Items))]
  <2> SUFFICES ASSUME NEW x \in Elems PROVE FieldsIn(x) \in Seq(Seq(Items))
    OBVIOUS
  <2>1. CASE x.k = "record"
    <3>1. x.items \in Seq(Items)
      BY <2>1 DEF Elems
    <3> DEFINE y == Fields(x.items)
    <3>2. y \in Seq(Items)
      BY <3>1, OnlyIs DEF Fields
    <3> HIDE DEF y
    <3>3. <<y>> \in Seq(Seq(Items)) /\ << >> \in Seq(Seq(Items))
      BY <3>2, EmptySeq
    <3> QED BY <3>3 DEF FieldsIn, y
  <2>2. CASE x.k # "record"
    BY <2>2, EmptySeq DEF FieldsIn
  <2> QED BY <2>1, <2>2
<1>2. ASSUME NEW s \in Seq(Elems) PROVE FieldsOf(s) = Spread(f, s)
  <2>1. \A j \in DOMAIN s : f[s[j]] = FieldsIn(s[j])
    OBVIOUS
  <2> HIDE DEF f
  <2> QED BY <2>1 DEF FieldsOf, Spread
<1>3. \A x \in Elems : f[x] = FieldsIn(x)
  OBVIOUS
<1> HIDE DEF f
<1>4. FieldsBy(f)
  BY <1>2, <1>3 DEF FieldsBy
<1> QED BY <1>1, <1>4

\* The records of a longer record set.
LEMMA FieldsOfIs ==
  /\ FieldsOf(<< >>) = << >>
  /\ \A s \in Seq(Elems) :
       /\ FieldsOf(s) \in Seq(Seq(Items))
       /\ \A e \in Elems : FieldsOf(Append(s, e)) = FieldsOf(s) \o FieldsIn(e)
       /\ \A u \in Seq(Elems) : FieldsOf(s \o u) = FieldsOf(s) \o FieldsOf(u)
       /\ (\A j \in 1..Len(s) : s[j].k = "comment") => FieldsOf(s) = << >>
<1>1. PICK f \in [Elems -> Seq(Seq(Items))] : FieldsBy(f)
  BY FieldsSpread
<1>2. /\ \A x \in Elems : f[x] = FieldsIn(x)
      /\ \A s \in Seq(Elems) : FieldsOf(s) = Spread(f, s)
  BY <1>1 DEF FieldsBy
<1>3. FieldsOf(<< >>) = << >>
  <2>1. << >> \in Seq(Elems) /\ Spread(f, << >>) = << >>
    BY EmptySeq, SpreadIs
  <2> QED BY <1>2, <2>1
<1>4. ASSUME NEW s \in Seq(Elems)
      PROVE  /\ FieldsOf(s) \in Seq(Seq(Items))
             /\ \A e \in Elems : FieldsOf(Append(s, e)) = FieldsOf(s) \o FieldsIn(e)
             /\ \A u \in Seq(Elems) : FieldsOf(s \o u) = FieldsOf(s) \o FieldsOf(u)
             /\ (\A j \in 1..Len(s) : s[j].k = "comment") => FieldsOf(s) = << >>
  <2>1. FieldsOf(s) \in Seq(Seq(Items))
    <3>1. Spread(f, s) \in Seq(Seq(Items))
      BY SpreadIs
    <3> QED BY <1>2, <3>1
  <2>2. ASSUME NEW e \in Elems
        PROVE  FieldsOf(Append(s, e)) = FieldsOf(s) \o FieldsIn(e)
    <3>1. Append(s, e) \in Seq(Elems)
      BY AppendProperties
    <3>2. Spread(f, Append(s, e)) = Spread(f, s) \o f[e]
      BY SpreadAppend
    <3> QED BY <1>2, <3>1, <3>2
  <2>3. ASSUME NEW u \in Seq(Elems)
        PROVE  FieldsOf(s \o u) = FieldsOf(s) \o FieldsOf(u)
    <3>1. s \o u \in Seq(Elems)
      BY ConcatProperties
    <3>2. Spread(f, s \o u) = Spread(f, s) \o Spread(f, u)
      BY SpreadConcat
    <3> QED BY <1>2, <3>1, <3>2
  <2>4. ASSUME \A j \in 1..Len(s) : s[j].k = "comment"
        PROVE  FieldsOf(s) = << >>
    <3>1. \A j \in 1..Len(s) : f[s[j]] = << >>
      <4> TAKE j \in 1..Len(s)
      <4>1. s[j] \in Elems /\ s[j].k = "comment"
        BY <2>4
      <4>2. FieldsIn(s[j]) = << >>
        BY <4>1 DEF FieldsIn
      <4> QED BY <1>2, <4>1, <4>2
    <3>2. Spread(f, s) = << >>
      BY <3>1, SpreadNone
    <3> QED BY <1>2, <3>2
  <2> QED BY <2>1, <2>2, <2>3, <2>4
<1> QED BY <1>3, <1>4

LEMMA RecordsSpread ==
  ASSUME NEW t
  PROVE  \E f \in [Rsets -> Seq(Seq(Items))] : RecordsBy(f, t)
<1> DEFINE f == [r \in Rsets |-> RecordsIn(r, t)]
<1>1. f \in [Rsets -> Seq(Seq(Items))]
  <2> SUFFICES ASSUME NEW r \in Rsets PROVE RecordsIn(r, t) \in Seq(Seq(Items))
    OBVIOUS
  <2>1. r.elems \in Seq(Elems)
    BY RsetFacts
  <2> QED BY <2>1, FieldsOfIs, EmptySeq DEF RecordsIn
<1>2. ASSUME NEW d \in Seq(Rsets) PROVE RecordsOf(d, t) = Spread(f, d)
  <2>1. \A i \in DOMAIN d : d[i] \in Rsets
    OBVIOUS
  <2>2. \A i \in DOMAIN d : f[d[i]] = RecordsIn(d[i], t)
    BY <2>1
  <2> HIDE DEF f
  <2> QED BY <2>2 DEF RecordsOf, Spread
<1>3. \A r \in Rsets : f[r] = RecordsIn(r, t)
  OBVIOUS
<1> HIDE DEF f
<1>4. RecordsBy(f, t)
  BY <1>2, <1>3 DEF RecordsBy
<1> QED BY <1>1, <1>4

\* The records of type t, in one record set behind others, or in the only
\* one of that type.
LEMMA RecordsOfIs ==
  ASSUME NEW t, NEW d \in Seq(Rsets)
  PROVE  /\ RecordsOf(d, t) \in Seq(Seq(Items)) /\ RecordsOf(<< >>, t) = << >>
         /\ \A r \in Rsets :
              RecordsOf(Append(d, r), t) = RecordsOf(d, t) \o RecordsIn(r, t)
         /\ (\A i \in 1..Len(d) : RsetType(d[i]) # t) => RecordsOf(d, t) = << >>
         /\ \A m \in 1..Len(d) :
              RsetType(d[m]) = t /\ (\A i \in 1..Len(d) : RsetType(d[i]) = t => i = m)
                => RecordsOf(d, t) = FieldsOf(d[m].elems)
<1>1. PICK f \in [Rsets -> Seq(Seq(Items))] : RecordsBy(f, t)
  BY RecordsSpread
<1>2. /\ \A r \in Rsets : f[r] = RecordsIn(r, t)
      /\ \A s \in Seq(Rsets) : RecordsOf(s, t) = Spread(f, s)
  BY <1>1 DEF RecordsBy
<1>3. RecordsOf(d, t) \in Seq(Seq(Items)) /\ RecordsOf(<< >>, t) = << >>
  <2>1. << >> \in Seq(Rsets) /\ Spread(f, << >>) = << >>
        /\ Spread(f, d) \in Seq(Seq(Items))
    BY EmptySeq, SpreadIs
  <2> QED BY <1>2, <2>1
<1>4. ASSUME NEW r \in Rsets
      PROVE  RecordsOf(Append(d, r), t) = RecordsOf(d, t) \o RecordsIn(r, t)
  <2>1. Append(d, r) \in Seq(Rsets)
    BY AppendProperties
  <2>2. Spread(f, Append(d, r)) = Spread(f, d) \o f[r]
    BY SpreadAppend
  <2> QED BY <1>2, <2>1, <2>2
<1>5. \A i \in 1..Len(d) : d[i] \in Rsets
  OBVIOUS
<1>6. ASSUME \A i \in 1..Len(d) : RsetType(d[i]) # t
      PROVE  RecordsOf(d, t) = << >>
  <2>1. \A i \in 1..Len(d) : f[d[i]] = << >>
    BY <1>2, <1>5, <1>6 DEF RecordsIn
  <2>2. Spread(f, d) = << >>
    BY <2>1, SpreadNone
  <2> QED BY <1>2, <2>2
<1>7. ASSUME NEW m \in 1..Len(d), RsetType(d[m]) = t,
             \A i \in 1..Len(d) : RsetType(d[i]) = t => i = m
      PROVE  RecordsOf(d, t) = FieldsOf(d[m].elems)
  <2>1. \A i \in 1..Len(d) : i # m => f[d[i]] = << >>
    BY <1>2, <1>5, <1>7 DEF RecordsIn
  <2>2. Spread(f, d) = f[d[m]]
    <3> DEFINE R == Rsets
               Q == Seq(Items)
    <3>1. f \in [R -> Seq(Q)]
      OBVIOUS
    <3>2. d \in Seq(R)
      OBVIOUS
    <3>3. m \in 1..Len(d)
      OBVIOUS
    <3>4. OnlyAt(f, d, m)
      BY <2>1 DEF OnlyAt
    <3> HIDE DEF R, Q
    <3> QED BY ONLY <3>1, <3>2, <3>3, <3>4, SpreadOne, Z3T(30)
  <2>3. f[d[m]] = FieldsOf(d[m].elems)
    BY <1>2, <1>5, <1>7 DEF RecordsIn
  <2> QED BY <1>2, <2>2, <2>3
<1> QED BY <1>3, <1>4, <1>6, <1>7

---------------------------------------------------------------------------
(* The type a descriptor states *)

TypeIn(items) == IF HasField(items, REC) THEN FieldValue(items, REC) ELSE None
Places(items) == {i \in DOMAIN items : items[i].k = "field" /\ items[i].n = REC}

LEMMA PlacesIs ==
  ASSUME NEW s \in Seq(Items)
  PROVE  /\ HasField(s, REC) <=> Places(s) # {}
         /\ Places(s) \in SUBSET (1..Len(s)) /\ Len(s) \in Nat
         /\ FieldValue(s, REC) = s[Min(Places(s))].v
  BY DEF HasField, Places, FieldValue

LEMMA MinPlace ==
  ASSUME NEW S \in SUBSET Nat, S # {}
  PROVE  /\ Min(S) \in S /\ \A x \in S : Min(S) <= x
         /\ \A y \in S : (\A x \in S : y <= x) => Min(S) = y
<1> DEFINE m == Min(S)
<1>1. \E x \in S : \A y \in S : x <= y
  BY NatMin
<1>2. m \in S /\ \A y \in S : m <= y
  <2>1. m = CHOOSE x \in S : \A y \in S : x <= y
    BY DEF Min
  <2> HIDE DEF m
  <2> QED BY <1>1, <2>1
<1> HIDE DEF m
<1>3. \A y \in S : (\A x \in S : y <= x) => m = y
  BY <1>2
<1> QED BY <1>2, <1>3 DEF m

\* The first %rec of a descriptor states the type, another one does not.
LEMMA TypeInAppend ==
  ASSUME NEW s \in Seq(Items), NEW e \in Items
  PROVE  /\ HasField(Append(s, e), REC)
              <=> HasField(s, REC) \/ (e.k = "field" /\ e.n = REC)
         /\ TypeIn(Append(s, e)) =
              IF HasField(s, REC) THEN TypeIn(s)
              ELSE IF e.k = "field" /\ e.n = REC THEN e.v ELSE None
<1> DEFINE u == Append(s, e)
           N == Len(s)
           A == Places(s)
           B == Places(u)
           Here1 == e.k = "field" /\ e.n = REC
<1>1. /\ u \in Seq(Items) /\ DOMAIN u = 1..(N + 1) /\ DOMAIN s = 1..N
      /\ u[N + 1] = e /\ (\A i \in 1..N : u[i] = s[i]) /\ N \in Nat
  BY AppendProperties
<1>2. /\ HasField(s, REC) <=> A # {}
      /\ HasField(u, REC) <=> B # {}
      /\ A \in SUBSET (1..N)
      /\ FieldValue(s, REC) = s[Min(A)].v /\ FieldValue(u, REC) = u[Min(B)].v
  BY <1>1, PlacesIs
<1>3. B = A \cup (IF Here1 THEN {N + 1} ELSE {})
  <2> HIDE DEF u, N
  <2>1. \A i \in 1..(N + 1) : i = N + 1 \/ i \in 1..N
    BY <1>1
  <2>2. N + 1 \in 1..(N + 1) /\ N + 1 \notin 1..N /\ \A i \in 1..N : i \in 1..(N + 1)
    BY <1>1
  <2>3. A = {i \in 1..N : s[i].k = "field" /\ s[i].n = REC}
        /\ B = {i \in 1..(N + 1) : u[i].k = "field" /\ u[i].n = REC}
    BY <1>1 DEF Places
  <2> QED BY <1>1, <2>1, <2>2, <2>3
<1> HIDE DEF u, A, B
<1>4. CASE A # {}
  <2>1. A \in SUBSET Nat /\ B \in SUBSET Nat /\ B # {}
    <3>1. \A i \in A : i \in Nat
      BY <1>1, <1>2
    <3>2. N + 1 \in Nat
      BY <1>1
    <3> HIDE DEF N
    <3>3. \A i \in B : i \in Nat
      BY <1>3, <3>1, <3>2
    <3> QED BY <1>3, <1>4, <3>1, <3>3
  <2> DEFINE m == Min(A)
  <2>2. m \in A /\ \A x \in A : m <= x
    BY <1>4, <2>1, MinPlace
  <2> HIDE DEF m
  <2>3. m \in B /\ \A x \in B : m <= x
    BY <1>1, <1>2, <1>3, <2>2
  <2>4. Min(B) = m
    BY <2>1, <2>3, MinPlace
  <2>5. u[m] = s[m]
    BY <1>1, <1>2, <2>2
  <2>6. HasField(s, REC) /\ HasField(u, REC)
    BY <1>2, <1>4, <2>1
  <2>7. TypeIn(u) = TypeIn(s)
    BY <1>2, <2>4, <2>5, <2>6 DEF TypeIn, m
  <2> QED BY <2>6, <2>7 DEF u
<1>5. CASE A = {} /\ Here1
  <2>1. B = {N + 1} /\ B \in SUBSET Nat /\ B # {} /\ N + 1 <= N + 1
    BY <1>1, <1>3, <1>5
  <2>2. Min(B) = N + 1
    BY <2>1, MinPlace
  <2>3. ~HasField(s, REC) /\ HasField(u, REC)
    BY <1>2, <1>5, <2>1
  <2>4. TypeIn(u) = e.v
    BY <1>1, <1>2, <2>2, <2>3 DEF TypeIn
  <2> QED BY <1>5, <2>3, <2>4 DEF u
<1>6. CASE A = {} /\ ~Here1
  <2>1. ~HasField(s, REC) /\ ~HasField(u, REC)
    BY <1>2, <1>3, <1>6
  <2>2. TypeIn(u) = None
    BY <2>1 DEF TypeIn
  <2> QED BY <1>6, <2>1, <2>2 DEF u
<1> QED BY <1>4, <1>5, <1>6

\* The comments in a descriptor are not looked at.
LEMMA TypeInFields ==
  ASSUME NEW items \in Seq(Items)
  PROVE  /\ HasField(Fields(items), REC) <=> HasField(items, REC)
         /\ TypeIn(Fields(items)) = TypeIn(items)
<1> DEFINE Good(s) == /\ HasField(Fields(s), REC) <=> HasField(s, REC)
                      /\ TypeIn(Fields(s)) = TypeIn(s)
           G == {s \in Seq(Items) : Good(s)}
<1>1. << >> \in G
  <2> DEFINE z == << >>
  <2>1. z \in Seq(Items)
    BY EmptySeq
  <2>2. Fields(z) = z
    BY <2>1, OnlyIs DEF Fields
  <2>3. Good(z)
    <3> HIDE DEF z
    <3> QED BY <2>2
  <2> HIDE DEF Good
  <2> QED BY <2>1, <2>3
<1>2. ASSUME NEW s \in Seq(Items), NEW e \in Items, s \in G
      PROVE  Append(s, e) \in G
  <2> DEFINE u == Append(s, e)
             o == Fields(s)
  <2>1. u \in Seq(Items)
    BY AppendProperties
  <2>2. /\ o \in Seq(Items)
        /\ Fields(u) = IF e.k = "field" THEN Append(o, e) ELSE o
    <3>1. /\ Only(s, "field") \in Seq(Items)
          /\ \A y \in Items : Only(Append(s, y), "field") =
               IF y.k = "field" THEN Append(Only(s, "field"), y)
               ELSE Only(s, "field")
      BY OnlyIs
    <3> QED BY <3>1 DEF Fields
  <2>3. (HasField(o, REC) <=> HasField(s, REC)) /\ TypeIn(o) = TypeIn(s)
    BY <1>2
  <2>4. /\ HasField(u, REC) <=> HasField(s, REC) \/ (e.k = "field" /\ e.n = REC)
        /\ TypeIn(u) = IF HasField(s, REC) THEN TypeIn(s)
                       ELSE IF e.k = "field" /\ e.n = REC THEN e.v ELSE None
    BY TypeInAppend
  <2> HIDE DEF u, o
  <2>5. CASE e.k = "field"
    <3>1. /\ HasField(Append(o, e), REC)
               <=> HasField(o, REC) \/ (e.k = "field" /\ e.n = REC)
          /\ TypeIn(Append(o, e)) =
               IF HasField(o, REC) THEN TypeIn(o)
               ELSE IF e.k = "field" /\ e.n = REC THEN e.v ELSE None
      BY <2>2, TypeInAppend
    <3>2. Good(u)
      BY <2>2, <2>3, <2>4, <2>5, <3>1
    <3> HIDE DEF Good
    <3> QED BY <2>1, <3>2 DEF u
  <2>6. CASE e.k # "field"
    <3>1. TypeIn(s) = IF HasField(s, REC) THEN TypeIn(s) ELSE None
      BY DEF TypeIn
    <3>2. Good(u)
      BY <2>2, <2>3, <2>4, <2>6, <3>1
    <3> HIDE DEF Good
    <3> QED BY <2>1, <3>2 DEF u
  <2> QED BY <2>5, <2>6
<1>3. Seq(Items) \subseteq G
  <2> HIDE DEF G
  <2> QED BY <1>1, <1>2, SeqInduction
<1> QED BY <1>3

\* A record states a type if and only if it is a descriptor.
LEMMA TypeInIs ==
  ASSUME NEW s \in Seq(Items)
  PROVE  /\ HasField(s, REC) => TypeIn(s) \in Contents /\ TypeIn(s) # None
         /\ ~HasField(s, REC) => TypeIn(s) = None
<1>1. CASE HasField(s, REC)
  <2> DEFINE A == Places(s)
             m == Min(A)
  <2>1. A # {} /\ A \in SUBSET (1..Len(s)) /\ Len(s) \in Nat
        /\ FieldValue(s, REC) = s[m].v
    BY <1>1, PlacesIs
  <2>2. A \in SUBSET Nat
    BY <2>1
  <2>3. m \in A
    BY <2>1, <2>2, MinPlace
  <2> HIDE DEF m
  <2>4. s[m] \in Items /\ s[m].k = "field"
    BY <2>3 DEF Places
  <2>5. s[m].v \in Contents
    BY <2>4 DEF Items
  <2> QED BY <1>1, <2>1, <2>5, RecTextAssumption DEF TypeIn
<1>2. CASE ~HasField(s, REC)
  BY <1>2 DEF TypeIn
<1> QED BY <1>1, <1>2

LEMMA RsetTypeIs ==
  ASSUME NEW r \in Rsets
  PROVE  /\ r.desc = None => RsetType(r) = None
         /\ r.desc # None => RsetType(r) = TypeIn(r.desc) /\ RsetType(r) # None
<1>1. CASE r.desc = None
  BY <1>1 DEF RsetType
<1>2. CASE r.desc # None
  <2>1. r.desc \in Seq(Items) /\ HasField(r.desc, REC)
    BY <1>2, RsetFacts
  <2>2. RsetType(r) = TypeIn(r.desc)
    BY <1>2, <2>1 DEF RsetType, TypeIn
  <2> QED BY <1>2, <2>1, <2>2, TypeInIs
<1> QED BY <1>1, <1>2

---------------------------------------------------------------------------
(* Where the parser is in the text of a database *)

\* The elements before the descriptor are comments, and no record is one.
NoType(elems) ==
  \A i \in 1..Len(elems) :
    elems[i].k = "record" => ~HasField(elems[i].items, REC)
Headed(elems, n) == \A i \in 1..n : elems[i].k = "comment"
Sound(r) == Headed(r.elems, r.dpos) /\ NoType(r.elems)

\* The record sets of d are of different types, all in T.
Fine(d, T) ==
  /\ \A i \in 1..Len(d) : RsetType(d[i]) \in T /\ Sound(d[i])
  /\ \A i, j \in 1..Len(d) : RsetType(d[i]) = RsetType(d[j]) => i = j

\* The record sets read so far, whose records of type t are Q and whose
\* types are in T; the last one, of type c, is open, and so is a record
\* with the fields r.
View(p) == Append(p.out, p.rset)
At(t, p, Q, T, c, r) ==
  /\ \E f : Parsed(p, f)
  /\ Fine(View(p), T) /\ RecordsOf(View(p), t) = Q
  /\ RsetType(p.rset) = c /\ Fields(p.rec) = r

LEMMA FineAppend ==
  ASSUME NEW d \in Seq(Rsets), NEW r \in Rsets, NEW T
  PROVE  /\ Fine(Append(d, r), T) =>
              Fine(d, T) /\ Sound(r) /\ RsetType(r) \in T
         /\ Fine(d, T) /\ Sound(r) /\ RsetType(r) \notin T =>
              Fine(Append(d, r), T \cup {RsetType(r)})
         /\ \A q \in Rsets :
              Fine(Append(d, r), T) /\ Sound(q) /\ RsetType(q) = RsetType(r) =>
                Fine(Append(d, q), T)
<1> DEFINE N == Len(d)
           u == Append(d, r)
<1>1. /\ N \in Nat /\ Len(u) = N + 1 /\ u[N + 1] = r
      /\ \A i \in 1..N : u[i] = d[i]
  BY AppendProperties
<1>2. /\ N + 1 \in 1..(N + 1) /\ N + 1 \notin 1..N
      /\ \A i \in 1..N : i \in 1..(N + 1)
      /\ \A i \in 1..(N + 1) : i \in 1..N \/ i = N + 1
  BY <1>1
<1> HIDE DEF u, N
<1>3. ASSUME Fine(u, T) PROVE Fine(d, T) /\ Sound(r) /\ RsetType(r) \in T
  <2>1. /\ \A i \in 1..(N + 1) : RsetType(u[i]) \in T /\ Sound(u[i])
        /\ \A i, j \in 1..(N + 1) : RsetType(u[i]) = RsetType(u[j]) => i = j
    BY <1>1, <1>3 DEF Fine
  <2>2. Sound(r) /\ RsetType(r) \in T
    BY <1>1, <1>2, <2>1
  <2>3. /\ \A i \in 1..N : RsetType(d[i]) \in T /\ Sound(d[i])
        /\ \A i, j \in 1..N : RsetType(d[i]) = RsetType(d[j]) => i = j
    BY <1>1, <1>2, <2>1
  <2> QED BY <2>2, <2>3 DEF Fine, N
<1>4. ASSUME Fine(d, T), Sound(r), RsetType(r) \notin T
      PROVE  Fine(u, T \cup {RsetType(r)})
  <2>1. /\ \A i \in 1..N : RsetType(d[i]) \in T /\ Sound(d[i])
        /\ \A i, j \in 1..N : RsetType(d[i]) = RsetType(d[j]) => i = j
    BY <1>4 DEF Fine, N
  <2>2. \A i \in 1..N : RsetType(u[i]) = RsetType(d[i]) /\ Sound(u[i])
    BY <1>1, <2>1
  <2>3. RsetType(u[N + 1]) = RsetType(r) /\ Sound(u[N + 1])
    BY <1>1, <1>4
  <2>4. \A i \in 1..(N + 1) : RsetType(u[i]) \in T \cup {RsetType(r)} /\ Sound(u[i])
    BY <1>2, <2>1, <2>2, <2>3
  <2>5. \A i, j \in 1..(N + 1) : RsetType(u[i]) = RsetType(u[j]) => i = j
    BY <1>2, <1>4, <2>1, <2>2, <2>3
  <2> QED BY <1>1, <2>4, <2>5 DEF Fine
<1>5. ASSUME NEW q \in Rsets, Fine(u, T), Sound(q), RsetType(q) = RsetType(r)
      PROVE  Fine(Append(d, q), T)
  <2> DEFINE v == Append(d, q)
  <2>1. Len(v) = N + 1 /\ v[N + 1] = q /\ \A i \in 1..N : v[i] = d[i]
    BY AppendProperties DEF N
  <2> HIDE DEF v
  <2>2. /\ \A i \in 1..(N + 1) : RsetType(u[i]) \in T /\ Sound(u[i])
        /\ \A i, j \in 1..(N + 1) : RsetType(u[i]) = RsetType(u[j]) => i = j
    BY <1>1, <1>5 DEF Fine
  <2>3. \A i \in 1..(N + 1) : RsetType(v[i]) = RsetType(u[i])
    BY <1>1, <1>2, <1>5, <2>1
  <2>4. \A i \in 1..(N + 1) : Sound(v[i])
    BY <1>1, <1>2, <1>5, <2>1, <2>2
  <2>5. Fine(v, T)
    BY <2>1, <2>2, <2>3, <2>4 DEF Fine
  <2> QED BY <2>5 DEF v
<1> QED BY <1>3, <1>4, <1>5 DEF u

LEMMA NoTypeAppend ==
  ASSUME NEW s \in Seq(Elems), NEW e \in Elems
  PROVE  NoType(Append(s, e)) <=>
           NoType(s) /\ (e.k = "record" => ~HasField(e.items, REC))
<1> DEFINE N == Len(s)
           u == Append(s, e)
           B(x) == x.k = "record" => ~HasField(x.items, REC)
<1>1. /\ N \in Nat /\ Len(u) = N + 1 /\ u[N + 1] = e
      /\ \A i \in 1..N : u[i] = s[i]
  BY AppendProperties
<1>2. /\ N + 1 \in 1..(N + 1)
      /\ \A i \in 1..N : i \in 1..(N + 1)
      /\ \A i \in 1..(N + 1) : i \in 1..N \/ i = N + 1
  BY <1>1
<1>3. /\ NoType(u) <=> \A i \in 1..Len(u) : B(u[i])
      /\ NoType(s) <=> \A i \in 1..N : B(s[i])
  BY DEF NoType
<1> HIDE DEF u, N, B
<1>4. NoType(u) <=> NoType(s) /\ B(e)
  BY <1>1, <1>2, <1>3
<1> QED BY <1>4 DEF u, B

\* What At says of the two parts of the record sets read so far.
LEMMA AtParts ==
  ASSUME NEW t, NEW p, NEW Q, NEW T, NEW c, NEW r, At(t, p, Q, T, c, r)
  PROVE  /\ p \in Parsers /\ p.out \in Seq(Rsets) /\ p.rset \in Rsets
         /\ p.rec \in Seq(Items) /\ ~p.err /\ ~p.eof
         /\ RecordsOf(p.out, t) \in Seq(Seq(Items))
         /\ RecordsIn(p.rset, t) \in Seq(Seq(Items))
         /\ Q = RecordsOf(p.out, t) \o RecordsIn(p.rset, t)
         /\ Q \in Seq(Seq(Items))
         /\ Fine(p.out, T) /\ Sound(p.rset) /\ c \in T
<1>1. PICK f : Parsed(p, f)
  BY DEF At
<1>2. /\ p \in Parsers /\ p.out \in Seq(Rsets) /\ p.rset \in Rsets
      /\ p.rec \in Seq(Items) /\ ~p.err /\ ~p.eof
  <2>1. p \in Parsers /\ ~p.err /\ ~p.eof
    BY <1>1 DEF Parsed
  <2> QED BY <2>1, ParserFacts
<1>3. p.rset.elems \in Seq(Elems)
  BY <1>2, RsetFacts
<1>4. /\ RecordsOf(p.out, t) \in Seq(Seq(Items))
      /\ RecordsOf(View(p), t) = RecordsOf(p.out, t) \o RecordsIn(p.rset, t)
  BY <1>2, RecordsOfIs DEF View
<1>5. RecordsIn(p.rset, t) \in Seq(Seq(Items))
  BY <1>3, FieldsOfIs, EmptySeq DEF RecordsIn
<1>6. Q = RecordsOf(p.out, t) \o RecordsIn(p.rset, t)
  BY <1>4 DEF At
<1>7. Q \in Seq(Seq(Items))
  BY <1>4, <1>5, <1>6, ConcatProperties
<1>8. Fine(p.out, T) /\ Sound(p.rset) /\ RsetType(p.rset) \in T
  BY <1>2, FineAppend DEF At, View
<1>9. RsetType(p.rset) = c
  BY DEF At
<1> QED BY <1>2, <1>4, <1>5, <1>6, <1>7, <1>8, <1>9

\* A step of the parser that stays in the last record set, and adds the
\* records R to it.
LEMMA AtLast ==
  ASSUME NEW t, NEW p, NEW Q, NEW T, NEW c, NEW r, At(t, p, Q, T, c, r),
         NEW q, NEW f, Parsed(q, f), q.out = p.out,
         RsetType(q.rset) = RsetType(p.rset), Sound(q.rset),
         NEW R \in Seq(Seq(Items)),
         RecordsIn(q.rset, t) = RecordsIn(p.rset, t) \o R
  PROVE  At(t, q, Q \o R, T, c, Fields(q.rec))
<1>1. /\ p.out \in Seq(Rsets) /\ p.rset \in Rsets
      /\ RecordsOf(p.out, t) \in Seq(Seq(Items))
      /\ RecordsIn(p.rset, t) \in Seq(Seq(Items))
      /\ Q = RecordsOf(p.out, t) \o RecordsIn(p.rset, t)
  BY AtParts
<1>2. q.rset \in Rsets
  <2>1. q \in Parsers
    BY DEF Parsed
  <2> QED BY <2>1, ParserFacts
<1>3. Fine(View(p), T) /\ RsetType(p.rset) = c
  BY DEF At
<1>4. Fine(View(q), T)
  <2>1. View(p) = Append(p.out, p.rset) /\ View(q) = Append(p.out, q.rset)
    BY DEF View
  <2> DEFINE d == p.out
             x == p.rset
             y == q.rset
  <2>2. /\ d \in Seq(Rsets) /\ x \in Rsets /\ y \in Rsets
        /\ Fine(Append(d, x), T) /\ Sound(y) /\ RsetType(y) = RsetType(x)
    BY <1>1, <1>2, <1>3, <2>1
  <2> HIDE DEF d, x, y
  <2>3. Fine(Append(d, y), T)
    BY <2>2, FineAppend
  <2> QED BY <2>1, <2>3 DEF d, x, y
<1>5. RecordsOf(View(q), t) = RecordsOf(p.out, t) \o RecordsIn(q.rset, t)
  BY <1>1, <1>2, RecordsOfIs DEF View
<1>6. RecordsOf(View(q), t) = Q \o R
  <2> DEFINE A == RecordsOf(p.out, t)
             B == RecordsIn(p.rset, t)
             S == Seq(Items)
  <2>1. A \in Seq(S) /\ B \in Seq(S) /\ R \in Seq(S)
    BY <1>1
  <2> HIDE DEF A, B, S
  <2>2. (A \o B) \o R = A \o (B \o R)
    BY ONLY <2>1, ConcatAssociative, SMTT(60)
  <2> QED BY <1>1, <1>5, <2>2 DEF A, B
<1> QED BY <1>3, <1>4, <1>6 DEF At

\* A line that belongs to a comment leaves the other members as they are.
LEMMA TextKeepsFields ==
  ASSUME NEW s \in Seq(Items), NEW c, c = TRUE \/ c = FALSE, NEW u, NEW g \in Seq(Items),
         NEW y \in Items, HasText(Items, s, c, u, g, y)
  PROVE  Fields(u) = Fields(s)
<1>1. /\ u = Append(g, y) /\ y.k = "comment" /\ (c = FALSE => g = s)
      /\ (c = TRUE => \E w \in Items : s = Append(g, w) /\ w.k = "comment")
  BY DEF HasText
<1>2. \A e \in Items : e.k = "comment" => Fields(Append(g, e)) = Fields(g)
  BY OnlyIs DEF Fields
<1>3. Fields(u) = Fields(g)
  BY <1>1, <1>2
<1>4. Fields(s) = Fields(g)
  <2>1. CASE c = FALSE
    BY <1>1, <2>1
  <2>2. CASE c = TRUE
    <3>1. PICK w \in Items : s = Append(g, w) /\ w.k = "comment"
      BY <1>1, <2>2
    <3> QED BY <1>2, <3>1
  <2> QED BY <2>1, <2>2
<1> QED BY <1>3, <1>4

LEMMA TextKeepsElems ==
  ASSUME NEW s \in Seq(Elems), NEW c, c = TRUE \/ c = FALSE, NEW u, NEW g \in Seq(Elems),
         NEW y \in Elems, HasText(Elems, s, c, u, g, y),
         NEW n \in 0..Len(s), c = TRUE => n < Len(s), NoType(s),
         Headed(s, n)
  PROVE  FieldsOf(u) = FieldsOf(s) /\ NoType(u) /\ Headed(u, n)
<1>1. /\ u = Append(g, y) /\ y.k = "comment" /\ (c = FALSE => g = s)
      /\ (c = TRUE => \E w \in Elems : s = Append(g, w) /\ w.k = "comment")
  BY DEF HasText
<1>2. \A e \in Elems : e.k = "comment" => FieldsOf(Append(g, e)) = FieldsOf(g)
  <2> TAKE e \in Elems
  <2> SUFFICES ASSUME e.k = "comment" PROVE FieldsOf(Append(g, e)) = FieldsOf(g)
    OBVIOUS
  <2>1. FieldsOf(g) \in Seq(Seq(Items))
        /\ FieldsOf(Append(g, e)) = FieldsOf(g) \o FieldsIn(e)
    BY FieldsOfIs
  <2>2. FieldsIn(e) = << >>
    BY DEF FieldsIn
  <2> QED BY <2>1, <2>2, ConcatEmptySeq
<1>3. /\ FieldsOf(s) = FieldsOf(g) /\ NoType(g) /\ n <= Len(g)
      /\ Headed(g, n)
  <2>1. CASE c = FALSE
    BY <1>1, <2>1
  <2>2. CASE c = TRUE
    <3>1. PICK w \in Elems : s = Append(g, w) /\ w.k = "comment"
      BY <1>1, <2>2
    <3>2. FieldsOf(s) = FieldsOf(g)
      BY <1>2, <3>1
    <3>3. NoType(g)
      BY <3>1, NoTypeAppend
    <3>4. /\ Len(s) = Len(g) + 1 /\ Len(g) \in Nat
          /\ \A i \in 1..Len(g) : s[i] = g[i]
      BY <3>1, AppendProperties
    <3>5. n <= Len(g)
      BY <2>2, <3>4
    <3>6. \A i \in 1..n : i \in 1..Len(g)
      BY <3>4, <3>5
    <3> QED BY <3>2, <3>3, <3>4, <3>5, <3>6 DEF Headed
  <2> QED BY <2>1, <2>2
<1>4. Len(g) \in Nat /\ \A i \in 1..Len(g) : u[i] = g[i]
  BY <1>1, AppendProperties
<1>5. \A i \in 1..n : i \in 1..Len(g)
  BY <1>3, <1>4
<1>6. FieldsOf(u) = FieldsOf(g) /\ NoType(u)
  BY <1>1, <1>2, <1>3, NoTypeAppend
<1> QED BY <1>3, <1>4, <1>5, <1>6 DEF Headed

\* A comment line or a field line.
LEMMA AtLine ==
  ASSUME NEW t, NEW p, NEW Q, NEW T, NEW c, NEW r, At(t, p, Q, T, c, r),
         NEW line \in TextLines
  PROVE  At(t, ParseLine(p, line), Q, T, c,
            IF line.k = "field" THEN Append(r, line) ELSE r)
<1> DEFINE q == ParseLine(p, line)
           x == p.rset
           s == x.elems
           o == p.rec
           v == line.of
           b == p.last
<1>0. PICK f : Parsed(p, f)
  BY DEF At
<1>1. /\ p \in Parsers /\ x \in Rsets /\ o \in Seq(Items) /\ ~p.err /\ ~p.eof
      /\ Sound(x) /\ Q \in Seq(Seq(Items)) /\ RecordsIn(x, t) \in Seq(Seq(Items))
      /\ r = Fields(o)
  <2>1. r = Fields(o)
    BY DEF At
  <2> QED BY <2>1, AtParts
<1>2. /\ s \in Seq(Elems) /\ x.dpos \in Nat /\ Len(s) \in Nat
      /\ x.dpos <= Len(s)
  BY <1>1, RsetFacts
<1>3. (b = TRUE \/ b = FALSE) /\ Continues(p)
  <2>1. b \in BOOLEAN
    BY <1>1, ParserFacts
  <2> QED BY <1>0, <2>1 DEF Parsed
<1>4. DOMAIN p = Parts /\ DOMAIN x = {"desc", "dpos", "elems"}
  BY <1>1 DEF Parsers, Parts, Rsets
<1>5. line \in AllLines /\ line.k \in {"field", "comment"}
  BY DEF TextLines, AllLines
<1>6. Parsed(q, Append(f, line))
  BY <1>0, <1>5, ParseLineParsed
<1>7. ASSUME q.out = p.out, q.rset = x PROVE At(t, q, Q, T, c, Fields(q.rec))
  <2> DEFINE g == Append(f, line)
             R == << >>
  <2>1. Parsed(q, g) /\ R \in Seq(Seq(Items))
    BY <1>6, EmptySeq
  <2>2. RecordsIn(x, t) \o R = RecordsIn(x, t) /\ Q \o R = Q
    BY <1>1, ConcatEmptySeq
  <2> HIDE DEF q, x, g, R
  <2>3. RsetType(q.rset) = RsetType(p.rset) /\ Sound(q.rset)
        /\ RecordsIn(q.rset, t) = RecordsIn(p.rset, t) \o R
    BY <1>1, <1>7, <2>2 DEF x
  <2>4. At(t, q, Q \o R, T, c, Fields(q.rec))
    BY <1>7, <2>1, <2>3, AtLast
  <2> QED BY <2>2, <2>4
<1>8. CASE line.k = "field"
  <2> DEFINE e == Field(line.n, line.v)
  <2>1. q = [p EXCEPT !.rec = Append(o, e), !.last = FALSE]
    BY <1>1, <1>8 DEF ParseLine
  <2>2. e = line /\ e \in Items /\ e.k = "field"
    BY <1>5, <1>8, LineKinds DEF Field, TextLines
  <2> HIDE DEF q, e, o
  <2>3. Fields(Append(o, e)) = Append(Fields(o), e)
    BY <1>1, <2>2, OnlyIs DEF Fields
  <2> HIDE DEF x
  <2>4. q.out = p.out /\ q.rset = x /\ q.rec = Append(o, e)
    BY <1>4, <2>1 DEF Parts, x
  <2> QED BY <1>1, <1>7, <1>8, <2>2, <2>3, <2>4 DEF q, x
<1>9. line.k = "comment" => v \in Contents
  BY <1>5, LineKinds
<1>10. CASE line.k = "comment" /\ o # << >>
  <2> DEFINE rec == AddText(o, b, v)
  <2>1. q = [p EXCEPT !.rec = rec, !.last = TRUE]
    BY <1>1, <1>10 DEF ParseLine
  <2>2. b => o[Len(o)].k = "comment"
    BY <1>3, <1>10 DEF Continues
  <2> HIDE DEF q, v, o, b
  <2>3. v \in Contents /\ Comment(<<v>>) \in Items
    BY <1>9, <1>10, CommentStarted
  <2>4. b => /\ o[Len(o)] \in [k : {"comment"}, texts : Seq(Contents)]
             /\ [o[Len(o)] EXCEPT !.texts = Append(@, v)] \in Items
    <3> SUFFICES ASSUME b
                 PROVE  /\ o[Len(o)] \in [k : {"comment"}, texts : Seq(Contents)]
                        /\ [o[Len(o)] EXCEPT !.texts = Append(@, v)] \in Items
      OBVIOUS
    <3> DEFINE z == o[Len(o)]
    <3>1. z \in Items
      BY <1>1, <1>10, EmptySeq
    <3>2. z.k = "comment"
      BY <2>2
    <3> HIDE DEF z
    <3>3. z \in [k : {"comment"}, texts : Seq(Contents)]
      BY <3>1, <3>2, ItemLines
    <3>4. [z EXCEPT !.texts = Append(@, v)] \in Items
      BY <2>3, <3>3, CommentContinued DEF Items
    <3> QED BY <3>3, <3>4 DEF z
  <2>5. Extends(Items, o, b, v)
    BY <1>10, <2>2, <2>4 DEF Extends
  <2>6. \E g \in Seq(Items), y \in Items : HasText(Items, o, b, rec, g, y)
    BY <1>1, <1>3, <2>3, <2>5, TextAdded
  <2>7. PICK g \in Seq(Items), y \in Items : HasText(Items, o, b, rec, g, y)
    BY <2>6
  <2> HIDE DEF rec
  <2>8. Fields(rec) = Fields(o)
    BY <1>1, <1>3, <2>7, TextKeepsFields
  <2> HIDE DEF x
  <2>9. q.out = p.out /\ q.rset = x /\ q.rec = rec
    BY <1>4, <2>1 DEF Parts, x
  <2> QED BY <1>1, <1>7, <1>10, <2>8, <2>9 DEF q, x
<1>11. CASE line.k = "comment" /\ o = << >>
  <2> DEFINE u == AddText(s, b, v)
  <2>1. q = [p EXCEPT !.rset.elems = AddText(@, b, v), !.last = TRUE]
    BY <1>1, <1>11 DEF ParseLine
  <2>2. b => /\ s # << >> /\ s[Len(s)].k = "comment" /\ x.dpos < Len(s)
    BY <1>3, <1>11 DEF Continues
  <2> HIDE DEF q, v, b, s, o
  <2>3. v \in Contents /\ Comment(<<v>>) \in Elems
    BY <1>9, <1>11, CommentStarted, ElemComment
  <2>4. b => /\ s[Len(s)] \in [k : {"comment"}, texts : Seq(Contents)]
             /\ [s[Len(s)] EXCEPT !.texts = Append(@, v)] \in Elems
    <3> SUFFICES ASSUME b
                 PROVE  /\ s[Len(s)] \in [k : {"comment"}, texts : Seq(Contents)]
                        /\ [s[Len(s)] EXCEPT !.texts = Append(@, v)] \in Elems
      OBVIOUS
    <3> DEFINE z == s[Len(s)]
    <3>1. z \in Elems
      BY <1>2, <2>2, EmptySeq
    <3>2. z.k = "comment"
      BY <2>2
    <3> HIDE DEF z
    <3>3. z \in [k : {"comment"}, texts : Seq(Contents)]
      BY <3>1, <3>2 DEF Elems
    <3>4. [z EXCEPT !.texts = Append(@, v)] \in Elems
      BY <2>3, <3>3, CommentContinued, ElemComment
    <3> QED BY <3>3, <3>4 DEF z
  <2>5. Extends(Elems, s, b, v)
    BY <2>2, <2>4 DEF Extends
  <2>6. \E g \in Seq(Elems), y \in Elems : HasText(Elems, s, b, u, g, y)
    BY <1>2, <1>3, <2>3, <2>5, TextAdded
  <2>7. PICK g \in Seq(Elems), y \in Elems : HasText(Elems, s, b, u, g, y)
    BY <2>6
  <2> HIDE DEF u
  <2>8. FieldsOf(u) = FieldsOf(s) /\ NoType(u) /\ Headed(u, x.dpos)
    <3> DEFINE n == x.dpos
    <3>1. /\ n \in 0..Len(s) /\ (b = TRUE => n < Len(s)) /\ NoType(s)
          /\ Headed(s, n)
      BY <1>1, <1>2, <2>2 DEF Sound, s
    <3> HIDE DEF n
    <3>2. FieldsOf(u) = FieldsOf(s) /\ NoType(u) /\ Headed(u, n)
      BY <1>2, <1>3, <2>7, <3>1, TextKeepsElems
    <3> QED BY <3>2 DEF n
  <2> HIDE DEF x
  <2>9. /\ q.out = p.out /\ q.rec = o
        /\ q.rset = [x EXCEPT !.elems = AddText(@, b, v)]
    BY <1>4, <2>1 DEF Parts, x, o
  <2>10. q.rset.desc = x.desc /\ q.rset.dpos = x.dpos /\ q.rset.elems = u
    BY <1>4, <2>9 DEF s, u
  <2> DEFINE z == q.rset
             R == << >>
  <2>11. /\ z.desc = x.desc /\ z.dpos = x.dpos /\ z.elems = u
    BY <2>10
  <2> HIDE DEF z, R
  <2>12. RsetType(z) = RsetType(x)
    BY <2>11 DEF RsetType
  <2>13. Sound(z)
    BY <2>8, <2>11 DEF Sound
  <2>14. RecordsIn(z, t) = RecordsIn(x, t)
    BY <2>8, <2>11, <2>12 DEF RecordsIn, s
  <2>15. R \in Seq(Seq(Items)) /\ RecordsIn(x, t) \o R = RecordsIn(x, t)
         /\ Q \o R = Q
    BY <1>1, ConcatEmptySeq, EmptySeq DEF R, x
  <2>16. At(t, q, Q \o R, T, c, Fields(q.rec))
    <3> DEFINE g1 == Append(f, line)
    <3>1. Parsed(q, g1)
      BY <1>6 DEF q
    <3> HIDE DEF g1
    <3>2. /\ q.out = p.out /\ RsetType(q.rset) = RsetType(p.rset)
          /\ Sound(q.rset) /\ R \in Seq(Seq(Items))
          /\ RecordsIn(q.rset, t) = RecordsIn(p.rset, t) \o R
      BY <2>9, <2>12, <2>13, <2>14, <2>15 DEF z, x
    <3> QED BY <3>1, <3>2, AtLast
  <2> QED BY <1>1, <1>11, <2>9, <2>15, <2>16 DEF q, o
<1> QED BY <1>5, <1>8, <1>10, <1>11

\* Lines of comments and fields add the fields to the record.
LEMMA AtText ==
  ASSUME NEW t, NEW p, NEW Q, NEW T, NEW c, NEW r, At(t, p, Q, T, c, r),
         NEW lines \in Seq(TextLines)
  PROVE  At(t, ParseLines(p, lines), Q, T, c, r \o Only(lines, "field"))
<1> DEFINE E == Items \cup TextLines
           O(s) == Only(s, "field")
           Good(s) == At(t, ParseLines(p, s), Q, T, c, r \o O(s))
           G == {s \in Seq(TextLines) : Good(s)}
<1>1. r \in Seq(E)
  <2>1. r = Fields(p.rec) /\ p.rec \in Seq(Items)
    <3>1. r = Fields(p.rec)
      BY DEF At
    <3> QED BY <3>1, AtParts
  <2>2. r \in Seq(Items)
    BY <2>1, OnlyIs DEF Fields
  <2>3. \A x \in Items : x \in E
    OBVIOUS
  <2> HIDE DEF E
  <2> QED BY <2>2, <2>3
<1>2. << >> \in G
  <2> DEFINE z == << >>
  <2>1. z \in Seq(TextLines)
    BY EmptySeq
  <2>2. O(z) = << >>
    BY <2>1, OnlyIs
  <2>3. r \o << >> = r
    BY <1>1, ConcatEmptySeq
  <2>4. ParseLines(p, z) = p
    BY ParseLinesNone
  <2>5. Good(z)
    <3> HIDE DEF z, O
    <3> QED BY <2>2, <2>3, <2>4
  <2> HIDE DEF Good
  <2> QED BY <2>1, <2>5
<1>3. ASSUME NEW s \in Seq(TextLines), NEW x \in TextLines, s \in G
      PROVE  Append(s, x) \in G
  <2> DEFINE u == Append(s, x)
             w == <<x>>
             q == ParseLines(p, s)
             o == O(s)
  <2>1. u \in Seq(TextLines) /\ u = s \o w /\ w \in Seq(TextLines)
    BY AppendIsConcat, AppendProperties
  <2>2. ParseLines(p, u) = ParseLine(q, x)
    <3>1. ParseLines(q, w) = ParseLine(q, x)
      BY ParseLinesOne
    <3> HIDE DEF u, w
    <3>2. ParseLines(p, s \o w) = ParseLines(ParseLines(p, s), w)
      BY <2>1, ParseLinesConcat
    <3> QED BY <2>1, <3>1, <3>2
  <2>3. At(t, q, Q, T, c, r \o o)
    BY <1>3
  <2>4. o \in Seq(TextLines) /\ O(u) = IF x.k = "field" THEN Append(o, x) ELSE o
    BY OnlyIs
  <2> HIDE DEF q, o, u, w
  <2>5. At(t, ParseLine(q, x), Q, T, c,
           IF x.k = "field" THEN Append(r \o o, x) ELSE r \o o)
    BY <2>3, AtLine
  <2>6. Append(r \o o, x) = r \o Append(o, x)
    <3>1. o \in Seq(E) /\ x \in E
      <4>1. \A y \in TextLines : y \in E
        OBVIOUS
      <4> HIDE DEF E
      <4> QED BY <2>4, <4>1
    <3> HIDE DEF E
    <3> QED BY ONLY <1>1, <3>1, SMTT(30)
  <2>7. (IF x.k = "field" THEN Append(r \o o, x) ELSE r \o o) = r \o O(u)
    <3> HIDE DEF O
    <3> QED BY <2>4, <2>6
  <2>8. Good(u)
    <3> HIDE DEF O
    <3> QED BY <2>2, <2>5, <2>7
  <2> HIDE DEF Good
  <2> QED BY <2>1, <2>8 DEF u
<1>4. Seq(TextLines) \subseteq G
  <2> HIDE DEF G
  <2> QED BY <1>2, <1>3, SeqInduction
<1>5. Good(lines)
  <2> HIDE DEF Good
  <2> QED BY <1>4
<1> QED BY <1>5

\* A record that has lines has a field.
LEMMA AtRecord ==
  ASSUME NEW t, NEW p, NEW Q, NEW T, NEW c, NEW r, At(t, p, Q, T, c, r)
  PROVE  /\ r = Fields(p.rec) /\ (p.rec = << >> <=> r = << >>)
         /\ (HasField(p.rec, REC) <=> HasField(r, REC))
         /\ TypeIn(p.rec) = TypeIn(r)
<1>1. r = Fields(p.rec) /\ p.rec \in Seq(Items)
  <2>1. r = Fields(p.rec)
    BY DEF At
  <2> QED BY <2>1, AtParts
<1>2. PICK f : Parsed(p, f)
  BY DEF At
<1>3. p.rec # << >> => p.rec[1].k = "field"
  BY <1>2 DEF Parsed
<1>4. p.rec # << >> => r # << >>
  <2> SUFFICES ASSUME p.rec # << >> PROVE r # << >>
    OBVIOUS
  <2> DEFINE s == p.rec
  <2>1. s \in Seq(Items) /\ s # << >> /\ s[1].k = "field"
    BY <1>1, <1>3
  <2> HIDE DEF s
  <2>2. 1 \in DOMAIN s
    BY <2>1, EmptySeq
  <2>3. OnlyFacts(Items, "field", s)
    BY <2>1, OnlyMembers
  <2>4. Only(s, "field") # << >>
    BY <2>1, <2>2, <2>3 DEF OnlyFacts
  <2> QED BY <1>1, <2>4 DEF s, Fields
<1>5. p.rec = << >> => r = << >>
  <2>1. Fields(<< >>) = << >>
    BY EmptySeq, OnlyIs DEF Fields
  <2> QED BY <1>1, <2>1
<1> QED BY <1>1, <1>4, <1>5, TypeInFields

LEMMA AtEnd ==
  ASSUME NEW t, NEW p, NEW Q, NEW T, NEW c, NEW r, At(t, p, Q, T, c, r)
  PROVE  LET q == ParseLine(p, Blank)
         IN (\E f : Parsed(q, f)) /\ q = [EndRecord(p) EXCEPT !.last = FALSE]
            /\ Fields(q.rec) = << >> /\ q.rset \in Rsets
<1> DEFINE q == ParseLine(p, Blank)
<1>1. PICK f : Parsed(p, f)
  BY DEF At
<1>2. Blank \in AllLines /\ Blank.k = "blank"
  BY DEF AllLines, Blank
<1>3. Parsed(q, Append(f, Blank))
  BY <1>1, <1>2, ParseLineParsed
<1>4. q = [EndRecord(p) EXCEPT !.last = FALSE]
  BY <1>1, <1>2 DEF Parsed, ParseLine
<1>5. p \in Parsers
  BY <1>1 DEF Parsed
<1>6. q.rec = << >>
  <2>1. [EndRecord(p) EXCEPT !.last = FALSE].rec = << >>
    BY <1>5, EndRecordIs
  <2> QED BY <1>4, <2>1
<1> HIDE DEF q
<1>7. Fields(q.rec) = << >>
  BY <1>6, EmptySeq, OnlyIs DEF Fields
<1>8. q.rset \in Rsets
  <2>1. q \in Parsers
    BY <1>3 DEF Parsed
  <2> QED BY <2>1, ParserFacts
<1> QED BY <1>3, <1>4, <1>7, <1>8 DEF q

\* The members of a longer record set before its descriptor.
LEMMA HeadedAppend ==
  ASSUME NEW s \in Seq(Elems), NEW e \in Elems, NEW n \in 0..Len(s), Headed(s, n)
  PROVE  Headed(Append(s, e), n)
<1>1. Len(s) \in Nat /\ \A i \in 1..Len(s) : Append(s, e)[i] = s[i]
  BY AppendProperties
<1>2. \A i \in 1..n : i \in 1..Len(s)
  BY <1>1
<1> QED BY <1>1, <1>2 DEF Headed

\* An empty line ends the record.
LEMMA AtBlank ==
  ASSUME NEW t, NEW p, NEW Q, NEW T, NEW c, NEW r, At(t, p, Q, T, c, r),
         ~HasField(r, REC)
  PROVE  At(t, ParseLine(p, Blank),
            Q \o (IF c = t /\ r # << >> THEN <<r>> ELSE << >>), T, c, << >>)
<1> DEFINE q == ParseLine(p, Blank)
           x == p.rset
           s == x.elems
           R == IF c = t /\ r # << >> THEN <<r>> ELSE << >>
<1>1. /\ p \in Parsers /\ x \in Rsets /\ p.rec \in Seq(Items) /\ Sound(x)
      /\ RecordsIn(x, t) \in Seq(Seq(Items)) /\ RsetType(x) = c
  <2>1. RsetType(x) = c
    BY DEF At
  <2> QED BY <2>1, AtParts
<1>2. /\ s \in Seq(Elems) /\ x.dpos \in 0..Len(s)
  <2>1. /\ s \in Seq(Elems) /\ x.dpos \in Nat /\ Len(s) \in Nat
        /\ x.dpos <= Len(s)
    BY <1>1, RsetFacts
  <2> QED BY <2>1
<1>3. /\ r = Fields(p.rec) /\ (p.rec = << >> <=> r = << >>)
      /\ ~HasField(p.rec, REC)
  BY AtRecord
<1>4. PICK f : Parsed(q, f)
  BY AtEnd
<1>5. /\ q = [EndRecord(p) EXCEPT !.last = FALSE]
      /\ Fields(q.rec) = << >> /\ q.rset \in Rsets
  BY AtEnd
<1> HIDE DEF q
<1>6. /\ q.out = p.out
      /\ \/ p.rec = << >> /\ q.rset = x
         \/ /\ p.rec # << >> /\ q.rset.desc = x.desc /\ q.rset.dpos = x.dpos
            /\ q.rset.elems = Append(s, Record(p.rec))
  BY <1>1, <1>3, <1>5, EndRecordIs
<1>7. R \in Seq(Seq(Items))
  <2>1. r \in Seq(Items)
    BY <1>1, <1>3, OnlyIs DEF Fields
  <2>2. <<r>> \in Seq(Seq(Items)) /\ << >> \in Seq(Seq(Items))
    BY <2>1, EmptySeq
  <2> QED BY <2>2
<1> HIDE DEF x, s, R
<1>8. /\ RsetType(q.rset) = RsetType(x) /\ Sound(q.rset)
      /\ RecordsIn(q.rset, t) = RecordsIn(x, t) \o R
  <2>1. CASE p.rec = << >>
    <3>1. R = << >> /\ q.rset = x
      BY <1>3, <1>6, <2>1 DEF R
    <3> QED BY <1>1, <3>1, ConcatEmptySeq
  <2>2. CASE p.rec # << >>
    <3> DEFINE e == Record(p.rec)
               y == q.rset
    <3>1. y.desc = x.desc /\ y.dpos = x.dpos /\ y.elems = Append(s, e)
      BY <1>6, <2>2
    <3>2. e \in Elems /\ e.k = "record" /\ e.items = p.rec
      BY <1>1, RecordElem DEF Record
    <3> HIDE DEF y, e
    <3>3. RsetType(y) = RsetType(x)
      BY <3>1 DEF RsetType
    <3>4. Headed(s, x.dpos) /\ NoType(s)
      BY <1>1 DEF Sound, s
    <3>5. Sound(y)
      <4>1. Headed(Append(s, e), x.dpos)
        BY <1>2, <3>2, <3>4, HeadedAppend
      <4>2. NoType(Append(s, e))
        BY <1>2, <1>3, <3>2, <3>4, NoTypeAppend
      <4> QED BY <3>1, <4>1, <4>2 DEF Sound
    <3>6. FieldsOf(Append(s, e)) = FieldsOf(s) \o <<r>>
      <4>1. FieldsIn(e) = <<r>>
        BY <1>3, <2>2, <3>2 DEF FieldsIn
      <4>2. FieldsOf(Append(s, e)) = FieldsOf(s) \o FieldsIn(e)
        BY <1>2, <3>2, FieldsOfIs
      <4> QED BY <4>1, <4>2
    <3>7. RecordsIn(y, t) = RecordsIn(x, t) \o R
      <4>1. CASE c = t
        <5>1. R = <<r>> /\ RecordsIn(x, t) = FieldsOf(s)
              /\ RecordsIn(y, t) = FieldsOf(Append(s, e))
          BY <1>1, <1>3, <2>2, <3>1, <3>3, <4>1 DEF R, RecordsIn, s
        <5> QED BY <3>6, <5>1
      <4>2. CASE c # t
        <5>1. R = << >> /\ RecordsIn(x, t) = << >> /\ RecordsIn(y, t) = << >>
          BY <1>1, <3>3, <4>2 DEF R, RecordsIn
        <5> QED BY <1>1, <5>1, ConcatEmptySeq
      <4> QED BY <4>1, <4>2
    <3> QED BY <3>3, <3>5, <3>7 DEF y
  <2> QED BY <2>1, <2>2
<1>9. At(t, q, Q \o R, T, c, Fields(q.rec))
  <2>1. /\ q.out = p.out /\ RsetType(q.rset) = RsetType(p.rset) /\ Sound(q.rset)
        /\ RecordsIn(q.rset, t) = RecordsIn(p.rset, t) \o R
    BY <1>6, <1>8 DEF x
  <2> QED BY <1>4, <1>7, <2>1, AtLast
<1> QED BY <1>5, <1>9 DEF q, R

\* An empty line ends a descriptor: a record set of a new type begins, or
\* the one read so far has its descriptor.
LEMMA AtType ==
  ASSUME NEW t, NEW p, NEW Q, NEW T, NEW c, NEW r, At(t, p, Q, T, c, r),
         HasField(r, REC), TypeIn(r) \notin T
  PROVE  At(t, ParseLine(p, Blank), Q, T \cup {TypeIn(r)}, TypeIn(r), << >>)
<1> DEFINE q == ParseLine(p, Blank)
           x == p.rset
           s == x.elems
           y == q.rset
           V == T \cup {TypeIn(r)}
<1>1. /\ p \in Parsers /\ p.out \in Seq(Rsets) /\ x \in Rsets
      /\ p.rec \in Seq(Items) /\ Sound(x)
      /\ RecordsOf(p.out, t) \in Seq(Seq(Items))
      /\ RecordsIn(x, t) \in Seq(Seq(Items))
      /\ Q = RecordsOf(p.out, t) \o RecordsIn(x, t)
      /\ Q \in Seq(Seq(Items))
  BY AtParts
<1>2. Fine(Append(p.out, x), T) /\ RecordsOf(Append(p.out, x), t) = Q
  BY DEF At, View
<1>3. /\ s \in Seq(Elems) /\ x.dpos \in Nat /\ Len(s) \in Nat
  BY <1>1, RsetFacts
<1>4. /\ r = Fields(p.rec) /\ p.rec # << >> /\ HasField(p.rec, REC)
      /\ TypeIn(p.rec) = TypeIn(r)
  <2>1. r # << >>
    <3> DEFINE z == << >>
    <3>1. ~HasField(z, REC)
      BY DEF HasField
    <3> HIDE DEF z
    <3> QED BY <3>1 DEF z
  <2> QED BY <2>1, AtRecord
<1>5. PICK f : Parsed(q, f)
  BY AtEnd
<1>6. /\ q = [EndRecord(p) EXCEPT !.last = FALSE]
      /\ Fields(q.rec) = << >> /\ y \in Rsets
  BY AtEnd
<1> HIDE DEF q
<1>7. \/ /\ q.out = p.out /\ NumRecords(x) = 0 /\ x.desc = None
         /\ y.desc = p.rec /\ y.dpos = Len(s) /\ y.elems = s
      \/ /\ q.out = Append(p.out, x) /\ y.desc = p.rec /\ y.dpos = 0
         /\ y.elems = << >>
  BY <1>1, <1>4, <1>6, EndRecordIs
<1> HIDE DEF x, s, y
<1>8. y.desc = p.rec /\ RsetType(y) = TypeIn(r) /\ RsetType(y) \notin T
  <2>1. y.desc = p.rec
    BY <1>7
  <2>2. p.rec # None
    BY <1>1, RecTextAssumption
  <2>3. RsetType(y) = TypeIn(y.desc)
    BY <1>6, <2>1, <2>2, RsetTypeIs
  <2> QED BY <1>4, <2>1, <2>3
<1>9. Fine(View(q), V) /\ RecordsOf(View(q), t) = Q
  <2>1. CASE q.out = p.out /\ NumRecords(x) = 0 /\ x.desc = None
             /\ y.dpos = Len(s) /\ y.elems = s
    <3>1. p.out = << >>
      <4>1. PICK g : Parsed(p, g)
        BY DEF At
      <4>2. p.out # << >> => x.desc # None
        BY <4>1 DEF Parsed, Described, x
      <4> QED BY <2>1, <4>2
    <3>2. \A i \in 1..Len(s) : s[i].k = "comment"
      <4>1. ~HasRecord(s)
        BY <1>1, <2>1, NumRecordsIs DEF s
      <4>2. \A i \in 1..Len(s) : s[i] \in Elems /\ s[i].k # "record"
        BY <1>3, <4>1 DEF HasRecord
      <4> QED BY <4>2 DEF Elems
    <3>3. Sound(y)
      <4>1. Headed(s, Len(s)) /\ NoType(s)
        BY <1>1, <3>2 DEF Headed, Sound, s
      <4> QED BY <2>1, <4>1 DEF Sound
    <3>4. FieldsOf(s) = << >>
      BY <1>3, <3>2, FieldsOfIs
    <3>5. RecordsIn(x, t) = << >> /\ RecordsIn(y, t) = << >>
      BY <2>1, <3>4 DEF RecordsIn, s
    <3> DEFINE e == << >>
    <3>6. e \in Seq(Rsets) /\ RecordsOf(e, t) = << >> /\ Q = e
      <4>1. e \in Seq(Rsets)
        BY EmptySeq
      <4>2. RecordsOf(e, t) = << >>
        BY <4>1, RecordsOfIs
      <4>3. << >> \o << >> = << >>
        BY <4>1, ConcatEmptySeq
      <4> QED BY <1>1, <3>1, <3>5, <4>1, <4>2, <4>3
    <3>7. View(q) = Append(e, y)
      BY <2>1, <3>1 DEF View, y
    <3>8. Fine(Append(e, y), V)
      <4>1. Fine(e, T)
        BY DEF Fine
      <4> HIDE DEF e
      <4>2. Fine(Append(e, y), T \cup {RsetType(y)})
        BY <1>6, <1>8, <3>3, <3>6, <4>1, FineAppend
      <4> QED BY <1>8, <4>2
    <3>9. RecordsOf(Append(e, y), t) = << >>
      <4> HIDE DEF e
      <4>1. RecordsOf(Append(e, y), t) = RecordsOf(e, t) \o RecordsIn(y, t)
        BY <1>6, <3>6, RecordsOfIs
      <4>2. e \o e = e
        BY <3>6, ConcatEmptySeq DEF e
      <4> QED BY <3>5, <3>6, <4>1, <4>2 DEF e
    <3> QED BY <3>6, <3>7, <3>8, <3>9
  <2>2. CASE q.out = Append(p.out, x) /\ y.dpos = 0 /\ y.elems = << >>
    <3> DEFINE o == Append(p.out, x)
    <3>1. o \in Seq(Rsets) /\ View(q) = Append(o, y) /\ Fine(o, T)
          /\ RecordsOf(o, t) = Q
      <4>1. o \in Seq(Rsets)
        BY <1>1, AppendProperties
      <4> QED BY <1>2, <2>2, <4>1 DEF View, y
    <3> HIDE DEF o
    <3>2. Sound(y) /\ FieldsOf(y.elems) = << >>
      <4>1. Sound(y)
        BY <2>2 DEF Sound, Headed, NoType
      <4> QED BY <2>2, <4>1, FieldsOfIs
    <3>3. Fine(Append(o, y), T \cup {RsetType(y)})
      BY <1>6, <1>8, <3>1, <3>2, FineAppend
    <3>4. RecordsOf(Append(o, y), t) = Q \o RecordsIn(y, t)
      BY <1>6, <3>1, RecordsOfIs
    <3>5. RecordsIn(y, t) = << >>
      BY <3>2 DEF RecordsIn
    <3> QED BY <1>1, <1>8, <3>1, <3>3, <3>4, <3>5, ConcatEmptySeq
  <2> QED BY <1>7, <2>1, <2>2
<1>10. At(t, q, Q, V, TypeIn(r), << >>)
  BY <1>5, <1>6, <1>8, <1>9 DEF At, y
<1> QED BY <1>10 DEF q, V

---------------------------------------------------------------------------
(* The text of an element, of a descriptor and of a record set *)

Turns(t, w, Q, T, c, Q1, T1, c1) ==
  \A p : At(t, p, Q, T, c, << >>) =>
           At(t, ParseLines(p, w), Q1, T1, c1, << >>)

LEMMA TurnsJoin ==
  ASSUME NEW t, NEW w \in Seq(AllLines), NEW v \in Seq(AllLines),
         NEW Q, NEW T, NEW c, NEW Q1, NEW T1, NEW c1, NEW Q2, NEW T2, NEW c2,
         Turns(t, w, Q, T, c, Q1, T1, c1), Turns(t, v, Q1, T1, c1, Q2, T2, c2)
  PROVE  Turns(t, w \o v, Q, T, c, Q2, T2, c2)
<1>1. \A p : ParseLines(p, w \o v) = ParseLines(ParseLines(p, w), v)
  BY ParseLinesConcat
<1> QED BY <1>1 DEF Turns

LEMMA LinesBlank ==
  ASSUME NEW w \in Seq(AllLines), NEW p
  PROVE  /\ w \o <<Blank>> \in Seq(AllLines)
         /\ ParseLines(p, w \o <<Blank>>) = ParseLine(ParseLines(p, w), Blank)
<1> DEFINE b == <<Blank>>
<1>1. b \in Seq(AllLines)
  BY BlankIsLine, NonBlankOne
<1>2. \A q : ParseLines(q, b) = ParseLine(q, Blank)
  BY ParseLinesOne
<1> HIDE DEF b
<1>3. ParseLines(p, w \o b) = ParseLines(ParseLines(p, w), b)
  BY <1>1, ParseLinesConcat
<1>4. w \o b \in Seq(AllLines)
  BY <1>1, ConcatProperties
<1> QED BY <1>2, <1>3, <1>4 DEF b

\* The lines of a record are read as a record with its fields.
LEMMA AtRecordText ==
  ASSUME NEW t, NEW p, NEW Q, NEW T, NEW c, At(t, p, Q, T, c, << >>),
         NEW items \in Seq(Items)
  PROVE  At(t, ParseLines(p, WriteRecord(items)), Q, T, c, Fields(items))
<1>1. CASE items = << >>
  <2>1. WriteRecord(items) = <<Blank>>
    BY <1>1 DEF WriteRecord
  <2>2. ParseLines(p, <<Blank>>) = ParseLine(p, Blank)
    BY ParseLinesOne
  <2> DEFINE z == << >>
  <2>3. ~HasField(z, REC)
    BY DEF HasField
  <2>4. z = << >>
    OBVIOUS
  <2> HIDE DEF z
  <2>5. At(t, ParseLine(p, Blank),
           Q \o (IF c = t /\ z # << >> THEN <<z>> ELSE << >>), T, c, << >>)
    <3>1. At(t, p, Q, T, c, z)
      BY <2>4
    <3> QED BY <2>3, <3>1, AtBlank
  <2>6. Q \o << >> = Q
    <3>1. Q \in Seq(Seq(Items))
      BY AtParts
    <3> QED BY <3>1, ConcatEmptySeq
  <2>7. Fields(items) = << >>
    BY <1>1, EmptySeq, OnlyIs DEF Fields
  <2>8. At(t, ParseLine(p, Blank), Q, T, c, << >>)
    BY <2>4, <2>5, <2>6
  <2> QED BY <2>1, <2>2, <2>7, <2>8
<1>2. CASE items # << >>
  <2> DEFINE w == WriteRecord(items)
             o == Only(w, "field")
  <2>1. w \in Seq(TextLines) /\ o = Fields(items)
    BY <1>2, RecordFields
  <2>2. At(t, ParseLines(p, w), Q, T, c, << >> \o o)
    <3> HIDE DEF w
    <3> QED BY <2>1, AtText
  <2>3. << >> \o o = o
    <3>1. o \in Seq(Items)
      BY <2>1, OnlyIs DEF Fields
    <3> HIDE DEF o
    <3> QED BY <3>1, ConcatEmptySeq
  <2> QED BY <2>1, <2>2, <2>3
<1> QED BY <1>1, <1>2

LEMMA ElemTurns ==
  ASSUME NEW t, NEW T, NEW c, NEW Q \in Seq(Seq(Items)), NEW e \in Elems,
         e.k = "record" => ~HasField(e.items, REC)
  PROVE  Turns(t, WriteElem(e) \o <<Blank>>, Q, T, c,
               Q \o (IF c = t THEN FieldsIn(e) ELSE << >>), T, c)
<1> DEFINE w == WriteElem(e)
           r == IF e.k = "record" THEN Fields(e.items) ELSE << >>
           R == IF c = t THEN FieldsIn(e) ELSE << >>
<1>1. w \in Seq(AllLines)
  BY ElemLines
<1>2. ~HasField(r, REC)
  <2>1. CASE e.k = "record"
    <3>1. e.items \in Seq(Items)
      BY <2>1 DEF Elems
    <3>2. r = Fields(e.items)
      BY <2>1
    <3> QED BY <2>1, <3>1, <3>2, TypeInFields
  <2>2. CASE e.k # "record"
    <3> DEFINE z == << >>
    <3>1. ~HasField(z, REC)
      BY DEF HasField
    <3>2. r = z
      BY <2>2
    <3> HIDE DEF z, r
    <3> QED BY <3>1, <3>2
  <2> QED BY <2>1, <2>2
<1>3. R = IF c = t /\ r # << >> THEN <<r>> ELSE << >>
  BY DEF FieldsIn
<1>4. ASSUME NEW p, At(t, p, Q, T, c, << >>)
      PROVE  At(t, ParseLines(p, w), Q, T, c, r)
  <2>1. CASE e.k = "record"
    <3>1. e.items \in Seq(Items)
      BY <2>1 DEF Elems
    <3>2. w = WriteRecord(e.items) /\ r = Fields(e.items)
      BY <2>1 DEF WriteElem
    <3> HIDE DEF w, r
    <3> QED BY <1>4, <3>1, <3>2, AtRecordText
  <2>2. CASE e.k # "record"
    <3>1. e \in [k : {"comment"}, texts : Seq(Contents)] /\ e.k = "comment"
      BY <2>2 DEF Elems
    <3>2. e \in Items /\ w = WriteItem(e)
      BY <3>1, ElemComment
    <3>3. w \in Seq(TextLines) /\ Only(w, "field") = << >>
      BY <3>1, <3>2, ItemLinesAre
    <3> DEFINE o == Only(w, "field")
    <3>4. At(t, ParseLines(p, w), Q, T, c, << >> \o o)
      <4> HIDE DEF w
      <4> QED BY <1>4, <3>3, AtText
    <3>5. << >> \o o = r
      <4>1. o = << >> /\ r = << >>
        BY <2>2, <3>3
      <4>2. << >> \o << >> = << >>
        BY EmptySeq, ConcatEmptySeq
      <4> QED BY <4>1, <4>2
    <3> QED BY <3>4, <3>5
  <2> QED BY <2>1, <2>2
<1> HIDE DEF w, r, R
<1>5. ASSUME NEW p, At(t, p, Q, T, c, << >>)
      PROVE  At(t, ParseLines(p, w \o <<Blank>>), Q \o R, T, c, << >>)
  <2>1. At(t, ParseLines(p, w), Q, T, c, r)
    BY <1>4, <1>5
  <2>2. At(t, ParseLine(ParseLines(p, w), Blank), Q \o R, T, c, << >>)
    BY <1>2, <1>3, <2>1, AtBlank
  <2> QED BY <1>1, <2>2, LinesBlank
<1> QED BY <1>5 DEF Turns, w, R

LEMMA DescTurns ==
  ASSUME NEW t, NEW T, NEW c, NEW Q, NEW d \in Seq(Items),
         HasField(d, REC), TypeIn(d) \notin T
  PROVE  Turns(t, WriteRecord(d) \o <<Blank>>, Q, T, c,
               Q, T \cup {TypeIn(d)}, TypeIn(d))
<1> DEFINE w == WriteRecord(d)
           r == Fields(d)
<1>1. w \in Seq(AllLines)
  BY RecordLinesAre
<1>2. HasField(r, REC) /\ TypeIn(r) = TypeIn(d)
  BY TypeInFields
<1>3. ASSUME NEW p, At(t, p, Q, T, c, << >>)
      PROVE  At(t, ParseLines(p, w \o <<Blank>>), Q, T \cup {TypeIn(d)},
                TypeIn(d), << >>)
  <2>1. At(t, ParseLines(p, w), Q, T, c, r)
    BY <1>3, AtRecordText
  <2> HIDE DEF w, r
  <2>2. At(t, ParseLine(ParseLines(p, w), Blank), Q, T \cup {TypeIn(r)},
           TypeIn(r), << >>)
    BY <1>2, <2>1, AtType
  <2> QED BY <1>1, <1>2, <2>2, LinesBlank
<1> QED BY <1>3 DEF Turns

LEMMA TextLinesAre ==
  ASSUME NEW d, d # None => d \in Seq(Items), NEW s \in Seq(Elems), NEW n
  PROVE  /\ WriteRset(RsetOf(d, n, s)) \in Seq(AllLines)
         /\ RsetText(RsetOf(d, n, s)) \in Seq(AllLines)
         /\ DescOver(Contents, d) /\ s \in Seq(ElemsOver(Contents))
<1>1. DescOver(Contents, d) /\ s \in Seq(ElemsOver(Contents))
  BY MembersOver DEF DescOver
<1>2. \A x \in LinesOver(Contents) : x \in AllLines
  BY DEF LinesOver, AllLines
<1> DEFINE w == WriteRset(RsetOf(d, n, s))
           v == RsetText(RsetOf(d, n, s))
           L == LinesOver(Contents)
<1>3. w \in Seq(L) /\ v \in Seq(L)
  BY <1>1, TextOver
<1> HIDE DEF w, v, L
<1>4. w \in Seq(AllLines) /\ v \in Seq(AllLines)
  BY <1>2, <1>3 DEF L
<1> QED BY <1>1, <1>4 DEF w, v

Added(Q, c, t, u) == Q \o (IF c = t THEN FieldsOf(u) ELSE << >>)

LEMMA NoneAdded ==
  ASSUME NEW Q \in Seq(Seq(Items)), NEW c, NEW t, NEW u \in Seq(Elems),
         \A j \in 1..Len(u) : u[j].k = "comment"
  PROVE  Added(Q, c, t, u) = Q
  BY FieldsOfIs, ConcatEmptySeq DEF Added

LEMMA AddedIs ==
  ASSUME NEW Q \in Seq(Seq(Items)), NEW c, NEW t, NEW u \in Seq(Elems),
         NEW e \in Elems
  PROVE  /\ Added(Q, c, t, u) \in Seq(Seq(Items))
         /\ Added(Q, c, t, Append(u, e)) =
              Added(Q, c, t, u) \o (IF c = t THEN FieldsIn(e) ELSE << >>)
<1> DEFINE S == Seq(Items)
           E == << >>
           A == FieldsOf(u)
<1>1. /\ A \in Seq(S) /\ E \in Seq(S)
      /\ FieldsOf(Append(u, e)) = A \o FieldsIn(e)
  BY FieldsOfIs, EmptySeq
<1>2. FieldsIn(e) \in Seq(S)
  <2> DEFINE y == Fields(e.items)
  <2>1. CASE e.k = "record"
    <3>1. e.items \in Seq(Items)
      BY <2>1 DEF Elems
    <3>2. y \in S
      BY <3>1, OnlyIs DEF Fields
    <3> HIDE DEF y, S
    <3>3. <<y>> \in Seq(S)
      BY <3>2
    <3> QED BY <1>1, <3>3 DEF FieldsIn, y
  <2>2. CASE e.k # "record"
    BY <1>1, <2>2 DEF FieldsIn
  <2> QED BY <2>1, <2>2
<1>3. Q \in Seq(S)
  OBVIOUS
<1> HIDE DEF S, A
<1>4. \A a, b \in Seq(S) : a \o b \in Seq(S)
  BY ConcatProperties
<1>5. \A a \in Seq(S) : a \o E = a
  BY ConcatEmptySeq
<1>6. \A a, b, z \in Seq(S) : (a \o b) \o z = a \o (b \o z)
  BY ConcatAssociative, SMTT(60)
<1>7. Added(Q, c, t, u) = IF c = t THEN Q \o A ELSE Q
  BY <1>3, <1>5 DEF Added, A
<1>8. Added(Q, c, t, Append(u, e)) =
        IF c = t THEN Q \o (A \o FieldsIn(e)) ELSE Q
  BY <1>1, <1>3, <1>5 DEF Added, A
<1> HIDE DEF E
<1>9. Added(Q, c, t, u) \in Seq(S)
  BY <1>1, <1>3, <1>4, <1>7
<1>11. Added(Q, c, t, Append(u, e)) =
         Added(Q, c, t, u) \o (IF c = t THEN FieldsIn(e) ELSE << >>)
  <2>1. CASE c = t
    <3>1. (Q \o A) \o FieldsIn(e) = Q \o (A \o FieldsIn(e))
      BY <1>1, <1>2, <1>3, <1>6
    <3> QED BY <1>7, <1>8, <2>1, <3>1
  <2>2. CASE c # t
    BY <1>3, <1>5, <1>7, <1>8, <2>2 DEF E
  <2> QED BY <2>1, <2>2
<1> QED BY <1>9, <1>11 DEF S

\* The elements that follow a part of a record set that has been read.
LEMMA RestTurns ==
  ASSUME NEW t, NEW d, d # None => d \in Seq(Items), NEW s \in Seq(Elems),
         NEW n \in 0..Len(s), NEW Q0, NEW T0, NEW c0,
         NEW Q \in Seq(Seq(Items)), NEW T, NEW c,
         Turns(t, RsetText(RsetOf(d, n, s)), Q0, T0, c0, Q, T, c)
  PROVE  \A u \in Seq(Elems) : NoType(u) =>
           Turns(t, RsetText(RsetOf(d, n, s \o u)), Q0, T0, c0,
                 Added(Q, c, t, u), T, c)
<1> DEFINE Good(u) == NoType(u) =>
             Turns(t, RsetText(RsetOf(d, n, s \o u)), Q0, T0, c0,
                   Added(Q, c, t, u), T, c)
           G == {u \in Seq(Elems) : Good(u)}
<1>1. << >> \in G
  <2> DEFINE z == << >>
  <2>1. z \in Seq(Elems) /\ s \o z = s
    BY ConcatEmptySeq, EmptySeq
  <2>2. \A j \in 1..Len(z) : z[j].k = "comment"
    OBVIOUS
  <2> HIDE DEF z
  <2>3. Added(Q, c, t, z) = Q
    BY <2>1, <2>2, NoneAdded
  <2>4. Good(z)
    BY <2>1, <2>3
  <2> HIDE DEF Good
  <2> QED BY <2>1, <2>4 DEF z
<1>2. ASSUME NEW v \in Seq(Elems), NEW e \in Elems, v \in G
      PROVE  Append(v, e) \in G
  <2> DEFINE u == Append(v, e)
             y == s \o v
             w == RsetText(RsetOf(d, n, y))
             x == WriteElem(e) \o <<Blank>>
             Q1 == Added(Q, c, t, v)
  <2>1. u \in Seq(Elems) /\ s \o u = Append(y, e) /\ y \in Seq(Elems)
        /\ n \in 0..Len(y)
    OBVIOUS
  <2> SUFFICES ASSUME NoType(u) PROVE Good(u)
    BY <2>1
  <2>2. NoType(v) /\ (e.k = "record" => ~HasField(e.items, REC))
    BY NoTypeAppend
  <2>3. Turns(t, w, Q0, T0, c0, Q1, T, c)
    <3>1. Good(v)
      <4> HIDE DEF Good
      <4> QED BY <1>2
    <3> QED BY <2>2, <3>1
  <2> HIDE DEF y, u
  <2>4. RsetText(RsetOf(d, n, Append(y, e))) = w \o x
    <3>1. DescOver(Contents, d) /\ y \in Seq(ElemsOver(Contents))
      BY <2>1, TextLinesAre
    <3>2. e \in ElemsOver(Contents)
      BY MembersOver DEF Elems, ElemsOver
    <3> HIDE DEF w, x
    <3>3. RsetText(RsetOf(d, n, Append(y, e))) =
            RsetText(RsetOf(d, n, y)) \o (WriteElem(e) \o <<Blank>>)
      <4>1. /\ DescOver(Contents, d) /\ y \in Seq(ElemsOver(Contents))
            /\ n \in 0..Len(y) /\ e \in ElemsOver(Contents)
        BY <2>1, <3>1, <3>2
      <4>2. RsetText(RsetOf(d, n, Append(y, e))) =
              RsetText(RsetOf(d, n, y)) \o (WriteElem(e) \o <<Blank>>)
        BY <4>1, TextAppend
      <4> QED BY <4>2
    <3> QED BY <3>3 DEF w, x
  <2>5. w \in Seq(AllLines) /\ x \in Seq(AllLines)
    <3>1. w \in Seq(AllLines)
      BY <2>1, TextLinesAre
    <3>2. WriteElem(e) \in Seq(AllLines)
      BY ElemLines
    <3> QED BY <3>1, <3>2, LinesBlank
  <2>6. Q1 \in Seq(Seq(Items))
        /\ Added(Q, c, t, u) = Q1 \o (IF c = t THEN FieldsIn(e) ELSE << >>)
    BY AddedIs DEF u
  <2> HIDE DEF w, x, Q1
  <2>7. Turns(t, x, Q1, T, c, Added(Q, c, t, u), T, c)
    BY <2>2, <2>6, ElemTurns DEF x
  <2>8. Turns(t, w \o x, Q0, T0, c0, Added(Q, c, t, u), T, c)
    BY <2>3, <2>5, <2>7, TurnsJoin
  <2> QED BY <2>1, <2>4, <2>8 DEF u
<1>3. Seq(Elems) \subseteq G
  <2> HIDE DEF G
  <2> QED BY <1>1, <1>2, SeqInduction
<1> QED BY <1>3

\* Without a descriptor, and with it.
LEMMA PlainTurns ==
  ASSUME NEW t, NEW Q \in Seq(Seq(Items)), NEW T, NEW c, NEW u \in Seq(Elems),
         NoType(u)
  PROVE  Turns(t, RsetText(RsetOf(None, 0, u)), Q, T, c, Added(Q, c, t, u), T, c)
<1> DEFINE z == << >>
           d == None
           n == 0
<1>1. z \in Seq(Elems) /\ n \in 0..Len(z) /\ z \o u = u
  BY EmptySeq, ConcatEmptySeq
<1>2. RsetText(RsetOf(None, 0, z)) = << >>
  BY DEF RsetText, RsetOf
<1>3. \A p : ParseLines(p, << >>) = p
  BY ParseLinesNone
<1> HIDE DEF z, n
<1>4. Turns(t, RsetText(RsetOf(d, n, z)), Q, T, c, Q, T, c)
  BY <1>2, <1>3 DEF Turns, n
<1>5. \A v \in Seq(Elems) : NoType(v) =>
        Turns(t, RsetText(RsetOf(d, n, z \o v)), Q, T, c, Added(Q, c, t, v), T, c)
  <2>1. d # None => d \in Seq(Items)
    OBVIOUS
  <2> HIDE DEF d
  <2> QED BY <1>1, <1>4, <2>1, RestTurns
<1> QED BY <1>1, <1>5 DEF n

LEMMA PlainText ==
  ASSUME NEW s, NEW n
  PROVE  /\ WriteRset(RsetOf(None, n, s)) = WriteRset(RsetOf(None, 0, s))
         /\ RsetText(RsetOf(None, n, s)) = RsetText(RsetOf(None, 0, s))
<1> DEFINE r == RsetOf(None, n, s)
           q == RsetOf(None, 0, s)
<1>1. r.desc = None /\ q.desc = None /\ r.elems = s /\ q.elems = s
  BY DEF RsetOf
<1> HIDE DEF r, q
<1>2. \A i : DescAt(r, i) = << >> /\ DescAt(q, i) = << >>
  BY <1>1 DEF DescAt
<1>3. RsetMap(r) = RsetMap(q)
  BY <1>1, <1>2 DEF RsetMap, Here
<1>4. WriteRset(r) = FlattenSeq(RsetMap(r)) /\ WriteRset(q) = FlattenSeq(RsetMap(q))
  BY <1>1, WriteRsetIs
<1>5. RsetText(r) = RsetText(q)
  BY <1>1, <1>3, <1>4 DEF RsetText
<1> QED BY <1>3, <1>4, <1>5 DEF r, q

LEMMA DescribedTurns ==
  ASSUME NEW t, NEW Q \in Seq(Seq(Items)), NEW T, NEW c,
         NEW r \in Rsets, Sound(r), r.desc # None, RsetType(r) \notin T
  PROVE  Turns(t, RsetText(r), Q, T, c, Q \o RecordsIn(r, t),
               T \cup {RsetType(r)}, RsetType(r))
<1> DEFINE d == r.desc
           n == r.dpos
           u == r.elems
           s == SubSeq(u, 1, n)
           v == SubSeq(u, n + 1, Len(u))
           k == RsetType(r)
           V == T \cup {k}
<1>1. /\ u \in Seq(Elems) /\ n \in 0..Len(u) /\ d \in Seq(Items) /\ HasField(d, REC)
      /\ d # None /\ k = TypeIn(d) /\ k \notin T
  <2>1. /\ u \in Seq(Elems) /\ n \in Nat /\ Len(u) \in Nat /\ n <= Len(u)
        /\ d \in Seq(Items) /\ HasField(d, REC)
    BY RsetFacts
  <2> QED BY <2>1, RsetTypeIs
<1>2. r = RsetOf(d, n, u)
  BY RsetFacts DEF RsetOf
<1>3. Headed(u, n) /\ NoType(u)
  BY DEF Sound
<1>4. RecordsIn(r, t) = IF k = t THEN FieldsOf(u) ELSE << >>
  BY DEF RecordsIn
<1> HIDE DEF d, n, u, k
<1>5. /\ s \in Seq(Elems) /\ v \in Seq(Elems) /\ Len(s) = n /\ s \o v = u
      /\ \A i \in DOMAIN s : s[i] = u[i] /\ i \in 1..n
      /\ \A i \in DOMAIN v : v[i] = u[n + i] /\ n + i \in DOMAIN u
  <2> DEFINE E == Elems
  <2>1. u \in Seq(E) /\ n \in 0..Len(u)
    BY <1>1
  <2> HIDE DEF E
  <2>2. s \in Seq(E) /\ v \in Seq(E) /\ Len(s) = n /\ s \o v = u
    BY ONLY <2>1, SplitAt
  <2>3. \A i \in DOMAIN s : s[i] = u[i] /\ i \in 1..n
    BY ONLY <2>1, SplitAt
  <2>4. \A i \in DOMAIN v : v[i] = u[n + i] /\ n + i \in DOMAIN u
    BY ONLY <2>1, SplitAt
  <2> QED BY <2>2, <2>3, <2>4 DEF E
<1> HIDE DEF s, v
<1>6. /\ NoType(s) /\ NoType(v) /\ \A i \in 1..Len(s) : s[i].k = "comment"
  <2>1. \A i \in 1..Len(s) : s[i].k = "comment"
    BY <1>3, <1>5, SMTT(30) DEF Headed
  <2>2. NoType(s)
    BY <2>1 DEF NoType
  <2>3. DOMAIN u = 1..Len(u) /\ DOMAIN v = 1..Len(v)
    BY <1>1, <1>5
  <2>4. NoType(v)
    BY <1>3, <1>5, <2>3, SMTT(30) DEF NoType
  <2> QED BY <2>1, <2>2, <2>4
<1>7. Added(Q, k, t, v) = Q \o RecordsIn(r, t)
  <2> DEFINE A == FieldsOf(s)
             B == FieldsOf(v)
  <2>1. FieldsOf(u) = A \o B /\ A = << >> /\ B \in Seq(Seq(Items))
    <3>1. FieldsOf(s \o v) = A \o B
      BY <1>5, FieldsOfIs
    <3>2. A = << >>
      BY <1>5, <1>6, FieldsOfIs
    <3>3. B \in Seq(Seq(Items))
      BY <1>5, FieldsOfIs
    <3> QED BY <1>5, <3>1, <3>2, <3>3
  <2>2. FieldsOf(u) = B
    BY <2>1, ConcatEmptySeq
  <2> QED BY <1>4, <2>2 DEF Added
<1> DEFINE a == RsetText(RsetOf(None, 0, s))
           b == WriteRecord(d) \o <<Blank>>
<1>8. RsetText(RsetOf(d, n, s)) = a \o b
  <2>1. d \in Seq(ItemsOver(Contents)) /\ s \in Seq(ElemsOver(Contents))
    BY <1>1, <1>5, MembersOver
  <2>2. RsetText(RsetOf(d, Len(s), s)) = a \o b
    BY <1>1, <2>1, TextDescribed
  <2> QED BY <1>5, <2>2
<1>9. a \in Seq(AllLines) /\ b \in Seq(AllLines)
  <2>1. a \in Seq(AllLines)
    <3> DEFINE e == None
    <3>1. e # None => e \in Seq(Items)
      OBVIOUS
    <3>2. e = None
      OBVIOUS
    <3> HIDE DEF e
    <3>3. RsetText(RsetOf(e, 0, s)) \in Seq(AllLines)
      BY <1>5, <3>1, TextLinesAre
    <3> QED BY <3>2, <3>3
  <2>2. WriteRecord(d) \in Seq(AllLines)
    BY <1>1, RecordLinesAre
  <2>3. b \in Seq(AllLines)
    BY <2>2, LinesBlank
  <2> QED BY <2>1, <2>3
<1>10. Turns(t, a, Q, T, c, Q, T, c)
  <2>1. Added(Q, c, t, s) = Q
    BY <1>5, <1>6, NoneAdded, Z3T(30)
  <2>2. Turns(t, a, Q, T, c, Added(Q, c, t, s), T, c)
    BY <1>5, <1>6, PlainTurns
  <2> QED BY <2>1, <2>2
<1>11. Turns(t, b, Q, T, c, Q, V, k)
  BY <1>1, DescTurns
<1> HIDE DEF a, b, V
<1>12. Turns(t, a \o b, Q, T, c, Q, V, k)
  BY <1>9, <1>10, <1>11, TurnsJoin
<1>13. \A x \in Seq(Elems) : NoType(x) =>
         Turns(t, RsetText(RsetOf(d, n, s \o x)), Q, T, c, Added(Q, k, t, x), V, k)
  <2>1. n \in 0..Len(s)
    BY <1>1, <1>5
  <2>2. Turns(t, RsetText(RsetOf(d, n, s)), Q, T, c, Q, V, k)
    BY <1>8, <1>12
  <2> QED BY <1>1, <1>5, <2>1, <2>2, RestTurns
<1>14. Turns(t, RsetText(RsetOf(d, n, s \o v)), Q, T, c, Added(Q, k, t, v), V, k)
  BY <1>5, <1>6, <1>13
<1> QED BY <1>2, <1>5, <1>7, <1>14 DEF V, k

---------------------------------------------------------------------------
(* The text of a database *)

Kinds == Contents \cup {None}
Types(d) == {RsetType(d[i]) : i \in 1..Len(d)}

\* What the operations keep true of the database: only the first record set
\* has no descriptor, the record sets are of different types, the elements
\* before a descriptor are comments, and no record is a descriptor.
Sane(d) == d \in Seq(Rsets) /\ DescribedDb(d) /\ Fine(d, Kinds)

LEMMA SaneAppend ==
  ASSUME NEW d \in Seq(Rsets), NEW r \in Rsets, Sane(Append(d, r))
  PROVE  /\ Sane(d) /\ Sound(r) /\ (d # << >> => r.desc # None)
         /\ RsetType(r) \notin Types(d)
         /\ Types(Append(d, r)) = Types(d) \cup {RsetType(r)}
<1> DEFINE N == Len(d)
           u == Append(d, r)
           R(x) == RsetType(x)
           D(x) == x.desc
<1>1. /\ N \in Nat /\ Len(u) = N + 1 /\ u[N + 1] = r
      /\ (\A i \in 1..N : u[i] = d[i]) /\ (d # << >> => N # 0)
  BY AppendProperties, EmptySeq
<1>2. /\ N + 1 \in 1..(N + 1) /\ N + 1 \notin 1..N
      /\ \A i \in 1..N : i \in 1..(N + 1)
      /\ \A i \in 1..(N + 1) : i \in 1..N \/ i = N + 1
      /\ \A i \in 2..N : i \in 2..(N + 1) /\ i \in 1..N
      /\ N # 0 => N + 1 \in 2..(N + 1)
  BY <1>1
<1>3. /\ \A i \in 2..(N + 1) : D(u[i]) # None
      /\ \A i, j \in 1..(N + 1) : R(u[i]) = R(u[j]) => i = j
  BY <1>1 DEF Sane, DescribedDb, Fine
<1>4. /\ Types(u) = {R(u[i]) : i \in 1..(N + 1)}
      /\ Types(d) = {R(d[i]) : i \in 1..N}
  BY <1>1 DEF Types
<1>5. Fine(d, Kinds) /\ Sound(r)
  BY FineAppend DEF Sane
<1> HIDE DEF u, N, R, D
<1>6. \A i \in 2..N : D(d[i]) # None
  BY <1>1, <1>2, <1>3
<1>7. Sane(d)
  BY <1>5, <1>6 DEF Sane, DescribedDb, N, D
<1>8. d # << >> => D(r) # None
  BY <1>1, <1>2, <1>3
<1>9. R(r) \notin Types(d)
  <2>1. \A i \in 1..N : R(d[i]) # R(r)
    BY <1>1, <1>2, <1>3
  <2> QED BY <1>4, <2>1
<1>10. Types(u) = Types(d) \cup {R(r)}
  <2>1. \A i \in 1..N : R(u[i]) = R(d[i])
    BY <1>1
  <2>2. R(u[N + 1]) = R(r)
    BY <1>1
  <2> QED BY <1>2, <1>4, <2>1, <2>2
<1> QED BY <1>5, <1>7, <1>8, <1>9, <1>10 DEF u, R, D

LEMMA AtStart ==
  ASSUME NEW t
  PROVE  At(t, NewParser, << >>, {None}, None, << >>)
<1> DEFINE p == NewParser
           z == << >>
<1>1. p.out = z /\ p.rec = z /\ p.rset = NewRset(None)
      /\ NewRset(None).desc = None /\ NewRset(None).dpos = 0
      /\ NewRset(None).elems = z
  BY DEF NewParser, NewRset
<1>2. Parsed(p, << >>)
  BY NewParsed
<1> DEFINE x == NewRset(None)
<1>3. x \in Rsets
  BY NewRsetLines
<1> HIDE DEF p, x
<1>4. RsetType(x) = None /\ Sound(x) /\ RecordsIn(x, t) = << >>
  <2>1. RsetType(x) = None
    BY <1>1, <1>3, RsetTypeIs DEF x
  <2>2. Sound(x)
    BY <1>1 DEF Sound, Headed, NoType, x
  <2>3. FieldsOf(x.elems) = << >>
    BY <1>1, FieldsOfIs DEF x
  <2> QED BY <2>1, <2>2, <2>3 DEF RecordsIn
<1>5. z \in Seq(Rsets) /\ Fine(z, {}) /\ z \o z = z /\ z \in Seq(Items)
  <2>1. Fine(z, {})
    BY DEF Fine
  <2> QED BY <2>1, EmptySeq, ConcatEmptySeq
<1>6. Fields(p.rec) = << >>
  BY <1>1, EmptySeq, OnlyIs DEF Fields
<1>7. View(p) = Append(z, x)
  BY <1>1 DEF View, x
<1> HIDE DEF z
<1>8. Fine(Append(z, x), {None})
  <2>1. Fine(Append(z, x), {} \cup {RsetType(x)})
    <3>1. RsetType(x) \notin {}
      OBVIOUS
    <3> QED BY <1>3, <1>4, <1>5, <3>1, FineAppend
  <2> QED BY <1>4, <2>1
<1>9. RecordsOf(Append(z, x), t) = << >>
  <2>1. RecordsOf(Append(z, x), t) = RecordsOf(z, t) \o RecordsIn(x, t)
        /\ RecordsOf(z, t) = << >>
    <3>1. RecordsOf(<< >>, t) = << >>
      BY <1>5, RecordsOfIs
    <3> QED BY <1>3, <1>5, <3>1, RecordsOfIs DEF z
  <2> QED BY <1>4, <1>5, <2>1 DEF z
<1>10. At(t, p, << >>, {None}, None, << >>)
  BY <1>1, <1>2, <1>4, <1>6, <1>7, <1>8, <1>9 DEF At, x
<1> QED BY <1>10 DEF p

\* An empty line more does not matter between two records.
LEMMA AtGap ==
  ASSUME NEW t, NEW p, NEW Q, NEW T, NEW c, At(t, p, Q, T, c, << >>)
  PROVE  At(t, ParseLine(p, Blank), Q, T, c, << >>)
<1> DEFINE z == << >>
<1>1. ~HasField(z, REC)
  BY DEF HasField
<1>2. At(t, p, Q, T, c, z) /\ z = << >>
  OBVIOUS
<1> HIDE DEF z
<1>3. At(t, ParseLine(p, Blank),
         Q \o (IF c = t /\ z # << >> THEN <<z>> ELSE << >>), T, c, << >>)
  BY <1>1, <1>2, AtBlank
<1>4. Q \in Seq(Seq(Items))
  BY <1>2, AtParts
<1>5. Q \o << >> = Q
  BY <1>4, ConcatEmptySeq
<1> QED BY <1>2, <1>3, <1>5

LEMMA TurnsAt ==
  ASSUME NEW t, NEW w, NEW Q, NEW T, NEW c, NEW Q1, NEW T1, NEW c1,
         Turns(t, w, Q, T, c, Q1, T1, c1), NEW p, At(t, p, Q, T, c, << >>)
  PROVE  At(t, ParseLines(p, w), Q1, T1, c1, << >>)
  BY DEF Turns

\* A record set as it is written is its text but for the empty line.
LEMMA RsetTextIs ==
  ASSUME NEW r \in Rsets
  PROVE  /\ WriteRset(r) \in Seq(AllLines) /\ RsetText(r) \in Seq(AllLines)
         /\ r.desc # None \/ r.elems # << >> => RsetText(r) = WriteRset(r) \o <<Blank>>
         /\ r.desc = None /\ r.elems = << >> => WriteRset(r) = << >>
<1>1. WriteRset(r) \in Seq(AllLines)
  BY RsetLinesAre
<1>2. RsetText(r) \in Seq(AllLines)
  BY <1>1, LinesBlank, EmptySeq DEF RsetText
<1>3. r.desc = None /\ r.elems = << >> => WriteRset(r) = << >>
  <2> SUFFICES ASSUME r.desc = None, r.elems = << >> PROVE WriteRset(r) = << >>
    OBVIOUS
  <2>1. RsetMap(r) = << >>
    BY DEF RsetMap
  <2> QED BY <2>1, WriteRsetIs, FlattenNone
<1> QED BY <1>1, <1>2, <1>3 DEF RsetText

\* The first record set.
LEMMA FirstTurns ==
  ASSUME NEW t, NEW r \in Rsets, Sound(r)
  PROVE  \E c : At(t, ParseLines(NewParser, WriteRset(r) \o <<Blank>>),
                   RecordsIn(r, t), {None} \cup {RsetType(r)}, c, << >>)
<1> DEFINE w == WriteRset(r)
           z == << >>
           st == NewParser
           R == RecordsIn(r, t)
<1>1. At(t, st, z, {None}, None, << >>)
  BY AtStart
<1>2. z \in Seq(Seq(Items)) /\ R \in Seq(Seq(Items)) /\ z \o R = R
      /\ r.elems \in Seq(Elems)
  <2>1. r.elems \in Seq(Elems)
    BY RsetFacts
  <2>2. z \in Seq(Seq(Items))
    BY EmptySeq
  <2>3. R \in Seq(Seq(Items))
    BY <2>1, FieldsOfIs, EmptySeq DEF RecordsIn
  <2> HIDE DEF R
  <2> QED BY <2>1, <2>2, <2>3, ConcatEmptySeq
<1> HIDE DEF st, z, R
<1>3. CASE r.desc # None
  <2>1. RsetType(r) \notin {None} /\ RsetText(r) = w \o <<Blank>>
    BY <1>3, RsetTypeIs, RsetTextIs
  <2>2. Turns(t, RsetText(r), z, {None}, None, z \o R,
              {None} \cup {RsetType(r)}, RsetType(r))
    BY <1>2, <1>3, <2>1, DescribedTurns DEF R
  <2>3. At(t, ParseLines(st, RsetText(r)), z \o R,
           {None} \cup {RsetType(r)}, RsetType(r), << >>)
    BY <1>1, <2>2, TurnsAt
  <2> QED BY <1>2, <2>1, <2>3 DEF st, R
<1>4. CASE r.desc = None /\ r.elems # << >>
  <2> DEFINE u == r.elems
  <2>1. RsetType(r) = None /\ RsetText(r) = w \o <<Blank>>
    BY <1>4, RsetTypeIs, RsetTextIs
  <2>2. RsetText(r) = RsetText(RsetOf(None, 0, u))
    <3>1. r = RsetOf(None, r.dpos, u)
      BY <1>4, RsetFacts DEF RsetOf
    <3> QED BY <3>1, PlainText
  <2>3. NoType(u)
    BY DEF Sound
  <2>4. Turns(t, RsetText(r), z, {None}, None, Added(z, None, t, u), {None}, None)
    BY <1>2, <2>2, <2>3, PlainTurns
  <2>5. Added(z, None, t, u) = z \o R
    BY <2>1 DEF Added, R, RecordsIn
  <2>6. At(t, ParseLines(st, RsetText(r)), R, {None}, None, << >>)
    BY <1>1, <1>2, <2>4, <2>5, TurnsAt
  <2>7. {None} \cup {RsetType(r)} = {None}
    BY <2>1
  <2> QED BY <2>1, <2>6, <2>7 DEF st, R
<1>5. CASE r.desc = None /\ r.elems = << >>
  <2>1. RsetType(r) = None /\ w = << >>
    BY <1>5, RsetTypeIs, RsetTextIs
  <2>2. R = << >>
    BY <1>5, FieldsOfIs DEF R, RecordsIn
  <2>3. w \o <<Blank>> = <<Blank>>
    <3> DEFINE b == <<Blank>>
    <3>1. b \in Seq(AllLines)
      BY BlankIsLine, NonBlankOne
    <3> HIDE DEF b, w
    <3>2. << >> \o b = b
      BY <3>1, ConcatEmptySeq
    <3> QED BY <2>1, <3>2 DEF b
  <2>4. ParseLines(st, <<Blank>>) = ParseLine(st, Blank)
    BY ParseLinesOne
  <2>5. At(t, ParseLine(st, Blank), z, {None}, None, << >>)
    BY <1>1, AtGap
  <2>6. {None} \cup {RsetType(r)} = {None}
    BY <2>1
  <2> QED BY <2>2, <2>3, <2>4, <2>5, <2>6 DEF st, R, z
<1> QED BY <1>3, <1>4, <1>5

\* The text of a database, and an empty line, leave the parser with its
\* record sets.
LEMMA DbTurns ==
  ASSUME NEW t
  PROVE  \A d \in Seq(Rsets) : Sane(d) =>
           \E c : At(t, ParseLines(NewParser, Write(d) \o <<Blank>>),
                     RecordsOf(d, t), {None} \cup Types(d), c, << >>)
<1> DEFINE st == NewParser
           Good(d) == Sane(d) =>
             \E c : At(t, ParseLines(st, Write(d) \o <<Blank>>),
                       RecordsOf(d, t), {None} \cup Types(d), c, << >>)
           G == {d \in Seq(Rsets) : Good(d)}
<1>1. << >> \in G
  <2> DEFINE z == << >>
  <2>1. z \in Seq(Rsets) /\ Len(z) = 0
    BY EmptySeq
  <2>2. Write(z) = << >>
    <3>1. Write(z) = FlattenSeq(z)
      BY DEF Write
    <3> QED BY <3>1, FlattenNone
  <2>3. Types(z) = {}
    BY <2>1 DEF Types
  <2> HIDE DEF z
  <2>4. RecordsOf(z, t) = << >>
    <3>1. RecordsOf(<< >>, t) = << >>
      BY <2>1, RecordsOfIs
    <3> QED BY <3>1 DEF z
  <2>5. At(t, ParseLine(st, Blank), << >>, {None}, None, << >>)
    BY AtStart, AtGap
  <2>6. Write(z) \o <<Blank>> = <<Blank>>
    <3> DEFINE b == <<Blank>>
    <3>1. b \in Seq(AllLines)
      BY BlankIsLine, NonBlankOne
    <3> HIDE DEF b
    <3>2. << >> \o b = b
      BY <3>1, ConcatEmptySeq
    <3> QED BY <2>2, <3>2 DEF b
  <2>7. ParseLines(st, <<Blank>>) = ParseLine(st, Blank)
    BY ParseLinesOne
  <2>8. {None} \cup Types(z) = {None}
    BY <2>3
  <2> HIDE DEF st
  <2>9. At(t, ParseLines(st, Write(z) \o <<Blank>>), RecordsOf(z, t),
           {None} \cup Types(z), None, << >>)
    BY <2>4, <2>5, <2>6, <2>7, <2>8
  <2>10. Good(z)
    BY <2>9
  <2> HIDE DEF Good
  <2> QED BY <2>1, <2>10 DEF z
<1>2. ASSUME NEW d \in Seq(Rsets), NEW r \in Rsets, d \in G
      PROVE  Append(d, r) \in G
  <2> DEFINE u == Append(d, r)
             w == Write(d)
             v == WriteRset(r)
             B == <<Blank>>
             k == RsetType(r)
             T == {None} \cup Types(d)
             R == RecordsIn(r, t)
  <2>0. u \in Seq(Rsets)
    BY AppendProperties
  <2> SUFFICES ASSUME Sane(u) PROVE Good(u)
    BY <2>0
  <2>1. /\ Sane(d) /\ Sound(r) /\ (d # << >> => r.desc # None)
        /\ k \notin Types(d) /\ Types(u) = Types(d) \cup {k}
    BY SaneAppend
  <2>2. /\ Write(u) = w \o (Gap(Len(d) + 1) \o v) /\ w \in Seq(AllLines)
        /\ v \in Seq(AllLines) /\ B \in Seq(AllLines)
    <3>1. Write(u) = w \o (Gap(Len(d) + 1) \o v) /\ w \in Seq(AllLines)
      BY WriteAppend
    <3>2. v \in Seq(AllLines)
      BY RsetTextIs
    <3>3. B \in Seq(AllLines)
      BY BlankIsLine, NonBlankOne
    <3> QED BY <3>1, <3>2, <3>3
  <2>3. RecordsOf(u, t) = RecordsOf(d, t) \o R /\ RecordsOf(d, t) \in Seq(Seq(Items))
        /\ R \in Seq(Seq(Items))
    <3>1. r.elems \in Seq(Elems)
      BY RsetFacts
    <3>2. R \in Seq(Seq(Items))
      BY <3>1, FieldsOfIs, EmptySeq DEF RecordsIn
    <3>3. RecordsOf(d, t) \in Seq(Seq(Items))
      BY RecordsOfIs
    <3>4. RecordsOf(u, t) = RecordsOf(d, t) \o R
      BY RecordsOfIs
    <3> QED BY <3>2, <3>3, <3>4
  <2> HIDE DEF w, v, B, R, st, u, k
  <2>4. CASE d = << >>
    <3>1. Write(u) = v
      <4>1. Gap(Len(d) + 1) = << >>
        BY <2>4 DEF Gap
      <4>2. w = << >>
        <5>1. w = FlattenSeq(d)
          BY <2>4 DEF Write, w
        <5> QED BY <2>4, <5>1, FlattenNone
      <4>3. << >> \o v = v
        BY <2>2, ConcatEmptySeq
      <4> QED BY <2>2, <4>1, <4>2, <4>3
    <3>2. RecordsOf(u, t) = R
      <4>1. RecordsOf(d, t) = << >>
        <5>1. RecordsOf(<< >>, t) = << >>
          BY RecordsOfIs
        <5> QED BY <2>4, <5>1
      <4>2. << >> \o R = R
        BY <2>3, ConcatEmptySeq
      <4> QED BY <2>3, <4>1, <4>2
    <3>3. Types(d) = {}
      <4>1. Len(d) = 0
        BY <2>4
      <4> QED BY <4>1 DEF Types
    <3>4. {None} \cup Types(u) = {None} \cup {k}
      BY <2>1, <3>3
    <3>5. \E c : At(t, ParseLines(st, v \o B), R, {None} \cup {k}, c, << >>)
      BY <2>1, FirstTurns DEF v, B, R, k, st
    <3> QED BY <3>1, <3>2, <3>4, <3>5 DEF B, st
  <2>5. CASE d # << >>
    <3>1. PICK c : At(t, ParseLines(st, w \o B), RecordsOf(d, t), T, c, << >>)
      <4>1. Good(d)
        <5> HIDE DEF Good
        <5> QED BY <1>2
      <4> QED BY <2>1, <4>1 DEF w, B
    <3>2. k \notin T /\ r.desc # None /\ RsetText(r) = v \o B
      BY <2>1, <2>5, RsetTypeIs, RsetTextIs DEF k, v, B
    <3>3. Turns(t, v \o B, RecordsOf(d, t), T, c, RecordsOf(d, t) \o R, T \cup {k}, k)
      <4> HIDE DEF T
      <4>1. Turns(t, RsetText(r), RecordsOf(d, t), T, c,
                  RecordsOf(d, t) \o RecordsIn(r, t), T \cup {RsetType(r)}, RsetType(r))
        BY <2>1, <2>3, <3>2, DescribedTurns DEF k
      <4> QED BY <3>2, <4>1 DEF k, R
    <3>4. At(t, ParseLines(ParseLines(st, w \o B), v \o B),
             RecordsOf(u, t), T \cup {k}, k, << >>)
      <4> HIDE DEF T
      <4>1. At(t, ParseLines(ParseLines(st, w \o B), v \o B),
               RecordsOf(d, t) \o R, T \cup {k}, k, << >>)
        BY <3>1, <3>3, TurnsAt
      <4> QED BY <2>3, <4>1
    <3>5. Write(u) \o B = (w \o B) \o (v \o B)
      <4>1. Gap(Len(d) + 1) = B
        <5>1. Len(d) + 1 # 1
          <6>1. Len(d) # 0 /\ Len(d) \in Nat
            BY <2>5, EmptySeq
          <6> QED BY <6>1
        <5> QED BY <5>1 DEF Gap, B
      <4> DEFINE L == Seq(AllLines)
      <4>2. \A x, y, z \in L : (x \o y) \o z = x \o (y \o z)
        BY ConcatAssociative, SMTT(60)
      <4>3. \A x, y \in L : x \o y \in L
        BY ConcatProperties
      <4>4. w \in L /\ v \in L /\ B \in L
        BY <2>2
      <4> HIDE DEF L
      <4>5. w \o B \in L /\ B \o v \in L /\ v \o B \in L
        BY <4>3, <4>4
      <4>6. (w \o (B \o v)) \o B = w \o ((B \o v) \o B)
        BY ONLY <4>2, <4>4, <4>5, ZenonT(60)
      <4>7. (B \o v) \o B = B \o (v \o B)
        BY ONLY <4>2, <4>4, Zenon
      <4>8. (w \o B) \o (v \o B) = w \o (B \o (v \o B))
        BY ONLY <4>2, <4>4, <4>5, ZenonT(60)
      <4> QED BY <2>2, <4>1, <4>6, <4>7, <4>8
    <3>6. ParseLines(st, (w \o B) \o (v \o B)) =
            ParseLines(ParseLines(st, w \o B), v \o B)
      <4> DEFINE x == w \o B
                 y == v \o B
      <4>1. x \in Seq(AllLines) /\ y \in Seq(AllLines)
        BY <2>2, ConcatProperties
      <4> HIDE DEF x, y
      <4> QED BY <4>1, ParseLinesConcat DEF x, y
    <3>7. {None} \cup Types(u) = T \cup {k}
      BY <2>1
    <3>8. At(t, ParseLines(st, Write(u) \o B), RecordsOf(u, t),
             {None} \cup Types(u), k, << >>)
      BY <3>4, <3>5, <3>6, <3>7
    <3> QED BY <3>8 DEF B, st
  <2> QED BY <2>4, <2>5
<1>3. Seq(Rsets) \subseteq G
  <2> HIDE DEF G
  <2> QED BY <1>1, <1>2, SeqInduction
<1> QED BY <1>3

---------------------------------------------------------------------------
(* Reading back what is written *)

Written == LinesOver(Contents)

LEMMA WrittenIs ==
  /\ \A x \in Written : x \in AllLines /\ x.k # "bad" /\ x.k # "cut"
  /\ \A s \in Seq(Written) : s \in Seq(AllLines)
<1>1. \A x \in Written : x \in AllLines /\ x.k # "bad" /\ x.k # "cut"
  BY DEF Written, LinesOver, AllLines, Blank
<1> HIDE DEF Written
<1>2. \A s \in Seq(Written) : s \in Seq(AllLines)
  BY <1>1
<1> QED BY <1>1, <1>2

LEMMA WriteOver ==
  \A d \in Seq(Rsets) : Write(d) \in Seq(Written)
<1> DEFINE G == {d \in Seq(Rsets) : Write(d) \in Seq(Written)}
<1>1. << >> \in G
  <2> DEFINE z == << >>
  <2>1. z \in Seq(Rsets) /\ z \in Seq(Written)
    BY EmptySeq
  <2>2. Write(z) = z
    <3>1. Write(z) = FlattenSeq(z)
      BY DEF Write
    <3> QED BY <3>1, FlattenNone
  <2> HIDE DEF z
  <2>3. z \in G
    BY <2>1, <2>2
  <2> QED BY <2>3 DEF z
<1>2. ASSUME NEW d \in Seq(Rsets), NEW r \in Rsets, d \in G
      PROVE  Append(d, r) \in G
  <2> DEFINE v == WriteRset(r)
             g == Gap(Len(d) + 1)
             s == r.elems
             e == r.desc
  <2>1. Write(Append(d, r)) = Write(d) \o (g \o v)
    BY WriteAppend
  <2>2. v \in Seq(Written)
    <3>1. r = RsetOf(e, r.dpos, s) /\ s \in Seq(Elems)
          /\ (e # None => e \in Seq(Items))
      BY RsetFacts DEF RsetOf
    <3> HIDE DEF s, e
    <3>2. DescOver(Contents, e) /\ s \in Seq(ElemsOver(Contents))
      BY <3>1, TextLinesAre
    <3>3. WriteRset(RsetOf(e, r.dpos, s)) \in Seq(LinesOver(Contents))
      BY <3>2, TextOver
    <3> QED BY <3>1, <3>3 DEF Written
  <2>3. g \in Seq(Written)
    <3>1. <<Blank>> \in Seq(Written)
      BY BlankOver DEF Written
    <3>2. << >> \in Seq(Written)
      BY EmptySeq
    <3> QED BY <3>1, <3>2 DEF Gap
  <2>4. g \o v \in Seq(Written) /\ Write(d) \in Seq(Written)
    <3>1. Write(d) \in Seq(Written)
      BY <1>2
    <3> HIDE DEF v, g
    <3> QED BY <2>2, <2>3, <3>1, ConcatProperties
  <2> HIDE DEF v, g
  <2> DEFINE w == Write(d)
             y == g \o v
  <2> HIDE DEF w, y
  <2>5. w \o y \in Seq(Written)
    BY <2>4, ConcatProperties DEF w, y
  <2>6. Append(d, r) \in Seq(Rsets)
    BY AppendProperties
  <2> QED BY <2>1, <2>5, <2>6 DEF w, y
<1>3. Seq(Rsets) \subseteq G
  <2> HIDE DEF G
  <2> QED BY <1>1, <1>2, SeqInduction
<1> QED BY <1>3

\* The parser after lines none of which is wrong.
LEMMA FileParsed ==
  \A s \in Seq(Written) : Parsed(ParseLines(NewParser, s), s)
<1> DEFINE st == NewParser
           Good(s) == Parsed(ParseLines(st, s), s)
           G == {s \in Seq(Written) : Good(s)}
<1> HIDE DEF st, Good
<1>1. << >> \in G
  <2> DEFINE z == << >>
  <2>1. z \in Seq(Written)
    BY EmptySeq
  <2>2. ParseLines(st, z) = st
    BY ParseLinesNone
  <2>3. Parsed(st, z)
    BY NewParsed DEF st
  <2> HIDE DEF z
  <2>4. Good(z)
    BY <2>2, <2>3 DEF Good
  <2> QED BY <2>1, <2>4 DEF z
<1>2. ASSUME NEW s \in Seq(Written), NEW x \in Written, s \in G
      PROVE  Append(s, x) \in G
  <2> DEFINE y == <<x>>
             p == ParseLines(st, s)
  <2>1. Append(s, x) = s \o y /\ Append(s, x) \in Seq(Written) /\ y \in Seq(Written)
    BY AppendIsConcat, AppendProperties
  <2>2. ParseLines(st, s \o y) = ParseLines(p, y)
    <3> HIDE DEF y, p
    <3> QED BY <2>1, ParseLinesConcat DEF p
  <2>3. ParseLines(p, y) = ParseLine(p, x)
    BY ParseLinesOne
  <2>4. Parsed(p, s)
    BY <1>2 DEF Good
  <2>5. x \in AllLines /\ x.k # "bad" /\ x.k # "cut"
    BY WrittenIs
  <2> HIDE DEF p, y
  <2>6. Parsed(ParseLine(p, x), Append(s, x))
    BY <2>4, <2>5, ParseLineParsed
  <2>7. Good(Append(s, x))
    BY <2>1, <2>2, <2>3, <2>6 DEF Good
  <2> QED BY <2>1, <2>7
<1>3. Seq(Written) \subseteq G
  <2> HIDE DEF G
  <2> QED BY <1>1, <1>2, SeqInduction
<1> QED BY <1>3 DEF Good, st

\* The database that is read back: its record sets are those the parser has
\* come to, but for a last one with neither a descriptor nor a record.
LEMMA ReloadedIs ==
  ASSUME NEW d \in Seq(Rsets), NEW q, q = ParseLines(NewParser, Write(d) \o <<Blank>>)
  PROVE  /\ q \in Parsers /\ Described(q)
         /\ Reloaded(d) \in Seq(Rsets) /\ DescribedDb(Reloaded(d))
         /\ NoField(Write(d)) \/ DbLines(d) = DbLines(Reloaded(d))
         /\ Reloaded(d) =
              IF q.rset.desc # None \/ NumRecords(q.rset) > 0
              THEN View(q) ELSE q.out
<1> DEFINE w == Write(d)
           p == ParseLines(NewParser, w)
<1>1. Parsed(p, w) /\ w \in Seq(AllLines)
  BY WriteOver, FileParsed, WrittenIs
<1>2. q = ParseLine(p, Blank)
  BY <1>1, LinesBlank
<1>3. p \in Parsers /\ ~p.err /\ ~p.eof
  BY <1>1 DEF Parsed
<1>4. Reloaded(d) = ParseEof(p).out
  BY DEF Reloaded, Parse
<1> HIDE DEF w, p
<1>5. q = [EndRecord(p) EXCEPT !.last = FALSE]
  BY <1>2, <1>3 DEF ParseLine, Blank
<1>6. q \in Parsers /\ Described(q)
  <2>1. Blank \in AllLines /\ Blank.k # "bad" /\ Blank.k # "cut"
    BY DEF AllLines, Blank
  <2>2. Parsed(ParseLine(p, Blank), Append(w, Blank))
    BY <1>1, <2>1, ParseLineParsed
  <2> QED BY <1>2, <2>2 DEF Parsed
<1>7. ParseEof(p).out \in Seq(Rsets) /\ DescribedDb(ParseEof(p).out)
      /\ (NoField(w) \/ NonBlank(w) = DbLines(ParseEof(p).out))
  BY <1>1, ParseEofParsed
<1>8. NonBlank(w) = DbLines(d)
  BY DEF w, DbLines
<1>9. ParseEof(p).out = IF q.rset.desc # None \/ NumRecords(q.rset) > 0
                        THEN Append(q.out, q.rset) ELSE q.out
  BY <1>3, <1>5, EofOut
<1> QED BY <1>4, <1>6, <1>7, <1>8, <1>9 DEF w, View

\* What writing and reading back keeps: what is Sane, and the records of
\* each type.
LEMMA ReloadKeeps ==
  ASSUME NEW d, Sane(d)
  PROVE  Sane(Reloaded(d)) /\ \A t : RecordsOf(Reloaded(d), t) = RecordsOf(d, t)
<1> DEFINE q == ParseLines(NewParser, Write(d) \o <<Blank>>)
           r == q.rset
           o == q.out
           T == {None} \cup Types(d)
<1>1. d \in Seq(Rsets) /\ Fine(d, Kinds)
  BY DEF Sane
<1>2. /\ q \in Parsers /\ Described(q)
      /\ Reloaded(d) \in Seq(Rsets) /\ DescribedDb(Reloaded(d))
      /\ Reloaded(d) = IF r.desc # None \/ NumRecords(r) > 0 THEN View(q) ELSE o
  BY <1>1, ReloadedIs
<1>3. \A t : \E c : At(t, q, RecordsOf(d, t), T, c, << >>)
  <2> HIDE DEF T
  <2> QED BY <1>1, DbTurns DEF T
<1>4. T \subseteq Kinds
  BY <1>1 DEF Types, Fine, Kinds
<1> HIDE DEF q, r, o, T
<1>5. \A t : Fine(View(q), T) /\ RecordsOf(View(q), t) = RecordsOf(d, t)
  BY <1>3 DEF At
<1>6. Fine(View(q), Kinds)
  BY <1>4, <1>5 DEF Fine
<1>7. CASE r.desc # None \/ NumRecords(r) > 0
  <2>1. Reloaded(d) = View(q)
    BY <1>2, <1>7
  <2> QED BY <1>2, <1>5, <1>6, <2>1 DEF Sane
<1>8. CASE ~(r.desc # None \/ NumRecords(r) > 0)
  <2>1. Reloaded(d) = << >>
    BY <1>2, <1>8 DEF Described, r, o
  <2>2. /\ r \in Rsets /\ o \in Seq(Rsets)
    BY <1>2, ParserFacts DEF r, o
  <2>3. r.elems \in Seq(Elems) /\ ~HasRecord(r.elems)
    BY <1>8, <2>2, RsetFacts, NumRecordsIs
  <2>4. FieldsOf(r.elems) = << >>
    <3> DEFINE s == r.elems
    <3>1. s \in Seq(Elems) /\ ~HasRecord(s)
      BY <2>3
    <3> HIDE DEF s
    <3>2. \A j \in 1..Len(s) : s[j].k = "comment"
      BY <3>1 DEF HasRecord, Elems
    <3>3. FieldsOf(s) = << >>
      BY <3>1, <3>2, FieldsOfIs
    <3> QED BY <3>3 DEF s
  <2>5. \A t : RecordsOf(View(q), t) = << >>
    <3> SUFFICES ASSUME NEW t PROVE RecordsOf(View(q), t) = << >>
      OBVIOUS
    <3> DEFINE z == << >>
    <3>1. o = z
      BY <1>2, <1>8 DEF Described, r, o
    <3>2. z \in Seq(Rsets) /\ RecordsOf(z, t) = << >>
      BY EmptySeq, RecordsOfIs
    <3>3. RecordsIn(r, t) = << >>
      BY <2>4 DEF RecordsIn
    <3> HIDE DEF z
    <3>4. RecordsOf(Append(z, r), t) = RecordsOf(z, t) \o RecordsIn(r, t)
      BY <2>2, <3>2, RecordsOfIs
    <3>5. << >> \o << >> = << >>
      OBVIOUS
    <3> QED BY <3>1, <3>2, <3>3, <3>4, <3>5 DEF View, r, o
  <2>6. \A t : RecordsOf(Reloaded(d), t) = << >>
    BY <1>2, <2>1, RecordsOfIs
  <2>7. Fine(Reloaded(d), Kinds)
    <3>1. Len(Reloaded(d)) = 0
      BY <2>1
    <3> HIDE DEF Reloaded
    <3> QED BY <3>1 DEF Fine
  <2> QED BY <1>2, <1>5, <2>5, <2>6, <2>7 DEF Sane
<1> QED BY <1>7, <1>8

\* The comment lines are among the lines that are not empty.
LEMMA CommentsNonBlank ==
  \A s \in Seq(AllLines) : Only(NonBlank(s), "comment") = Only(s, "comment")
<1> DEFINE O(s) == Only(s, "comment")
           Good(s) == O(NonBlank(s)) = O(s)
           G == {s \in Seq(AllLines) : Good(s)}
<1>1. << >> \in G
  <2> DEFINE z == << >>
  <2>1. z \in Seq(AllLines) /\ NonBlank(z) = z
    BY EmptySeq, NonBlankNone
  <2> HIDE DEF z, O
  <2> QED BY <2>1 DEF z
<1>2. ASSUME NEW s \in Seq(AllLines), NEW x \in AllLines, s \in G
      PROVE  Append(s, x) \in G
  <2> DEFINE f == NonBlank(s)
             u == Append(s, x)
  <2>1. f \in Seq(AllLines) /\ u \in Seq(AllLines) /\ NonBlank(u) = f \o Kept(x)
    BY NonBlankAppend, NonBlankConcat
  <2>2. O(f) = O(s)
    BY <1>2
  <2>3. O(u) = IF x.k = "comment" THEN Append(O(s), x) ELSE O(s)
    BY OnlyIs
  <2> HIDE DEF f, O, u
  <2>4. CASE x = Blank
    <3>1. x.k # "comment" /\ Kept(x) = << >>
      BY <2>4 DEF Blank, Kept
    <3>2. NonBlank(u) = f
      BY <2>1, <3>1, ConcatEmptySeq
    <3> QED BY <2>1, <2>2, <2>3, <3>1, <3>2 DEF u
  <2>5. CASE x # Blank
    <3>1. NonBlank(u) = Append(f, x)
      <4>1. Kept(x) = <<x>>
        BY <2>5 DEF Kept
      <4>2. f \o <<x>> = Append(f, x)
        BY <2>1, AppendIsConcat
      <4> QED BY <2>1, <4>1, <4>2
    <3>2. O(Append(f, x)) = IF x.k = "comment" THEN Append(O(f), x) ELSE O(f)
      BY <2>1, OnlyIs DEF O
    <3> DEFINE a == Append(f, x)
               c == Append(O(f), x)
    <3> HIDE DEF a
    <3>3. O(a) = O(u)
      BY <2>2, <2>3, <3>2 DEF a
    <3>4. O(NonBlank(u)) = O(u)
      BY <3>1, <3>3 DEF a
    <3> QED BY <2>1, <3>4 DEF u
  <2> QED BY <2>4, <2>5
<1>3. Seq(AllLines) \subseteq G
  <2> HIDE DEF G
  <2> QED BY <1>1, <1>2, SeqInduction
<1> QED BY <1>3

LEMMA CommentsReloaded ==
  ASSUME NEW d \in Seq(Rsets), ~NoField(Write(d))
  PROVE  CommentLines(Reloaded(d)) = CommentLines(d)
<1> DEFINE e == Reloaded(d)
           w == Write(d)
           v == Write(e)
<1>1. e \in Seq(Rsets) /\ NonBlank(w) = NonBlank(v)
  BY ReloadedIs DEF DbLines
<1> HIDE DEF e
<1>2. w \in Seq(AllLines) /\ v \in Seq(AllLines)
  BY <1>1, DbSeqs
<1>3. CommentLines(d) = Only(w, "comment") /\ CommentLines(e) = Only(v, "comment")
  BY DEF CommentLines
<1> HIDE DEF w, v
<1> QED BY <1>1, <1>2, <1>3, CommentsNonBlank DEF e

---------------------------------------------------------------------------
(* The operations keep the database sane *)

\* What replaces a record set.
Like(r, q) ==
  /\ q \in Rsets /\ Sound(q) /\ RsetType(q) = RsetType(r)
  /\ r.desc # None => q.desc # None

LEMMA SaneMap ==
  ASSUME NEW d, Sane(d), NEW e, Len(e) = Len(d),
         e = [i \in 1..Len(d) |-> e[i]],
         \A i \in 1..Len(d) : Like(d[i], e[i])
  PROVE  Sane(e) /\ Types(e) = Types(d)
<1> DEFINE N == Len(d)
           R(x) == RsetType(x)
           D(x) == x.desc
<1>1. d \in Seq(Rsets) /\ N \in Nat /\ \A i \in 2..N : i \in 1..N
  BY DEF Sane
<1>2. /\ \A i \in 1..N : /\ e[i] \in Rsets /\ Sound(e[i]) /\ R(e[i]) = R(d[i])
                         /\ D(d[i]) # None => D(e[i]) # None
  BY DEF Like
<1>3. e \in Seq(Rsets)
  BY <1>1, <1>2
<1>4. /\ \A i \in 2..N : D(d[i]) # None
      /\ \A i \in 1..N : R(d[i]) \in Kinds
      /\ \A i, j \in 1..N : R(d[i]) = R(d[j]) => i = j
  BY DEF Sane, DescribedDb, Fine
<1>5. Types(e) = {R(e[i]) : i \in 1..N} /\ Types(d) = {R(d[i]) : i \in 1..N}
  BY DEF Types
<1> HIDE DEF N, R, D
<1>6. /\ \A i \in 2..N : D(e[i]) # None
      /\ \A i \in 1..N : R(e[i]) \in Kinds
      /\ \A i, j \in 1..N : R(e[i]) = R(e[j]) => i = j
  BY <1>1, <1>2, <1>4
<1>7. DescribedDb(e) /\ Fine(e, Kinds)
  BY <1>2, <1>6 DEF DescribedDb, Fine, N, R, D
<1>8. Types(e) = Types(d)
  BY <1>2, <1>5
<1> QED BY <1>3, <1>7, <1>8 DEF Sane

\* A record set with other elements.
LEMMA LikeElems ==
  ASSUME NEW r \in Rsets, NEW s \in Seq(Elems), r.dpos <= Len(s),
         Headed(s, r.dpos), NoType(s)
  PROVE  Like(r, WithElems(r, s)) /\ [r EXCEPT !.elems = s] = WithElems(r, s)
<1> DEFINE q == WithElems(r, s)
<1>1. q.desc = r.desc /\ q.dpos = r.dpos /\ q.elems = s
  BY DEF WithElems
<1>2. q \in Rsets
  BY DEF Rsets, WithElems
<1>3. [r EXCEPT !.elems = s] = q
  BY DEF Rsets, WithElems
<1> HIDE DEF q
<1>4. RsetType(q) = RsetType(r)
  BY <1>1 DEF RsetType
<1>5. Sound(q)
  BY <1>1 DEF Sound
<1> QED BY <1>1, <1>2, <1>3, <1>4, <1>5 DEF Like, q

\* Where a new record goes: no record is behind it, and the elements before
\* the descriptor stay there.
LEMMA LastOf ==
  ASSUME NEW N \in Nat, NEW S \in SUBSET (1..N), S # {}
  PROVE  \E j \in S : \A k \in S : k <= j
<1> DEFINE B == {n \in Nat : \A k \in S : k <= n}
<1>1. N \in B
  OBVIOUS
<1>2. PICK m \in B : \A x \in B : m <= x
  <2>1. B \in SUBSET Nat /\ B # {}
    BY <1>1
  <2> HIDE DEF B
  <2> QED BY <2>1, NatMin
<1>3. m \in Nat /\ \A k \in S : k <= m /\ k \in Nat /\ 1 <= k
  BY <1>2
<1>4. m \in S
  <2> SUFFICES ASSUME m \notin S PROVE FALSE
    OBVIOUS
  <2>1. \A k \in S : k <= m - 1
    BY <1>3
  <2>2. m - 1 \in Nat
    <3>1. PICK k \in S : TRUE
      OBVIOUS
    <3> QED BY <1>3, <3>1
  <2>3. m - 1 \in B
    BY <2>1, <2>2
  <2> QED BY <1>2, <1>3, <2>3
<1> QED BY <1>3, <1>4

LEMMA InsertIndexIs ==
  ASSUME NEW r \in Rsets, Headed(r.elems, r.dpos)
  PROVE  \E n \in 0..Len(r.elems) :
           /\ InsertIndex(r) = n + 1 /\ r.dpos <= n
           /\ \A j \in n + 1..Len(r.elems) : r.elems[j].k = "comment"
<1> DEFINE s == r.elems
           d == r.dpos
           N == Len(s)
           recs == {j \in DOMAIN s : s[j].k = "record"}
<1>1. s \in Seq(Elems) /\ d \in 0..N /\ N \in Nat /\ DOMAIN s = 1..N
  BY RsetFacts
<1>2. \A j \in 1..N : s[j].k = "comment" <=> j \notin recs
  <2> TAKE j \in 1..N
  <2>1. s[j] \in Elems
    BY <1>1
  <2>2. s[j].k = "comment" \/ s[j].k = "record"
    BY <2>1 DEF Elems
  <2> HIDE DEF s
  <2> QED BY <1>1, <2>2
<1>3. InsertIndex(r) = IF recs = {} THEN d + 1
                       ELSE 1 + CHOOSE j \in recs : \A k \in recs : k <= j
  BY DEF InsertIndex
<1>4. recs \in SUBSET (1..N) /\ \A i \in 1..d : s[i].k = "comment"
  BY <1>1 DEF Headed
<1> HIDE DEF s, d, N, recs
<1>5. CASE recs = {}
  BY <1>1, <1>2, <1>3, <1>5 DEF s, d, N
<1>6. CASE recs # {}
  <2> DEFINE m == CHOOSE j \in recs : \A k \in recs : k <= j
  <2>1. m \in recs /\ \A k \in recs : k <= m
    BY <1>1, <1>4, <1>6, LastOf
  <2>2. InsertIndex(r) = 1 + m
    BY <1>3, <1>6
  <2> HIDE DEF m
  <2>3. m \in 1..N
    BY <1>4, <2>1
  <2>4. d <= m
    <3>1. m \notin 1..d
      BY <1>2, <1>4, <2>1, <2>3
    <3> QED BY <1>1, <2>3, <3>1
  <2>5. \A j \in m + 1..N : s[j].k = "comment"
    BY <1>1, <1>2, <2>1, <2>3
  <2> QED BY <1>1, <2>2, <2>3, <2>4, <2>5 DEF s, d, N
<1> QED BY <1>5, <1>6

LEMMA InsertedRset ==
  ASSUME NEW r \in Rsets, Sound(r), NEW e \in Elems,
         e.k = "record" => ~HasField(e.items, REC)
  PROVE  LET s == InsertAt(r.elems, InsertIndex(r), e)
         IN /\ Like(r, WithElems(r, s))
            /\ [r EXCEPT !.elems = s] = WithElems(r, s)
            /\ FieldsOf(s) = FieldsOf(r.elems) \o FieldsIn(e)
<1> DEFINE s == r.elems
           d == r.dpos
<1>1. s \in Seq(Elems) /\ d \in Nat /\ Len(s) \in Nat /\ d <= Len(s)
      /\ Headed(s, d) /\ NoType(s)
  BY RsetFacts DEF Sound
<1>2. PICK n \in 0..Len(s) : /\ InsertIndex(r) = n + 1 /\ d <= n
                             /\ \A j \in n + 1..Len(s) : s[j].k = "comment"
  BY <1>1, InsertIndexIs
<1> DEFINE a == SubSeq(s, 1, n)
           b == SubSeq(s, n + 1, Len(s))
           u == InsertAt(s, InsertIndex(r), e)
<1> HIDE DEF s, d
<1>3. /\ a \in Seq(Elems) /\ b \in Seq(Elems) /\ Len(a) = n /\ a \o b = s
      /\ \A i \in DOMAIN a : a[i] = s[i]
      /\ \A i \in DOMAIN b : b[i] = s[n + i] /\ n + i \in DOMAIN s
  <2> DEFINE E == Elems
  <2>1. s \in Seq(E) /\ n \in 0..Len(s)
    BY <1>1
  <2> HIDE DEF E
  <2>2. /\ a \in Seq(E) /\ b \in Seq(E) /\ Len(a) = n /\ a \o b = s
        /\ \A i \in DOMAIN a : a[i] = s[i] /\ i \in 1..n
        /\ \A i \in DOMAIN b : b[i] = s[n + i] /\ n + i \in DOMAIN s
    BY ONLY <2>1, SplitAt
  <2> QED BY <2>2 DEF E
<1>4. u = a \o <<e>> \o b
  <2>1. (n + 1) - 1 = n
    OBVIOUS
  <2> QED BY <1>2, <2>1 DEF InsertAt
<1>5. u \in Seq(Elems) /\ Len(u) = Len(s) + 1
      /\ (\A i \in 1..n : u[i] = s[i]) /\ u[n + 1] = e
      /\ \A i \in n + 1..Len(s) : u[i + 1] = s[i]
  <2> DEFINE E == Elems
  <2>1. s \in Seq(E) /\ e \in E /\ n \in 0..Len(s)
    BY <1>1
  <2> HIDE DEF E, u
  <2> DEFINE h == InsertAt(s, n + 1, e)
  <2>2. u = h
    BY <1>2 DEF u
  <2>3. h \in Seq(E) /\ Len(h) = Len(s) + 1 /\ h[n + 1] = e
    BY ONLY <2>1, InsertAtIndex
  <2>4. \A i \in 1..n : h[i] = s[i]
    BY ONLY <2>1, InsertAtIndex
  <2>5. \A i \in n + 1..Len(s) : h[i + 1] = s[i]
    BY ONLY <2>1, InsertAtIndex
  <2> HIDE DEF h
  <2> QED BY <2>2, <2>3, <2>4, <2>5 DEF E
<1> HIDE DEF u
<1>6. Headed(u, d)
  BY <1>1, <1>2, <1>5 DEF Headed
<1>7. NoType(u)
  <2> SUFFICES ASSUME NEW i \in 1..Len(u), u[i].k = "record"
               PROVE  ~HasField(u[i].items, REC)
    BY DEF NoType
  <2>1. CASE i \in 1..n
    BY <1>1, <1>5, <2>1 DEF NoType
  <2>2. CASE i = n + 1
    BY <1>5, <2>2
  <2>3. CASE i \in n + 2..Len(u)
    <3>1. i - 1 \in n + 1..Len(s) /\ i - 1 \in 1..Len(s) /\ (i - 1) + 1 = i
      BY <1>1, <1>5, <2>3
    <3>2. u[i] = s[i - 1]
      BY <1>5, <3>1
    <3> QED BY <1>1, <3>1, <3>2 DEF NoType
  <2> QED BY <1>5, <2>1, <2>2, <2>3
<1>8. d <= Len(u)
  BY <1>1, <1>5
<1>9. FieldsOf(u) = FieldsOf(s) \o FieldsIn(e)
  <2> DEFINE x == Append(a, e)
             F(y) == FieldsOf(y)
  <2>1. a \o <<e>> = x /\ x \in Seq(Elems)
    BY <1>3, AppendProperties, AppendIsConcat
  <2>2. \A j \in 1..Len(b) : b[j].k = "comment"
    <3>1. Len(b) = Len(s) - n
      BY <1>1, <1>3, ConcatProperties
    <3>2. DOMAIN b = 1..Len(b)
      BY <1>3
    <3> HIDE DEF b
    <3> QED BY <1>1, <1>2, <1>3, <3>1, <3>2
  <2> HIDE DEF a, b, F
  <2>3. F(b) = << >>
    BY <1>3, <2>2, FieldsOfIs DEF F
  <2>4. F(x) = F(a) \o FieldsIn(e)
    BY <1>3, FieldsOfIs DEF F
  <2> HIDE DEF x
  <2>5. F(x \o b) = F(x) \o F(b) /\ F(a \o b) = F(a) \o F(b)
        /\ F(x) \in Seq(Seq(Items)) /\ F(a) \in Seq(Seq(Items))
    BY <1>3, <2>1, FieldsOfIs DEF F
  <2>6. F(x) \o F(b) = F(x) /\ F(a) \o F(b) = F(a)
    BY <2>3, <2>5, ConcatEmptySeq
  <2> QED BY <1>3, <1>4, <2>1, <2>4, <2>5, <2>6 DEF F
<1>10. Like(r, WithElems(r, u)) /\ [r EXCEPT !.elems = u] = WithElems(r, u)
  BY <1>5, <1>6, <1>7, <1>8, LikeElems DEF d
<1> QED BY <1>9, <1>10 DEF s, u

\* The members that are kept: the first ones stay where they are, when all
\* of them are kept.
KeepMap(s, K) == [j \in DOMAIN s |-> IF j \in K THEN <<s[j]>> ELSE << >>]
KeptUpTo(s, g, m, n) ==
  /\ Len(g) <= m
  /\ \A i \in 1..Len(g) : \E j \in 1..Len(s) : g[i] = s[j]
  /\ \A k \in 0..n : k <= m => k <= Len(g) /\ \A i \in 1..k : g[i] = s[i]

LEMMA KeepIs ==
  ASSUME NEW S, NEW s \in Seq(S), NEW K, NEW n \in 0..Len(s), \A i \in 1..n : i \in K
  PROVE  Keep(s, K) \in Seq(S) /\ KeptUpTo(s, Keep(s, K), Len(s), n)
<1> DEFINE a == KeepMap(s, K)
           N == Len(s)
<1>1. N \in Nat /\ DOMAIN s = 1..N /\ n \in 0..N /\ \A j \in 1..N : s[j] \in S
  OBVIOUS
<1>2. SeqsOver(a, S) /\ Len(a) = N
      /\ \A j \in 1..N : a[j] = IF j \in K THEN <<s[j]>> ELSE << >>
  <2>1. \A j \in 1..N : (IF j \in K THEN <<s[j]>> ELSE << >>) \in Seq(S)
    <3> TAKE j \in 1..N
    <3>1. <<s[j]>> \in Seq(S) /\ << >> \in Seq(S)
      BY <1>1, EmptySeq
    <3> QED BY <3>1
  <2> QED BY <1>1, <2>1 DEF KeepMap, SeqsOver
<1>3. Keep(s, K) = FlattenSeq(a)
  BY DEF Keep, KeepMap
<1> HIDE DEF a, N
<1>4. PICK G \in [0..N -> Seq(S)] : JoinOf(G, a) /\ FlattenSeq(a) = G[N]
  <2>1. \E G \in [0..Len(a) -> Seq(S)] : JoinOf(G, a) /\ FlattenSeq(a) = G[Len(a)]
    BY <1>2, FlattenIs
  <2> QED BY <1>2, <2>1
<1>5. G[0] = << >> /\ \A m \in 1..N : G[m] = G[m - 1] \o a[m]
  BY <1>2, <1>4 DEF JoinOf
<1> DEFINE P == {m \in 0..N : KeptUpTo(s, G[m], m, n)}
<1>6. 0 \in P
  <2>1. Len(G[0]) = 0
    BY <1>5
  <2>2. \A k \in 0..n : k <= 0 => k = 0
    BY <1>1
  <2> HIDE DEF P
  <2>3. KeptUpTo(s, G[0], 0, n)
    BY <1>1, <2>1, <2>2 DEF KeptUpTo
  <2> QED BY <1>1, <2>3 DEF P
<1>7. ASSUME NEW m \in 0..(N - 1), m \in P PROVE m + 1 \in P
  <2> DEFINE g == G[m]
             h == G[m + 1]
             k == m + 1
             x == s[k]
  <2>1. /\ g \in Seq(S) /\ Len(g) \in Nat /\ Len(g) <= m
        /\ \A i \in 1..Len(g) : \E j \in 1..N : g[i] = s[j]
        /\ \A i \in 0..n : i <= m => i <= Len(g) /\ \A j \in 1..i : g[j] = s[j]
    <3>1. KeptUpTo(s, g, m, n)
      BY <1>7
    <3>2. g \in Seq(S)
      BY <1>1, <1>4
    <3> HIDE DEF g
    <3> QED BY <3>1, <3>2 DEF KeptUpTo, N
  <2>2. k \in 1..N /\ k - 1 = m /\ x \in S /\ m \in 0..N /\ k \in 0..N
    BY <1>1
  <2>3. h = g \o (IF k \in K THEN <<x>> ELSE << >>)
    BY <1>2, <1>5, <2>2
  <2> HIDE DEF g, h, x, P
  <2>4. CASE k \in K
    <3>1. h = Append(g, x)
      <4>1. h = g \o <<x>>
        BY <2>3, <2>4
      <4> QED BY <2>1, <2>2, <4>1, AppendIsConcat
    <3>2. Len(h) = Len(g) + 1 /\ h[Len(g) + 1] = x
          /\ \A i \in 1..Len(g) : h[i] = g[i]
      BY <2>1, <2>2, <3>1, AppendProperties
    <3>3. \A i \in 1..Len(h) : \E j \in 1..N : h[i] = s[j]
      <4> TAKE i \in 1..Len(h)
      <4>1. CASE i \in 1..Len(g)
        BY <2>1, <3>2, <4>1
      <4>2. CASE i = Len(g) + 1
        BY <2>2, <3>2, <4>2 DEF x
      <4> QED BY <2>1, <3>2, <4>1, <4>2
    <3>4. ASSUME NEW i \in 0..n, i <= k
          PROVE  i <= Len(h) /\ \A j \in 1..i : h[j] = s[j]
      <4>1. CASE i <= m
        BY <1>1, <2>1, <3>2, <3>4, <4>1
      <4>2. CASE i = k
        <5>1. m \in 0..n /\ m <= m
          BY <1>1, <3>4, <4>2
        <5>2. m <= Len(g) /\ \A j \in 1..m : g[j] = s[j]
          BY <2>1, <5>1
        <5>3. Len(g) = m
          BY <2>1, <5>1, <5>2
        <5>4. \A j \in 1..k : j \in 1..m \/ j = k
          BY <5>1
        <5> QED BY <2>1, <3>2, <4>2, <5>2, <5>3, <5>4 DEF x
      <4> QED BY <1>1, <3>4, <4>1, <4>2
    <3>5. KeptUpTo(s, h, k, n)
      <4>1. Len(h) <= k
        BY <2>1, <2>2, <3>2
      <4> HIDE DEF k
      <4>2. \A i \in 0..n : i <= k => i <= Len(h) /\ \A j \in 1..i : h[j] = s[j]
        BY <3>4
      <4> QED BY <3>3, <4>1, <4>2 DEF KeptUpTo, N
    <3> QED BY <2>2, <3>5 DEF P, h
  <2>5. CASE k \notin K
    <3>1. h = g
      <4>1. h = g \o << >>
        BY <2>3, <2>5
      <4> QED BY <2>1, <4>1, ConcatEmptySeq
    <3>2. \A i \in 0..n : i <= k => i <= m
      <4>1. k \notin 1..n
        BY <2>5
      <4> QED BY <1>1, <4>1
    <3>3. KeptUpTo(s, h, k, n)
      <4>1. Len(h) <= k
        BY <2>1, <2>2, <3>1
      <4>2. \A i \in 1..Len(h) : \E j \in 1..N : h[i] = s[j]
        BY <2>1, <3>1
      <4> HIDE DEF k
      <4>3. \A i \in 0..n : i <= k => i <= Len(h) /\ \A j \in 1..i : h[j] = s[j]
        BY <2>1, <3>1, <3>2
      <4> QED BY <4>1, <4>2, <4>3 DEF KeptUpTo, N
    <3> QED BY <2>2, <3>3 DEF P, h
  <2> QED BY <2>4, <2>5
<1>8. N \in P
  <2> HIDE DEF P
  <2>1. 0..N \subseteq P
    BY <1>1, <1>6, <1>7, UpToInduction
  <2> QED BY <1>1, <2>1
<1>9. KeptUpTo(s, G[N], N, n) /\ G[N] \in Seq(S)
  BY <1>1, <1>4, <1>8
<1> QED BY <1>3, <1>4, <1>9 DEF N

---------------------------------------------------------------------------
(* A record set whose elements are replaced one by one *)

Changed(e, x) ==
  /\ x \in Elems
  /\ \/ x = e
     \/ e.k = "record" /\ (x.k = "record" => ~HasField(x.items, REC))

LEMMA ChangedRset ==
  ASSUME NEW r \in Rsets, Sound(r), NEW s, s = [j \in DOMAIN r.elems |-> s[j]],
         \A j \in DOMAIN r.elems : Changed(r.elems[j], s[j])
  PROVE  Like(r, WithElems(r, s)) /\ [r EXCEPT !.elems = s] = WithElems(r, s)
<1> DEFINE u == r.elems
           d == r.dpos
<1>1. u \in Seq(Elems) /\ d \in Nat /\ Len(u) \in Nat /\ d <= Len(u)
      /\ Headed(u, d) /\ NoType(u) /\ DOMAIN u = 1..Len(u)
  BY RsetFacts DEF Sound
<1> HIDE DEF u, d
<1>2. \A j \in 1..Len(u) :
        /\ s[j] \in Elems
        /\ \/ s[j] = u[j]
           \/ u[j].k = "record" /\ (s[j].k = "record" => ~HasField(s[j].items, REC))
  <2>1. \A j \in DOMAIN u : Changed(u[j], s[j])
    BY DEF u
  <2>2. DOMAIN u = 1..Len(u)
    BY <1>1
  <2> QED BY ONLY <2>1, <2>2 DEF Changed
<1>3. s \in Seq(Elems) /\ Len(s) = Len(u)
  <2>1. s = [j \in 1..Len(u) |-> s[j]]
    BY <1>1 DEF u
  <2> DEFINE N == Len(u)
             E == Elems
  <2>2. N \in Nat /\ \A j \in 1..N : s[j] \in E
    BY <1>1, <1>2
  <2> HIDE DEF N, E
  <2>3. s = [j \in 1..N |-> s[j]]
    BY <2>1 DEF N
  <2>4. s \in Seq(E) /\ Len(s) = N
    BY ONLY <2>2, <2>3
  <2> QED BY <2>4 DEF N, E
<1>4. Headed(s, d)
  <2> SUFFICES ASSUME NEW i \in 1..d PROVE s[i].k = "comment"
    BY DEF Headed
  <2>1. i \in 1..Len(u) /\ u[i].k = "comment"
    BY <1>1 DEF Headed
  <2> QED BY <1>2, <2>1
<1>5. NoType(s)
  <2> SUFFICES ASSUME NEW i \in 1..Len(s), s[i].k = "record"
               PROVE  ~HasField(s[i].items, REC)
    BY DEF NoType
  <2>1. i \in 1..Len(u)
    BY <1>3
  <2> QED BY <1>1, <1>2, <2>1 DEF NoType
<1> QED BY <1>1, <1>3, <1>4, <1>5, LikeElems DEF d

\* A record that is not a descriptor.
Plain(items) == items \in Seq(Items) /\ ~HasField(items, REC)

LEMMA PlainIs ==
  ASSUME NEW items \in Seq(Items)
  PROVE  Plain(items) <=>
           \A i \in 1..Len(items) : ~(items[i].k = "field" /\ items[i].n = REC)
  BY DEF Plain, HasField

\* The parts of a database that the operations take.
LEMMA ArgsAre ==
  /\ \A n \in Names, v \in Values \cup Names :
       Field(n, v) \in Items /\ ~(Field(n, v).k = "field" /\ Field(n, v).n = REC)
  /\ ToComment \in Items /\ ToComment \in Elems
  /\ ToComment.k = "comment"
<1>1. \A n \in Names, v \in Values \cup Names :
        Field(n, v) \in Items /\ ~(Field(n, v).k = "field" /\ Field(n, v).n = REC)
  BY RecDbAssumption DEF Field, Items
<1>2. "text" \in Contents
  BY RecDbAssumption
<1>3. <<"text">> \in Seq(Contents)
  BY <1>2
<1> QED BY <1>1, <1>3 DEF ToComment, Comment, Items, Elems

LEMMA NewRecordPlain ==
  ASSUME NEW r \in NewRecords
  PROVE  Plain(r) /\ Record(r) \in Elems /\ FieldsIn(Record(r)) = <<r>>
<1>1. PICK n \in Names, v \in Values : r = <<Field(n, v)>>
  BY DEF NewRecords
<1> DEFINE f == Field(n, v)
<1>2. f \in Items /\ ~(f.k = "field" /\ f.n = REC) /\ f.k = "field"
  BY ArgsAre DEF Field
<1> HIDE DEF f
<1>3. r = <<f>>
  BY <1>1 DEF f
<1>4. r \in Seq(Items)
  BY <1>2, <1>3
<1>5. Plain(r)
  <2>1. \A i \in 1..Len(r) : r[i] = f
    BY <1>3
  <2> QED BY <1>2, <1>4, <2>1, PlainIs
<1>6. Fields(r) = r
  <2> DEFINE z == << >>
  <2>1. z \in Seq(Items) /\ Append(z, f) = r
    BY <1>3, EmptySeq
  <2>2. Only(z, "field") = z
    BY <2>1, OnlyIs
  <2> HIDE DEF z
  <2>3. Only(Append(z, f), "field") =
          IF f.k = "field" THEN Append(Only(z, "field"), f) ELSE Only(z, "field")
    BY <1>2, <2>1, OnlyIs, ZenonT(60)
  <2> QED BY <1>2, <2>1, <2>2, <2>3 DEF Fields
<1>7. Record(r) \in Elems /\ Record(r).k = "record" /\ Record(r).items = r
  BY <1>4, RecordElem DEF Record
<1>8. r # << >>
  BY <1>3
<1> QED BY <1>5, <1>6, <1>7, <1>8 DEF FieldsIn

LEMMA ReplacedRset ==
  ASSUME NEW r \in Rsets, Sound(r), NEW sel, NEW items, Plain(items)
  PROVE  Like(r, [r EXCEPT !.elems =
                    [j \in DOMAIN r.elems |->
                       IF Selected(r.elems, sel, j) THEN Record(items)
                       ELSE r.elems[j]]])
<1> DEFINE u == r.elems
           x(j) == IF Selected(u, sel, j) THEN Record(items) ELSE u[j]
           s == [j \in DOMAIN u |-> x(j)]
<1>1. \A j \in DOMAIN u : Changed(u[j], x(j))
  <2> TAKE j \in DOMAIN u
  <2>1. u[j] \in Elems
    BY RsetFacts
  <2>2. Record(items) \in Elems /\ Record(items).items = items
    BY RecordElem DEF Plain, Record
  <2> HIDE DEF u
  <2>3. CASE Selected(u, sel, j)
    BY <2>1, <2>2, <2>3 DEF Selected, Changed, Plain
  <2>4. CASE ~Selected(u, sel, j)
    BY <2>1, <2>4 DEF Changed
  <2> QED BY <2>3, <2>4
<1> HIDE DEF x
<1>2. s = [j \in DOMAIN u |-> s[j]] /\ \A j \in DOMAIN u : Changed(u[j], s[j])
  BY <1>1
<1> HIDE DEF s
<1>3. Like(r, WithElems(r, s)) /\ [r EXCEPT !.elems = s] = WithElems(r, s)
  BY <1>2, ChangedRset
<1> QED BY <1>3 DEF s, x

LEMMA CommentedRset ==
  ASSUME NEW r \in Rsets, Sound(r), NEW sel
  PROVE  Like(r, [r EXCEPT !.elems = CommentSelected(r.elems, sel)])
<1> DEFINE u == r.elems
           x(j) == IF Selected(u, sel, j) THEN ToComment ELSE u[j]
           s == [j \in DOMAIN u |-> x(j)]
<1>1. \A j \in DOMAIN u : Changed(u[j], x(j))
  <2> TAKE j \in DOMAIN u
  <2>1. u[j] \in Elems
    BY RsetFacts
  <2> HIDE DEF u
  <2>3. CASE Selected(u, sel, j)
    BY <2>1, <2>3, ArgsAre DEF Selected, Changed
  <2>4. CASE ~Selected(u, sel, j)
    BY <2>1, <2>4 DEF Changed
  <2> QED BY <2>3, <2>4
<1> HIDE DEF x
<1>2. s = [j \in DOMAIN u |-> s[j]] /\ \A j \in DOMAIN u : Changed(u[j], s[j])
  BY <1>1
<1> HIDE DEF s
<1>3. Like(r, WithElems(r, s)) /\ [r EXCEPT !.elems = s] = WithElems(r, s)
  BY <1>2, ChangedRset
<1>4. s = CommentSelected(r.elems, sel)
  BY DEF s, x, CommentSelected
<1> QED BY <1>3, <1>4

LEMMA DeletedRset ==
  ASSUME NEW r \in Rsets, Sound(r), NEW sel
  PROVE  Like(r, [r EXCEPT !.elems = DeleteSelected(r.elems, sel)])
<1> DEFINE u == r.elems
           d == r.dpos
           K == {j \in DOMAIN u : ~Selected(u, sel, j)}
           s == Keep(u, K)
<1>1. u \in Seq(Elems) /\ d \in Nat /\ Len(u) \in Nat /\ d <= Len(u)
      /\ Headed(u, d) /\ NoType(u) /\ DOMAIN u = 1..Len(u)
  BY RsetFacts DEF Sound
<1> HIDE DEF u, d
<1>2. \A i \in 1..d : i \in K
  BY <1>1 DEF Headed, Selected
<1> HIDE DEF K
<1>3. s \in Seq(Elems) /\ KeptUpTo(u, s, Len(u), d)
  BY <1>1, <1>2, KeepIs
<1> HIDE DEF s
<1>4. d <= Len(s) /\ \A i \in 1..d : s[i] = u[i]
  BY <1>1, <1>3 DEF KeptUpTo
<1>5. Headed(s, d)
  BY <1>1, <1>4 DEF Headed
<1>6. NoType(s)
  <2> SUFFICES ASSUME NEW i \in 1..Len(s), s[i].k = "record"
               PROVE  ~HasField(s[i].items, REC)
    BY DEF NoType
  <2>1. PICK j \in 1..Len(u) : s[i] = u[j]
    BY <1>3 DEF KeptUpTo
  <2> QED BY <1>1, <2>1 DEF NoType
<1>7. s = DeleteSelected(r.elems, sel)
  BY DEF s, u, K, DeleteSelected
<1> QED BY <1>3, <1>4, <1>5, <1>6, <1>7, LikeElems DEF d

---------------------------------------------------------------------------
(* rec_db_set *)

NotRec(x) == x \in Items /\ ~(x.k = "field" /\ x.n = REC)

LEMMA PlainMembers ==
  /\ \A items : Plain(items) =>
       items \in Seq(Items) /\ \A i \in DOMAIN items : NotRec(items[i])
  /\ \A s \in Seq(Items) : (\A i \in DOMAIN s : NotRec(s[i])) => Plain(s)
<1>1. ASSUME NEW items, Plain(items)
      PROVE  items \in Seq(Items) /\ \A i \in DOMAIN items : NotRec(items[i])
  <2>1. items \in Seq(Items)
    BY <1>1 DEF Plain
  <2>2. \A i \in 1..Len(items) : ~(items[i].k = "field" /\ items[i].n = REC)
    BY <1>1, <2>1, PlainIs
  <2> QED BY <2>1, <2>2 DEF NotRec
<1>2. ASSUME NEW s \in Seq(Items), \A i \in DOMAIN s : NotRec(s[i])
      PROVE  Plain(s)
  <2>1. \A i \in 1..Len(s) : ~(s[i].k = "field" /\ s[i].n = REC)
    BY <1>2 DEF NotRec
  <2> QED BY <2>1, PlainIs
<1> QED BY <1>1, <1>2

LEMMA PlainAppend ==
  ASSUME NEW s, Plain(s), NEW x, NotRec(x)
  PROVE  Plain(Append(s, x))
<1> DEFINE u == Append(s, x)
<1>1. s \in Seq(Items) /\ (\A i \in 1..Len(s) : NotRec(s[i])) /\ x \in Items
  BY PlainMembers DEF NotRec
<1>2. u \in Seq(Items) /\ Len(u) = Len(s) + 1 /\ u[Len(s) + 1] = x
      /\ \A i \in 1..Len(s) : u[i] = s[i]
  BY <1>1, AppendProperties
<1> HIDE DEF u
<1>3. \A i \in 1..Len(u) : NotRec(u[i])
  BY <1>1, <1>2
<1>4. DOMAIN u = 1..Len(u)
  BY <1>2
<1> QED BY <1>2, <1>3, <1>4, PlainMembers DEF u

\* A field that is renamed or set, or commented out.
LEMMA ItemArgs ==
  /\ \A n \in Names, v \in Values : NotRec(Field(n, v))
  /\ \A items : Plain(items) =>
       \A i \in DOMAIN items, n, m \in Names : \A w :
         Hit(items, i, n, w) => NotRec(Field(m, items[i].v))
  /\ NotRec(ToComment)
<1>1. \A n \in Names, v \in Values : NotRec(Field(n, v))
  BY ArgsAre DEF NotRec
<1>2. ASSUME NEW items, Plain(items), NEW i \in DOMAIN items, NEW n \in Names,
             NEW w, NEW m \in Names, Hit(items, i, n, w)
      PROVE  NotRec(Field(m, items[i].v))
  <2>1. items[i] \in Items /\ items[i].k = "field"
    BY <1>2, PlainMembers DEF Hit, NotRec
  <2>2. items[i].v \in Contents
    BY <2>1 DEF Items
  <2>3. m \in Contents /\ m # REC
    BY RecDbAssumption
  <2> QED BY <2>2, <2>3 DEF NotRec, Field, Items
<1>3. NotRec(ToComment)
  BY ArgsAre DEF NotRec
<1> QED BY <1>1, <1>2, <1>3

LEMMA ActRenamePlain ==
  ASSUME NEW items, Plain(items), NEW n \in Names, NEW w, NEW m \in Names
  PROVE  Plain(ActRename(items, n, w, m))
<1> DEFINE x(i) == IF Hit(items, i, n, w) THEN Field(m, items[i].v) ELSE items[i]
           s == [i \in DOMAIN items |-> x(i)]
<1>1. items \in Seq(Items) /\ \A i \in DOMAIN items : NotRec(items[i])
  BY PlainMembers
<1>2. \A i \in DOMAIN items : NotRec(x(i))
  <2> TAKE i \in DOMAIN items
  <2>1. Hit(items, i, n, w) => NotRec(Field(m, items[i].v))
    BY ItemArgs
  <2>2. CASE Hit(items, i, n, w)
    BY <2>1, <2>2
  <2>3. CASE ~Hit(items, i, n, w)
    BY <1>1, <2>3
  <2> QED BY <2>2, <2>3
<1> HIDE DEF x
<1>3. \A i \in DOMAIN items : x(i) \in Items
  BY <1>2 DEF NotRec
<1>4. s \in Seq(Items) /\ \A i \in DOMAIN s : NotRec(s[i])
  BY <1>1, <1>2, <1>3
<1> HIDE DEF s
<1>5. Plain(s)
  BY <1>4, PlainMembers
<1> QED BY <1>5 DEF s, x, ActRename

LEMMA ActSetPlain ==
  ASSUME NEW items, Plain(items), NEW n \in Names, NEW w, NEW v \in Values, NEW a
  PROVE  Plain(ActSet(items, n, w, v, a))
<1> DEFINE x(i) == IF Hit(items, i, n, w) THEN Field(n, v) ELSE items[i]
           s == [i \in DOMAIN items |-> x(i)]
<1>1. items \in Seq(Items) /\ \A i \in DOMAIN items : NotRec(items[i])
  BY PlainMembers
<1>2. \A i \in DOMAIN items : NotRec(x(i))
  BY <1>1, ItemArgs
<1> HIDE DEF x
<1>3. \A i \in DOMAIN items : x(i) \in Items
  BY <1>2 DEF NotRec
<1>4. s \in Seq(Items) /\ \A i \in DOMAIN s : NotRec(s[i])
  BY <1>1, <1>2, <1>3
<1> HIDE DEF s
<1>5. Plain(s)
  BY <1>4, PlainMembers
<1>6. Plain(Append(s, Field(n, v)))
  BY <1>5, ItemArgs, PlainAppend
<1>7. \/ ActSet(items, n, w, v, a) = s
      \/ ActSet(items, n, w, v, a) = Append(s, Field(n, v))
  BY DEF s, x, ActSet
<1> QED BY <1>5, <1>6, <1>7

LEMMA ActDeletePlain ==
  ASSUME NEW items, Plain(items), NEW n \in Names, NEW w, NEW c
  PROVE  Plain(ActDelete(items, n, w, c))
<1> DEFINE x(i) == IF Hit(items, i, n, w) THEN ToComment ELSE items[i]
           s == [i \in DOMAIN items |-> x(i)]
           K == {i \in DOMAIN items : ~Hit(items, i, n, w)}
           k == Keep(items, K)
<1>1. items \in Seq(Items) /\ \A i \in DOMAIN items : NotRec(items[i])
  BY PlainMembers
<1>2. \A i \in DOMAIN items : NotRec(x(i))
  BY <1>1, ItemArgs
<1> HIDE DEF x
<1>3. \A i \in DOMAIN items : x(i) \in Items
  BY <1>2 DEF NotRec
<1>4. s \in Seq(Items) /\ \A i \in DOMAIN s : NotRec(s[i])
  BY <1>1, <1>2, <1>3
<1> HIDE DEF s, k
<1>5. Plain(s)
  BY <1>4, PlainMembers
<1>6. Plain(k)
  <2>1. 0 \in 0..Len(items) /\ \A i \in 1..0 : i \in K
    BY <1>1
  <2> HIDE DEF K
  <2>2. k \in Seq(Items) /\ KeptUpTo(items, k, Len(items), 0)
    BY <1>1, <2>1, KeepIs DEF k
  <2>3. \A i \in 1..Len(k) : \E j \in 1..Len(items) : k[i] = items[j]
    BY <2>2 DEF KeptUpTo
  <2>4. \A i \in DOMAIN k : NotRec(k[i])
    BY <1>1, <2>2, <2>3
  <2> QED BY <2>2, <2>4, PlainMembers
<1>7. ActDelete(items, n, w, c) = s \/ ActDelete(items, n, w, c) = k
  BY DEF s, k, x, ActDelete
<1> QED BY <1>5, <1>6, <1>7

SetArgs(act, v) ==
  \/ act = "rename" /\ v \in Names
  \/ act \in Actions /\ v \in Values

LEMMA ActPlain ==
  ASSUME NEW items, Plain(items), NEW act, NEW n \in Names, NEW w, NEW v,
         SetArgs(act, v)
  PROVE  Plain(Act(items, act, n, w, v))
<1>1. CASE act = "rename"
  <2>1. v \in Names
    BY <1>1 DEF SetArgs, Actions
  <2>2. Act(items, act, n, w, v) = ActRename(items, n, w, v)
    BY <1>1 DEF Act
  <2> QED BY <2>1, <2>2, ActRenamePlain
<1>2. CASE act # "rename"
  <2>1. v \in Values /\ act \in {"set", "setadd", "add", "delete", "comment"}
    BY <1>2 DEF SetArgs, Actions
  <2>2. CASE act = "set"
    <3>1. Act(items, act, n, w, v) = ActSet(items, n, w, v, FALSE)
      BY <2>2 DEF Act
    <3> QED BY <2>1, <3>1, ActSetPlain
  <2>3. CASE act = "setadd"
    <3>1. Act(items, act, n, w, v) = ActSet(items, n, w, v, TRUE)
      BY <2>3 DEF Act
    <3> QED BY <2>1, <3>1, ActSetPlain
  <2>4. CASE act = "add"
    <3>1. Act(items, act, n, w, v) = Append(items, Field(n, v))
      BY <2>4 DEF Act, ActAdd
    <3> QED BY <2>1, <3>1, ItemArgs, PlainAppend
  <2>5. CASE act = "delete"
    <3>1. Act(items, act, n, w, v) = ActDelete(items, n, w, FALSE)
      BY <2>5 DEF Act
    <3> QED BY <3>1, ActDeletePlain
  <2>6. CASE act = "comment"
    <3>1. Act(items, act, n, w, v) = ActDelete(items, n, w, TRUE)
      BY <2>6 DEF Act
    <3> QED BY <3>1, ActDeletePlain
  <2> QED BY <2>1, <2>2, <2>3, <2>4, <2>5, <2>6
<1> QED BY <1>1, <1>2

\* Renaming the key in a descriptor leaves its type.
LEMMA RenamedDesc ==
  ASSUME NEW d \in Descs, d # None, NEW n \in Names, NEW m \in Names
  PROVE  LET e == RenameInDescriptor(d, n, m)
         IN e \in Descs /\ e # None /\ TypeIn(e) = TypeIn(d)
<1> DEFINE x(i) == IF d[i] = Field(KEY, n) THEN Field(KEY, m) ELSE d[i]
           e == [i \in DOMAIN d |-> x(i)]
<1>1. d \in Seq(Items) /\ HasField(d, REC) /\ DOMAIN d = 1..Len(d)
  BY DEF Descs
<1>2. KEY \in Contents /\ KEY # REC /\ m \in Contents
  BY RecDbAssumption
<1>3. \A i \in 1..Len(d) :
        /\ x(i) \in Items
        /\ (x(i).k = "field" /\ x(i).n = REC) <=> (d[i].k = "field" /\ d[i].n = REC)
        /\ (d[i].k = "field" /\ d[i].n = REC) => x(i) = d[i]
  <2> TAKE i \in 1..Len(d)
  <2>1. d[i] \in Items
    BY <1>1
  <2>2. CASE d[i] = Field(KEY, n)
    <3>1. d[i].v \in Contents /\ x(i) = Field(KEY, m)
      BY <2>1, <2>2 DEF Field, Items
    <3>2. d[i].k = "field" /\ d[i].n = KEY /\ x(i).k = "field" /\ x(i).n = KEY
      BY <2>2, <3>1 DEF Field
    <3>3. x(i) \in Items
      BY <1>2, <3>1 DEF Field, Items
    <3> QED BY <1>2, <3>2, <3>3
  <2>3. CASE d[i] # Field(KEY, n)
    BY <2>1, <2>3
  <2> QED BY <2>2, <2>3
<1> HIDE DEF x
<1>4. e \in Seq(Items) /\ Len(e) = Len(d) /\ DOMAIN e = 1..Len(d)
      /\ \A i \in 1..Len(d) : e[i] = x(i)
  BY <1>1, <1>3
<1> HIDE DEF e
<1>5. Places(e) = Places(d)
  BY <1>1, <1>3, <1>4 DEF Places
<1>6. HasField(e, REC)
  BY <1>1, <1>4, <1>5, PlacesIs
<1>7. FieldValue(e, REC) = FieldValue(d, REC)
  <2> DEFINE S == Places(d)
             k == Min(S)
  <2>1. S \in SUBSET Nat /\ S # {} /\ S \in SUBSET (1..Len(d))
    BY <1>1, PlacesIs
  <2>2. k \in S
    <3> HIDE DEF S
    <3> QED BY <2>1, MinPlace
  <2>3. FieldValue(e, REC) = e[k].v /\ FieldValue(d, REC) = d[k].v
    BY <1>1, <1>4, <1>5, PlacesIs
  <2> HIDE DEF k
  <2>4. k \in 1..Len(d) /\ d[k].k = "field" /\ d[k].n = REC
    BY <1>1, <2>2 DEF Places
  <2>5. e[k] = d[k]
    BY <1>3, <1>4, <2>4
  <2> QED BY <2>3, <2>5
<1>8. e # None
  <2>1. None \notin Seq(Items)
    BY RecTextAssumption
  <2> QED BY <1>4, <2>1
<1>9. e = RenameInDescriptor(d, n, m)
  BY DEF e, x, RenameInDescriptor
<1> QED BY <1>1, <1>4, <1>6, <1>7, <1>8, <1>9 DEF Descs, TypeIn

\* A record set with another descriptor and other elements.
LEMMA RsetWith ==
  ASSUME NEW r, NEW A, NEW B, NEW C, r \in [desc : A, dpos : B, elems : C],
         NEW d, NEW s
  PROVE  [r EXCEPT !.desc = d, !.elems = s] = [desc |-> d, dpos |-> r.dpos, elems |-> s]
<1> DEFINE y == [r EXCEPT !.desc = d, !.elems = s]
<1>1. DOMAIN r = {"desc", "dpos", "elems"}
  OBVIOUS
<1>2. DOMAIN y = {"desc", "dpos", "elems"} /\ y = [f \in DOMAIN y |-> y[f]]
  BY <1>1
<1>3. y.desc = d /\ y.dpos = r.dpos /\ y.elems = s
  BY <1>1
<1> HIDE DEF y
<1>4. y = [desc |-> d, dpos |-> r.dpos, elems |-> s]
  BY <1>2, <1>3
<1> QED BY <1>4 DEF y

LEMMA SetIs ==
  ASSUME NEW r \in Rsets, Sound(r), NEW sel, NEW act, NEW n \in Names, NEW w,
         NEW v, SetArgs(act, v)
  PROVE  Like(r, SetRset(r, sel, act, n, w, v))
<1> DEFINE u == r.elems
           x(j) == IF Selected(u, sel, j) THEN Record(Act(u[j].items, act, n, w, v))
                   ELSE u[j]
           s == [j \in DOMAIN u |-> x(j)]
           d == SetDescriptor(r, sel, act, n, w, v)
           q == [desc |-> d, dpos |-> r.dpos, elems |-> s]
<1>1. \A j \in DOMAIN u : Changed(u[j], x(j))
  <2> TAKE j \in DOMAIN u
  <2>1. u[j] \in Elems
    BY RsetFacts
  <2>2. u[j].k = "record" => ~HasField(u[j].items, REC)
    <3>1. u \in Seq(Elems) /\ NoType(u)
      BY RsetFacts DEF Sound
    <3> HIDE DEF u
    <3>2. j \in 1..Len(u)
      BY <3>1
    <3> QED BY <3>1, <3>2 DEF NoType
  <2> HIDE DEF u
  <2>3. CASE Selected(u, sel, j)
    <3> DEFINE i == u[j].items
               a == Act(i, act, n, w, v)
    <3>1. u[j].k = "record" /\ x(j) = Record(a)
      BY <2>3 DEF Selected
    <3>2. Plain(i)
      BY <2>1, <2>2, <3>1 DEF Plain, Elems
    <3> HIDE DEF i
    <3>3. Plain(a)
      BY <3>2, ActPlain
    <3> HIDE DEF a, x
    <3>4. x(j) \in Elems /\ x(j).items = a
      BY <3>1, <3>3, RecordElem DEF Plain, Record
    <3> QED BY <3>1, <3>3, <3>4 DEF Changed, Plain
  <2>4. CASE ~Selected(u, sel, j)
    BY <2>1, <2>4 DEF Changed
  <2> QED BY <2>3, <2>4
<1> HIDE DEF x
<1>2. s = [j \in DOMAIN u |-> s[j]] /\ \A j \in DOMAIN u : Changed(u[j], s[j])
  BY <1>1
<1>3. SetRset(r, sel, act, n, w, v) = r \/ SetRset(r, sel, act, n, w, v) = q
  <2>1. CASE NumRecords(r) = 0
    BY <2>1 DEF SetRset
  <2>2. CASE NumRecords(r) # 0
    <3>1. SetRset(r, sel, act, n, w, v) = [r EXCEPT !.desc = d, !.elems = s]
      BY <2>2 DEF SetRset, x
    <3> HIDE DEF d, s
    <3>2. [r EXCEPT !.desc = d, !.elems = s] = q
      <4> DEFINE A == {None} \cup Descs
                 B == Seq(Elems)
      <4>1. r \in [desc : A, dpos : Nat, elems : B]
        BY DEF Rsets
      <4> HIDE DEF A, B
      <4> QED BY <4>1, RsetWith
    <3> QED BY <3>1, <3>2
  <2> QED BY <2>1, <2>2
<1> HIDE DEF s
<1>4. Like(r, WithElems(r, s))
  BY <1>2, ChangedRset
<1>5. d = r.desc \/ (act = "rename" /\ d = RenameInDescriptor(r.desc, n, v))
  BY DEF SetDescriptor
<1> HIDE DEF d
<1>6. d \in {None} \cup Descs
      /\ IF r.desc = None THEN d = None ELSE d # None /\ TypeIn(d) = TypeIn(r.desc)
  <2>1. r.desc \in {None} \cup Descs
    BY DEF Rsets
  <2>2. CASE d = r.desc
    BY <2>1, <2>2
  <2>3. CASE act = "rename" /\ d = RenameInDescriptor(r.desc, n, v)
    <3>1. v \in Names
      BY <2>3 DEF SetArgs, Actions
    <3>2. CASE r.desc = None
      BY <2>3, <3>2 DEF RenameInDescriptor
    <3>3. CASE r.desc # None
      <4> DEFINE c == r.desc
      <4>1. c \in Descs /\ c # None
        BY <2>1, <3>3
      <4> HIDE DEF c
      <4>2. LET e == RenameInDescriptor(c, n, v)
            IN e \in Descs /\ e # None /\ TypeIn(e) = TypeIn(c)
        BY <3>1, <4>1, RenamedDesc
      <4> QED BY <2>3, <3>3, <4>2 DEF c
    <3> QED BY <3>2, <3>3
  <2> QED BY <1>5, <2>2, <2>3
<1>7. /\ s \in Seq(Elems) /\ r.dpos \in Nat /\ r.dpos <= Len(s)
      /\ Headed(s, r.dpos) /\ NoType(s)
  <2> DEFINE y == WithElems(r, s)
  <2>1. y.elems = s /\ y.dpos = r.dpos
    BY DEF WithElems
  <2> HIDE DEF y
  <2>2. y \in Rsets /\ Sound(y)
    BY <1>4 DEF Like, y
  <2> QED BY <2>1, <2>2, RsetFacts DEF Sound
<1>8. q.desc = d /\ q.dpos = r.dpos /\ q.elems = s
  OBVIOUS
<1>9. q \in Rsets
  BY <1>6, <1>7 DEF Rsets
<1> HIDE DEF q
<1>10. Sound(q)
  BY <1>7, <1>8 DEF Sound
<1>11. RsetType(q) = RsetType(r)
  <2>1. CASE r.desc = None
    BY <1>6, <1>8, <1>9, <2>1, RsetTypeIs
  <2>2. CASE r.desc # None
    BY <1>6, <1>8, <1>9, <2>2, RsetTypeIs
  <2> QED BY <2>1, <2>2
<1>12. Like(r, q)
  BY <1>6, <1>8, <1>9, <1>10, <1>11 DEF Like
<1>13. Like(r, r)
  BY DEF Like
<1> QED BY <1>3, <1>12, <1>13

---------------------------------------------------------------------------
(* rec_db_insert, and the initial databases *)

LEMMA SaneNone == Sane(<< >>) /\ Types(<< >>) = {}
<1> DEFINE z == << >>
<1>1. z \in Seq(Rsets) /\ Len(z) = 0
  BY EmptySeq
<1> HIDE DEF z
<1>2. DescribedDb(z) /\ Fine(z, Kinds) /\ Types(z) = {}
  BY <1>1 DEF DescribedDb, Fine, Types
<1> QED BY <1>1, <1>2 DEF Sane, z

\* A record set behind those of other types.
LEMMA SaneAdd ==
  ASSUME NEW d, Sane(d), NEW r \in Rsets, Sound(r), r.desc # None,
         RsetType(r) \in Kinds, RsetType(r) \notin Types(d)
  PROVE  Sane(Append(d, r))
<1> DEFINE u == Append(d, r)
           k == RsetType(r)
<1>1. d \in Seq(Rsets) /\ DescribedDb(d) /\ Fine(d, Kinds)
  BY DEF Sane
<1>2. u \in Seq(Rsets) /\ Len(u) = Len(d) + 1 /\ Len(d) \in Nat
      /\ u[Len(d) + 1] = r /\ \A i \in 1..Len(d) : u[i] = d[i]
  BY <1>1, AppendProperties
<1>3. Fine(d, Types(d)) /\ Types(d) \subseteq Kinds
  BY <1>1 DEF Fine, Types
<1>4. Fine(u, Types(d) \cup {k})
  BY <1>1, <1>3, FineAppend
<1>5. Types(d) \cup {k} \subseteq Kinds
  BY <1>3
<1> HIDE DEF u, k
<1>6. Fine(u, Kinds)
  BY <1>4, <1>5 DEF Fine
<1>7. DescribedDb(u)
  <2> SUFFICES ASSUME NEW i \in 2..Len(u) PROVE u[i].desc # None
    BY DEF DescribedDb
  <2>1. i \in 2..Len(d) \/ i = Len(d) + 1
    BY <1>2
  <2> QED BY <1>1, <1>2, <2>1 DEF DescribedDb
<1> QED BY <1>2, <1>6, <1>7 DEF Sane, u

\* A record set without a descriptor before the others.
LEMMA SanePut ==
  ASSUME NEW d, Sane(d), NEW r \in Rsets, Sound(r), RsetType(r) = None,
         None \notin Types(d)
  PROVE  /\ <<r>> \o d \in Seq(Rsets) /\ Len(<<r>> \o d) = Len(d) + 1
         /\ (<<r>> \o d)[1] = r
         /\ \A i \in 2..Len(d) + 1 : RsetType((<<r>> \o d)[i]) # None
         /\ Sane(<<r>> \o d)
<1> DEFINE a == <<r>>
           u == a \o d
           N == Len(d)
           R(x) == RsetType(x)
           D(x) == x.desc
<1>1. d \in Seq(Rsets) /\ DescribedDb(d) /\ Fine(d, Kinds) /\ N \in Nat
  BY DEF Sane
<1>2. u \in Seq(Rsets) /\ Len(u) = N + 1 /\ u[1] = r
      /\ \A i \in 2..N + 1 : u[i] = d[i - 1] /\ i - 1 \in 1..N
  <2>1. a \in Seq(Rsets) /\ Len(a) = 1 /\ a[1] = r
    OBVIOUS
  <2> HIDE DEF a
  <2>2. u \in Seq(Rsets) /\ Len(u) = Len(a) + N
        /\ \A i \in 1..(Len(a) + N) :
             u[i] = IF i <= Len(a) THEN a[i] ELSE d[i - Len(a)]
    BY <1>1, <2>1, ConcatProperties
  <2> HIDE DEF u
  <2>3. u \in Seq(Rsets) /\ Len(u) = N + 1
        /\ \A i \in 1..(1 + N) : u[i] = IF i <= 1 THEN r ELSE d[i - 1]
    <3>1. \A i \in 1..(1 + N) : i <= 1 => i = 1
      BY <1>1
    <3> QED BY <1>1, <2>1, <2>2, <3>1
  <2> QED BY <1>1, <2>3
<1>3. /\ \A i \in 1..N : R(d[i]) \in Kinds /\ Sound(d[i]) /\ R(d[i]) # None
      /\ \A i, j \in 1..N : R(d[i]) = R(d[j]) => i = j
  BY <1>1 DEF Fine, Types
<1>4. \A i \in 1..N : D(d[i]) # None
  BY <1>1, <1>3, RsetTypeIs
<1> HIDE DEF u, N, R, D
<1>5. \A i \in 1..N + 1 : i = 1 \/ i \in 2..N + 1
  BY <1>1
<1>6. /\ \A i \in 2..N + 1 : D(u[i]) # None /\ R(u[i]) # None /\ R(u[i]) \in Kinds
                             /\ Sound(u[i])
      /\ R(r) = None /\ None \in Kinds
  BY <1>2, <1>3, <1>4 DEF Kinds, R
<1>7. \A i, j \in 2..N + 1 : R(u[i]) = R(u[j]) => i = j
  <2> TAKE i, j \in 2..N + 1
  <2>1. R(u[i]) = R(u[j]) => i - 1 = j - 1
    BY <1>2, <1>3
  <2> QED BY <1>1, <2>1
<1>8. \A i, j \in 1..N + 1 : R(u[i]) = R(u[j]) => i = j
  BY <1>2, <1>5, <1>6, <1>7
<1>9. \A i \in 1..N + 1 : R(u[i]) \in Kinds /\ Sound(u[i])
  BY <1>2, <1>5, <1>6
<1>10. DescribedDb(u) /\ Fine(u, Kinds)
  BY <1>2, <1>6, <1>8, <1>9 DEF DescribedDb, Fine, R, D
<1> QED BY <1>2, <1>6, <1>10 DEF Sane, u, N, R

LEMMA NoRsetOfType ==
  ASSUME NEW d \in Seq(Rsets), NEW t, RsetByType(d, t) = {}
  PROVE  \A i \in 1..Len(d) : RsetType(d[i]) # t
<1> DEFINE S == RsetsOfType(d, t)
<1>1. S \in SUBSET Nat /\ DOMAIN d = 1..Len(d)
  BY DEF RsetsOfType
<1>2. S = {}
  <2> SUFFICES ASSUME S # {} PROVE FALSE
    OBVIOUS
  <2> HIDE DEF S
  <2>1. \E m \in S : \A x \in S : m <= x
    BY <1>1, NatMin
  <2> QED BY <2>1 DEF RsetByType, S
<1> QED BY <1>1, <1>2 DEF RsetsOfType

\* A descriptor that begins with the type.
LEMMA TypeDesc ==
  ASSUME NEW t \in TypeArgs, t # None
  PROVE  /\ <<Field(REC, t)>> \in Descs /\ TypeIn(<<Field(REC, t)>>) = t
         /\ \A n \in Names : /\ <<Field(REC, t), Field(KEY, n)>> \in Descs
                             /\ TypeIn(<<Field(REC, t), Field(KEY, n)>>) = t
<1> DEFINE z == << >>
           f == Field(REC, t)
<1>1. f \in Items /\ f.k = "field" /\ f.n = REC /\ f.v = t
  BY RecDbAssumption, RecTextAssumption DEF Field, Items
<1>2. z \in Seq(Items) /\ ~HasField(z, REC)
  BY EmptySeq DEF HasField
<1> HIDE DEF z, f
<1> DEFINE a == Append(z, f)
<1>3. HasField(a, REC) /\ TypeIn(a) = t /\ a \in Seq(Items)
  BY <1>1, <1>2, TypeInAppend, AppendProperties
<1>4. a = <<f>>
  BY DEF z
<1> HIDE DEF a
<1>5. ASSUME NEW n \in Names
      PROVE  <<f, Field(KEY, n)>> \in Descs /\ TypeIn(<<f, Field(KEY, n)>>) = t
  <2> DEFINE g == Field(KEY, n)
             b == Append(a, g)
  <2>1. g \in Items
    BY RecDbAssumption DEF Field, Items
  <2> HIDE DEF g
  <2>2. HasField(b, REC) /\ TypeIn(b) = TypeIn(a) /\ b \in Seq(Items)
    BY <1>3, <2>1, TypeInAppend, AppendProperties
  <2>3. b = <<f, g>>
    <3>1. Len(a) = 1 /\ a[1] = f
      BY <1>4
    <3>2. Len(b) = 2 /\ b[1] = f /\ b[2] = g /\ b \in Seq(Items)
      <4> DEFINE E == Items
      <4>1. a \in Seq(E) /\ g \in E
        BY <1>3, <2>1
      <4> HIDE DEF E
      <4>2. b \in Seq(E) /\ Len(b) = Len(a) + 1
            /\ (\A i \in 1..Len(a) : b[i] = a[i]) /\ b[Len(a) + 1] = g
        BY ONLY <4>1, AppendProperties
      <4> HIDE DEF b
      <4> QED BY <3>1, <4>2 DEF E
    <3> HIDE DEF b
    <3> QED BY <3>2
  <2> QED BY <1>3, <2>2, <2>3 DEF Descs, g
<1> QED BY <1>3, <1>4, <1>5 DEF Descs, f

LEMMA NewRsetIs ==
  ASSUME NEW d \in {None} \cup Descs
  PROVE  /\ NewRset(d) \in Rsets /\ Sound(NewRset(d)) /\ NewRset(d).desc = d
         /\ \A x \in Elems : (x.k = "record" => ~HasField(x.items, REC)) =>
              LET q == [NewRset(d) EXCEPT !.elems = <<x>>]
              IN q \in Rsets /\ Sound(q) /\ q.desc = d /\ q.elems = <<x>>
<1>1. NewRset(d) \in Rsets /\ Sound(NewRset(d)) /\ NewRset(d).desc = d
  BY EmptySeq DEF NewRset, Rsets, Sound, Headed, NoType
<1>2. ASSUME NEW x \in Elems, x.k = "record" => ~HasField(x.items, REC)
      PROVE  LET q == [NewRset(d) EXCEPT !.elems = <<x>>]
             IN q \in Rsets /\ Sound(q) /\ q.desc = d /\ q.elems = <<x>>
  <2> DEFINE q == [NewRset(d) EXCEPT !.elems = <<x>>]
  <2>1. q = [desc |-> d, dpos |-> 0, elems |-> <<x>>]
    BY DEF NewRset
  <2>2. <<x>> \in Seq(Elems) /\ Len(<<x>>) = 1 /\ <<x>>[1] = x
    OBVIOUS
  <2>3. q.desc = d /\ q.dpos = 0 /\ q.elems = <<x>>
    BY <2>1
  <2>4. q \in Rsets
    <3> DEFINE s == <<x>>
    <3>1. s \in Seq(Elems) /\ Len(s) = 1 /\ q = [desc |-> d, dpos |-> 0, elems |-> s]
      BY <2>1, <2>2
    <3> HIDE DEF s, q
    <3>2. 0 \in Nat /\ 0 <= Len(s)
      BY <3>1
    <3> QED BY <3>1, <3>2, RsetIs
  <2> HIDE DEF q
  <2>5. Sound(q)
    BY <1>2, <2>2, <2>3 DEF Sound, Headed, NoType
  <2> QED BY <2>3, <2>4, <2>5 DEF q
<1> QED BY <1>1, <1>2

\* A record is added to the record set of its type.
LEMMA InsertedThere ==
  ASSUME NEW d, Sane(d), NEW t, RsetByType(d, t) # {}, NEW items \in NewRecords
  PROVE  /\ Sane(Inserted(d, t, items))
         /\ RecordsOf(Inserted(d, t, items), t) = Append(RecordsOf(d, t), items)
<1> DEFINE N == Len(d)
           S == RsetByType(d, t)
           x == Record(items)
           ins(r) == [r EXCEPT !.elems = InsertAt(r.elems, InsertIndex(r), x)]
           e == [i \in DOMAIN d |-> IF i \notin S THEN d[i] ELSE ins(d[i])]
           R(r) == RsetType(r)
           F(r) == FieldsOf(r.elems)
<1>1. d \in Seq(Rsets) /\ N \in Nat /\ DOMAIN d = 1..N /\ Fine(d, Kinds)
  BY DEF Sane
<1>2. Inserted(d, t, items) = e
  BY DEF Inserted
<1>3. x \in Elems /\ (x.k = "record" => ~HasField(x.items, REC))
      /\ FieldsIn(x) = <<items>> /\ items \in Seq(Items)
  BY NewRecordPlain DEF Plain, Record
<1> HIDE DEF x
<1>4. ASSUME NEW i \in 1..N
      PROVE  /\ Like(d[i], ins(d[i])) /\ F(ins(d[i])) = F(d[i]) \o <<items>>
             /\ Like(d[i], d[i])
  <2> DEFINE r == d[i]
             u == InsertAt(r.elems, InsertIndex(r), x)
  <2>1. r \in Rsets /\ Sound(r)
    BY <1>1 DEF Fine
  <2> HIDE DEF r
  <2>2. /\ Like(r, WithElems(r, u)) /\ [r EXCEPT !.elems = u] = WithElems(r, u)
        /\ FieldsOf(u) = FieldsOf(r.elems) \o FieldsIn(x)
    BY <1>3, <2>1, InsertedRset
  <2>3. ins(r) = WithElems(r, u) /\ WithElems(r, u).elems = u
    BY <2>2 DEF WithElems
  <2>4. Like(r, r)
    BY <2>1 DEF Like
  <2> HIDE DEF u, ins
  <2>5. Like(r, ins(r)) /\ F(ins(r)) = F(r) \o <<items>> /\ Like(r, r)
    BY <1>3, <2>2, <2>3, <2>4
  <2> QED BY <2>5 DEF r
<1> HIDE DEF ins, F, S
<1>5. Len(e) = N /\ e = [i \in 1..N |-> e[i]] /\ DOMAIN e = 1..N
      /\ \A i \in 1..N : e[i] = IF i \notin S THEN d[i] ELSE ins(d[i])
  BY <1>1
<1> HIDE DEF e
<1>6. \A i \in 1..N : Like(d[i], e[i])
  BY <1>4, <1>5
<1>7. Sane(e)
  BY <1>5, <1>6, SaneMap
<1>8. S \subseteq {i \in 1..N : R(d[i]) = t}
  BY <1>1 DEF S, RsetByType, RsetsOfType
<1>9. PICK m \in S : TRUE
  BY DEF S
<1>10. m \in 1..N /\ R(d[m]) = t
  BY <1>8, <1>9
<1>11. /\ \A i \in 1..N : R(e[i]) = R(d[i])
       /\ \A i \in 1..N : R(d[i]) = t => i = m
  <2>1. \A i \in 1..N : R(e[i]) = R(d[i])
    BY <1>6 DEF Like
  <2>2. \A i, j \in 1..N : R(d[i]) = R(d[j]) => i = j
    BY <1>1 DEF Fine
  <2> HIDE DEF R
  <2> QED BY <1>10, <2>1, <2>2
<1>12. RecordsOf(d, t) = F(d[m])
  BY <1>1, <1>10, <1>11, RecordsOfIs DEF F
<1>13. RecordsOf(e, t) = F(e[m])
  <2>1. e \in Seq(Rsets)
    BY <1>7 DEF Sane
  <2>2. m \in 1..Len(e) /\ R(e[m]) = t /\ \A i \in 1..Len(e) : R(e[i]) = t => i = m
    BY <1>5, <1>10, <1>11
  <2> QED BY <2>1, <2>2, RecordsOfIs DEF F
<1>14. F(e[m]) = F(d[m]) \o <<items>>
  BY <1>4, <1>5, <1>9, <1>10
<1>15. F(d[m]) \in Seq(Seq(Items))
  BY <1>1, <1>12, RecordsOfIs
<1> DEFINE f == F(d[m])
           L == Seq(Items)
<1>16. f \o <<items>> = Append(f, items)
  <2>1. f \in Seq(L) /\ items \in L
    BY <1>3, <1>15
  <2> HIDE DEF f, L
  <2> QED BY <2>1, AppendIsConcat
<1> QED BY <1>2, <1>7, <1>12, <1>13, <1>14, <1>16

\* A record in a record set of its own.
LEMMA InsertedNew ==
  ASSUME NEW d, Sane(d), NEW t \in TypeArgs, RsetByType(d, t) = {},
         NEW items \in NewRecords
  PROVE  /\ Sane(Inserted(d, t, items))
         /\ RecordsOf(Inserted(d, t, items), t) = Append(RecordsOf(d, t), items)
<1> DEFINE x == Record(items)
           D == IF t = None THEN None ELSE <<Field(REC, t)>>
           r == [NewRset(D) EXCEPT !.elems = <<x>>]
           o == RecordsOf(d, t)
<1>1. d \in Seq(Rsets) /\ Fine(d, Kinds)
  BY DEF Sane
<1>2. x \in Elems /\ (x.k = "record" => ~HasField(x.items, REC))
      /\ FieldsIn(x) = <<items>> /\ items \in Seq(Items)
  BY NewRecordPlain DEF Plain, Record
<1>3. Inserted(d, t, items) = IF t = None THEN <<r>> \o d ELSE Append(d, r)
  BY DEF Inserted
<1>4. D \in {None} \cup Descs /\ (t # None => D # None /\ TypeIn(D) = t)
  <2>1. CASE t = None
    BY <2>1
  <2>2. CASE t # None
    <3>1. D = <<Field(REC, t)>>
      BY <2>2
    <3> HIDE DEF D
    <3>2. D \in Descs /\ TypeIn(D) = t
      BY <2>2, <3>1, TypeDesc
    <3>3. D # None
      BY <3>2, RecTextAssumption DEF Descs
    <3> QED BY <3>2, <3>3
  <2> QED BY <2>1, <2>2
<1> HIDE DEF x
<1>5. t = None => D = None
  OBVIOUS
<1> HIDE DEF D
<1>6. r \in Rsets /\ Sound(r) /\ r.desc = D /\ r.elems = <<x>>
  BY <1>2, <1>4, NewRsetIs
<1> HIDE DEF r
<1>7. RsetType(r) = t /\ t \in Kinds
  <2>1. RsetType(r) = t
    BY <1>4, <1>5, <1>6, RsetTypeIs
  <2>2. t \in Kinds
    BY RecDbAssumption DEF Kinds
  <2> QED BY <2>1, <2>2
<1>8. \A i \in 1..Len(d) : RsetType(d[i]) # t
  BY <1>1, NoRsetOfType
<1>9. o = << >>
  BY <1>1, <1>8, RecordsOfIs
<1>10. t \notin Types(d)
  BY <1>8 DEF Types
<1>11. FieldsOf(r.elems) = <<items>>
  <2> DEFINE z == << >>
             w == FieldsIn(x)
  <2>1. Append(z, x) = <<x>> /\ z \in Seq(Elems) /\ FieldsOf(z) = z
    BY EmptySeq, FieldsOfIs
  <2>2. z \o w = w
    <3>1. w \in Seq(Seq(Items))
      BY <1>2
    <3> HIDE DEF w
    <3> QED BY <3>1, ConcatEmptySeq
  <2> HIDE DEF z
  <2>3. FieldsOf(Append(z, x)) = FieldsOf(z) \o FieldsIn(x)
    BY <1>2, <2>1, FieldsOfIs
  <2> QED BY <1>2, <1>6, <2>1, <2>2, <2>3
<1>12. Append(o, items) = <<items>>
  <2>1. Append(<< >>, items) = <<items>>
    OBVIOUS
  <2> QED BY <1>9, <2>1
<1> HIDE DEF o
<1>13. CASE t # None
  <2>1. r.desc # None
    BY <1>4, <1>6, <1>13
  <2>2. Sane(Append(d, r))
    BY <1>6, <1>7, <1>10, <2>1, SaneAdd
  <2>3. RecordsOf(Append(d, r), t) = o \o RecordsIn(r, t)
    BY <1>1, <1>6, RecordsOfIs DEF o
  <2>4. RecordsIn(r, t) = <<items>>
    BY <1>7, <1>11 DEF RecordsIn
  <2>5. o \o <<items>> = <<items>>
    <3> DEFINE w == <<items>>
    <3>1. w \in Seq(Seq(Items))
      BY <1>2
    <3> HIDE DEF w
    <3>2. << >> \o w = w
      BY <3>1, ConcatEmptySeq
    <3> QED BY <1>9, <3>2 DEF w
  <2> QED BY <1>3, <1>12, <1>13, <2>2, <2>3, <2>4, <2>5 DEF o
<1>14. CASE t = None
  <2> DEFINE u == <<r>> \o d
  <2>1. /\ u \in Seq(Rsets) /\ Len(u) = Len(d) + 1 /\ u[1] = r
        /\ (\A i \in 2..Len(d) + 1 : RsetType(u[i]) # None) /\ Sane(u)
    BY <1>6, <1>7, <1>10, <1>14, SanePut
  <2> HIDE DEF u
  <2>2. 1 \in 1..Len(u) /\ RsetType(u[1]) = t
        /\ \A i \in 1..Len(u) : RsetType(u[i]) = t => i = 1
    BY <1>1, <1>7, <1>14, <2>1
  <2>3. RecordsOf(u, t) = FieldsOf(u[1].elems)
    BY <2>1, <2>2, RecordsOfIs
  <2> QED BY <1>3, <1>11, <1>12, <1>14, <2>1, <2>3 DEF u, o
<1> QED BY <1>13, <1>14

---------------------------------------------------------------------------
(* What every step keeps *)

DbInv == Sane(db)

LEMMA SaneRsets ==
  ASSUME NEW d, Sane(d)
  PROVE  \A i \in 1..Len(d) : d[i] \in Rsets /\ Sound(d[i]) /\ Like(d[i], d[i])
<1>1. d \in Seq(Rsets) /\ Fine(d, Kinds)
  BY DEF Sane
<1>2. \A i \in 1..Len(d) : d[i] \in Rsets /\ Sound(d[i])
  BY <1>1 DEF Fine
<1> QED BY <1>2 DEF Like

LEMMA InitSane == Init => DbInv
<1> SUFFICES ASSUME Init PROVE Sane(db)
  BY DEF DbInv
<1>1. CASE db = << >>
  BY <1>1, SaneNone
<1>2. CASE db # << >>
  <2>1. PICK t \in TypeArgs \ {None}, n \in Names :
          db = <<NewRset(<<Field(REC, t), Field(KEY, n)>>)>>
    BY <1>2 DEF Init
  <2> DEFINE c == <<Field(REC, t), Field(KEY, n)>>
             r == NewRset(c)
             z == << >>
  <2>2. c \in Descs /\ TypeIn(c) = t
    BY TypeDesc
  <2> HIDE DEF c
  <2>3. r \in Rsets /\ Sound(r) /\ r.desc = c
    BY <2>2, NewRsetIs
  <2> HIDE DEF r
  <2>4. c # None /\ t \in Kinds
    BY <2>2, RecTextAssumption, RecDbAssumption DEF Descs, Kinds
  <2>5. RsetType(r) = t
    BY <2>2, <2>3, <2>4, RsetTypeIs
  <2>6. Append(z, r) = db
    <3>1. Append(z, r) = <<r>>
      OBVIOUS
    <3> QED BY <2>1, <3>1 DEF r, c
  <2>7. Sane(z) /\ Types(z) = {}
    BY SaneNone
  <2> HIDE DEF z
  <2>8. Sane(Append(z, r))
    BY <2>3, <2>4, <2>5, <2>7, SaneAdd
  <2> QED BY <2>6, <2>8
<1> QED BY <1>1, <1>2

LEMMA InsertSane ==
  ASSUME DbInv, NEW t \in TypeArgs, NEW r \in NewRecords, Insert(t, r)
  PROVE  Sane(db')
<1>1. db' = Inserted(db, t, r)
  BY DEF Insert
<1>2. Sane(Inserted(db, t, r))
  BY InsertedThere, InsertedNew DEF DbInv
<1> QED BY <1>1, <1>2

LEMMA ReplaceSane ==
  ASSUME DbInv, NEW t, NEW sel, NEW r \in NewRecords, Replace(t, sel, r)
  PROVE  Sane(db')
<1> DEFINE S == RsetByType(db, t)
           put(x) == [x EXCEPT !.elems =
                        [j \in DOMAIN x.elems |->
                           IF Selected(x.elems, sel, j) THEN Record(r)
                           ELSE x.elems[j]]]
<1>1. Sane(db) /\ db \in Seq(Rsets)
  BY DEF DbInv, Sane
<1>2. db' = [i \in DOMAIN db |-> IF i \notin S THEN db[i] ELSE put(db[i])]
  BY DEF Replace
<1>3. \A i \in 1..Len(db) : Like(db[i], put(db[i])) /\ Like(db[i], db[i])
  <2> TAKE i \in 1..Len(db)
  <2> DEFINE x == db[i]
  <2>1. x \in Rsets /\ Sound(x) /\ Like(x, x)
    BY <1>1, SaneRsets
  <2>2. Plain(r)
    BY NewRecordPlain
  <2> HIDE DEF x
  <2>3. Like(x, put(x))
    BY <2>1, <2>2, ReplacedRset
  <2> QED BY <2>1, <2>3 DEF x
<1> HIDE DEF put, S
<1>4. Len(db') = Len(db) /\ db' = [i \in 1..Len(db) |-> db'[i]]
      /\ \A i \in 1..Len(db) : Like(db[i], db'[i])
  BY <1>1, <1>2, <1>3
<1> QED BY <1>1, <1>4, SaneMap

LEMMA DeleteSane ==
  ASSUME DbInv, NEW t, NEW sel, NEW c \in BOOLEAN, Delete(t, sel, c)
  PROVE  Sane(db')
<1> DEFINE S == TargetRset(db, t)
           put(x) == [x EXCEPT !.elems =
                        IF c THEN CommentSelected(x.elems, sel)
                        ELSE DeleteSelected(x.elems, sel)]
<1>1. Sane(db) /\ db \in Seq(Rsets)
  BY DEF DbInv, Sane
<1>2. db' = [i \in DOMAIN db |-> IF i \notin S THEN db[i] ELSE put(db[i])]
  BY DEF Delete
<1>3. \A i \in 1..Len(db) : Like(db[i], put(db[i])) /\ Like(db[i], db[i])
  <2> TAKE i \in 1..Len(db)
  <2> DEFINE x == db[i]
  <2>1. x \in Rsets /\ Sound(x) /\ Like(x, x)
    BY <1>1, SaneRsets
  <2> HIDE DEF x
  <2>2. Like(x, [x EXCEPT !.elems = CommentSelected(x.elems, sel)])
    BY <2>1, CommentedRset
  <2>3. Like(x, [x EXCEPT !.elems = DeleteSelected(x.elems, sel)])
    BY <2>1, DeletedRset
  <2>4. Like(x, put(x))
    BY <2>2, <2>3
  <2> QED BY <2>1, <2>4 DEF x
<1> HIDE DEF put, S
<1>4. Len(db') = Len(db) /\ db' = [i \in 1..Len(db) |-> db'[i]]
      /\ \A i \in 1..Len(db) : Like(db[i], db'[i])
  BY <1>1, <1>2, <1>3
<1> QED BY <1>1, <1>4, SaneMap

LEMMA SetSane ==
  ASSUME DbInv, NEW t, NEW sel, NEW act, NEW n \in Names, NEW w, NEW v,
         SetArgs(act, v), Set(t, sel, act, n, w, v)
  PROVE  Sane(db')
<1> DEFINE S == TargetRset(db, t)
           put(x) == SetRset(x, sel, act, n, w, v)
<1>1. Sane(db) /\ db \in Seq(Rsets)
  BY DEF DbInv, Sane
<1>2. db' = [i \in DOMAIN db |-> IF i \in S THEN put(db[i]) ELSE db[i]]
  BY DEF Set
<1>3. \A i \in 1..Len(db) : Like(db[i], put(db[i])) /\ Like(db[i], db[i])
  <2> TAKE i \in 1..Len(db)
  <2> DEFINE x == db[i]
  <2>1. x \in Rsets /\ Sound(x) /\ Like(x, x)
    BY <1>1, SaneRsets
  <2> HIDE DEF x
  <2>2. Like(x, put(x))
    BY <2>1, SetIs
  <2> QED BY <2>1, <2>2 DEF x
<1> HIDE DEF put, S
<1>4. Len(db') = Len(db) /\ db' = [i \in 1..Len(db) |-> db'[i]]
      /\ \A i \in 1..Len(db) : Like(db[i], db'[i])
  BY <1>1, <1>2, <1>3
<1> QED BY <1>1, <1>4, SaneMap

LEMMA NextSane == DbInv /\ [Next]_vars => DbInv'
<1> SUFFICES ASSUME DbInv, [Next]_vars PROVE Sane(db')
  BY DEF DbInv
<1>1. CASE \E t \in TypeArgs, r \in NewRecords : Insert(t, r)
  BY <1>1, InsertSane
<1>2. CASE \E t \in TypeArgs, r \in NewRecords :
             \E sel \in Selections(t) : Replace(t, sel, r)
  BY <1>2, ReplaceSane
<1>3. CASE \E t \in TypeArgs, c \in BOOLEAN :
             \E sel \in Selections(t) : Delete(t, sel, c)
  BY <1>3, DeleteSane
<1>4. CASE \E t \in TypeArgs, n, m \in Names, w \in Subscripts :
             \E sel \in Selections(t) : Set(t, sel, "rename", n, w, m)
  <2>1. PICK t \in TypeArgs, n, m \in Names, w \in Subscripts :
          \E sel \in Selections(t) : Set(t, sel, "rename", n, w, m)
    BY <1>4
  <2>2. PICK sel \in Selections(t) : Set(t, sel, "rename", n, w, m)
    BY <2>1
  <2>3. SetArgs("rename", m)
    BY DEF SetArgs
  <2> QED BY <2>2, <2>3, SetSane
<1>5. CASE \E t \in TypeArgs, act \in Actions, n \in Names, v \in Values,
              w \in Subscripts :
             \E sel \in Selections(t) : Set(t, sel, act, n, w, v)
  <2>1. PICK t \in TypeArgs, act \in Actions, n \in Names, v \in Values,
             w \in Subscripts :
          \E sel \in Selections(t) : Set(t, sel, act, n, w, v)
    BY <1>5
  <2>2. PICK sel \in Selections(t) : Set(t, sel, act, n, w, v)
    BY <2>1
  <2>3. SetArgs(act, v)
    BY DEF SetArgs
  <2> QED BY <2>2, <2>3, SetSane
<1>6. CASE Reload
  <2>1. db' = Reloaded(db)
    BY <1>6 DEF Reload
  <2>2. Sane(Reloaded(db))
    BY ReloadKeeps DEF DbInv
  <2> QED BY <2>1, <2>2
<1>7. CASE UNCHANGED vars
  BY <1>7 DEF vars, DbInv
<1> QED BY <1>1, <1>2, <1>3, <1>4, <1>5, <1>6, <1>7 DEF Next

\* Whatever is inserted, replaced, deleted, set and read again, in any order
\* and however often: what is written of the database is read back with the
\* same records of each type, with the same fields, in the same order
\* (rec_db_insert, rec_db_delete, rec_db_set, rec_write_db, rec_parse_db).
THEOREM RecordsAreReadBack == Spec => []ReloadKeepsRecords
<1>1. DbInv => ReloadKeepsRecords
  BY ReloadKeeps DEF DbInv, ReloadKeepsRecords
<1> QED BY <1>1, InitSane, NextSane, PTL DEF Spec

\* A new record is the last one of its type, also when the database it was
\* inserted in is written and read back, whatever operations came before
\* (rec_db_insert, rec_rset_add_record and rec_mset_insert_after).
THEOREM InsertedIsLast == Spec => []InsertLast
<1>1. DbInv => InsertLast
  <2> SUFFICES ASSUME DbInv, NEW t \in TypeArgs, NEW r \in NewRecords
               PROVE  RecordsOf(Reloaded(Inserted(db, t, r)), t)
                        = Append(RecordsOf(db, t), r)
    BY DEF InsertLast
  <2>1. /\ Sane(Inserted(db, t, r))
        /\ RecordsOf(Inserted(db, t, r), t) = Append(RecordsOf(db, t), r)
    BY InsertedThere, InsertedNew DEF DbInv
  <2> QED BY <2>1, ReloadKeeps
<1> QED BY <1>1, InitSane, NextSane, PTL DEF Spec

\* No comment is lost on the way through the file as long as the file holds
\* a field, whatever operations came before (rec_parse_comment, rec_write_rset,
\* rec_write_record).
THEOREM CommentsAreKept == Spec => []CommentsKept
<1>1. DbInv => CommentsKept
  <2> SUFFICES ASSUME DbInv, \E i \in DOMAIN Write(db) : Write(db)[i].k = "field"
               PROVE  CommentLines(Reloaded(db)) = CommentLines(db)
    BY DEF CommentsKept
  <2>1. db \in Seq(Rsets)
    BY DEF DbInv, Sane
  <2>2. ~NoField(Write(db))
    BY DEF NoField
  <2> QED BY <2>1, <2>2, CommentsReloaded
<1> QED BY <1>1, InitSane, NextSane, PTL DEF Spec

=============================================================================
