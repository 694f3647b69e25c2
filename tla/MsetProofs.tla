---------------------------- MODULE MsetProofs ----------------------------
(***************************************************************************)
(* Proofs about the multi-set of Mset, for every set of data and types.    *)
(* The list and the elements are consistent for every client.  The counter *)
(* of all the elements is right for those that do not sort and insert only *)
(* after elements of the same multi-set (TotalClients), the counters of    *)
(* the types for those of them that do not call rec_mset_remove_at either  *)
(* (CountingClients).  The binary search of gl_sortedlist_nx_add finds the *)
(* place behind all the elements that are not greater, so that what        *)
(* rec_mset_sort builds is a stable permutation of the list.  A traversal  *)
(* returns what it has to return although its loop removes, retypes and    *)
(* replaces the elements it is at: the places ahead are counted.           *)
(***************************************************************************)
EXTENDS Mset, SeqLemmas

---------------------------------------------------------------------------
(* The binary search *)

\* A round stays in the list.
LEMMA HalvedInList ==
  ASSUME NEW l \in Seq(Data), NEW d, NEW w \in (0..Len(l)) \X (0..Len(l))
  PROVE  Halved(l, d, w) \in (0..Len(l)) \X (0..Len(l))
<1>1. Len(l) \in Nat /\ w[1] \in 0..Len(l) /\ w[2] \in 0..Len(l)
  OBVIOUS
<1>2. CASE w[1] >= w[2]
  BY <1>2 DEF Halved
<1>3. CASE w[1] < w[2]
  <2>1. (w[1] + w[2]) \div 2 \in 0..(Len(l) - 1)
    BY <1>1, <1>3
  <2> QED BY <1>1, <1>3, <2>1 DEF Halved
<1> QED BY <1>1, <1>2, <1>3

\* The windows of the search.
LEMMA WindowsDef ==
  ASSUME NEW l \in Seq(Data), NEW d
  PROVE  /\ Windows(l, d) \in [0..Len(l) -> (0..Len(l)) \X (0..Len(l))]
         /\ Windows(l, d)[0] = <<0, Len(l)>>
         /\ \A n \in 1..Len(l) :
              Windows(l, d)[n] = Halved(l, d, Windows(l, d)[n - 1])
<1> DEFINE L == Len(l)
           W == (0..L) \X (0..L)
           b == <<0, L>>
           rec(f) == [n \in 0..L |-> IF n = 0 THEN b
                                     ELSE Halved(l, d, f[n - 1])]
           g == [n \in Nat |-> [w \in W |-> Halved(l, d, w)]]
<1>1. L \in Nat /\ b \in W
  OBVIOUS
<1>2. \A w \in W : Halved(l, d, w) \in W
  BY HalvedInList
<1>3. Windows(l, d) = CHOOSE f : f = rec(f)
  BY DEF Windows
<1> HIDE DEF L, W, b
<1>4. g \in [Nat -> [W -> W]]
  BY <1>2
<1>5. \A n \in Nat, w \in W : g[n][w] = Halved(l, d, w)
  OBVIOUS
<1> HIDE DEF g
<1> HIDE DEF rec
<1>6. PICK h \in [0..L -> W] : FoldOf(h, g, b, L)
  BY <1>1, <1>4, FoldExists, Zenon
<1>7. \A n \in 1..L : h[n] = Halved(l, d, h[n - 1])
  BY <1>1, <1>5, <1>6 DEF FoldOf
<1>8. h = rec(h)
  BY <1>1, <1>6, <1>7 DEF rec, FoldOf
<1>9. Windows(l, d) = rec(Windows(l, d))
  BY <1>3, <1>8
<1> DEFINE v == Windows(l, d)
<1> HIDE DEF v
<1>10. v = rec(v)
  BY <1>9 DEF v
<1>11. v[0] = b /\ \A n \in 1..L : v[n] = Halved(l, d, v[n - 1])
  BY <1>1, <1>10 DEF rec
<1>12. \A n \in 0..L : v[n] \in W
  <2> DEFINE S == {n \in 0..L : v[n] \in W}
  <2>1. 0 \in S
    BY <1>1, <1>11
  <2>2. \A n \in 0..(L - 1) : n \in S => n + 1 \in S
    <3> TAKE n \in 0..(L - 1)
    <3>1. n + 1 \in 1..L /\ (n + 1) - 1 = n
      BY <1>1
    <3> QED BY <1>2, <1>11, <3>1
  <2> HIDE DEF S
  <2>3. 0..L \subseteq S
    BY <1>1, <2>1, <2>2, UpToInduction
  <2> QED BY <2>3 DEF S
<1>13. v \in [0..L -> W]
  BY <1>10, <1>12 DEF rec
<1> QED BY <1>11, <1>13 DEF v, L, W, b

\* The search ends in the list, whatever the list is like.
LEMMA PositionTyped ==
  ASSUME NEW l \in Seq(Data), NEW d
  PROVE  SortedPosition(l, d) \in 0..Len(l)
<1>1. Windows(l, d)[Len(l)] \in (0..Len(l)) \X (0..Len(l))
  BY WindowsDef
<1> QED BY <1>1 DEF SortedPosition

\* In a list of which the first k elements go before d and no other does,
\* the search finds k: the window always holds it, and shrinks.
LEMMA PositionFound ==
  ASSUME NEW l \in Seq(Data), NEW d, NEW k \in 0..Len(l),
         \A i \in 1..k : Compare(l[i], d) < 0,
         \A i \in (k + 1)..Len(l) : ~(Compare(l[i], d) < 0)
  PROVE  SortedPosition(l, d) = k
<1> DEFINE L == Len(l)
           w == Windows(l, d)
           S == {n \in 0..L : /\ w[n][1] <= k /\ k <= w[n][2]
                              /\ w[n][2] - w[n][1] <= L - n}
<1>1. L \in Nat /\ k \in 0..L
  OBVIOUS
<1>2. /\ w \in [0..L -> (0..L) \X (0..L)] /\ w[0] = <<0, L>>
      /\ \A n \in 1..L : w[n] = Halved(l, d, w[n - 1])
  BY WindowsDef
<1> HIDE DEF L, w
<1>3. 0 \in S
  <2>1. w[0][1] = 0 /\ w[0][2] = L
    BY <1>2
  <2> QED BY <1>1, <2>1
<1>4. ASSUME NEW n \in 0..(L - 1), n \in S PROVE n + 1 \in S
  <2> DEFINE lo == w[n][1]
             hi == w[n][2]
             mid == (lo + hi) \div 2
  <2>1. /\ lo \in 0..L /\ hi \in 0..L /\ lo <= k /\ k <= hi /\ hi - lo <= L - n
    BY <1>1, <1>2, <1>4
  <2>2. w[n + 1] = Halved(l, d, w[n]) /\ n + 1 \in 0..L
    <3>1. n + 1 \in 1..L /\ (n + 1) - 1 = n
      BY <1>1
    <3> QED BY <1>2, <3>1
  <2>3. Halved(l, d, w[n]) = IF lo >= hi THEN w[n]
                             ELSE IF Compare(l[mid + 1], d) < 0
                             THEN <<mid + 1, hi>> ELSE <<lo, mid>>
    BY DEF Halved
  <2> HIDE DEF lo, hi
  <2>4. CASE lo >= hi
    <3>1. w[n + 1] = w[n]
      BY <2>2, <2>3, <2>4
    <3>2. w[n + 1][1] = lo /\ w[n + 1][2] = hi
      BY <3>1 DEF lo, hi
    <3>3. lo <= k /\ k <= hi /\ hi - lo <= L - (n + 1)
      BY <1>1, <2>1, <2>4
    <3> QED BY <2>2, <3>2, <3>3
  <2>5. CASE lo < hi
    <3>1. mid \in lo..(hi - 1) /\ mid + 1 \in 1..L
      BY <1>1, <2>1, <2>5
    <3> HIDE DEF mid
    <3>2. CASE Compare(l[mid + 1], d) < 0
      <4>1. w[n + 1] = <<mid + 1, hi>>
        BY <1>1, <2>1, <2>2, <2>3, <2>5, <3>2
      <4>2. mid + 1 <= k
        BY <1>1, <2>1, <3>1, <3>2 DEF L
      <4> QED BY <1>1, <2>1, <2>2, <3>1, <4>1, <4>2
    <3>3. CASE ~(Compare(l[mid + 1], d) < 0)
      <4>1. w[n + 1] = <<lo, mid>>
        BY <1>1, <2>1, <2>2, <2>3, <2>5, <3>3
      <4>2. k <= mid
        BY <1>1, <2>1, <3>1, <3>3 DEF L
      <4> QED BY <1>1, <2>1, <2>2, <3>1, <4>1, <4>2
    <3> QED BY <3>2, <3>3
  <2> QED BY <2>1, <2>4, <2>5
<1>5. L \in S
  <2> HIDE DEF S
  <2>1. 0..L \subseteq S
    BY <1>1, <1>3, <1>4, UpToInduction
  <2> QED BY <1>1, <2>1
<1>6. w[L][1] = k
  <2>1. w[L][1] \in 0..L /\ w[L][2] \in 0..L
    <3>1. w[L] \in (0..L) \X (0..L)
      BY <1>1, <1>2
    <3> QED BY <3>1
  <2> QED BY <1>1, <1>5, <2>1
<1> QED BY <1>6 DEF SortedPosition, w, L

---------------------------------------------------------------------------
(* The order of the elements *)

\* The ranks are ordered, and Compare tells whether an element may stay
\* before one that is added: it never says that two are equal.
LEMMA RankOrder ==
  ASSUME TypeOK, NEW x \in Data, NEW y \in Data
  PROVE  /\ \/ Below(Rank(x), Rank(y)) \/ Rank(x) = Rank(y)
            \/ Below(Rank(y), Rank(x))
         /\ Below(Rank(x), Rank(y)) =>
              ~Below(Rank(y), Rank(x)) /\ Rank(x) # Rank(y)
         /\ \A z \in Data : Below(Rank(x), Rank(y)) /\ ~Below(Rank(z), Rank(y))
                              => Below(Rank(x), Rank(z))
         /\ Compare(x, y) < 0 <=> ~Below(Rank(y), Rank(x))
<1> DEFINE first(d) == IF type[d] = MSET_COMMENT THEN 0
                       ELSE IF Key[d] = Absent THEN 1 ELSE 2
           second(d) == IF type[d] = MSET_COMMENT THEN 0
                        ELSE IF Key[d] = Absent THEN 0 ELSE Key[d]
<1>1. \A d \in Data : first(d) \in 0..2 /\ second(d) \in Int /\ Key[d] \in Int
  BY MsetAssumption DEF MsetAssumption
<1>2. \A d \in Data : Rank(d)[1] = first(d) /\ Rank(d)[2] = second(d)
  BY DEF Rank
<1>3. \A d, e \in Data : Rank(d) = Rank(e) <=>
                           first(d) = first(e) /\ second(d) = second(e)
  BY DEF Rank
<1>4. Compare(x, y) < 0 <=> ~Below(Rank(y), Rank(x))
  <2>1. \A r, q : Below(r, q) <=> r[1] < q[1] \/ (r[1] = q[1] /\ r[2] < q[2])
    BY DEF Below
  <2>2. Below(Rank(y), Rank(x)) <=>
          \/ first(y) < first(x)
          \/ first(y) = first(x) /\ second(y) < second(x)
    BY <1>2, <2>1
  <2> QED BY <1>1, <2>2 DEF Compare, CompareRecords
<1> HIDE DEF first, second
<1>5. \A d, e \in Data : Below(Rank(d), Rank(e)) <=>
          \/ first(d) < first(e)
          \/ first(d) = first(e) /\ second(d) < second(e)
  BY <1>2 DEF Below
<1> QED BY <1>1, <1>3, <1>4, <1>5

\* Adding to a sorted list an element that comes later in l keeps it
\* sorted: the new element goes behind those of the same rank.
LEMMA AddKeepsOrder ==
  ASSUME TypeOK, NEW l \in Seq(Data), NEW s \in Seq(Data), NEW d \in Data,
         \A i, j \in 1..Len(s) : i < j => Before(l, s[i], s[j]),
         \A i \in 1..Len(s) : IndexOf(l, s[i]) < IndexOf(l, d)
  PROVE  \A i, j \in 1..Len(SortedAdd(s, d)) :
           i < j => Before(l, SortedAdd(s, d)[i], SortedAdd(s, d)[j])
<1>1. Len(s) \in Nat /\ \A i \in 1..Len(s) : s[i] \in Data
  OBVIOUS
<1> DEFINE Later == {i \in 1..Len(s) : Below(Rank(d), Rank(s[i]))}
<1>2. \A i, j \in 1..Len(s) : i < j /\ i \in Later => j \in Later
  <2> SUFFICES ASSUME NEW i \in 1..Len(s), NEW j \in 1..Len(s), i < j,
                      Below(Rank(d), Rank(s[i]))
               PROVE  Below(Rank(d), Rank(s[j]))
    OBVIOUS
  <2>1. ~Below(Rank(s[j]), Rank(s[i]))
    <3>1. Before(l, s[i], s[j])
      OBVIOUS
    <3>2. Below(Rank(s[i]), Rank(s[j])) \/ Rank(s[i]) = Rank(s[j])
      BY <3>1 DEF Before
    <3> QED BY <1>1, <3>2, RankOrder
  <2> QED BY <1>1, <2>1, RankOrder
<1>3. PICK k \in 0..Len(s) : /\ \A i \in 1..k : i \notin Later
                             /\ \A i \in (k + 1)..Len(s) : i \in Later
  <2>1. CASE Later = {}
    BY <1>1, <2>1
  <2>2. CASE Later # {}
    <3>1. PICK m \in Later : \A i \in Later : m <= i
      <4>1. Later \in SUBSET Nat
        OBVIOUS
      <4> HIDE DEF Later
      <4> QED BY <2>2, <4>1, NatMin
    <3>2. m \in 1..Len(s)
      BY <3>1
    <3>3. \A i \in 1..(m - 1) : i \notin Later
      BY <1>1, <3>1, <3>2
    <3>4. \A i \in m..Len(s) : i \in Later
      <4> TAKE i \in m..Len(s)
      <4>1. i \in 1..Len(s) /\ (i = m \/ m < i)
        BY <1>1, <3>2
      <4> QED BY <1>2, <3>1, <3>2, <4>1
    <3>5. m - 1 \in 0..Len(s) /\ (m - 1) + 1 = m
      BY <1>1, <3>2
    <3> QED BY <3>3, <3>4, <3>5
  <2> QED BY <2>1, <2>2
<1>4. \A i \in 1..k : s[i] \in Data /\ ~Below(Rank(d), Rank(s[i]))
  BY <1>1, <1>3
<1>5. \A i \in (k + 1)..Len(s) : s[i] \in Data /\ Below(Rank(d), Rank(s[i]))
  BY <1>1, <1>3
<1>6. SortedPosition(s, d) = k
  <2>1. \A i \in 1..k : Compare(s[i], d) < 0
    BY <1>4, RankOrder
  <2>2. \A i \in (k + 1)..Len(s) : ~(Compare(s[i], d) < 0)
    BY <1>5, RankOrder
  <2> QED BY <2>1, <2>2, PositionFound
<1> DEFINE r == SortedAdd(s, d)
<1>7. r = InsertAt(s, k + 1, d)
  BY <1>6 DEF SortedAdd
<1>8. /\ Len(r) = Len(s) + 1 /\ r[k + 1] = d
      /\ \A i \in 1..k : r[i] = s[i]
      /\ \A i \in k + 1..Len(s) : r[i + 1] = s[i]
  <2>1. /\ Len(InsertAt(s, k + 1, d)) = Len(s) + 1
        /\ InsertAt(s, k + 1, d)[k + 1] = d
        /\ \A i \in 1..k : InsertAt(s, k + 1, d)[i] = s[i]
        /\ \A i \in k + 1..Len(s) : InsertAt(s, k + 1, d)[i + 1] = s[i]
    BY InsertAtIndex
  <2> HIDE DEF r
  <2> QED BY <1>7, <2>1
<1> HIDE DEF r
<1>9. \A i \in 1..Len(r) : i # k + 1 =>
        \/ i \in 1..k /\ r[i] = s[i]
        \/ i \in (k + 2)..Len(r) /\ i - 1 \in (k + 1)..Len(s) /\ r[i] = s[i - 1]
  <2> TAKE i \in 1..Len(r)
  <2> HAVE i # k + 1
  <2>1. CASE i <= k
    BY <1>1, <1>8, <2>1
  <2>2. CASE i > k
    <3>1. i - 1 \in (k + 1)..Len(s) /\ (i - 1) + 1 = i /\ i \in (k + 2)..Len(r)
      BY <1>1, <1>8, <2>2
    <3> QED BY <1>8, <3>1
  <2> QED BY <2>1, <2>2
<1>10. ASSUME NEW i \in 1..Len(r), NEW j \in 1..Len(r), i < j
       PROVE  Before(l, r[i], r[j])
  <2>1. CASE j = k + 1
    <3>1. i \in 1..k /\ r[i] = s[i] /\ r[j] = d
      BY <1>1, <1>8, <1>10, <2>1
    <3>2. Below(Rank(s[i]), Rank(d)) \/ Rank(s[i]) = Rank(d)
      BY <1>4, <3>1, RankOrder
    <3>3. IndexOf(l, s[i]) < IndexOf(l, d)
      BY <1>1, <3>1
    <3> QED BY <3>1, <3>2, <3>3 DEF Before
  <2>2. CASE i = k + 1
    <3>1. j - 1 \in (k + 1)..Len(s) /\ r[j] = s[j - 1] /\ r[i] = d
      BY <1>1, <1>8, <1>9, <1>10, <2>2
    <3> QED BY <1>5, <3>1 DEF Before
  <2>3. CASE i # k + 1 /\ j # k + 1
    <3>1. \E a, b \in 1..Len(s) : a < b /\ r[i] = s[a] /\ r[j] = s[b]
      <4>1. CASE i \in 1..k /\ j \in 1..k
        <5>1. i \in 1..Len(s) /\ j \in 1..Len(s)
          BY <1>1, <4>1
        <5> QED BY <1>8, <1>10, <4>1, <5>1
      <4>2. CASE i \in 1..k /\ ~(j \in 1..k)
        <5>1. j - 1 \in (k + 1)..Len(s) /\ r[j] = s[j - 1] /\ r[i] = s[i]
          BY <1>8, <1>9, <2>3, <4>2
        <5>2. i < j - 1 /\ i \in 1..Len(s) /\ j - 1 \in 1..Len(s)
          BY <1>1, <4>2, <5>1
        <5> QED BY <5>1, <5>2
      <4>3. CASE ~(i \in 1..k)
        <5>1. i - 1 \in (k + 1)..Len(s) /\ r[i] = s[i - 1]
          BY <1>9, <2>3, <4>3
        <5>2. ~(j \in 1..k)
          BY <1>1, <1>10, <5>1
        <5>3. j - 1 \in (k + 1)..Len(s) /\ r[j] = s[j - 1]
          BY <1>9, <2>3, <5>2
        <5>4. i - 1 < j - 1 /\ i - 1 \in 1..Len(s) /\ j - 1 \in 1..Len(s)
          BY <1>1, <1>10, <5>1, <5>3
        <5> QED BY <5>1, <5>3, <5>4
      <4> QED BY <4>1, <4>2, <4>3
    <3> QED BY <3>1
  <2> QED BY <2>1, <2>2, <2>3
<1> QED BY <1>10 DEF r

---------------------------------------------------------------------------
(* The sorted list *)

\* The list that is built, element by element.
LEMMA SortingDef ==
  ASSUME NEW l \in Seq(Data)
  PROVE  /\ Sorting(l) \in [0..Len(l) -> Seq(Data)]
         /\ Sorting(l)[0] = << >>
         /\ \A n \in 1..Len(l) :
              Sorting(l)[n] = SortedAdd(Sorting(l)[n - 1], l[n])
<1> DEFINE L == Len(l)
           W == Seq(Data)
           b == << >>
           rec(f) == [n \in 0..L |-> IF n = 0 THEN b
                                     ELSE SortedAdd(f[n - 1], l[n])]
           g == [n \in Nat |-> [s \in W |-> IF n \in 1..L
                                            THEN SortedAdd(s, l[n]) ELSE s]]
<1>1. L \in Nat /\ b \in W /\ \A n \in 1..L : l[n] \in Data
  OBVIOUS
<1>2. \A n \in 1..L, s \in W : SortedAdd(s, l[n]) \in W
  <2> TAKE n \in 1..L, s \in W
  <2>1. SortedPosition(s, l[n]) \in 0..Len(s) /\ s \in Seq(Data) /\ l[n] \in Data
    BY <1>1, PositionTyped
  <2>2. InsertAt(s, SortedPosition(s, l[n]) + 1, l[n]) \in Seq(Data)
    BY <2>1, InsertAtIndex
  <2> QED BY <2>2 DEF SortedAdd
<1>3. Sorting(l) = CHOOSE f : f = rec(f)
  BY DEF Sorting
<1> HIDE DEF L, W, b
<1>4. g \in [Nat -> [W -> W]]
  BY <1>2
<1>5. \A n \in 1..L, s \in W : g[n][s] = SortedAdd(s, l[n])
  BY <1>1
<1> HIDE DEF g, rec
<1>6. PICK h \in [0..L -> W] : FoldOf(h, g, b, L)
  BY <1>1, <1>4, FoldExists, Zenon
<1>7. \A n \in 1..L : h[n] = SortedAdd(h[n - 1], l[n])
  BY <1>1, <1>5, <1>6 DEF FoldOf
<1>8. h = rec(h)
  BY <1>1, <1>6, <1>7 DEF rec, FoldOf
<1>9. Sorting(l) = rec(Sorting(l))
  BY <1>3, <1>8
<1> DEFINE v == Sorting(l)
<1> HIDE DEF v
<1>10. v = rec(v)
  BY <1>9 DEF v
<1>11. v[0] = b /\ \A n \in 1..L : v[n] = SortedAdd(v[n - 1], l[n])
  BY <1>1, <1>10 DEF rec
<1>12. \A n \in 0..L : v[n] \in W
  <2> DEFINE S == {n \in 0..L : v[n] \in W}
  <2>1. 0 \in S
    BY <1>1, <1>11
  <2>2. \A n \in 0..(L - 1) : n \in S => n + 1 \in S
    <3> TAKE n \in 0..(L - 1)
    <3>1. n + 1 \in 1..L /\ (n + 1) - 1 = n
      BY <1>1
    <3> QED BY <1>2, <1>11, <3>1
  <2> HIDE DEF S
  <2>3. 0..L \subseteq S
    BY <1>1, <2>1, <2>2, UpToInduction
  <2> QED BY <2>3 DEF S
<1>13. v \in [0..L -> W]
  BY <1>10, <1>12 DEF rec
<1> QED BY <1>11, <1>13 DEF v, L, W, b

\* s is a stable permutation of the first n elements of l.
SortedUpTo(l, s, n) ==
  /\ s \in Seq(Data) /\ Len(s) = n
  /\ ToSet(s) = {l[i] : i \in 1..n}
  /\ \A i, j \in 1..n : s[i] = s[j] => i = j
  /\ \A i, j \in 1..n : i < j => Before(l, s[i], s[j])

\* Adding the next element keeps it one.
LEMMA AddKeepsSorted ==
  ASSUME TypeOK, NEW l \in Seq(Data),
         \A i, j \in 1..Len(l) : l[i] = l[j] => i = j,
         NEW n \in 0..(Len(l) - 1), NEW s, SortedUpTo(l, s, n)
  PROVE  SortedUpTo(l, SortedAdd(s, l[n + 1]), n + 1)
<1> DEFINE d == l[n + 1]
           p == SortedPosition(s, d)
           r == InsertAt(s, p + 1, d)
<1>1. /\ Len(l) \in Nat /\ n \in Nat /\ d \in Data
      /\ \A m \in 1..n : m \in 1..Len(l) /\ l[m] \in Data /\ l[m] # d
  OBVIOUS
<1>2. /\ s \in Seq(Data) /\ Len(s) = n
      /\ ToSet(s) = {l[i] : i \in 1..n}
      /\ \A i, j \in 1..n : s[i] = s[j] => i = j
      /\ \A i, j \in 1..n : i < j => Before(l, s[i], s[j])
  BY DEF SortedUpTo
<1>3. \A i \in 1..n : s[i] \in ToSet(s)
  BY <1>2 DEF ToSet
<1>4. \A m \in 1..n : IndexOf(l, l[m]) < IndexOf(l, d)
  <2>1. \A m \in 1..Len(l) : IndexOf(l, l[m]) = m
    BY DEF IndexOf
  <2> QED BY <1>1, <2>1
<1> HIDE DEF d
<1>5. \A i \in 1..n : IndexOf(l, s[i]) < IndexOf(l, d)
  BY <1>2, <1>3, <1>4
<1>6. d \notin ToSet(s)
  BY <1>1, <1>2
<1>7. p \in 0..Len(s)
  BY <1>2, PositionTyped
<1> HIDE DEF p
<1>8. r \in Seq(Data) /\ Len(r) = n + 1
  <2>1. d \in Data /\ s \in Seq(Data) /\ p \in 0..Len(s)
    BY <1>1, <1>2, <1>7
  <2>2. r \in Seq(Data) /\ Len(r) = Len(s) + 1
    BY <2>1, InsertAtIndex
  <2> QED BY <1>2, <2>2
<1>9. /\ ToSet(r) = ToSet(s) \cup {d}
      /\ \A i, j \in 1..Len(r) : r[i] = r[j] => i = j
  <2>1. \A i, j \in 1..Len(s) : s[i] = s[j] => i = j
    BY <1>2
  <2> QED BY <1>1, <1>2, <1>6, <1>7, <2>1, InsertAtSet
<1>10. SortedAdd(s, d) = r
  BY DEF SortedAdd, p
<1> HIDE DEF r
<1>11. {l[i] : i \in 1..(n + 1)} = {l[i] : i \in 1..n} \cup {d}
  <2>1. \A i : i \in 1..(n + 1) <=> i \in 1..n \/ i = n + 1
    BY <1>1
  <2> QED BY <2>1 DEF d
<1>12. \A i, j \in 1..Len(r) : i < j => Before(l, r[i], r[j])
  <2>1. \A i, j \in 1..Len(s) : i < j => Before(l, s[i], s[j])
    BY <1>2
  <2>2. \A i \in 1..Len(s) : IndexOf(l, s[i]) < IndexOf(l, d)
    BY <1>2, <1>5
  <2>3. \A i, j \in 1..Len(SortedAdd(s, d)) :
          i < j => Before(l, SortedAdd(s, d)[i], SortedAdd(s, d)[j])
    BY <1>1, <1>2, <2>1, <2>2, AddKeepsOrder
  <2> QED BY <1>10, <2>3
<1>13. SortedUpTo(l, r, n + 1)
  BY <1>2, <1>8, <1>9, <1>11, <1>12 DEF SortedUpTo
<1> QED BY <1>10, <1>13 DEF d

\* After n elements the new list is a stable permutation of them.
LEMMA SortingSorted ==
  ASSUME TypeOK, NEW l \in Seq(Data),
         \A i, j \in 1..Len(l) : l[i] = l[j] => i = j
  PROVE  \A n \in 0..Len(l) : SortedUpTo(l, Sorting(l)[n], n)
<1> DEFINE L == Len(l)
           v == Sorting(l)
           S == {n \in 0..L : SortedUpTo(l, v[n], n)}
<1>1. L \in Nat
  OBVIOUS
<1>2. v[0] = << >> /\ \A n \in 1..L : v[n] = SortedAdd(v[n - 1], l[n])
  BY SortingDef
<1> HIDE DEF v
<1>3. 0 \in S
  <2>1. SortedUpTo(l, << >>, 0)
    <3>1. ToSet(<< >>) = {}
      BY DEF ToSet
    <3> QED BY <3>1 DEF SortedUpTo
  <2> QED BY <1>1, <1>2, <2>1
<1>4. ASSUME NEW n \in 0..(L - 1), n \in S PROVE n + 1 \in S
  <2>1. n + 1 \in 1..L /\ (n + 1) - 1 = n /\ n + 1 \in 0..L
    BY <1>1
  <2>2. v[n + 1] = SortedAdd(v[n], l[n + 1])
    BY <1>2, <2>1
  <2>3. SortedUpTo(l, SortedAdd(v[n], l[n + 1]), n + 1)
    BY <1>4, AddKeepsSorted
  <2> QED BY <2>1, <2>2, <2>3
<1>5. 0..L \subseteq S
  <2> HIDE DEF S, L
  <2> QED BY <1>1, <1>3, <1>4, UpToInduction
<1> QED BY <1>5 DEF v

---------------------------------------------------------------------------
(* The counters *)

\* The elements of each type are finitely many, and fewer than SIZE_MAX.
LEMMA OfTypeFinite ==
  ASSUME TypeOK, NEW t \in AllTypes
  PROVE  /\ Stored \subseteq Data
         /\ IsFiniteSet(OfType(t))
         /\ Cardinality(OfType(t)) \in Nat
         /\ Cardinality(OfType(t)) < SIZE_MAX
<1>1. Stored \subseteq Data
  BY DEF TypeOK, Stored, ToSet
<1>2. OfType(t) \in SUBSET Data
  BY <1>1 DEF OfType
<1>3. /\ IsFiniteSet(OfType(t))
      /\ Cardinality(OfType(t)) <= Cardinality(Data)
  BY <1>2, FS_Subset, MsetAssumption DEF MsetAssumption
<1>4. Cardinality(OfType(t)) \in Nat /\ Cardinality(Data) \in Nat
  BY <1>3, FS_CardinalityType, MsetAssumption DEF MsetAssumption
<1> QED BY <1>1, <1>3, <1>4, MsetAssumption DEF MsetAssumption

\* Storing d with type t adds it to the elements of t and of MSET_ANY, and
\* Counted follows.
LEMMA CountsAfterPut ==
  ASSUME TypeOK, CountsExact, NEW d \in Data, NEW t \in Types,
         d \notin Stored, Stored' = Stored \cup {d},
         type' = [type EXCEPT ![d] = t], count' = Counted(count, t)
  PROVE  CountsExact' /\ count' \in [AllTypes -> 0..SIZE_MAX]
<1>1. MSET_ANY \in AllTypes /\ t \in AllTypes /\ t # MSET_ANY
  BY MsetAssumption DEF MsetAssumption, AllTypes
<1>2. count \in [AllTypes -> 0..SIZE_MAX] /\ type \in [Data -> AllTypes]
  BY DEF TypeOK
<1>3. \A u \in AllTypes : /\ count[u] \in Nat /\ count[u] < SIZE_MAX
                          /\ IsFiniteSet(OfType(u))
                          /\ count[u] = Cardinality(OfType(u))
  BY OfTypeFinite DEF CountsExact
<1>4. \A u \in AllTypes :
        count'[u] = IF u \in {MSET_ANY, t} THEN count[u] + 1 ELSE count[u]
  BY <1>1, <1>2, <1>3 DEF Counted, Up
<1>5. count' \in [AllTypes -> 0..SIZE_MAX]
  <2>1. SIZE_MAX \in Nat
    BY MsetAssumption DEF MsetAssumption
  <2>2. DOMAIN count' = AllTypes /\ count' = [u \in AllTypes |-> count'[u]]
    BY <1>2 DEF Counted
  <2>3. \A u \in AllTypes : count'[u] \in 0..SIZE_MAX
    BY <1>3, <1>4, <2>1
  <2> QED BY <2>2, <2>3
<1>6. ASSUME NEW u \in AllTypes PROVE count'[u] = Cardinality(OfType(u)')
  <2>1. CASE u \in {MSET_ANY, t}
    <3>1. OfType(u)' = OfType(u) \cup {d}
      BY <1>1, <1>2, <2>1, OfTypeFinite DEF OfType, Matches
    <3>2. d \notin OfType(u)
      BY DEF OfType
    <3>3. Cardinality(OfType(u) \cup {d}) = Cardinality(OfType(u)) + 1
      BY <1>3, <3>2, FS_AddElement
    <3> QED BY <1>3, <1>4, <2>1, <3>1, <3>3
  <2>2. CASE u \notin {MSET_ANY, t}
    <3>1. OfType(u)' = OfType(u)
      BY <1>1, <1>2, <2>2, OfTypeFinite DEF OfType, Matches
    <3> QED BY <1>3, <1>4, <2>2, <3>1
  <2> QED BY <2>1, <2>2
<1> QED BY <1>5, <1>6 DEF CountsExact

\* Taking d out of the list takes it from the elements of its type.
LEMMA CountsAfterRemove ==
  ASSUME TypeOK, CountsExact, TypedWhenStored, NEW d \in Stored,
         Stored' = Stored \ {d},
         type' = [type EXCEPT ![d] = MSET_ANY],
         count' = [count EXCEPT ![type[d]] = Down(@), ![MSET_ANY] = Down(@)]
  PROVE  CountsExact' /\ count' \in [AllTypes -> 0..SIZE_MAX]
<1>1. /\ d \in Data /\ Stored \subseteq Data /\ type[d] \in Types
      /\ MSET_ANY \in AllTypes
      /\ type[d] \in AllTypes /\ type[d] # MSET_ANY
  BY OfTypeFinite, MsetAssumption
     DEF MsetAssumption, AllTypes, TypedWhenStored
<1>2. count \in [AllTypes -> 0..SIZE_MAX] /\ type \in [Data -> AllTypes]
  BY DEF TypeOK
<1>3. \A u \in AllTypes : /\ count[u] \in Nat /\ count[u] < SIZE_MAX
                          /\ IsFiniteSet(OfType(u))
                          /\ count[u] = Cardinality(OfType(u))
  BY OfTypeFinite DEF CountsExact
<1>4. \A u \in {MSET_ANY, type[d]} : d \in OfType(u) /\ count[u] # 0
  <2> TAKE u \in {MSET_ANY, type[d]}
  <2>1. d \in OfType(u)
    BY DEF OfType, Matches
  <2> QED BY <1>1, <1>3, <2>1, FS_EmptySet
<1>5. \A u \in AllTypes :
        count'[u] = IF u \in {MSET_ANY, type[d]} THEN count[u] - 1
                    ELSE count[u]
  BY <1>1, <1>2, <1>3, <1>4 DEF Down
<1>6. count' \in [AllTypes -> 0..SIZE_MAX]
  <2>1. SIZE_MAX \in Nat
    BY MsetAssumption DEF MsetAssumption
  <2>2. DOMAIN count' = AllTypes /\ count' = [u \in AllTypes |-> count'[u]]
    BY <1>2
  <2>3. ASSUME NEW u \in AllTypes PROVE count'[u] \in 0..SIZE_MAX
    <3>1. CASE u \in {MSET_ANY, type[d]}
      <4>1. count'[u] = count[u] - 1
        BY <1>5, <3>1, Zenon
      <4>2. count[u] \in Nat /\ count[u] < SIZE_MAX /\ count[u] # 0
        BY <1>3, <1>4, <3>1, Zenon
      <4> QED BY ONLY <2>1, <4>1, <4>2
    <3>2. CASE u \notin {MSET_ANY, type[d]}
      <4>1. count'[u] = count[u]
        BY <1>5, <3>2, Zenon
      <4> QED BY <1>2, <4>1
    <3> QED BY <3>1, <3>2
  <2> QED BY <2>2, <2>3
<1>7. ASSUME NEW u \in AllTypes PROVE count'[u] = Cardinality(OfType(u)')
  <2>1. CASE u \in {MSET_ANY, type[d]}
    <3>1. OfType(u)' = OfType(u) \ {d}
      BY <1>1, <1>2, <2>1 DEF OfType, Matches
    <3>2. Cardinality(OfType(u) \ {d}) = Cardinality(OfType(u)) - 1
      BY <1>3, <1>4, <2>1, FS_RemoveElement
    <3> QED BY <1>3, <1>5, <2>1, <3>1, <3>2
  <2>2. CASE u \notin {MSET_ANY, type[d]}
    <3>1. OfType(u)' = OfType(u)
      BY <1>1, <1>2, <2>2 DEF OfType, Matches
    <3> QED BY <1>3, <1>5, <2>2, <3>1
  <2> QED BY <2>1, <2>2
<1> QED BY <1>6, <1>7 DEF CountsExact

\* Changing the type of d moves it from the elements of one type to those
\* of the other; setting the type it has changes nothing.
LEMMA CountsAfterRetype ==
  ASSUME TypeOK, CountsExact, TypedWhenStored, NEW d \in Stored,
         NEW t \in Types, Stored' = Stored,
         type' = [type EXCEPT ![d] = t],
         count' = [[count EXCEPT ![type[d]] = Down(@)] EXCEPT ![t] = Up(@)]
  PROVE  CountsExact' /\ count' \in [AllTypes -> 0..SIZE_MAX]
<1>1. /\ d \in Data /\ Stored \subseteq Data /\ type[d] \in Types
      /\ type[d] \in AllTypes /\ type[d] # MSET_ANY
      /\ t \in AllTypes /\ t # MSET_ANY /\ MSET_ANY \in AllTypes
  BY OfTypeFinite, MsetAssumption
     DEF MsetAssumption, AllTypes, TypedWhenStored
<1>2. count \in [AllTypes -> 0..SIZE_MAX] /\ type \in [Data -> AllTypes]
  BY DEF TypeOK
<1>3. \A u \in AllTypes : /\ count[u] \in Nat /\ count[u] < SIZE_MAX
                          /\ IsFiniteSet(OfType(u))
                          /\ count[u] = Cardinality(OfType(u))
  BY OfTypeFinite DEF CountsExact
<1>4. d \in OfType(type[d]) /\ count[type[d]] # 0
  <2>1. d \in OfType(type[d])
    BY DEF OfType, Matches
  <2> QED BY <1>1, <1>3, <2>1, FS_EmptySet
<1>5. CASE t = type[d]
  <2>1. type' = type
    BY <1>1, <1>2, <1>5
  <2>2. count' = count
    <3>1. \A u \in AllTypes : count'[u] = count[u]
      BY <1>1, <1>2, <1>3, <1>4, <1>5, MsetAssumption
         DEF MsetAssumption, Down, Up
    <3> QED BY <1>2, <3>1
  <2>3. \A u \in AllTypes : OfType(u)' = OfType(u)
    BY <2>1 DEF OfType, Matches
  <2> QED BY <1>2, <2>2, <2>3 DEF CountsExact
<1>6. CASE t # type[d]
  <2>1. \A u \in AllTypes :
          count'[u] = IF u = type[d] THEN count[u] - 1
                      ELSE IF u = t THEN count[u] + 1 ELSE count[u]
    BY <1>1, <1>2, <1>3, <1>4, <1>6 DEF Down, Up
  <2>2. count' \in [AllTypes -> 0..SIZE_MAX]
    <3>1. SIZE_MAX \in Nat
      BY MsetAssumption DEF MsetAssumption
    <3>2. DOMAIN count' = AllTypes /\ count' = [u \in AllTypes |-> count'[u]]
      BY <1>2
    <3>3. ASSUME NEW u \in AllTypes PROVE count'[u] \in 0..SIZE_MAX
      <4>1. CASE u = type[d]
        <5>1. count'[u] = count[u] - 1
          BY <2>1, <4>1, Zenon
        <5>2. count[u] \in Nat /\ count[u] < SIZE_MAX /\ count[u] # 0
          BY <1>3, <1>4, <4>1, Zenon
        <5> QED BY ONLY <3>1, <5>1, <5>2
      <4>2. CASE u # type[d] /\ u = t
        <5>1. count'[u] = count[u] + 1
          BY <2>1, <4>2, Zenon
        <5>2. count[u] \in Nat /\ count[u] < SIZE_MAX
          BY <1>3, Zenon
        <5> QED BY ONLY <3>1, <5>1, <5>2
      <4>3. CASE u # type[d] /\ u # t
        <5>1. count'[u] = count[u]
          BY <2>1, <4>3, Zenon
        <5> QED BY <1>2, <5>1
      <4> QED BY <4>1, <4>2, <4>3
    <3> QED BY <3>2, <3>3
  <2>3. ASSUME NEW u \in AllTypes PROVE count'[u] = Cardinality(OfType(u)')
    <3>1. CASE u = type[d]
      <4>1. OfType(u)' = OfType(u) \ {d}
        BY <1>1, <1>2, <1>6, <3>1 DEF OfType, Matches
      <4>2. Cardinality(OfType(u) \ {d}) = Cardinality(OfType(u)) - 1
        BY <1>3, <1>4, <3>1, FS_RemoveElement
      <4> QED BY <1>3, <2>1, <3>1, <4>1, <4>2
    <3>2. CASE u = t
      <4>1. OfType(u)' = OfType(u) \cup {d} /\ d \notin OfType(u)
        BY <1>1, <1>2, <1>6, <3>2 DEF OfType, Matches
      <4>2. Cardinality(OfType(u) \cup {d}) = Cardinality(OfType(u)) + 1
        BY <1>3, <4>1, FS_AddElement
      <4> QED BY <1>3, <1>6, <2>1, <3>2, <4>1, <4>2
    <3>3. CASE u \notin {t, type[d]}
      <4>1. OfType(u)' = OfType(u)
        BY <1>1, <1>2, <3>3 DEF OfType, Matches
      <4> QED BY <1>3, <2>1, <3>3, <4>1
    <3> QED BY <3>1, <3>2, <3>3
  <2> QED BY <2>2, <2>3 DEF CountsExact
<1> QED BY <1>5, <1>6

---------------------------------------------------------------------------
(* Counting the places of a set *)

\* The places of S up to i are finitely many.
LEMMA UpToFinite ==
  ASSUME NEW S, IsFiniteSet(S), NEW i \in Nat
  PROVE  /\ IsFiniteSet(S \cap 1..i)
         /\ Cardinality(S \cap 1..i) \in Nat
         /\ Cardinality(S \cap 1..i) <= Cardinality(S)
         /\ Cardinality(S) \in Nat
<1>1. S \cap 1..i \in SUBSET S
  OBVIOUS
<1>2. QED
  BY <1>1, FS_Subset, FS_CardinalityType

\* A place of S is counted, and a later one is counted once more.
LEMMA UpToGrows ==
  ASSUME NEW S \in SUBSET (Nat \ {0}), IsFiniteSet(S), NEW i \in S
  PROVE  /\ Cardinality(S \cap 1..i) \in 1..Cardinality(S)
         /\ \A j \in S : i < j => Cardinality(S \cap 1..i)
                                    < Cardinality(S \cap 1..j)
<1>1. \A k \in S : k \in Nat /\ k \in S \cap 1..k
  OBVIOUS
<1>2. Cardinality(S \cap 1..i) \in 1..Cardinality(S)
  <2>1. Cardinality(S \cap 1..i) # 0
    BY <1>1, UpToFinite, FS_EmptySet
  <2>2. QED
    BY <1>1, <2>1, UpToFinite
<1>3. ASSUME NEW j \in S, i < j
      PROVE  Cardinality(S \cap 1..i) < Cardinality(S \cap 1..j)
  <2>1. (S \cap 1..i) \cup {j} \in SUBSET (S \cap 1..j)
    BY <1>1, <1>3
  <2>2. j \notin S \cap 1..i
    BY <1>1, <1>3
  <2>3. Cardinality((S \cap 1..i) \cup {j}) = Cardinality(S \cap 1..i) + 1
    BY <1>1, <2>2, UpToFinite, FS_AddElement
  <2>4. /\ Cardinality((S \cap 1..i) \cup {j}) <= Cardinality(S \cap 1..j)
        /\ Cardinality(S \cap 1..i) \in Nat /\ Cardinality(S \cap 1..j) \in Nat
    BY <1>1, <2>1, UpToFinite, FS_Subset
  <2>5. QED
    BY <2>3, <2>4
<1>4. QED
  BY <1>2, <1>3

\* There is one k-th place for every k up to the number of places.
LEMMA KthPlace ==
  ASSUME NEW S \in SUBSET (Nat \ {0}), IsFiniteSet(S)
  PROVE  /\ \A i, j \in S : Cardinality(S \cap 1..i) = Cardinality(S \cap 1..j)
                              => i = j
         /\ \A k \in 1..Cardinality(S) : \E i \in S : Cardinality(S \cap 1..i) = k
<1> DEFINE rank == [i \in S |-> Cardinality(S \cap 1..i)]
<1>1. \A i \in S : i \in Nat /\ Cardinality(S \cap 1..i) \in 1..Cardinality(S)
  BY UpToGrows
<1>2. \A i, j \in S : Cardinality(S \cap 1..i) = Cardinality(S \cap 1..j)
                        => i = j
  <2> SUFFICES ASSUME NEW i \in S, NEW j \in S, i # j
               PROVE  Cardinality(S \cap 1..i) # Cardinality(S \cap 1..j)
    OBVIOUS
  <2>1. i < j \/ j < i
    BY <1>1
  <2>2. QED
    BY <1>1, <2>1, UpToGrows
<1>3. Cardinality(S) \in Nat
  BY FS_CardinalityType
<1>4. rank \in Injection(S, 1..Cardinality(S))
  <2>1. rank \in [S -> 1..Cardinality(S)]
    BY <1>1
  <2>2. \A i, j \in S : rank[i] = rank[j] => i = j
    BY <1>2, Zenon
  <2>3. QED
    BY <2>1, <2>2, Fun_IsInj
<1>5. IsFiniteSet(1..Cardinality(S)) /\ Cardinality(1..Cardinality(S)) = Cardinality(S)
  BY <1>3, FS_Interval
<1>6. rank \in Surjection(S, 1..Cardinality(S))
  BY <1>4, <1>5, FS_Injection
<1>7. \A k \in 1..Cardinality(S) : \E i \in S : rank[i] = k
  <2> HIDE DEF rank
  <2>1. QED
    BY <1>6, Fun_SurjectionProperties, Zenon
<1>8. \A k \in 1..Cardinality(S) : \E i \in S : Cardinality(S \cap 1..i) = k
  BY <1>7, Zenon
<1>9. QED
  BY <1>2, <1>8

\* The places of a type, and the elements there in order.
LEMMA PlacesFinite ==
  ASSUME TypeOK, NEW t
  PROVE  /\ Places(t) \in SUBSET (Nat \ {0}) /\ IsFiniteSet(Places(t))
         /\ Places(t) \subseteq 1..Len(list)
<1>1. Len(list) \in Nat
  BY DEF TypeOK
<1>2. Places(t) \in SUBSET (1..Len(list))
  BY DEF Places
<1>3. IsFiniteSet(1..Len(list))
  BY <1>1, FS_Interval
<1>4. IsFiniteSet(Places(t))
  BY <1>2, <1>3, FS_Subset
<1>5. QED
  BY <1>1, <1>2, <1>4

\* Each of the elements of a type in order is stored, at its place.
LEMMA InOrderPlaces ==
  ASSUME TypeOK, NEW t
  PROVE  /\ InOrder(t) \in Seq(Data)
         /\ Len(InOrder(t)) = Cardinality(Places(t))
         /\ \A i \in Places(t) :
              list[i] = InOrder(t)[Cardinality(Places(t) \cap 1..i)]
         /\ \A k \in 1..Len(InOrder(t)) : InOrder(t)[k] \in Stored
<1> DEFINE S == Places(t)
           place(k) == CHOOSE i \in S : Cardinality(S \cap 1..i) = k
<1>1. /\ S \in SUBSET (Nat \ {0}) /\ IsFiniteSet(S) /\ S \subseteq 1..Len(list)
      /\ Cardinality(S) \in Nat
  BY PlacesFinite, FS_CardinalityType
<1>2. \A i \in S : list[i] \in Data
  BY <1>1 DEF TypeOK
<1>3. InOrder(t) = [k \in 1..Cardinality(S) |-> list[place(k)]]
  BY DEF InOrder
<1> HIDE DEF S
<1>4. \A k \in 1..Cardinality(S) :
        place(k) \in S /\ Cardinality(S \cap 1..place(k)) = k
  <2> TAKE k \in 1..Cardinality(S)
  <2>1. \E i \in S : Cardinality(S \cap 1..i) = k
    BY <1>1, KthPlace
  <2>2. QED
    BY <2>1
<1>5. \A i \in S : /\ Cardinality(S \cap 1..i) \in 1..Cardinality(S)
                   /\ place(Cardinality(S \cap 1..i)) = i
  <2> TAKE i \in S
  <2>1. Cardinality(S \cap 1..i) \in 1..Cardinality(S)
    BY <1>1, UpToGrows
  <2>2. QED
    BY <1>1, <1>4, <2>1, KthPlace
<1> HIDE DEF place
<1>6. InOrder(t) \in [1..Cardinality(S) -> Data]
  BY <1>2, <1>3, <1>4
<1>7. InOrder(t) \in Seq(Data) /\ Len(InOrder(t)) = Cardinality(S)
  BY <1>1, <1>6
<1>8. \A i \in S : list[i] = InOrder(t)[Cardinality(S \cap 1..i)]
  BY <1>3, <1>5
<1>9. \A k \in 1..Cardinality(S) : InOrder(t)[k] \in Stored
  <2>1. \A i \in S : list[i] \in Stored
    BY <1>1 DEF TypeOK, Stored, ToSet
  <2>2. QED
    BY <1>3, <1>4, <2>1
<1>10. QED
  BY <1>7, <1>8, <1>9 DEF S

---------------------------------------------------------------------------
(* The list, its elements and the counter of all of them *)

\* A list without repetitions is as long as the set of its elements, and
\* shorter than SIZE_MAX.
LEMMA ListSize ==
  ASSUME TypeOK, StoredOnce
  PROVE  /\ Len(list) = Cardinality(Stored)
         /\ Len(list) \in Nat /\ Len(list) < SIZE_MAX
<1>1. list \in Seq(Data) /\ Len(list) \in Nat
  BY DEF TypeOK
<1>2. list \in [1..Len(list) -> Stored]
  BY <1>1 DEF Stored, ToSet
<1>3. \A x \in Stored : \E i \in 1..Len(list) : list[i] = x
  BY <1>1 DEF Stored, ToSet
<1>4. list \in Bijection(1..Len(list), Stored)
  BY <1>2, <1>3, Fun_IsBij DEF StoredOnce
<1>5. IsFiniteSet(1..Len(list)) /\ Cardinality(1..Len(list)) = Len(list)
  <2>1. \A n \in Nat : IsFiniteSet(1..n) /\ Cardinality(1..n) = n
    BY FS_Interval
  <2> QED BY <1>1, <2>1
<1>6. Cardinality(Stored) = Len(list)
  BY <1>4, <1>5, FS_Bijection DEF ExistsBijection
<1>7. Stored \in SUBSET Data
  BY <1>1 DEF Stored, ToSet
<1>8. Cardinality(Stored) <= Cardinality(Data) /\ Cardinality(Data) \in Nat
  BY <1>7, FS_Subset, FS_CardinalityType, MsetAssumption DEF MsetAssumption
<1> QED BY <1>1, <1>6, <1>8, MsetAssumption DEF MsetAssumption

\* size_t arithmetic stays within size_t.
LEMMA CountersTyped ==
  ASSUME NEW n \in 0..SIZE_MAX
  PROVE  Up(n) \in 0..SIZE_MAX /\ Down(n) \in 0..SIZE_MAX
  BY MsetAssumption DEF MsetAssumption, Up, Down

\* Inserting an element at a position of the list, outside a traversal.
LEMMA PutKeepsList ==
  ASSUME ListInv, ~iter.on, NEW d \in Data, NEW t \in Types,
         NEW p \in 0..Len(list), d \notin Stored, PutAt(d, t, p), NoTraversal
  PROVE  ListInv' /\ Stored' = Stored \cup {d} /\ (TotalExact => TotalExact')
<1> USE DEF ListInv
<1>1. list \in Seq(Data) /\ list' = InsertAt(list, p + 1, d)
  BY DEF TypeOK, PutAt
<1>2. /\ list' \in Seq(Data) /\ Len(list') = Len(list) + 1
  BY <1>1, InsertAtIndex
<1>3. /\ Stored' = Stored \cup {d}
      /\ \A i, j \in 1..Len(list') : list'[i] = list'[j] => i = j
  <2>1. ToSet(InsertAt(list, p + 1, d)) = ToSet(list) \cup {d}
    BY <1>1, InsertAtSet DEF Stored, StoredOnce
  <2>2. \A i, j \in 1..Len(InsertAt(list, p + 1, d)) :
          InsertAt(list, p + 1, d)[i] = InsertAt(list, p + 1, d)[j] => i = j
    BY <1>1, InsertAtSet DEF Stored, StoredOnce
  <2> QED BY <1>1, <2>1, <2>2 DEF Stored
<1>4. /\ MSET_ANY \in AllTypes /\ t \in AllTypes /\ t # MSET_ANY
      /\ count \in [AllTypes -> 0..SIZE_MAX]
      /\ count' = [count EXCEPT ![MSET_ANY] = Up(@), ![t] = Up(@)]
  BY MsetAssumption DEF MsetAssumption, AllTypes, TypeOK, PutAt, Counted
<1>5. cur = NULL /\ cur' = NULL /\ iter' = iter /\ aborted' = aborted
  BY DEF CurrentLocated, NoTraversal, PutAt
<1>6. TypeOK'
  <2>1. type' \in [Data -> AllTypes] /\ node' \in [Data -> Nat]
    BY DEF TypeOK, PutAt, AllTypes
  <2>2. count' \in [AllTypes -> 0..SIZE_MAX]
    BY <1>4, CountersTyped
  <2> QED BY <1>2, <1>5, <2>1, <2>2 DEF TypeOK
<1>7. StoredOnce'
  BY <1>3 DEF StoredOnce
<1>8. TypedWhenStored'
  BY <1>3 DEF TypedWhenStored, PutAt, TypeOK
<1>9. CurrentLocated' /\ IteratorInStep'
  BY <1>5 DEF CurrentLocated, IteratorInStep
<1>10. ASSUME TotalExact PROVE TotalExact'
  <2>1. count[MSET_ANY] = Len(list) /\ Len(list) \in Nat /\ Len(list) < SIZE_MAX
    BY <1>10, ListSize DEF TotalExact
  <2>2. count'[MSET_ANY] = Up(count[MSET_ANY])
    BY <1>4
  <2>3. Up(count[MSET_ANY]) = Len(list) + 1
    BY <2>1, MsetAssumption DEF MsetAssumption, Up
  <2> QED BY <1>2, <2>2, <2>3 DEF TotalExact
<1> QED BY <1>3, <1>6, <1>7, <1>8, <1>9, <1>10

\* rec_mset_remove_elem takes whatever is at the node: one element leaves
\* the list, and one is subtracted from the counter of all of them.
LEMMA RemoveKeepsList ==
  ASSUME ListInv, NEW d \in Stored, RemoveElem(d), node[d] \in 1..Len(list),
         cur' = NULL, iter' = iter, iter.on => iter.n = Len(list)
  PROVE  /\ ListInv' /\ (TotalExact => TotalExact') /\ aborted' = aborted
         /\ list' = RemoveAt(list, node[d])
         /\ Stored' = Stored \ {list[node[d]]}
<1> USE DEF ListInv
<1> DEFINE k == node[d]
           victim == list[k]
<1>1. /\ list' = RemoveAt(list, k) /\ aborted' = aborted
      /\ type' = [type EXCEPT ![victim] = MSET_ANY]
      /\ node' = [node EXCEPT ![victim] = 0]
      /\ count' = [count EXCEPT ![type[d]] = Down(@), ![MSET_ANY] = Down(@)]
  BY DEF RemoveElem
<1>2. /\ list \in Seq(Data) /\ Len(list) \in Nat /\ k \in 1..Len(list)
      /\ victim \in Data
  BY DEF TypeOK
<1>3. d \in Data
  BY <1>2 DEF Stored, ToSet
<1> HIDE DEF k
<1>4. list' \in Seq(Data) /\ Len(list') = Len(list) - 1
  BY <1>1, <1>2, RemoveAtIndex
<1>5. /\ Stored' = Stored \ {victim}
      /\ \A i, j \in 1..Len(list') : list'[i] = list'[j] => i = j
  <2>1. ToSet(RemoveAt(list, k)) = ToSet(list) \ {list[k]}
    BY <1>2, RemoveAtSet DEF StoredOnce
  <2>2. \A i, j \in 1..Len(RemoveAt(list, k)) :
          RemoveAt(list, k)[i] = RemoveAt(list, k)[j] => i = j
    BY <1>2, RemoveAtSet DEF StoredOnce
  <2> QED BY <1>1, <2>1, <2>2 DEF Stored
<1> HIDE DEF victim
<1>6. /\ MSET_ANY \in AllTypes /\ type[d] \in AllTypes /\ type[d] # MSET_ANY
      /\ count \in [AllTypes -> 0..SIZE_MAX]
  BY <1>3, MsetAssumption
     DEF MsetAssumption, AllTypes, TypeOK, TypedWhenStored
<1>7. TypeOK'
  <2>1. type' \in [Data -> AllTypes] /\ node' \in [Data -> Nat]
    BY <1>1, <1>2, <1>6 DEF TypeOK
  <2>2. count' \in [AllTypes -> 0..SIZE_MAX]
    BY <1>1, <1>6, CountersTyped
  <2> QED BY <1>1, <1>4, <2>1, <2>2 DEF TypeOK
<1>8. StoredOnce'
  BY <1>5 DEF StoredOnce
<1>9. TypedWhenStored'
  BY <1>1, <1>2, <1>5, MsetAssumption
     DEF TypedWhenStored, TypeOK, MsetAssumption
<1>10. CurrentLocated' /\ IteratorInStep'
  BY <1>2, <1>4 DEF CurrentLocated, IteratorInStep
<1>11. ASSUME TotalExact PROVE TotalExact'
  <2>1. count[MSET_ANY] = Len(list) /\ Len(list) # 0
    BY <1>2, <1>11 DEF TotalExact
  <2>2. count'[MSET_ANY] = Down(count[MSET_ANY])
    BY <1>1, <1>6
  <2>3. Down(count[MSET_ANY]) = Len(list) - 1
    BY <2>1 DEF Down
  <2> QED BY <1>4, <2>2, <2>3 DEF TotalExact
<1> QED BY <1>1, <1>5, <1>7, <1>8, <1>9, <1>10, <1>11 DEF k, victim

\* The element the loop is at is where its node says, so that removing the
\* node removes the element.
LEMMA RemoveCurrentKeepsList ==
  ASSUME ListInv, RemoveCurrent
  PROVE  /\ ListInv' /\ (TotalExact => TotalExact') /\ aborted' = aborted
         /\ cur \in Stored /\ cur \in Data /\ Stored' = Stored \ {cur}
         /\ type' = [type EXCEPT ![cur] = MSET_ANY]
         /\ count' = [count EXCEPT ![type[cur]] = Down(@),
                                   ![MSET_ANY] = Down(@)]
         /\ \E i \in 1..Len(list) : list[i] = cur /\ list' = RemoveAt(list, i)
<1>1. /\ cur # NULL /\ cur' = NULL /\ cur \in Data /\ iter' = iter /\ iter.on
      /\ node[cur] \in 1..Len(list) /\ list[node[cur]] = cur
      /\ iter.n = Len(list) /\ list \in Seq(Data) /\ RemoveElem(cur)
  BY DEF ListInv, RemoveCurrent, CurrentLocated, IteratorInStep, TypeOK
<1>2. cur \in Stored
  BY <1>1 DEF Stored, ToSet
<1>3. /\ ListInv' /\ (TotalExact => TotalExact') /\ aborted' = aborted
      /\ list' = RemoveAt(list, node[cur]) /\ Stored' = Stored \ {cur}
  BY <1>1, <1>2, RemoveKeepsList
<1>4. /\ type' = [type EXCEPT ![cur] = MSET_ANY]
      /\ count' = [count EXCEPT ![type[cur]] = Down(@),
                                ![MSET_ANY] = Down(@)]
  BY <1>1 DEF RemoveElem
<1> QED BY <1>1, <1>2, <1>3, <1>4

\* An element that becomes a comment keeps its place.
LEMMA RetypeCurrentKeepsList ==
  ASSUME ListInv, NEW t \in Types, RetypeCurrent(t)
  PROVE  /\ ListInv' /\ (TotalExact => TotalExact') /\ aborted' = aborted
         /\ cur \in Data /\ cur \in Stored /\ Stored' = Stored
<1> USE DEF ListInv
<1>1. /\ cur # NULL /\ cur \in Data /\ cur \in Stored
      /\ UNCHANGED <<list, node, iter, cur, aborted>> /\ Stored' = Stored
  BY DEF RetypeCurrent, CurrentLocated, TypeOK, Stored, ToSet
<1>2. /\ type' = [type EXCEPT ![cur] = t]
      /\ count' = [[count EXCEPT ![type[cur]] = Down(@)]
                     EXCEPT ![t] = Up(@)]
  BY DEF RetypeCurrent
<1>3. /\ MSET_ANY \in AllTypes /\ type[cur] # MSET_ANY
      /\ type[cur] \in AllTypes /\ t # MSET_ANY /\ t \in AllTypes
      /\ count \in [AllTypes -> 0..SIZE_MAX]
  BY <1>1, MsetAssumption
     DEF MsetAssumption, AllTypes, TypedWhenStored, TypeOK
<1>4. TypeOK'
  <2>1. type' \in [Data -> AllTypes]
    BY <1>1, <1>2, <1>3 DEF TypeOK
  <2>2. count' \in [AllTypes -> 0..SIZE_MAX]
    BY <1>2, <1>3, CountersTyped
  <2> QED BY <1>1, <2>1, <2>2 DEF TypeOK
<1>5. TypedWhenStored'
  BY <1>1, <1>2 DEF TypedWhenStored, TypeOK
<1>6. StoredOnce' /\ CurrentLocated' /\ IteratorInStep'
  BY <1>1 DEF StoredOnce, CurrentLocated, IteratorInStep
<1>7. TotalExact => TotalExact'
  <2>1. count'[MSET_ANY] = count[MSET_ANY]
    BY <1>2, <1>3
  <2> QED BY <1>1, <2>1 DEF TotalExact
<1> QED BY <1>1, <1>4, <1>5, <1>6, <1>7

\* New data in the element the loop is at.
LEMMA ReplaceCurrentKeepsList ==
  ASSUME ListInv, NEW d \in Data, ReplaceCurrent(d)
  PROVE  /\ ListInv' /\ (TotalExact => TotalExact')
         /\ UNCHANGED <<count, aborted>>
         /\ cur \in Data /\ cur \in Stored /\ d \notin Stored
         /\ Stored' = (Stored \ {cur}) \cup {d}
<1> USE DEF ListInv
<1> DEFINE k == node[cur]
<1>1. /\ cur # NULL /\ cur \in Data /\ d \notin Stored /\ cur' = d /\ d # NULL
      /\ k \in 1..Len(list) /\ list[k] = cur /\ list \in Seq(Data)
      /\ UNCHANGED <<count, iter, aborted>> /\ iter.on
  BY MsetAssumption
     DEF ReplaceCurrent, CurrentLocated, TypeOK, MsetAssumption
<1>2. cur \in Stored /\ d # cur /\ \A i \in 1..Len(list) : list[i] # d
  BY <1>1 DEF Stored, ToSet
<1>3. /\ list' = [i \in 1..Len(list) |-> IF list[i] = cur THEN d ELSE list[i]]
      /\ type' = [type EXCEPT ![d] = type[cur], ![cur] = MSET_ANY]
      /\ node' = [node EXCEPT ![d] = node[cur], ![cur] = 0]
  BY DEF ReplaceCurrent
<1> HIDE DEF k
<1>4. /\ list' \in Seq(Data) /\ Len(list') = Len(list)
      /\ list'[k] = d /\ \A i \in 1..Len(list) : i # k => list'[i] = list[i]
  <2>1. Len(list) \in Nat /\ \A i \in 1..Len(list) : list[i] \in Data
    BY <1>1
  <2>2. list' \in [1..Len(list) -> Data]
    BY <1>3, <2>1
  <2>3. list' \in Seq(Data) /\ Len(list') = Len(list)
    BY <2>1, <2>2
  <2>4. \A i \in 1..Len(list) : i # k => list[i] # cur
    BY <1>1 DEF StoredOnce
  <2> QED BY <1>1, <1>3, <2>3, <2>4
<1>5. Stored' = (Stored \ {cur}) \cup {d}
  <2>1. \A x : x \in Stored' <=> \E i \in 1..Len(list) : list'[i] = x
    BY <1>4 DEF Stored, ToSet
  <2>2. \A x : x \in Stored <=> \E i \in 1..Len(list) : list[i] = x
    BY <1>1 DEF Stored, ToSet
  <2>3. \A i \in 1..Len(list) : i # k => list[i] # cur
    BY <1>1 DEF StoredOnce
  <2> QED BY <1>1, <1>4, <2>1, <2>2, <2>3
<1>6. StoredOnce'
  BY <1>1, <1>2, <1>4 DEF StoredOnce
<1>7. TypedWhenStored'
  BY <1>1, <1>2, <1>3, <1>5, MsetAssumption
     DEF TypedWhenStored, TypeOK, MsetAssumption
<1>8. CurrentLocated' /\ IteratorInStep' /\ (TotalExact => TotalExact')
  <2>1. node'[d] = k
    BY <1>1, <1>2, <1>3 DEF TypeOK, k
  <2> QED BY <1>1, <1>4, <2>1
          DEF CurrentLocated, IteratorInStep, TotalExact
<1>9. TypeOK'
  <2>1. type' \in [Data -> AllTypes] /\ node' \in [Data -> Nat]
    BY <1>1, <1>3 DEF TypeOK, AllTypes
  <2> QED BY <1>1, <1>4, <2>1 DEF TypeOK
<1> QED BY <1>1, <1>2, <1>5, <1>6, <1>7, <1>8, <1>9

\* rec_mset_iterator_next refreshes the node of the element it gives back,
\* which is all that the steps of the loop rely on.
LEMMA IteratorNextKeepsList ==
  ASSUME ListInv, NEW wantsElem \in BOOLEAN, IteratorNext(wantsElem)
  PROVE  ListInv' /\ (TotalExact => TotalExact')
<1> USE DEF ListInv
<1>1. PICK i \in 1..Len(list) :
        /\ iter' = [iter EXCEPT !.p = i, !.n = Len(list)]
        /\ IF wantsElem
           THEN cur' = list[i] /\ node' = [node EXCEPT ![list[i]] = i]
           ELSE cur' = NULL /\ UNCHANGED node
  BY DEF IteratorNext, Ahead, Places
<1>2. /\ UNCHANGED <<list, type, count, aborted>> /\ iter.on
      /\ list \in Seq(Data) /\ list[i] \in Data /\ Len(list) \in Nat
  BY SMTT(30) DEF IteratorNext, TypeOK
<1>3. TypeOK'
  <2>1. iter' \in [on : BOOLEAN, ty : AllTypes, p : Nat, n : Nat,
                   done : BOOLEAN]
    <3>1. iter \in [on : BOOLEAN, ty : AllTypes, p : Nat, n : Nat,
                    done : BOOLEAN]
      BY DEF TypeOK
    <3>2. iter' = [iter EXCEPT !.p = i, !.n = Len(list)] /\ i \in Nat
      BY <1>1
    <3> QED BY ONLY <1>2, <3>1, <3>2
  <2>2. node' \in [Data -> Nat] /\ cur' \in Data \cup {NULL}
    <3>1. node \in [Data -> Nat] /\ i \in Nat
      BY DEF TypeOK
    <3>2. CASE wantsElem
      BY <1>1, <1>2, <3>1, <3>2
    <3>3. CASE ~wantsElem
      BY <1>1, <3>1, <3>3
    <3> QED BY <3>2, <3>3
  <2> QED BY <1>2, <2>1, <2>2 DEF TypeOK
<1>4. iter'.n = Len(list) /\ iter'.on
  BY <1>1, <1>2 DEF TypeOK
<1>5. CurrentLocated'
  BY <1>1, <1>2, <1>4 DEF CurrentLocated, TypeOK
<1>6. IteratorInStep' /\ (TotalExact => TotalExact')
  BY <1>2, <1>4 DEF IteratorInStep, TotalExact
<1>7. Stored' = Stored
  BY <1>2 DEF Stored
<1>8. StoredOnce' /\ TypedWhenStored'
  BY <1>2, <1>7 DEF StoredOnce, TypedWhenStored
<1> QED BY <1>3, <1>5, <1>6, <1>8

\* An insertion puts the new element in the list.  A counter that is too
\* high makes rec_mset_insert_at give gnulib a position past its end, and
\* rec_mset_insert_after adds the element it was given when it is not there.
LEMMA InsertionPuts ==
  ASSUME ListInv, NEW d \in Data, NEW t \in Types,
         \/ \E p \in 0..Cardinality(Data) : InsertElemAt(d, t, p)
         \/ \E u \in AllTypes : AppendElem(d, t, u)
         \/ \E e \in Data : InsertAfter(d, t, e)
  PROVE  /\ NoTraversal /\ ~iter.on /\ d \notin Stored
         /\ \/ \E p \in 0..Len(list) : PutAt(d, t, p)
            \/ ~TotalExact /\ aborted' = TRUE /\ UNCHANGED mset
            \/ /\ "foreign" \in Calls
               /\ \E e \in Data \ Stored :
                    /\ list' = Append(list, e)
                    /\ type' = [type EXCEPT ![e] = t]
                    /\ UNCHANGED <<node, count, aborted>>
<1>1. TypeOK /\ Len(list) \in Nat /\ \A u \in AllTypes : count[u] \in Nat
  BY MsetAssumption DEF ListInv, TypeOK, MsetAssumption
<1>2. \A p \in Nat : /\ InsertPosition(p) \in Nat
                     /\ TotalExact => InsertPosition(p) <= Len(list)
  BY <1>1 DEF InsertPosition, TotalExact
<1>3. ASSUME NEW p \in Nat,
             IF InsertPosition(p) <= Len(list)
             THEN PutAt(d, t, InsertPosition(p))
             ELSE aborted' = TRUE /\ UNCHANGED mset
      PROVE  \/ \E q \in 0..Len(list) : PutAt(d, t, q)
             \/ ~TotalExact /\ aborted' = TRUE /\ UNCHANGED mset
  <2> DEFINE q == InsertPosition(p)
  <2>1. q \in Nat /\ (TotalExact => q <= Len(list))
    BY <1>2
  <2>2. IF q <= Len(list) THEN PutAt(d, t, q)
        ELSE aborted' = TRUE /\ UNCHANGED mset
    BY <1>3
  <2> HIDE DEF q
  <2>3. q <= Len(list) => q \in 0..Len(list)
    BY <1>1, <2>1
  <2> QED BY <2>1, <2>2, <2>3, Zenon
<1>4. ASSUME NEW p \in 0..Cardinality(Data), InsertElemAt(d, t, p)
      PROVE  /\ NoTraversal /\ ~iter.on /\ d \notin Stored
             /\ \/ \E q \in 0..Len(list) : PutAt(d, t, q)
                \/ ~TotalExact /\ aborted' = TRUE /\ UNCHANGED mset
  <2>1. p \in Nat
    BY FS_CardinalityType, MsetAssumption DEF MsetAssumption
  <2> QED BY <1>3, <1>4, <2>1, Zenon DEF InsertElemAt, Modify
<1>5. ASSUME NEW u \in AllTypes, AppendElem(d, t, u)
      PROVE  /\ NoTraversal /\ ~iter.on /\ d \notin Stored
             /\ \/ \E q \in 0..Len(list) : PutAt(d, t, q)
                \/ ~TotalExact /\ aborted' = TRUE /\ UNCHANGED mset
  <2>1. count[u] \in Nat
    BY <1>1
  <2> QED BY <1>3, <1>5, <2>1, Zenon DEF AppendElem, Modify
<1>6. ASSUME NEW e \in Data, InsertAfter(d, t, e)
      PROVE  /\ NoTraversal /\ ~iter.on /\ d \notin Stored
             /\ \/ \E q \in 0..Len(list) : PutAt(d, t, q)
                \/ /\ "foreign" \in Calls /\ e \notin Stored
                   /\ list' = Append(list, e)
                   /\ type' = [type EXCEPT ![e] = t]
                   /\ UNCHANGED <<node, count, aborted>>
  <2>1. \A i \in 1..Len(list) : i \in 0..Len(list)
    BY <1>1
  <2>2. NoTraversal /\ ~iter.on /\ d \notin Stored
    BY <1>6 DEF InsertAfter, Modify
  <2>3. CASE e \in Stored
    <3>1. \E i \in 1..Len(list) : PutAt(d, t, i)
      BY <1>6, <2>3, Zenon DEF InsertAfter
    <3> QED BY <2>1, <2>2, <3>1
  <2>4. CASE e \notin Stored
    BY <1>6, <2>2, <2>4, Zenon DEF InsertAfter
  <2> QED BY <2>3, <2>4
<1>7. CASE \E p \in 0..Cardinality(Data) : InsertElemAt(d, t, p)
  BY <1>4, <1>7, Zenon
<1>8. CASE \E u \in AllTypes : AppendElem(d, t, u)
  BY <1>5, <1>8, Zenon
<1>9. CASE \E e \in Data : InsertAfter(d, t, e)
  <2>1. PICK e \in Data : InsertAfter(d, t, e)
    BY <1>9
  <2> QED BY <1>6, <2>1, Zenon
<1> QED BY <1>7, <1>8, <1>9

\* rec_mset_remove_at gives the node of a stored element to
\* rec_mset_remove_elem, or crashes and changes nothing.
LEMMA RemovalRemoves ==
  ASSUME ListInv, NEW t \in AllTypes, NEW p \in Nat, RemoveElemAt(t, p)
  PROVE  /\ NoTraversal /\ ~iter.on
         /\ \/ UNCHANGED mset /\ aborted' = TRUE
            \/ \E d \in Stored : node[d] \in 1..Len(list) /\ RemoveElem(d)
<1> DEFINE q == IF p >= count[t] THEN count[t] - 1 ELSE p
           d == GetAt(t, q)
<1>1. /\ NoTraversal /\ ~iter.on
      /\ \/ aborted' = TRUE /\ UNCHANGED mset
         \/ d # NULL /\ RemoveElem(d)
  BY Zenon DEF RemoveElemAt, Modify
<1>2. CASE d # NULL /\ RemoveElem(d)
  <2>1. TypeOK
    BY DEF ListInv
  <2>2. count[t] > 0 /\ count[t] \in Nat
    <3>1. count[t] > 0
      BY Zenon DEF RemoveElemAt
    <3> QED BY <2>1, <3>1 DEF TypeOK
  <2>3. q \in Nat
    BY <2>2
  <2> HIDE DEF q
  <2>4. q < Len(InOrder(t)) /\ d = InOrder(t)[q + 1]
    BY <1>2, Zenon DEF GetAt
  <2> HIDE DEF d
  <2>5. Len(InOrder(t)) \in Nat
        /\ \A k \in 1..Len(InOrder(t)) : InOrder(t)[k] \in Stored
    BY <2>1, InOrderPlaces
  <2>6. d \in Stored
    BY <2>3, <2>4, <2>5
  <2>7. CASE node[d] \in 1..Len(list)
    BY <1>1, <1>2, <2>6, <2>7
  <2>8. CASE node[d] \notin 1..Len(list)
    BY <1>1, <1>2, <2>8, Zenon DEF RemoveElem
  <2> QED BY <2>7, <2>8
<1> QED BY <1>1, <1>2

\* A step that leaves the list, the types and the counters alone keeps what
\* the invariant says of them.
LEMMA SameList ==
  ASSUME ListInv, UNCHANGED <<list, type, count>>
  PROVE  /\ StoredOnce' /\ TypedWhenStored'
         /\ TotalExact => TotalExact'
         /\ CountsExact => CountsExact'
<1>1. Stored' = Stored /\ \A u : OfType(u)' = OfType(u)
  BY DEF Stored, OfType, Matches
<1> QED BY <1>1
        DEF ListInv, StoredOnce, TypedWhenStored, CountsExact, TotalExact

\* A step that only aborts, or nothing at all.
LEMMA SameMset ==
  ASSUME ListInv, UNCHANGED <<list, type, node, count, iter, cur>>,
         aborted' \in BOOLEAN
  PROVE  ListInv' /\ (TotalExact => TotalExact')
<1>1. TypeOK' /\ CurrentLocated' /\ IteratorInStep'
  BY DEF ListInv, TypeOK, CurrentLocated, IteratorInStep
<1> QED BY <1>1, SameList DEF ListInv

\* A new multi-set satisfies the invariants.
LEMMA InitEstablishes ==
  ASSUME Init PROVE MsetInv
<1>1. TypeOK
  <2>1. list \in Seq(Data) /\ type \in [Data -> AllTypes]
    BY DEF Init, AllTypes
  <2>2. node \in [Data -> Nat] /\ count \in [AllTypes -> 0..SIZE_MAX]
    BY MsetAssumption DEF Init, MsetAssumption
  <2>3. iter \in [on : BOOLEAN, ty : AllTypes, p : Nat, n : Nat,
                  done : BOOLEAN]
    BY DEF Init, Idle, AllTypes
  <2> QED BY <2>1, <2>2, <2>3 DEF TypeOK, Init
<1>2. Stored = {} /\ Len(list) = 0
  BY DEF Init, Stored, ToSet
<1>3. CountsExact
  <2>1. \A u : OfType(u) = {}
    BY <1>2 DEF OfType
  <2> QED BY <2>1, FS_EmptySet DEF CountsExact, Init
<1>4. TypedWhenStored
  BY <1>2, MsetAssumption DEF TypedWhenStored, Init, MsetAssumption
<1>5. StoredOnce /\ CurrentLocated /\ IteratorInStep /\ NeverAborts
  BY <1>2 DEF StoredOnce, CurrentLocated, IteratorInStep, NeverAborts,
              Init, Idle
<1>6. TotalExact
  BY <1>2 DEF TotalExact, Init, AllTypes
<1> QED BY <1>1, <1>3, <1>4, <1>5, <1>6 DEF MsetInv, ListInv

\* rec_mset_dup counts the elements again.
LEMMA DupKeepsList ==
  ASSUME ListInv, Dup
  PROVE  ListInv' /\ TotalExact' /\ CountsExact' /\ aborted' = aborted
<1> USE DEF ListInv
<1>1. /\ UNCHANGED <<list, type, iter, cur, aborted>> /\ ~iter.on
      /\ count' = [t \in AllTypes |-> Cardinality(OfType(t))]
  BY DEF Dup, Modify, NoTraversal
<1>2. list \in Seq(Data) /\ Len(list) \in Nat
  BY DEF TypeOK
<1>3. node' \in [Data -> Nat]
  <2>1. \A d \in Stored : \E i \in 1..Len(list) : list[i] = d
    BY <1>2 DEF Stored, ToSet
  <2>2. \A d \in Stored :
          (CHOOSE i \in 1..Len(list) : list[i] = d) \in 1..Len(list)
    BY <2>1
  <2> QED BY <1>2, <2>2 DEF Dup
<1>4. Stored' = Stored /\ \A u : OfType(u)' = OfType(u)
  BY <1>1 DEF Stored, OfType, Matches
<1>5. CountsExact'
  BY <1>1, <1>4 DEF CountsExact
<1>6. count' \in [AllTypes -> 0..SIZE_MAX]
  <2>1. SIZE_MAX \in Nat
    BY MsetAssumption DEF MsetAssumption
  <2>2. \A t \in AllTypes : Cardinality(OfType(t)) \in 0..SIZE_MAX
    BY <2>1, OfTypeFinite
  <2> QED BY <1>1, <2>2
<1>7. TypeOK'
  BY <1>1, <1>3, <1>6 DEF TypeOK
<1>8. CurrentLocated' /\ IteratorInStep'
  BY <1>1 DEF CurrentLocated, IteratorInStep
<1>9. StoredOnce' /\ TypedWhenStored'
  BY <1>1, <1>4 DEF StoredOnce, TypedWhenStored
<1>10. TotalExact'
  <2>1. OfType(MSET_ANY) = Stored /\ MSET_ANY \in AllTypes
    BY DEF OfType, Matches, AllTypes
  <2>2. count'[MSET_ANY] = Cardinality(Stored)
    BY <1>1, <2>1
  <2> QED BY <1>1, <2>2, ListSize DEF TotalExact
<1> QED BY <1>1, <1>5, <1>7, <1>8, <1>9, <1>10

\* Beginning, ending and leaving a traversal.
LEMMA IteratorKeepsList ==
  ASSUME ListInv,
         (\E t \in AllTypes : StartIterator(t)) \/ IteratorEnd \/ IteratorFree
  PROVE  /\ ListInv' /\ UNCHANGED <<list, type, count, aborted>>
         /\ TotalExact => TotalExact'
<1> USE DEF ListInv
<1>0. Len(list) \in Nat
  BY DEF TypeOK
<1>1. ASSUME NEW t \in AllTypes, StartIterator(t)
      PROVE  ListInv' /\ UNCHANGED <<list, type, count, aborted>>
  <2>1. /\ UNCHANGED <<list, type, node, count, aborted>> /\ cur' = NULL
        /\ iter' = [on |-> TRUE, ty |-> t, p |-> 0, n |-> Len(list),
                     done |-> FALSE]
    BY <1>1 DEF StartIterator, mset
  <2>2. TypeOK'
    BY <1>0, <2>1 DEF TypeOK
  <2>3. CurrentLocated' /\ IteratorInStep'
    BY <2>1 DEF CurrentLocated, IteratorInStep
  <2> QED BY <2>1, <2>2, <2>3, SameList
<1>2. CASE IteratorEnd
  <2>1. /\ UNCHANGED <<list, type, node, count, aborted>> /\ cur' = NULL
        /\ iter' = [iter EXCEPT !.done = TRUE] /\ iter.on
    BY <1>2 DEF IteratorEnd, mset, IteratorInStep
  <2>2. /\ iter \in [on : BOOLEAN, ty : AllTypes, p : Nat, n : Nat,
                      done : BOOLEAN]
        /\ iter' \in [on : BOOLEAN, ty : AllTypes, p : Nat, n : Nat,
                       done : BOOLEAN]
        /\ iter'.n = iter.n
    <3>1. iter \in [on : BOOLEAN, ty : AllTypes, p : Nat, n : Nat,
                    done : BOOLEAN]
      BY DEF TypeOK
    <3> QED BY ONLY <2>1, <3>1
  <2>3. TypeOK'
    BY <2>1, <2>2 DEF TypeOK
  <2>4. CurrentLocated' /\ IteratorInStep'
    BY <2>1, <2>2 DEF CurrentLocated, IteratorInStep
  <2> QED BY <2>1, <2>3, <2>4, SameList
<1>3. CASE IteratorFree
  <2>1. /\ UNCHANGED <<list, type, node, count, aborted>> /\ cur' = NULL
        /\ iter' = Idle
    BY <1>3 DEF IteratorFree, mset
  <2>2. TypeOK'
    BY <2>1 DEF TypeOK, Idle, AllTypes
  <2>3. CurrentLocated' /\ IteratorInStep'
    BY <2>1 DEF CurrentLocated, IteratorInStep, Idle
  <2> QED BY <2>1, <2>2, <2>3, SameList
<1> QED BY <1>1, <1>2, <1>3, SameList

\* Each of the three insertions, and what it does for a client whose
\* counter of all the elements is right.
LEMMA InsertionKeepsList ==
  ASSUME ListInv, NEW d \in Data, NEW t \in Types,
         \/ \E p \in 0..Cardinality(Data) : InsertElemAt(d, t, p)
         \/ \E u \in AllTypes : AppendElem(d, t, u)
         \/ \E e \in Data : InsertAfter(d, t, e)
  PROVE  /\ ListInv'
         /\ TotalExact /\ "foreign" \notin Calls =>
              /\ TotalExact' /\ aborted' = aborted
              /\ d \notin Stored /\ Stored' = Stored \cup {d}
              /\ type' = [type EXCEPT ![d] = t] /\ count' = Counted(count, t)
<1>1. NoTraversal /\ ~iter.on /\ d \notin Stored
  BY InsertionPuts
<1>2. iter' = iter /\ cur' = cur /\ cur = NULL
  BY <1>1 DEF ListInv, CurrentLocated, NoTraversal
<1>3. ASSUME NEW p \in 0..Len(list), PutAt(d, t, p)
      PROVE  /\ ListInv' /\ (TotalExact => TotalExact') /\ aborted' = aborted
             /\ d \notin Stored /\ Stored' = Stored \cup {d}
             /\ type' = [type EXCEPT ![d] = t] /\ count' = Counted(count, t)
  <2>1. ListInv' /\ Stored' = Stored \cup {d} /\ (TotalExact => TotalExact')
    BY <1>1, <1>3, PutKeepsList
  <2> QED BY <1>1, <1>3, <2>1 DEF PutAt
<1>4. ASSUME aborted' = TRUE, UNCHANGED mset
      PROVE  ListInv'
  <2>1. UNCHANGED <<list, type, node, count>>
    BY <1>4 DEF mset
  <2> QED BY <1>2, <1>4, <2>1, SameMset
<1>5. ASSUME NEW e \in Data \ Stored, list' = Append(list, e),
             type' = [type EXCEPT ![e] = t], UNCHANGED <<node, count, aborted>>
      PROVE  ListInv'
  <2> USE DEF ListInv
  <2>1. /\ list \in Seq(Data) /\ Len(list) \in Nat /\ e \in Data
        /\ \A i \in 1..Len(list) : list[i] # e
    BY SMTT(30) DEF TypeOK, Stored, ToSet
  <2>2. /\ list' \in Seq(Data) /\ Len(list') = Len(list) + 1
        /\ list'[Len(list) + 1] = e
        /\ \A i \in 1..Len(list) : list'[i] = list[i]
    BY <1>5, <2>1
  <2>3. TypeOK'
    BY <1>2, <1>5, <2>1, <2>2 DEF TypeOK, AllTypes
  <2>4. StoredOnce'
    BY <2>1, <2>2 DEF StoredOnce
  <2>5. Stored' = Stored \cup {e}
    <3>1. \A x : x \in Stored' <=> \E i \in 1..(Len(list) + 1) : list'[i] = x
      BY <2>2 DEF Stored, ToSet
    <3>2. \A x : x \in Stored <=> \E i \in 1..Len(list) : list[i] = x
      BY <2>1 DEF Stored, ToSet
    <3>3. \A i : i \in 1..(Len(list) + 1) <=> i \in 1..Len(list) \/ i = Len(list) + 1
      BY <2>1
    <3> QED BY <2>2, <3>1, <3>2, <3>3
  <2>6. TypedWhenStored'
    BY <1>5, <2>1, <2>5 DEF TypedWhenStored, TypeOK
  <2>7. CurrentLocated' /\ IteratorInStep'
    BY <1>1, <1>2 DEF CurrentLocated, IteratorInStep
  <2> QED BY <2>3, <2>4, <2>6, <2>7
<1>6. \/ \E p \in 0..Len(list) : PutAt(d, t, p)
      \/ ~TotalExact /\ aborted' = TRUE /\ UNCHANGED mset
      \/ /\ "foreign" \in Calls
         /\ \E e \in Data \ Stored :
              /\ list' = Append(list, e)
              /\ type' = [type EXCEPT ![e] = t]
              /\ UNCHANGED <<node, count, aborted>>
  BY InsertionPuts
<1> QED BY <1>3, <1>4, <1>5, <1>6

\* rec_mset_remove_at, which may remove another element than the one it
\* found, or none.
LEMMA RemoveAtKeepsList ==
  ASSUME ListInv, NEW t \in AllTypes, NEW p \in 0..Cardinality(Data),
         RemoveElemAt(t, p)
  PROVE  ListInv' /\ (TotalExact => TotalExact')
<1>1. p \in Nat
  BY FS_CardinalityType, MsetAssumption DEF MsetAssumption
<1>2. /\ NoTraversal /\ ~iter.on
      /\ \/ UNCHANGED mset /\ aborted' = TRUE
         \/ \E d \in Stored : node[d] \in 1..Len(list) /\ RemoveElem(d)
  BY <1>1, RemovalRemoves
<1>3. iter' = iter /\ cur' = cur /\ cur = NULL
  BY <1>2 DEF ListInv, CurrentLocated, NoTraversal
<1>4. CASE UNCHANGED mset /\ aborted' = TRUE
  <2>1. UNCHANGED <<list, type, node, count>>
    BY <1>4 DEF mset
  <2> QED BY <1>3, <1>4, <2>1, SameMset
<1>5. ASSUME NEW d \in Stored, node[d] \in 1..Len(list), RemoveElem(d)
      PROVE  ListInv' /\ (TotalExact => TotalExact')
  BY <1>2, <1>3, <1>5, RemoveKeepsList
<1> QED BY <1>2, <1>4, <1>5

\* The elements after a sort are those before it, in the order of their
\* ranks, and in the order they had when their ranks are equal.
LEMMA SortSorts ==
  ASSUME ListInv, Sort
  PROVE  SortedUpTo(list, list', Len(list)) /\ Stored' = Stored
<1>1. list \in Seq(Data) /\ Len(list) \in Nat /\ TypeOK
  BY DEF ListInv, TypeOK
<1>2. list' = Sorting(list)[Len(list)]
  BY Zenon DEF Sort
<1>3. \A i, j \in 1..Len(list) : list[i] = list[j] => i = j
  BY DEF ListInv, StoredOnce
<1>4. SortedUpTo(list, list', Len(list))
  BY <1>1, <1>2, <1>3, SortingSorted
<1>5. Stored' = {list[i] : i \in 1..Len(list)}
  BY <1>4 DEF SortedUpTo, Stored
<1>6. Stored = {list[i] : i \in 1..Len(list)}
  BY <1>1 DEF Stored, ToSet
<1> QED BY <1>4, <1>5, <1>6

\* What rec_mset_sort leaves: every element stored once with its type, and
\* counters that wrap around.
LEMMA SortKeepsList ==
  ASSUME ListInv, Sort
  PROVE  ListInv'
<1> USE DEF ListInv
<1>1. /\ list' \in Seq(Data) /\ Len(list') = Len(list)
      /\ \A i, j \in 1..Len(list') : list'[i] = list'[j] => i = j
  BY SortSorts DEF SortedUpTo
<1>2. Stored' = Stored
  BY SortSorts
<1>3. /\ type' = type /\ aborted' = aborted /\ iter' = iter /\ cur' = cur
      /\ ~iter.on
      /\ node' = [d \in Data |-> IF d \in Stored THEN SortNode(list, d) ELSE 0]
      /\ count' = [t \in AllTypes |-> SortCount(t)]
  BY Zenon DEF Sort, Modify, NoTraversal
<1>4. node' \in [Data -> Nat]
  <2>1. ASSUME NEW d \in Stored PROVE SortNode(list, d) \in Nat
    <3> DEFINE i == CHOOSE j \in 1..Len(list) : list[j] = d
    <3>1. list \in Seq(Data) /\ Len(list) \in Nat
      BY DEF TypeOK
    <3>2. i \in 1..Len(list)
      <4>1. \E j \in 1..Len(list) : list[j] = d
        BY <3>1 DEF Stored, ToSet
      <4> QED BY <4>1
    <3> HIDE DEF i
    <3>3. i - 1 \in 0..Len(list)
      BY <3>1, <3>2
    <3>4. Sorting(list)[i - 1] \in Seq(Data)
      BY <3>1, <3>3, SortingDef
    <3>5. SortedPosition(Sorting(list)[i - 1], d) \in 0..Len(Sorting(list)[i - 1])
      BY <3>4, PositionTyped
    <3>6. SortedPosition(Sorting(list)[i - 1], d) + 1 \in Nat
      BY <3>4, <3>5
    <3> QED BY <3>6 DEF SortNode, i
  <2> QED BY <1>3, <2>1
<1>5. count' \in [AllTypes -> 0..SIZE_MAX]
  <2>1. ASSUME NEW t \in AllTypes PROVE SortCount(t) \in 0..SIZE_MAX
    <3>1. count[t] \in Nat /\ Cardinality(OfType(t)) \in Nat /\ SIZE_MAX \in Nat
      BY OfTypeFinite, MsetAssumption DEF TypeOK, MsetAssumption
    <3>2. SIZE_MAX + 1 \in Nat \ {0} /\ count[t] + Cardinality(OfType(t)) \in Nat
      BY <3>1
    <3> DEFINE n == count[t] + Cardinality(OfType(t))
               m == SIZE_MAX + 1
    <3>3. n \in Nat /\ m \in Nat \ {0} /\ m = SIZE_MAX + 1
      BY <3>2
    <3> HIDE DEF n, m
    <3>4. n % m \in 0..(m - 1)
      BY <3>3
    <3>5. n % m \in 0..SIZE_MAX
      BY <3>1, <3>3, <3>4
    <3> QED BY <3>5 DEF SortCount, n, m
  <2> QED BY <1>3, <2>1
<1>6. TypeOK'
  BY <1>1, <1>3, <1>4, <1>5 DEF TypeOK
<1>7. StoredOnce'
  BY <1>1 DEF StoredOnce
<1>8. TypedWhenStored'
  BY <1>2, <1>3 DEF TypedWhenStored
<1>9. CurrentLocated' /\ IteratorInStep'
  BY <1>3 DEF CurrentLocated, IteratorInStep
<1> QED BY <1>6, <1>7, <1>8, <1>9

---------------------------------------------------------------------------
(* The invariants *)

\* Every step of every client keeps the list and its elements consistent;
\* those that neither sort nor pass foreign elements keep the counter of all
\* of them right.
LEMMA NextKeepsList ==
  ASSUME ListInv, [Next]_vars
  PROVE  ListInv' /\ (TotalClients /\ TotalExact => TotalExact')
<1>1. ASSUME NEW d \in Data, NEW t \in Types,
             \/ \E p \in 0..Cardinality(Data) : InsertElemAt(d, t, p)
             \/ \E u \in AllTypes : AppendElem(d, t, u)
             \/ \E e \in Data : InsertAfter(d, t, e)
      PROVE  ListInv' /\ (TotalClients /\ TotalExact => TotalExact')
  <2>1. TotalClients => "foreign" \notin Calls
    BY DEF TotalClients
  <2> QED BY <1>1, <2>1, InsertionKeepsList
<1>2. ASSUME NEW t \in AllTypes, NEW p \in 0..Cardinality(Data),
             RemoveElemAt(t, p)
      PROVE  ListInv' /\ (TotalExact => TotalExact')
  BY <1>2, RemoveAtKeepsList
<1>3. CASE Sort
  <2>1. Modify("sort")
    BY <1>3, Zenon DEF Sort
  <2>2. ~TotalClients
    BY <2>1 DEF Modify, Client, TotalClients
  <2> QED BY <1>3, <2>2, SortKeepsList
<1>4. CASE Dup
  BY <1>4, DupKeepsList
<1>5. CASE \/ \E t \in AllTypes : StartIterator(t)
           \/ IteratorEnd \/ IteratorFree
  BY <1>5, IteratorKeepsList
<1>6. ASSUME NEW wantsElem \in BOOLEAN, IteratorNext(wantsElem)
      PROVE  ListInv' /\ (TotalExact => TotalExact')
  BY <1>6, IteratorNextKeepsList
<1>7. CASE RemoveCurrent
  BY <1>7, RemoveCurrentKeepsList
<1>8. ASSUME NEW t \in Types, RetypeCurrent(t)
      PROVE  ListInv' /\ (TotalExact => TotalExact')
  BY <1>8, RetypeCurrentKeepsList
<1>9. ASSUME NEW d \in Data, ReplaceCurrent(d)
      PROVE  ListInv' /\ (TotalExact => TotalExact')
  BY <1>9, ReplaceCurrentKeepsList
<1>10. CASE UNCHANGED vars
  <2>1. UNCHANGED <<list, type, node, count, iter, cur, aborted>>
    BY <1>10 DEF vars
  <2>2. aborted' \in BOOLEAN
    BY <2>1 DEF ListInv, TypeOK
  <2> QED BY <2>1, <2>2, SameMset
<1> QED BY <1>1, <1>2, <1>3, <1>4, <1>5, <1>6, <1>7, <1>8, <1>9, <1>10
        DEF Next

\* An element that takes the place of another one has its type.
LEMMA CountsAfterReplace ==
  ASSUME ListInv, CountsExact, NEW d \in Data, ReplaceCurrent(d)
  PROVE  CountsExact'
<1>1. /\ cur \in Data /\ cur \in Stored /\ d \notin Stored
      /\ Stored' = (Stored \ {cur}) \cup {d} /\ count' = count
      /\ TypeOK
  BY ReplaceCurrentKeepsList DEF ListInv
<1>2. type' = [type EXCEPT ![d] = type[cur], ![cur] = MSET_ANY] /\ d # cur
  BY <1>1 DEF ReplaceCurrent
<1> SUFFICES ASSUME NEW u \in AllTypes
             PROVE  Cardinality(OfType(u)') = Cardinality(OfType(u))
  BY <1>1 DEF CountsExact
<1>3. CASE cur \in OfType(u)
  <2>1. OfType(u)' = (OfType(u) \ {cur}) \cup {d}
    BY <1>1, <1>2, <1>3, OfTypeFinite DEF OfType, Matches, TypeOK
  <2>2. d \notin OfType(u)
    BY <1>1 DEF OfType
  <2>3. /\ IsFiniteSet(OfType(u) \ {cur})
        /\ Cardinality(OfType(u) \ {cur}) = Cardinality(OfType(u)) - 1
    BY <1>1, <1>3, OfTypeFinite, FS_RemoveElement
  <2>4. Cardinality((OfType(u) \ {cur}) \cup {d})
          = Cardinality(OfType(u) \ {cur}) + 1
    BY <2>2, <2>3, FS_AddElement
  <2>5. Cardinality(OfType(u)) \in Nat
    BY <1>1, OfTypeFinite
  <2> QED BY <2>1, <2>3, <2>4, <2>5
<1>4. CASE cur \notin OfType(u)
  <2>1. OfType(u)' = OfType(u)
    BY <1>1, <1>2, <1>4, OfTypeFinite DEF OfType, Matches, TypeOK
  <2> QED BY <2>1
<1> QED BY <1>3, <1>4

\* A client that does not call rec_mset_remove_at either keeps the counters
\* of all the types exact, and never makes gnulib abort.
LEMMA NextPreserves ==
  ASSUME CountingClients, MsetInv, [Next]_vars
  PROVE  MsetInv'
<1>0. /\ ListInv /\ TypeOK /\ TypedWhenStored
      /\ TotalExact /\ CountsExact /\ aborted = FALSE
  BY DEF MsetInv, ListInv, NeverAborts, TypeOK
<1> SUFFICES CountsExact' /\ aborted' = FALSE
  <2>1. TotalClients
    BY DEF CountingClients, TotalClients
  <2> QED BY <1>0, <2>1, NextKeepsList DEF MsetInv, NeverAborts
<1>1. ASSUME NEW d \in Data, NEW t \in Types,
             \/ \E p \in 0..Cardinality(Data) : InsertElemAt(d, t, p)
             \/ \E u \in AllTypes : AppendElem(d, t, u)
             \/ \E e \in Data : InsertAfter(d, t, e)
      PROVE  CountsExact' /\ aborted' = FALSE
  <2>1. "foreign" \notin Calls
    BY DEF CountingClients
  <2>2. /\ aborted' = aborted
        /\ d \notin Stored /\ Stored' = Stored \cup {d}
        /\ type' = [type EXCEPT ![d] = t] /\ count' = Counted(count, t)
    BY <1>0, <1>1, <2>1, InsertionKeepsList
  <2> QED BY <1>0, <2>2, CountsAfterPut
<1>2. ASSUME NEW t \in AllTypes, NEW p \in 0..Cardinality(Data),
             RemoveElemAt(t, p)
      PROVE  FALSE
  BY <1>2 DEF RemoveElemAt, Modify, Client, CountingClients
<1>3. CASE Sort
  <2>1. Modify("sort")
    BY <1>3, Zenon DEF Sort
  <2> QED BY <2>1 DEF Modify, Client, CountingClients
<1>4. CASE Dup
  BY <1>0, <1>4, DupKeepsList
<1>5. CASE \/ \E t \in AllTypes : StartIterator(t)
           \/ IteratorEnd \/ IteratorFree
  BY <1>0, <1>5, IteratorKeepsList, SameList
<1>6. ASSUME NEW wantsElem \in BOOLEAN, IteratorNext(wantsElem)
      PROVE  CountsExact' /\ aborted' = FALSE
  <2>1. UNCHANGED <<list, type, count, aborted>>
    BY <1>6 DEF IteratorNext
  <2> QED BY <1>0, <2>1, SameList
<1>7. CASE RemoveCurrent
  <2>1. /\ cur \in Stored /\ Stored' = Stored \ {cur}
        /\ type' = [type EXCEPT ![cur] = MSET_ANY]
        /\ count' = [count EXCEPT ![type[cur]] = Down(@),
                                  ![MSET_ANY] = Down(@)]
        /\ aborted' = aborted
    BY <1>0, <1>7, RemoveCurrentKeepsList, Zenon
  <2>2. CountsExact'
    BY <1>0, <2>1, CountsAfterRemove
  <2> QED BY <1>0, <2>1, <2>2
<1>8. ASSUME NEW t \in Types, RetypeCurrent(t)
      PROVE  CountsExact' /\ aborted' = FALSE
  <2>1. cur \in Stored /\ Stored' = Stored /\ aborted' = aborted
    BY <1>0, <1>8, RetypeCurrentKeepsList, Zenon
  <2>2. /\ type' = [type EXCEPT ![cur] = t]
        /\ count' = [[count EXCEPT ![type[cur]] = Down(@)]
                       EXCEPT ![t] = Up(@)]
    BY <1>8 DEF RetypeCurrent
  <2>3. CountsExact'
    BY <1>0, <2>1, <2>2, CountsAfterRetype
  <2> QED BY <1>0, <2>1, <2>3
<1>9. ASSUME NEW d \in Data, ReplaceCurrent(d)
      PROVE  CountsExact' /\ aborted' = FALSE
  BY <1>0, <1>9, ReplaceCurrentKeepsList, CountsAfterReplace
<1>10. CASE UNCHANGED vars
  BY <1>0, <1>10, SameList DEF vars
<1> QED BY <1>1, <1>2, <1>3, <1>4, <1>5, <1>6, <1>7, <1>8, <1>9, <1>10
        DEF Next

\* For every client, in every reachable state: the list stores each element
\* once, with a type, and the element a loop holds is where it remembers.
THEOREM ListInvariant == Spec => []ListInv
<1>1. Init => ListInv
  BY InitEstablishes DEF MsetInv
<1>2. ListInv /\ [Next]_vars => ListInv'
  BY NextKeepsList
<1> QED BY <1>1, <1>2, PTL DEF Spec

\* rec_mset_count (mset, MSET_ANY) is exact even for the clients of
\* rec_mset_remove_at, although it may remove an element of another type
\* than the one it counts.
THEOREM TotalIsExact ==
  ASSUME TotalClients PROVE Spec => []TotalExact
<1>1. Init => TotalExact
  BY InitEstablishes DEF MsetInv
<1>2. ListInv /\ TotalExact /\ [Next]_vars => TotalExact'
  BY NextKeepsList
<1> QED BY <1>1, <1>2, ListInvariant, PTL DEF Spec

\* A sort of the records of a record set is a stable permutation of its
\* elements, comments first (rec_mset_sort with the compare_fn callbacks,
\* whose answers are not those of an order), whatever came before it.
THEOREM SortIsStable == Spec => SortStable
<1>1. ListInv /\ [Next]_vars =>
        [Sort => /\ ToSet(list') = Stored /\ Len(list') = Len(list)
                 /\ \A i, j \in 1..Len(list) :
                      i < j => Before(list, list'[i], list'[j])]_vars
  <2> SUFFICES ASSUME ListInv, Sort
               PROVE  /\ ToSet(list') = Stored /\ Len(list') = Len(list)
                      /\ \A i, j \in 1..Len(list) :
                           i < j => Before(list, list'[i], list'[j])
    OBVIOUS
  <2>1. SortedUpTo(list, list', Len(list)) /\ Stored' = Stored
    BY SortSorts
  <2>2. ToSet(list') = Stored
    BY <2>1 DEF Stored
  <2> QED BY <2>1, <2>2 DEF SortedUpTo
<1> QED BY <1>1, ListInvariant, PTL DEF Spec, SortStable

\* For every client that calls neither, the counters of the types are right
\* as well and nothing aborts.
THEOREM MsetInvariant ==
  ASSUME CountingClients PROVE Spec => []MsetInv
<1>1. Init => MsetInv
  BY InitEstablishes
<1>2. MsetInv /\ [Next]_vars => MsetInv'
  BY NextPreserves
<1> QED BY <1>1, <1>2, PTL DEF Spec

\* rec_mset_count is exact for every client that does not sort and does not
\* call rec_mset_remove_at.
THEOREM CountsAreExact ==
  ASSUME CountingClients PROVE Spec => []CountsExact
<1>1. MsetInv => CountsExact
  BY DEF MsetInv
<1> QED BY <1>1, MsetInvariant, PTL

\* No position given to gnulib is out of the list, and no iterator meets a
\* list it cannot follow.
THEOREM NoAbort ==
  ASSUME CountingClients PROVE Spec => []NeverAborts
<1>1. MsetInv => NeverAborts
  BY DEF MsetInv
<1> QED BY <1>1, MsetInvariant, PTL

\* rec_mset_remove_elem, called in a loop on the element the loop is at,
\* removes that element, whatever the client did before.
THEOREM RemovalIsPrecise == Spec => RemovalHitsCurrent
<1>1. ListInv /\ [Next]_vars =>
        [RemoveCurrent => \E i \in 1..Len(list) :
           list[i] = cur /\ list' = RemoveAt(list, i)]_vars
  BY RemoveCurrentKeepsList
<1> QED BY <1>1, ListInvariant, PTL DEF Spec, RemovalHitsCurrent

---------------------------------------------------------------------------
(* Counting the places of a set *)

\* Without its first place, S has one place less, and one less up to each
\* of the others.
LEMMA UpToWithoutFirst ==
  ASSUME NEW S \in SUBSET (Nat \ {0}), IsFiniteSet(S), NEW i \in S,
         \A j \in S : i <= j
  PROVE  /\ Cardinality(S \cap 1..i) = 1
         /\ Cardinality(S \ {i}) = Cardinality(S) - 1
         /\ \A j \in S \ {i} : Cardinality((S \ {i}) \cap 1..j)
                                 = Cardinality(S \cap 1..j) - 1
<1>1. S \cap 1..i = {i}
  OBVIOUS
<1>2. Cardinality(S \cap 1..i) = 1
  BY <1>1, FS_Singleton
<1>3. Cardinality(S \ {i}) = Cardinality(S) - 1
  BY FS_RemoveElement
<1>4. ASSUME NEW j \in S \ {i}
      PROVE  Cardinality((S \ {i}) \cap 1..j) = Cardinality(S \cap 1..j) - 1
  <2>1. (S \ {i}) \cap 1..j = (S \cap 1..j) \ {i} /\ i \in S \cap 1..j
    OBVIOUS
  <2>2. IsFiniteSet(S \cap 1..j)
    BY UpToFinite
  <2>3. Cardinality((S \cap 1..j) \ {i}) = Cardinality(S \cap 1..j) - 1
    BY <2>1, <2>2, FS_RemoveElement
  <2>4. QED
    BY <2>1, <2>3
<1>5. QED
  BY <1>2, <1>3, <1>4

\* Moving all the places back by one changes none of the counts.
LEMMA UpToShifted ==
  ASSUME NEW S \in SUBSET (Nat \ {0, 1}), IsFiniteSet(S),
         NEW T, T = {i - 1 : i \in S}
  PROVE  /\ Cardinality(T) = Cardinality(S)
         /\ \A i \in S : Cardinality(T \cap 1..(i - 1)) = Cardinality(S \cap 1..i)
<1>1. ASSUME NEW A \in SUBSET S, NEW B, B = {i - 1 : i \in A}
      PROVE  Cardinality(B) = Cardinality(A)
  <2> DEFINE f == [i \in A |-> i - 1]
  <2>1. f \in [A -> B] /\ \A i, j \in A : f[i] = f[j] => i = j
    BY <1>1
  <2>2. \A b \in B : \E i \in A : f[i] = b
    BY <1>1
  <2> HIDE DEF f
  <2>3. f \in Bijection(A, B)
    BY <2>1, <2>2, Fun_IsBij
  <2>4. IsFiniteSet(A)
    BY FS_Subset
  <2>5. QED
    BY <2>3, <2>4, FS_Bijection DEF ExistsBijection
<1>2. Cardinality(T) = Cardinality(S)
  BY <1>1
<1>3. ASSUME NEW i \in S
      PROVE  Cardinality(T \cap 1..(i - 1)) = Cardinality(S \cap 1..i)
  <2>1. T \cap 1..(i - 1) = {j - 1 : j \in S \cap 1..i}
    OBVIOUS
  <2>2. S \cap 1..i \in SUBSET S
    OBVIOUS
  <2>3. QED
    BY <1>1, <2>1, <2>2
<1>4. QED
  BY <1>2, <1>3

---------------------------------------------------------------------------
(* The traversal *)

\* A new traversal has everything ahead.
LEMMA StartTraversal ==
  ASSUME MsetInv, NEW t \in AllTypes, StartIterator(t)
  PROVE  TraversalInv'
<1>1. /\ iter' = [on |-> TRUE, ty |-> t, p |-> 0, n |-> Len(list), done |-> FALSE]
      /\ list' = list /\ type' = type /\ cur' = NULL
      /\ plan' = InOrder(t) /\ seen' = << >>
  BY DEF StartIterator, mset
<1>2. TypeOK /\ Len(list) \in Nat
  BY DEF MsetInv, ListInv, TypeOK
<1>3. Ahead' = Places(t)
  <2>1. StepBack' = 0
    BY <1>1, <1>2 DEF StepBack
  <2>2. \A i \in Places(t) : i > 0 - 0
    BY <1>2, PlacesFinite
  <2>3. QED
    BY <1>1, <2>1, <2>2 DEF Ahead, Places, Matches
<1>4. /\ plan' \in Seq(Data) /\ Len(plan') = Cardinality(Ahead')
      /\ \A i \in Ahead' : list[i] = plan'[Cardinality(Ahead' \cap 1..i)]
  BY <1>1, <1>2, <1>3, InOrderPlaces
<1>5. Len(seen') = 0 /\ seen' \in Seq(Data)
  BY <1>1
<1>6. \A i \in Ahead' : 0 + Cardinality(Ahead' \cap 1..i) = Cardinality(Ahead' \cap 1..i)
  BY <1>2, <1>3, PlacesFinite, UpToFinite
<1>7. Cardinality(Ahead') \in Nat
  BY <1>4
<1>8. AheadPlanned'
  BY <1>1, <1>4, <1>5, <1>6, <1>7 DEF AheadPlanned
<1>9. QED
  BY <1>1, <1>4, <1>5, <1>7, <1>8 DEF TraversalInv

LEMMA AheadFinite ==
  ASSUME TypeOK
  PROVE  /\ Ahead \in SUBSET (Nat \ {0}) /\ IsFiniteSet(Ahead)
         /\ Ahead \subseteq 1..Len(list) /\ Cardinality(Ahead) \in Nat
<1>1. Ahead \in SUBSET Places(iter.ty)
  BY DEF Ahead
<1>2. IsFiniteSet(Ahead)
  BY <1>1, PlacesFinite, FS_Subset
<1>3. QED
  BY <1>1, <1>2, PlacesFinite, FS_CardinalityType

\* The next element is the next one of the plan, and the others move up.
LEMMA NextTraversal ==
  ASSUME MsetInv, TraversalInv, NEW wantsElem \in BOOLEAN,
         IteratorNext(wantsElem)
  PROVE  TraversalInv'
<1>0. /\ TypeOK /\ iter.on /\ ~iter.done /\ list \in Seq(Data) /\ Len(list) \in Nat
      /\ plan \in Seq(Data) /\ seen \in Seq(Data) /\ Len(seen) <= Len(plan)
      /\ \A k \in 1..Len(seen) : seen[k] = plan[k]
      /\ Len(seen) \in Nat /\ Len(plan) \in Nat
      /\ Cardinality(Ahead) = Len(plan) - Len(seen)
      /\ \A j \in Ahead : list[j] = plan[Len(seen) + Cardinality(Ahead \cap 1..j)]
  <2>1. TypeOK /\ iter.on /\ ~iter.done
    BY DEF MsetInv, ListInv, IteratorNext
  <2>2. list \in Seq(Data) /\ Len(list) \in Nat
    BY <2>1 DEF TypeOK
  <2>3. AheadPlanned /\ plan \in Seq(Data) /\ seen \in Seq(Data)
        /\ Len(seen) <= Len(plan) /\ \A k \in 1..Len(seen) : seen[k] = plan[k]
    BY <2>1 DEF TraversalInv
  <2>4. /\ Cardinality(Ahead) = Len(plan) - Len(seen)
        /\ \A j \in Ahead :
             list[j] = plan[Len(seen) + Cardinality(Ahead \cap 1..j)]
    BY <2>3, Zenon DEF AheadPlanned
  <2>5. Len(seen) \in Nat /\ Len(plan) \in Nat
    BY <2>3
  <2>6. QED
    BY <2>1, <2>2, <2>3, <2>4, <2>5, Zenon
<1>1. PICK i \in Ahead :
        /\ \A j \in Ahead : i <= j
        /\ iter' = [iter EXCEPT !.p = i, !.n = Len(list)]
        /\ seen' = Append(seen, list[i])
        /\ IF wantsElem
           THEN cur' = list[i] /\ node' = [node EXCEPT ![list[i]] = i]
           ELSE cur' = NULL /\ UNCHANGED node
  BY DEF IteratorNext
<1>2. /\ list' = list /\ type' = type /\ plan' = plan
  BY DEF IteratorNext
<1>3. /\ Ahead \in SUBSET (Nat \ {0}) /\ IsFiniteSet(Ahead)
      /\ Ahead \subseteq 1..Len(list) /\ Cardinality(Ahead) \in Nat
  BY <1>0, AheadFinite
<1>4. iter'.p = i /\ iter'.n = Len(list) /\ iter'.ty = iter.ty /\ iter'.on /\ ~iter'.done
  BY <1>0, <1>1 DEF TypeOK
<1>5. Ahead' = Ahead \ {i}
  <2>1. StepBack' = 0
    BY <1>0, <1>2, <1>4 DEF StepBack
  <2>2. Ahead' = {j \in Places(iter.ty) : j > i}
    BY <1>2, <1>3, <1>4, <2>1 DEF Ahead, Places, Matches
  <2>3. Ahead' \subseteq Ahead \ {i}
    <3>1. i > iter.p - StepBack /\ iter.p \in Nat /\ StepBack \in {0, 1}
      BY <1>0 DEF Ahead, StepBack, TypeOK
    <3>2. \A j \in Places(iter.ty) : j \in Nat
      BY <1>0, PlacesFinite
    <3>3. QED
      BY <1>3, <2>2, <3>1, <3>2 DEF Ahead
  <2>4. Ahead \ {i} \subseteq Ahead'
    BY <1>1, <1>3, <2>2 DEF Ahead
  <2>5. QED
    BY <2>3, <2>4
<1>6. /\ Cardinality(Ahead \cap 1..i) = 1
      /\ Cardinality(Ahead') = Cardinality(Ahead) - 1
      /\ \A j \in Ahead' : Cardinality(Ahead' \cap 1..j)
                             = Cardinality(Ahead \cap 1..j) - 1
  <2> DEFINE S == Ahead
  <2>1. S \in SUBSET (Nat \ {0}) /\ IsFiniteSet(S) /\ i \in S /\ \A j \in S : i <= j
    BY <1>1, <1>3
  <2> HIDE DEF S
  <2>2. /\ Cardinality(S \cap 1..i) = 1
        /\ Cardinality(S \ {i}) = Cardinality(S) - 1
        /\ \A j \in S \ {i} : Cardinality((S \ {i}) \cap 1..j)
                                = Cardinality(S \cap 1..j) - 1
    BY <2>1, UpToWithoutFirst
  <2>3. QED
    BY <1>5, <2>2 DEF S
<1>7. list[i] = plan[Len(seen) + 1] /\ list[i] \in Data /\ i \in 1..Len(list)
  BY <1>0, <1>3, <1>6
<1>8. Cardinality(Ahead) # 0
  BY <1>3, FS_EmptySet
<1>9. /\ seen' \in Seq(Data) /\ Len(seen') = Len(seen) + 1
      /\ Len(seen') <= Len(plan')
      /\ \A k \in 1..Len(seen') : seen'[k] = plan'[k]
  BY <1>0, <1>1, <1>2, <1>3, <1>7, <1>8
<1>10. cur' # NULL => node'[cur'] = iter'.p
  BY <1>0, <1>1, <1>4, <1>7 DEF TypeOK
<1>11. AheadPlanned'
  <2>1. Cardinality(Ahead') = Len(plan') - Len(seen')
    BY <1>0, <1>2, <1>6, <1>9
  <2>2. ASSUME NEW j \in Ahead'
        PROVE  list'[j] = plan'[Len(seen') + Cardinality(Ahead' \cap 1..j)]
    <3>1. Cardinality(Ahead \cap 1..j) \in Nat
      BY <1>3, <1>5, UpToFinite
    <3>2. /\ Len(seen') = Len(seen) + 1 /\ Len(seen) \in Nat
          /\ Cardinality(Ahead' \cap 1..j) = Cardinality(Ahead \cap 1..j) - 1
      BY <1>0, <1>6, <1>9
    <3>3. Len(seen') + Cardinality(Ahead' \cap 1..j)
            = Len(seen) + Cardinality(Ahead \cap 1..j)
      BY <3>1, <3>2
    <3>4. QED
      BY <1>0, <1>2, <1>5, <3>3
  <2>3. QED
    BY <2>1, <2>2 DEF AheadPlanned
<1>12. QED
  BY <1>0, <1>2, <1>4, <1>9, <1>10, <1>11 DEF TraversalInv

\* The places of the others when the loop changes the element it is at.
LEMMA SameAhead ==
  ASSUME MsetInv, TraversalInv, iter.on, cur # NULL,
         UNCHANGED <<iter, plan, seen>>,
         list' \in Seq(Data), Len(list') = Len(list),
         \A i \in 1..Len(list) : i # iter.p =>
            /\ list'[i] = list[i]
            /\ type'[list[i]] = type[list[i]],
         cur' # NULL => node'[cur'] = iter.p
  PROVE  TraversalInv'
<1>1. /\ TypeOK /\ iter.n = Len(list) /\ ~iter.done /\ AheadPlanned
      /\ iter.p \in Nat /\ Len(list) \in Nat
  BY DEF MsetInv, ListInv, TypeOK, TraversalInv, IteratorInStep
<1>2. StepBack = 0 /\ StepBack' = 0
  BY <1>1 DEF StepBack
<1>3. /\ \A i : i \in Ahead <=>
             /\ i \in 1..Len(list) /\ i > iter.p
             /\ iter.ty = MSET_ANY \/ type[list[i]] = iter.ty
      /\ \A i : i \in Ahead' <=>
             /\ i \in 1..Len(list) /\ i > iter.p
             /\ iter.ty = MSET_ANY \/ type'[list'[i]] = iter.ty
  BY <1>1, <1>2 DEF Ahead, Places, Matches
<1>4. \A i \in 1..Len(list) : i > iter.p => i # iter.p
  BY <1>1
<1>5. \A i : i \in Ahead' <=> i \in Ahead
  <2> SUFFICES ASSUME NEW i \in 1..Len(list), i > iter.p
               PROVE  type'[list'[i]] = type[list[i]]
    BY <1>3
  <2>1. QED
    BY <1>4
<1>6. Ahead' = Ahead /\ \A i \in Ahead : list'[i] = list[i]
  BY <1>3, <1>4, <1>5
<1>7. AheadPlanned'
  BY <1>1, <1>6 DEF AheadPlanned
<1>8. QED
  BY <1>1, <1>7 DEF TraversalInv

LEMMA RetypeTraversal ==
  ASSUME MsetInv, TraversalInv, NEW t \in Types, RetypeCurrent(t)
  PROVE  TraversalInv'
<1>1. /\ iter.on /\ cur # NULL /\ UNCHANGED <<iter, plan, seen, list, cur, node>>
      /\ type' = [type EXCEPT ![cur] = t]
  BY DEF RetypeCurrent
<1>2. /\ TypeOK /\ list \in Seq(Data) /\ node[cur] = iter.p
      /\ iter.p \in 1..Len(list) /\ list[iter.p] = cur
  BY <1>1 DEF MsetInv, ListInv, TypeOK, TraversalInv, CurrentLocated
<1>3. \A i \in 1..Len(list) : i # iter.p => list[i] # cur
  BY <1>2 DEF MsetInv, ListInv, StoredOnce
<1>4. \A i \in 1..Len(list) : i # iter.p => type'[list[i]] = type[list[i]]
  BY <1>1, <1>2, <1>3 DEF TypeOK
<1>5. QED
  BY <1>1, <1>2, <1>4, SameAhead

LEMMA ReplaceTraversal ==
  ASSUME MsetInv, TraversalInv, NEW d \in Data, ReplaceCurrent(d)
  PROVE  TraversalInv'
<1>1. /\ iter.on /\ cur # NULL /\ UNCHANGED <<iter, plan, seen>> /\ cur' = d
      /\ list' = [i \in 1..Len(list) |-> IF list[i] = cur THEN d ELSE list[i]]
      /\ type' = [type EXCEPT ![d] = type[cur], ![cur] = MSET_ANY]
      /\ node' = [node EXCEPT ![d] = node[cur], ![cur] = 0]
      /\ d \notin Stored
  BY DEF ReplaceCurrent
<1>2. /\ TypeOK /\ list \in Seq(Data) /\ node[cur] = iter.p /\ cur \in Data
      /\ iter.p \in 1..Len(list) /\ list[iter.p] = cur
      /\ \A i \in 1..Len(list) : list[i] # d
  <2>1. TypeOK /\ list \in Seq(Data) /\ cur \in Data
    BY <1>1 DEF MsetInv, ListInv, TypeOK
  <2>2. node[cur] = iter.p /\ iter.p \in 1..Len(list) /\ list[iter.p] = cur
    BY <1>1 DEF MsetInv, ListInv, TraversalInv, CurrentLocated
  <2>3. \A i \in 1..Len(list) : list[i] # d
    BY <1>1, <2>1 DEF Stored, ToSet
  <2>4. QED
    BY <2>1, <2>2, <2>3
<1>3. \A i \in 1..Len(list) : i # iter.p => list[i] # cur
  BY <1>2 DEF MsetInv, ListInv, StoredOnce
<1>4. list' \in Seq(Data) /\ Len(list') = Len(list)
  <2>1. Len(list) \in Nat /\ \A i \in 1..Len(list) : list[i] \in Data
    BY <1>2
  <2>2. list' \in [1..Len(list) -> Data]
    BY <1>1, <2>1
  <2>3. QED
    BY <2>1, <2>2
<1>5. \A i \in 1..Len(list) : i # iter.p => list'[i] = list[i]
  BY <1>1, <1>3
<1>6. \A i \in 1..Len(list) : i # iter.p => type'[list[i]] = type[list[i]]
  <2>1. \A x \in Data : x # d /\ x # cur => type'[x] = type[x]
    BY <1>1, <1>2 DEF TypeOK
  <2>2. \A i \in 1..Len(list) : list[i] \in Data /\ list[i] # d
    BY <1>2
  <2> QED BY <1>3, <2>1, <2>2
<1>7. node'[d] = iter.p
  BY <1>1, <1>2 DEF TypeOK
<1>8. QED
  BY <1>1, <1>4, <1>5, <1>6, <1>7, SameAhead

\* The element that is removed is the last one returned: the others move
\* back by one, and the iterator will step back.
LEMMA RemoveTraversal ==
  ASSUME MsetInv, TraversalInv, RemoveCurrent
  PROVE  TraversalInv'
<1>1. /\ iter.on /\ cur # NULL /\ cur' = NULL /\ UNCHANGED <<iter, plan, seen>>
      /\ cur \in Data /\ ~iter.done /\ AheadPlanned
      /\ plan \in Seq(Data) /\ seen \in Seq(Data) /\ Len(seen) <= Len(plan)
      /\ \A k \in 1..Len(seen) : seen[k] = plan[k]
  BY DEF RemoveCurrent, TraversalInv, MsetInv, ListInv, TypeOK
<1>2. /\ TypeOK /\ list \in Seq(Data) /\ Len(list) \in Nat /\ iter.n = Len(list)
      /\ node[cur] = iter.p /\ iter.p \in 1..Len(list) /\ list[iter.p] = cur
  BY <1>1 DEF MsetInv, ListInv, TypeOK, TraversalInv, CurrentLocated, IteratorInStep
<1>3. /\ list' = RemoveAt(list, iter.p)
      /\ type' = [type EXCEPT ![cur] = MSET_ANY]
  BY <1>2 DEF RemoveCurrent, RemoveElem
<1>4. /\ Len(list') = Len(list) - 1
      /\ \A i \in iter.p + 1..Len(list) : list'[i - 1] = list[i]
  BY <1>2, <1>3, RemoveAtIndex
<1>5. \A i \in iter.p + 1..Len(list) : type'[list[i]] = type[list[i]]
  <2>1. \A i \in iter.p + 1..Len(list) : list[i] # cur /\ list[i] \in Data
    BY <1>2 DEF MsetInv, ListInv, StoredOnce
  <2>2. QED
    BY <1>1, <1>2, <1>3, <2>1 DEF TypeOK
<1>6. StepBack = 0 /\ StepBack' = 1
  BY <1>1, <1>2, <1>4 DEF StepBack
<1>7. /\ \A i : i \in Ahead <=>
             /\ i \in 1..Len(list) /\ i > iter.p
             /\ iter.ty = MSET_ANY \/ type[list[i]] = iter.ty
      /\ \A i : i \in Ahead' <=>
             /\ i \in 1..Len(list) - 1 /\ i > iter.p - 1
             /\ iter.ty = MSET_ANY \/ type'[list'[i]] = iter.ty
  BY <1>1, <1>2, <1>4, <1>6 DEF Ahead, Places, Matches
<1>8. Ahead' = {i - 1 : i \in Ahead}
  <2>1. ASSUME NEW i \in Ahead PROVE i - 1 \in Ahead'
    <3>1. i \in iter.p + 1..Len(list)
      BY <1>2, <1>7
    <3>2. list'[i - 1] = list[i] /\ type'[list[i]] = type[list[i]]
      BY <1>4, <1>5, <3>1
    <3>3. i - 1 \in 1..Len(list) - 1 /\ i - 1 > iter.p - 1
      BY <1>2, <3>1
    <3>4. QED
      BY <1>7, <3>2, <3>3
  <2>2. ASSUME NEW j \in Ahead' PROVE \E i \in Ahead : j = i - 1
    <3>1. j \in 1..Len(list) - 1 /\ j > iter.p - 1
      BY <1>7
    <3>2. j + 1 \in iter.p + 1..Len(list) /\ (j + 1) - 1 = j
      BY <1>2, <3>1
    <3>3. list'[j] = list[j + 1] /\ type'[list[j + 1]] = type[list[j + 1]]
      BY <1>4, <1>5, <3>2
    <3>4. j + 1 \in Ahead
      BY <1>2, <1>7, <3>2, <3>3
    <3>5. QED
      BY <3>2, <3>4
  <2>3. QED
    BY <2>1, <2>2
<1>9. Ahead \in SUBSET (Nat \ {0, 1}) /\ IsFiniteSet(Ahead)
  BY <1>2, <1>7, AheadFinite
<1>10. /\ Cardinality(Ahead') = Cardinality(Ahead)
       /\ \A i \in Ahead : Cardinality(Ahead' \cap 1..(i - 1))
                             = Cardinality(Ahead \cap 1..i)
  <2> DEFINE S == Ahead
             T == Ahead'
  <2>1. S \in SUBSET (Nat \ {0, 1}) /\ IsFiniteSet(S) /\ T = {i - 1 : i \in S}
    BY <1>8, <1>9
  <2> HIDE DEF S, T
  <2>2. /\ Cardinality(T) = Cardinality(S)
        /\ \A i \in S : Cardinality(T \cap 1..(i - 1)) = Cardinality(S \cap 1..i)
    BY <2>1, UpToShifted
  <2>3. QED
    BY <2>2 DEF S, T
<1>11. AheadPlanned'
  <2>1. Cardinality(Ahead') = Len(plan') - Len(seen')
    BY <1>1, <1>10 DEF AheadPlanned
  <2>2. ASSUME NEW j \in Ahead'
        PROVE  list'[j] = plan'[Len(seen') + Cardinality(Ahead' \cap 1..j)]
    <3>1. PICK i \in Ahead : j = i - 1
      BY <1>8
    <3>2. i \in iter.p + 1..Len(list)
      BY <1>2, <1>7
    <3>3. list'[j] = list[i]
      BY <1>4, <3>1, <3>2
    <3>4. Cardinality(Ahead' \cap 1..j) = Cardinality(Ahead \cap 1..i)
      BY <1>10, <3>1
    <3>5. list[i] = plan[Len(seen) + Cardinality(Ahead \cap 1..i)]
      BY <1>1 DEF AheadPlanned
    <3>6. QED
      BY <1>1, <3>3, <3>4, <3>5
  <2>3. QED
    BY <2>1, <2>2 DEF AheadPlanned
<1>12. QED
  BY <1>1, <1>11 DEF TraversalInv

\* When nothing is ahead, everything has been returned.
LEMMA EndTraversal ==
  ASSUME MsetInv, TraversalInv, IteratorEnd
  PROVE  TraversalInv'
<1>1. /\ iter.on /\ ~iter.done /\ Ahead = {} /\ UNCHANGED <<plan, seen>>
      /\ iter' = [iter EXCEPT !.done = TRUE] /\ cur' = NULL
  BY DEF IteratorEnd, MsetInv, ListInv, IteratorInStep
<1>2. iter'.done /\ Cardinality(Ahead) = 0
  BY <1>1, FS_EmptySet DEF MsetInv, ListInv, TypeOK
<1>3. /\ plan \in Seq(Data) /\ seen \in Seq(Data) /\ Len(seen) <= Len(plan)
      /\ \A k \in 1..Len(seen) : seen[k] = plan[k] /\ AheadPlanned
  BY <1>1 DEF TraversalInv
<1>4. AheadPlanned
  BY <1>1 DEF TraversalInv
<1>5. Len(seen) = Len(plan)
  BY <1>2, <1>3, <1>4 DEF AheadPlanned
<1>6. QED
  BY <1>1, <1>2, <1>3, <1>5 DEF TraversalInv

\* No step of a client loses what the traversal has to return.
LEMMA NextTraversalInv ==
  ASSUME CountingClients, MsetInv, TraversalInv, [Next]_vars
  PROVE  TraversalInv'
<1>1. ASSUME NoTraversal, ~iter.on PROVE TraversalInv'
  BY <1>1 DEF NoTraversal, TraversalInv
<1>2. ASSUME NEW d \in Data, NEW t \in Types,
             NEW p \in 0..Cardinality(Data), InsertElemAt(d, t, p)
      PROVE  TraversalInv'
  BY <1>1, <1>2 DEF InsertElemAt, Modify
<1>3. ASSUME NEW d \in Data, NEW t \in Types, NEW u \in AllTypes,
             AppendElem(d, t, u)
      PROVE  TraversalInv'
  BY <1>1, <1>3 DEF AppendElem, Modify
<1>4. ASSUME NEW d \in Data, NEW t \in Types, NEW e \in Data,
             InsertAfter(d, t, e)
      PROVE  TraversalInv'
  BY <1>1, <1>4 DEF InsertAfter, Modify
<1>5. ASSUME NEW t \in AllTypes, NEW p \in 0..Cardinality(Data),
             RemoveElemAt(t, p)
      PROVE  TraversalInv'
  BY <1>1, <1>5 DEF RemoveElemAt, Modify
<1>6. CASE Sort
  <2>1. NoTraversal /\ Modify("sort")
    BY <1>6, Zenon DEF Sort
  <2>2. QED
    BY <1>1, <2>1 DEF Modify
<1>7. CASE Dup
  BY <1>1, <1>7 DEF Dup, Modify
<1>8. CASE IteratorFree
  BY <1>8 DEF IteratorFree, TraversalInv, Idle
<1>9. CASE UNCHANGED vars
  <2>1. UNCHANGED <<list, type, node, iter, cur, plan, seen>>
    BY <1>9 DEF vars
  <2>2. Ahead' = Ahead
    BY <2>1 DEF Ahead, Places, Matches, StepBack
  <2>3. AheadPlanned' <=> AheadPlanned
    BY <2>1, <2>2 DEF AheadPlanned
  <2>4. QED
    BY <2>1, <2>3 DEF TraversalInv
<1>10. QED
  BY <1>2, <1>3, <1>4, <1>5, <1>6, <1>7, <1>8, <1>9, StartTraversal,
     NextTraversal, EndTraversal, RemoveTraversal, RetypeTraversal,
     ReplaceTraversal DEF Next

\* A loop over the elements of a type that removes, retypes and replaces
\* elements on its way (rec_mset_iterator_next, rec_mset_remove_elem,
\* rec_mset_elem_set_type and rec_mset_elem_set_data) meets each of those that
\* had the type when it started, once and in order, and no other.
THEOREM TraversalIsExact ==
  ASSUME CountingClients PROVE Spec => []TraversalExact
<1>1. Init => TraversalInv
  BY DEF Init, TraversalInv, Idle
<1>2. MsetInv /\ TraversalInv /\ [Next]_vars => TraversalInv'
  BY NextTraversalInv
<1>3. TraversalInv => TraversalExact
  <2> SUFFICES ASSUME TraversalInv, iter.on
               PROVE  IsPrefix(seen, plan) /\ (iter.done => seen = plan)
    BY DEF TraversalExact
  <2>1. /\ plan \in Seq(Data) /\ seen \in Seq(Data) /\ Len(seen) <= Len(plan)
        /\ \A k \in 1..Len(seen) : seen[k] = plan[k]
        /\ iter.done => Len(seen) = Len(plan)
    BY DEF TraversalInv
  <2>2. SubSeq(seen, 1, Len(seen)) = SubSeq(plan, 1, Len(seen))
    BY <2>1, SubSeqProperties
  <2>3. IsPrefix(seen, plan)
    BY <2>1, <2>2 DEF IsPrefix
  <2>4. iter.done => seen = plan
    BY <2>1, SeqEqual
  <2>5. QED
    BY <2>3, <2>4
<1>4. QED
  BY <1>1, <1>2, <1>3, MsetInvariant, PTL DEF Spec

=============================================================================
