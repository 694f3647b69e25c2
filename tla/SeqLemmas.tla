---------------------------- MODULE SeqLemmas ----------------------------
(***************************************************************************)
(* Lemmas on which the proofs about lists rest: induction on naturals and  *)
(* the existence of what is defined by recursion, stated with sets and     *)
(* functions so that first-order provers can use them, and the positions   *)
(* of a sequence after an insertion or a removal.                          *)
(***************************************************************************)
EXTENDS Integers, Sequences, FiniteSets, SequencesExt, FiniteSetTheorems,
        FunctionTheorems, SequenceTheorems, WellFoundedInduction, TLAPS

---------------------------------------------------------------------------
(* Induction *)

\* The least element of a set of naturals.
LEMMA NatMin ==
  ASSUME NEW S \in SUBSET Nat, S # {}
  PROVE  \E m \in S : \A x \in S : m <= x
<1>1. PICK m \in S : \A x \in S : ~(<<x, m>> \in OpToRel(<, Nat))
  BY NatLessThanWellFounded, WFMin
<1>2. \A x \in S : ~(x < m)
  BY <1>1 DEF OpToRel
<1> QED BY <1>2

\* A set of naturals with 0 and the successor of each of its elements.
LEMMA NatSetInduction ==
  ASSUME NEW S \in SUBSET Nat, 0 \in S, \A n \in S : n + 1 \in S
  PROVE  S = Nat
<1> SUFFICES ASSUME Nat \ S # {} PROVE FALSE
  OBVIOUS
<1>1. PICK x \in Nat \ S : \A y \in Nat \ S : ~(<<y, x>> \in OpToRel(<, Nat))
  <2>1. Nat \ S \subseteq Nat
    OBVIOUS
  <2> QED BY <2>1, NatLessThanWellFounded, WFMin
<1>2. \A y \in Nat \ S : ~(y < x)
  BY <1>1 DEF OpToRel
<1>3. x # 0 /\ x - 1 \in Nat /\ x - 1 < x
  OBVIOUS
<1>4. x - 1 \in S
  BY <1>2, <1>3
<1>5. (x - 1) + 1 \in S
  BY <1>4
<1> QED BY <1>5

\* The same up to N.
LEMMA UpToInduction ==
  ASSUME NEW N \in Nat, NEW S, 0 \in S, \A n \in 0..(N - 1) : n \in S => n + 1 \in S
  PROVE  0..N \subseteq S
<1> DEFINE T == {n \in Nat : n \in S \/ n > N}
<1>1. T \in SUBSET Nat /\ 0 \in T /\ \A n \in T : n + 1 \in T
  OBVIOUS
<1>2. T = Nat
  <2> HIDE DEF T
  <2> QED BY <1>1, NatSetInduction
<1> QED BY <1>2

\* h starts with b, and g[n] gives its n-th value from the one before.
FoldOf(h, g, b, N) == h[0] = b /\ \A n \in 1..N : h[n] = g[n][h[n - 1]]

\* What is defined by recursion up to N exists.
LEMMA FoldExists ==
  ASSUME NEW X, NEW g \in [Nat -> [X -> X]], NEW b \in X, NEW N \in Nat
  PROVE  \E h \in [0..N -> X] : FoldOf(h, g, b, N)
<1> DEFINE Good(n) == \E h \in [0..n -> X] :
                        h[0] = b /\ \A m \in 1..n : h[m] = g[m][h[m - 1]]
           S == {n \in Nat : Good(n)}
<1>1. 0 \in S
  <2> DEFINE k == [i \in 0..0 |-> b]
  <2>1. k \in [0..0 -> X] /\ k[0] = b /\ \A m \in 1..0 : k[m] = g[m][k[m - 1]]
    OBVIOUS
  <2> HIDE DEF k
  <2>2. Good(0)
    BY <2>1
  <2> QED BY <2>2
<1>2. ASSUME NEW n \in S PROVE n + 1 \in S
  <2>1. PICK h \in [0..n -> X] : h[0] = b /\ \A m \in 1..n : h[m] = g[m][h[m - 1]]
    OBVIOUS
  <2> DEFINE k == [i \in 0..(n + 1) |-> IF i = n + 1 THEN g[n + 1][h[n]] ELSE h[i]]
  <2>2. n \in Nat /\ g[n + 1][h[n]] \in X
    OBVIOUS
  <2>3. k \in [0..(n + 1) -> X]
    BY <2>2
  <2>4. k[0] = b
    BY <2>1, <2>2
  <2>5. ASSUME NEW m \in 1..(n + 1) PROVE k[m] = g[m][k[m - 1]]
    <3>1. k[m - 1] = h[m - 1]
      BY <2>2
    <3>2. CASE m = n + 1
      BY <2>2, <3>1, <3>2
    <3>3. CASE m # n + 1
      BY <2>1, <2>2, <3>1, <3>3
    <3> QED BY <3>2, <3>3
  <2> HIDE DEF k
  <2>6. Good(n + 1)
    BY <2>3, <2>4, <2>5
  <2>7. n + 1 \in Nat
    BY <2>2
  <2> HIDE DEF Good
  <2> QED BY <2>6, <2>7
<1>3. S = Nat
  <2> HIDE DEF S
  <2>1. S \in SUBSET Nat
    BY DEF S
  <2> QED BY <1>1, <1>2, <2>1, NatSetInduction
<1> QED BY <1>3 DEF FoldOf
---------------------------------------------------------------------------
(* Sequences *)

\* Inserting d at position p of s (gl_list_nx_add_at) shifts the elements
\* from p on by one.
LEMMA InsertAtIndex ==
  ASSUME NEW S, NEW s \in Seq(S), NEW d \in S, NEW p \in 0..Len(s)
  PROVE  /\ InsertAt(s, p + 1, d) \in Seq(S)
         /\ Len(InsertAt(s, p + 1, d)) = Len(s) + 1
         /\ \A i \in 1..p : InsertAt(s, p + 1, d)[i] = s[i]
         /\ InsertAt(s, p + 1, d)[p + 1] = d
         /\ \A i \in p + 1..Len(s) : InsertAt(s, p + 1, d)[i + 1] = s[i]
<1> DEFINE r == InsertAt(s, p + 1, d)
           low == SubSeq(s, 1, p)
           high == SubSeq(s, p + 1, Len(s))
           start == low \o <<d>>
<1>0. p \in Nat /\ Len(s) \in Nat /\ \A i \in 1..Len(s) : s[i] \in S
  OBVIOUS
<1>1. /\ low \in Seq(S) /\ Len(low) = p
      /\ \A i \in 1..p : low[i] = s[i]
  BY <1>0, SubSeqProperties
<1>2. /\ high \in Seq(S) /\ Len(high) = Len(s) - p
      /\ \A i \in 1..Len(s) - p : high[i] = s[p + i]
  BY <1>0, SubSeqProperties
<1>3. <<d>> \in Seq(S) /\ Len(<<d>>) = 1 /\ <<d>>[1] = d
  OBVIOUS
<1>4. r = start \o high
  <2>1. (p + 1) - 1 = p
    BY <1>0
  <2> QED BY <2>1, Zenon DEF InsertAt
<1> HIDE DEF r, low, high
<1>5. /\ start \in Seq(S) /\ Len(start) = p + 1
      /\ \A i \in 1..p : start[i] = s[i]
      /\ start[p + 1] = d
  BY <1>0, <1>1, <1>3, ConcatProperties
<1> HIDE DEF start
<1>6. /\ start \o high \in Seq(S)
      /\ Len(start \o high) = Len(start) + Len(high)
      /\ \A i \in 1..Len(start) + Len(high) :
           (start \o high)[i] =
             IF i <= Len(start) THEN start[i] ELSE high[i - Len(start)]
  BY <1>2, <1>5, ConcatProperties
<1>7. \A i \in 1..p + 1 : r[i] = start[i]
  BY <1>0, <1>2, <1>4, <1>5, <1>6
<1>8. \A i \in p + 1..Len(s) : r[i + 1] = s[i]
  <2> TAKE i \in p + 1..Len(s)
  <2>1. /\ i + 1 \in 1..Len(start) + Len(high)
        /\ ~(i + 1 <= Len(start)) /\ (i + 1) - Len(start) = i - p
        /\ i - p \in 1..Len(s) - p /\ p + (i - p) = i
    BY <1>0, <1>2, <1>5
  <2>2. r[i + 1] = high[i - p]
    BY <1>4, <1>6, <2>1
  <2> QED BY <1>2, <2>1, <2>2
<1>9. r \in Seq(S) /\ Len(r) = Len(s) + 1
  BY <1>0, <1>2, <1>4, <1>5, <1>6
<1>10. r[p + 1] = d /\ \A i \in 1..p : r[i] = s[i]
  BY <1>0, <1>5, <1>7
<1> QED BY <1>8, <1>9, <1>10 DEF r

\* Removing position p of s (gl_list_remove_node) shifts the elements after
\* it back by one.
LEMMA RemoveAtIndex ==
  ASSUME NEW S, NEW s \in Seq(S), NEW p \in 1..Len(s)
  PROVE  /\ RemoveAt(s, p) \in Seq(S) /\ Len(RemoveAt(s, p)) = Len(s) - 1
         /\ \A i \in 1..p - 1 : RemoveAt(s, p)[i] = s[i]
         /\ \A i \in p + 1..Len(s) : RemoveAt(s, p)[i - 1] = s[i]
<1> DEFINE r == RemoveAt(s, p)
           low == SubSeq(s, 1, p - 1)
           high == SubSeq(s, p + 1, Len(s))
<1>0. p \in Nat /\ Len(s) \in Nat /\ \A i \in 1..Len(s) : s[i] \in S
  OBVIOUS
<1>1. /\ low \in Seq(S) /\ Len(low) = p - 1
      /\ \A i \in 1..p - 1 : low[i] = s[i]
  BY <1>0, SubSeqProperties
<1>2. /\ high \in Seq(S) /\ Len(high) = Len(s) - p
      /\ \A i \in 1..Len(s) - p : high[i] = s[p + i]
  BY <1>0, SubSeqProperties
<1>3. r = low \o high
  BY Zenon DEF RemoveAt
<1> HIDE DEF r, low, high
<1>4. /\ low \o high \in Seq(S)
      /\ Len(low \o high) = Len(low) + Len(high)
      /\ \A i \in 1..Len(low) + Len(high) :
           (low \o high)[i] =
             IF i <= Len(low) THEN low[i] ELSE high[i - Len(low)]
  BY <1>1, <1>2, ConcatProperties
<1>5. \A i \in 1..p - 1 : r[i] = s[i]
  BY <1>0, <1>1, <1>2, <1>3, <1>4
<1>6. \A i \in p + 1..Len(s) : r[i - 1] = s[i]
  <2> TAKE i \in p + 1..Len(s)
  <2>1. r[i - 1] = high[i - p]
    BY <1>0, <1>1, <1>2, <1>3, <1>4
  <2> QED BY <1>0, <1>2, <2>1
<1>7. r \in Seq(S) /\ Len(r) = Len(s) - 1
  BY <1>0, <1>1, <1>2, <1>3, <1>4
<1> QED BY <1>5, <1>6, <1>7 DEF r

\* The elements of a sequence without repetitions, after an insertion.
LEMMA InsertAtSet ==
  ASSUME NEW S, NEW s \in Seq(S), NEW d \in S, NEW p \in 0..Len(s),
         d \notin ToSet(s),
         \A i, j \in 1..Len(s) : s[i] = s[j] => i = j
  PROVE  /\ ToSet(InsertAt(s, p + 1, d)) = ToSet(s) \cup {d}
         /\ \A i, j \in 1..Len(InsertAt(s, p + 1, d)) :
              InsertAt(s, p + 1, d)[i] = InsertAt(s, p + 1, d)[j] => i = j
<1> DEFINE r == InsertAt(s, p + 1, d)
<1>1. /\ r \in Seq(S) /\ Len(r) = Len(s) + 1
      /\ \A i \in 1..p : r[i] = s[i]
      /\ r[p + 1] = d
      /\ \A i \in p + 1..Len(s) : r[i + 1] = s[i]
  <2>1. r \in Seq(S) /\ Len(r) = Len(s) + 1 /\ r[p + 1] = d
    BY InsertAtIndex
  <2>2. \A i \in 1..p : r[i] = s[i]
    BY InsertAtIndex
  <2>3. \A i \in p + 1..Len(s) : r[i + 1] = s[i]
    BY InsertAtIndex
  <2> QED BY <2>1, <2>2, <2>3
<1> HIDE DEF r
<1>2. DOMAIN s = 1..Len(s) /\ DOMAIN r = 1..Len(s) + 1 /\ Len(s) \in Nat
      /\ p \in 0..Len(s)
  BY <1>1
<1>3. \A i \in 1..Len(s) : s[i] # d
  BY <1>2 DEF ToSet
<1>4. \A i \in 1..Len(s) + 1 :
        \/ i \in 1..p /\ r[i] = s[i]
        \/ i = p + 1 /\ r[i] = d
        \/ i > p + 1 /\ i - 1 \in p + 1..Len(s) /\ r[i] = s[i - 1]
  <2> TAKE i \in 1..Len(s) + 1
  <2>1. CASE i > p + 1
    <3> DEFINE k == i - 1
    <3>1. k \in p + 1..Len(s) /\ k + 1 = i
      BY <1>2, <2>1
    <3>2. r[k + 1] = s[k]
      BY <1>1, <3>1
    <3> QED BY <2>1, <3>1, <3>2
  <2> QED BY <1>1, <1>2, <2>1
<1>5. ToSet(r) \subseteq ToSet(s) \cup {d}
  BY <1>2, <1>4 DEF ToSet
<1>6. d \in ToSet(r)
  BY <1>1, <1>2 DEF ToSet
<1>7. ToSet(s) \subseteq ToSet(r)
  <2> SUFFICES ASSUME NEW i \in 1..Len(s) PROVE s[i] \in ToSet(r)
    BY <1>2 DEF ToSet
  <2>1. CASE i <= p
    BY <1>1, <1>2, <2>1 DEF ToSet
  <2>2. CASE i > p
    <3>1. i + 1 \in DOMAIN r /\ r[i + 1] = s[i]
      BY <1>1, <1>2, <2>2
    <3> QED BY <3>1 DEF ToSet
  <2> QED BY <1>2, <2>1, <2>2
<1>8. \A i, j \in 1..Len(r) : r[i] = r[j] => i = j
  BY <1>1, <1>2, <1>3, <1>4
<1> QED BY <1>5, <1>6, <1>7, <1>8 DEF r

\* The elements of a sequence without repetitions, after a removal.
LEMMA RemoveAtSet ==
  ASSUME NEW S, NEW s \in Seq(S), NEW p \in 1..Len(s),
         \A i, j \in 1..Len(s) : s[i] = s[j] => i = j
  PROVE  /\ ToSet(RemoveAt(s, p)) = ToSet(s) \ {s[p]}
         /\ \A i, j \in 1..Len(RemoveAt(s, p)) :
              RemoveAt(s, p)[i] = RemoveAt(s, p)[j] => i = j
<1> DEFINE r == RemoveAt(s, p)
<1>1. /\ r \in Seq(S) /\ Len(r) = Len(s) - 1
      /\ \A i \in 1..p - 1 : r[i] = s[i]
      /\ \A i \in p + 1..Len(s) : r[i - 1] = s[i]
  BY RemoveAtIndex, Zenon
<1> HIDE DEF r
<1>2. DOMAIN s = 1..Len(s) /\ DOMAIN r = 1..Len(s) - 1 /\ Len(s) \in Nat
      /\ p \in 1..Len(s)
  BY <1>1
<1>3. \A i \in 1..Len(s) - 1 :
        \/ i < p /\ r[i] = s[i]
        \/ i >= p /\ i + 1 \in 1..Len(s) /\ r[i] = s[i + 1]
  <2> TAKE i \in 1..Len(s) - 1
  <2>1. CASE i >= p
    <3> DEFINE k == i + 1
    <3>1. k \in p + 1..Len(s) /\ k - 1 = i
      BY <1>2, <2>1
    <3>2. r[k - 1] = s[k]
      BY <1>1, <3>1
    <3> QED BY <1>2, <2>1, <3>1, <3>2
  <2> QED BY <1>1, <1>2, <2>1
<1>4. ToSet(r) \subseteq ToSet(s) \ {s[p]}
  <2> SUFFICES ASSUME NEW i \in 1..Len(s) - 1
               PROVE  r[i] \in ToSet(s) /\ r[i] # s[p]
    BY <1>2 DEF ToSet
  <2> QED BY <1>2, <1>3 DEF ToSet
<1>5. ToSet(s) \ {s[p]} \subseteq ToSet(r)
  <2> SUFFICES ASSUME NEW i \in 1..Len(s), i # p PROVE s[i] \in ToSet(r)
    BY <1>2 DEF ToSet
  <2>1. CASE i < p
    <3>1. i \in DOMAIN r /\ r[i] = s[i]
      BY <1>1, <1>2, <2>1
    <3> QED BY <3>1 DEF ToSet
  <2>2. CASE i > p
    <3>1. i - 1 \in DOMAIN r /\ r[i - 1] = s[i]
      BY <1>1, <1>2, <2>2
    <3> QED BY <3>1 DEF ToSet
  <2> QED BY <1>2, <2>1, <2>2
<1>6. ASSUME NEW i \in 1..Len(r), NEW j \in 1..Len(r), r[i] = r[j]
      PROVE  i = j
  <2>1. i \in 1..Len(s) - 1 /\ j \in 1..Len(s) - 1
    BY <1>1
  <2>2. CASE i < p
    BY <1>2, <1>3, <1>6, <2>1, <2>2
  <2>3. CASE i >= p
    BY <1>2, <1>3, <1>6, <2>1, <2>3
  <2> QED BY <1>2, <2>1, <2>2, <2>3
<1> QED BY <1>4, <1>5, <1>6 DEF r

\* A sequence that is another one with an element behind it.
IsAppend(b, a, e) ==
  /\ b = [i \in 1..(Len(a) + 1) |-> b[i]]
  /\ \A i \in 1..Len(a) : b[i] = a[i]
  /\ b[Len(a) + 1] = e
LEMMA AppendIs ==
  ASSUME NEW Q, NEW a \in Seq(Q), NEW b, NEW e \in Q, IsAppend(b, a, e)
  PROVE  b = Append(a, e) /\ b = a \o <<e>>
<1> USE DEF IsAppend
<1>1. Len(a) \in Nat
  OBVIOUS
<1>2. \A i \in 1..(Len(a) + 1) : b[i] = Append(a, e)[i] /\ b[i] \in Q
  <2> TAKE i \in 1..(Len(a) + 1)
  <2>1. CASE i = Len(a) + 1
    BY <1>1, <2>1
  <2>2. CASE i # Len(a) + 1
    <3>1. i \in 1..Len(a)
      BY <1>1, <2>2
    <3>2. b[i] = a[i] /\ a[i] \in Q
      BY <3>1
    <3>3. Append(a, e)[i] = a[i]
      BY <3>1, AppendProperties
    <3> QED BY <3>2, <3>3
  <2> QED BY <2>1, <2>2
<1>3. b \in [1..(Len(a) + 1) -> Q]
  BY <1>2
<1>4. b \in Seq(Q) /\ Len(b) = Len(a) + 1
  BY <1>1, <1>3
<1>5. Append(a, e) \in Seq(Q) /\ Len(Append(a, e)) = Len(a) + 1
  BY AppendProperties
<1>6. b = Append(a, e)
  BY <1>2, <1>4, <1>5, SeqEqual
<1>7. Append(a, e) = a \o <<e>>
  OBVIOUS
<1> QED BY <1>6, <1>7

\* f is s without its last element, which y replaces.
LastIs(s, f, y) ==
  /\ Len(f) = Len(s) - 1 /\ s = Append(f, s[Len(s)])
  /\ [s EXCEPT ![Len(s)] = y] = Append(f, y)
LEMMA LastReplaced ==
  ASSUME NEW Q, NEW s \in Seq(Q), s # << >>, NEW y \in Q
  PROVE  \E f \in Seq(Q) : LastIs(s, f, y)
<1> DEFINE n == Len(s) - 1
           f == SubSeq(s, 1, n)
           t == [s EXCEPT ![Len(s)] = y]
<1>1. n \in Nat /\ Len(s) = n + 1 /\ \A i \in 1..(n + 1) : s[i] \in Q
  BY EmptySeq
<1>2. f \in Seq(Q) /\ Len(f) = n /\ \A i \in 1..n : f[i] = s[i]
  BY <1>1, SubSeqProperties
<1>3. s = [i \in 1..(n + 1) |-> s[i]]
  BY <1>1
<1>4. t = [i \in 1..(n + 1) |-> t[i]] /\ t[n + 1] = y
      /\ \A i \in 1..n : t[i] = s[i]
  <2>1. DOMAIN s = 1..(n + 1)
    BY <1>1
  <2>2. t = [i \in 1..(n + 1) |-> IF i = n + 1 THEN y ELSE s[i]]
    BY <1>1, <2>1
  <2> HIDE DEF t, n
  <2> QED BY <1>1, <2>2
<1> HIDE DEF f, n, t
<1>5. IsAppend(s, f, s[n + 1]) /\ IsAppend(t, f, y)
  BY <1>1, <1>2, <1>3, <1>4 DEF IsAppend
<1>6. s[n + 1] \in Q
  BY <1>1
<1>7. s = Append(f, s[n + 1]) /\ t = Append(f, y)
  BY <1>2, <1>5, <1>6, AppendIs
<1>8. Len(f) = Len(s) - 1 /\ Len(s) = n + 1
  BY <1>1, <1>2
<1>9. LastIs(s, f, y)
  BY <1>7, <1>8 DEF t, LastIs
<1> QED BY <1>2, <1>9

---------------------------------------------------------------------------
(* Sequences of sequences put together *)

\* seqs is a sequence of sequences over S.
SeqsOver(seqs, S) == seqs \in Seq(Seq(S))

\* AppendIs for a sequence of sequences.
LEMMA SeqsAppendIs ==
  ASSUME NEW S, NEW a, NEW b, NEW e \in Seq(S),
         SeqsOver(a, S), IsAppend(b, a, e)
  PROVE  b = Append(a, e)
<1> DEFINE Q == Seq(S)
<1>1. a \in Seq(Q) /\ e \in Q
  BY DEF SeqsOver
<1> HIDE DEF Q
<1> QED BY <1>1, AppendIs

LEMMA SeqsAre ==
  ASSUME NEW S, NEW seqs, SeqsOver(seqs, S)
  PROVE  /\ Len(seqs) \in Nat
         /\ DOMAIN seqs = 1..Len(seqs)
         /\ \A i \in 1..Len(seqs) : seqs[i] \in Seq(S)
  BY DEF SeqsOver

\* G[n] is what the first n sequences are, put together.
JoinOf(G, seqs) ==
  G[0] = << >> /\ \A n \in 1..Len(seqs) : G[n] = G[n - 1] \o seqs[n]

\* FlattenSeq (SequencesExt), which is defined by recursion.
FlattenAt(h, seqs, i) == IF i = 1 THEN seqs[i] ELSE h[i - 1] \o seqs[i]
FlattenUpTo(h, seqs, m) == h = [i \in 1..m |-> FlattenAt(h, seqs, i)]

LEMMA FlattenUpToExists ==
  ASSUME NEW seqs, NEW N \in Nat
  PROVE  \E h : FlattenUpTo(h, seqs, N)
<1> DEFINE All == {m \in Nat : \E h : FlattenUpTo(h, seqs, m)}
<1>1. 0 \in All
  <2> DEFINE h == [i \in 1..0 |-> << >>]
  <2>1. h = [i \in 1..0 |-> FlattenAt(h, seqs, i)]
    OBVIOUS
  <2> HIDE DEF h
  <2>2. FlattenUpTo(h, seqs, 0)
    BY <2>1 DEF FlattenUpTo
  <2> QED BY <2>2
<1>2. ASSUME NEW m \in All PROVE m + 1 \in All
  <2>1. PICK g : FlattenUpTo(g, seqs, m)
    OBVIOUS
  <2>2. m \in Nat
    OBVIOUS
  <2>3. g = [i \in 1..m |-> FlattenAt(g, seqs, i)]
    BY <2>1 DEF FlattenUpTo
  <2>4. \A i \in 1..m : g[i] = FlattenAt(g, seqs, i)
    <3> DEFINE c(i) == FlattenAt(g, seqs, i)
    <3>1. g = [i \in 1..m |-> c(i)]
      BY <2>3
    <3> HIDE DEF c
    <3>2. \A i \in 1..m : g[i] = c(i)
      BY <3>1
    <3> QED BY <3>2 DEF c
  <2> DEFINE e == FlattenAt(g, seqs, m + 1)
             h == [i \in 1..(m + 1) |-> IF i = m + 1 THEN e ELSE g[i]]
  <2> HIDE DEF e
  <2>5. h[m + 1] = e /\ \A i \in 1..m : h[i] = g[i]
    BY <2>2
  <2>6. h = [i \in 1..(m + 1) |-> h[i]]
    OBVIOUS
  <2> HIDE DEF h
  <2>7. ASSUME NEW i \in 1..(m + 1) PROVE h[i] = FlattenAt(h, seqs, i)
    <3>1. h[i] = FlattenAt(g, seqs, i)
      <4>1. CASE i = m + 1
        BY <2>5, <4>1 DEF e
      <4>2. CASE i # m + 1
        <5>1. i \in 1..m
          BY <2>2, <4>2
        <5> QED BY <2>4, <2>5, <5>1
      <4> QED BY <4>1, <4>2
    <3>2. CASE i = 1
      BY <3>1, <3>2 DEF FlattenAt
    <3>3. CASE i # 1
      <4>1. i - 1 \in 1..m
        BY <2>2, <3>3
      <4>2. h[i - 1] = g[i - 1]
        BY <2>5, <4>1
      <4> QED BY <3>1, <4>2 DEF FlattenAt
    <3> QED BY <3>2, <3>3
  <2>8. FlattenUpTo(h, seqs, m + 1)
    <3> DEFINE c(i) == FlattenAt(h, seqs, i)
    <3>1. \A i \in 1..(m + 1) : h[i] = c(i)
      BY <2>7
    <3> HIDE DEF c
    <3>2. h = [i \in 1..(m + 1) |-> c(i)]
      BY <2>6, <3>1
    <3> QED BY <3>2 DEF c, FlattenUpTo
  <2> QED BY <2>2, <2>8
<1>3. All \in SUBSET Nat
  OBVIOUS
<1> HIDE DEF All
<1>4. N \in All
  BY <1>1, <1>2, <1>3, NatSetInduction
<1> QED BY <1>4 DEF All

LEMMA FlattenIs ==
  ASSUME NEW S, NEW seqs, SeqsOver(seqs, S)
  PROVE  \E G \in [0..Len(seqs) -> Seq(S)] :
           JoinOf(G, seqs) /\ FlattenSeq(seqs) = G[Len(seqs)]
<1> DEFINE N == Len(seqs)
           F == CHOOSE h : FlattenUpTo(h, seqs, N)
<1>1. N \in Nat /\ \A i \in 1..N : seqs[i] \in Seq(S)
  BY SeqsAre
<1>2. FlattenSeq(seqs) = IF N = 0 THEN seqs ELSE F[N]
  BY DEF FlattenSeq, FlattenUpTo, FlattenAt
<1>3. N = 0 => seqs = << >>
  BY EmptySeq DEF SeqsOver
<1> HIDE DEF N
<1>4. FlattenUpTo(F, seqs, N)
  BY <1>1, FlattenUpToExists
<1> HIDE DEF F
<1>5. ASSUME NEW i \in 1..N
      PROVE  F[i] = IF i = 1 THEN seqs[i] ELSE F[i - 1] \o seqs[i]
  <2> DEFINE c(j) == FlattenAt(F, seqs, j)
  <2>1. F = [j \in 1..N |-> c(j)]
    BY <1>4 DEF FlattenUpTo
  <2> HIDE DEF c
  <2>2. F[i] = c(i)
    BY <2>1
  <2> QED BY <2>2 DEF c, FlattenAt
<1> DEFINE G == [n \in 0..N |-> IF n = 0 THEN << >> ELSE F[n]]
<1>6. G[0] = << >> /\ (\A n \in 1..N : G[n] = F[n])
  BY <1>1
<1>7. G = [n \in 0..N |-> G[n]]
  OBVIOUS
<1> HIDE DEF G
<1>8. FlattenSeq(seqs) = G[N]
  BY <1>1, <1>2, <1>3, <1>6
<1>9. ASSUME NEW n \in 1..N PROVE G[n] = G[n - 1] \o seqs[n]
  <2>1. CASE n = 1
    <3>1. G[n] = seqs[n] /\ G[n - 1] = << >>
      BY <1>5, <1>6, <2>1
    <3>2. seqs[n] \in Seq(S)
      BY <1>1
    <3>3. << >> \o seqs[n] = seqs[n]
      BY <3>2, ConcatEmptySeq
    <3> QED BY <3>1, <3>3
  <2>2. CASE n # 1
    <3>1. n - 1 \in 1..N
      BY <1>1, <2>2
    <3>2. G[n] = F[n] /\ G[n - 1] = F[n - 1]
      BY <1>6, <3>1
    <3> QED BY <1>5, <2>2, <3>2
  <2> QED BY <2>1, <2>2
<1> DEFINE Typed == {n \in 0..N : G[n] \in Seq(S)}
<1>10. 0 \in Typed
  <2>1. << >> \in Seq(S) /\ 0 \in 0..N
    BY <1>1, EmptySeq
  <2> QED BY <1>6, <2>1
<1>11. ASSUME NEW n \in 0..(N - 1), n \in Typed PROVE n + 1 \in Typed
  <2>1. n + 1 \in 1..N /\ n + 1 \in 0..N /\ (n + 1) - 1 = n
    BY <1>1
  <2>2. G[n + 1] = G[n] \o seqs[n + 1]
    BY <1>9, <2>1
  <2>3. G[n] \in Seq(S) /\ seqs[n + 1] \in Seq(S)
    BY <1>1, <1>11, <2>1
  <2>4. G[n] \o seqs[n + 1] \in Seq(S)
    BY <2>3, ConcatProperties
  <2> QED BY <2>1, <2>2, <2>4
<1>12. 0..N \subseteq Typed
  <2> HIDE DEF Typed
  <2> QED BY <1>1, <1>10, <1>11, UpToInduction
<1>13. G \in [0..N -> Seq(S)]
  BY <1>7, <1>12
<1>14. JoinOf(G, seqs)
  BY <1>6, <1>9 DEF JoinOf, N
<1> QED BY <1>8, <1>13, <1>14 DEF N

LEMMA FlattenConcat ==
  ASSUME NEW S, NEW s, NEW t, SeqsOver(s, S), SeqsOver(t, S)
  PROVE  /\ FlattenSeq(s) \in Seq(S) /\ FlattenSeq(t) \in Seq(S)
         /\ FlattenSeq(s \o t) = FlattenSeq(s) \o FlattenSeq(t)
<1> DEFINE r == s \o t
           M == Len(s)
           N == Len(t)
<1>1. /\ SeqsOver(r, S) /\ Len(r) = M + N
      /\ \A i \in 1..M + N : r[i] = IF i <= M THEN s[i] ELSE t[i - M]
  BY ConcatProperties DEF SeqsOver
<1> HIDE DEF r
<1>2. M \in Nat /\ N \in Nat
  BY SeqsAre
<1>3. PICK A \in [0..M -> Seq(S)] : JoinOf(A, s) /\ FlattenSeq(s) = A[M]
  BY FlattenIs
<1>4. PICK B \in [0..N -> Seq(S)] : JoinOf(B, t) /\ FlattenSeq(t) = B[N]
  BY FlattenIs
<1>5. PICK C \in [0..(M + N) -> Seq(S)] :
        JoinOf(C, r) /\ FlattenSeq(r) = C[M + N]
  <2> HIDE DEF M, N
  <2>1. PICK C \in [0..Len(r) -> Seq(S)] :
          JoinOf(C, r) /\ FlattenSeq(r) = C[Len(r)]
    BY <1>1, FlattenIs
  <2> QED BY <1>1, <2>1
<1>6. /\ A[0] = << >> /\ B[0] = << >> /\ C[0] = << >>
      /\ \A n \in 1..M : A[n] = A[n - 1] \o s[n]
      /\ \A n \in 1..N : B[n] = B[n - 1] \o t[n]
      /\ \A n \in 1..(M + N) : C[n] = C[n - 1] \o r[n]
  BY <1>1, <1>3, <1>4, <1>5 DEF JoinOf
<1>0. \A i \in 1..N : t[i] \in Seq(S)
  BY SeqsAre
<1> HIDE DEF M, N
<1>7. C[M] = A[M]
  <2> DEFINE T == {n \in 0..M : C[n] = A[n]}
  <2>1. 0 \in T
    BY <1>2, <1>6
  <2>2. ASSUME NEW n \in 0..(M - 1), n \in T PROVE n + 1 \in T
    <3>1. n + 1 \in 1..M /\ n + 1 \in 1..(M + N) /\ (n + 1) - 1 = n
          /\ n + 1 <= M /\ n + 1 \in 0..M
      BY <1>2
    <3>2. r[n + 1] = s[n + 1]
      BY <1>1, <3>1
    <3>3. C[n + 1] = C[n] \o r[n + 1] /\ A[n + 1] = A[n] \o s[n + 1]
      BY <1>6, <3>1
    <3> QED BY <2>2, <3>1, <3>2, <3>3
  <2>3. 0..M \subseteq T
    <3> HIDE DEF T
    <3> QED BY <1>2, <2>1, <2>2, UpToInduction
  <2>4. M \in T
    BY <1>2, <2>3
  <2> QED BY <2>4
<1>8. C[M + N] = A[M] \o B[N]
  <2> DEFINE T == {n \in 0..N : C[M + n] = A[M] \o B[n]}
  <2>0. A[M] \in Seq(S) /\ \A n \in 0..N : B[n] \in Seq(S)
    BY <1>2, <1>3, <1>4
  <2>1. 0 \in T
    <3>1. A[M] \o << >> = A[M]
      BY <2>0, ConcatEmptySeq
    <3>2. M + 0 = M /\ 0 \in 0..N
      BY <1>2
    <3> QED BY <1>6, <1>7, <3>1, <3>2
  <2>2. ASSUME NEW n \in 0..(N - 1), n \in T PROVE n + 1 \in T
    <3>1. n + 1 \in 1..N /\ M + (n + 1) \in 1..(M + N) /\ (n + 1) - 1 = n
          /\ (M + (n + 1)) - 1 = M + n /\ ~(M + (n + 1) <= M)
          /\ (M + (n + 1)) - M = n + 1 /\ n + 1 \in 0..N /\ n \in 0..N
      BY <1>2
    <3>2. r[M + (n + 1)] = t[n + 1]
      BY <1>1, <3>1
    <3>3. C[M + (n + 1)] = (A[M] \o B[n]) \o t[n + 1]
      BY <1>6, <2>2, <3>1, <3>2
    <3>4. t[n + 1] \in Seq(S) /\ B[n] \in Seq(S)
      BY <1>0, <2>0, <3>1
    <3>5. (A[M] \o B[n]) \o t[n + 1] = A[M] \o (B[n] \o t[n + 1])
      <4> DEFINE a == A[M]
                 b == B[n]
                 c == t[n + 1]
      <4>1. a \in Seq(S) /\ b \in Seq(S) /\ c \in Seq(S)
        BY <2>0, <3>4
      <4> HIDE DEF a, b, c
      <4>2. (a \o b) \o c = a \o (b \o c)
        BY <4>1, ConcatAssociative, SMTT(30)
      <4> QED BY <4>2 DEF a, b, c
    <3>6. B[n + 1] = B[n] \o t[n + 1]
      BY <1>6, <3>1
    <3> QED BY <3>1, <3>3, <3>5, <3>6
  <2>3. 0..N \subseteq T
    <3> HIDE DEF T
    <3> QED BY <1>2, <2>1, <2>2, UpToInduction
  <2>4. N \in T
    BY <1>2, <2>3
  <2> QED BY <2>4
<1>9. A[M] \in Seq(S) /\ B[N] \in Seq(S)
  BY <1>2, <1>3, <1>4
<1> QED BY <1>3, <1>4, <1>5, <1>8, <1>9 DEF r

LEMMA FlattenOne ==
  ASSUME NEW S, NEW x \in Seq(S)
  PROVE  FlattenSeq(<<x>>) = x
<1> DEFINE seqs == <<x>>
<1>1. SeqsOver(seqs, S) /\ Len(seqs) = 1 /\ seqs[1] = x
  BY DEF SeqsOver
<1> HIDE DEF seqs
<1>2. PICK G \in [0..Len(seqs) -> Seq(S)] :
        JoinOf(G, seqs) /\ FlattenSeq(seqs) = G[Len(seqs)]
  BY <1>1, FlattenIs
<1>3. G[0] = << >> /\ G[1] = G[0] \o seqs[1]
  <2>1. 1 \in 1..Len(seqs) /\ 1 - 1 = 0
    BY <1>1
  <2>2. G[0] = << >> /\ \A n \in 1..Len(seqs) : G[n] = G[n - 1] \o seqs[n]
    BY <1>2 DEF JoinOf
  <2>3. G[1] = G[1 - 1] \o seqs[1]
    BY <2>1, <2>2
  <2> QED BY <2>1, <2>2, <2>3
<1>4. << >> \o x = x
  BY ConcatEmptySeq
<1>5. FlattenSeq(seqs) = x
  BY <1>1, <1>2, <1>3, <1>4
<1> QED BY <1>5 DEF seqs

LEMMA FlattenAppend ==
  ASSUME NEW S, NEW s, SeqsOver(s, S), NEW x \in Seq(S)
  PROVE  /\ FlattenSeq(s) \in Seq(S) /\ SeqsOver(Append(s, x), S)
         /\ FlattenSeq(Append(s, x)) = FlattenSeq(s) \o x
<1> DEFINE t == <<x>>
<1>1. Append(s, x) = s \o t /\ SeqsOver(t, S) /\ SeqsOver(Append(s, x), S)
  BY DEF SeqsOver
<1>2. FlattenSeq(t) = x
  BY FlattenOne
<1> HIDE DEF t
<1>3. FlattenSeq(s) \in Seq(S) /\ FlattenSeq(s \o t) = FlattenSeq(s) \o FlattenSeq(t)
  BY <1>1, FlattenConcat
<1> QED BY <1>1, <1>2, <1>3

LEMMA FlattenNone == FlattenSeq(<< >>) = << >>
  BY EmptySeq DEF FlattenSeq

\* A set of sequences with << >> and what it makes of each of them.
LEMMA SeqInduction ==
  ASSUME NEW S, NEW G, << >> \in G,
         \A f \in Seq(S), e \in S : f \in G => Append(f, e) \in G
  PROVE  Seq(S) \subseteq G
<1> DEFINE T == {n \in Nat : \A s \in Seq(S) : Len(s) = n => s \in G}
<1>1. 0 \in T
  <2>1. \A s \in Seq(S) : Len(s) = 0 => s = << >>
    BY EmptySeq
  <2> QED BY <2>1
<1>2. ASSUME NEW n \in T PROVE n + 1 \in T
  <2>1. n \in Nat
    OBVIOUS
  <2>2. ASSUME NEW s \in Seq(S), Len(s) = n + 1 PROVE s \in G
    <3>1. s # << >>
      BY <2>1, <2>2, EmptySeq
    <3>2. PICK f \in Seq(S), e \in S : s = Append(f, e)
      BY <3>1, SequenceEmptyOrAppend
    <3>3. Len(f) = n
      <4>1. Len(s) = Len(f) + 1 /\ Len(f) \in Nat
        BY <3>2, AppendProperties
      <4> QED BY <2>1, <2>2, <4>1
    <3> QED BY <3>2, <3>3
  <2> QED BY <2>1, <2>2
<1>3. T \in SUBSET Nat
  OBVIOUS
<1>4. T = Nat
  <2> HIDE DEF T
  <2> QED BY <1>1, <1>2, <1>3, NatSetInduction
<1>5. \A s \in Seq(S) : Len(s) \in Nat
  OBVIOUS
<1> QED BY <1>4, <1>5

\* The sequences that f makes of the elements of s, put together.
Spread(f, s) == FlattenSeq([i \in DOMAIN s |-> f[s[i]]])

LEMMA SpreadIs ==
  ASSUME NEW S, NEW L, NEW f \in [S -> Seq(L)], NEW s \in Seq(S)
  PROVE  /\ SeqsOver([i \in DOMAIN s |-> f[s[i]]], L)
         /\ Spread(f, s) \in Seq(L) /\ Spread(f, << >>) = << >>
<1> DEFINE a == [i \in DOMAIN s |-> f[s[i]]]
           N == Len(s)
<1>1. DOMAIN s = 1..N /\ N \in Nat /\ \A i \in 1..N : s[i] \in S
  OBVIOUS
<1>2. SeqsOver(a, L)
  <2> DEFINE Q == Seq(L)
  <2>1. \A i \in 1..N : f[s[i]] \in Q
    BY <1>1
  <2>2. a = [i \in 1..N |-> f[s[i]]]
    BY <1>1
  <2> HIDE DEF Q, a, N
  <2>3. a \in Seq(Q)
    BY <1>1, <2>1, <2>2
  <2> QED BY <2>3 DEF SeqsOver, Q
<1>3. Spread(f, s) \in Seq(L)
  <2> HIDE DEF a
  <2>1. PICK G \in [0..Len(a) -> Seq(L)] : JoinOf(G, a) /\ FlattenSeq(a) = G[Len(a)]
    BY <1>2, FlattenIs
  <2>2. Len(a) \in Nat
    BY <1>2, SeqsAre
  <2>3. FlattenSeq(a) \in Seq(L)
    BY <2>1, <2>2
  <2> QED BY <2>3 DEF Spread, a
<1>4. Spread(f, << >>) = << >>
  <2> DEFINE z == [i \in DOMAIN << >> |-> f[<< >>[i]]]
  <2>1. z = << >>
    OBVIOUS
  <2> HIDE DEF z
  <2>2. Spread(f, << >>) = FlattenSeq(z)
    BY DEF Spread, z
  <2> QED BY <2>1, <2>2, FlattenNone
<1> QED BY <1>2, <1>3, <1>4

LEMMA SpreadAppend ==
  ASSUME NEW S, NEW L, NEW f \in [S -> Seq(L)], NEW s \in Seq(S), NEW e \in S
  PROVE  Spread(f, Append(s, e)) = Spread(f, s) \o f[e]
<1> DEFINE u == Append(s, e)
           a == [i \in DOMAIN s |-> f[s[i]]]
           b == [i \in DOMAIN u |-> f[u[i]]]
           N == Len(s)
<1>1. /\ u \in Seq(S) /\ Len(u) = N + 1 /\ N \in Nat
      /\ \A i \in 1..N : u[i] = s[i] /\ s[i] \in S
      /\ u[N + 1] = e
  BY AppendProperties
<1>2. DOMAIN s = 1..N /\ DOMAIN u = 1..(N + 1)
  BY <1>1
<1>3. \A x \in S : f[x] \in Seq(L)
  OBVIOUS
<1>4. Spread(f, s) = FlattenSeq(a) /\ Spread(f, u) = FlattenSeq(b)
  BY DEF Spread
<1>5. SeqsOver(a, L)
  BY SpreadIs
<1>6. a = [i \in 1..N |-> f[s[i]]] /\ b = [i \in 1..(N + 1) |-> f[u[i]]]
  BY <1>2
<1> HIDE DEF u, a, b, N
<1>7. Len(a) = N
  BY <1>1, <1>6
<1>8. b = [i \in 1..(N + 1) |-> b[i]] /\ b[N + 1] = f[e]
      /\ \A i \in 1..N : b[i] = a[i]
  BY <1>1, <1>6
<1>9. b = Append(a, f[e])
  <2>1. IsAppend(b, a, f[e])
    BY <1>7, <1>8 DEF IsAppend
  <2> QED BY <1>3, <1>5, <2>1, SeqsAppendIs
<1>10. FlattenSeq(b) = FlattenSeq(a) \o f[e]
  BY <1>3, <1>5, <1>9, FlattenAppend
<1> QED BY <1>4, <1>10 DEF u

LEMMA SpreadConcat ==
  ASSUME NEW S, NEW L, NEW f \in [S -> Seq(L)], NEW s \in Seq(S)
  PROVE  \A u \in Seq(S) : Spread(f, s \o u) = Spread(f, s) \o Spread(f, u)
<1> DEFINE G == {u \in Seq(S) : Spread(f, s \o u) = Spread(f, s) \o Spread(f, u)}
<1>1. << >> \in G
  <2>1. << >> \in Seq(S) /\ s \o << >> = s
    BY EmptySeq, ConcatEmptySeq
  <2>2. Spread(f, s) \in Seq(L) /\ Spread(f, << >>) = << >>
    BY SpreadIs
  <2> DEFINE a == Spread(f, s)
  <2> HIDE DEF a
  <2>3. a \o << >> = a
    BY <2>2, ConcatEmptySeq DEF a
  <2> QED BY <2>1, <2>2, <2>3 DEF a
<1>2. ASSUME NEW u \in Seq(S), NEW e \in S, u \in G PROVE Append(u, e) \in G
  <2> DEFINE a == Spread(f, s)
             b == Spread(f, u)
             c == f[e]
             Q == Seq(L)
  <2>1. a \in Q /\ b \in Q /\ c \in Q
    BY SpreadIs
  <2>2. Spread(f, Append(u, e)) = b \o c
    BY SpreadAppend
  <2>3. s \o Append(u, e) = Append(s \o u, e) /\ s \o u \in Seq(S)
        /\ Append(u, e) \in Seq(S)
    OBVIOUS
  <2>4. Spread(f, Append(s \o u, e)) = Spread(f, s \o u) \o c
    BY <2>3, SpreadAppend
  <2>5. Spread(f, s \o u) = a \o b
    BY <1>2
  <2>6. \A x, y, z \in Q : (x \o y) \o z = x \o (y \o z)
    BY ConcatAssociative, SMTT(60)
  <2> HIDE DEF a, b, c, Q
  <2>7. (a \o b) \o c = a \o (b \o c)
    BY ONLY <2>1, <2>6, Zenon
  <2>8. Spread(f, s \o Append(u, e)) = a \o Spread(f, Append(u, e))
    BY <2>2, <2>3, <2>4, <2>5, <2>7
  <2> QED BY <2>3, <2>8 DEF a
<1>3. Seq(S) \subseteq G
  <2> HIDE DEF G
  <2> QED BY <1>1, <1>2, SeqInduction
<1> QED BY <1>3

\* Elements of which f makes nothing.
LEMMA SpreadNone ==
  ASSUME NEW S, NEW L, NEW f \in [S -> Seq(L)]
  PROVE  \A u \in Seq(S) :
           (\A i \in 1..Len(u) : f[u[i]] = << >>) => Spread(f, u) = << >>
<1> DEFINE Dumb(u) == \A i \in 1..Len(u) : f[u[i]] = << >>
           G == {u \in Seq(S) : Dumb(u) => Spread(f, u) = << >>}
<1>1. << >> \in G
  BY EmptySeq, SpreadIs
<1>2. ASSUME NEW u \in Seq(S), NEW e \in S, u \in G PROVE Append(u, e) \in G
  <2> DEFINE v == Append(u, e)
             N == Len(u)
  <2>1. /\ v \in Seq(S) /\ Len(v) = N + 1 /\ v[N + 1] = e /\ N \in Nat
        /\ \A i \in 1..N : v[i] = u[i]
    BY AppendProperties
  <2>2. Spread(f, v) = Spread(f, u) \o f[e]
    BY SpreadAppend
  <2> HIDE DEF v
  <2>3. ASSUME Dumb(v) PROVE Spread(f, v) = << >>
    <3>1. N + 1 \in 1..(N + 1) /\ \A i \in 1..N : i \in 1..(N + 1)
      BY <2>1
    <3>2. f[e] = << >> /\ Dumb(u)
      BY <2>1, <2>3, <3>1
    <3>3. Spread(f, u) = << >>
      BY <1>2, <3>2
    <3> QED BY <2>2, <3>2, <3>3
  <2> QED BY <2>1, <2>3 DEF v
<1>3. Seq(S) \subseteq G
  <2> HIDE DEF G
  <2> QED BY <1>1, <1>2, SeqInduction
<1> QED BY <1>3

\* One element of which f may make something.
OnlyAt(f, u, m) == \A i \in 1..Len(u) : i # m => f[u[i]] = << >>

LEMMA SpreadOne ==
  ASSUME NEW S, NEW L, NEW f \in [S -> Seq(L)],
         NEW s \in Seq(S), NEW n \in 1..Len(s), OnlyAt(f, s, n)
  PROVE  Spread(f, s) = f[s[n]]
<1> DEFINE G == {u \in Seq(S) :
                  \A m \in 1..Len(u) : OnlyAt(f, u, m) => Spread(f, u) = f[u[m]]}
<1>1. << >> \in G
  BY EmptySeq
<1>2. ASSUME NEW u \in Seq(S), NEW e \in S, u \in G PROVE Append(u, e) \in G
  <2> DEFINE v == Append(u, e)
             N == Len(u)
  <2>1. /\ v \in Seq(S) /\ Len(v) = N + 1 /\ v[N + 1] = e /\ N \in Nat
        /\ \A i \in 1..N : v[i] = u[i]
    BY AppendProperties
  <2>2. Spread(f, v) = Spread(f, u) \o f[e]
    BY SpreadAppend
  <2>0. N + 1 \in 1..(N + 1) /\ \A i \in 1..N : i \in 1..(N + 1) /\ i # N + 1
    BY <2>1
  <2> HIDE DEF v
  <2>3. ASSUME NEW m \in 1..(N + 1), OnlyAt(f, v, m) PROVE Spread(f, v) = f[v[m]]
    <3>1. CASE m = N + 1
      <4>1. \A i \in 1..N : f[u[i]] = << >>
        BY <2>0, <2>1, <2>3, <3>1 DEF OnlyAt
      <4>2. Spread(f, u) = << >>
        BY <4>1, SpreadNone
      <4>3. f[e] \in Seq(L)
        OBVIOUS
      <4>4. << >> \o f[e] = f[e]
        BY <4>3, ConcatEmptySeq
      <4> QED BY <2>1, <2>2, <3>1, <4>2, <4>4
    <3>2. CASE m # N + 1
      <4>1. m \in 1..N
        BY <2>1, <3>2
      <4>2. f[e] = << >> /\ OnlyAt(f, u, m)
        BY <2>0, <2>1, <2>3, <4>1 DEF OnlyAt
      <4>3. Spread(f, u) = f[u[m]]
        BY <1>2, <4>1, <4>2
      <4>4. f[u[m]] \in Seq(L)
        BY <4>1
      <4>5. f[u[m]] \o << >> = f[u[m]]
        BY <4>4, ConcatEmptySeq
      <4> QED BY <2>1, <2>2, <4>1, <4>2, <4>3, <4>5
    <3> QED BY <3>1, <3>2
  <2> QED BY <2>1, <2>3 DEF v
<1>3. Seq(S) \subseteq G
  <2> HIDE DEF G
  <2> QED BY <1>1, <1>2, SeqInduction
<1>4. s \in G
  <2> HIDE DEF G
  <2> QED BY <1>3
<1> QED BY <1>4

\* The two parts of a sequence, before and after a place.
LEMMA SplitAt ==
  ASSUME NEW E, NEW u \in Seq(E), NEW n \in 0..Len(u)
  PROVE  /\ SubSeq(u, 1, n) \in Seq(E) /\ SubSeq(u, n + 1, Len(u)) \in Seq(E)
         /\ Len(SubSeq(u, 1, n)) = n
         /\ SubSeq(u, 1, n) \o SubSeq(u, n + 1, Len(u)) = u
         /\ \A i \in DOMAIN SubSeq(u, 1, n) :
              SubSeq(u, 1, n)[i] = u[i] /\ i \in 1..n
         /\ \A i \in DOMAIN SubSeq(u, n + 1, Len(u)) :
              SubSeq(u, n + 1, Len(u))[i] = u[n + i] /\ n + i \in DOMAIN u
<1> DEFINE s == SubSeq(u, 1, n)
           t == SubSeq(u, n + 1, Len(u))
<1>0. u \in Seq(E) /\ n \in Nat /\ Len(u) \in Nat /\ n <= Len(u)
  OBVIOUS
<1> DEFINE N == Len(u)
           m == n + 1
<1>1. n \in Nat /\ N \in Nat /\ n <= N /\ m \in Nat /\ DOMAIN u = 1..N
  BY <1>0
<1>2. /\ s \in Seq(E) /\ Len(s) = n /\ DOMAIN s = 1..n
      /\ \A i \in 1..n : s[i] = u[i]
  <2> HIDE DEF N
  <2>1. \A i \in 1..n : i \in 1..Len(u)
    BY <1>1 DEF N
  <2> QED BY <1>0, <1>1, <2>1
<1>3. /\ t \in Seq(E) /\ Len(t) = N - n /\ DOMAIN t = 1..(N - n)
      /\ \A i \in 1..(N - n) : t[i] = u[n + i]
  <2>1. t = [i \in 1..(N - n) |-> u[i + m - 1]]
    <3>1. (1 + N) - m = N - n
      BY <1>1
    <3> QED BY <1>0, <1>1, <3>1
  <2>2. \A i \in 1..(N - n) : i + m - 1 = n + i /\ n + i \in 1..N
    BY <1>1
  <2> HIDE DEF t, N, m
  <2>3. t = [i \in 1..(N - n) |-> u[n + i]]
    BY <2>1, <2>2
  <2>4. \A i \in 1..(N - n) : u[n + i] \in E
    BY <1>0, <1>1, <2>2 DEF N
  <2>5. N - n \in Nat
    BY <1>1
  <2> QED BY <2>3, <2>4, <2>5
<1> HIDE DEF s, t
<1>4. s \o t = u
  <2> DEFINE x == s \o t
  <2>1. /\ x \in Seq(E) /\ Len(x) = Len(s) + Len(t)
        /\ \A i \in 1..(Len(s) + Len(t)) :
             x[i] = IF i <= Len(s) THEN s[i] ELSE t[i - Len(s)]
    BY <1>2, <1>3, ConcatProperties
  <2> HIDE DEF x
  <2>2. x = [i \in 1..N |-> x[i]]
    <3>1. Len(x) = N
      BY <1>1, <1>2, <1>3, <2>1
    <3> QED BY <2>1, <3>1
  <2>3. \A i \in 1..N : x[i] = IF i <= n THEN s[i] ELSE t[i - n]
    BY <1>1, <1>2, <1>3, <2>1
  <2>4. x = [i \in 1..N |-> u[i]]
    <3>1. \A i \in 1..N : /\ i <= n => i \in 1..n
                         /\ ~(i <= n) => /\ i - n \in 1..(N - n)
                                         /\ n + (i - n) = i
      BY <1>1
    <3>2. \A i \in 1..N : x[i] = u[i]
      BY <1>2, <1>3, <2>3, <3>1
    <3> QED BY <2>2, <3>2
  <2>5. u = [i \in 1..N |-> u[i]]
    BY <1>0, <1>1
  <2> QED BY <2>4, <2>5 DEF x
<1>5. \A i \in 1..(N - n) : n + i \in 1..N
  BY <1>1
<1> QED BY <1>1, <1>2, <1>3, <1>4, <1>5 DEF s, t

=============================================================================
