---------------------------- MODULE RecIntProofs ----------------------------
(***************************************************************************)
(* Theorems about the commands that check what they write, for any         *)
(* descriptors, records, passwords and sizes.                              *)
(***************************************************************************)
EXTENDS RecInt, SeqLemmas

---------------------------------------------------------------------------
(* Sequences whatever their elements are *)

LEMMA SeqFacts ==
  ASSUME NEW s, IsSeq(s)
  PROVE  /\ Len(s) \in Nat /\ DOMAIN s = 1..Len(s)
         /\ s = [i \in 1..Len(s) |-> s[i]]
  BY DEF IsSeq

LEMMA SeqOfFunction ==
  ASSUME NEW n \in Nat, NEW s, s = [i \in 1..n |-> s[i]]
  PROVE  IsSeq(s) /\ Len(s) = n /\ DOMAIN s = 1..n
<1>1. DOMAIN s = 1..n /\ \A i \in 1..n : s[i] \in Range(s)
  BY DEF Range
<1>2. s \in [1..n -> Range(s)]
  BY <1>1
<1>3. s \in Seq(Range(s))
  BY <1>2
<1> QED BY <1>1, <1>3 DEF IsSeq

\* The same, of what is given by a function.
LEMMA SeqOfDomain ==
  ASSUME NEW s, NEW t, IsSeq(s), t = [i \in DOMAIN s |-> t[i]]
  PROVE  IsSeq(t) /\ Len(t) = Len(s) /\ DOMAIN t = DOMAIN s
<1>1. Len(s) \in Nat /\ DOMAIN s = 1..Len(s)
  BY SeqFacts
<1>2. t = [i \in 1..Len(s) |-> t[i]]
  BY <1>1
<1> QED BY <1>1, <1>2, SeqOfFunction

LEMMA SeqConcat ==
  ASSUME NEW s, NEW t, IsSeq(s), IsSeq(t)
  PROVE  /\ IsSeq(s \o t) /\ Len(s \o t) = Len(s) + Len(t)
         /\ \A i \in 1..Len(s) : (s \o t)[i] = s[i]
         /\ \A i \in 1..Len(t) : (s \o t)[Len(s) + i] = t[i]
<1> DEFINE S == Range(s) \cup Range(t)
<1>1. s \in Seq(S) /\ t \in Seq(S)
  <2>1. Len(s) \in Nat /\ s = [i \in 1..Len(s) |-> s[i]] /\ DOMAIN s = 1..Len(s)
    BY SeqFacts
  <2>2. Len(t) \in Nat /\ t = [i \in 1..Len(t) |-> t[i]] /\ DOMAIN t = 1..Len(t)
    BY SeqFacts
  <2>3. s \in [1..Len(s) -> S] /\ t \in [1..Len(t) -> S]
    BY <2>1, <2>2 DEF Range
  <2> QED BY <2>1, <2>2, <2>3
<1> HIDE DEF S
<1> DEFINE r == s \o t
<1>2. /\ r \in Seq(S) /\ Len(r) = Len(s) + Len(t)
      /\ \A i \in 1..Len(s) + Len(t) :
           r[i] = IF i <= Len(s) THEN s[i] ELSE t[i - Len(s)]
  BY <1>1, ConcatProperties
<1> HIDE DEF r
<1>3. Len(s) \in Nat /\ Len(t) \in Nat
  BY SeqFacts
<1>4. Len(r) \in Nat /\ r = [i \in 1..Len(r) |-> r[i]]
  BY <1>2
<1>5. IsSeq(r)
  BY <1>4, SeqOfFunction
<1>6. \A i \in 1..Len(s) : r[i] = s[i]
  BY <1>2, <1>3
<1>7. \A i \in 1..Len(t) : r[Len(s) + i] = t[i]
  <2> TAKE i \in 1..Len(t)
  <2>1. /\ Len(s) + i \in 1..Len(s) + Len(t) /\ ~(Len(s) + i <= Len(s))
        /\ (Len(s) + i) - Len(s) = i
    BY <1>3
  <2> QED BY <1>2, <2>1
<1> QED BY <1>2, <1>5, <1>6, <1>7 DEF r

LEMMA SeqOfOne ==
  ASSUME NEW x
  PROVE  IsSeq(<<x>>) /\ Len(<<x>>) = 1 /\ <<x>>[1] = x
  BY DEF IsSeq, Range

---------------------------------------------------------------------------
(* The recursive definitions of the model *)

\* The fields of a directive, one after the other.
LEMMA PropsNamedDef ==
  ASSUME NEW props, NEW x, IsSeq(x.fs)
  PROVE  /\ PropsNamed(props, x)[0] = props
         /\ \A n \in 1..Len(x.fs) :
              PropsNamed(props, x)[n] =
                PropsWith(PropsNamed(props, x)[n - 1], x.fs[n], x)
<1> DEFINE N == Len(x.fs)
           F == PropsNamed(props, x)
           at(h, n) == IF n = 0 THEN props ELSE PropsWith(h[n - 1], x.fs[n], x)
           Upto(h, m) == h = [n \in 0..m |-> at(h, n)]
           S == {m \in Nat : \E h : Upto(h, m)}
<1>1. N \in Nat
  BY SeqFacts
<1>2. F = CHOOSE h : Upto(h, N)
  BY DEF PropsNamed
<1> HIDE DEF N, F
<1>3. 0 \in S
  <2> DEFINE h == [n \in 0..0 |-> props]
  <2>1. Upto(h, 0)
    OBVIOUS
  <2> HIDE DEF Upto, h
  <2> QED BY <2>1
<1>4. ASSUME NEW m \in S PROVE m + 1 \in S
  <2>1. PICK g : Upto(g, m)
    OBVIOUS
  <2> DEFINE h == [n \in 0..(m + 1) |-> IF n = m + 1 THEN at(g, n) ELSE g[n]]
  <2>2. m \in Nat
    OBVIOUS
  <2>3. ASSUME NEW n \in 0..(m + 1) PROVE h[n] = at(h, n)
    <3>1. CASE n = 0
      BY <2>1, <2>2, <3>1
    <3>2. CASE n # 0
      <4>1. h[n - 1] = g[n - 1]
        BY <2>2, <3>2
      <4>2. h[n] = at(g, n)
        BY <2>1, <2>2, <3>2
      <4> QED BY <3>2, <4>1, <4>2
    <3> QED BY <3>1, <3>2
  <2>4. Upto(h, m + 1)
    BY <2>2, <2>3
  <2> HIDE DEF Upto, h
  <2> QED BY <2>2, <2>4
<1>5. N \in S
  <2>1. S \in SUBSET Nat
    OBVIOUS
  <2> HIDE DEF S
  <2> QED BY <1>1, <1>3, <1>4, <2>1, NatSetInduction
<1>6. Upto(F, N)
  <2> HIDE DEF Upto
  <2> QED BY <1>2, <1>5
<1>7. F[0] = props /\ \A n \in 1..N : F[n] = PropsWith(F[n - 1], x.fs[n], x)
  BY <1>1, <1>6
<1> QED BY <1>7 DEF F, N

\* The directives of a descriptor.
LEMMA PropsScannedDef ==
  ASSUME NEW props, NEW desc, IsSeq(desc)
  PROVE  /\ PropsScanned(props, desc)[0] = props
         /\ \A n \in 1..Len(desc) :
              PropsScanned(props, desc)[n] =
                ScanNext(PropsScanned(props, desc)[n - 1], desc[n])
<1> DEFINE N == Len(desc)
           F == PropsScanned(props, desc)
           at(h, n) == IF n = 0 THEN props ELSE ScanNext(h[n - 1], desc[n])
           Upto(h, m) == h = [n \in 0..m |-> at(h, n)]
           S == {m \in Nat : \E h : Upto(h, m)}
<1>1. N \in Nat
  BY SeqFacts
<1>2. F = CHOOSE h : Upto(h, N)
  BY DEF PropsScanned
<1> HIDE DEF N, F
<1>3. 0 \in S
  <2> DEFINE h == [n \in 0..0 |-> props]
  <2>1. Upto(h, 0)
    OBVIOUS
  <2> HIDE DEF Upto, h
  <2> QED BY <2>1
<1>4. ASSUME NEW m \in S PROVE m + 1 \in S
  <2>1. PICK g : Upto(g, m)
    OBVIOUS
  <2> DEFINE h == [n \in 0..(m + 1) |-> IF n = m + 1 THEN at(g, n) ELSE g[n]]
  <2>2. m \in Nat
    OBVIOUS
  <2>3. ASSUME NEW n \in 0..(m + 1) PROVE h[n] = at(h, n)
    <3>1. CASE n = 0
      BY <2>1, <2>2, <3>1
    <3>2. CASE n # 0
      <4>1. h[n - 1] = g[n - 1]
        BY <2>2, <3>2
      <4>2. h[n] = at(g, n)
        BY <2>1, <2>2, <3>2
      <4> QED BY <3>2, <4>1, <4>2
    <3> QED BY <3>1, <3>2
  <2>4. Upto(h, m + 1)
    BY <2>2, <2>3
  <2> HIDE DEF Upto, h
  <2> QED BY <2>2, <2>4
<1>5. N \in S
  <2>1. S \in SUBSET Nat
    OBVIOUS
  <2> HIDE DEF S
  <2> QED BY <1>1, <1>3, <1>4, <2>1, NatSetInduction
<1>6. Upto(F, N)
  <2> HIDE DEF Upto
  <2> QED BY <1>2, <1>5
<1>7. F[0] = props /\ \A n \in 1..N : F[n] = ScanNext(F[n - 1], desc[n])
  BY <1>1, <1>6
<1> QED BY <1>7 DEF F, N

\* The record sets of a database, checked.
LEMMA CheckedDef ==
  ASSUME NEW db, NEW remote_p, IsSeq(db)
  PROVE  /\ Checked(db, remote_p)[0] = [ok |-> TRUE, db |-> db]
         /\ \A n \in 1..Len(db) :
              Checked(db, remote_p)[n] =
                CheckNext(Checked(db, remote_p)[n - 1], n, remote_p)
<1> DEFINE N == Len(db)
           b == [ok |-> TRUE, db |-> db]
           F == Checked(db, remote_p)
           at(h, n) == IF n = 0 THEN b ELSE CheckNext(h[n - 1], n, remote_p)
           Upto(h, m) == h = [n \in 0..m |-> at(h, n)]
           S == {m \in Nat : \E h : Upto(h, m)}
<1>1. N \in Nat
  BY SeqFacts
<1>2. F = CHOOSE h : Upto(h, N)
  BY DEF Checked
<1> HIDE DEF N, F, b
<1>3. 0 \in S
  <2> DEFINE h == [n \in 0..0 |-> b]
  <2>1. Upto(h, 0)
    OBVIOUS
  <2> HIDE DEF Upto, h
  <2> QED BY <2>1
<1>4. ASSUME NEW m \in S PROVE m + 1 \in S
  <2>1. PICK g : Upto(g, m)
    OBVIOUS
  <2> DEFINE h == [n \in 0..(m + 1) |-> IF n = m + 1 THEN at(g, n) ELSE g[n]]
  <2>2. m \in Nat
    OBVIOUS
  <2>3. ASSUME NEW n \in 0..(m + 1) PROVE h[n] = at(h, n)
    <3>1. CASE n = 0
      BY <2>1, <2>2, <3>1
    <3>2. CASE n # 0
      <4>1. h[n - 1] = g[n - 1]
        BY <2>2, <3>2
      <4>2. h[n] = at(g, n)
        BY <2>1, <2>2, <3>2
      <4> QED BY <3>2, <4>1, <4>2
    <3> QED BY <3>1, <3>2
  <2>4. Upto(h, m + 1)
    BY <2>2, <2>3
  <2> HIDE DEF Upto, h
  <2> QED BY <2>2, <2>4
<1>5. N \in S
  <2>1. S \in SUBSET Nat
    OBVIOUS
  <2> HIDE DEF S
  <2> QED BY <1>1, <1>3, <1>4, <2>1, NatSetInduction
<1>6. Upto(F, N)
  <2> HIDE DEF Upto
  <2> QED BY <1>2, <1>5
<1>7. F[0] = b /\ \A n \in 1..N : F[n] = CheckNext(F[n - 1], n, remote_p)
  BY <1>1, <1>6
<1> QED BY <1>7 DEF F, N, b

\* The auto fields of a record.
LEMMA FilledDef ==
  ASSUME NEW rset, NEW rec, IsSeq(rset.props)
  PROVE  /\ Filled(rset, rec)[0] = rec
         /\ \A n \in 1..Len(rset.props) :
              Filled(rset, rec)[n] =
                FillField(rset, Filled(rset, rec)[n - 1], rset.props[n])
<1> DEFINE N == Len(rset.props)
           F == Filled(rset, rec)
           at(h, n) == IF n = 0 THEN rec
                       ELSE FillField(rset, h[n - 1], rset.props[n])
           Upto(h, m) == h = [n \in 0..m |-> at(h, n)]
           S == {m \in Nat : \E h : Upto(h, m)}
<1>1. N \in Nat
  BY SeqFacts
<1>2. F = CHOOSE h : Upto(h, N)
  BY DEF Filled
<1> HIDE DEF N, F
<1>3. 0 \in S
  <2> DEFINE h == [n \in 0..0 |-> rec]
  <2>1. Upto(h, 0)
    OBVIOUS
  <2> HIDE DEF Upto, h
  <2> QED BY <2>1
<1>4. ASSUME NEW m \in S PROVE m + 1 \in S
  <2>1. PICK g : Upto(g, m)
    OBVIOUS
  <2> DEFINE h == [n \in 0..(m + 1) |-> IF n = m + 1 THEN at(g, n) ELSE g[n]]
  <2>2. m \in Nat
    OBVIOUS
  <2>3. ASSUME NEW n \in 0..(m + 1) PROVE h[n] = at(h, n)
    <3>1. CASE n = 0
      BY <2>1, <2>2, <3>1
    <3>2. CASE n # 0
      <4>1. h[n - 1] = g[n - 1]
        BY <2>2, <3>2
      <4>2. h[n] = at(g, n)
        BY <2>1, <2>2, <3>2
      <4> QED BY <3>2, <4>1, <4>2
    <3> QED BY <3>1, <3>2
  <2>4. Upto(h, m + 1)
    BY <2>2, <2>3
  <2> HIDE DEF Upto, h
  <2> QED BY <2>2, <2>4
<1>5. N \in S
  <2>1. S \in SUBSET Nat
    OBVIOUS
  <2> HIDE DEF S
  <2> QED BY <1>1, <1>3, <1>4, <2>1, NatSetInduction
<1>6. Upto(F, N)
  <2> HIDE DEF Upto
  <2> QED BY <1>2, <1>5
<1>7. F[0] = rec /\ \A n \in 1..N :
                         F[n] = FillField(rset, F[n - 1], rset.props[n])
  BY <1>1, <1>6
<1> QED BY <1>7 DEF F, N

\* The records of a record set that recfix completes.
LEMMA AutoRecordsDef ==
  ASSUME NEW rset, IsSeq(rset.recs)
  PROVE  /\ AutoRecords(rset)[0] = rset
         /\ \A n \in 1..Len(rset.recs) :
              AutoRecords(rset)[n] =
                AutoRecord(AutoRecords(rset)[n - 1], n)
<1> DEFINE N == Len(rset.recs)
           F == AutoRecords(rset)
           at(h, n) == IF n = 0 THEN rset ELSE AutoRecord(h[n - 1], n)
           Upto(h, m) == h = [n \in 0..m |-> at(h, n)]
           S == {m \in Nat : \E h : Upto(h, m)}
<1>1. N \in Nat
  BY SeqFacts
<1>2. F = CHOOSE h : Upto(h, N)
  BY DEF AutoRecords
<1> HIDE DEF N, F
<1>3. 0 \in S
  <2> DEFINE h == [n \in 0..0 |-> rset]
  <2>1. Upto(h, 0)
    OBVIOUS
  <2> HIDE DEF Upto, h
  <2> QED BY <2>1
<1>4. ASSUME NEW m \in S PROVE m + 1 \in S
  <2>1. PICK g : Upto(g, m)
    OBVIOUS
  <2> DEFINE h == [n \in 0..(m + 1) |-> IF n = m + 1 THEN at(g, n) ELSE g[n]]
  <2>2. m \in Nat
    OBVIOUS
  <2>3. ASSUME NEW n \in 0..(m + 1) PROVE h[n] = at(h, n)
    <3>1. CASE n = 0
      BY <2>1, <2>2, <3>1
    <3>2. CASE n # 0
      <4>1. h[n - 1] = g[n - 1]
        BY <2>2, <3>2
      <4>2. h[n] = at(g, n)
        BY <2>1, <2>2, <3>2
      <4> QED BY <3>2, <4>1, <4>2
    <3> QED BY <3>1, <3>2
  <2>4. Upto(h, m + 1)
    BY <2>2, <2>3
  <2> HIDE DEF Upto, h
  <2> QED BY <2>2, <2>4
<1>5. N \in S
  <2>1. S \in SUBSET Nat
    OBVIOUS
  <2> HIDE DEF S
  <2> QED BY <1>1, <1>3, <1>4, <2>1, NatSetInduction
<1>6. Upto(F, N)
  <2> HIDE DEF Upto
  <2> QED BY <1>2, <1>5
<1>7. F[0] = rset /\ \A n \in 1..N : F[n] = AutoRecord(F[n - 1], n)
  BY <1>1, <1>6
<1> QED BY <1>7 DEF F, N

\* The numbers of a record.
LEMMA PassFieldsDef ==
  ASSUME NEW start, NEW rec, NEW f, IsSeq(rec)
  PROVE  /\ PassFields(start, rec, f)[0] = start
         /\ \A n \in 1..Len(rec) :
              PassFields(start, rec, f)[n] =
                Pass(PassFields(start, rec, f)[n - 1], rec[n], f)
<1> DEFINE N == Len(rec)
           F == PassFields(start, rec, f)
           at(h, n) == IF n = 0 THEN start ELSE Pass(h[n - 1], rec[n], f)
           Upto(h, m) == h = [n \in 0..m |-> at(h, n)]
           S == {m \in Nat : \E h : Upto(h, m)}
<1>1. N \in Nat
  BY SeqFacts
<1>2. F = CHOOSE h : Upto(h, N)
  BY DEF PassFields
<1> HIDE DEF N, F
<1>3. 0 \in S
  <2> DEFINE h == [n \in 0..0 |-> start]
  <2>1. Upto(h, 0)
    OBVIOUS
  <2> HIDE DEF Upto, h
  <2> QED BY <2>1
<1>4. ASSUME NEW m \in S PROVE m + 1 \in S
  <2>1. PICK g : Upto(g, m)
    OBVIOUS
  <2> DEFINE h == [n \in 0..(m + 1) |-> IF n = m + 1 THEN at(g, n) ELSE g[n]]
  <2>2. m \in Nat
    OBVIOUS
  <2>3. ASSUME NEW n \in 0..(m + 1) PROVE h[n] = at(h, n)
    <3>1. CASE n = 0
      BY <2>1, <2>2, <3>1
    <3>2. CASE n # 0
      <4>1. h[n - 1] = g[n - 1]
        BY <2>2, <3>2
      <4>2. h[n] = at(g, n)
        BY <2>1, <2>2, <3>2
      <4> QED BY <3>2, <4>1, <4>2
    <3> QED BY <3>1, <3>2
  <2>4. Upto(h, m + 1)
    BY <2>2, <2>3
  <2> HIDE DEF Upto, h
  <2> QED BY <2>2, <2>4
<1>5. N \in S
  <2>1. S \in SUBSET Nat
    OBVIOUS
  <2> HIDE DEF S
  <2> QED BY <1>1, <1>3, <1>4, <2>1, NatSetInduction
<1>6. Upto(F, N)
  <2> HIDE DEF Upto
  <2> QED BY <1>2, <1>5
<1>7. F[0] = start /\ \A n \in 1..N : F[n] = Pass(F[n - 1], rec[n], f)
  BY <1>1, <1>6
<1> QED BY <1>7 DEF F, N

\* The numbers of a record set.
LEMMA PassRecordsDef ==
  ASSUME NEW recs, NEW f, IsSeq(recs)
  PROVE  /\ PassRecords(recs, f)[0] = 0
         /\ \A n \in 1..Len(recs) :
              PassRecords(recs, f)[n] =
                PassRecord(PassRecords(recs, f)[n - 1], recs[n], f)
<1> DEFINE N == Len(recs)
           F == PassRecords(recs, f)
           at(h, n) == IF n = 0 THEN 0 ELSE PassRecord(h[n - 1], recs[n], f)
           Upto(h, m) == h = [n \in 0..m |-> at(h, n)]
           S == {m \in Nat : \E h : Upto(h, m)}
<1>1. N \in Nat
  BY SeqFacts
<1>2. F = CHOOSE h : Upto(h, N)
  BY DEF PassRecords
<1> HIDE DEF N, F
<1>3. 0 \in S
  <2> DEFINE h == [n \in 0..0 |-> 0]
  <2>1. Upto(h, 0)
    OBVIOUS
  <2> HIDE DEF Upto, h
  <2> QED BY <2>1
<1>4. ASSUME NEW m \in S PROVE m + 1 \in S
  <2>1. PICK g : Upto(g, m)
    OBVIOUS
  <2> DEFINE h == [n \in 0..(m + 1) |-> IF n = m + 1 THEN at(g, n) ELSE g[n]]
  <2>2. m \in Nat
    OBVIOUS
  <2>3. ASSUME NEW n \in 0..(m + 1) PROVE h[n] = at(h, n)
    <3>1. CASE n = 0
      BY <2>1, <2>2, <3>1
    <3>2. CASE n # 0
      <4>1. h[n - 1] = g[n - 1]
        BY <2>2, <3>2
      <4>2. h[n] = at(g, n)
        BY <2>1, <2>2, <3>2
      <4> QED BY <3>2, <4>1, <4>2
    <3> QED BY <3>1, <3>2
  <2>4. Upto(h, m + 1)
    BY <2>2, <2>3
  <2> HIDE DEF Upto, h
  <2> QED BY <2>2, <2>4
<1>5. N \in S
  <2>1. S \in SUBSET Nat
    OBVIOUS
  <2> HIDE DEF S
  <2> QED BY <1>1, <1>3, <1>4, <2>1, NatSetInduction
<1>6. Upto(F, N)
  <2> HIDE DEF Upto
  <2> QED BY <1>2, <1>5
<1>7. F[0] = 0 /\ \A n \in 1..N : F[n] = PassRecord(F[n - 1], recs[n], f)
  BY <1>1, <1>6
<1> QED BY <1>7 DEF F, N

---------------------------------------------------------------------------
(* Loading a file *)

\* The properties of fields stay a list.
LEMMA PropsWithSeq ==
  ASSUME NEW props, NEW f, NEW x, IsSeq(props)
  PROVE  IsSeq(PropsWith(props, f, x))
<1>1. CASE rec_rset_get_props(props, f) = {}
  <2>1. PropsWith(props, f, x) = <<PropsOf(x, NewProps(f))>> \o props
    BY <1>1 DEF PropsWith
  <2> QED BY <2>1, SeqOfOne, SeqConcat
<1>2. CASE rec_rset_get_props(props, f) # {}
  <2> DEFINE r == PropsWith(props, f, x)
  <2>1. r = [i \in DOMAIN props |-> IF props[i].f = f THEN PropsOf(x, props[i])
                                     ELSE props[i]]
    BY <1>2 DEF PropsWith
  <2>2. r = [i \in DOMAIN props |-> r[i]]
    BY <2>1
  <2> HIDE DEF r
  <2>3. IsSeq(r)
    BY <2>2, SeqOfDomain
  <2> QED BY <2>3 DEF r
<1> QED BY <1>1, <1>2

LEMMA ScanNextSeq ==
  ASSUME NEW props, NEW x, IsSeq(props), IsSeq(x.fs)
  PROVE  IsSeq(ScanNext(props, x))
<1> DEFINE N == Len(x.fs)
           F == PropsNamed(props, x)
           S == {n \in 0..N : IsSeq(F[n])}
<1>1. /\ N \in Nat /\ F[0] = props
      /\ \A n \in 1..N : F[n] = PropsWith(F[n - 1], x.fs[n], x)
  BY SeqFacts, PropsNamedDef
<1> HIDE DEF N, F
<1>2. 0 \in S
  BY <1>1
<1>3. ASSUME NEW n \in 0..(N - 1), n \in S PROVE n + 1 \in S
  <2>1. n + 1 \in 1..N /\ (n + 1) - 1 = n /\ n + 1 \in 0..N
    BY <1>1
  <2>2. F[n + 1] = PropsWith(F[n], x.fs[n + 1], x)
    BY <1>1, <2>1
  <2>3. IsSeq(F[n + 1])
    BY <1>3, <2>2, PropsWithSeq
  <2> QED BY <2>1, <2>3
<1>4. N \in S
  <2> HIDE DEF S
  <2>1. 0..N \subseteq S
    BY <1>1, <1>2, <1>3, UpToInduction
  <2> QED BY <1>1, <2>1
<1>5. IsSeq(PropsNamed(props, x)[Len(x.fs)])
  BY <1>4 DEF F, N
<1> QED BY <1>5 DEF ScanNext

LEMMA ScanPropsSeq ==
  ASSUME NEW props, NEW desc, IsSeq(props), IsDescriptor(desc)
  PROVE  IsSeq(ScanProps(props, desc))
<1> DEFINE N == Len(desc)
           F == PropsScanned(props, desc)
           S == {n \in 0..N : IsSeq(F[n])}
<1>0. IsSeq(desc) /\ \A n \in DOMAIN desc : IsSeq(desc[n].fs)
  BY DEF IsDescriptor
<1>1. /\ N \in Nat /\ F[0] = props /\ DOMAIN desc = 1..N
      /\ \A n \in 1..N : F[n] = ScanNext(F[n - 1], desc[n])
  BY <1>0, SeqFacts, PropsScannedDef
<1> HIDE DEF N, F
<1>2. 0 \in S
  BY <1>1
<1>3. ASSUME NEW n \in 0..(N - 1), n \in S PROVE n + 1 \in S
  <2>1. n + 1 \in 1..N /\ (n + 1) - 1 = n /\ n + 1 \in 0..N
    BY <1>1
  <2>2. F[n + 1] = ScanNext(F[n], desc[n + 1]) /\ IsSeq(desc[n + 1].fs)
    BY <1>0, <1>1, <2>1
  <2>3. IsSeq(F[n + 1])
    BY <1>3, <2>2, ScanNextSeq
  <2> QED BY <2>1, <2>3
<1>4. IsSeq(F[N])
  <2> HIDE DEF S
  <2>1. 0..N \subseteq S
    BY <1>1, <1>2, <1>3, UpToInduction
  <2>2. N \in S
    BY <1>1, <2>1
  <2> QED BY <2>2 DEF S
<1> DEFINE r == ScanProps(props, desc)
<1>5. r = [i \in DOMAIN F[N] |-> r[i]]
  BY DEF ScanProps, F, N
<1> HIDE DEF r
<1>6. IsSeq(r)
  BY <1>4, <1>5, SeqOfDomain
<1> QED BY <1>6 DEF r

\* What the commands use of a record set.
Parts(rset) == {"desc", "recs", "reg", "props"} \subseteq DOMAIN rset

\* Two databases with the same descriptors and records.
Same(db, old) ==
  /\ db = [i \in DOMAIN old |-> db[i]]
  /\ \A i \in DOMAIN old : /\ Parts(db[i]) /\ db[i].desc = old[i].desc
                            /\ db[i].recs = old[i].recs

LEMMA Loaded ==
  ASSUME IsFile(file)
  PROVE  /\ Same(Load(file), file) /\ IsSeq(Load(file))
         /\ \A i \in DOMAIN file : IsSeq(Load(file)[i].props)
<1> DEFINE new(i) == [recs |-> file[i].recs, props |-> << >>,
                      reg |-> [n \in {} |-> NoType]]
           db == Load(file)
<1>1. db = [i \in DOMAIN file |-> rec_rset_set_descriptor(new(i), file[i].desc)]
  BY DEF Load
<1>2. \A i \in DOMAIN file : new(i).recs = file[i].recs /\ new(i).props = << >>
  OBVIOUS
<1> HIDE DEF db, new
<1>3. ASSUME NEW i \in DOMAIN file
      PROVE  /\ Parts(db[i]) /\ db[i].desc = file[i].desc
             /\ db[i].recs = file[i].recs
             /\ db[i].props = rec_rset_update_field_props(<< >>, file[i].desc)
  BY <1>1, <1>2 DEF rec_rset_set_descriptor, Parts
<1>4. ASSUME NEW i \in DOMAIN file PROVE IsSeq(db[i].props)
  <2> DEFINE none == [j \in DOMAIN << >> |-> [<< >>[j] EXCEPT !.key = FALSE,
                                     !.auto = FALSE, !.type = NoType]]
  <2>1. none = [j \in 1..0 |-> none[j]]
    OBVIOUS
  <2>2. db[i].props = ScanProps(none, file[i].desc)
    BY <1>3 DEF rec_rset_update_field_props
  <2> HIDE DEF none
  <2>3. IsSeq(none)
    BY <2>1, SeqOfFunction
  <2> QED BY <2>2, <2>3, ScanPropsSeq DEF IsFile
<1>5. db = [i \in DOMAIN file |-> db[i]]
  BY <1>1
<1>6. IsSeq(db)
  BY <1>5, SeqOfDomain DEF IsFile
<1> QED BY <1>3, <1>4, <1>5, <1>6 DEF Same, db

---------------------------------------------------------------------------
(* The integrity check *)

LEMMA DescriptorSet ==
  ASSUME NEW rset, NEW desc
  PROVE  /\ Parts(rec_rset_set_descriptor(rset, desc))
         /\ rec_rset_set_descriptor(rset, desc).desc = desc
         /\ rec_rset_set_descriptor(rset, desc).recs = rset.recs
  BY DEF rec_rset_set_descriptor, Parts

LEMMA MergedKeeps ==
  ASSUME NEW rset, NEW remote_p, Parts(rset)
  PROVE  LET merge == Merged(rset, remote_p)
         IN /\ Parts(merge.rset) /\ merge.rset.recs = rset.recs
            /\ ~remote_p => merge.rset = rset
<1> DEFINE m == rec_int_merge_remote(rset)
<1>1. \/ m.rset = rset
      \/ \E desc : m.rset = rec_rset_set_descriptor(rset, desc)
  BY DEF rec_int_merge_remote
<1>2. Parts(m.rset) /\ m.rset.recs = rset.recs
  BY <1>1, DescriptorSet
<1>3. CASE remote_p
  BY <1>2, <1>3 DEF Merged
<1>4. CASE ~remote_p
  <2>1. Merged(rset, remote_p).rset = rset
    BY <1>4 DEF Merged
  <2> QED BY <1>4, <2>1
<1> QED BY <1>3, <1>4

\* A check of a record set that finds no error leaves the database with the
\* descriptors and the records it had.
LEMMA CheckKeeps ==
  ASSUME NEW db, NEW remote_p, NEW i \in DOMAIN db, Same(db, db),
         rec_int_check_rset(db, i, remote_p).ok
  PROVE  Same(rec_int_check_rset(db, i, remote_p).db, db)
<1> DEFINE merge == Merged(db[i], remote_p)
           merged == [db EXCEPT ![i] = merge.rset]
           check == rec_int_check_rset(db, i, remote_p)
           restored == [merged EXCEPT ![i] =
                          rec_rset_set_descriptor(@, db[i].desc)]
<1>1. Parts(merge.rset) /\ merge.rset.recs = db[i].recs
      /\ (~remote_p => merge.rset = db[i])
  BY MergedKeeps DEF Same
<1>2. check.db = IF remote_p THEN restored ELSE merged
  BY DEF rec_int_check_rset, CheckMerged
<1> HIDE DEF merge, check
<1>3. db = [j \in DOMAIN db |-> db[j]] /\ \A j \in DOMAIN db : Parts(db[j])
  BY DEF Same
<1>4. CASE remote_p
  <2>1. restored = [j \in DOMAIN db |-> IF j = i
                      THEN rec_rset_set_descriptor(merge.rset, db[i].desc)
                      ELSE db[j]]
    BY <1>3
  <2>2. LET r == rec_rset_set_descriptor(merge.rset, db[i].desc)
        IN Parts(r) /\ r.desc = db[i].desc /\ r.recs = db[i].recs
    BY <1>1, DescriptorSet
  <2> HIDE DEF restored
  <2> QED BY <1>2, <1>3, <1>4, <2>1, <2>2 DEF Same, check
<1>5. CASE ~remote_p
  <2>1. merged = db
    BY <1>1, <1>3, <1>5
  <2> QED BY <1>2, <1>3, <1>5, <2>1 DEF Same, check
<1> QED BY <1>4, <1>5

\* The same of the whole database: one error is enough to be told of.
LEMMA CheckDbKeeps ==
  ASSUME NEW db, NEW remote_p, Same(db, db), IsSeq(db),
         rec_int_check_db(db, remote_p).ok
  PROVE  Same(rec_int_check_db(db, remote_p).db, db)
<1> DEFINE N == Len(db)
           F == Checked(db, remote_p)
           S == {n \in 0..N : F[n].ok => Same(F[n].db, db)}
<1>1. /\ N \in Nat /\ F[0] = [ok |-> TRUE, db |-> db] /\ DOMAIN db = 1..N
      /\ \A n \in 1..N : F[n] = CheckNext(F[n - 1], n, remote_p)
  BY SeqFacts, CheckedDef
<1>2. F[N] = rec_int_check_db(db, remote_p)
  BY DEF rec_int_check_db
<1> HIDE DEF N, F
<1>3. 0 \in S
  <2>1. F[0].db = db
    BY <1>1
  <2> QED BY <1>1, <2>1
<1>4. ASSUME NEW n \in 0..(N - 1), n \in S PROVE n + 1 \in S
  <2>1. n + 1 \in 1..N /\ (n + 1) - 1 = n /\ n + 1 \in 0..N
    BY <1>1
  <2>2. F[n + 1] = CheckNext(F[n], n + 1, remote_p)
    BY <1>1, <2>1
  <2>3. ASSUME F[n + 1].ok PROVE Same(F[n + 1].db, db)
    <3> DEFINE c == rec_int_check_rset(F[n].db, n + 1, remote_p)
    <3>0. F[n + 1].ok = (F[n].ok /\ c.ok) /\ F[n + 1].db = c.db
      BY <2>2 DEF CheckNext
    <3>1. F[n].ok /\ c.ok /\ F[n + 1].db = c.db
      BY <2>3, <3>0, Zenon
    <3>2. Same(F[n].db, db)
      BY <1>4, <3>1
    <3>3. n + 1 \in DOMAIN F[n].db /\ Same(F[n].db, F[n].db)
      BY <1>1, <2>1, <3>2 DEF Same
    <3>4. Same(c.db, F[n].db)
      BY <3>1, <3>3, CheckKeeps
    <3> HIDE DEF c
    <3>5. Same(c.db, db)
      BY <3>2, <3>4 DEF Same
    <3> QED BY <3>1, <3>5
  <2> QED BY <2>1, <2>3
<1>5. N \in S
  <2> HIDE DEF S
  <2>1. 0..N \subseteq S
    BY <1>1, <1>3, <1>4, UpToInduction
  <2> QED BY <1>1, <2>1
<1> QED BY <1>2, <1>5

\* What a command writes: the descriptors of the file, and the records of
\* its database.
LEMMA SaveWrites ==
  ASSUME NEW db, NEW mode, NEW c, NEW given, Same(db, db), IsSeq(db),
         Save(db, mode, c, given)
  PROVE  /\ file' = [i \in DOMAIN db |-> [desc |-> db[i].desc,
                                          recs |-> db[i].recs]]
         /\ cmd'.c = c /\ cmd'.given = given
<1> DEFINE r == IF mode = "force" THEN [ok |-> TRUE, db |-> db]
                ELSE rec_int_check_db(db, mode = "external")
<1>1. /\ r.ok /\ file' = Unload(r.db)
      /\ cmd' = [n |-> cmd.n + 1, c |-> c, given |-> given]
  BY DEF Save
<1>2. Same(r.db, db)
  <2>1. CASE mode = "force"
    BY <2>1
  <2>2. CASE mode # "force"
    <3>1. r = rec_int_check_db(db, mode = "external")
      BY <2>2
    <3> QED BY <1>1, <3>1, CheckDbKeeps
  <2> QED BY <2>1, <2>2
<1> HIDE DEF r
<1> QED BY <1>1, <1>2 DEF Same, Unload

---------------------------------------------------------------------------
(* The databases that commands write *)

\* The records of a record set.
AreRecords(recs) == IsSeq(recs) /\ \A k \in DOMAIN recs : IsRecord(recs[k])

\* A database with the descriptors of the file, and any records.
OfFile(db) ==
  /\ db = [i \in DOMAIN file |-> db[i]]
  /\ \A i \in DOMAIN file : /\ Parts(db[i]) /\ db[i].desc = file[i].desc
                             /\ AreRecords(db[i].recs)

LEMMA Written ==
  ASSUME NEW db, NEW mode, NEW c, NEW given, IsFile(file), OfFile(db),
         Save(db, mode, c, given)
  PROVE  /\ IsFile(file')
         /\ DOMAIN file' = DOMAIN file
         /\ \A i \in DOMAIN file : /\ file'[i].desc = file[i].desc
                                    /\ file'[i].recs = db[i].recs
         /\ cmd'.c = c /\ cmd'.given = given
<1>1. DOMAIN db = DOMAIN file /\ Same(db, db)
  BY DEF OfFile, Same
<1>2. IsSeq(db)
  BY SeqOfDomain DEF OfFile, IsFile
<1>3. file' = [i \in DOMAIN file |-> [desc |-> db[i].desc, recs |-> db[i].recs]]
      /\ cmd'.c = c /\ cmd'.given = given
  BY <1>1, <1>2, SaveWrites
<1> DEFINE g == file'
<1>4. /\ g = [i \in DOMAIN file |-> g[i]]
      /\ \A i \in DOMAIN file : /\ g[i] = [desc |-> g[i].desc,
                                           recs |-> g[i].recs]
                                 /\ g[i].desc = file[i].desc
                                 /\ g[i].recs = db[i].recs
  BY <1>3 DEF OfFile
<1> HIDE DEF g
<1>5. IsSeq(g) /\ DOMAIN g = DOMAIN file
  BY <1>4, SeqOfDomain DEF IsFile
<1>6. \A i \in DOMAIN file : IsDescriptor(g[i].desc) /\ AreRecords(g[i].recs)
  BY <1>4 DEF OfFile, IsFile
<1>7. IsFile(g)
  BY <1>4, <1>5, <1>6 DEF IsFile, AreRecords
<1> QED BY <1>3, <1>4, <1>5, <1>7 DEF g

LEMMA LoadedOfFile ==
  ASSUME IsFile(file)
  PROVE  OfFile(Load(file))
  BY Loaded DEF IsFile, OfFile, AreRecords, Same

LEMMA ConcatRecord ==
  ASSUME NEW r, NEW s, IsRecord(r), IsRecord(s)
  PROVE  IsRecord(r \o s)
<1> DEFINE t == r \o s
<1>1. /\ IsSeq(t) /\ Len(t) = Len(r) + Len(s)
      /\ \A i \in 1..Len(r) : t[i] = r[i]
      /\ \A i \in 1..Len(s) : t[Len(r) + i] = s[i]
  BY SeqConcat DEF IsRecord
<1>2. /\ Len(r) \in Nat /\ Len(s) \in Nat /\ DOMAIN r = 1..Len(r)
      /\ DOMAIN s = 1..Len(s)
  BY SeqFacts DEF IsRecord
<1> HIDE DEF t
<1>3. DOMAIN t = 1..(Len(r) + Len(s))
  BY <1>1, SeqFacts
<1>4. ASSUME NEW j \in DOMAIN t PROVE t[j] = <<t[j][1], t[j][2]>>
  <2>1. CASE j <= Len(r)
    <3>1. j \in DOMAIN r /\ t[j] = r[j]
      BY <1>1, <1>2, <1>3, <2>1
    <3> QED BY <3>1 DEF IsRecord
  <2>2. CASE j > Len(r)
    <3>1. j - Len(r) \in DOMAIN s /\ Len(r) + (j - Len(r)) = j
      BY <1>2, <1>3, <2>2
    <3>2. t[j] = s[j - Len(r)]
      BY <1>1, <1>2, <3>1
    <3> QED BY <3>1, <3>2 DEF IsRecord
  <2> QED BY <1>2, <1>3, <2>1, <2>2
<1>5. IsRecord(t)
  BY <1>1, <1>4 DEF IsRecord
<1> QED BY <1>5 DEF t

LEMMA OneField ==
  ASSUME NEW f, NEW v
  PROVE  IsRecord(<<<<f, v>>>>)
<1> DEFINE r == <<<<f, v>>>>
<1>1. IsSeq(r) /\ Len(r) = 1 /\ r[1] = <<f, v>>
  BY SeqOfOne
<1> HIDE DEF r
<1>2. DOMAIN r = 1..1
  BY <1>1, SeqFacts
<1>3. IsRecord(r)
  BY <1>1, <1>2 DEF IsRecord
<1> QED BY <1>3 DEF r

LEMMA NoField == IsRecord(<< >>)
<1>1. << >> = [i \in 1..0 |-> << >>[i]]
  OBVIOUS
<1>2. IsSeq(<< >>) /\ DOMAIN << >> = 1..0
  BY <1>1, SeqOfFunction
<1> QED BY <1>2 DEF IsRecord

\* What an auto field gives: a field of that name, or none.
LEMMA AutoFieldRecord ==
  ASSUME NEW rset, NEW f
  PROVE  /\ IsRecord(AutoField(rset, f))
         /\ \/ AutoField(rset, f) = << >>
            \/ \E v : AutoField(rset, f) = <<<<f, v>>>>
<1>1. AutoField(rset, f) = << >> \/ \E v : AutoField(rset, f) = <<<<f, v>>>>
  <2> DEFINE kind == rec_rset_get_field_type(rset, f).kind
  <2> HIDE DEF kind
  <2>1. AutoField(rset, f) =
          CASE kind \in {"int", "range"} ->
                 <<<<f, rec_rset_add_auto_field_int(rset.recs, f)>>>>
            [] kind = "date" -> <<<<f, <<"date", 0>>>>>>
            [] kind = "uuid" -> <<<<f, FreshUuid(rset.recs, f)>>>>
            [] OTHER -> << >>
    BY DEF AutoField, kind
  <2>2. CASE kind \in {"int", "range"}
    BY <2>1, <2>2
  <2>3. CASE kind = "date"
    BY <2>1, <2>3
  <2>4. CASE kind = "uuid"
    BY <2>1, <2>4
  <2>5. CASE kind \notin {"int", "range", "date", "uuid"}
    BY <2>1, <2>5
  <2> QED BY <2>2, <2>3, <2>4, <2>5
<1> QED BY <1>1, OneField, NoField

LEMMA FilledRecord ==
  ASSUME NEW rset, NEW rec, IsSeq(rset.props), IsRecord(rec)
  PROVE  IsRecord(rec_rset_add_auto_fields(rset, rec))
<1> DEFINE N == Len(rset.props)
           F == Filled(rset, rec)
           S == {n \in 0..N : IsRecord(F[n])}
<1>1. /\ N \in Nat /\ F[0] = rec
      /\ \A n \in 1..N : F[n] = FillField(rset, F[n - 1], rset.props[n])
  BY SeqFacts, FilledDef
<1>2. F[N] = rec_rset_add_auto_fields(rset, rec)
  BY DEF rec_rset_add_auto_fields
<1> HIDE DEF N, F
<1>3. 0 \in S
  BY <1>1
<1>4. ASSUME NEW n \in 0..(N - 1), n \in S PROVE n + 1 \in S
  <2>1. n + 1 \in 1..N /\ (n + 1) - 1 = n /\ n + 1 \in 0..N
    BY <1>1
  <2> DEFINE p == rset.props[n + 1]
  <2>2. F[n + 1] = FillField(rset, F[n], p)
    BY <1>1, <2>1
  <2> HIDE DEF p
  <2>3. IsRecord(AutoField(rset, p.f) \o F[n])
    BY <1>4, AutoFieldRecord, ConcatRecord
  <2>4. IsRecord(F[n + 1])
    BY <1>4, <2>2, <2>3 DEF FillField
  <2> QED BY <2>1, <2>4
<1>5. N \in S
  <2> HIDE DEF S
  <2>1. 0..N \subseteq S
    BY <1>1, <1>3, <1>4, UpToInduction
  <2> QED BY <1>1, <2>1
<1> QED BY <1>2, <1>5

\* Encryption and decryption change values and nothing else.
LEMMA ConfidentialRecord ==
  ASSUME NEW rset, NEW rec, NEW password, NEW after, IsRecord(rec)
  PROVE  /\ IsRecord(rec_encrypt_record(rset, rec, password))
         /\ IsRecord(rec_decrypt_record(rset, rec, password, after))
<1> DEFINE e == rec_encrypt_record(rset, rec, password)
           d == rec_decrypt_record(rset, rec, password, after)
<1>1. /\ e = [i \in DOMAIN rec |-> e[i]] /\ d = [i \in DOMAIN rec |-> d[i]]
  BY DEF rec_encrypt_record, rec_decrypt_record, Confidential
<1>2. ASSUME NEW i \in DOMAIN rec
      PROVE  /\ e[i] = rec[i] \/ \E v : e[i] = <<rec[i][1], v>>
             /\ d[i] = rec[i] \/ \E v : d[i] = <<rec[i][1], v>>
  BY DEF rec_encrypt_record, rec_decrypt_record, Confidential
<1> HIDE DEF e, d
<1>3. IsSeq(e) /\ DOMAIN e = DOMAIN rec /\ IsSeq(d) /\ DOMAIN d = DOMAIN rec
  BY <1>1, SeqOfDomain DEF IsRecord
<1>4. ASSUME NEW i \in DOMAIN rec
      PROVE  e[i] = <<e[i][1], e[i][2]>> /\ d[i] = <<d[i][1], d[i][2]>>
  <2>1. rec[i] = <<rec[i][1], rec[i][2]>>
    BY DEF IsRecord
  <2> QED BY <1>2, <2>1
<1>5. IsRecord(e) /\ IsRecord(d)
  BY <1>3, <1>4 DEF IsRecord
<1> QED BY <1>5 DEF e, d

\* A database in which one record set has other records.
LEMMA OneChanged ==
  ASSUME NEW db, OfFile(db), NEW i \in DOMAIN file, NEW recs, AreRecords(recs)
  PROVE  /\ OfFile([db EXCEPT ![i].recs = recs])
         /\ [db EXCEPT ![i].recs = recs][i].recs = recs
         /\ \A j \in DOMAIN file \ {i} :
              [db EXCEPT ![i].recs = recs][j].recs = db[j].recs
<1> DEFINE new == [db EXCEPT ![i].recs = recs]
           rset == [db[i] EXCEPT !.recs = recs]
<1>1. rset.desc = db[i].desc /\ rset.recs = recs /\ Parts(rset)
  BY DEF OfFile, Parts
<1>2. new = [j \in DOMAIN file |-> IF j = i THEN rset ELSE db[j]]
  BY DEF OfFile
<1> HIDE DEF new, rset
<1>3. \A j \in DOMAIN file : new[j] = IF j = i THEN rset ELSE db[j]
  BY <1>2
<1>4. OfFile(new)
  BY <1>1, <1>2, <1>3 DEF OfFile
<1>5. /\ new[i].recs = recs
      /\ \A j \in DOMAIN file \ {i} : new[j].recs = db[j].recs
  BY <1>1, <1>3
<1> QED BY <1>4, <1>5 DEF new

LEMMA AppendRecord ==
  ASSUME NEW recs, NEW rec, AreRecords(recs), IsRecord(rec)
  PROVE  /\ AreRecords(Append(recs, rec))
         /\ DOMAIN Append(recs, rec) = 1..(Len(recs) + 1)
         /\ \A k \in DOMAIN recs : Append(recs, rec)[k] = recs[k]
         /\ Append(recs, rec)[Len(recs) + 1] = rec
<1>0. Len(recs) \in Nat /\ DOMAIN recs = 1..Len(recs)
  BY SeqFacts DEF AreRecords
<1> DEFINE S == Range(recs) \cup {rec}
           new == Append(recs, rec)
<1>1. recs \in Seq(S) /\ rec \in S
  <2>1. recs \in [1..Len(recs) -> S]
    <3>1. \A k \in 1..Len(recs) : recs[k] \in S
      BY <1>0 DEF Range
    <3>2. recs = [k \in 1..Len(recs) |-> recs[k]]
      BY SeqFacts DEF AreRecords
    <3> HIDE DEF S
    <3> QED BY <3>1, <3>2
  <2> QED BY <1>0, <2>1
<1> HIDE DEF S
<1>2. /\ new \in Seq(S) /\ Len(new) = Len(recs) + 1
      /\ \A k \in 1..Len(recs) : new[k] = recs[k]
      /\ new[Len(recs) + 1] = rec
  BY <1>1, AppendProperties
<1> HIDE DEF new
<1>3. /\ DOMAIN new = 1..(Len(recs) + 1)
      /\ new = [k \in 1..(Len(recs) + 1) |-> new[k]]
  BY <1>2
<1>4. IsSeq(new)
  BY <1>0, <1>3, SeqOfFunction
<1>5. \A k \in DOMAIN new : IsRecord(new[k])
  <2> TAKE k \in DOMAIN new
  <2>1. CASE k = Len(recs) + 1
    BY <1>2, <2>1
  <2>2. CASE k # Len(recs) + 1
    <3>1. k \in 1..Len(recs)
      BY <1>0, <1>3, <2>2
    <3> QED BY <1>0, <1>2, <3>1 DEF AreRecords
  <2> QED BY <2>1, <2>2
<1> QED BY <1>0, <1>2, <1>3, <1>4, <1>5 DEF AreRecords, new

LEMMA ReplaceRecord ==
  ASSUME NEW recs, NEW rec, NEW k, AreRecords(recs), IsRecord(rec)
  PROVE  AreRecords([recs EXCEPT ![k] = rec])
<1> DEFINE new == [recs EXCEPT ![k] = rec]
<1>1. new = [j \in DOMAIN recs |-> new[j]]
      /\ \A j \in DOMAIN recs : new[j] = IF j = k THEN rec ELSE recs[j]
  OBVIOUS
<1> HIDE DEF new
<1>2. IsSeq(new) /\ DOMAIN new = DOMAIN recs
  BY <1>1, SeqOfDomain DEF AreRecords
<1> QED BY <1>1, <1>2 DEF AreRecords, new

LEMMA RemoveRecord ==
  ASSUME NEW recs, NEW k \in DOMAIN recs, AreRecords(recs)
  PROVE  AreRecords(RemoveAt(recs, k))
<1> DEFINE new == RemoveAt(recs, k)
<1>1. recs \in Seq(Range(recs)) /\ k \in 1..Len(recs)
  BY SeqFacts DEF AreRecords, IsSeq
<1>2. new \in Seq(Range(recs))
  BY <1>1, RemoveAtIndex
<1>3. \A r \in Range(recs) : IsRecord(r)
  BY DEF AreRecords, Range
<1> HIDE DEF new
<1>4. Len(new) \in Nat /\ new = [j \in 1..Len(new) |-> new[j]]
  BY <1>2
<1>5. IsSeq(new) /\ DOMAIN new = 1..Len(new)
  BY <1>4, SeqOfFunction
<1>6. \A j \in DOMAIN new : new[j] \in Range(recs)
  BY <1>2, <1>5
<1> QED BY <1>3, <1>5, <1>6 DEF AreRecords, new

---------------------------------------------------------------------------
(* The commands *)

\* The file of a command that changed it: it is a file, and has the
\* descriptors it had.
Kept ==
  /\ IsFile(file') /\ DOMAIN file' = DOMAIN file
  /\ \A i \in DOMAIN file : file'[i].desc = file[i].desc

\* The record that recins writes.
InsRecord(rset, rec, auto, password) ==
  LET filled == IF auto THEN rec_rset_add_auto_fields(rset, rec) ELSE rec
  IN IF password = << >> THEN filled
     ELSE rec_encrypt_record(rset, filled, password)

LEMMA RecinsWrites ==
  ASSUME IsFile(file), NEW i \in DOMAIN file, NEW k \in 0..Len(file[i].recs),
         NEW rec, IsRecord(rec), NEW auto, NEW password, NEW mode,
         Recins(Load(file), i, k, rec, auto, password, mode)
  PROVE  LET record == InsRecord(Load(file)[i], rec, auto, password)
         IN /\ Kept /\ IsRecord(record)
            /\ cmd'.c = "recins" /\ cmd'.given = Names(rec)
            /\ file'[i].recs = IF k = 0 THEN Append(file[i].recs, record)
                               ELSE [file[i].recs EXCEPT ![k] = record]
            /\ \A j \in DOMAIN file \ {i} : file'[j].recs = file[j].recs
<1> DEFINE db == Load(file)
           record == InsRecord(db[i], rec, auto, password)
           recs == IF k = 0 THEN Append(db[i].recs, record)
                   ELSE [db[i].recs EXCEPT ![k] = record]
           new == [db EXCEPT ![i].recs = recs]
<1>1. IsRecord(record)
  <2>1. IsSeq(db[i].props)
    BY Loaded
  <2> HIDE DEF db
  <2>2. IsRecord(rec_rset_add_auto_fields(db[i], rec))
    BY <2>1, FilledRecord
  <2> QED BY <2>2, ConfidentialRecord DEF InsRecord
<1>2. OfFile(db) /\ db[i].recs = file[i].recs
      /\ \A j \in DOMAIN file : db[j].recs = file[j].recs
  BY Loaded, LoadedOfFile DEF Same
<1>3. Save(new, mode, "recins", Names(rec))
  BY DEF Recins, InsRecord
<1> HIDE DEF db, record
<1>4. AreRecords(recs)
  <2>1. AreRecords(db[i].recs)
    BY <1>2 DEF OfFile
  <2> QED BY <1>1, <2>1, AppendRecord, ReplaceRecord
<1> HIDE DEF recs
<1>5. /\ OfFile(new) /\ new[i].recs = recs
      /\ \A j \in DOMAIN file \ {i} : new[j].recs = db[j].recs
  BY <1>2, <1>4, OneChanged
<1> HIDE DEF new
<1>6. /\ Kept /\ \A j \in DOMAIN file : file'[j].recs = new[j].recs
      /\ cmd'.c = "recins" /\ cmd'.given = Names(rec)
  BY <1>3, <1>5, Written DEF Kept
<1>7. /\ file'[i].recs = recs
      /\ \A j \in DOMAIN file \ {i} : file'[j].recs = file[j].recs
  BY <1>2, <1>5, <1>6
<1>8. recs = IF k = 0 THEN Append(file[i].recs, record)
             ELSE [file[i].recs EXCEPT ![k] = record]
  BY <1>2 DEF recs
<1> QED BY <1>1, <1>6, <1>7, <1>8 DEF db, record

LEMMA RecsetWrites ==
  ASSUME IsFile(file), NEW i \in DOMAIN file, NEW k \in DOMAIN file[i].recs,
         NEW f, NEW v, NEW mode, Recset(Load(file), i, k, f, v, mode)
  PROVE  Kept /\ cmd'.c = "recset"
<1> DEFINE db == Load(file)
           m == Min(At(db[i].recs[k], f))
           rec == [db[i].recs[k] EXCEPT ![m][2] = v]
           recs == [db[i].recs EXCEPT ![k] = rec]
           new == [db EXCEPT ![i].recs = recs]
<1>1. OfFile(db) /\ db[i].recs = file[i].recs
  BY Loaded, LoadedOfFile DEF Same
<1>2. Save([db EXCEPT ![i].recs[k][m][2] = v], mode, "recset", {f})
  BY DEF Recset
<1> HIDE DEF db, m
<1>3. IsRecord(db[i].recs[k]) /\ AreRecords(db[i].recs)
  BY <1>1 DEF OfFile, AreRecords
<1>4. IsRecord(rec)
  <2> DEFINE old == db[i].recs[k]
  <2> HIDE DEF old
  <2>1. /\ IsSeq(old) /\ \A j \in DOMAIN old : old[j] = <<old[j][1], old[j][2]>>
    BY <1>3 DEF IsRecord, old
  <2> DEFINE one == [old EXCEPT ![m][2] = v]
  <2>2. one = [j \in DOMAIN old |-> one[j]]
    OBVIOUS
  <2>3. ASSUME NEW j \in DOMAIN old PROVE one[j] = <<one[j][1], one[j][2]>>
    <3>1. CASE j = m
      <4>1. one[j] = [<<old[j][1], old[j][2]>> EXCEPT ![2] = v]
        BY <2>1, <3>1
      <4>2. one[j] = <<old[j][1], v>>
        BY <4>1
      <4> QED BY <4>2
    <3>2. CASE j # m
      BY <2>1, <3>2
    <3> QED BY <3>1, <3>2
  <2> HIDE DEF one
  <2>4. IsSeq(one) /\ DOMAIN one = DOMAIN old
    BY <2>1, <2>2, SeqOfDomain
  <2>5. IsRecord(one)
    BY <2>3, <2>4 DEF IsRecord
  <2> QED BY <2>5 DEF one, old
<1>5. [db EXCEPT ![i].recs[k][m][2] = v] = new
  OBVIOUS
<1> HIDE DEF rec
<1>6. AreRecords(recs)
  BY <1>3, <1>4, ReplaceRecord
<1> HIDE DEF recs
<1>7. OfFile(new)
  BY <1>1, <1>6, OneChanged
<1> HIDE DEF new
<1> QED BY <1>2, <1>5, <1>7, Written DEF Kept

LEMMA RecdelWrites ==
  ASSUME IsFile(file), NEW i \in DOMAIN file, NEW k \in DOMAIN file[i].recs,
         NEW mode, Recdel(Load(file), i, k, mode)
  PROVE  Kept /\ cmd'.c = "recdel"
<1> DEFINE db == Load(file)
           recs == RemoveAt(db[i].recs, k)
           new == [db EXCEPT ![i].recs = recs]
<1>1. OfFile(db) /\ db[i].recs = file[i].recs
  BY Loaded, LoadedOfFile DEF Same
<1>2. Save(new, mode, "recdel", {})
  BY DEF Recdel
<1> HIDE DEF db
<1>3. AreRecords(recs)
  BY <1>1, RemoveRecord DEF OfFile
<1> HIDE DEF recs
<1>4. OfFile(new)
  BY <1>1, <1>3, OneChanged
<1> HIDE DEF new
<1> QED BY <1>2, <1>4, Written DEF Kept

LEMMA CryptWrites ==
  ASSUME IsFile(file), NEW p, NEW after,
         \/ RecfixEncrypt(Load(file), p)
         \/ RecfixDecrypt(Load(file), p, after)
  PROVE  Kept /\ cmd'.c \in {"encrypt", "decrypt"}
<1> DEFINE db == Load(file)
           encs(i) == [k \in DOMAIN db[i].recs |->
                         rec_encrypt_record(db[i], db[i].recs[k], p)]
           decs(i) == [k \in DOMAIN db[i].recs |->
                         rec_decrypt_record(db[i], db[i].recs[k], p, after)]
           enc == [i \in DOMAIN db |-> [db[i] EXCEPT !.recs = encs(i)]]
           dec == [i \in DOMAIN db |-> [db[i] EXCEPT !.recs = decs(i)]]
<1>1. OfFile(db) /\ DOMAIN db = DOMAIN file
  BY LoadedOfFile DEF OfFile
<1>2. Save(enc, "force", "encrypt", {}) \/ Save(dec, "force", "decrypt", {})
  BY DEF RecfixEncrypt, RecfixDecrypt, Records
<1> HIDE DEF db
<1>3. ASSUME NEW i \in DOMAIN file
      PROVE  AreRecords(encs(i)) /\ AreRecords(decs(i))
  <2>1. AreRecords(db[i].recs)
    BY <1>1 DEF OfFile
  <2>2. encs(i) = [k \in DOMAIN db[i].recs |-> encs(i)[k]]
        /\ decs(i) = [k \in DOMAIN db[i].recs |-> decs(i)[k]]
    OBVIOUS
  <2>3. \A k \in DOMAIN db[i].recs :
          IsRecord(encs(i)[k]) /\ IsRecord(decs(i)[k])
    BY <2>1, ConfidentialRecord DEF AreRecords
  <2> HIDE DEF encs, decs
  <2>4. /\ IsSeq(encs(i)) /\ DOMAIN encs(i) = DOMAIN db[i].recs
        /\ IsSeq(decs(i)) /\ DOMAIN decs(i) = DOMAIN db[i].recs
    BY <2>1, <2>2, SeqOfDomain DEF AreRecords
  <2> QED BY <2>3, <2>4 DEF AreRecords
<1> HIDE DEF encs, decs
<1>4. ASSUME NEW i \in DOMAIN file
      PROVE  /\ Parts(enc[i]) /\ enc[i].desc = db[i].desc
             /\ enc[i].recs = encs(i)
             /\ Parts(dec[i]) /\ dec[i].desc = db[i].desc
             /\ dec[i].recs = decs(i)
  BY <1>1 DEF OfFile, Parts
<1>5. /\ enc = [i \in DOMAIN file |-> enc[i]]
      /\ dec = [i \in DOMAIN file |-> dec[i]]
  BY <1>1
<1> HIDE DEF enc, dec
<1>6. OfFile(enc)
  BY <1>1, <1>3, <1>4, <1>5 DEF OfFile
<1>7. OfFile(dec)
  BY <1>1, <1>3, <1>4, <1>5 DEF OfFile
<1> QED BY <1>2, <1>6, <1>7, Written DEF Kept

\* recfix --auto completes one record after the other and changes no other.
LEMMA AutoRecordsFacts ==
  ASSUME NEW rset, Parts(rset), IsSeq(rset.props), AreRecords(rset.recs)
  PROVE  LET N == Len(rset.recs)
             F == AutoRecords(rset)
         IN \A n \in 0..N :
              /\ Parts(F[n]) /\ F[n].desc = rset.desc
              /\ F[n].reg = rset.reg /\ F[n].props = rset.props
              /\ AreRecords(F[n].recs) /\ DOMAIN F[n].recs = DOMAIN rset.recs
              /\ \A k \in (n + 1)..N : F[n].recs[k] = rset.recs[k]
              /\ \A k \in 1..n :
                   /\ F[n].recs[k] = F[k].recs[k]
                   /\ F[k].recs[k] =
                        rec_rset_add_auto_fields(F[k - 1], rset.recs[k])
<1> DEFINE N == Len(rset.recs)
           F == AutoRecords(rset)
           Good(n) == /\ Parts(F[n]) /\ F[n].desc = rset.desc
                      /\ F[n].reg = rset.reg /\ F[n].props = rset.props
                      /\ AreRecords(F[n].recs)
                      /\ DOMAIN F[n].recs = DOMAIN rset.recs
                      /\ \A k \in (n + 1)..N : F[n].recs[k] = rset.recs[k]
                      /\ \A k \in 1..n :
                           /\ F[n].recs[k] = F[k].recs[k]
                           /\ F[k].recs[k] =
                                rec_rset_add_auto_fields(F[k - 1], rset.recs[k])
           S == {n \in 0..N : Good(n)}
<1>1. /\ N \in Nat /\ F[0] = rset /\ DOMAIN rset.recs = 1..N
      /\ \A n \in 1..N : F[n] = AutoRecord(F[n - 1], n)
  BY SeqFacts, AutoRecordsDef DEF AreRecords
<1> HIDE DEF N, F
<1>2. 0 \in S
  BY <1>1
<1>3. ASSUME NEW n \in 0..(N - 1), n \in S PROVE n + 1 \in S
  <2>1. /\ n + 1 \in 1..N /\ (n + 1) - 1 = n /\ n + 1 \in 0..N
        /\ n + 1 \in (n + 1)..N
    BY <1>1
  <2>2. Good(n)
    BY <1>3
  <2> DEFINE new == rec_rset_add_auto_fields(F[n], F[n].recs[n + 1])
  <2>3. F[n + 1] = [F[n] EXCEPT !.recs[n + 1] = new]
    BY <1>1, <2>1 DEF AutoRecord
  <2>5. F[n].recs[n + 1] = rset.recs[n + 1] /\ n + 1 \in DOMAIN F[n].recs
    BY <1>1, <2>1, <2>2
  <2>6. IsRecord(new)
    BY <2>2, <2>5, FilledRecord DEF AreRecords
  <2> HIDE DEF new
  <2>7. F[n + 1].recs = [F[n].recs EXCEPT ![n + 1] = new]
    BY <2>2, <2>3 DEF Parts
  <2>8. AreRecords(F[n + 1].recs)
    <3>1. AreRecords(F[n].recs)
      BY <2>2
    <3> QED BY <2>6, <2>7, <3>1, ReplaceRecord
  <2>9. /\ Parts(F[n + 1]) /\ F[n + 1].desc = rset.desc
        /\ F[n + 1].reg = rset.reg /\ F[n + 1].props = rset.props
    BY <2>2, <2>3 DEF Parts
  <2>10. DOMAIN F[n + 1].recs = DOMAIN rset.recs
    BY <2>2, <2>7
  <2>11. F[n + 1].recs[n + 1] = rec_rset_add_auto_fields(F[n], rset.recs[n + 1])
    BY <2>5, <2>7 DEF new
  <2>12. \A k \in DOMAIN rset.recs :
           k # n + 1 => F[n + 1].recs[k] = F[n].recs[k]
    BY <2>2, <2>7
  <2>13. \A k \in (n + 2)..N : F[n + 1].recs[k] = rset.recs[k]
    <3> TAKE k \in (n + 2)..N
    <3>1. k \in (n + 1)..N /\ k # n + 1 /\ k \in DOMAIN rset.recs
      BY <1>1
    <3>2. F[n].recs[k] = rset.recs[k]
      BY <2>2, <3>1
    <3> QED BY <2>12, <3>1, <3>2
  <2>14. ASSUME NEW k \in 1..(n + 1)
         PROVE  /\ F[n + 1].recs[k] = F[k].recs[k]
                /\ F[k].recs[k] =
                     rec_rset_add_auto_fields(F[k - 1], rset.recs[k])
    <3>1. CASE k = n + 1
      BY <2>1, <2>11, <3>1
    <3>2. CASE k # n + 1
      <4>1. k \in 1..n /\ k \in DOMAIN rset.recs
        BY <1>1, <3>2
      <4> QED BY <2>2, <2>12, <3>2, <4>1
    <3> QED BY <3>1, <3>2
  <2>15. (n + 1) + 1 = n + 2
    BY <1>1
  <2>16. Good(n + 1)
    BY <2>8, <2>9, <2>10, <2>13, <2>14, <2>15
  <2> HIDE DEF Good
  <2> QED BY <2>1, <2>16
<1>4. 0..N \subseteq S
  <2> HIDE DEF S
  <2> QED BY <1>1, <1>2, <1>3, UpToInduction
<1>5. \A n \in 0..N : Good(n)
  <2> HIDE DEF Good
  <2> QED BY <1>4
<1> QED BY <1>5 DEF N, F

LEMMA AutoWrites ==
  ASSUME IsFile(file), NEW mode, RecfixAuto(Load(file), mode)
  PROVE  /\ Kept /\ cmd'.c = "auto"
         /\ \A i \in DOMAIN file : file'[i].recs = AutoRset(Load(file)[i]).recs
<1> DEFINE db == Load(file)
           new == [i \in DOMAIN db |-> AutoRset(db[i])]
<1>1. /\ OfFile(db) /\ DOMAIN db = DOMAIN file
      /\ \A i \in DOMAIN file : IsSeq(db[i].props)
  BY Loaded, LoadedOfFile DEF OfFile
<1>2. Save(new, mode, "auto", {})
  BY DEF RecfixAuto
<1> HIDE DEF db
<1>3. /\ new = [i \in DOMAIN file |-> new[i]]
      /\ \A i \in DOMAIN file : new[i] = AutoRset(db[i])
  BY <1>1
<1> HIDE DEF new
<1>4. ASSUME NEW i \in DOMAIN file
      PROVE  /\ Parts(new[i]) /\ new[i].desc = file[i].desc
             /\ AreRecords(new[i].recs)
  <2> DEFINE N == Len(db[i].recs)
             r == AutoRecords(db[i])[N]
  <2>1. /\ Parts(db[i]) /\ AreRecords(db[i].recs) /\ IsSeq(db[i].props)
        /\ db[i].desc = file[i].desc
    BY <1>1 DEF OfFile
  <2>2. N \in 0..N
    BY <2>1, SeqFacts DEF AreRecords
  <2>3. Parts(r) /\ r.desc = db[i].desc /\ AreRecords(r.recs)
    BY <2>1, <2>2, AutoRecordsFacts
  <2>4. new[i] = r
    BY <1>3 DEF AutoRset
  <2> HIDE DEF r
  <2> QED BY <2>1, <2>3, <2>4
<1>5. OfFile(new)
  BY <1>3, <1>4 DEF OfFile
<1>6. /\ Kept /\ cmd'.c = "auto"
      /\ \A i \in DOMAIN file : file'[i].recs = new[i].recs
  BY <1>2, <1>5, Written DEF Kept
<1> QED BY <1>3, <1>6 DEF db

---------------------------------------------------------------------------
(* The invariant *)

\* A step is one command on the database that it loads.
LEMMA NextIs ==
  ASSUME Next
  PROVE  \/ \E mode \in {"force", "local", "external"}, i \in DOMAIN file :
              \/ \E k \in 0..Len(file[i].recs), rec \in NewRecords,
                    auto \in BOOLEAN, p \in Passwords \cup {<< >>} :
                   Recins(Load(file), i, k, rec, auto, p, mode)
              \/ \E k \in DOMAIN file[i].recs, f \in Fields, v \in Values :
                   Recset(Load(file), i, k, f, v, mode)
              \/ \E k \in DOMAIN file[i].recs : Recdel(Load(file), i, k, mode)
         \/ \E mode \in {"local", "external"} : RecfixAuto(Load(file), mode)
         \/ \E p \in Passwords :
              \/ RecfixEncrypt(Load(file), p)
              \/ \E after \in {0, 1} : RecfixDecrypt(Load(file), p, after)
  BY ZenonT(60) DEF Next

\* Every command leaves a file with the descriptors it had.
LEMMA NextKeeps ==
  ASSUME IsFile(file), Next
  PROVE  Kept
<1> DEFINE db == Load(file)
<1>1. ASSUME NEW mode, NEW i \in DOMAIN file, NEW k \in 0..Len(file[i].recs),
             NEW rec \in NewRecords, NEW auto, NEW p,
             Recins(db, i, k, rec, auto, p, mode)
      PROVE  Kept
  <2>1. IsRecord(rec)
    BY FilesAssumption DEF FilesAssumption
  <2> QED BY <1>1, <2>1, RecinsWrites
<1>2. ASSUME NEW mode, NEW i \in DOMAIN file, NEW k \in DOMAIN file[i].recs,
             NEW f, NEW v, Recset(db, i, k, f, v, mode)
      PROVE  Kept
  BY <1>2, RecsetWrites
<1>3. ASSUME NEW mode, NEW i \in DOMAIN file, NEW k \in DOMAIN file[i].recs,
             Recdel(db, i, k, mode)
      PROVE  Kept
  BY <1>3, RecdelWrites
<1>4. ASSUME NEW mode, RecfixAuto(db, mode) PROVE Kept
  BY <1>4, AutoWrites
<1>5. ASSUME NEW p, NEW after,
             RecfixEncrypt(db, p) \/ RecfixDecrypt(db, p, after)
      PROVE  Kept
  BY <1>5, CryptWrites
<1> QED BY <1>1, <1>2, <1>3, <1>4, <1>5, NextIs, Zenon

\* The file is well formed after every command: sequences of record sets,
\* of directives and of records with pairs of names and values.
THEOREM FileAlwaysTyped == Spec => []FileTyped
<1>1. Init => FileTyped
  BY FilesAssumption DEF Init, FilesAssumption, FileTyped
<1>2. FileTyped /\ [Next]_vars => FileTyped'
  <2> SUFFICES ASSUME FileTyped, [Next]_vars PROVE FileTyped'
    OBVIOUS
  <2>1. CASE Next
    BY <2>1, NextKeeps DEF FileTyped, Kept
  <2>2. CASE UNCHANGED vars
    BY <2>2 DEF vars, FileTyped
  <2> QED BY <2>1, <2>2
<1> QED BY <1>1, <1>2, PTL DEF Spec

\* No command changes a descriptor: what rec_int_merge_remote adds from an
\* external file is gone when the file is written.
THEOREM DescriptorsKept == Spec => DescriptorKept
<1>1. FileTyped /\ [Next]_vars =>
        [\A i \in DOMAIN file : file'[i].desc = file[i].desc]_vars
  BY NextKeeps DEF FileTyped, Kept
<1> QED BY <1>1, FileAlwaysTyped, PTL DEF Spec, DescriptorKept

---------------------------------------------------------------------------
(* The numbers of auto fields *)

LEMMA ToIntFits ==
  ASSUME NEW n \in (-IntMax - 1)..IntMax
  PROVE  ToInt(n) = n
<1>1. IntMax \in Nat
  BY IntAssumption DEF IntAssumption
<1> DEFINE a == n + IntMax + 1
           b == 2 * IntMax + 2
<1>2. a \in Nat /\ b \in Nat \ {0} /\ a < b
  BY <1>1
<1> HIDE DEF a, b
<1>3. a % b = a
  BY <1>2
<1> QED BY <1>1, <1>3 DEF ToInt, a, b

\* A number in a field called f, which is not so large that adding 1 to it
\* overflows.
IsNumber(x, f) == x[1] = f /\ x[2][1] = "int"
Fits(rec, f) ==
  \A j \in DOMAIN rec :
    IsNumber(rec[j], f) => rec[j][2][2] \in (-IntMax - 1)..(IntMax - 1)

LEMMA PassAbove ==
  ASSUME NEW next \in Int, NEW x, NEW f,
         IsNumber(x, f) => x[2][2] \in (-IntMax - 1)..(IntMax - 1)
  PROVE  /\ Pass(next, x, f) \in Int /\ Pass(next, x, f) >= next
         /\ IsNumber(x, f) => Pass(next, x, f) > x[2][2]
<1>1. CASE ~IsNumber(x, f)
  BY <1>1 DEF Pass, IsNumber
<1>2. CASE IsNumber(x, f)
  <2> DEFINE v == x[2][2]
  <2>1. /\ v \in Int /\ IntMax \in Nat /\ v \in (-IntMax - 1)..IntMax
        /\ v + 1 \in (-IntMax - 1)..IntMax
    BY <1>2, IntAssumption DEF IntAssumption
  <2>2. Pass(next, x, f) = IF next <= ToInt(v) THEN ToInt(ToInt(v) + 1)
                           ELSE next
    BY <1>2 DEF Pass, IsNumber
  <2> HIDE DEF v
  <2>3. ToInt(v) = v
    BY <2>1, ToIntFits
  <2>4. ToInt(v + 1) = v + 1
    BY <2>1, ToIntFits
  <2>5. Pass(next, x, f) = IF next <= v THEN v + 1 ELSE next
    BY <2>2, <2>3, <2>4
  <2>6. /\ Pass(next, x, f) \in Int /\ Pass(next, x, f) >= next
        /\ Pass(next, x, f) > v
    BY <2>1, <2>5
  <2> QED BY <2>6 DEF v
<1> QED BY <1>1, <1>2

LEMMA PassRecordAbove ==
  ASSUME NEW start \in Int, NEW rec, NEW f, IsSeq(rec), Fits(rec, f)
  PROVE  /\ PassRecord(start, rec, f) \in Int
         /\ PassRecord(start, rec, f) >= start
         /\ \A j \in DOMAIN rec : IsNumber(rec[j], f) =>
              PassRecord(start, rec, f) > rec[j][2][2]
<1> DEFINE N == Len(rec)
           F == PassFields(start, rec, f)
           Good(n) == /\ F[n] \in Int /\ F[n] >= start
                      /\ \A j \in 1..n : IsNumber(rec[j], f) =>
                           F[n] > rec[j][2][2]
           S == {n \in 0..N : Good(n)}
<1>1. /\ N \in Nat /\ F[0] = start /\ DOMAIN rec = 1..N
      /\ \A n \in 1..N : F[n] = Pass(F[n - 1], rec[n], f)
  BY SeqFacts, PassFieldsDef
<1>2. F[N] = PassRecord(start, rec, f)
  BY DEF PassRecord
<1> HIDE DEF N, F
<1>0. IntMax \in Nat
  BY IntAssumption DEF IntAssumption
<1>3. 0 \in S
  BY <1>1
<1>4. ASSUME NEW n \in 0..(N - 1), n \in S PROVE n + 1 \in S
  <2>1. n + 1 \in 1..N /\ (n + 1) - 1 = n /\ n + 1 \in 0..N
    BY <1>1
  <2>2. F[n + 1] = Pass(F[n], rec[n + 1], f)
    BY <1>1, <2>1
  <2>3. IsNumber(rec[n + 1], f) =>
          rec[n + 1][2][2] \in (-IntMax - 1)..(IntMax - 1)
    BY <1>1, <2>1 DEF Fits
  <2>4. /\ F[n + 1] \in Int /\ F[n + 1] >= F[n] /\ F[n] \in Int
        /\ IsNumber(rec[n + 1], f) => F[n + 1] > rec[n + 1][2][2]
    BY <1>4, <2>2, <2>3, PassAbove
  <2>5. ASSUME NEW j \in 1..(n + 1), IsNumber(rec[j], f)
        PROVE  F[n + 1] > rec[j][2][2]
    <3>1. CASE j = n + 1
      BY <2>4, <2>5, <3>1
    <3>2. CASE j # n + 1
      <4>1. j \in 1..n /\ j \in DOMAIN rec
        BY <1>1, <3>2
      <4>2. F[n] > rec[j][2][2] /\ rec[j][2][2] \in Int
        BY <1>0, <1>4, <2>5, <4>1 DEF Fits
      <4> QED BY <2>4, <4>2
    <3> QED BY <3>1, <3>2
  <2>6. Good(n + 1)
    BY <1>4, <2>4, <2>5
  <2> HIDE DEF Good
  <2> QED BY <2>1, <2>6
<1>5. N \in S
  <2> HIDE DEF S
  <2>1. 0..N \subseteq S
    BY <1>1, <1>3, <1>4, UpToInduction
  <2> QED BY <1>1, <2>1
<1> QED BY <1>1, <1>2, <1>5

\* The number that rec_rset_add_auto_field_int finds is above all others.
LEMMA AutoNumberAbove ==
  ASSUME NEW recs, NEW f, AreRecords(recs),
         \A k \in DOMAIN recs : Fits(recs[k], f)
  PROVE  \E n \in Int :
           /\ rec_rset_add_auto_field_int(recs, f) = <<"int", n>>
           /\ \A k \in DOMAIN recs : \A j \in DOMAIN recs[k] :
                IsNumber(recs[k][j], f) => n > recs[k][j][2][2]
<1> DEFINE N == Len(recs)
           F == PassRecords(recs, f)
           Good(n) == /\ F[n] \in Int
                      /\ \A k \in 1..n : \A j \in DOMAIN recs[k] :
                           IsNumber(recs[k][j], f) => F[n] > recs[k][j][2][2]
           S == {n \in 0..N : Good(n)}
<1>1. /\ N \in Nat /\ F[0] = 0 /\ DOMAIN recs = 1..N
      /\ \A n \in 1..N : F[n] = PassRecord(F[n - 1], recs[n], f)
  BY SeqFacts, PassRecordsDef DEF AreRecords
<1>2. rec_rset_add_auto_field_int(recs, f) = <<"int", F[N]>>
  BY DEF rec_rset_add_auto_field_int
<1> HIDE DEF N, F
<1>0. IntMax \in Nat
  BY IntAssumption DEF IntAssumption
<1>3. 0 \in S
  BY <1>1
<1>4. ASSUME NEW n \in 0..(N - 1), n \in S PROVE n + 1 \in S
  <2>1. n + 1 \in 1..N /\ (n + 1) - 1 = n /\ n + 1 \in 0..N
    BY <1>1
  <2>2. F[n + 1] = PassRecord(F[n], recs[n + 1], f)
    BY <1>1, <2>1
  <2>3. F[n] \in Int /\ IsSeq(recs[n + 1]) /\ Fits(recs[n + 1], f)
    BY <1>1, <1>4, <2>1 DEF AreRecords, IsRecord
  <2>4. /\ F[n + 1] \in Int /\ F[n + 1] >= F[n]
        /\ \A j \in DOMAIN recs[n + 1] : IsNumber(recs[n + 1][j], f) =>
             F[n + 1] > recs[n + 1][j][2][2]
    BY <2>2, <2>3, PassRecordAbove
  <2>5. ASSUME NEW k \in 1..(n + 1), NEW j \in DOMAIN recs[k],
               IsNumber(recs[k][j], f)
        PROVE  F[n + 1] > recs[k][j][2][2]
    <3>1. CASE k = n + 1
      BY <2>4, <2>5, <3>1
    <3>2. CASE k # n + 1
      <4>1. k \in 1..n /\ k \in DOMAIN recs
        BY <1>1, <3>2
      <4>2. F[n] > recs[k][j][2][2] /\ recs[k][j][2][2] \in Int
        BY <1>0, <1>4, <2>5, <4>1 DEF Fits
      <4> QED BY <2>3, <2>4, <4>2
    <3> QED BY <3>1, <3>2
  <2>6. Good(n + 1)
    BY <2>4, <2>5
  <2> HIDE DEF Good
  <2> QED BY <2>1, <2>6
<1>5. N \in S
  <2> HIDE DEF S
  <2>1. 0..N \subseteq S
    BY <1>1, <1>3, <1>4, UpToInduction
  <2> QED BY <1>1, <2>1
<1> QED BY <1>1, <1>2, <1>5

\* The first field called f.
LEMMA FirstIs ==
  ASSUME NEW rec, NEW f, NEW m \in At(rec, f), At(rec, f) \subseteq Nat,
         \A j \in At(rec, f) : m <= j
  PROVE  First(rec, f) = rec[m][2]
<1> DEFINE S == At(rec, f)
           c == Min(S)
<1>1. c \in S /\ \A j \in S : c <= j
  BY DEF Min
<1> HIDE DEF c
<1>2. c \in Nat /\ m \in Nat /\ c <= m /\ m <= c
  BY <1>1
<1>3. c = m
  BY <1>2
<1> QED BY <1>3 DEF First, c

LEMMA FirstAt ==
  ASSUME NEW rec, NEW f, IsSeq(rec), At(rec, f) # {}
  PROVE  \E m \in At(rec, f) : /\ \A j \in At(rec, f) : m <= j
                               /\ First(rec, f) = rec[m][2]
<1>1. At(rec, f) \in SUBSET Nat
  BY SeqFacts DEF At
<1>2. PICK m \in At(rec, f) : \A j \in At(rec, f) : m <= j
  BY <1>1, NatMin
<1> QED BY <1>1, <1>2, FirstIs

\* Fields of other names in front of a record do not change its first f.
LEMMA FirstBehind ==
  ASSUME NEW a, NEW rec, NEW f, IsSeq(a), IsSeq(rec), At(a, f) = {},
         At(rec, f) # {}
  PROVE  At(a \o rec, f) # {} /\ First(a \o rec, f) = First(rec, f)
<1> DEFINE r == a \o rec
<1>1. /\ IsSeq(r) /\ Len(r) = Len(a) + Len(rec)
      /\ \A i \in 1..Len(a) : r[i] = a[i]
      /\ \A i \in 1..Len(rec) : r[Len(a) + i] = rec[i]
  BY SeqConcat
<1> HIDE DEF r
<1>2. /\ Len(a) \in Nat /\ Len(rec) \in Nat /\ DOMAIN a = 1..Len(a)
      /\ DOMAIN rec = 1..Len(rec) /\ DOMAIN r = 1..(Len(a) + Len(rec))
  BY <1>1, SeqFacts
<1>3. PICK m \in At(rec, f) : /\ \A j \in At(rec, f) : m <= j
                              /\ First(rec, f) = rec[m][2]
  BY FirstAt
<1>4. m \in 1..Len(rec) /\ rec[m][1] = f
  BY <1>2, <1>3 DEF At
<1>5. Len(a) + m \in At(r, f)
  <2>1. Len(a) + m \in DOMAIN r /\ r[Len(a) + m] = rec[m]
    BY <1>1, <1>2, <1>4
  <2> QED BY <1>4, <2>1 DEF At
<1>6. ASSUME NEW j \in At(r, f) PROVE Len(a) + m <= j
  <2>1. j \in 1..(Len(a) + Len(rec)) /\ r[j][1] = f
    BY <1>2 DEF At
  <2>2. CASE j <= Len(a)
    <3>1. j \in DOMAIN a /\ a[j][1] = f
      BY <1>1, <1>2, <2>1, <2>2
    <3> QED BY <3>1 DEF At
  <2>3. CASE j > Len(a)
    <3>1. j - Len(a) \in 1..Len(rec) /\ Len(a) + (j - Len(a)) = j
      BY <1>2, <2>1, <2>3
    <3>2. r[j] = rec[j - Len(a)]
      BY <1>1, <3>1
    <3>3. j - Len(a) \in At(rec, f)
      BY <1>2, <2>1, <3>1, <3>2 DEF At
    <3>4. m <= j - Len(a)
      BY <1>3, <3>3
    <3> QED BY <1>2, <1>4, <2>1, <3>4
  <2> QED BY <1>2, <2>1, <2>2, <2>3
<1>7. At(r, f) \subseteq Nat
  BY <1>2 DEF At
<1>8. First(r, f) = r[Len(a) + m][2]
  BY <1>5, <1>6, <1>7, FirstIs
<1>9. r[Len(a) + m] = rec[m]
  BY <1>1, <1>4
<1> QED BY <1>3, <1>5, <1>8, <1>9 DEF r

\* All the fields of the record that are called f have the value x.
AllAre(rec, f, x) == \A j \in At(rec, f) : rec[j][2] = x

LEMMA AllAreConcat ==
  ASSUME NEW a, NEW rec, NEW f, NEW x, IsSeq(a), IsSeq(rec),
         AllAre(a, f, x), AllAre(rec, f, x)
  PROVE  AllAre(a \o rec, f, x)
<1> DEFINE r == a \o rec
<1>1. /\ IsSeq(r) /\ Len(r) = Len(a) + Len(rec)
      /\ \A i \in 1..Len(a) : r[i] = a[i]
      /\ \A i \in 1..Len(rec) : r[Len(a) + i] = rec[i]
  BY SeqConcat
<1> HIDE DEF r
<1>2. /\ Len(a) \in Nat /\ Len(rec) \in Nat /\ DOMAIN a = 1..Len(a)
      /\ DOMAIN rec = 1..Len(rec) /\ DOMAIN r = 1..(Len(a) + Len(rec))
  BY <1>1, SeqFacts
<1>3. ASSUME NEW j \in At(r, f) PROVE r[j][2] = x
  <2>1. j \in 1..(Len(a) + Len(rec)) /\ r[j][1] = f
    BY <1>2 DEF At
  <2>2. CASE j <= Len(a)
    <3>1. j \in At(a, f) /\ r[j] = a[j]
      BY <1>1, <1>2, <2>1, <2>2 DEF At
    <3> QED BY <3>1 DEF AllAre
  <2>3. CASE j > Len(a)
    <3>1. j - Len(a) \in 1..Len(rec) /\ Len(a) + (j - Len(a)) = j
      BY <1>2, <2>1, <2>3
    <3>2. r[j] = rec[j - Len(a)]
      BY <1>1, <3>1
    <3>3. j - Len(a) \in At(rec, f)
      BY <1>2, <2>1, <3>1, <3>2 DEF At
    <3> QED BY <3>2, <3>3 DEF AllAre
  <2> QED BY <1>2, <2>1, <2>2, <2>3
<1>4. AllAre(r, f, x)
  BY <1>3 DEF AllAre
<1> QED BY <1>4 DEF r

\* An auto field of this type is a number.
Counts(rset, f) ==
  rec_rset_get_field_type(rset, f).kind \in {"int", "range"}

\* What a field p.f with properties p adds, seen from a field f that counts.
LEMMA AutoFieldAt ==
  ASSUME NEW rset, NEW f, NEW g,
         Counts(rset, f)
  PROVE  /\ IsSeq(AutoField(rset, g))
         /\ AllAre(AutoField(rset, g), f,
                   rec_rset_add_auto_field_int(rset.recs, f))
         /\ g # f => At(AutoField(rset, g), f) = {}
<1> DEFINE a == AutoField(rset, g)
           x == rec_rset_add_auto_field_int(rset.recs, f)
<1>1. IsSeq(a) /\ (a = << >> \/ \E v : a = <<<<g, v>>>>)
  BY AutoFieldRecord DEF IsRecord
<1>2. g = f => a = <<<<f, x>>>>
  BY DEF AutoField, Counts
<1> HIDE DEF a, x
<1>3. CASE g = f
  <2>1. IsSeq(a) /\ Len(a) = 1 /\ a[1] = <<f, x>>
    BY <1>2, <1>3, SeqOfOne
  <2>2. DOMAIN a = 1..1
    BY <2>1, SeqFacts
  <2> QED BY <1>1, <1>3, <2>1, <2>2 DEF AllAre, At, a, x
<1>4. CASE g # f
  <2>1. At(a, f) = {}
    <3>1. CASE a = << >>
      BY <3>1 DEF At
    <3>2. CASE \E v : a = <<<<g, v>>>>
      <4>1. PICK v : a = <<<<g, v>>>>
        BY <3>2
      <4>2. IsSeq(a) /\ Len(a) = 1 /\ a[1] = <<g, v>>
        BY <4>1, SeqOfOne
      <4>3. DOMAIN a = 1..1
        BY <4>2, SeqFacts
      <4> QED BY <1>4, <4>2, <4>3 DEF At
    <3> QED BY <1>1, <3>1, <3>2
  <2> QED BY <1>1, <2>1 DEF AllAre, a, x
<1> QED BY <1>3, <1>4

\* A record that is completed gets the next number, if it had none, and
\* keeps its first one otherwise.
LEMMA FilledAt ==
  ASSUME NEW rset, NEW rec, NEW f, IsSeq(rset.props), IsRecord(rec),
         Counts(rset, f)
  PROVE  LET r == rec_rset_add_auto_fields(rset, rec)
             y == rec_rset_add_auto_field_int(rset.recs, f)
         IN /\ At(rec, f) = {} => AllAre(r, f, y)
            /\ At(rec, f) # {} => At(r, f) # {} /\ First(r, f) = First(rec, f)
<1> DEFINE N == Len(rset.props)
           F == Filled(rset, rec)
           x == rec_rset_add_auto_field_int(rset.recs, f)
           Good(n) == /\ IsRecord(F[n])
                      /\ At(rec, f) = {} => AllAre(F[n], f, x)
                      /\ At(rec, f) # {} =>
                           At(F[n], f) # {} /\ First(F[n], f) = First(rec, f)
           S == {n \in 0..N : Good(n)}
<1>1. /\ N \in Nat /\ F[0] = rec
      /\ \A n \in 1..N : F[n] = FillField(rset, F[n - 1], rset.props[n])
  BY SeqFacts, FilledDef
<1>2. F[N] = rec_rset_add_auto_fields(rset, rec)
  BY DEF rec_rset_add_auto_fields
<1> HIDE DEF N, F
<1>6. ASSUME NEW g
      PROVE  /\ AllAre(AutoField(rset, g), f, x)
             /\ g # f => At(AutoField(rset, g), f) = {}
  BY AutoFieldAt DEF x
<1> HIDE DEF x
<1>3. 0 \in S
  BY <1>1 DEF AllAre
<1>4. ASSUME NEW n \in 0..(N - 1), n \in S PROVE n + 1 \in S
  <2>1. n + 1 \in 1..N /\ (n + 1) - 1 = n /\ n + 1 \in 0..N
    BY <1>1
  <2> DEFINE p == rset.props[n + 1]
             a == AutoField(rset, p.f)
  <2>2. F[n + 1] = FillField(rset, F[n], p)
    BY <1>1, <2>1
  <2>3. /\ IsRecord(a) /\ AllAre(a, f, x)
        /\ p.f # f => At(a, f) = {}
    BY <1>6, AutoFieldRecord
  <2> HIDE DEF p
  <2>4. Good(n)
    BY <1>4
  <2>5. CASE p.auto /\ At(F[n], p.f) = {}
    <3>1. F[n + 1] = a \o F[n]
      BY <2>2, <2>5 DEF FillField
    <3> HIDE DEF a
    <3>2. IsRecord(F[n + 1])
      BY <2>3, <2>4, <3>1, ConcatRecord
    <3>3. At(rec, f) = {} => AllAre(F[n + 1], f, x)
      BY <2>3, <2>4, <3>1, AllAreConcat DEF IsRecord
    <3>4. ASSUME At(rec, f) # {}
          PROVE  At(F[n + 1], f) # {} /\ First(F[n + 1], f) = First(rec, f)
      <4>1. At(F[n], f) # {} /\ First(F[n], f) = First(rec, f)
        BY <2>4, <3>4
      <4>2. At(a, f) = {}
        BY <2>3, <2>5, <4>1
      <4> QED BY <2>3, <2>4, <3>1, <4>1, <4>2, FirstBehind DEF IsRecord
    <3>5. Good(n + 1)
      BY <3>2, <3>3, <3>4
    <3> HIDE DEF Good
    <3> QED BY <2>1, <3>5
  <2>6. CASE ~(p.auto /\ At(F[n], p.f) = {})
    <3>1. F[n + 1] = F[n]
      BY <2>2, <2>6 DEF FillField
    <3>2. Good(n + 1)
      BY <2>4, <3>1
    <3> HIDE DEF Good
    <3> QED BY <2>1, <3>2
  <2> QED BY <2>5, <2>6
<1>5. N \in S
  <2> HIDE DEF S
  <2>1. 0..N \subseteq S
    BY <1>1, <1>3, <1>4, UpToInduction
  <2> QED BY <1>1, <2>1
<1> QED BY <1>2, <1>5 DEF x

\* Encryption leaves alone what is not confidential.
LEMMA EncryptedAt ==
  ASSUME NEW rset, NEW rec, NEW f, NEW x, NEW password, IsRecord(rec),
         f \notin rec_rset_confidential(rset), AllAre(rec, f, x)
  PROVE  AllAre(rec_encrypt_record(rset, rec, password), f, x)
<1> DEFINE e == rec_encrypt_record(rset, rec, password)
<1>1. /\ DOMAIN e = DOMAIN rec
      /\ \A j \in DOMAIN rec :
           e[j] = IF rec[j][1] \in rec_rset_confidential(rset)
                  THEN <<rec[j][1], rec_encrypt_field(rec[j][2], password)>>
                  ELSE rec[j]
  BY DEF rec_encrypt_record, Confidential
<1> HIDE DEF e
<1>2. ASSUME NEW j \in At(e, f) PROVE e[j][2] = x
  <2>1. j \in DOMAIN rec /\ e[j][1] = f
    BY <1>1 DEF At
  <2>2. rec[j][1] \notin rec_rset_confidential(rset)
    BY <1>1, <2>1
  <2>3. e[j] = rec[j]
    BY <1>1, <2>1, <2>2
  <2>4. j \in At(rec, f)
    BY <2>1, <2>3 DEF At
  <2> QED BY <2>3, <2>4 DEF AllAre
<1> QED BY <1>2 DEF AllAre, e

\* No two records have the same first number.
Differ(recs, f) ==
  \A a, b \in DOMAIN recs :
    /\ At(recs[a], f) # {} /\ At(recs[b], f) # {}
    /\ First(recs[a], f) = First(recs[b], f)
    => a = b

LEMMA DifferIs ==
  ASSUME NEW i, NEW f
  PROVE  NumbersDiffer(i, f) <=> Differ(file[i].recs, f)
<1> DEFINE recs == file[i].recs
           S == {k \in DOMAIN recs : At(recs[k], f) # {}}
           F == [k \in S |-> First(recs[k], f)]
<1>1. NumbersDiffer(i, f) <=> \A a, b \in S : F[a] = F[b] => a = b
  BY DEF NumbersDiffer, Numbered, IsInjective
<1>2. \A a \in S : F[a] = First(recs[a], f)
  OBVIOUS
<1> HIDE DEF F
<1> QED BY <1>1, <1>2 DEF Differ

LEMMA FitsIs ==
  ASSUME NEW i, NEW f, NumbersFit(i, f)
  PROVE  \A k \in DOMAIN file[i].recs : Fits(file[i].recs[k], f)
  BY DEF NumbersFit, Fits, At, IsNumber

\* No field f of the records has the value x.
Unused(recs, f, x) ==
  \A k \in DOMAIN recs : \A j \in At(recs[k], f) : recs[k][j][2] # x

LEMMA NumberUnused ==
  ASSUME NEW recs, NEW f, AreRecords(recs),
         \A k \in DOMAIN recs : Fits(recs[k], f)
  PROVE  Unused(recs, f, rec_rset_add_auto_field_int(recs, f))
<1>1. PICK n \in Int :
        /\ rec_rset_add_auto_field_int(recs, f) = <<"int", n>>
        /\ \A k \in DOMAIN recs : \A j \in DOMAIN recs[k] :
             IsNumber(recs[k][j], f) => n > recs[k][j][2][2]
  BY AutoNumberAbove
<1>2. ASSUME NEW k \in DOMAIN recs, NEW j \in At(recs[k], f),
             recs[k][j][2] = <<"int", n>>
      PROVE  FALSE
  <2>1. j \in DOMAIN recs[k] /\ IsNumber(recs[k][j], f)
    BY <1>2 DEF At, IsNumber
  <2>2. n > recs[k][j][2][2]
    BY <1>1, <2>1
  <2>3. recs[k][j][2][2] = n
    BY <1>2
  <2> QED BY <2>2, <2>3
<1> QED BY <1>1, <1>2 DEF Unused

\* One record is changed or added, and its numbers are unused ones.
LEMMA DifferStep ==
  ASSUME NEW recs, NEW new, NEW f, NEW q, NEW x, AreRecords(recs),
         AreRecords(new), Differ(recs, f), Unused(recs, f, x),
         \A k \in DOMAIN new \ {q} : k \in DOMAIN recs /\ new[k] = recs[k],
         q \in DOMAIN new => AllAre(new[q], f, x)
  PROVE  Differ(new, f)
<1>1. ASSUME NEW k \in DOMAIN recs, At(recs[k], f) # {}
      PROVE  First(recs[k], f) # x
  <2>1. IsSeq(recs[k])
    BY DEF AreRecords, IsRecord
  <2>2. PICK m \in At(recs[k], f) : First(recs[k], f) = recs[k][m][2]
    BY <1>1, <2>1, FirstAt
  <2> QED BY <2>2 DEF Unused
<1>2. ASSUME q \in DOMAIN new, At(new[q], f) # {}
      PROVE  First(new[q], f) = x
  <2>1. IsSeq(new[q])
    BY <1>2 DEF AreRecords, IsRecord
  <2>2. PICK m \in At(new[q], f) : First(new[q], f) = new[q][m][2]
    BY <1>2, <2>1, FirstAt
  <2> QED BY <1>2, <2>2 DEF AllAre
<1>3. SUFFICES ASSUME NEW a \in DOMAIN new, NEW b \in DOMAIN new,
                      At(new[a], f) # {}, At(new[b], f) # {},
                      First(new[a], f) = First(new[b], f)
               PROVE  a = b
  BY Zenon DEF Differ
<1>4. CASE a # q /\ b # q
  BY <1>3, <1>4 DEF Differ
<1>5. CASE a = q /\ b # q
  BY <1>1, <1>2, <1>3, <1>5
<1>6. CASE a # q /\ b = q
  BY <1>1, <1>2, <1>3, <1>6
<1> QED BY <1>4, <1>5, <1>6

LEMMA RecinsFresh ==
  ASSUME IsFile(file), NEW i \in DOMAIN file, NEW k \in 0..Len(file[i].recs),
         NEW rec, IsRecord(rec), NEW auto, NEW password, NEW mode,
         Recins(Load(file), i, k, rec, auto, password, mode),
         NEW f \in Counters(i), f \notin Names(rec),
         Differ(file[i].recs, f), \A j \in DOMAIN file[i].recs :
                                    Fits(file[i].recs[j], f)
  PROVE  Differ(file'[i].recs, f)
<1> DEFINE db == Load(file)
           rset == db[i]
           record == InsRecord(rset, rec, auto, password)
           recs == file[i].recs
           new == file'[i].recs
           x == rec_rset_add_auto_field_int(recs, f)
<1>1. /\ IsRecord(record) /\ IsFile(file') /\ DOMAIN file' = DOMAIN file
      /\ new = IF k = 0 THEN Append(recs, record)
               ELSE [recs EXCEPT ![k] = record]
  BY RecinsWrites DEF Kept
<1>2. rset.recs = recs /\ IsSeq(rset.props)
  BY Loaded DEF Same
<1>3. Counts(rset, f) /\ f \notin rec_rset_confidential(rset)
  BY DEF Counters, Counts
<1>4. AreRecords(recs) /\ AreRecords(new)
  BY <1>1 DEF IsFile, AreRecords
<1> HIDE DEF db, rset
<1>5. AllAre(record, f, x)
  <2> DEFINE filled == IF auto THEN rec_rset_add_auto_fields(rset, rec)
                       ELSE rec
  <2>1. At(rec, f) = {}
    BY DEF At, Names
  <2>2. AllAre(rec_rset_add_auto_fields(rset, rec), f, x)
    BY <1>2, <1>3, <2>1, FilledAt
  <2>3. AllAre(rec, f, x)
    BY <2>1 DEF AllAre
  <2>4. IsRecord(filled)
    BY <1>2, FilledRecord
  <2>5. AllAre(filled, f, x)
    BY <2>2, <2>3
  <2>6. record = IF password = << >> THEN filled
                 ELSE rec_encrypt_record(rset, filled, password)
    BY DEF InsRecord
  <2> HIDE DEF filled, record, x
  <2>7. AllAre(rec_encrypt_record(rset, filled, password), f, x)
    BY <1>3, <2>4, <2>5, EncryptedAt
  <2> QED BY <2>5, <2>6, <2>7
<1>6. Unused(recs, f, x)
  BY <1>4, NumberUnused
<1> HIDE DEF record, recs, new, x
<1>7. CASE k = 0
  <2>1. new = Append(recs, record)
    BY <1>1, <1>7
  <2>2. /\ DOMAIN new = 1..(Len(recs) + 1)
        /\ \A j \in DOMAIN recs : new[j] = recs[j]
        /\ new[Len(recs) + 1] = record
    BY <1>1, <1>4, <2>1, AppendRecord
  <2>3. Len(recs) \in Nat /\ DOMAIN recs = 1..Len(recs)
    BY <1>4, SeqFacts DEF AreRecords
  <2>4. \A j \in DOMAIN new \ {Len(recs) + 1} : j \in DOMAIN recs
    BY <2>2, <2>3
  <2>5. Differ(recs, f)
    BY DEF recs
  <2>6. Differ(new, f)
    BY <1>4, <1>5, <1>6, <2>2, <2>4, <2>5, DifferStep
  <2> QED BY <2>6 DEF new
<1>8. CASE k # 0
  <2>1. new = [recs EXCEPT ![k] = record]
    BY <1>1, <1>8
  <2>2. /\ DOMAIN new = DOMAIN recs
        /\ \A j \in DOMAIN recs \ {k} : new[j] = recs[j]
        /\ k \in DOMAIN recs => new[k] = record
    BY <2>1
  <2>3. Differ(recs, f)
    BY DEF recs
  <2>4. Differ(new, f)
    BY <1>4, <1>5, <1>6, <2>2, <2>3, DifferStep
  <2> QED BY <2>4 DEF new
<1> QED BY <1>7, <1>8

\* The type of a field depends on the properties and the registry.
LEMMA CountsSame ==
  ASSUME NEW rset, NEW old, NEW f, Counts(old, f),
         rset.props = old.props, rset.reg = old.reg
  PROVE  Counts(rset, f)
  BY DEF Counts, rec_rset_get_field_type

LEMMA AutoFreshRset ==
  ASSUME NEW rset, NEW f, Parts(rset), IsSeq(rset.props),
         AreRecords(rset.recs), Counts(rset, f), Differ(rset.recs, f),
         \A k \in DOMAIN rset.recs : Fits(rset.recs[k], f),
         \A k \in DOMAIN rset.recs : Fits(AutoRset(rset).recs[k], f)
  PROVE  Differ(AutoRset(rset).recs, f)
<1> DEFINE N == Len(rset.recs)
           F == AutoRecords(rset)
           S == {n \in 0..N : Differ(F[n].recs, f)}
<1>1. N \in Nat /\ DOMAIN rset.recs = 1..N
  BY SeqFacts DEF AreRecords
<1>2. F[0] = rset
  BY AutoRecordsDef DEF AreRecords
<1>3. ASSUME NEW n \in 0..N
      PROVE  /\ F[n].reg = rset.reg /\ F[n].props = rset.props
             /\ AreRecords(F[n].recs) /\ DOMAIN F[n].recs = DOMAIN rset.recs
             /\ \A k \in (n + 1)..N : F[n].recs[k] = rset.recs[k]
             /\ \A k \in 1..n :
                  /\ F[n].recs[k] = F[k].recs[k]
                  /\ F[k].recs[k] =
                       rec_rset_add_auto_fields(F[k - 1], rset.recs[k])
  BY AutoRecordsFacts
<1>4. AutoRset(rset) = F[N]
  BY DEF AutoRset
<1> HIDE DEF N, F
<1>5. 0 \in S
  BY <1>1, <1>2
<1>6. ASSUME NEW n \in 0..(N - 1), n \in S PROVE n + 1 \in S
  <2> DEFINE recs == F[n].recs
             new == F[n + 1].recs
             old == rset.recs[n + 1]
             x == rec_rset_add_auto_field_int(recs, f)
  <2>1. /\ n \in 0..N /\ n + 1 \in 0..N /\ n + 1 \in 1..N /\ N \in 0..N
        /\ n + 1 \in 1..(n + 1) /\ n + 1 \in (n + 1)..N /\ (n + 1) - 1 = n
    BY <1>1
  <2>2. AreRecords(recs) /\ AreRecords(new) /\ Differ(recs, f)
    BY <1>3, <1>6, <2>1
  <2>3. DOMAIN recs = 1..N /\ DOMAIN new = 1..N
    BY <1>1, <1>3, <2>1
  <2>4. ASSUME NEW k \in 1..N, k # n + 1 PROVE new[k] = recs[k]
    <3>1. CASE k <= n
      <4>1. k \in 1..n /\ k \in 1..(n + 1)
        BY <1>1, <3>1
      <4> QED BY <1>3, <2>1, <4>1
    <3>2. CASE k > n
      <4>1. k \in (n + 1)..N /\ k \in ((n + 1) + 1)..N
        BY <1>1, <2>4, <3>2
      <4> QED BY <1>3, <2>1, <4>1
    <3> QED BY <1>1, <2>1, <3>1, <3>2
  <2>5. new[n + 1] = rec_rset_add_auto_fields(F[n], old)
    BY <1>3, <2>1
  <2>6. recs[n + 1] = old /\ IsRecord(old)
    BY <1>1, <1>3, <2>1 DEF AreRecords
  <2>7. IsSeq(F[n].props) /\ Counts(F[n], f)
    BY <1>3, <2>1, CountsSame
  <2>8. /\ At(old, f) = {} => AllAre(new[n + 1], f, x)
        /\ At(old, f) # {} => /\ At(new[n + 1], f) # {}
                              /\ First(new[n + 1], f) = First(old, f)
    <3> DEFINE r == F[n]
    <3>1. /\ IsSeq(r.props) /\ Counts(r, f)
          /\ x = rec_rset_add_auto_field_int(r.recs, f)
      BY <2>7
    <3>2. new[n + 1] = rec_rset_add_auto_fields(r, old) /\ IsRecord(old)
      BY <2>5, <2>6
    <3> HIDE DEF r, new, old, x
    <3> QED BY <3>1, <3>2, FilledAt
  <2>9. ASSUME NEW k \in DOMAIN recs PROVE Fits(recs[k], f)
    <3>1. CASE k <= n
      <4>1. k \in 1..n /\ k \in 1..N
        BY <1>1, <2>3, <3>1
      <4>2. recs[k] = F[k].recs[k] /\ F[N].recs[k] = F[k].recs[k]
        BY <1>3, <2>1, <4>1
      <4> QED BY <1>1, <1>4, <4>1, <4>2
    <3>2. CASE k > n
      <4>1. k \in (n + 1)..N /\ k \in 1..N
        BY <1>1, <2>3, <3>2
      <4>2. recs[k] = rset.recs[k]
        BY <1>3, <2>1, <4>1
      <4> QED BY <1>1, <4>1, <4>2
    <3> QED BY <1>1, <2>1, <2>3, <3>1, <3>2
  <2>10. Unused(recs, f, x)
    BY <2>2, <2>9, NumberUnused
  <2> HIDE DEF recs, new, old, x
  <2>11. CASE At(old, f) = {}
    <3>1. AllAre(new[n + 1], f, x)
      BY <2>8, <2>11
    <3>2. \A k \in DOMAIN new \ {n + 1} : k \in DOMAIN recs /\ new[k] = recs[k]
      BY <2>3, <2>4
    <3>3. Differ(new, f)
      BY <2>2, <2>10, <3>1, <3>2, DifferStep
    <3> QED BY <2>1, <3>3 DEF new
  <2>12. CASE At(old, f) # {}
    <3>1. \A k \in 1..N : At(new[k], f) # {} =>
            At(recs[k], f) # {} /\ First(new[k], f) = First(recs[k], f)
      BY <2>4, <2>6, <2>8, <2>12
    <3>2. Differ(new, f)
      BY <2>2, <2>3, <3>1, Zenon DEF Differ
    <3> QED BY <2>1, <3>2 DEF new
  <2> QED BY <2>11, <2>12
<1>7. N \in S
  <2> HIDE DEF S
  <2>1. 0..N \subseteq S
    BY <1>1, <1>5, <1>6, UpToInduction
  <2> QED BY <1>1, <2>1
<1> QED BY <1>4, <1>7

\* The step of AutoFresh.
LEMMA NextFresh ==
  ASSUME IsFile(file), Next, NEW i \in DOMAIN file, NEW f \in Counters(i),
         cmd'.c \in {"recins", "auto"}, f \notin cmd'.given,
         NumbersDiffer(i, f), NumbersFit(i, f),
         cmd'.c = "auto" => NumbersFit(i, f)'
  PROVE  NumbersDiffer(i, f)'
<1> DEFINE db == Load(file)
<1>0. /\ Differ(file[i].recs, f)
      /\ \A k \in DOMAIN file[i].recs : Fits(file[i].recs[k], f)
  BY DifferIs, FitsIs
<1>1. ASSUME NEW mode, NEW j \in DOMAIN file, NEW k \in 0..Len(file[j].recs),
             NEW rec \in NewRecords, NEW auto, NEW p,
             Recins(db, j, k, rec, auto, p, mode)
      PROVE  Differ(file'[i].recs, f)
  <2>1. IsRecord(rec)
    BY FilesAssumption DEF FilesAssumption
  <2>2. /\ cmd'.given = Names(rec)
        /\ \A o \in DOMAIN file \ {j} : file'[o].recs = file[o].recs
    BY <1>1, <2>1, RecinsWrites
  <2>3. CASE j = i
    <3> HIDE DEF db
    <3>1. k \in 0..Len(file[i].recs) /\ Recins(db, i, k, rec, auto, p, mode)
      BY <1>1, <2>3
    <3>2. f \notin Names(rec)
      BY <2>2
    <3> QED BY <1>0, <2>1, <3>1, <3>2, RecinsFresh DEF db
  <2>4. CASE j # i
    BY <1>0, <2>2, <2>4
  <2> QED BY <2>3, <2>4
<1>2. ASSUME NEW mode, NEW j \in DOMAIN file, NEW k \in DOMAIN file[j].recs,
             NEW g, NEW v, Recset(db, j, k, g, v, mode)
      PROVE  FALSE
  <2>1. cmd'.c = "recset"
    BY <1>2, RecsetWrites
  <2> QED BY <2>1
<1>3. ASSUME NEW mode, NEW j \in DOMAIN file, NEW k \in DOMAIN file[j].recs,
             Recdel(db, j, k, mode)
      PROVE  FALSE
  <2>1. cmd'.c = "recdel"
    BY <1>3, RecdelWrites
  <2> QED BY <2>1
<1>4. ASSUME NEW mode, RecfixAuto(db, mode) PROVE Differ(file'[i].recs, f)
  <2> DEFINE rset == db[i]
  <2>1. cmd'.c = "auto" /\ file'[i].recs = AutoRset(rset).recs
    BY <1>4, AutoWrites
  <2>2. /\ Parts(rset) /\ IsSeq(rset.props) /\ rset.recs = file[i].recs
    BY Loaded DEF Same
  <2>3. Counts(rset, f)
    BY DEF Counters, Counts
  <2>4. AreRecords(rset.recs)
    BY <2>2 DEF IsFile, AreRecords
  <2> HIDE DEF rset
  <2>5. \A k \in DOMAIN file'[i].recs : Fits(file'[i].recs[k], f)
    BY <2>1 DEF NumbersFit, Fits, At, IsNumber
  <2>6. DOMAIN file'[i].recs = DOMAIN rset.recs
    <3> DEFINE N == Len(rset.recs)
    <3>1. N \in 0..N
      BY <2>4, SeqFacts DEF AreRecords
    <3>2. DOMAIN AutoRecords(rset)[N].recs = DOMAIN rset.recs
      BY <2>2, <2>4, <3>1, AutoRecordsFacts
    <3> QED BY <2>1, <3>2 DEF AutoRset
  <2>7. \A k \in DOMAIN rset.recs : Fits(AutoRset(rset).recs[k], f)
    BY <2>1, <2>5, <2>6
  <2>8. Differ(AutoRset(rset).recs, f)
    BY <1>0, <2>2, <2>3, <2>4, <2>7, AutoFreshRset
  <2> QED BY <2>1, <2>8
<1>5. ASSUME NEW p, NEW after,
             RecfixEncrypt(db, p) \/ RecfixDecrypt(db, p, after)
      PROVE  FALSE
  <2>1. cmd'.c \in {"encrypt", "decrypt"}
    BY <1>5, CryptWrites
  <2> QED BY <2>1
<1>7. Differ(file'[i].recs, f)
  BY <1>1, <1>2, <1>3, <1>4, <1>5, NextIs, Zenon
<1>8. NumbersDiffer(i, f)' <=> Differ(file'[i].recs, f)
  <2> DEFINE recs == file'[i].recs
             S == {k \in DOMAIN recs : At(recs[k], f) # {}}
             F == [k \in S |-> First(recs[k], f)]
  <2>1. NumbersDiffer(i, f)' <=> \A a, b \in S : F[a] = F[b] => a = b
    BY DEF NumbersDiffer, Numbered, IsInjective
  <2>2. \A a \in S : F[a] = First(recs[a], f)
    OBVIOUS
  <2> HIDE DEF F
  <2> QED BY <2>1, <2>2 DEF Differ
<1> QED BY <1>7, <1>8

\* The numbers of an auto field stay different: whatever recins and recfix
\* --auto add (rec_rset_add_auto_field_int) is above every number there is.
THEOREM NumbersStayDifferent == Spec => AutoFresh
<1>1. FileTyped /\ [Next]_vars =>
        [\A i \in DOMAIN file : \A f \in Counters(i) :
           /\ cmd'.c \in {"recins", "auto"}
           /\ f \notin cmd'.given
           /\ NumbersDiffer(i, f)
           /\ NumbersFit(i, f)
           /\ cmd'.c = "auto" => NumbersFit(i, f)'
           => NumbersDiffer(i, f)']_vars
  BY NextFresh, Zenon DEF FileTyped
<1> QED BY <1>1, FileAlwaysTyped, PTL DEF Spec, AutoFresh

---------------------------------------------------------------------------
(* Encryption *)

\* What a C string and a checksum are: no character of a plain value is 0,
\* and a checksum has CRC_SIZE bytes.
BytesAreStrings ==
  \A v : v[1] \notin {"enc", "fake"} =>
    /\ Bytes(v) \in Seq(Nat \ {0})
    /\ Crc(v) \in Seq(Nat)
    /\ Len(Crc(v)) = CRC_SIZE

\* The padding fills the last block.
LEMMA PaddedSize ==
  ASSUME NEW s \in Nat, NEW b \in Nat \ {0}, s % b # 0
  PROVE  /\ b - (s % b) \in Nat \ {0}
         /\ (s + (b - (s % b))) % b = 0
<1> DEFINE q == s \div b
           r == s % b
<1>1. r \in 0..(b - 1) /\ q \in Nat
  OBVIOUS
<1>2. s = b * q + r
  OBVIOUS
<1> HIDE DEF q, r
<1>3. q + 1 \in Nat /\ s + (b - r) = b * (q + 1)
  BY <1>1, <1>2
<1>4. (b * (q + 1)) % b = 0
  BY <1>3
<1> QED BY <1>1, <1>3, <1>4 DEF r

\* A part of a sequence that has the elements of t is t.
LEMMA PartIs ==
  ASSUME NEW S, NEW t \in Seq(S), NEW buffer, NEW m \in Nat,
         \A i \in 1..Len(t) : buffer[m + i] = t[i]
  PROVE  SubSeq(buffer, m + 1, m + Len(t)) = t
<1> DEFINE n == m + Len(t)
           part == SubSeq(buffer, m + 1, n)
<1>1. Len(t) \in Nat /\ n \in Int /\ m + 1 \in Int
  OBVIOUS
<1>2. ASSUME NEW i \in (m + 1)..n PROVE buffer[i] \in S
  <2>1. i - m \in 1..Len(t) /\ m + (i - m) = i
    BY <1>1
  <2>2. buffer[i] = t[i - m]
    BY <2>1
  <2> QED BY <2>1, <2>2
<1>3. /\ part \in Seq(S)
      /\ Len(part) = IF m + 1 <= n THEN n - (m + 1) + 1 ELSE 0
      /\ \A i \in 1..(n - (m + 1) + 1) : part[i] = buffer[(m + 1) + i - 1]
  BY <1>1, <1>2, SubSeqProperties
<1> HIDE DEF part
<1>4. Len(part) = Len(t)
  BY <1>1, <1>3
<1>5. ASSUME NEW i \in 1..Len(t) PROVE part[i] = t[i]
  <2>1. i \in 1..(n - (m + 1) + 1) /\ (m + 1) + i - 1 = m + i
    BY <1>1
  <2> QED BY <1>3, <2>1
<1>6. part = t
  BY <1>3, <1>4, <1>5
<1> QED BY <1>6 DEF part

\* The buffer of a plain value: its characters, the checksum, and zeros up to
\* an entire number of blocks.
LEMMA BufferIs ==
  ASSUME NEW v, BytesAreStrings, v[1] \notin {"enc", "fake"}
  PROVE  LET text == Bytes(v)
             crc == Crc(v)
             size == Len(text) + CRC_SIZE
             buffer == Buffer(v)
         IN /\ Len(text) \in Nat /\ Len(crc) = CRC_SIZE
            /\ buffer \in Seq(Nat)
            /\ Len(buffer) >= size /\ Len(buffer) % BLKSIZE = 0
            /\ Len(buffer) = size <=> size % BLKSIZE = 0
            /\ \A i \in 1..Len(text) : buffer[i] = text[i]
            /\ \A i \in 1..CRC_SIZE : buffer[Len(text) + i] = crc[i]
            /\ \A i \in (size + 1)..Len(buffer) : buffer[i] = 0
<1> DEFINE text == Bytes(v)
           crc == Crc(v)
           size == Len(text) + CRC_SIZE
           padding == IF size % BLKSIZE # 0 THEN BLKSIZE - (size % BLKSIZE) ELSE 0
           zeros == Zeros(padding)
           buffer == Buffer(v)
<1>1. text \in Seq(Nat \ {0}) /\ crc \in Seq(Nat) /\ Len(crc) = CRC_SIZE
  BY DEF BytesAreStrings
<1>2. /\ Len(text) \in Nat /\ CRC_SIZE \in Nat \ {0}
      /\ BLKSIZE \in Nat \ {0} /\ size \in Nat
  BY <1>1, CryptAssumption DEF CryptAssumption
<1>3. buffer = text \o crc \o zeros
  BY DEF Buffer
<1>4. /\ padding \in Nat /\ (size + padding) % BLKSIZE = 0
      /\ padding = 0 <=> size % BLKSIZE = 0
  <2> HIDE DEF size
  <2>1. CASE size % BLKSIZE # 0
    BY <1>2, <2>1, PaddedSize
  <2>2. CASE size % BLKSIZE = 0
    BY <1>2, <2>2
  <2> QED BY <2>1, <2>2
<1> HIDE DEF padding
<1>5. zeros \in Seq(Nat) /\ Len(zeros) = padding
      /\ \A i \in 1..padding : zeros[i] = 0
  <2>1. zeros \in [1..padding -> Nat]
    BY <1>4 DEF Zeros
  <2>2. zeros \in Seq(Nat) /\ Len(zeros) = padding
    BY <1>4, <2>1
  <2> QED BY <2>2 DEF Zeros
<1> HIDE DEF text, crc, zeros, buffer
<1>6. text \in Seq(Nat)
  BY <1>1
<1> DEFINE front == text \o crc
<1>8. /\ front \in Seq(Nat) /\ Len(front) = size
      /\ \A i \in 1..size : front[i] = IF i <= Len(text) THEN text[i]
                                       ELSE crc[i - Len(text)]
  BY <1>1, <1>6, ConcatProperties
<1>9. /\ buffer \in Seq(Nat) /\ Len(buffer) = size + padding
      /\ \A i \in 1..(size + padding) :
           buffer[i] = IF i <= size THEN front[i] ELSE zeros[i - size]
  <2>1. buffer = front \o zeros
    BY <1>3
  <2> HIDE DEF front
  <2>2. Len(front) = size /\ Len(zeros) = padding
    BY <1>5, <1>8
  <2>3. front \in Seq(Nat) /\ zeros \in Seq(Nat)
    BY <1>5, <1>8
  <2>4. /\ buffer \in Seq(Nat) /\ Len(buffer) = Len(front) + Len(zeros)
        /\ \A i \in 1..Len(front) + Len(zeros) :
             buffer[i] = IF i <= Len(front) THEN front[i]
                         ELSE zeros[i - Len(front)]
    BY <2>1, <2>3, ConcatProperties
  <2> HIDE DEF size
  <2> QED BY <2>2, <2>4
<1> HIDE DEF front
<1>10. ASSUME NEW i \in 1..Len(text) PROVE buffer[i] = text[i]
  <2>1. /\ i \in 1..size /\ i \in 1..(size + padding)
        /\ i <= Len(text) /\ i <= size
    BY <1>2, <1>4
  <2> QED BY <1>8, <1>9, <2>1
<1>11. ASSUME NEW i \in 1..CRC_SIZE PROVE buffer[Len(text) + i] = crc[i]
  <2>1. /\ Len(text) + i \in 1..size /\ Len(text) + i \in 1..(size + padding)
        /\ ~(Len(text) + i <= Len(text)) /\ (Len(text) + i) - Len(text) = i
        /\ Len(text) + i <= size
    BY <1>2, <1>4
  <2> QED BY <1>8, <1>9, <2>1
<1>12. ASSUME NEW i \in (size + 1)..Len(buffer) PROVE buffer[i] = 0
  <2>1. /\ i \in 1..(size + padding) /\ ~(i <= size)
        /\ i - size \in 1..padding
    <3>1. Len(buffer) = size + padding /\ padding \in Nat
      BY <1>4, <1>9
    <3>2. i \in (size + 1)..(size + padding)
      BY <3>1
    <3> HIDE DEF size
    <3> QED BY <1>2, <3>1, <3>2
  <2> QED BY <1>5, <1>9, <2>1
<1>13. /\ Len(buffer) >= size /\ Len(buffer) % BLKSIZE = 0
       /\ Len(buffer) = size <=> size % BLKSIZE = 0
  <2> HIDE DEF size
  <2> QED BY <1>2, <1>4, <1>9
<1> QED BY <1>1, <1>2, <1>9, <1>10, <1>11, <1>12, <1>13 DEF text, crc, buffer

\* strlen of a buffer: up to its first zero, or else the byte behind decides.
LEMMA StrlenIs ==
  ASSUME NEW buffer \in Seq(Nat), NEW after
  PROVE  LET n == Strlen(buffer, after)
         IN \/ /\ n \in 0..(Len(buffer) - 1) /\ buffer[n + 1] = 0
               /\ \A i \in 1..n : buffer[i] # 0
            \/ /\ \A i \in 1..Len(buffer) : buffer[i] # 0
               /\ n = IF after = 0 THEN Len(buffer) ELSE Len(buffer) + 1
<1> DEFINE nul == {i \in DOMAIN buffer : buffer[i] = 0}
           n == Strlen(buffer, after)
<1>1. Len(buffer) \in Nat /\ DOMAIN buffer = 1..Len(buffer)
  OBVIOUS
<1>2. nul \in SUBSET Nat
  BY <1>1
<1>3. CASE nul = {}
  <2>1. \A i \in 1..Len(buffer) : buffer[i] # 0
    BY <1>1, <1>3
  <2>2. n = IF after = 0 THEN Len(buffer) ELSE Len(buffer) + 1
    BY <1>3 DEF Strlen
  <2> QED BY <2>1, <2>2
<1>4. CASE nul # {}
  <2>1. PICK m \in nul : \A x \in nul : m <= x
    BY <1>2, <1>4, NatMin
  <2>2. m \in 1..Len(buffer) /\ buffer[m] = 0
    BY <1>1, <2>1
  <2>3. n = CHOOSE i \in 0..(Len(buffer) - 1) :
              i + 1 \in nul /\ \A j \in nul : i < j
    BY <1>4 DEF Strlen
  <2> HIDE DEF n, nul
  <2>4. m - 1 \in 0..(Len(buffer) - 1) /\ (m - 1) + 1 \in nul
        /\ \A j \in nul : m - 1 < j
    BY <1>2, <2>1, <2>2
  <2>5. n \in 0..(Len(buffer) - 1) /\ n + 1 \in nul /\ \A j \in nul : n < j
    BY <2>3, <2>4
  <2>6. buffer[n + 1] = 0 /\ \A i \in 1..n : buffer[i] # 0
    BY <1>1, <2>5 DEF nul
  <2> QED BY <2>5, <2>6 DEF n
<1> QED BY <1>3, <1>4

\* With the right password the values that come back are those that are not
\* empty, whose checksum has no zero, and behind whose buffer there is a NUL.
LEMMA BufferDecrypts ==
  ASSUME NEW v, BytesAreStrings, v[1] \notin {"enc", "fake"},
         NEW password, NEW after
  PROVE  rec_decrypt(rec_encrypt(v, password), password, after)
           <=> Recoverable(v, after)
<1> DEFINE text == Bytes(v)
           crc == Crc(v)
           size == Len(text) + CRC_SIZE
           buffer == Buffer(v)
           n == Strlen(buffer, after)
           decrypts == /\ n > CRC_SIZE
                       /\ n <= Len(buffer)
                       /\ SubSeq(buffer, 1, n - CRC_SIZE) = text
                       /\ SubSeq(buffer, n - CRC_SIZE + 1, n) = crc
           e == rec_encrypt(v, password)
<1>1. /\ Len(text) \in Nat /\ Len(crc) = CRC_SIZE
      /\ buffer \in Seq(Nat)
      /\ Len(buffer) >= size /\ Len(buffer) % BLKSIZE = 0
      /\ Len(buffer) = size <=> size % BLKSIZE = 0
      /\ \A i \in 1..Len(text) : buffer[i] = text[i]
      /\ \A i \in 1..CRC_SIZE : buffer[Len(text) + i] = crc[i]
      /\ \A i \in (size + 1)..Len(buffer) : buffer[i] = 0
  BY BufferIs
<1>2. /\ text \in Seq(Nat \ {0}) /\ crc \in Seq(Nat) /\ text \in Seq(Nat)
      /\ \A i \in 1..Len(text) : text[i] # 0
  BY DEF BytesAreStrings
<1>3. CRC_SIZE \in Nat \ {0} /\ size \in Nat /\ Len(buffer) \in Nat
  <2>1. CRC_SIZE \in Nat \ {0} /\ Len(text) \in Nat /\ buffer \in Seq(Nat)
    BY <1>1, CryptAssumption DEF CryptAssumption
  <2> HIDE DEF text, buffer
  <2> QED BY <2>1
<1>4. rec_decrypt(e, password, after) <=> decrypts
  <2>1. /\ e[2].key = Key(password) /\ e[2].buffer = buffer /\ e[2].of = v
    BY DEF rec_encrypt
  <2> HIDE DEF e, size
  <2> QED BY <1>1, <2>1 DEF rec_decrypt
<1>5. Recoverable(v, after) <=> /\ text # << >> /\ 0 \notin Range(crc)
                                /\ size % BLKSIZE # 0 \/ after = 0
  BY DEF Recoverable
<1>6. \/ /\ n \in 0..(Len(buffer) - 1) /\ buffer[n + 1] = 0
         /\ \A i \in 1..n : buffer[i] # 0
      \/ /\ \A i \in 1..Len(buffer) : buffer[i] # 0
         /\ n = IF after = 0 THEN Len(buffer) ELSE Len(buffer) + 1
  BY <1>1, StrlenIs
<1>7. text # << >> <=> size > CRC_SIZE
  <2>1. text # << >> <=> Len(text) # 0
    BY <1>2, EmptySeq
  <2> QED BY <1>1, <1>3, <2>1
<1> HIDE DEF n, text, crc, buffer, e
<1>8. CASE 0 \in Range(crc)
  <2>1. PICK i \in 1..CRC_SIZE : crc[i] = 0
    BY <1>1, <1>2, <1>8 DEF Range
  <2>2. Len(text) + i \in 1..Len(buffer) /\ buffer[Len(text) + i] = 0
        /\ Len(text) + i <= size
    BY <1>1, <1>3, <2>1
  <2>3. n \in Nat /\ n < size /\ n <= Len(buffer)
    BY <1>3, <1>6, <2>2
  <2>4. ASSUME n > CRC_SIZE PROVE SubSeq(buffer, 1, n - CRC_SIZE) # text
    <3>1. n - CRC_SIZE \in 1..Len(buffer)
      BY <1>3, <2>3, <2>4
    <3>2. Len(SubSeq(buffer, 1, n - CRC_SIZE)) = n - CRC_SIZE
      BY <1>1, <3>1
    <3> QED BY <1>1, <1>3, <2>3, <3>2
  <2> QED BY <1>4, <1>5, <1>8, <2>4 DEF e
<1>9. CASE 0 \notin Range(crc)
  <2>0. crc \in Seq(Nat) /\ Len(crc) = CRC_SIZE
    BY <1>1, <1>2
  <2>1. \A i \in 1..CRC_SIZE : crc[i] # 0
    BY <1>9, <2>0 DEF Range
  <2>2. ASSUME NEW i \in 1..size PROVE buffer[i] # 0
    <3>1. CASE i <= Len(text)
      <4>1. i \in 1..Len(text)
        BY <1>1, <3>1
      <4>2. buffer[i] = text[i]
        BY <1>1, <4>1
      <4>3. text[i] # 0
        BY <1>2, <4>1
      <4> QED BY <4>2, <4>3
    <3>2. CASE i > Len(text)
      <4>1. i - Len(text) \in 1..CRC_SIZE /\ Len(text) + (i - Len(text)) = i
        BY <1>1, <1>3, <3>2
      <4> QED BY <1>1, <2>1, <4>1
    <3> QED BY <1>1, <3>1, <3>2
  <2>3. CASE size % BLKSIZE = 0 /\ after # 0
    <3>1. Len(buffer) = size
      BY <1>1, <2>3
    <3>2. n = Len(buffer) + 1
      <4>1. ~(n \in 0..(Len(buffer) - 1) /\ buffer[n + 1] = 0)
        <5> SUFFICES ASSUME n \in 0..(Len(buffer) - 1) PROVE buffer[n + 1] # 0
          OBVIOUS
        <5>1. n + 1 \in 1..size
          BY <1>3, <3>1
        <5> QED BY <2>2, <5>1
      <4> QED BY <1>6, <2>3, <4>1
    <3>3. ~decrypts
      BY <1>3, <3>2
    <3> QED BY <1>4, <1>5, <2>3, <3>3 DEF e
  <2>4. CASE size % BLKSIZE # 0 \/ after = 0
    <3>1. n = size
      <4>1. CASE size % BLKSIZE = 0
        <5>1. Len(buffer) = size /\ after = 0
          BY <1>1, <2>4, <4>1
        <5>2. ~(n \in 0..(Len(buffer) - 1) /\ buffer[n + 1] = 0)
          <6> SUFFICES ASSUME n \in 0..(Len(buffer) - 1) PROVE buffer[n + 1] # 0
            OBVIOUS
          <6>1. n + 1 \in 1..size
            BY <1>3, <5>1
          <6> QED BY <2>2, <6>1
        <5> QED BY <1>6, <5>1, <5>2
      <4>2. CASE size % BLKSIZE # 0
        <5>1. Len(buffer) > size
          BY <1>1, <1>3, <4>2
        <5>2. size + 1 \in 1..Len(buffer) /\ buffer[size + 1] = 0
          BY <1>1, <1>3, <5>1
        <5>3. n \in Nat /\ buffer[n + 1] = 0 /\ \A i \in 1..n : buffer[i] # 0
          BY <1>6, <5>2
        <5>4. ~(n < size)
          <6> SUFFICES ASSUME n < size PROVE FALSE
            OBVIOUS
          <6>1. n + 1 \in 1..size
            BY <1>3, <5>3
          <6> QED BY <2>2, <5>3, <6>1
        <5>5. ~(n > size)
          BY <1>3, <5>2, <5>3
        <5> QED BY <1>3, <5>3, <5>4, <5>5
      <4> QED BY <4>1, <4>2
    <3>2. SubSeq(buffer, 1, size - CRC_SIZE) = text
      <4>1. \A i \in 1..Len(text) : buffer[0 + i] = text[i]
        BY <1>1
      <4>2. SubSeq(buffer, 0 + 1, 0 + Len(text)) = text
        BY <1>2, <4>1, PartIs
      <4>3. 0 + 1 = 1 /\ 0 + Len(text) = size - CRC_SIZE
        BY <1>1, <1>3
      <4> QED BY <4>2, <4>3
    <3>3. SubSeq(buffer, size - CRC_SIZE + 1, size) = crc
      <4>1. \A i \in 1..Len(crc) : buffer[Len(text) + i] = crc[i]
        BY <1>1
      <4>2. Len(text) \in Nat
        BY <1>1
      <4>4. SubSeq(buffer, Len(text) + 1, Len(text) + Len(crc)) = crc
        BY <2>0, <4>1, <4>2, PartIs
      <4>3. Len(text) + 1 = size - CRC_SIZE + 1 /\ Len(text) + Len(crc) = size
        BY <1>1, <1>3
      <4> QED BY <4>4, <4>3
    <3>4. decrypts <=> size > CRC_SIZE
      <4> HIDE DEF size
      <4> QED BY <1>1, <3>1, <3>2, <3>3
    <3> QED BY <1>4, <1>5, <1>7, <1>9, <2>4, <3>4 DEF e
  <2> QED BY <2>3, <2>4
<1> QED BY <1>8, <1>9

\* What an encryption and a decryption with p leave as it was, when p has not
\* encrypted it before.
Restorable(v, after) == rec_field_encrypted_p(v) \/ Recoverable(v, after)
Foreign(v, p) == Encrypted(v) => v[2].key # Key(p)

LEMMA ValueBack ==
  ASSUME BytesAreStrings, NEW v, NEW p, NEW after, Foreign(v, p)
  PROVE  rec_decrypt_field(rec_encrypt_field(v, p), p, after) = v
           <=> Restorable(v, after)
<1>1. CASE v[1] = "fake"
  BY <1>1 DEF rec_encrypt_field, rec_decrypt_field, rec_field_encrypted_p,
              Encrypted, Restorable
<1>2. CASE v[1] = "enc"
  <2>1. ~rec_decrypt(v, p, after)
    BY <1>2 DEF rec_decrypt, Foreign, Encrypted
  <2> QED BY <1>2, <2>1 DEF rec_encrypt_field, rec_decrypt_field,
                            rec_field_encrypted_p, Restorable
<1>3. CASE v[1] \notin {"enc", "fake"}
  <2> DEFINE e == rec_encrypt(v, p)
  <2>1. rec_encrypt_field(v, p) = e /\ (Restorable(v, after) <=> Recoverable(v, after))
    BY <1>3 DEF rec_encrypt_field, rec_field_encrypted_p, Restorable
  <2>2. e[1] = "enc" /\ e[2].of = v
    BY DEF rec_encrypt
  <2>3. rec_decrypt(e, p, after) <=> Recoverable(v, after)
    BY <1>3, BufferDecrypts
  <2> HIDE DEF e
  <2>4. e # v
    BY <1>3, <2>2
  <2> QED BY <2>1, <2>2, <2>3, <2>4 DEF rec_decrypt_field, Encrypted
<1> QED BY <1>1, <1>2, <1>3

\* The secrets of a record.
Secret(rset, rec, j) == rec[j][1] \in rec_rset_confidential(rset)

LEMMA RecordBack ==
  ASSUME BytesAreStrings, NEW rset, NEW new, new.props = rset.props,
         NEW rec, IsRecord(rec), NEW p, NEW after,
         \A j \in DOMAIN rec : Secret(rset, rec, j) => Foreign(rec[j][2], p)
  PROVE  rec_decrypt_record(new, rec_encrypt_record(rset, rec, p), p, after)
           = rec
           <=> \A j \in DOMAIN rec :
                 Secret(rset, rec, j) => Restorable(rec[j][2], after)
<1> DEFINE conf == rec_rset_confidential(rset)
           e == rec_encrypt_record(rset, rec, p)
           d == rec_decrypt_record(new, e, p, after)
<1>1. rec_rset_confidential(new) = conf
  BY DEF rec_rset_confidential
<1>2. /\ DOMAIN e = DOMAIN rec
      /\ \A j \in DOMAIN rec :
           e[j] = IF rec[j][1] \in conf
                  THEN <<rec[j][1], rec_encrypt_field(rec[j][2], p)>>
                  ELSE rec[j]
  BY DEF rec_encrypt_record, Confidential
<1>0. \A j \in DOMAIN rec : Secret(rset, rec, j) <=> rec[j][1] \in conf
  BY DEF Secret
<1> HIDE DEF e, conf
<1>3. d = [j \in DOMAIN e |->
             IF e[j][1] \in conf
             THEN <<e[j][1], rec_decrypt_field(e[j][2], p, after)>> ELSE e[j]]
  BY <1>1 DEF rec_decrypt_record, Confidential
<1> HIDE DEF d
<1>4. ASSUME NEW j \in DOMAIN rec
      PROVE  d[j] = rec[j]
               <=> (Secret(rset, rec, j) => Restorable(rec[j][2], after))
  <2>1. d[j] = IF e[j][1] \in conf
               THEN <<e[j][1], rec_decrypt_field(e[j][2], p, after)>> ELSE e[j]
    BY <1>2, <1>3
  <2>2. rec[j] = <<rec[j][1], rec[j][2]>>
    BY DEF IsRecord
  <2>3. CASE rec[j][1] \in conf
    <3> DEFINE back == rec_decrypt_field(rec_encrypt_field(rec[j][2], p), p, after)
    <3>1. e[j] = <<rec[j][1], rec_encrypt_field(rec[j][2], p)>>
      BY <1>2, <2>3
    <3>2. e[j][1] = rec[j][1] /\ e[j][2] = rec_encrypt_field(rec[j][2], p)
      BY <3>1
    <3>3. back = rec[j][2] <=> Restorable(rec[j][2], after)
      BY <1>0, <2>3, ValueBack
    <3>4. d[j] = <<rec[j][1], back>>
      BY <2>1, <2>3, <3>2
    <3> HIDE DEF back
    <3>5. d[j] = rec[j] <=> back = rec[j][2]
      BY <2>2, <3>4
    <3> QED BY <1>0, <2>3, <3>3, <3>5
  <2>4. CASE rec[j][1] \notin conf
    BY <1>0, <1>2, <2>1, <2>4
  <2> QED BY <2>3, <2>4
<1>5. d = [j \in DOMAIN rec |-> d[j]] /\ rec = [j \in DOMAIN rec |-> rec[j]]
  <2>1. rec = [j \in DOMAIN rec |-> rec[j]]
    BY SeqFacts DEF IsRecord
  <2> QED BY <1>2, <1>3, <2>1
<1>6. d = rec <=> \A j \in DOMAIN rec : d[j] = rec[j]
  BY <1>5
<1>7. d = rec <=> \A j \in DOMAIN rec :
                    Secret(rset, rec, j) => Restorable(rec[j][2], after)
  BY <1>4, <1>6
<1> QED BY <1>7 DEF d, e

\* The values of Secrets, field by field.
LEMMA SecretsAre ==
  ASSUME NEW rset
  PROVE  \A v : v \in Secrets(rset)
           <=> \E k \in DOMAIN rset.recs : \E j \in DOMAIN rset.recs[k] :
                 Secret(rset, rset.recs[k], j) /\ v = rset.recs[k][j][2]
<1> DEFINE recs == rset.recs
           of(rec) == {rec[j][2] : j \in {i \in DOMAIN rec :
                                           rec[i][1] \in rec_rset_confidential(rset)}}
<1>1. Secrets(rset) = UNION {of(rec) : rec \in Range(recs)}
  BY Zenon DEF Secrets
<1>2. Range(recs) = {recs[k] : k \in DOMAIN recs}
  BY Zenon DEF Range
<1>3. ASSUME NEW v, NEW rec
      PROVE  v \in of(rec) <=> \E j \in DOMAIN rec :
                                  Secret(rset, rec, j) /\ v = rec[j][2]
  BY DEF Secret
<1> HIDE DEF of, recs
<1>4. ASSUME NEW v
      PROVE  v \in Secrets(rset) <=> \E k \in DOMAIN recs : v \in of(recs[k])
  BY <1>1, <1>2
<1>5. \A v : v \in Secrets(rset)
        <=> \E k \in DOMAIN recs : \E j \in DOMAIN recs[k] :
              Secret(rset, recs[k], j) /\ v = recs[k][j][2]
  BY <1>3, <1>4
<1> QED BY <1>5 DEF recs

\* The file that is encrypted and decrypted.
EncryptedDb(p) ==
  LET db == Load(file)
  IN [i \in DOMAIN db |->
        [db[i] EXCEPT !.recs = [k \in DOMAIN db[i].recs |->
                                  rec_encrypt_record(db[i], db[i].recs[k], p)]]]
DecryptedDb(db, p, after) ==
  [i \in DOMAIN db |->
     [db[i] EXCEPT !.recs = [k \in DOMAIN db[i].recs |->
                               rec_decrypt_record(db[i], db[i].recs[k], p, after)]]]

\* The same record set, with the records of the file.
LEMMA SecretsOfFile ==
  ASSUME IsFile(file), NEW i \in DOMAIN file
  PROVE  \A v : v \in Secrets(Load(file)[i])
           <=> \E k \in DOMAIN file[i].recs : \E j \in DOMAIN file[i].recs[k] :
                 /\ Secret(Load(file)[i], file[i].recs[k], j)
                 /\ v = file[i].recs[k][j][2]
<1> DEFINE rset == Load(file)[i]
<1>1. rset.recs = file[i].recs
  BY Loaded DEF Same
<1> HIDE DEF rset
<1>2. \A v : v \in Secrets(rset)
           <=> \E k \in DOMAIN rset.recs : \E j \in DOMAIN rset.recs[k] :
                 Secret(rset, rset.recs[k], j) /\ v = rset.recs[k][j][2]
  BY SecretsAre
<1>3. \A v : v \in Secrets(rset)
        <=> \E k \in DOMAIN file[i].recs : \E j \in DOMAIN file[i].recs[k] :
              Secret(rset, file[i].recs[k], j) /\ v = file[i].recs[k][j][2]
  BY <1>1, <1>2
<1> QED BY <1>3 DEF rset

\* The records that come back.
RecordsBack(i, after) ==
  \A k \in DOMAIN file[i].recs : \A j \in DOMAIN file[i].recs[k] :
    Secret(Load(file)[i], file[i].recs[k], j)
      => Restorable(file[i].recs[k][j][2], after)

LEMMA FileBack ==
  ASSUME BytesAreStrings, IsFile(file), NEW p, NEW after,
         \A i \in DOMAIN file : \A k \in DOMAIN file[i].recs :
           \A j \in DOMAIN file[i].recs[k] :
             Secret(Load(file)[i], file[i].recs[k], j)
               => Foreign(file[i].recs[k][j][2], p)
  PROVE  Unload(DecryptedDb(EncryptedDb(p), p, after)) = file
           <=> \A i \in DOMAIN file : RecordsBack(i, after)
<1> DEFINE db == Load(file)
           encs(i) == [k \in DOMAIN db[i].recs |->
                         rec_encrypt_record(db[i], db[i].recs[k], p)]
           one == [i \in DOMAIN db |-> [db[i] EXCEPT !.recs = encs(i)]]
           decs(i) == [k \in DOMAIN one[i].recs |->
                         rec_decrypt_record(one[i], one[i].recs[k], p, after)]
           two == [i \in DOMAIN one |-> [one[i] EXCEPT !.recs = decs(i)]]
           end == Unload(two)
<1>1. Same(db, file)
  BY Loaded
<1>2. end = Unload(DecryptedDb(EncryptedDb(p), p, after))
  <2>1. EncryptedDb(p) = one
    BY Zenon DEF EncryptedDb
  <2> HIDE DEF one
  <2>2. DecryptedDb(one, p, after) = two
    BY Zenon DEF DecryptedDb
  <2> QED BY <2>1, <2>2, Zenon DEF end
<1>a. \A i \in DOMAIN file : \A k \in DOMAIN file[i].recs :
        \A j \in DOMAIN file[i].recs[k] :
          Secret(db[i], file[i].recs[k], j) => Foreign(file[i].recs[k][j][2], p)
  OBVIOUS
<1>b. \A i \in DOMAIN file :
        RecordsBack(i, after) <=>
          \A k \in DOMAIN file[i].recs : \A j \in DOMAIN file[i].recs[k] :
            Secret(db[i], file[i].recs[k], j)
              => Restorable(file[i].recs[k][j][2], after)
  BY DEF RecordsBack
<1> HIDE DEF db
<1>3. DOMAIN db = DOMAIN file /\ DOMAIN one = DOMAIN file
      /\ DOMAIN two = DOMAIN file
  BY <1>1 DEF Same
<1>4. ASSUME NEW i \in DOMAIN file
      PROVE  /\ two[i].desc = file[i].desc
             /\ two[i].recs = file[i].recs <=> RecordsBack(i, after)
  <2> DEFINE recs == file[i].recs
             back(k) == rec_decrypt_record(one[i], one[i].recs[k], p, after)
             restored(k) == \A j \in DOMAIN recs[k] :
                              Secret(db[i], recs[k], j)
                                => Restorable(recs[k][j][2], after)
  <2>1. Parts(db[i]) /\ db[i].desc = file[i].desc /\ db[i].recs = recs
    BY <1>1 DEF Same
  <2>2. one[i] = [db[i] EXCEPT !.recs = encs(i)]
    BY <1>3
  <2>3. two[i] = [one[i] EXCEPT !.recs = decs(i)]
    BY <1>3
  <2> HIDE DEF one, two
  <2>4. /\ Parts(one[i]) /\ one[i].desc = file[i].desc
        /\ one[i].recs = encs(i) /\ one[i].props = db[i].props
    <3> HIDE DEF encs
    <3> QED BY <2>1, <2>2 DEF Parts
  <2>5. two[i].desc = file[i].desc /\ two[i].recs = decs(i)
    <3> HIDE DEF decs
    <3> QED BY <2>3, <2>4 DEF Parts
  <2>6. /\ DOMAIN one[i].recs = DOMAIN recs
        /\ \A k \in DOMAIN recs :
             one[i].recs[k] = rec_encrypt_record(db[i], recs[k], p)
    BY <2>1, <2>4
  <2>7. ASSUME NEW k \in DOMAIN recs PROVE back(k) = recs[k] <=> restored(k)
    <3> DEFINE rec == recs[k]
    <3>1. IsRecord(rec) /\ \A j \in DOMAIN rec :
                             Secret(db[i], rec, j) => Foreign(rec[j][2], p)
      BY <1>a DEF IsFile
    <3>2. one[i].recs[k] = rec_encrypt_record(db[i], rec, p)
      BY <2>6
    <3> HIDE DEF rec
    <3>3. rec_decrypt_record(one[i], rec_encrypt_record(db[i], rec, p), p, after)
            = rec
            <=> \A j \in DOMAIN rec :
                  Secret(db[i], rec, j) => Restorable(rec[j][2], after)
      BY <2>4, <3>1, RecordBack
    <3> QED BY <3>2, <3>3 DEF rec
  <2>8. recs = [k \in DOMAIN recs |-> recs[k]]
    BY SeqFacts DEF IsFile
  <2>9. RecordsBack(i, after) <=> \A k \in DOMAIN recs : restored(k)
    BY <1>b
  <2> HIDE DEF recs, restored
  <2>10. decs(i) = [k \in DOMAIN recs |-> back(k)]
    BY <2>6
  <2> HIDE DEF decs, back
  <2>11. two[i].recs = recs <=> \A k \in DOMAIN recs : back(k) = recs[k]
    <3>1. two[i].recs = [k \in DOMAIN recs |-> back(k)]
      BY <2>5, <2>10
    <3> QED BY <2>8, <3>1
  <2>12. two[i].recs = recs <=> RecordsBack(i, after)
    BY <2>7, <2>9, <2>11
  <2> QED BY <2>5, <2>12 DEF recs
<1>5. end = [i \in DOMAIN file |-> [desc |-> two[i].desc, recs |-> two[i].recs]]
  <2> HIDE DEF two
  <2> QED BY <1>3 DEF Unload
<1> HIDE DEF end, two
<1>6. /\ file = [i \in DOMAIN file |-> file[i]]
      /\ \A i \in DOMAIN file :
           file[i] = [desc |-> file[i].desc, recs |-> file[i].recs]
  BY SeqFacts DEF IsFile
<1>7. ASSUME \A i \in DOMAIN file : RecordsBack(i, after) PROVE end = file
  BY <1>4, <1>5, <1>6, <1>7
<1>8. ASSUME end = file, NEW i \in DOMAIN file PROVE RecordsBack(i, after)
  <2>1. file[i] = [desc |-> two[i].desc, recs |-> two[i].recs]
    BY <1>5, <1>8
  <2>2. file[i].recs = two[i].recs
    BY <2>1
  <2> QED BY <1>4, <2>2
<1> QED BY <1>2, <1>7, <1>8

\* Encryption and then decryption with the same password gives the file back
\* (rec_encrypt_record, rec_decrypt_record) if and only if each confidential
\* value that this encrypts is not empty, has a checksum without a zero byte,
\* and either does not fill its blocks or has a zero byte behind its buffer.
\* This is for any block size, key size, password and records in which
\* nothing confidential is encrypted with that password already; assumed is
\* that values are C strings and that checksums have their size.
THEOREM EncryptionReversible ==
  ASSUME BytesAreStrings
  PROVE  Spec => []EncryptReversible
<1>1. ASSUME FileTyped PROVE EncryptReversible
  <2> DEFINE db == Load(file)
  <2>1. IsFile(file) /\ DOMAIN db = DOMAIN file
    BY <1>1, Loaded DEF FileTyped, Same
  <2>2. ASSUME NEW p \in Passwords, NEW after \in {0, 1},
               \A i \in DOMAIN db : \A v \in Secrets(db[i]) :
                 Encrypted(v) => v[2].key # Key(p)
        PROVE  Unload(DecryptedDb(EncryptedDb(p), p, after)) = file
               <=> \A i \in DOMAIN db : \A v \in Secrets(db[i]) :
                     rec_field_encrypted_p(v) \/ Recoverable(v, after)
    <3> HIDE DEF db
    <3>1. ASSUME NEW i \in DOMAIN file
          PROVE  \A v : v \in Secrets(db[i])
                   <=> \E k \in DOMAIN file[i].recs :
                         \E j \in DOMAIN file[i].recs[k] :
                           /\ Secret(db[i], file[i].recs[k], j)
                           /\ v = file[i].recs[k][j][2]
      BY <2>1, SecretsOfFile DEF db
    <3>2. ASSUME NEW i \in DOMAIN file, NEW k \in DOMAIN file[i].recs,
                 NEW j \in DOMAIN file[i].recs[k],
                 Secret(Load(file)[i], file[i].recs[k], j)
          PROVE  Foreign(file[i].recs[k][j][2], p)
      <4>1. file[i].recs[k][j][2] \in Secrets(db[i])
        BY <3>1, <3>2, Zenon DEF db
      <4> QED BY <2>1, <2>2, <4>1 DEF Foreign
    <3>3. Unload(DecryptedDb(EncryptedDb(p), p, after)) = file
            <=> \A i \in DOMAIN file : RecordsBack(i, after)
      BY <2>1, <3>2, FileBack
    <3>4. ASSUME NEW i \in DOMAIN file
          PROVE  RecordsBack(i, after)
                   <=> \A v \in Secrets(db[i]) : Restorable(v, after)
      <4>1. RecordsBack(i, after)
              <=> \A k \in DOMAIN file[i].recs : \A j \in DOMAIN file[i].recs[k] :
                    Secret(db[i], file[i].recs[k], j)
                      => Restorable(file[i].recs[k][j][2], after)
        BY Zenon DEF RecordsBack, db
      <4>2. \A v : v \in Secrets(db[i])
              <=> \E k \in DOMAIN file[i].recs : \E j \in DOMAIN file[i].recs[k] :
                    /\ Secret(db[i], file[i].recs[k], j)
                    /\ v = file[i].recs[k][j][2]
        BY <3>1
      <4> QED BY <4>1, <4>2
    <3> QED BY <2>1, <3>3, <3>4 DEF Restorable
  <2> QED BY <2>2, Zenon DEF EncryptReversible, Records, EncryptedDb, DecryptedDb
<1> QED BY <1>1, FileAlwaysTyped, PTL

---------------------------------------------------------------------------
(* What a descriptor says of a field *)

\* The properties of a field.
IsProps(p) ==
  /\ DOMAIN p = {"f", "auto", "key", "conf", "type", "name"}
  /\ p.key \in BOOLEAN /\ p.auto \in BOOLEAN
AreProps(props) == IsSeq(props) /\ \A i \in DOMAIN props : IsProps(props[i])
FieldsOf(props) == {props[i].f : i \in DOMAIN props}

TypeSaid(x) == IF x.t.kind = "name" THEN NoType ELSE x.t
NameSaid(x) == IF x.t.kind = "name" THEN x.t.ref ELSE None

\* q is what the directive x makes of p.
Applies(x, p, q) ==
  /\ IsProps(q) /\ q.f = p.f
  /\ q.key = (p.key \/ x.d = "key")
  /\ q.auto = (p.auto \/ x.d = "auto")
  /\ q.type = IF x.d = "type" THEN TypeSaid(x) ELSE p.type
  /\ q.name = IF x.d = "type" THEN NameSaid(x) ELSE p.name

LEMMA PropsOfCases ==
  ASSUME NEW x, NEW p, SaysOfFields(x)
  PROVE  \/ x.d = "type" /\ x.t.kind = "name"
            /\ PropsOf(x, p) = [p EXCEPT !.type = NoType, !.name = x.t.ref]
         \/ x.d = "type" /\ x.t.kind # "name"
            /\ PropsOf(x, p) = [p EXCEPT !.type = x.t, !.name = None]
         \/ x.d = "key" /\ PropsOf(x, p) = [p EXCEPT !.key = TRUE]
         \/ x.d = "auto" /\ PropsOf(x, p) = [p EXCEPT !.auto = TRUE]
         \/ x.d = "confidential" /\ PropsOf(x, p) = [p EXCEPT !.conf = TRUE]
<1>1. x.d \in {"type", "key", "auto", "confidential"}
  BY DEF SaysOfFields
<1>2. CASE x.d = "type"
  <2>1. PropsOf(x, p) = IF x.t.kind = "name"
                        THEN [p EXCEPT !.type = NoType, !.name = x.t.ref]
                        ELSE [p EXCEPT !.type = x.t, !.name = None]
    BY <1>2, Zenon DEF PropsOf
  <2> QED BY <1>2, <2>1
<1>3. CASE x.d = "key"
  <2>1. PropsOf(x, p) = [p EXCEPT !.key = TRUE]
    BY <1>3, Zenon DEF PropsOf
  <2> QED BY <1>3, <2>1
<1>4. CASE x.d = "auto"
  <2>1. PropsOf(x, p) = [p EXCEPT !.auto = TRUE]
    BY <1>4, Zenon DEF PropsOf
  <2> QED BY <1>4, <2>1
<1>5. CASE x.d = "confidential"
  <2>1. PropsOf(x, p) = [p EXCEPT !.conf = TRUE]
    BY <1>5, Zenon DEF PropsOf
  <2> QED BY <1>5, <2>1
<1> QED BY <1>1, <1>2, <1>3, <1>4, <1>5

\* A directive that says something twice of a field says it once.
LEMMA PropsOfFacts ==
  ASSUME NEW x, NEW p, SaysOfFields(x), IsProps(p)
  PROVE  /\ Applies(x, p, PropsOf(x, p))
         /\ PropsOf(x, PropsOf(x, p)) = PropsOf(x, p)
<1> DEFINE q == PropsOf(x, p)
           r == PropsOf(x, q)
<1>1. \/ x.d = "type" /\ x.t.kind = "name"
         /\ q = [p EXCEPT !.type = NoType, !.name = x.t.ref]
      \/ x.d = "type" /\ x.t.kind # "name"
         /\ q = [p EXCEPT !.type = x.t, !.name = None]
      \/ x.d = "key" /\ q = [p EXCEPT !.key = TRUE]
      \/ x.d = "auto" /\ q = [p EXCEPT !.auto = TRUE]
      \/ x.d = "confidential" /\ q = [p EXCEPT !.conf = TRUE]
  BY PropsOfCases
<1>2. \/ x.d = "type" /\ x.t.kind = "name"
         /\ r = [q EXCEPT !.type = NoType, !.name = x.t.ref]
      \/ x.d = "type" /\ x.t.kind # "name"
         /\ r = [q EXCEPT !.type = x.t, !.name = None]
      \/ x.d = "key" /\ r = [q EXCEPT !.key = TRUE]
      \/ x.d = "auto" /\ r = [q EXCEPT !.auto = TRUE]
      \/ x.d = "confidential" /\ r = [q EXCEPT !.conf = TRUE]
  BY PropsOfCases
<1> HIDE DEF q, r
<1>3. Applies(x, p, q)
  BY <1>1 DEF Applies, IsProps, TypeSaid, NameSaid
<1>4. /\ q = [c \in DOMAIN p |-> q[c]] /\ DOMAIN q = DOMAIN p
      /\ r = [c \in DOMAIN p |-> r[c]]
  BY <1>1, <1>2
<1>5. \A c \in DOMAIN p : r[c] = q[c]
  BY <1>1, <1>2, <1>4, ZenonT(60) DEF IsProps
<1>6. r = q
  BY <1>4, <1>5
<1> QED BY <1>3, <1>6 DEF q, r

LEMMA SeqCons ==
  ASSUME NEW p, NEW old, IsSeq(old)
  PROVE  /\ IsSeq(<<p>> \o old) /\ Len(<<p>> \o old) = 1 + Len(old)
         /\ (<<p>> \o old)[1] = p
         /\ \A i \in 1..Len(old) : (<<p>> \o old)[1 + i] = old[i]
<1> DEFINE one == <<p>>
<1>0. IsSeq(one)
  BY SeqOfOne
<1>1. Len(one) = 1 /\ one[1] = p
  BY SeqOfOne
<1> HIDE DEF one
<1>2. IsSeq(one \o old) /\ Len(one \o old) = Len(one) + Len(old)
  BY <1>0, SeqConcat
<1>3. \A i \in 1..Len(one) : (one \o old)[i] = one[i]
  BY <1>0, SeqConcat
<1>4. \A i \in 1..Len(old) : (one \o old)[Len(one) + i] = old[i]
  BY <1>0, SeqConcat
<1>5. (one \o old)[1] = p
  BY <1>1, <1>3
<1>6. \A i \in 1..Len(old) : (one \o old)[1 + i] = old[i]
  BY <1>1, <1>4
<1> QED BY <1>1, <1>2, <1>5, <1>6 DEF one

\* How the properties q come from the list props when x names the fields D.
Comes(q, props, x, D) ==
  \/ \E j \in DOMAIN props :
       q = IF props[j].f \in D THEN PropsOf(x, props[j]) ELSE props[j]
  \/ /\ q.f \in D /\ q.f \notin FieldsOf(props)
     /\ q = PropsOf(x, NewProps(q.f))

AllCome(next, props, x, D) ==
  /\ AreProps(next)
  /\ FieldsOf(next) = FieldsOf(props) \cup D
  /\ \A i \in DOMAIN next : Comes(next[i], props, x, D)

LEMMA NewPropsFacts ==
  ASSUME NEW f
  PROVE  /\ IsProps(NewProps(f)) /\ NewProps(f).f = f
         /\ ~NewProps(f).key /\ ~NewProps(f).auto
         /\ NewProps(f).type = NoType /\ NewProps(f).name = None
  BY DEF NewProps, IsProps

LEMMA ComesMore ==
  ASSUME NEW q, NEW props, NEW x, NEW D, NEW g, SaysOfFields(x),
         AreProps(props), Comes(q, props, x, D)
  PROVE  Comes(IF q.f = g THEN PropsOf(x, q) ELSE q, props, x, D \cup {g})
<1>1. CASE \E j \in DOMAIN props :
             q = IF props[j].f \in D THEN PropsOf(x, props[j]) ELSE props[j]
  <2>1. PICK j \in DOMAIN props :
             q = IF props[j].f \in D THEN PropsOf(x, props[j]) ELSE props[j]
    BY <1>1
  <2> DEFINE p == props[j]
             r == PropsOf(x, p)
  <2>2. r.f = p.f /\ PropsOf(x, r) = r
    BY PropsOfFacts DEF AreProps, Applies
  <2>3. q = IF p.f \in D THEN r ELSE p
    BY <2>1
  <2>4. q.f = p.f
    BY <2>2, <2>3
  <2>5. (IF q.f = g THEN PropsOf(x, q) ELSE q)
          = IF p.f \in D \cup {g} THEN PropsOf(x, p) ELSE p
    BY <2>2, <2>3, <2>4
  <2> QED BY <2>5 DEF Comes
<1>2. CASE /\ q.f \in D /\ q.f \notin FieldsOf(props)
           /\ q = PropsOf(x, NewProps(q.f))
  <2> DEFINE p == NewProps(q.f)
  <2>1. PropsOf(x, PropsOf(x, p)) = PropsOf(x, p)
    BY PropsOfFacts, NewPropsFacts
  <2>2. (IF q.f = g THEN PropsOf(x, q) ELSE q) = q
    BY <1>2, <2>1
  <2> QED BY <1>2, <2>2 DEF Comes
<1> QED BY <1>1, <1>2 DEF Comes

LEMMA PropsWithComes ==
  ASSUME NEW old, NEW props, NEW x, NEW D, NEW g, SaysOfFields(x),
         AreProps(props), AllCome(old, props, x, D)
  PROVE  AllCome(PropsWith(old, g, x), props, x, D \cup {g})
<1> DEFINE next == PropsWith(old, g, x)
<1>0. AreProps(old) /\ FieldsOf(old) = FieldsOf(props) \cup D
      /\ \A i \in DOMAIN old : Comes(old[i], props, x, D)
  BY DEF AllCome
<1>1. CASE g \notin FieldsOf(old)
  <2> DEFINE p == PropsOf(x, NewProps(g))
  <2>1. Applies(x, NewProps(g), p) /\ NewProps(g).f = g
    BY PropsOfFacts, NewPropsFacts
  <2>2. next = <<p>> \o old
    BY <1>1 DEF PropsWith, rec_rset_get_props, FieldsOf
  <2> HIDE DEF next
  <2>4. IsSeq(old)
    BY <1>0 DEF AreProps
  <2>5. /\ IsSeq(next) /\ Len(next) = 1 + Len(old) /\ next[1] = p
        /\ \A i \in 1..Len(old) : next[1 + i] = old[i]
    <3> HIDE DEF p
    <3> QED BY <2>2, <2>4, SeqCons
  <2>6. /\ Len(old) \in Nat /\ DOMAIN old = 1..Len(old)
        /\ DOMAIN next = 1..(1 + Len(old))
    BY <2>4, <2>5, SeqFacts
  <2>7. \A i \in DOMAIN next : i = 1 \/ (i - 1 \in DOMAIN old /\ next[i] = old[i - 1])
    <3> SUFFICES ASSUME NEW i \in DOMAIN next, i # 1
                 PROVE  i - 1 \in DOMAIN old /\ next[i] = old[i - 1]
      OBVIOUS
    <3>1. i - 1 \in 1..Len(old) /\ 1 + (i - 1) = i
      BY <2>6
    <3>2. next[1 + (i - 1)] = old[i - 1]
      BY <2>5, <3>1
    <3> QED BY <2>6, <3>1, <3>2
  <2>8. p.f = g /\ IsProps(p)
    BY <2>1 DEF Applies
  <2>9. AreProps(next)
    BY <1>0, <2>5, <2>7, <2>8 DEF AreProps
  <2>10. FieldsOf(next) = FieldsOf(props) \cup (D \cup {g})
    <3>1. FieldsOf(next) = FieldsOf(old) \cup {g}
      <4>1. ASSUME NEW i \in DOMAIN next
            PROVE  next[i].f \in FieldsOf(old) \cup {g}
        BY <2>5, <2>7, <2>8 DEF FieldsOf
      <4>2. ASSUME NEW i \in DOMAIN old PROVE old[i].f \in FieldsOf(next)
        <5>1. 1 + i \in DOMAIN next /\ next[1 + i] = old[i]
          BY <2>5, <2>6
        <5> QED BY <5>1 DEF FieldsOf
      <4>3. g \in FieldsOf(next)
        <5>1. 1 \in DOMAIN next
          BY <2>6
        <5> QED BY <2>5, <2>8, <5>1 DEF FieldsOf
      <4> QED BY <4>1, <4>2, <4>3 DEF FieldsOf
    <3> QED BY <1>0, <3>1
  <2>11. ASSUME NEW i \in DOMAIN next
         PROVE  Comes(next[i], props, x, D \cup {g})
    <3>1. CASE i = 1
      <4>1. g \notin FieldsOf(props)
        BY <1>0, <1>1
      <4> HIDE DEF p
      <4>2. next[i] = p /\ p.f = g
        BY <2>5, <2>8, <3>1
      <4>3. p = PropsOf(x, NewProps(p.f))
        BY <2>8 DEF p
      <4> QED BY <4>1, <4>2, <4>3 DEF Comes
    <3>2. CASE i # 1
      <4> DEFINE q == old[i - 1]
      <4>1. next[i] = q /\ q.f \in FieldsOf(old) /\ Comes(q, props, x, D)
        BY <1>0, <2>7, <3>2 DEF FieldsOf
      <4> HIDE DEF q
      <4>2. q.f # g
        BY <1>1, <4>1
      <4>3. Comes(IF q.f = g THEN PropsOf(x, q) ELSE q, props, x, D \cup {g})
        BY <4>1, ComesMore
      <4>4. (IF q.f = g THEN PropsOf(x, q) ELSE q) = next[i]
        BY <4>1, <4>2
      <4> QED BY <4>3, <4>4
    <3> QED BY <3>1, <3>2
  <2> QED BY <2>9, <2>10, <2>11 DEF AllCome, next
<1>2. CASE g \in FieldsOf(old)
  <2>1. next = [i \in DOMAIN old |-> IF old[i].f = g THEN PropsOf(x, old[i])
                                     ELSE old[i]]
    BY <1>2 DEF PropsWith, rec_rset_get_props, FieldsOf
  <2> HIDE DEF next
  <2>2. next = [i \in DOMAIN old |-> next[i]]
    BY <2>1
  <2>3. IsSeq(next) /\ DOMAIN next = DOMAIN old
    BY <1>0, <2>2, SeqOfDomain DEF AreProps
  <2>4. ASSUME NEW i \in DOMAIN old
        PROVE  /\ IsProps(next[i]) /\ next[i].f = old[i].f
               /\ Comes(next[i], props, x, D \cup {g})
    <3>1. next[i] = IF old[i].f = g THEN PropsOf(x, old[i]) ELSE old[i]
      BY <2>1
    <3>2. IsProps(old[i]) /\ Comes(old[i], props, x, D)
      BY <1>0 DEF AreProps
    <3>3. Applies(x, old[i], PropsOf(x, old[i]))
      BY <3>2, PropsOfFacts
    <3>4. Comes(next[i], props, x, D \cup {g})
      BY <3>1, <3>2, ComesMore
    <3> QED BY <3>1, <3>2, <3>3, <3>4 DEF Applies
  <2>5. FieldsOf(next) = FieldsOf(old)
    BY <2>3, <2>4 DEF FieldsOf
  <2>6. FieldsOf(next) = FieldsOf(props) \cup (D \cup {g})
    BY <1>0, <1>2, <2>5
  <2> QED BY <2>3, <2>4, <2>6 DEF AllCome, AreProps, next
<1> QED BY <1>1, <1>2

\* What a directive makes of the properties.
LEMMA ScanNextComes ==
  ASSUME NEW props, NEW x, SaysOfFields(x), IsSeq(x.fs), AreProps(props)
  PROVE  AllCome(ScanNext(props, x), props, x, Range(x.fs))
<1> DEFINE N == Len(x.fs)
           F == PropsNamed(props, x)
           D(n) == {x.fs[k] : k \in 1..n}
           S == {n \in 0..N : AllCome(F[n], props, x, D(n))}
<1>1. /\ N \in Nat /\ F[0] = props /\ DOMAIN x.fs = 1..N
      /\ \A n \in 1..N : F[n] = PropsWith(F[n - 1], x.fs[n], x)
  BY SeqFacts, PropsNamedDef
<1>2. D(0) = {}
  OBVIOUS
<1>3. \A n \in 0..(N - 1) : D(n + 1) = D(n) \cup {x.fs[n + 1]}
  <2> TAKE n \in 0..(N - 1)
  <2>1. 1..(n + 1) = (1..n) \cup {n + 1}
    BY <1>1
  <2> QED BY <2>1
<1>4. D(N) = Range(x.fs)
  BY <1>1 DEF Range
<1>5. ScanNext(props, x) = F[N]
  BY DEF ScanNext
<1> HIDE DEF N, F, D
<1>6. 0 \in S
  <2>1. AllCome(props, props, x, {})
    <3>1. ASSUME NEW j \in DOMAIN props PROVE Comes(props[j], props, x, {})
      <4>1. props[j] = IF props[j].f \in {} THEN PropsOf(x, props[j]) ELSE props[j]
        OBVIOUS
      <4> QED BY <4>1 DEF Comes
    <3>2. FieldsOf(props) = FieldsOf(props) \cup {}
      OBVIOUS
    <3> QED BY <3>1, <3>2 DEF AllCome
  <2>2. F[0] = props /\ 0 \in 0..N
    BY <1>1
  <2>3. AllCome(F[0], props, x, D(0))
    BY ONLY <1>2, <2>1, <2>2, Zenon
  <2> QED BY <2>2, <2>3
<1>7. \A n \in 0..(N - 1) : n \in S => n + 1 \in S
  <2> TAKE n \in 0..(N - 1)
  <2> SUFFICES ASSUME n \in S PROVE n + 1 \in S
    OBVIOUS
  <2>1. n + 1 \in 1..N /\ (n + 1) - 1 = n /\ n + 1 \in 0..N
    BY <1>1
  <2>2. F[n + 1] = PropsWith(F[n], x.fs[n + 1], x)
    BY <1>1, <2>1
  <2>3. AllCome(F[n], props, x, D(n))
    OBVIOUS
  <2>4. AllCome(PropsWith(F[n], x.fs[n + 1], x), props, x, D(n) \cup {x.fs[n + 1]})
    BY <2>3, PropsWithComes
  <2> QED BY <1>3, <2>1, <2>2, <2>4
<1>8. N \in S
  <2> HIDE DEF S
  <2>1. 0..N \subseteq S
    BY ONLY <1>1, <1>6, <1>7, UpToInduction
  <2> QED BY <1>1, <2>1
<1> QED BY <1>4, <1>5, <1>8

\* One of the first n directives says d of the field f.
Says(x, d, f) == SaysOfFields(x) /\ x.d = d /\ f \in Range(x.fs)
Told(desc, n, d, f) == \E m \in 1..n : Says(desc[m], d, f)

\* The last of the first n directives that say something of the type of f.
LastTold(desc, n, f, m) ==
  /\ m \in 1..n /\ Says(desc[m], "type", f)
  /\ \A k \in 1..n : Says(desc[k], "type", f) => k <= m

\* What the properties p of a field say, if it is what n directives said of
\* the field since the properties were start.
Means(p, start, desc, n) ==
  /\ p.key <=> Told(desc, n, "key", p.f)
  /\ p.auto <=> Told(desc, n, "auto", p.f)
  /\ \/ \E m \in 1..n : /\ LastTold(desc, n, p.f, m)
                        /\ p.type = TypeSaid(desc[m]) /\ p.name = NameSaid(desc[m])
     \/ /\ ~Told(desc, n, "type", p.f) /\ p.type = NoType
        /\ \/ p.name = None
           \/ \E j \in DOMAIN start : start[j].f = p.f /\ start[j].name = p.name

AllMean(props, start, desc, n) ==
  /\ AreProps(props)
  /\ \A f : (\E d \in {"key", "auto", "type"} : Told(desc, n, d, f))
            => f \in FieldsOf(props)
  /\ \A i \in DOMAIN props : Means(props[i], start, desc, n)

LEMMA ToldNext ==
  ASSUME NEW desc, NEW n \in Nat, NEW d, NEW f
  PROVE  Told(desc, n + 1, d, f) <=> Told(desc, n, d, f) \/ Says(desc[n + 1], d, f)
<1>1. 1..(n + 1) = (1..n) \cup {n + 1}
  OBVIOUS
<1> QED BY <1>1 DEF Told

LEMMA LastToldNext ==
  ASSUME NEW desc, NEW n \in Nat, NEW f, NEW m \in 1..n, LastTold(desc, n, f, m),
         ~Says(desc[n + 1], "type", f)
  PROVE  LastTold(desc, n + 1, f, m)
<1>1. 1..(n + 1) = (1..n) \cup {n + 1} /\ m \in 1..(n + 1)
  OBVIOUS
<1> QED BY <1>1 DEF LastTold

LEMMA LastToldNow ==
  ASSUME NEW desc, NEW n \in Nat, NEW f, Says(desc[n + 1], "type", f)
  PROVE  LastTold(desc, n + 1, f, n + 1)
  BY DEF LastTold

\* What one more directive means: to properties that it changes, and to new
\* ones.
LEMMA MeansNext ==
  ASSUME NEW p, NEW q, NEW start, NEW desc, NEW n \in Nat, IsProps(p),
         Means(p, start, desc, n),
         \/ q = p /\ \A d \in {"key", "auto", "type"} : ~Says(desc[n + 1], d, p.f)
         \/ /\ SaysOfFields(desc[n + 1]) /\ p.f \in Range(desc[n + 1].fs)
            /\ q = PropsOf(desc[n + 1], p)
  PROVE  Means(q, start, desc, n + 1)
<1> DEFINE x == desc[n + 1]
<1>1. \/ q = p /\ \A d \in {"key", "auto", "type"} : ~Says(x, d, p.f)
      \/ SaysOfFields(x) /\ p.f \in Range(x.fs) /\ Applies(x, p, q)
  BY PropsOfFacts
<1> HIDE DEF x
<1>2. /\ q.f = p.f
      /\ q.key <=> (p.key \/ Says(x, "key", p.f))
      /\ q.auto <=> (p.auto \/ Says(x, "auto", p.f))
      /\ Says(x, "type", p.f) => q.type = TypeSaid(x) /\ q.name = NameSaid(x)
      /\ ~Says(x, "type", p.f) => q.type = p.type /\ q.name = p.name
  BY <1>1 DEF Says, Applies, IsProps
<1>3. \A d : Told(desc, n + 1, d, p.f) <=> Told(desc, n, d, p.f) \/ Says(x, d, p.f)
  BY ToldNext DEF x
<1>4. (q.key <=> Told(desc, n + 1, "key", q.f)) /\ (q.auto <=> Told(desc, n + 1, "auto", q.f))
  BY <1>2, <1>3 DEF Means, IsProps
<1>5. CASE Says(x, "type", p.f)
  <2>1. LastTold(desc, n + 1, p.f, n + 1) /\ n + 1 \in 1..(n + 1)
    BY <1>5, LastToldNow DEF x
  <2>2. q.type = TypeSaid(desc[n + 1]) /\ q.name = NameSaid(desc[n + 1])
    BY <1>2, <1>5 DEF x
  <2> QED BY <1>2, <1>4, <2>1, <2>2 DEF Means
<1>6. CASE ~Says(x, "type", p.f)
  <2>1. q.type = p.type /\ q.name = p.name /\ q.f = p.f
    BY <1>2, <1>6
  <2>2. CASE \E m \in 1..n : /\ LastTold(desc, n, p.f, m)
                        /\ p.type = TypeSaid(desc[m]) /\ p.name = NameSaid(desc[m])
    <3>1. PICK m \in 1..n : /\ LastTold(desc, n, p.f, m)
                        /\ p.type = TypeSaid(desc[m]) /\ p.name = NameSaid(desc[m])
      BY <2>2
    <3>2. LastTold(desc, n + 1, p.f, m) /\ m \in 1..(n + 1)
      BY <1>6, <3>1, LastToldNext DEF x
    <3> QED BY <1>4, <2>1, <3>1, <3>2 DEF Means
  <2>3. CASE /\ ~Told(desc, n, "type", p.f) /\ p.type = NoType
             /\ \/ p.name = None
                \/ \E j \in DOMAIN start : start[j].f = p.f /\ start[j].name = p.name
    <3>1. ~Told(desc, n + 1, "type", p.f)
      BY <1>3, <1>6, <2>3
    <3> QED BY <1>4, <2>1, <2>3, <3>1 DEF Means
  <2> QED BY <2>2, <2>3 DEF Means
<1> QED BY <1>5, <1>6

LEMMA NewMeans ==
  ASSUME NEW f, NEW start, NEW desc, NEW n \in Nat,
         \A d \in {"key", "auto", "type"} : ~Told(desc, n, d, f)
  PROVE  Means(NewProps(f), start, desc, n)
  BY NewPropsFacts DEF Means, IsProps

LEMMA ScanNextMeans ==
  ASSUME NEW props, NEW start, NEW desc, NEW n \in Nat, IsSeq(desc[n + 1].fs),
         AllMean(props, start, desc, n)
  PROVE  AllMean(ScanNext(props, desc[n + 1]), start, desc, n + 1)
<1> DEFINE x == desc[n + 1]
           next == ScanNext(props, x)
<1>0. /\ AreProps(props)
      /\ \A f : (\E d \in {"key", "auto", "type"} : Told(desc, n, d, f))
                => f \in FieldsOf(props)
      /\ \A i \in DOMAIN props : Means(props[i], start, desc, n)
  BY DEF AllMean
<1>1. CASE SaysOfFields(x)
  <2>1. /\ AreProps(next) /\ FieldsOf(next) = FieldsOf(props) \cup Range(x.fs)
        /\ \A i \in DOMAIN next : Comes(next[i], props, x, Range(x.fs))
    BY <1>0, <1>1, ScanNextComes DEF AllCome
  <2> HIDE DEF next
  <2>2. ASSUME NEW f, NEW d \in {"key", "auto", "type"}, Told(desc, n + 1, d, f)
        PROVE  f \in FieldsOf(next)
    <3>1. Told(desc, n, d, f) \/ Says(x, d, f)
      BY <2>2, ToldNext
    <3> QED BY <1>0, <2>1, <3>1 DEF Says
  <2>3. ASSUME NEW i \in DOMAIN next PROVE Means(next[i], start, desc, n + 1)
    <3> DEFINE q == next[i]
    <3>1. CASE \E j \in DOMAIN props :
                 q = IF props[j].f \in Range(x.fs) THEN PropsOf(x, props[j]) ELSE props[j]
      <4>1. PICK j \in DOMAIN props :
                 q = IF props[j].f \in Range(x.fs) THEN PropsOf(x, props[j]) ELSE props[j]
        BY <3>1
      <4>2. IsProps(props[j]) /\ Means(props[j], start, desc, n)
        BY <1>0 DEF AreProps
      <4>3. CASE props[j].f \in Range(x.fs)
        <5>1. q = PropsOf(desc[n + 1], props[j])
          BY <4>1, <4>3
        <5> HIDE DEF q
        <5>2. Means(q, start, desc, n + 1)
          BY <1>1, <4>2, <4>3, <5>1, MeansNext
        <5> QED BY <5>2 DEF q
      <4>4. CASE props[j].f \notin Range(x.fs)
        <5>1. q = props[j] /\ \A d \in {"key", "auto", "type"} : ~Says(desc[n + 1], d, props[j].f)
          BY <4>1, <4>4 DEF Says
        <5> HIDE DEF q
        <5>2. Means(q, start, desc, n + 1)
          BY <4>2, <5>1, MeansNext
        <5> QED BY <5>2 DEF q
      <4> QED BY <4>3, <4>4
    <3>2. CASE /\ q.f \in Range(x.fs) /\ q.f \notin FieldsOf(props)
               /\ q = PropsOf(x, NewProps(q.f))
      <4> DEFINE p == NewProps(q.f)
      <4>1. \A d \in {"key", "auto", "type"} : ~Told(desc, n, d, q.f)
        BY <1>0, <3>2
      <4>2. Means(p, start, desc, n) /\ IsProps(p) /\ p.f = q.f
        BY <4>1, NewMeans, NewPropsFacts
      <4>3. q = PropsOf(desc[n + 1], p) /\ p.f \in Range(desc[n + 1].fs)
        BY <3>2, <4>2
      <4> HIDE DEF p, q
      <4>4. Means(q, start, desc, n + 1)
        BY <1>1, <4>2, <4>3, MeansNext
      <4> QED BY <4>4 DEF q
    <3> QED BY <2>1, <3>1, <3>2 DEF Comes
  <2> QED BY <2>1, <2>2, <2>3 DEF AllMean, next
<1>2. CASE ~SaysOfFields(x)
  <2>1. next = props
    BY <1>2 DEF ScanNext
  <2>2. \A d, f : ~Says(x, d, f)
    BY <1>2 DEF Says
  <2>3. \A d, f : Told(desc, n + 1, d, f) <=> Told(desc, n, d, f)
    BY <2>2, ToldNext
  <2>4. ASSUME NEW i \in DOMAIN props PROVE Means(props[i], start, desc, n + 1)
    BY <1>0, <2>2, MeansNext DEF AreProps
  <2> QED BY <1>0, <2>1, <2>3, <2>4 DEF AllMean
<1> QED BY <1>1, <1>2

\* What a descriptor makes of properties that were reset.
LEMMA ScannedMeans ==
  ASSUME NEW start, NEW desc, IsDescriptor(desc), AreProps(start),
         \A i \in DOMAIN start : /\ ~start[i].key /\ ~start[i].auto
                                 /\ start[i].type = NoType
  PROVE  AllMean(PropsScanned(start, desc)[Len(desc)], start, desc, Len(desc))
<1> DEFINE N == Len(desc)
           F == PropsScanned(start, desc)
           S == {n \in 0..N : AllMean(F[n], start, desc, n)}
<1>0. IsSeq(desc) /\ \A n \in DOMAIN desc : IsSeq(desc[n].fs)
  BY DEF IsDescriptor
<1>1. /\ N \in Nat /\ F[0] = start /\ DOMAIN desc = 1..N
      /\ \A n \in 1..N : F[n] = ScanNext(F[n - 1], desc[n])
  BY <1>0, SeqFacts, PropsScannedDef
<1> HIDE DEF N, F
<1>2. 0 \in S
  <2>1. \A d, f : ~Told(desc, 0, d, f)
    BY DEF Told
  <2>2. ASSUME NEW i \in DOMAIN start PROVE Means(start[i], start, desc, 0)
    BY <2>1 DEF Means, AreProps, IsProps
  <2>3. AllMean(start, start, desc, 0)
    BY <2>1, <2>2 DEF AllMean
  <2>4. F[0] = start /\ 0 \in 0..N
    BY <1>1
  <2> QED BY <2>3, <2>4
<1>3. \A n \in 0..(N - 1) : n \in S => n + 1 \in S
  <2> TAKE n \in 0..(N - 1)
  <2> SUFFICES ASSUME n \in S PROVE n + 1 \in S
    OBVIOUS
  <2>1. n + 1 \in 1..N /\ (n + 1) - 1 = n /\ n + 1 \in 0..N /\ n \in Nat
    BY <1>1
  <2>2. F[n + 1] = ScanNext(F[n], desc[n + 1]) /\ IsSeq(desc[n + 1].fs)
    BY <1>0, <1>1, <2>1
  <2>3. AllMean(F[n], start, desc, n)
    OBVIOUS
  <2>4. AllMean(ScanNext(F[n], desc[n + 1]), start, desc, n + 1)
    BY <2>1, <2>2, <2>3, ScanNextMeans
  <2> QED BY <2>1, <2>2, <2>4
<1>4. N \in S
  <2> HIDE DEF S
  <2>1. 0..N \subseteq S
    BY ONLY <1>1, <1>2, <1>3, UpToInduction
  <2> QED BY <1>1, <2>1
<1> QED BY <1>4 DEF F, N

\* An auto field without type is an integer.
Typed(p) == IF p.auto /\ p.type = NoType /\ p.name = None
            THEN [p EXCEPT !.type = Kind("int")] ELSE p

Meant(q, start, desc) ==
  \E p : IsProps(p) /\ Means(p, start, desc, Len(desc)) /\ q = Typed(p)

\* What rec_rset_update_field_props makes of the properties start.
AllMeant(props, start, desc) ==
  /\ AreProps(props)
  /\ \A f : (\E d \in {"key", "auto", "type"} : Told(desc, Len(desc), d, f))
            => f \in FieldsOf(props)
  /\ \A i \in DOMAIN props : Meant(props[i], start, desc)

LEMMA TypedFacts ==
  ASSUME NEW p, IsProps(p)
  PROVE  /\ IsProps(Typed(p)) /\ Typed(p).f = p.f
         /\ Typed(p).key = p.key /\ Typed(p).auto = p.auto
         /\ Typed(p).name = p.name
         /\ Typed(p).type = IF p.auto /\ p.type = NoType /\ p.name = None
                            THEN Kind("int") ELSE p.type
  BY DEF Typed, IsProps

LEMMA MeansOfNames ==
  ASSUME NEW p, NEW start, NEW old, NEW desc, NEW n,
         DOMAIN start = DOMAIN old, Means(p, start, desc, n),
         \A j \in DOMAIN old : start[j].f = old[j].f /\ start[j].name = old[j].name
  PROVE  Means(p, old, desc, n)
<1>1. (\E j \in DOMAIN start : start[j].f = p.f /\ start[j].name = p.name)
      => \E j \in DOMAIN old : old[j].f = p.f /\ old[j].name = p.name
  OBVIOUS
<1> QED BY <1>1, Zenon DEF Means

LEMMA UpdateMeant ==
  ASSUME NEW props, NEW desc, IsDescriptor(desc), AreProps(props)
  PROVE  AllMeant(rec_rset_update_field_props(props, desc), props, desc)
<1> DEFINE start == [i \in DOMAIN props |->
                       [props[i] EXCEPT !.key = FALSE, !.auto = FALSE,
                                        !.type = NoType]]
           N == Len(desc)
           S == PropsScanned(start, desc)[N]
           P == ScanProps(start, desc)
<1>1. start = [i \in DOMAIN props |-> start[i]]
  OBVIOUS
<1>2. \A i \in DOMAIN props :
        /\ start[i].f = props[i].f /\ start[i].name = props[i].name
        /\ IsProps(start[i]) /\ ~start[i].key /\ ~start[i].auto
        /\ start[i].type = NoType
  BY DEF AreProps, IsProps
<1>3. rec_rset_update_field_props(props, desc) = P
  BY DEF rec_rset_update_field_props
<1> HIDE DEF start
<1>4. IsSeq(start) /\ DOMAIN start = DOMAIN props
  BY <1>1, SeqOfDomain DEF AreProps
<1>5. AreProps(start)
  BY <1>2, <1>4 DEF AreProps
<1>6. AllMean(S, start, desc, N)
  BY <1>2, <1>4, <1>5, ScannedMeans
<1>7. P = [i \in DOMAIN S |-> Typed(S[i])]
  BY DEF ScanProps, Typed
<1> HIDE DEF P, S, N
<1>8. /\ AreProps(S)
      /\ \A f : (\E d \in {"key", "auto", "type"} : Told(desc, N, d, f))
                => f \in FieldsOf(S)
      /\ \A i \in DOMAIN S : Means(S[i], start, desc, N)
  BY <1>6 DEF AllMean
<1>9. P = [i \in DOMAIN S |-> P[i]]
  BY <1>7
<1>10. IsSeq(P) /\ DOMAIN P = DOMAIN S
  BY <1>8, <1>9, SeqOfDomain DEF AreProps
<1>11. \A i \in DOMAIN S : P[i] = Typed(S[i])
  BY <1>7
<1>12. \A i \in DOMAIN S : IsProps(S[i]) /\ IsProps(P[i]) /\ P[i].f = S[i].f
  BY <1>8, <1>11, TypedFacts DEF AreProps
<1>13. FieldsOf(P) = FieldsOf(S)
  BY <1>10, <1>12 DEF FieldsOf
<1>14. ASSUME NEW i \in DOMAIN P PROVE Meant(P[i], props, desc)
  <2>1. Means(S[i], start, desc, N)
    BY <1>8, <1>10
  <2>2. Means(S[i], props, desc, N)
    BY <1>2, <1>4, <2>1, MeansOfNames
  <2> QED BY <1>10, <1>11, <1>12, <2>2 DEF Meant, N
<1>15. AreProps(P)
  BY <1>10, <1>12 DEF AreProps
<1> QED BY <1>3, <1>8, <1>13, <1>14, <1>15 DEF AllMeant, N

\* The properties start have no name of a type for f that desc does not
\* replace.
Settled(start, desc, f) ==
  \A j \in DOMAIN start : start[j].f = f =>
    Told(desc, Len(desc), "type", f) \/ start[j].name = None

LEMMA MeansSame ==
  ASSUME NEW p, NEW q, NEW s, NEW t, NEW desc, IsDescriptor(desc), p.f = q.f,
         Means(p, s, desc, Len(desc)), Means(q, t, desc, Len(desc)),
         Settled(s, desc, p.f), Settled(t, desc, p.f)
  PROVE  p.type = q.type /\ p.name = q.name
<1> DEFINE N == Len(desc)
<1>0. N \in Nat
  BY SeqFacts DEF IsDescriptor
<1>1. \/ \E m \in 1..N : /\ LastTold(desc, N, p.f, m)
                         /\ p.type = TypeSaid(desc[m]) /\ p.name = NameSaid(desc[m])
      \/ ~Told(desc, N, "type", p.f) /\ p.type = NoType /\ p.name = None
  BY Zenon DEF Means, Settled
<1>2. \/ \E m \in 1..N : /\ LastTold(desc, N, p.f, m)
                         /\ q.type = TypeSaid(desc[m]) /\ q.name = NameSaid(desc[m])
      \/ ~Told(desc, N, "type", p.f) /\ q.type = NoType /\ q.name = None
  BY Zenon DEF Means, Settled
<1>3. \A m : LastTold(desc, N, p.f, m) => Told(desc, N, "type", p.f)
  BY DEF LastTold, Told
<1>4. \A m, k \in 1..N : LastTold(desc, N, p.f, m) /\ LastTold(desc, N, p.f, k) => m = k
  BY <1>0 DEF LastTold
<1> HIDE DEF N
<1>5. CASE Told(desc, N, "type", p.f)
  <2>1. PICK m \in 1..N : /\ LastTold(desc, N, p.f, m)
                         /\ p.type = TypeSaid(desc[m]) /\ p.name = NameSaid(desc[m])
    BY <1>1, <1>5
  <2>2. PICK k \in 1..N : /\ LastTold(desc, N, p.f, k)
                         /\ q.type = TypeSaid(desc[k]) /\ q.name = NameSaid(desc[k])
    BY <1>2, <1>5
  <2>3. m = k
    BY <1>4, <2>1, <2>2
  <2> QED BY <2>1, <2>2, <2>3
<1>6. CASE ~Told(desc, N, "type", p.f)
  BY <1>1, <1>2, <1>3, <1>6
<1> QED BY <1>5, <1>6

\* Two runs of the update leave a field with the same meaning.
LEMMA MeantSame ==
  ASSUME NEW p, NEW q, NEW s, NEW t, NEW desc, IsDescriptor(desc), p.f = q.f,
         Meant(p, s, desc), Meant(q, t, desc),
         Settled(s, desc, p.f), Settled(t, desc, p.f)
  PROVE  p.type = q.type /\ p.name = q.name
<1>1. PICK a : IsProps(a) /\ Means(a, s, desc, Len(desc)) /\ p = Typed(a)
  BY DEF Meant
<1>2. PICK b : IsProps(b) /\ Means(b, t, desc, Len(desc)) /\ q = Typed(b)
  BY DEF Meant
<1>3. a.f = p.f /\ b.f = p.f
  BY <1>1, <1>2, TypedFacts
<1>4. a.type = b.type /\ a.name = b.name
  BY <1>1, <1>2, <1>3, MeansSame
<1>5. a.auto <=> b.auto
  BY <1>1, <1>2, <1>3 DEF Means
<1> QED BY <1>1, <1>2, <1>4, <1>5, TypedFacts

LEMMA MeantFacts ==
  ASSUME NEW q, NEW s, NEW desc, Meant(q, s, desc)
  PROVE  /\ q.key <=> Told(desc, Len(desc), "key", q.f)
         /\ q.auto <=> Told(desc, Len(desc), "auto", q.f)
         /\ (/\ Settled(s, desc, q.f) /\ ~Told(desc, Len(desc), "type", q.f)
             /\ ~Told(desc, Len(desc), "auto", q.f))
            => q.type = NoType /\ q.name = None
<1>1. PICK p : IsProps(p) /\ Means(p, s, desc, Len(desc)) /\ q = Typed(p)
  BY DEF Meant
<1>2. /\ q.f = p.f /\ q.key = p.key /\ q.auto = p.auto /\ q.name = p.name
      /\ q.type = IF p.auto /\ p.type = NoType /\ p.name = None
                  THEN Kind("int") ELSE p.type
  BY <1>1, TypedFacts
<1> DEFINE N == Len(desc)
<1>3. /\ p.key <=> Told(desc, N, "key", p.f)
      /\ p.auto <=> Told(desc, N, "auto", p.f)
      /\ \/ \E m \in 1..N : LastTold(desc, N, p.f, m)
         \/ /\ p.type = NoType
            /\ \/ p.name = None
               \/ \E j \in DOMAIN s : s[j].f = p.f /\ s[j].name = p.name
  BY <1>1 DEF Means
<1>4. \A m : LastTold(desc, N, p.f, m) => Told(desc, N, "type", p.f)
  BY DEF LastTold, Told
<1> HIDE DEF N
<1>5. ASSUME Settled(s, desc, q.f), ~Told(desc, N, "type", q.f),
             ~Told(desc, N, "auto", q.f)
      PROVE  q.type = NoType /\ q.name = None
  <2>1. p.type = NoType /\ p.name = None
    BY <1>2, <1>3, <1>4, <1>5 DEF Settled, N
  <2> QED BY <1>2, <1>3, <1>5, <2>1
<1> QED BY <1>2, <1>3, <1>5 DEF N

---------------------------------------------------------------------------
(* What a record set answers of a field *)

LEMMA MinIn ==
  ASSUME NEW S, S \in SUBSET Nat, S # {}
  PROVE  Min(S) \in S
<1>1. PICK m \in S : \A j \in S : m <= j
  BY NatMin
<1>2. Min(S) \in S /\ \A j \in S : Min(S) <= j
  BY <1>1 DEF Min
<1> QED BY <1>2

\* The properties of f, if it has some, are of type t or of a type named n.
PlacesAre(rset, f, t, n) ==
  /\ IsSeq(rset.props)
  /\ \A i \in DOMAIN rset.props :
       rset.props[i].f = f => rset.props[i].type = t /\ rset.props[i].name = n
  /\ f \in FieldsOf(rset.props) \/ (t = NoType /\ n = None)

\* The type that the properties of f give it.
LEMMA FieldTypeIs ==
  ASSUME NEW rset, NEW f, NEW t, NEW n, PlacesAre(rset, f, t, n)
  PROVE  rec_rset_get_field_type(rset, f) =
           IF t = NoType /\ n # None THEN rec_type_reg_get(rset.reg, n) ELSE t
<1> DEFINE places == rec_rset_get_props(rset.props, f)
           p == rset.props[Min(places)]
           result == IF t = NoType /\ n # None THEN rec_type_reg_get(rset.reg, n) ELSE t
<1>0. /\ IsSeq(rset.props)
      /\ \A i \in DOMAIN rset.props :
           rset.props[i].f = f => rset.props[i].type = t /\ rset.props[i].name = n
      /\ f \in FieldsOf(rset.props) \/ (t = NoType /\ n = None)
  BY DEF PlacesAre
<1>1. rec_rset_get_field_type(rset, f) =
        IF places = {} THEN NoType
        ELSE IF p.type = NoType /\ p.name # None
             THEN rec_type_reg_get(rset.reg, p.name) ELSE p.type
  BY DEF rec_rset_get_field_type
<1>2. CASE places = {}
  <2>1. f \notin FieldsOf(rset.props)
    BY <1>2 DEF rec_rset_get_props, FieldsOf
  <2> QED BY <1>0, <1>1, <1>2, <2>1
<1>3. CASE places # {}
  <2>1. places \in SUBSET Nat
    BY <1>0, SeqFacts DEF rec_rset_get_props
  <2>2. Min(places) \in places
    BY <1>3, <2>1, MinIn
  <2>3. p.type = t /\ p.name = n
    BY <1>0, <2>2 DEF rec_rset_get_props
  <2> HIDE DEF p, places
  <2> QED BY <1>1, <1>3, <2>3
<1> QED BY <1>2, <1>3

\* At most one field is a key.
OneKey(desc) ==
  \A f, g : Told(desc, Len(desc), "key", f) /\ Told(desc, Len(desc), "key", g) => f = g

LEMMA KeyIs ==
  ASSUME NEW rset, NEW s, NEW desc, AllMeant(rset.props, s, desc), OneKey(desc)
  PROVE  /\ \A f : Told(desc, Len(desc), "key", f) => rec_rset_key(rset) = f
         /\ (\A f : ~Told(desc, Len(desc), "key", f)) => rec_rset_key(rset) = None
<1> DEFINE props == rset.props
           keys == {i \in DOMAIN props : props[i].key}
<1>1. rec_rset_key(rset) = IF keys = {} THEN None ELSE props[Min(keys)].f
  BY DEF rec_rset_key
<1>2. \A i \in DOMAIN props : props[i].key <=> Told(desc, Len(desc), "key", props[i].f)
  BY MeantFacts DEF AllMeant
<1>3. ASSUME NEW f, Told(desc, Len(desc), "key", f) PROVE rec_rset_key(rset) = f
  <2>1. f \in FieldsOf(props)
    BY <1>3 DEF AllMeant
  <2>2. PICK i \in DOMAIN props : props[i].f = f
    BY <2>1 DEF FieldsOf
  <2>3. i \in keys
    BY <1>2, <1>3, <2>2
  <2>4. keys \in SUBSET Nat
    BY SeqFacts DEF AllMeant, AreProps
  <2>5. Min(keys) \in keys
    BY <2>3, <2>4, MinIn
  <2>6. Told(desc, Len(desc), "key", props[Min(keys)].f)
    BY <1>2, <2>5
  <2> QED BY <1>1, <1>3, <2>3, <2>6 DEF OneKey
<1>4. ASSUME \A f : ~Told(desc, Len(desc), "key", f) PROVE rec_rset_key(rset) = None
  BY <1>1, <1>2, <1>4
<1> QED BY <1>3, <1>4

LEMMA AutoIs ==
  ASSUME NEW rset, NEW s, NEW desc, AllMeant(rset.props, s, desc), NEW f
  PROVE  f \in rec_rset_auto(rset) <=> Told(desc, Len(desc), "auto", f)
<1> DEFINE props == rset.props
<1>1. \A i \in DOMAIN props : props[i].auto <=> Told(desc, Len(desc), "auto", props[i].f)
  BY MeantFacts DEF AllMeant
<1>2. f \in rec_rset_auto(rset) <=> \E i \in DOMAIN props : props[i].auto /\ props[i].f = f
  BY DEF rec_rset_auto
<1>3. Told(desc, Len(desc), "auto", f) => f \in FieldsOf(props)
  BY DEF AllMeant
<1> HIDE DEF props
<1> QED BY <1>1, <1>2, <1>3 DEF FieldsOf

\* Two record sets with the same descriptor, whatever their fields were
\* before.
LEMMA TypeSame ==
  ASSUME NEW a, NEW b, NEW s, NEW t, NEW desc, NEW f, IsDescriptor(desc),
         AllMeant(a.props, s, desc), AllMeant(b.props, t, desc), a.reg = b.reg,
         Settled(s, desc, f), Settled(t, desc, f)
  PROVE  rec_rset_get_field_type(a, f) = rec_rset_get_field_type(b, f)
<1> DEFINE told == \E d \in {"type", "auto"} : Told(desc, Len(desc), d, f)
<1>0. /\ IsSeq(a.props) /\ \A i \in DOMAIN a.props : Meant(a.props[i], s, desc)
      /\ IsSeq(b.props) /\ \A i \in DOMAIN b.props : Meant(b.props[i], t, desc)
  BY DEF AllMeant, AreProps
<1>1. CASE told
  <2>1. f \in FieldsOf(a.props) /\ f \in FieldsOf(b.props)
    BY <1>1 DEF AllMeant
  <2>2. PICK i \in DOMAIN a.props : a.props[i].f = f
    BY <2>1 DEF FieldsOf
  <2> DEFINE ty == a.props[i].type
             na == a.props[i].name
  <2>3. \A j \in DOMAIN b.props : b.props[j].f = f => b.props[j].type = ty /\ b.props[j].name = na
    BY <1>0, <2>2, MeantSame
  <2>4. \A j \in DOMAIN a.props : a.props[j].f = f => a.props[j].type = ty /\ a.props[j].name = na
    BY <1>0, <2>2, MeantSame
  <2> HIDE DEF ty, na
  <2>5. rec_rset_get_field_type(a, f) =
           IF ty = NoType /\ na # None THEN rec_type_reg_get(a.reg, na) ELSE ty
    <3>1. PlacesAre(a, f, ty, na)
      BY <1>0, <2>1, <2>4 DEF PlacesAre
    <3> QED BY <3>1, FieldTypeIs
  <2>6. rec_rset_get_field_type(b, f) =
           IF ty = NoType /\ na # None THEN rec_type_reg_get(b.reg, na) ELSE ty
    <3>1. PlacesAre(b, f, ty, na)
      BY <1>0, <2>1, <2>3 DEF PlacesAre
    <3> QED BY <3>1, FieldTypeIs
  <2> QED BY <2>5, <2>6
<1>2. CASE ~told
  <2>1. \A j \in DOMAIN b.props : b.props[j].f = f => b.props[j].type = NoType /\ b.props[j].name = None
    BY <1>0, <1>2, MeantFacts
  <2>2. \A j \in DOMAIN a.props : a.props[j].f = f => a.props[j].type = NoType /\ a.props[j].name = None
    BY <1>0, <1>2, MeantFacts
  <2> DEFINE ty == NoType
             na == None
  <2> HIDE DEF ty, na
  <2>5. rec_rset_get_field_type(a, f) =
           IF ty = NoType /\ na # None THEN rec_type_reg_get(a.reg, na) ELSE ty
    <3>1. PlacesAre(a, f, ty, na)
      BY <1>0, <2>2 DEF PlacesAre, ty, na
    <3> QED BY <3>1, FieldTypeIs
  <2>6. rec_rset_get_field_type(b, f) =
           IF ty = NoType /\ na # None THEN rec_type_reg_get(b.reg, na) ELSE ty
    <3>1. PlacesAre(b, f, ty, na)
      BY <1>0, <2>1 DEF PlacesAre, ty, na
    <3> QED BY <3>1, FieldTypeIs
  <2> QED BY <2>5, <2>6
<1> QED BY <1>1, <1>2

\* What the check of a descriptor finds about its keys.
LEMMA KeysChecked ==
  ASSUME NEW desc, IsDescriptor(desc), NEW full,
         \A n \in DOMAIN desc : n \in DOMAIN full /\ full[n] = desc[n],
         DOMAIN full \in SUBSET Nat, IsFiniteSet(DOMAIN full),
         Cardinality(Directives(full, "key")) <= 1
  PROVE  OneKey(desc)
<1>0. /\ IsSeq(desc)
      /\ \A n \in DOMAIN desc : /\ IsSeq(desc[n].fs)
                                /\ desc[n].d = "key" => Len(desc[n].fs) <= 1
  BY DEF IsDescriptor
<1>1. DOMAIN desc = 1..Len(desc)
  BY <1>0, SeqFacts
<1> DEFINE K == Directives(full, "key")
<1>2. IsFiniteSet(K)
  BY FS_Subset DEF Directives
<1>3. \A m, k \in K : m = k
  <2> SUFFICES ASSUME NEW m \in K, NEW k \in K, m # k PROVE FALSE
    OBVIOUS
  <2> DEFINE P == {m, k}
  <2>1. P \subseteq K
    OBVIOUS
  <2>2. Cardinality(P) = 2
    <3>1. IsFiniteSet({m}) /\ Cardinality({m}) = 1
      BY FS_Singleton
    <3>2. k \notin {m} /\ P = {m} \cup {k}
      OBVIOUS
    <3>3. Cardinality({m} \cup {k}) = Cardinality({m}) + 1
      BY <3>1, <3>2, FS_AddElement
    <3> QED BY <3>1, <3>2, <3>3
  <2> HIDE DEF P, K
  <2>3. Cardinality(P) <= Cardinality(K) /\ Cardinality(K) \in Nat
    BY <1>2, <2>1, FS_Subset, FS_CardinalityType
  <2> QED BY <2>2, <2>3 DEF K
<1>4. ASSUME NEW f, NEW g, Told(desc, Len(desc), "key", f), Told(desc, Len(desc), "key", g)
      PROVE  f = g
  <2>1. PICK m \in 1..Len(desc) : Says(desc[m], "key", f)
    BY <1>4 DEF Told
  <2>2. PICK k \in 1..Len(desc) : Says(desc[k], "key", g)
    BY <1>4 DEF Told
  <2>3. m \in K /\ k \in K
    BY <1>1, <2>1, <2>2 DEF Says, Directives
  <2>4. m = k
    BY <1>3, <2>3
  <2> DEFINE x == desc[m]
  <2>5a. m \in DOMAIN desc
    BY <1>1
  <2>5b. x.d = "key" /\ f \in Range(x.fs) /\ g \in Range(x.fs)
    BY <2>1, <2>2, <2>4 DEF Says
  <2>5. f \in Range(x.fs) /\ g \in Range(x.fs) /\ IsSeq(x.fs) /\ Len(x.fs) <= 1
    <3>1. IsSeq(x.fs)
      BY <1>0, <2>5a
    <3>2. x.d = "key" => Len(x.fs) <= 1
      BY <1>0, <2>5a
    <3> HIDE DEF x
    <3> QED BY <2>5b, <3>1, <3>2
  <2>6. DOMAIN desc[m].fs = 1..Len(desc[m].fs) /\ Len(desc[m].fs) \in Nat
    BY <2>5, SeqFacts
  <2>7. PICK i \in DOMAIN desc[m].fs : f = desc[m].fs[i]
    BY <2>5 DEF Range
  <2>8. PICK j \in DOMAIN desc[m].fs : g = desc[m].fs[j]
    BY <2>5 DEF Range
  <2>9. i = j
    BY <2>5, <2>6, <2>7, <2>8
  <2> QED BY <2>7, <2>8, <2>9
<1> QED BY <1>4 DEF OneKey

---------------------------------------------------------------------------
(* External descriptors *)

LEMMA SeqAppend ==
  ASSUME NEW s, NEW e, IsSeq(s)
  PROVE  /\ IsSeq(Append(s, e)) /\ Len(Append(s, e)) = Len(s) + 1
         /\ DOMAIN Append(s, e) = 1..(Len(s) + 1)
         /\ \A i \in 1..Len(s) : Append(s, e)[i] = s[i]
         /\ Append(s, e)[Len(s) + 1] = e
<1> DEFINE S == Range(s) \cup {e}
           t == Append(s, e)
<1>1. Len(s) \in Nat /\ s = [i \in 1..Len(s) |-> s[i]] /\ DOMAIN s = 1..Len(s)
  BY SeqFacts
<1>2. s \in [1..Len(s) -> S]
  BY <1>1 DEF Range
<1>3. s \in Seq(S) /\ e \in S
  BY <1>1, <1>2
<1> HIDE DEF S, t
<1>4. /\ t \in Seq(S) /\ Len(t) = Len(s) + 1
      /\ \A i \in 1..Len(s) : t[i] = s[i]
      /\ t[Len(s) + 1] = e
  BY ONLY <1>3, AppendProperties DEF t
<1>5. t = [i \in 1..(Len(s) + 1) |-> t[i]] /\ Len(s) + 1 \in Nat
  BY <1>1, <1>4
<1>6. IsSeq(t) /\ DOMAIN t = 1..(Len(s) + 1)
  BY <1>5, SeqOfFunction
<1> QED BY <1>4, <1>6 DEF t

\* The directives of an external descriptor.
LEMMA WithRemoteDef ==
  ASSUME NEW desc, NEW remote, IsSeq(remote)
  PROVE  /\ WithRemote(desc, remote)[0] = desc
         /\ \A n \in 1..Len(remote) :
              WithRemote(desc, remote)[n] =
                RemoteNext(WithRemote(desc, remote)[n - 1], remote[n])
<1> DEFINE N == Len(remote)
           F == WithRemote(desc, remote)
           at(h, n) == IF n = 0 THEN desc ELSE RemoteNext(h[n - 1], remote[n])
           Upto(h, m) == h = [n \in 0..m |-> at(h, n)]
           S == {m \in Nat : \E h : Upto(h, m)}
<1>1. N \in Nat
  BY SeqFacts
<1>2. F = CHOOSE h : Upto(h, N)
  BY DEF WithRemote
<1> HIDE DEF N, F
<1>3. 0 \in S
  <2> DEFINE h == [n \in 0..0 |-> desc]
  <2>1. Upto(h, 0)
    OBVIOUS
  <2> HIDE DEF Upto, h
  <2> QED BY <2>1
<1>4. ASSUME NEW m \in S PROVE m + 1 \in S
  <2>1. PICK g : Upto(g, m)
    OBVIOUS
  <2> DEFINE h == [n \in 0..(m + 1) |-> IF n = m + 1 THEN at(g, n) ELSE g[n]]
  <2>2. m \in Nat
    OBVIOUS
  <2>3. ASSUME NEW n \in 0..(m + 1) PROVE h[n] = at(h, n)
    <3>1. CASE n = 0
      BY <2>1, <2>2, <3>1
    <3>2. CASE n # 0
      <4>1. h[n - 1] = g[n - 1]
        BY <2>2, <3>2
      <4>2. h[n] = at(g, n)
        BY <2>1, <2>2, <3>2
      <4> QED BY <3>2, <4>1, <4>2
    <3> QED BY <3>1, <3>2
  <2>4. Upto(h, m + 1)
    BY <2>2, <2>3
  <2> HIDE DEF Upto, h
  <2> QED BY <2>2, <2>4
<1>5. N \in S
  <2>1. S \in SUBSET Nat
    OBVIOUS
  <2> HIDE DEF S
  <2> QED BY <1>1, <1>3, <1>4, <2>1, NatSetInduction
<1>6. Upto(F, N)
  <2> HIDE DEF Upto
  <2> QED BY <1>2, <1>5
<1>7. F[0] = desc /\ \A n \in 1..N : F[n] = RemoteNext(F[n - 1], remote[n])
  BY <1>1, <1>6
<1> QED BY <1>7 DEF F, N

\* The descriptor full has the directives of desc, then some of remote.
Extended(full, desc, remote) ==
  /\ IsDescriptor(full)
  /\ \A n \in DOMAIN desc : n \in DOMAIN full /\ full[n] = desc[n]
  /\ \A n \in DOMAIN full : n \in DOMAIN desc \/ full[n] \in Range(remote)

LEMMA ExtendedMore ==
  ASSUME NEW full, NEW desc, NEW remote, NEW n \in DOMAIN remote,
         IsDescriptor(remote), Extended(full, desc, remote)
  PROVE  Extended(Append(full, remote[n]), desc, remote)
<1> DEFINE x == remote[n]
           t == Append(full, x)
<1>1. /\ IsSeq(full) /\ \A k \in DOMAIN full : full[k].d = "key" => Len(full[k].fs) <= 1
      /\ \A k \in DOMAIN full : IsSeq(full[k].fs)
  BY DEF Extended, IsDescriptor
<1>2. IsSeq(x.fs) /\ (x.d = "key" => Len(x.fs) <= 1)
  BY DEF IsDescriptor
<1>3. x \in Range(remote)
  BY DEF Range
<1> HIDE DEF x, t
<1>4. /\ IsSeq(t) /\ DOMAIN t = 1..(Len(full) + 1) /\ t[Len(full) + 1] = x
      /\ \A i \in 1..Len(full) : t[i] = full[i]
  BY <1>1, SeqAppend DEF t
<1>5. Len(full) \in Nat /\ DOMAIN full = 1..Len(full)
  BY <1>1, SeqFacts
<1>6. \A k \in DOMAIN t : (k \in DOMAIN full /\ t[k] = full[k]) \/ t[k] = x
  BY <1>4, <1>5
<1>7. \A k \in DOMAIN full : k \in DOMAIN t /\ t[k] = full[k]
  BY <1>4, <1>5
<1>8. IsDescriptor(t)
  BY <1>1, <1>2, <1>4, <1>6 DEF IsDescriptor
<1>9. \A k \in DOMAIN desc : k \in DOMAIN t /\ t[k] = desc[k]
  BY <1>7 DEF Extended
<1>10. \A k \in DOMAIN t : k \in DOMAIN desc \/ t[k] \in Range(remote)
  BY <1>3, <1>6 DEF Extended
<1> QED BY <1>8, <1>9, <1>10 DEF Extended, t, x

LEMMA WithRemoteExtends ==
  ASSUME NEW desc, NEW remote, IsDescriptor(desc), IsDescriptor(remote)
  PROVE  Extended(WithRemote(desc, remote)[Len(remote)], desc, remote)
<1> DEFINE N == Len(remote)
           F == WithRemote(desc, remote)
           S == {n \in 0..N : Extended(F[n], desc, remote)}
<1>0. IsSeq(remote)
  BY DEF IsDescriptor
<1>1. /\ N \in Nat /\ F[0] = desc /\ DOMAIN remote = 1..N
      /\ \A n \in 1..N : F[n] = RemoteNext(F[n - 1], remote[n])
  BY <1>0, SeqFacts, WithRemoteDef
<1> HIDE DEF N, F
<1>2. 0 \in S
  <2>1. Extended(desc, desc, remote)
    BY DEF Extended
  <2> QED BY <1>1, <2>1
<1>3. \A n \in 0..(N - 1) : n \in S => n + 1 \in S
  <2> TAKE n \in 0..(N - 1)
  <2> SUFFICES ASSUME n \in S PROVE n + 1 \in S
    OBVIOUS
  <2>1. n + 1 \in 1..N /\ (n + 1) - 1 = n /\ n + 1 \in 0..N
    BY <1>1
  <2>2. \/ F[n + 1] = F[n]
        \/ F[n + 1] = Append(F[n], remote[n + 1])
    BY <1>1, <2>1 DEF RemoteNext
  <2>3. Extended(F[n], desc, remote)
    OBVIOUS
  <2>4. Extended(Append(F[n], remote[n + 1]), desc, remote)
    BY <1>1, <2>1, <2>3, ExtendedMore
  <2> QED BY <2>1, <2>2, <2>3, <2>4
<1>4. N \in S
  <2> HIDE DEF S
  <2>1. 0..N \subseteq S
    BY ONLY <1>1, <1>2, <1>3, UpToInduction
  <2> QED BY <1>1, <2>1
<1> QED BY <1>4 DEF F, N

LEMMA MeantName ==
  ASSUME NEW q, NEW s, NEW desc, Meant(q, s, desc)
  PROVE  \/ q.name = None
         \/ \E m \in 1..Len(desc) : /\ LastTold(desc, Len(desc), q.f, m)
                                    /\ q.name = NameSaid(desc[m])
         \/ \E j \in DOMAIN s : s[j].f = q.f /\ s[j].name = q.name
<1>1. PICK p : IsProps(p) /\ Means(p, s, desc, Len(desc)) /\ q = Typed(p)
  BY DEF Meant
<1>2. q.f = p.f /\ q.name = p.name
  BY <1>1, TypedFacts
<1>3. \/ p.name = None
      \/ \E m \in 1..Len(desc) : /\ LastTold(desc, Len(desc), p.f, m)
                                 /\ p.name = NameSaid(desc[m])
      \/ \E j \in DOMAIN s : s[j].f = p.f /\ s[j].name = p.name
  BY <1>1, Zenon DEF Means
<1> QED BY <1>2, <1>3, Zenon

\* The properties of a record set as it was read.
LEMMA FirstSettled ==
  ASSUME NEW desc, NEW props, NEW s, AllMeant(props, s, desc), NEW f,
         DOMAIN s = {}
  PROVE  Settled(props, desc, f)
<1> SUFFICES ASSUME NEW j \in DOMAIN props, props[j].f = f,
                    ~Told(desc, Len(desc), "type", f)
             PROVE  props[j].name = None
  BY DEF Settled
<1>1. Meant(props[j], s, desc)
  BY DEF AllMeant
<1>2. ~\E m \in 1..Len(desc) : LastTold(desc, Len(desc), f, m)
  BY DEF LastTold, Told
<1> DEFINE q == props[j]
<1>3. q.f = f /\ Meant(q, s, desc)
  BY <1>1
<1> HIDE DEF q
<1>4. q.name = None
  BY <1>2, <1>3, MeantName
<1> QED BY <1>4 DEF q

\* The names of types that the directives X give to fields.
NamesGiven(X) ==
  UNION {Range(x.fs) : x \in {y \in X : y.d = "type" /\ y.t.kind = "name"}}

\* Once it had an external descriptor too.
LEMMA MergedSettled ==
  ASSUME NEW desc, NEW full, NEW remote, NEW props, NEW s, NEW f,
         IsDescriptor(desc), Extended(full, desc, remote),
         AllMeant(props, s, full), Settled(s, desc, f),
         f \notin NamesGiven(Range(remote))
  PROVE  Settled(props, desc, f)
<1> SUFFICES ASSUME NEW j \in DOMAIN props, props[j].f = f,
                    ~Told(desc, Len(desc), "type", f)
             PROVE  props[j].name = None
  BY DEF Settled
<1> DEFINE q == props[j]
<1>1. q.f = f /\ Meant(q, s, full)
  BY DEF AllMeant
<1>2. DOMAIN full = 1..Len(full) /\ DOMAIN desc = 1..Len(desc)
  BY SeqFacts DEF Extended, IsDescriptor
<1> HIDE DEF q
<1>3. ASSUME NEW m \in 1..Len(full), LastTold(full, Len(full), f, m)
      PROVE  NameSaid(full[m]) = None
  <2>1. Says(full[m], "type", f)
    BY <1>3 DEF LastTold
  <2>2. m \notin DOMAIN desc
    <3>1. ASSUME m \in DOMAIN desc PROVE FALSE
      <4>1. full[m] = desc[m]
        BY <3>1 DEF Extended
      <4>2. Says(desc[m], "type", f) /\ m \in 1..Len(desc)
        BY <1>2, <2>1, <3>1, <4>1
      <4> QED BY <4>2 DEF Told
    <3> QED BY <3>1
  <2>3. full[m] \in Range(remote)
    BY <1>2, <2>2 DEF Extended
  <2> DEFINE x == full[m]
  <2>4. x.d = "type" /\ f \in Range(x.fs) /\ x \in Range(remote)
    BY <2>1, <2>3 DEF Says
  <2> HIDE DEF x
  <2>5. x.t.kind # "name"
    BY <2>4 DEF NamesGiven
  <2> QED BY <2>5 DEF NameSaid, x
<1>4. \A k \in DOMAIN s : s[k].f = f => s[k].name = None
  BY DEF Settled
<1>5. q.name = None
  BY <1>1, <1>3, <1>4, MeantName
<1> QED BY <1>5 DEF q

---------------------------------------------------------------------------
(* What a check leaves of a record set *)

\* What a check may not change of a record set, but for the fields whose
\* type the external descriptor names.
Alike(rset, old, Fs) ==
  /\ rset.limits = old.limits
  /\ rset.cons = old.cons
  /\ rset.recs = old.recs
  /\ rec_rset_key(rset) = rec_rset_key(old)
  /\ \A f \in Fs :
       /\ rec_rset_get_field_type(rset, f) = rec_rset_get_field_type(old, f)
       /\ f \in rec_rset_auto(rset) <=> f \in rec_rset_auto(old)

LEMMA SetFacts ==
  ASSUME NEW r, NEW desc
  PROVE  LET rset == rec_rset_set_descriptor(r, desc)
         IN /\ rset.desc = desc /\ rset.recs = r.recs
            /\ rset.reg = IF desc = NoDescriptor THEN r.reg ELSE rec_rset_update_types(desc)
            /\ rset.props = rec_rset_update_field_props(r.props, desc)
            /\ rset.limits = rec_rset_update_size_constraints(desc)
            /\ rset.cons = rec_rset_update_sex_constraints(desc)
  BY DEF rec_rset_set_descriptor

\* The descriptor is set again: what is of the fields comes from it alone.
LEMMA SetAgain ==
  ASSUME NEW old, NEW m, NEW desc, NEW s, NEW Fs, IsDescriptor(desc), OneKey(desc),
         old.desc = desc, AllMeant(old.props, s, desc), DOMAIN s = {},
         old.reg = IF desc = NoDescriptor THEN m.reg ELSE rec_rset_update_types(desc),
         old.limits = rec_rset_update_size_constraints(desc),
         old.cons = rec_rset_update_sex_constraints(desc),
         m.recs = old.recs, AreProps(m.props),
         \A f \in Fs : Settled(m.props, desc, f)
  PROVE  Alike(rec_rset_set_descriptor(m, desc), old, Fs)
<1> DEFINE rset == rec_rset_set_descriptor(m, desc)
           N == Len(desc)
<1>1. /\ rset.limits = old.limits /\ rset.cons = old.cons
      /\ rset.recs = old.recs /\ rset.reg = old.reg
      /\ rset.props = rec_rset_update_field_props(m.props, desc)
  BY SetFacts
<1> HIDE DEF rset
<1>2. AllMeant(rset.props, m.props, desc)
  BY <1>1, UpdateMeant
<1>3. rec_rset_key(rset) = rec_rset_key(old)
  <2>1. /\ \A f : Told(desc, Len(desc), "key", f) => rec_rset_key(rset) = f
        /\ (\A f : ~Told(desc, Len(desc), "key", f)) => rec_rset_key(rset) = None
    BY <1>2, KeyIs
  <2>2. /\ \A f : Told(desc, Len(desc), "key", f) => rec_rset_key(old) = f
        /\ (\A f : ~Told(desc, Len(desc), "key", f)) => rec_rset_key(old) = None
    BY KeyIs
  <2> QED BY <2>1, <2>2
<1>4. ASSUME NEW f \in Fs
      PROVE  /\ rec_rset_get_field_type(rset, f) = rec_rset_get_field_type(old, f)
             /\ f \in rec_rset_auto(rset) <=> f \in rec_rset_auto(old)
  <2>1. Settled(m.props, desc, f) /\ Settled(s, desc, f)
    BY DEF Settled
  <2>2. rec_rset_get_field_type(rset, f) = rec_rset_get_field_type(old, f)
    BY <1>1, <1>2, <2>1, TypeSame
  <2>3. f \in rec_rset_auto(rset) <=> f \in rec_rset_auto(old)
    BY <1>2, AutoIs
  <2> QED BY <2>2, <2>3
<1> QED BY <1>1, <1>3, <1>4 DEF Alike, rset

\* The directives of the external file.
ExternalDirectives == UNION {Range(outside.descs[n]) : n \in DOMAIN outside.descs}

\* A record set as it is loaded from the file.
Fresh(rset) ==
  \E r : r.props = << >> /\ rset = rec_rset_set_descriptor(r, rset.desc)

LEMMA FreshFacts ==
  ASSUME NEW rset, Fresh(rset), IsDescriptor(rset.desc)
  PROVE  /\ \E s : DOMAIN s = {} /\ AllMeant(rset.props, s, rset.desc)
         /\ rset.desc # NoDescriptor => rset.reg = rec_rset_update_types(rset.desc)
         /\ rset.limits = rec_rset_update_size_constraints(rset.desc)
         /\ rset.cons = rec_rset_update_sex_constraints(rset.desc)
<1>1. PICK r : r.props = << >> /\ rset = rec_rset_set_descriptor(r, rset.desc)
  BY DEF Fresh
<1> DEFINE s == r.props
           desc == rset.desc
<1>2. DOMAIN s = {} /\ AreProps(s)
  <2>1. s = << >>
    BY <1>1
  <2>2. IsSeq(s)
    BY <2>1 DEF IsSeq
  <2> QED BY <2>1, <2>2 DEF AreProps
<1>3. /\ rset.props = rec_rset_update_field_props(s, desc)
      /\ rset.reg = IF desc = NoDescriptor THEN r.reg ELSE rec_rset_update_types(desc)
      /\ rset.limits = rec_rset_update_size_constraints(desc)
      /\ rset.cons = rec_rset_update_sex_constraints(desc)
  <2>1. desc = rset.desc
    OBVIOUS
  <2> HIDE DEF desc
  <2>2. rset = rec_rset_set_descriptor(r, desc)
    BY <1>1, <2>1
  <2> QED BY <2>2, SetFacts
<1>4. AllMeant(rset.props, s, desc)
  BY <1>2, <1>3, UpdateMeant
<1> QED BY <1>2, <1>3, <1>4

\* What is merged into a record set is forgotten when its descriptor is set
\* again, but for the names of types that the external file gives.
LEMMA MergeForgotten ==
  ASSUME NEW rset, Fresh(rset), IsDescriptor(rset.desc), IsOutside(outside),
         rec_int_merge_remote(rset).ok,
         rec_int_check_descriptor(rec_int_merge_remote(rset).rset),
         NEW Fs, Fs \cap NamesGiven(ExternalDirectives) = {}
  PROVE  Alike(rec_rset_set_descriptor(rec_int_merge_remote(rset).rset, rset.desc),
               rset, Fs)
<1> DEFINE merge == rec_int_merge_remote(rset)
           m == merge.rset
           desc == rset.desc
           name == Of(desc, "rec")[1].fs[1]
           remote == outside.descs[name]
           full == WithRemote(desc, remote)[Len(remote)]
<1>1. \/ m = rset
      \/ /\ desc # NoDescriptor /\ name \in DOMAIN outside.descs
         /\ m = rec_rset_set_descriptor(rset, full)
  BY DEF rec_int_merge_remote
<1>2. rec_int_check_descriptor(m)
  OBVIOUS
<1> HIDE DEF m, name, merge
<1>3. PICK s : DOMAIN s = {} /\ AllMeant(rset.props, s, desc)
  BY FreshFacts
<1>4. /\ desc # NoDescriptor => rset.reg = rec_rset_update_types(desc)
      /\ rset.limits = rec_rset_update_size_constraints(desc)
      /\ rset.cons = rec_rset_update_sex_constraints(desc)
  BY FreshFacts
<1>5. \A d : d # NoDescriptor /\ m.desc = d => Cardinality(Directives(d, "key")) <= 1
  BY <1>2 DEF rec_int_check_descriptor
<1>6. \A f : Settled(rset.props, desc, f)
  BY <1>3, FirstSettled
<1>7. AreProps(rset.props)
  BY <1>3 DEF AllMeant
<1>8. ASSUME NEW d, IsDescriptor(d), m.desc = d,
             \A n \in DOMAIN desc : n \in DOMAIN d /\ d[n] = desc[n]
      PROVE  OneKey(desc)
  <2>1. CASE d = NoDescriptor
    <3>1. DOMAIN d = {} /\ DOMAIN desc = 1..Len(desc)
      BY <2>1, SeqFacts DEF NoDescriptor, IsDescriptor
    <3>2. 1..Len(desc) = {}
      BY <1>8, <3>1
    <3> QED BY <3>2 DEF OneKey, Told
  <2>2. CASE d # NoDescriptor
    <3>1. Cardinality(Directives(d, "key")) <= 1
      BY <1>5, <1>8, <2>2
    <3>2. IsSeq(d)
      BY <1>8 DEF IsDescriptor
    <3>3. Len(d) \in Nat /\ DOMAIN d = 1..Len(d)
      BY <3>2, SeqFacts
    <3>4. DOMAIN d \in SUBSET Nat
      BY <3>3
    <3>5. IsFiniteSet(1..Len(d))
      BY <3>3, FS_Interval
    <3>6. IsFiniteSet(DOMAIN d)
      BY <3>3, <3>5
    <3> QED BY <1>8, <3>1, <3>4, <3>6, KeysChecked
  <2> QED BY <2>1, <2>2
<1>9. CASE m = rset
  <2>1. OneKey(desc)
    BY <1>8, <1>9
  <2>2. Alike(rec_rset_set_descriptor(m, desc), rset, Fs)
    <3>1. rset.reg = IF desc = NoDescriptor THEN m.reg ELSE rec_rset_update_types(desc)
      BY <1>4, <1>9
    <3>2. m.recs = rset.recs /\ AreProps(m.props)
          /\ \A f \in Fs : Settled(m.props, desc, f)
      BY <1>6, <1>7, <1>9
    <3> HIDE DEF desc
    <3>3. rset.desc = desc /\ IsDescriptor(desc)
      BY DEF desc
    <3> QED BY <1>3, <1>4, <2>1, <3>1, <3>2, <3>3, SetAgain
  <2> QED BY <2>2 DEF m, merge
<1>10. CASE /\ desc # NoDescriptor /\ name \in DOMAIN outside.descs
            /\ m = rec_rset_set_descriptor(rset, full)
  <2>0. IsDescriptor(remote)
    BY <1>10 DEF IsOutside
  <2>1. Extended(full, desc, remote)
    BY <2>0, WithRemoteExtends
  <2>2. Range(remote) \subseteq ExternalDirectives
    BY <1>10 DEF ExternalDirectives
  <2> HIDE DEF full, remote
  <2>3. NamesGiven(Range(remote)) \subseteq NamesGiven(ExternalDirectives)
    BY <2>2 DEF NamesGiven
  <2>4. /\ m.desc = full /\ m.recs = rset.recs
        /\ m.props = rec_rset_update_field_props(rset.props, full)
    BY <1>10, SetFacts
  <2>5. AllMeant(m.props, rset.props, full)
    BY <1>7, <2>1, <2>4, UpdateMeant DEF Extended
  <2>6. AreProps(m.props)
    BY <2>5 DEF AllMeant
  <2>7. \A f \in Fs : Settled(m.props, desc, f)
    <3> TAKE f \in Fs
    <3>1. f \notin NamesGiven(Range(remote))
      BY <2>3
    <3> HIDE DEF desc
    <3>2. IsDescriptor(desc)
      BY DEF desc
    <3> QED BY <1>6, <2>1, <2>5, <3>1, <3>2, MergedSettled
  <2>8. OneKey(desc)
    <3>1. /\ IsDescriptor(full) /\ m.desc = full
          /\ \A n \in DOMAIN desc : n \in DOMAIN full /\ full[n] = desc[n]
      BY <2>1, <2>4 DEF Extended
    <3> QED BY <1>8, <3>1
  <2>9. Alike(rec_rset_set_descriptor(m, desc), rset, Fs)
    <3>1. rset.reg = IF desc = NoDescriptor THEN m.reg ELSE rec_rset_update_types(desc)
      BY <1>4, <1>10
    <3> HIDE DEF desc
    <3>3. rset.desc = desc /\ IsDescriptor(desc)
      BY DEF desc
    <3> QED BY <1>3, <1>4, <2>4, <2>6, <2>7, <2>8, <3>1, <3>3, SetAgain
  <2> QED BY <2>9 DEF m, merge
<1> QED BY <1>1, <1>9, <1>10

LEMMA LoadedFresh ==
  ASSUME IsFile(file), NEW i \in DOMAIN file
  PROVE  /\ DOMAIN Load(file) = DOMAIN file
         /\ Load(file)[i].desc = file[i].desc
         /\ Fresh(Load(file)[i])
<1> DEFINE r == [recs |-> file[i].recs, props |-> << >>,
                 reg |-> [n \in {} |-> NoType]]
           rset == Load(file)[i]
<1>1. DOMAIN Load(file) = DOMAIN file
      /\ rset = rec_rset_set_descriptor(r, file[i].desc)
  BY DEF Load
<1>2. r.props = << >>
  OBVIOUS
<1> HIDE DEF r, rset
<1>3. rset.desc = file[i].desc
  BY <1>1, SetFacts
<1>4. Fresh(rset)
  BY <1>1, <1>2, <1>3 DEF Fresh
<1> QED BY <1>1, <1>3, <1>4 DEF rset

\* What a check without error leaves of the record set it checks.
LEMMA CheckLeaves ==
  ASSUME NEW db, NEW i \in DOMAIN db, rec_int_check_rset(db, i, TRUE).ok
  PROVE  LET merge == rec_int_merge_remote(db[i])
         IN /\ merge.ok
            /\ rec_int_check_descriptor(merge.rset)
            /\ rec_int_check_rset(db, i, TRUE).db[i]
                 = rec_rset_set_descriptor(merge.rset, db[i].desc)
<1> DEFINE merge == rec_int_merge_remote(db[i])
           merged == [db EXCEPT ![i] = merge.rset]
           restored == [merged EXCEPT ![i] = rec_rset_set_descriptor(@, db[i].desc)]
           check == rec_int_check_rset(db, i, TRUE)
<1>1. Merged(db[i], TRUE) = merge
  BY DEF Merged
<1>2. /\ merge.ok /\ rec_int_check_descriptor(merged[i]) /\ check.db = restored
  BY <1>1 DEF rec_int_check_rset, CheckMerged
<1>3. merged[i] = merge.rset
  OBVIOUS
<1>4. restored[i] = rec_rset_set_descriptor(merge.rset, db[i].desc)
  OBVIOUS
<1> QED BY <1>2, <1>3, <1>4

\* No command changes the external file.
LEMMA OutsideKept ==
  ASSUME Next PROVE outside' = outside
<1>1. \A db, mode, c, given : Save(db, mode, c, given) => outside' = outside
  BY DEF Save
<1>2. \A mode, i, k, rec, auto, p : Recins(Load(file), i, k, rec, auto, p, mode)
                                    => outside' = outside
  BY <1>1 DEF Recins
<1>3. \A mode, i, k, f, v : Recset(Load(file), i, k, f, v, mode) => outside' = outside
  BY <1>1 DEF Recset
<1>4. \A mode, i, k : Recdel(Load(file), i, k, mode) => outside' = outside
  BY <1>1 DEF Recdel
<1>5. \A mode : RecfixAuto(Load(file), mode) => outside' = outside
  BY <1>1 DEF RecfixAuto
<1>6. \A p : RecfixEncrypt(Load(file), p) => outside' = outside
  BY <1>1, Zenon DEF RecfixEncrypt
<1>7. \A p, after : RecfixDecrypt(Load(file), p, after) => outside' = outside
  BY <1>1, Zenon DEF RecfixDecrypt
<1> QED BY <1>2, <1>3, <1>4, <1>5, <1>6, <1>7, NextIs, Zenon

LEMMA RestoresTyped ==
  ASSUME IsFile(file), IsOutside(outside)
  PROVE  CheckRestores
<1> DEFINE db == Load(file)
           Fs == Fields \ NamesGiven(ExternalDirectives)
<1>1. ASSUME NEW i \in DOMAIN db, rec_int_check_rset(db, i, TRUE).ok
      PROVE  Alike(rec_int_check_rset(db, i, TRUE).db[i], db[i], Fs)
  <2>1. DOMAIN db = DOMAIN file
    BY DEF Load
  <2>2. IsDescriptor(file[i].desc) /\ db[i].desc = file[i].desc /\ Fresh(db[i])
    BY <2>1, LoadedFresh DEF IsFile
  <2> DEFINE rset == db[i]
             merge == rec_int_merge_remote(rset)
  <2>3. /\ merge.ok /\ rec_int_check_descriptor(merge.rset)
        /\ rec_int_check_rset(db, i, TRUE).db[i]
             = rec_rset_set_descriptor(merge.rset, rset.desc)
    BY <1>1, CheckLeaves
  <2>4. Fresh(rset) /\ IsDescriptor(rset.desc)
    BY <2>2
  <2>5. Fs \cap NamesGiven(ExternalDirectives) = {}
    OBVIOUS
  <2> HIDE DEF rset, Fs, db
  <2>6. Alike(rec_rset_set_descriptor(merge.rset, rset.desc), rset, Fs)
    BY <2>3, <2>4, <2>5, MergeForgotten
  <2> QED BY <2>3, <2>6 DEF rset
<1>2. \A i \in DOMAIN db : rec_int_check_rset(db, i, TRUE).ok
        => Alike(rec_int_check_rset(db, i, TRUE).db[i], db[i], Fs)
  BY <1>1
<1> HIDE DEF db
<1>3. \A d \in {Load(file)} : \A i \in DOMAIN d :
        \A check \in {rec_int_check_rset(d, i, TRUE)} :
          check.ok => Alike(check.db[i], d[i], Fs)
  BY <1>2, Zenon DEF db
<1> QED BY <1>3, Zenon DEF CheckRestores, Alike, NamesGiven, ExternalDirectives

\* A check that merges an external descriptor into a record set and finds no
\* error leaves the limits, the constraints, the key, the types and the auto
\* fields that the record set had, but for the types that the external
\* descriptor gives by name (rec_rset_update_field_props keeps the names).
THEOREM MergeIsForgotten == Spec => []CheckRestores
<1> DEFINE Inv == FileTyped /\ IsOutside(outside)
<1>1. Init => IsOutside(outside)
  BY FilesAssumption DEF Init, FilesAssumption
<1>2. IsOutside(outside) /\ [Next]_vars => IsOutside(outside)'
  <2> SUFFICES ASSUME IsOutside(outside), [Next]_vars PROVE IsOutside(outside)'
    OBVIOUS
  <2>1. outside' = outside
    BY OutsideKept DEF vars
  <2> QED BY <2>1 DEF IsOutside
<1>3. FileTyped /\ IsOutside(outside) => CheckRestores
  BY RestoresTyped DEF FileTyped
<1> QED BY <1>1, <1>2, <1>3, FileAlwaysTyped, PTL DEF Spec
=============================================================================
