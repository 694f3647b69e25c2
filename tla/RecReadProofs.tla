--------------------------- MODULE RecReadProofs ---------------------------
(***************************************************************************)
(* What is read from a file is written back: the parser and the writer at  *)
(* the level of lines, for files of any length.                            *)
(***************************************************************************)
EXTENDS RecRead, RecTextProofs

---------------------------------------------------------------------------
(* The database *)

LEMMA AddedDef ==
  ASSUME NEW p, NEW N \in Nat, N = Len(p.out) - Len(parser.out)
  PROVE  /\ Added(p)[0] = [db |-> db, status |-> "file"]
         /\ \A n \in 1..N :
              Added(p)[n] = AddRset(Added(p)[n - 1], p.out[Len(parser.out) + n])
<1> DEFINE F == Added(p)
           b == [db |-> db, status |-> "file"]
           e(n) == p.out[Len(parser.out) + n]
           at(h, n) == IF n = 0 THEN b ELSE AddRset(h[n - 1], e(n))
           Upto(h, m) == h = [n \in 0..m |-> at(h, n)]
           S == {m \in Nat : \E h : Upto(h, m)}
<1>2. F = CHOOSE h : Upto(h, N)
  BY DEF Added
<1> HIDE DEF F, b, e
<1>3. 0 \in S
  <2> DEFINE h == [n \in 0..0 |-> b]
  <2>1. Upto(h, 0)
    OBVIOUS
  <2> HIDE DEF Upto, h
  <2> QED BY <2>1
<1>4. ASSUME NEW m \in S PROVE m + 1 \in S
  <2>1. PICK g : Upto(g, m)
    OBVIOUS
  <2> DEFINE h == [n \in 0..(m + 1) |-> IF n = m + 1 THEN at(g, n) ELSE g[n]]
  <2>2. m \in Nat
    OBVIOUS
  <2>3. ASSUME NEW n \in 0..(m + 1) PROVE h[n] = at(h, n)
    <3>1. CASE n = 0
      BY <2>1, <2>2, <3>1
    <3>2. CASE n # 0
      <4>1. h[n - 1] = g[n - 1]
        BY <2>2, <3>2
      <4>2. h[n] = at(g, n)
        BY <2>1, <2>2, <3>2
      <4> QED BY <3>2, <4>1, <4>2
    <3> QED BY <3>1, <3>2
  <2>4. Upto(h, m + 1)
    BY <2>2, <2>3
  <2> HIDE DEF Upto, h
  <2> QED BY <2>2, <2>4
<1>5. N \in S
  <2>1. S \in SUBSET Nat
    OBVIOUS
  <2> HIDE DEF S
  <2> QED BY <1>3, <1>4, <2>1, NatSetInduction
<1>6. Upto(F, N)
  <2> HIDE DEF Upto
  <2> QED BY <1>2, <1>5
<1>7. F[0] = b /\ \A n \in 1..N : F[n] = AddRset(F[n - 1], e(n))
  BY <1>6
<1> QED BY <1>7 DEF F, b, e

\* A record set goes to the end of the database unless one with its type is
\* there, which for anonymous records cannot be in one file.
LEMMA AddRsetAdds ==
  ASSUME NEW d \in Seq(Rsets), NEW r \in Rsets, d # << >> => r.desc # None,
         NEW s, s = [db |-> d, status |-> "file"]
  PROVE  \/ AddRset(s, r).status = "fatal"
         \/ AddRset(s, r) = [db |-> Append(d, r), status |-> "file"]
<1> DEFINE same == RsetsOfType(d, RsetType(r))
<1>1. s.db = d /\ s.status = "file"
  OBVIOUS
<1>2. CASE same = {}
  <2>1. AddRset(s, r) = [s EXCEPT !.db = Append(@, r)]
    BY <1>1, <1>2 DEF AddRset
  <2>2. [s EXCEPT !.db = Append(@, r)] = [db |-> Append(d, r), status |-> "file"]
    OBVIOUS
  <2> QED BY <2>1, <2>2
<1>3. CASE same # {}
  <2>1. d # << >>
    BY <1>3 DEF RsetsOfType
  <2>2. RsetType(r) # None
    BY <2>1, TypeIs
  <2>3. AddRset(s, r) = [s EXCEPT !.status = "fatal"]
    BY <1>1, <1>3, <2>2 DEF AddRset
  <2>4. AddRset(s, r).status = "fatal"
    BY <2>3
  <2> QED BY <2>4
<1> QED BY <1>2, <1>3

\* One file gives the record sets that its parser has completed, or an
\* error, if two have the same type.
LEMMA OneFileAdds ==
  ASSUME NEW p, p.out \in Seq(Rsets), DescribedDb(p.out),
         db \in Seq(Rsets), db = parser.out, Prefix(parser.out, p.out)
  PROVE  \/ AddNew(p).status = "fatal"
         \/ AddNew(p).status = "file" /\ AddNew(p).db = p.out
<1> DEFINE M == Len(parser.out)
           L == Len(p.out)
           N == L - M
           o == p.out
           d(n) == SubSeq(o, 1, M + n)
           A(n) == Added(p)[n]
           Good(n) == \/ A(n).status = "fatal"
                      \/ A(n) = [db |-> d(n), status |-> "file"]
           S == {n \in 0..N : Good(n)}
<1>1. M \in Nat /\ L \in Nat /\ M <= L /\ N \in Nat
      /\ o \in Seq(Rsets) /\ Len(o) = L /\ DescribedDb(o) /\ Prefix(db, o)
      /\ Len(db) = M /\ db \in Seq(Rsets)
  BY DEF Prefix
<1>2. A(0) = [db |-> db, status |-> "file"]
      /\ \A n \in 1..N : A(n) = AddRset(A(n - 1), o[M + n])
  BY <1>1, AddedDef
<1>3. AddNew(p) = A(N)
  BY DEF AddNew
<1> HIDE DEF A, M, L, o
<1>4. ASSUME NEW n \in 0..N
      PROVE  /\ d(n) \in Seq(Rsets) /\ Len(d(n)) = M + n
             /\ \A i \in 1..(M + n) : d(n)[i] = o[i]
  <2>1. M + n \in Nat /\ M + n <= L /\ \A i \in 1..(M + n) : o[i] \in Rsets
    BY <1>1
  <2> DEFINE k == M + n
  <2>2. k \in Nat /\ \A i \in 1..k : o[i] \in Rsets
    BY <2>1
  <2> HIDE DEF k
  <2>3. /\ SubSeq(o, 1, k) \in Seq(Rsets) /\ Len(SubSeq(o, 1, k)) = k
        /\ \A i \in 1..k : SubSeq(o, 1, k)[i] = o[i]
    BY <2>2, SubSeqProperties
  <2> QED BY <2>3 DEF k
<1> HIDE DEF d
<1>5. 0 \in S
  <2>1. 0 \in 0..N /\ M + 0 = M
    BY <1>1
  <2>2. d(0) = db
    <3>1. d(0) \in Seq(Rsets) /\ Len(d(0)) = M /\ \A i \in 1..M : d(0)[i] = o[i]
      BY <1>4, <2>1
    <3>2. \A i \in 1..M : db[i] = o[i]
      BY <1>1 DEF Prefix
    <3> QED BY <1>1, <3>1, <3>2, SeqEqual
  <2> QED BY <1>2, <2>1, <2>2
<1>6. ASSUME NEW n \in 0..(N - 1), n \in S PROVE n + 1 \in S
  <2>1. n + 1 \in 1..N /\ n + 1 \in 0..N /\ n \in 0..N /\ (n + 1) - 1 = n
        /\ M + (n + 1) = (M + n) + 1 /\ M + (n + 1) \in 1..L
    BY <1>1
  <2> DEFINE r == o[M + (n + 1)]
             s == A(n)
  <2>2. A(n + 1) = AddRset(s, r)
    BY <1>2, <2>1
  <2>3. CASE s.status = "fatal"
    <3>1. AddRset(s, r) = s
      BY <2>3 DEF AddRset
    <3> QED BY <2>1, <2>2, <2>3, <3>1
  <2>4. CASE s = [db |-> d(n), status |-> "file"]
    <3>1. r \in Rsets
      BY <1>1, <2>1
    <3>2. d(n) \in Seq(Rsets) /\ Len(d(n)) = M + n /\ M + n \in Nat
      BY <1>1, <1>4, <2>1
    <3>3. d(n) # << >> => r.desc # None
      <4>1. CASE M + n = 0
        BY <3>2, <4>1, EmptySeq
      <4>2. CASE M + n # 0
        <5>1. M + (n + 1) \in 2..Len(o)
          BY <1>1, <2>1, <3>2, <4>2
        <5> QED BY <1>1, <5>1 DEF DescribedDb
      <4> QED BY <4>1, <4>2
    <3>4. Append(d(n), r) = d(n + 1)
      <4> DEFINE a == d(n)
                 b == d(n + 1)
      <4>1. a \in Seq(Rsets) /\ Len(a) = M + n /\ \A i \in 1..(M + n) : a[i] = o[i]
        BY <1>4, <2>1
      <4>2. b \in Seq(Rsets) /\ Len(b) = M + (n + 1)
            /\ \A i \in 1..(M + (n + 1)) : b[i] = o[i]
        BY <1>4, <2>1
      <4> HIDE DEF a, b
      <4>3. IsAppend(b, a, r)
        <5>1. Len(a) + 1 = M + (n + 1) /\ Len(a) + 1 = Len(b) /\ M + n \in Nat
          BY <1>1, <2>1, <4>1, <4>2
        <5>2. b = [i \in 1..(Len(a) + 1) |-> b[i]]
          BY <4>2, <5>1
        <5>3. \A i \in 1..Len(a) : b[i] = a[i]
          BY <4>1, <4>2, <5>1
        <5>4. b[Len(a) + 1] = r
          BY <4>2, <5>1
        <5> QED BY <5>2, <5>3, <5>4 DEF IsAppend
      <4>4. b = Append(a, r)
        BY <3>1, <4>1, <4>3, AppendIs
      <4> QED BY <4>4 DEF a, b
    <3> HIDE DEF r, s
    <3>5. \/ AddRset(s, r).status = "fatal"
          \/ AddRset(s, r) = [db |-> Append(d(n), r), status |-> "file"]
      BY <2>4, <3>1, <3>2, <3>3, AddRsetAdds
    <3> QED BY <2>1, <2>2, <3>4, <3>5
  <2> QED BY <1>6, <2>3, <2>4
<1>7. Good(N)
  <2>1. 0..N \subseteq S
    <3> HIDE DEF S, N
    <3> QED BY <1>1, <1>5, <1>6, UpToInduction
  <2> QED BY <1>1, <2>1
<1>8. d(N) = o
  <2>1. N \in 0..N /\ M + N = L
    BY <1>1
  <2>2. d(N) \in Seq(Rsets) /\ Len(d(N)) = L /\ \A i \in 1..L : d(N)[i] = o[i]
    BY <1>4, <2>1
  <2> QED BY <1>1, <2>2, SeqEqual
<1>9. \/ A(N).status = "fatal"
      \/ A(N).status = "file" /\ A(N).db = o
  <2> HIDE DEF N
  <2> QED BY <1>7, <1>8
<1> QED BY <1>3, <1>9 DEF o

---------------------------------------------------------------------------
(* The first file *)

\* While the first file is read, its lines are those of the record sets that
\* are in the database, of the one being parsed, and of the record being
\* parsed; and then those of the database.
FirstFile ==
  /\ done = << >> /\ status # "rest"
  /\ status = "file" /\ ~parser.err => Parsed(parser, file) /\ db = parser.out
  /\ status \in {"open", "done"} =>
       /\ file \in Seq(AllLines)
       /\ NoField(file) \/ NonBlank(file) = DbLines(db)
ReadInv == nfiles \in Nat \ {0} /\ (nfiles = 1 => FirstFile)

LEMMA InitRead == Init => ReadInv
<1> SUFFICES ASSUME Init PROVE ReadInv
  OBVIOUS
<1>1. parser = NewParser /\ db = << >> /\ status = "file" /\ file = << >>
      /\ done = << >> /\ nfiles = 1
  BY DEF Init
<1>2. NewParser.out = << >>
  BY DEF NewParser
<1> QED BY <1>1, <1>2, NewParsed DEF ReadInv, FirstFile

\* The lines that can be read while the bound of the model allows.
LEMMA LinesAre ==
  ASSUME Len(done) \in Nat, Len(file) \in Nat, LineNo <= MaxLines
  PROVE  Lines \subseteq AllLines
<1>1. LineNo \in 1..MaxLines
  BY RecReadAssumption DEF LineNo
<1>2. LineNo \in Contents /\ Name \in Contents /\ REC \in Contents
      /\ TypeNames \subseteq Contents
  BY <1>1, RecReadAssumption, RecTextAssumption
<1> HIDE DEF LineNo
<1> QED BY <1>2 DEF Lines, AllLines, CommentLine, FieldLine

LEMMA ReadLineKeeps ==
  ASSUME ReadInv, NEW line \in Lines, ReadLine(line)
  PROVE  ReadInv'
<1>1. nfiles' = nfiles /\ done' = done /\ nfiles \in Nat \ {0}
  BY DEF ReadLine, ReadInv
<1>2. CASE nfiles # 1
  BY <1>1, <1>2 DEF ReadInv
<1>3. CASE nfiles = 1
  <2> DEFINE p == ParseLine(parser, line)
  <2>1. FirstFile /\ status = "file" /\ ~parser.err /\ Parsed(parser, file)
        /\ db = parser.out
    BY <1>3 DEF ReadInv, ReadLine, FirstFile
  <2>2. /\ parser' = p /\ file' = Append(file, line)
        /\ db' = AddNew(p).db /\ status' = AddNew(p).status
    BY DEF ReadLine
  <2>L. LineNo <= MaxLines /\ Len(done) \in Nat /\ Len(file) \in Nat
    BY <2>1 DEF ReadLine, FirstFile, Parsed
  <2>3. line \in AllLines /\ parser \in Parsers /\ ~parser.eof
    BY <2>1, <2>L, LinesAre DEF Parsed
  <2> HIDE DEF p
  <2>4. CASE line.k \in {"bad", "cut"}
    <3>1. p.err /\ p.out = parser.out
      BY <2>1, <2>3, <2>4 DEF p, ParseLine, Error, Parsers
    <3>2. status' = "file"
      <4> DEFINE N == Len(p.out) - Len(parser.out)
      <4>1. N = 0
        BY <2>3, <3>1 DEF Parsers
      <4>2. Added(p)[0] = [db |-> db, status |-> "file"]
        BY <4>1, AddedDef
      <4>3. AddNew(p) = [db |-> db, status |-> "file"]
        BY <4>1, <4>2 DEF AddNew
      <4> QED BY <2>2, <4>3
    <3>3. FirstFile'
      BY <1>1, <2>1, <2>2, <3>1, <3>2 DEF FirstFile
    <3> QED BY <1>1, <3>3 DEF ReadInv
  <2>5. CASE line.k \notin {"bad", "cut"}
    <3>1. Parsed(p, file') /\ OneMore(parser, p)
      BY <2>1, <2>2, <2>3, <2>5, ParseLineParsed DEF p
    <3>2. p.out \in Seq(Rsets) /\ DescribedDb(p.out) /\ Prefix(parser.out, p.out)
      BY <2>3, <3>1, ParsedOut, OneMorePrefix
    <3>3. db \in Seq(Rsets)
      BY <2>1, ParsedOut
    <3>4. \/ status' = "fatal"
          \/ status' = "file" /\ db' = p.out
      BY <2>1, <2>2, <3>2, <3>3, OneFileAdds
    <3>5. FirstFile'
      BY <1>1, <2>1, <2>2, <3>1, <3>4 DEF FirstFile
    <3> QED BY <1>1, <3>5 DEF ReadInv
  <2> QED BY <2>4, <2>5
<1> QED BY <1>2, <1>3

LEMMA ReadEofKeeps ==
  ASSUME ReadInv, ReadEof
  PROVE  ReadInv'
<1>1. nfiles' = nfiles /\ done' = done /\ file' = file /\ nfiles \in Nat \ {0}
  BY DEF ReadEof, ReadInv
<1>2. CASE nfiles # 1
  BY <1>1, <1>2 DEF ReadInv
<1>3. CASE nfiles = 1
  <2> DEFINE p == ParseEof(parser)
  <2>1. FirstFile /\ Parsed(parser, file) /\ db = parser.out
    BY <1>3 DEF ReadInv, ReadEof, FirstFile
  <2>2. /\ parser' = p /\ db' = AddNew(p).db
        /\ status' = IF AddNew(p).status = "fatal" THEN "fatal" ELSE "open"
    BY DEF ReadEof
  <2>3. /\ p.out \in Seq(Rsets) /\ DescribedDb(p.out) /\ Prefix(parser.out, p.out)
        /\ NoField(file) \/ NonBlank(file) = DbLines(p.out)
    BY <2>1, ParseEofParsed
  <2> HIDE DEF p
  <2>4. db \in Seq(Rsets)
    BY <2>1, ParsedOut
  <2>5. \/ AddNew(p).status = "fatal"
        \/ AddNew(p).status = "file" /\ AddNew(p).db = p.out
    BY <2>1, <2>3, <2>4, OneFileAdds
  <2>6. \/ status' = "fatal"
        \/ status' = "open" /\ db' = p.out
    BY <2>2, <2>5
  <2>7. FirstFile'
    BY <1>1, <2>1, <2>3, <2>6 DEF FirstFile, Parsed
  <2> QED BY <1>1, <2>7 DEF ReadInv
<1> QED BY <1>2, <1>3

LEMMA NextRead ==
  ASSUME ReadInv, [Next]_vars
  PROVE  ReadInv'
<1>1. ASSUME NEW line \in Lines, ReadLine(line) PROVE ReadInv'
  BY <1>1, ReadLineKeeps
<1>2. ASSUME NEW line \in Lines, RestOfFile(line) PROVE ReadInv'
  BY <1>2 DEF RestOfFile, ReadInv, FirstFile
<1>3. CASE ReadError
  BY <1>3 DEF ReadError, ReadInv, FirstFile
<1>4. CASE ReadEof
  BY <1>4, ReadEofKeeps
<1>5. CASE OpenFile
  BY <1>5 DEF OpenFile, ReadInv
<1>6. ASSUME NEW hasRset \in BOOLEAN, OpenFileWithoutDb(hasRset) PROVE ReadInv'
  BY <1>6 DEF OpenFileWithoutDb, ReadInv
<1>7. CASE Finish
  BY <1>7 DEF Finish, ReadInv, FirstFile
<1>8. CASE UNCHANGED vars
  BY <1>8 DEF vars, ReadInv, FirstFile
<1> QED BY <1>1, <1>2, <1>3, <1>4, <1>5, <1>6, <1>7, <1>8 DEF Next

LEMMA ReadInvLoses == ReadInv => NothingLost
<1> SUFFICES ASSUME ReadInv, status = "done", nfiles = 1,
                    \E i \in DOMAIN Text : Text[i].k = "field"
             PROVE  NonBlank(Write(db)) = NonBlank(Text)
  BY DEF NothingLost
<1>1. FirstFile /\ done = << >>
  BY DEF ReadInv, FirstFile
<1>2. Text = file
  BY <1>1, ConcatEmptySeq DEF FirstFile, Text
<1> QED BY <1>1, <1>2 DEF FirstFile, NoField, DbLines

\* What is read from a file that holds at least one field is written with
\* every field, every descriptor and every comment in its place, whatever the
\* file is and however long (rec_parse_rset, rec_write_db).
THEOREM NothingIsLost == Spec => []NothingLost
<1>1. ReadInv /\ [Next]_vars => ReadInv'
  BY NextRead
<1> QED BY <1>1, InitRead, ReadInvLoses, PTL DEF Spec

---------------------------------------------------------------------------
(* The order of the lines, over all the files *)

\* The numbers of the lines s grow, and are above lo and at most hi.
Rising(s, lo, hi) ==
  /\ s \in Seq(AllLines)
  /\ \A j \in 1..Len(s) :
       LineOf(s[j]) \in Nat /\ lo < LineOf(s[j]) /\ LineOf(s[j]) <= hi
  /\ \A j, k \in 1..Len(s) : j < k => LineOf(s[j]) < LineOf(s[k])

LEMMA RisingNone ==
  ASSUME NEW lo, NEW hi
  PROVE  Rising(<< >>, lo, hi)
<1>1. << >> \in Seq(AllLines) /\ 1..Len(<< >>) = {}
  BY NoLines
<1> QED BY <1>1 DEF Rising

LEMMA RisingOne ==
  ASSUME NEW x \in AllLines, NEW hi \in Nat, LineOf(x) = hi + 1
  PROVE  Rising(<<x>>, hi, hi + 1)
<1>1. <<x>> \in Seq(AllLines) /\ Len(<<x>>) = 1 /\ <<x>>[1] = x
  OBVIOUS
<1>2. \A j \in 1..Len(<<x>>) : j = 1
  BY <1>1
<1> QED BY <1>1, <1>2 DEF Rising

LEMMA RisingWider ==
  ASSUME NEW s, NEW lo \in Nat, NEW hi \in Nat, NEW l \in Nat, NEW h \in Nat,
         l <= lo, hi <= h, Rising(s, lo, hi)
  PROVE  Rising(s, l, h)
  BY DEF Rising

LEMMA RisingJoin ==
  ASSUME NEW a, NEW b, NEW lo \in Nat, NEW mid \in Nat, NEW hi \in Nat,
         lo <= mid, mid <= hi, Rising(a, lo, mid), Rising(b, mid, hi)
  PROVE  Rising(a \o b, lo, hi)
<1> DEFINE c == a \o b
<1>1. a \in Seq(AllLines) /\ b \in Seq(AllLines) /\ Len(a) \in Nat /\ Len(b) \in Nat
  BY DEF Rising
<1>2. /\ c \in Seq(AllLines) /\ Len(c) = Len(a) + Len(b)
      /\ \A i \in 1..(Len(a) + Len(b)) :
           c[i] = IF i <= Len(a) THEN a[i] ELSE b[i - Len(a)]
  BY <1>1, ConcatProperties
<1> HIDE DEF c
<1>3. ASSUME NEW i \in 1..Len(c)
      PROVE  \/ i \in 1..Len(a) /\ c[i] = a[i]
             \/ i > Len(a) /\ i - Len(a) \in 1..Len(b) /\ c[i] = b[i - Len(a)]
  BY <1>1, <1>2
<1>4. ASSUME NEW j \in 1..Len(c)
      PROVE  LineOf(c[j]) \in Nat /\ lo < LineOf(c[j]) /\ LineOf(c[j]) <= hi
  <2>1. CASE j \in 1..Len(a) /\ c[j] = a[j]
    BY <2>1 DEF Rising
  <2>2. CASE j - Len(a) \in 1..Len(b) /\ c[j] = b[j - Len(a)]
    BY <2>2 DEF Rising
  <2> QED BY <1>3, <2>1, <2>2
<1>5. ASSUME NEW j \in 1..Len(c), NEW k \in 1..Len(c), j < k
      PROVE  LineOf(c[j]) < LineOf(c[k])
  <2>1. CASE k \in 1..Len(a) /\ c[k] = a[k]
    <3>1. j \in 1..Len(a)
      BY <1>5, <2>1
    <3>2. c[j] = a[j]
      BY <1>1, <1>3, <3>1
    <3> QED BY <1>5, <2>1, <3>1, <3>2 DEF Rising
  <2>2. CASE k > Len(a) /\ k - Len(a) \in 1..Len(b) /\ c[k] = b[k - Len(a)]
    <3>1. LineOf(c[k]) \in Nat /\ mid < LineOf(c[k])
      BY <2>2 DEF Rising
    <3>2. CASE j \in 1..Len(a) /\ c[j] = a[j]
      <4>1. LineOf(c[j]) \in Nat /\ LineOf(c[j]) <= mid
        BY <3>2 DEF Rising
      <4> QED BY <3>1, <4>1
    <3>3. CASE j > Len(a) /\ j - Len(a) \in 1..Len(b) /\ c[j] = b[j - Len(a)]
      <4>1. j - Len(a) < k - Len(a)
        BY <1>1, <1>5
      <4> QED BY <2>2, <3>3, <4>1 DEF Rising
    <3> QED BY <1>3, <3>2, <3>3
  <2> QED BY <1>3, <2>1, <2>2
<1>6. Rising(c, lo, hi)
  BY <1>2, <1>4, <1>5 DEF Rising
<1> QED BY <1>6 DEF c

\* What the elements s are written as.
ElemsLines(s) == RsetLines([desc |-> None, dpos |-> 0, elems |-> s])

LEMMA ElemsRset ==
  ASSUME NEW s \in Seq(Elems)
  PROVE  /\ [desc |-> None, dpos |-> 0, elems |-> s] \in Rsets
         /\ ElemsLines(s) \in Seq(AllLines)
<1>1. Len(s) \in Nat
  OBVIOUS
<1>2. [desc |-> None, dpos |-> 0, elems |-> s] \in Rsets
  BY <1>1, RsetIs
<1> QED BY <1>2, RsetLinesAre DEF ElemsLines

LEMMA ElemsNone == ElemsLines(<< >>) = << >>
  BY NewRsetLines DEF ElemsLines, NewRset

LEMMA ElemsAppend ==
  ASSUME NEW s \in Seq(Elems), NEW e \in Elems
  PROVE  /\ Append(s, e) \in Seq(Elems)
         /\ ElemsLines(Append(s, e)) = ElemsLines(s) \o NonBlank(WriteElem(e))
<1> DEFINE r == [desc |-> None, dpos |-> 0, elems |-> s]
           q == [desc |-> None, dpos |-> 0, elems |-> Append(s, e)]
<1>1. r \in Rsets /\ r.elems = s /\ WithElems(r, Append(s, e)) = q
  BY ElemsRset DEF WithElems
<1>2. RsetLines(WithElems(r, Append(r.elems, e))) =
        RsetLines(r) \o NonBlank(WriteElem(e))
  <2> HIDE DEF r, q
  <2> QED BY <1>1, RsetAppend
<1>3. RsetLines(q) = RsetLines(r) \o NonBlank(WriteElem(e))
  <2> HIDE DEF r, q
  <2> QED BY <1>1, <1>2
<1>4. Append(s, e) \in Seq(Elems)
  BY AppendProperties
<1> QED BY <1>3, <1>4 DEF ElemsLines

LEMMA ElemsAddText ==
  ASSUME NEW s \in Seq(Elems), NEW c \in BOOLEAN, NEW v \in Contents,
         c => s # << >> /\ s[Len(s)].k = "comment"
  PROVE  ElemsLines(AddText(s, c, v)) = ElemsLines(s) \o <<CommentLine(v)>>
<1> DEFINE r == [desc |-> None, dpos |-> 0, elems |-> s]
           t == AddText(s, c, v)
           q == [desc |-> None, dpos |-> 0, elems |-> t]
<1>1. r \in Rsets /\ r.elems = s /\ r.dpos = 0 /\ WithElems(r, t) = q
  BY ElemsRset DEF WithElems
<1>2. s # << >> => 0 < Len(s)
  BY EmptySeq
<1>3. RsetLines(WithElems(r, AddText(r.elems, c, v))) =
        RsetLines(r) \o <<CommentLine(v)>>
  <2> HIDE DEF r, q, t
  <2> QED BY <1>1, <1>2, RsetAddText
<1> QED BY <1>1, <1>3 DEF ElemsLines

\* Neither the descriptor nor its place says how the elements are written.
LEMMA ElemsLinesOwn ==
  ASSUME NEW r \in Rsets
  PROVE  NonBlank(WriteRset([r EXCEPT !.desc = None])) = ElemsLines(r.elems)
<1> DEFINE a == [r EXCEPT !.desc = None]
           b == [desc |-> None, dpos |-> 0, elems |-> r.elems]
<1>1. a.desc = None /\ a.elems = r.elems /\ b.desc = None /\ b.elems = r.elems
  BY RsetFacts
<1> HIDE DEF a, b
<1>2. RsetMap(a) = RsetMap(b)
  BY <1>1 DEF RsetMap, Here, DescAt
<1>3. WriteRset(a) = FlattenSeq(RsetMap(a)) /\ WriteRset(b) = FlattenSeq(RsetMap(b))
  BY <1>1, WriteRsetIs
<1> QED BY <1>2, <1>3 DEF ElemsLines, RsetLines, a, b

LEMMA ElemsConcat ==
  ASSUME NEW s \in Seq(Elems), NEW t \in Seq(Elems)
  PROVE  ElemsLines(s \o t) = ElemsLines(s) \o ElemsLines(t)
<1> DEFINE N == Len(t)
           h(n) == SubSeq(t, 1, n)
           Good(n) == ElemsLines(s \o h(n)) = ElemsLines(s) \o ElemsLines(h(n))
           S == {n \in 0..N : Good(n)}
<1>1. N \in Nat /\ \A i \in 1..N : t[i] \in Elems
  OBVIOUS
<1>2. ASSUME NEW n \in 0..N
      PROVE  h(n) \in Seq(Elems) /\ Len(h(n)) = n /\ \A i \in 1..n : h(n)[i] = t[i]
  <2>1. n \in Nat /\ \A i \in 1..n : t[i] \in Elems
    BY <1>1
  <2> QED BY <2>1, SubSeqProperties
<1> HIDE DEF h
<1>3. 0 \in S
  <2>1. 0 \in 0..N
    BY <1>1
  <2>2. h(0) = << >>
    BY <1>2, <2>1, EmptySeq
  <2>3. s \o << >> = s /\ ElemsLines(s) \o << >> = ElemsLines(s)
    BY ElemsRset, ConcatEmptySeq
  <2> QED BY <2>1, <2>2, <2>3, ElemsNone
<1>4. ASSUME NEW n \in 0..(N - 1), n \in S PROVE n + 1 \in S
  <2>1. n \in 0..N /\ n + 1 \in 0..N /\ n + 1 \in 1..N /\ n \in Nat
    BY <1>1
  <2> DEFINE a == h(n)
             b == h(n + 1)
             e == t[n + 1]
  <2>2. e \in Elems /\ a \in Seq(Elems) /\ Len(a) = n
        /\ b \in Seq(Elems) /\ Len(b) = n + 1
        /\ (\A i \in 1..n : a[i] = t[i]) /\ (\A i \in 1..(n + 1) : b[i] = t[i])
    BY <1>1, <1>2, <2>1
  <2>3. ElemsLines(s \o a) = ElemsLines(s) \o ElemsLines(a)
    BY <1>4
  <2>4. b[n + 1] = e
    BY <2>1, <2>2, SMTT(30)
  <2> HIDE DEF a, b, e
  <2>5. IsAppend(b, a, e)
    <3>1. b = [i \in 1..(Len(a) + 1) |-> b[i]]
      BY <2>2
    <3>2. \A i \in 1..Len(a) : b[i] = a[i]
      BY <2>1, <2>2
    <3> QED BY <2>2, <2>4, <3>1, <3>2 DEF IsAppend
  <2>6. b = Append(a, e)
    BY <2>2, <2>5, AppendIs
  <2> DEFINE w == NonBlank(WriteElem(e))
  <2>7. ElemsLines(b) = ElemsLines(a) \o w /\ w \in Seq(AllLines)
    BY <2>2, <2>6, ElemsAppend, ElemLines
  <2>8. s \o b = Append(s \o a, e) /\ s \o a \in Seq(Elems)
    <3>1. b = a \o <<e>> /\ <<e>> \in Seq(Elems)
      BY <2>2, <2>5, AppendIs
    <3> DEFINE x == <<e>>
    <3> HIDE DEF x
    <3>2. s \o (a \o x) = (s \o a) \o x /\ s \o a \in Seq(Elems)
      BY <2>2, <3>1, ConcatAssociative, ConcatProperties, SMTT(30) DEF x
    <3>3. (s \o a) \o <<e>> = Append(s \o a, e)
      BY <2>2, <3>2, AppendIsConcat
    <3> QED BY <3>1, <3>2, <3>3 DEF x
  <2>9. ElemsLines(s \o b) = ElemsLines(s \o a) \o w
    BY <2>2, <2>8, ElemsAppend
  <2> DEFINE A == ElemsLines(s)
             B == ElemsLines(a)
  <2>10. A \in Seq(AllLines) /\ B \in Seq(AllLines)
    BY <2>2, ElemsRset
  <2>11. ElemsLines(s \o b) = (A \o B) \o w /\ ElemsLines(b) = B \o w
    BY <2>3, <2>7, <2>9
  <2> HIDE DEF A, B, w
  <2>12. (A \o B) \o w = A \o (B \o w)
    BY <2>7, <2>10, LinesConcat, SMTT(30)
  <2> QED BY <2>1, <2>11, <2>12 DEF A, b
<1>5. N \in S
  <2>1. 0..N \subseteq S
    <3> HIDE DEF S, N
    <3> QED BY <1>1, <1>3, <1>4, UpToInduction
  <2> QED BY <1>1, <2>1
<1>6. h(N) = t
  <2>1. h(N) \in Seq(Elems) /\ Len(h(N)) = N /\ \A i \in 1..N : h(N)[i] = t[i]
    BY <1>1, <1>2
  <2> QED BY <2>1, SeqEqual
<1> QED BY <1>5, <1>6

\* What a line does to the record set and to the record, apart from the
\* descriptor.
LEMMA EndRecordParts ==
  ASSUME NEW p, NEW f, Parsed(p, f)
  PROVE  LET q == [EndRecord(p) EXCEPT !.last = FALSE]
         IN /\ q.rec = << >> /\ EndRecord(p).out = q.out /\ EndRecord(p).rset = q.rset
            /\ \/ p.rec = << >> /\ q.out = p.out /\ q.rset.elems = p.rset.elems
               \/ /\ ~HasField(p.rec, REC) /\ q.out = p.out
                  /\ q.rset.elems = Append(p.rset.elems, Record(p.rec))
               \/ /\ HasField(p.rec, REC) /\ q.out = p.out
                  /\ q.rset.elems = p.rset.elems
               \/ /\ HasField(p.rec, REC) /\ q.out = Append(p.out, p.rset)
                  /\ q.rset.elems = << >>
<1> DEFINE q == [EndRecord(p) EXCEPT !.last = FALSE]
<1>1. p \in Parsers /\ p.rset \in Rsets
  BY DEF Parsed, Parsers
<1>2. DOMAIN p.rset = {"desc", "dpos", "elems"}
      /\ DOMAIN p = {"out", "rset", "rec", "last", "err", "eof"}
  BY <1>1 DEF Parsers, Rsets
<1>3. q.rec = << >> /\ EndRecord(p).out = q.out /\ EndRecord(p).rset = q.rset
  <2>1. q.rec = << >>
    BY EndRecordParsed
  <2>2. EndRecord(p).out = q.out /\ EndRecord(p).rset = q.rset
    OBVIOUS
  <2> QED BY <2>1, <2>2
<1>4. CASE p.rec = << >>
  <2>1. EndRecord(p) = p
    BY <1>4 DEF EndRecord
  <2>2. q.out = p.out /\ q.rset = p.rset
    BY <1>3, <2>1
  <2> QED BY <1>3, <1>4, <2>2
<1>5. CASE p.rec # << >> /\ ~HasField(p.rec, REC)
  <2>1. EndRecord(p) =
          [p EXCEPT !.rset.elems = Append(@, Record(p.rec)), !.rec = << >>]
    BY <1>5 DEF EndRecord
  <2>2. EndRecord(p).out = p.out
        /\ EndRecord(p).rset.elems = Append(p.rset.elems, Record(p.rec))
    BY <1>2, <2>1
  <2> QED BY <1>3, <1>5, <2>2
<1>6. CASE /\ p.rec # << >> /\ HasField(p.rec, REC)
           /\ NumRecords(p.rset) = 0 /\ p.rset.desc = None
  <2>1. EndRecord(p) =
          [p EXCEPT !.rset.desc = p.rec, !.rset.dpos = Len(p.rset.elems),
                    !.rec = << >>]
    BY <1>6 DEF EndRecord
  <2>2. EndRecord(p).out = p.out /\ EndRecord(p).rset.elems = p.rset.elems
    BY <1>2, <2>1
  <2> QED BY <1>3, <1>6, <2>2
<1>7. CASE /\ p.rec # << >> /\ HasField(p.rec, REC)
           /\ ~(NumRecords(p.rset) = 0 /\ p.rset.desc = None)
  <2>1. EndRecord(p) =
          [p EXCEPT !.out = Append(@, p.rset), !.rset = NewRset(p.rec),
                    !.rec = << >>]
    BY <1>7 DEF EndRecord
  <2>2. EndRecord(p).out = Append(p.out, p.rset)
        /\ EndRecord(p).rset.elems = << >>
    BY <1>2, <2>1 DEF NewRset
  <2> QED BY <1>3, <1>7, <2>2
<1> QED BY <1>4, <1>5, <1>6, <1>7

LEMMA HasFieldKept ==
  ASSUME NEW o \in Seq(Items)
  PROVE  /\ \A x \in Items : ~HasField(Append(o, x), REC) =>
                ~HasField(o, REC) /\ (x.k = "field" => x.n # REC)
         /\ \A c \in BOOLEAN, v \in Contents :
                (c => o # << >> /\ o[Len(o)].k = "comment")
                  => (~HasField(AddText(o, c, v), REC) => ~HasField(o, REC))
<1>0. Len(o) \in Nat /\ DOMAIN o = 1..Len(o)
  OBVIOUS
<1>1. ASSUME NEW x
      PROVE  /\ ~HasField(Append(o, x), REC) => ~HasField(o, REC)
             /\ ~HasField(Append(o, x), REC) => (x.k = "field" => x.n # REC)
  <2> DEFINE a == Append(o, x)
  <2>1. DOMAIN a = 1..(Len(o) + 1) /\ (\A i \in 1..Len(o) : a[i] = o[i])
        /\ a[Len(o) + 1] = x
    OBVIOUS
  <2> HIDE DEF a
  <2>2. HasField(o, REC) => HasField(a, REC)
    BY <1>0, <2>1 DEF HasField
  <2>3. x.k = "field" /\ x.n = REC => HasField(a, REC)
    BY <1>0, <2>1 DEF HasField
  <2> QED BY <2>2, <2>3 DEF a
<1>2. ASSUME NEW c \in BOOLEAN, NEW v \in Contents,
             c => o # << >> /\ o[Len(o)].k = "comment",
             HasField(o, REC)
      PROVE  HasField(AddText(o, c, v), REC)
  <2>1. CASE ~c
    BY <1>1, <1>2, <2>1 DEF AddText
  <2>2. CASE c
    <3>1. PICK i \in 1..Len(o) : o[i].k = "field" /\ o[i].n = REC
      BY <1>0, <1>2 DEF HasField
    <3>2. i # Len(o)
      BY <1>2, <2>2, <3>1
    <3>3. AddText(o, c, v) = [o EXCEPT ![Len(o)].texts = Append(@, v)]
      BY <2>2 DEF AddText
    <3>4. i \in DOMAIN AddText(o, c, v) /\ AddText(o, c, v)[i] = o[i]
      BY <1>0, <3>2, <3>3
    <3> QED BY <3>1, <3>4 DEF HasField
  <2> QED BY <2>1, <2>2
<1> QED BY <1>1, <1>2

\* What the parser p has of the lines above lo and up to hi is in their
\* order.
RisingRset(r, lo, hi) == Rising(ElemsLines(r.elems), lo, hi)
RisingOut(out, lo, hi) == \A m \in 1..Len(out) : RisingRset(out[m], lo, hi)
Rises(p, lo, hi) ==
  /\ RisingOut(p.out, lo, hi) /\ RisingRset(p.rset, lo, hi)
  /\ ~HasField(p.rec, REC) =>
       Rising(ElemsLines(p.rset.elems) \o RecordLines(p.rec), lo, hi)

LEMMA RisingOutAppend ==
  ASSUME NEW d \in Seq(Rsets), NEW r \in Rsets, NEW lo, NEW hi,
         RisingOut(d, lo, hi), RisingRset(r, lo, hi)
  PROVE  RisingOut(Append(d, r), lo, hi)
<1> DEFINE a == Append(d, r)
<1>1. Len(a) = Len(d) + 1 /\ (\A i \in 1..Len(d) : a[i] = d[i])
      /\ a[Len(d) + 1] = r /\ Len(d) \in Nat
  BY AppendProperties
<1> HIDE DEF a
<1>2. ASSUME NEW m \in 1..Len(a) PROVE RisingRset(a[m], lo, hi)
  <2>1. CASE m = Len(d) + 1
    BY <1>1, <2>1
  <2>2. CASE m # Len(d) + 1
    <3>1. m \in 1..Len(d)
      BY <1>1, <2>2
    <3> QED BY <1>1, <3>1 DEF RisingOut
  <2> QED BY <2>1, <2>2
<1> QED BY <1>2 DEF RisingOut, a

LEMMA RisingOutWider ==
  ASSUME NEW d, NEW lo \in Nat, NEW hi \in Nat, NEW l \in Nat, NEW h \in Nat,
         l <= lo, hi <= h, RisingOut(d, lo, hi)
  PROVE  RisingOut(d, l, h)
  BY RisingWider DEF RisingOut, RisingRset

LEMMA RisesWider ==
  ASSUME NEW p, NEW lo \in Nat, NEW hi \in Nat, NEW h \in Nat,
         hi <= h, Rises(p, lo, hi)
  PROVE  Rises(p, lo, h)
<1>1. lo <= lo
  OBVIOUS
<1> QED BY <1>1, RisingWider, RisingOutWider DEF Rises, RisingRset

LEMMA EndRecordRises ==
  ASSUME NEW p, NEW f, Parsed(p, f), NEW lo, NEW hi, Rises(p, lo, hi)
  PROVE  Rises([EndRecord(p) EXCEPT !.last = FALSE], lo, hi)
<1> DEFINE q == [EndRecord(p) EXCEPT !.last = FALSE]
<1>1. /\ q.rec = << >>
      /\ \/ p.rec = << >> /\ q.out = p.out /\ q.rset.elems = p.rset.elems
         \/ /\ ~HasField(p.rec, REC) /\ q.out = p.out
            /\ q.rset.elems = Append(p.rset.elems, Record(p.rec))
         \/ /\ HasField(p.rec, REC) /\ q.out = p.out
            /\ q.rset.elems = p.rset.elems
         \/ /\ HasField(p.rec, REC) /\ q.out = Append(p.out, p.rset)
            /\ q.rset.elems = << >>
  BY EndRecordParts
<1> HIDE DEF q
<1>2. p.out \in Seq(Rsets) /\ p.rset \in Rsets /\ p.rec \in Seq(Items)
      /\ p.rset.elems \in Seq(Elems)
  BY RsetFacts DEF Parsed, Parsers
<1>3. RisingOut(p.out, lo, hi) /\ RisingRset(p.rset, lo, hi)
  BY DEF Rises
<1>4. RisingOut(q.out, lo, hi)
  BY <1>1, <1>2, <1>3, RisingOutAppend
<1>5. Rising(ElemsLines(q.rset.elems), lo, hi)
  <2>1. CASE q.rset.elems = p.rset.elems
    BY <1>3, <2>1 DEF RisingRset
  <2>2. CASE q.rset.elems = << >>
    BY <2>2, ElemsNone, RisingNone
  <2>3. CASE /\ ~HasField(p.rec, REC)
             /\ q.rset.elems = Append(p.rset.elems, Record(p.rec))
    <3>1. ElemsLines(q.rset.elems) = ElemsLines(p.rset.elems) \o RecordLines(p.rec)
      BY <1>2, <2>3, RecordElem, ElemsAppend
    <3> QED BY <2>3, <3>1 DEF Rises
  <2> QED BY <1>1, <2>1, <2>2, <2>3
<1>6. ElemsLines(q.rset.elems) \o RecordLines(q.rec) = ElemsLines(q.rset.elems)
  <2>1. ElemsLines(q.rset.elems) \in Seq(AllLines)
    BY <1>5 DEF Rising
  <2> QED BY <1>1, <2>1, NoRecordLines, ConcatEmptySeq
<1>7. Rises(q, lo, hi)
  BY <1>4, <1>5, <1>6 DEF Rises, RisingRset
<1> QED BY <1>7 DEF q

LEMMA ParseLineRises ==
  ASSUME NEW p, NEW f, Parsed(p, f), NEW line \in AllLines,
         line.k # "bad", line.k # "cut",
         NEW lo \in Nat, NEW hi \in Nat, lo <= hi, Rises(p, lo, hi),
         line.k = "comment" => line.of = hi + 1,
         line.k = "field" => line.n = REC \/ line.v = hi + 1
  PROVE  Rises(ParseLine(p, line), lo, hi + 1)
<1> DEFINE q == ParseLine(p, line)
<1>1. p \in Parsers /\ ~p.err /\ ~p.eof /\ Continues(p) /\ p.last \in BOOLEAN
      /\ p.out \in Seq(Rsets) /\ p.rset \in Rsets /\ p.rec \in Seq(Items)
      /\ p.rset.elems \in Seq(Elems)
  BY RsetFacts DEF Parsed, Parsers
<1>2. DOMAIN p.rset = {"desc", "dpos", "elems"}
      /\ DOMAIN p = {"out", "rset", "rec", "last", "err", "eof"}
  BY <1>1 DEF Parsers, Rsets
<1>3. hi + 1 \in Nat /\ hi <= hi + 1 /\ lo <= lo
  OBVIOUS
<1>4. Rises(p, lo, hi + 1)
  BY <1>3, RisesWider
<1> DEFINE E == ElemsLines(p.rset.elems)
           C == RecordLines(p.rec)
<1>5. E \in Seq(AllLines) /\ C \in Seq(AllLines) /\ Rising(E, lo, hi)
      /\ (~HasField(p.rec, REC) => Rising(E \o C, lo, hi))
  BY <1>1, ElemsRset, RecordLinesAre DEF Rises, RisingRset
<1>6. CASE line.k = "blank"
  <2>1. q = [EndRecord(p) EXCEPT !.last = FALSE]
    BY <1>1, <1>6 DEF ParseLine
  <2>2. Rises([EndRecord(p) EXCEPT !.last = FALSE], lo, hi)
    BY EndRecordRises
  <2> HIDE DEF q
  <2>3. Rises(q, lo, hi + 1)
    BY <1>3, <2>1, <2>2, RisesWider
  <2> QED BY <2>3 DEF q
<1>7. CASE line.k = "field"
  <2> DEFINE x == Field(line.n, line.v)
             D == <<line>>
  <2>1. x \in Items /\ NonBlank(WriteItem(x)) = D /\ x.k = "field" /\ x.n = line.n
    BY <1>7, LineKinds DEF Field
  <2>2. q.out = p.out /\ q.rset = p.rset /\ q.rec = Append(p.rec, x)
    BY <1>1, <1>2, <1>7 DEF ParseLine
  <2> HIDE DEF q, x
  <2>3. RecordLines(q.rec) = C \o D
    BY <1>1, <2>1, <2>2, RecordAppend
  <2>4. ~HasField(q.rec, REC) => Rising(E \o RecordLines(q.rec), lo, hi + 1)
    <3> SUFFICES ASSUME ~HasField(q.rec, REC)
                 PROVE  Rising(E \o RecordLines(q.rec), lo, hi + 1)
      OBVIOUS
    <3>1. ~HasField(p.rec, REC) /\ line.n # REC
      BY <1>1, <2>1, <2>2, HasFieldKept
    <3>2. LineOf(line) = hi + 1
      BY <1>7, <3>1 DEF LineOf
    <3>3. Rising(D, hi, hi + 1) /\ Rising(E \o C, lo, hi)
      BY <1>5, <3>1, <3>2, RisingOne
    <3> HIDE DEF E, C, D
    <3>4. Rising((E \o C) \o D, lo, hi + 1)
      BY <1>3, <3>3, RisingJoin
    <3>5. D \in Seq(AllLines)
      BY <3>3 DEF Rising
    <3>6. (E \o C) \o D = E \o (C \o D)
      BY <1>5, <3>5, LinesConcat
    <3> QED BY <2>3, <3>4, <3>6
  <2>5. Rises(q, lo, hi + 1)
    BY <1>4, <2>2, <2>4 DEF Rises
  <2> QED BY <2>5 DEF q
<1> DEFINE v == line.of
           D == <<CommentLine(v)>>
<1>8. line.k = "comment" => v \in Contents /\ Rising(D, hi, hi + 1) /\ D \in Seq(AllLines)
  <2> SUFFICES ASSUME line.k = "comment"
               PROVE  v \in Contents /\ Rising(D, hi, hi + 1) /\ D \in Seq(AllLines)
    OBVIOUS
  <2>1. v \in Contents /\ line = CommentLine(v)
    BY LineKinds
  <2>2. LineOf(line) = hi + 1
    BY <2>1 DEF LineOf, CommentLine
  <2>3. Rising(<<line>>, hi, hi + 1)
    BY <2>2, RisingOne
  <2> QED BY <2>1, <2>3 DEF Rising
<1>9. CASE line.k = "comment" /\ p.rec = << >>
  <2> DEFINE s == AddText(p.rset.elems, p.last, v)
  <2>1. q.out = p.out /\ q.rset.elems = s /\ q.rec = << >>
    <3> HIDE DEF v, s
    <3>1. q = [p EXCEPT !.rset.elems = AddText(@, p.last, v), !.last = TRUE]
      BY <1>1, <1>9 DEF ParseLine, v
    <3>2. p.rset.elems \in Seq(Elems)
      BY <1>1
    <3> QED BY <1>2, <1>9, <3>1 DEF s
  <2>2. ElemsLines(s) = E \o D
    <3>1. p.last => p.rset.elems # << >> /\ p.rset.elems[Len(p.rset.elems)].k = "comment"
      BY <1>1, <1>9 DEF Continues
    <3>2. v \in Contents
      BY <1>8, <1>9
    <3> HIDE DEF v
    <3> QED BY <1>1, <3>1, <3>2, ElemsAddText
  <2> HIDE DEF E, D, s, q
  <2>3. Rising(E \o D, lo, hi + 1)
    BY <1>3, <1>5, <1>8, <1>9, RisingJoin
  <2>4. E \o D \in Seq(AllLines)
    BY <2>3 DEF Rising
  <2>5. ElemsLines(q.rset.elems) = E \o D /\ RecordLines(q.rec) = << >>
        /\ (E \o D) \o << >> = E \o D
    BY <2>1, <2>2, <2>4, NoRecordLines, ConcatEmptySeq
  <2>6. RisingOut(q.out, lo, hi + 1)
    BY <1>4, <2>1 DEF Rises
  <2>7. Rises(q, lo, hi + 1)
    BY <2>3, <2>5, <2>6 DEF Rises, RisingRset
  <2> QED BY <2>7 DEF q
<1>10. CASE line.k = "comment" /\ p.rec # << >>
  <2> DEFINE rec == AddText(p.rec, p.last, v)
  <2>1. q.out = p.out /\ q.rset = p.rset /\ q.rec = rec
    BY <1>1, <1>2, <1>10 DEF ParseLine
  <2>2. RecordLines(rec) = C \o D /\ (~HasField(rec, REC) => ~HasField(p.rec, REC))
    <3>1. p.last => p.rec[Len(p.rec)].k = "comment"
      BY <1>1, <1>10 DEF Continues
    <3>2. v \in Contents
      BY <1>8, <1>10
    <3> HIDE DEF v
    <3> QED BY <1>1, <1>10, <3>1, <3>2, RecordAddText, HasFieldKept
  <2> HIDE DEF C, D, rec, q
  <2>3. ~HasField(q.rec, REC) => Rising(E \o RecordLines(q.rec), lo, hi + 1)
    <3> SUFFICES ASSUME ~HasField(q.rec, REC)
                 PROVE  Rising(E \o RecordLines(q.rec), lo, hi + 1)
      OBVIOUS
    <3>1. Rising(E \o C, lo, hi)
      BY <1>5, <2>1, <2>2
    <3> HIDE DEF E
    <3>2. Rising((E \o C) \o D, lo, hi + 1)
      BY <1>3, <1>8, <1>10, <3>1, RisingJoin
    <3>3. (E \o C) \o D = E \o (C \o D)
      BY <1>5, <1>8, <1>10, LinesConcat, SMTT(30)
    <3> QED BY <2>1, <2>2, <3>2, <3>3
  <2>4. Rises(q, lo, hi + 1)
    BY <1>4, <2>1, <2>3 DEF Rises
  <2> QED BY <2>4 DEF q
<1>11. line.k \in {"blank", "field", "comment"}
  BY LineKinds
<1> QED BY <1>6, <1>7, <1>9, <1>10, <1>11

LEMMA ParseEofRises ==
  ASSUME NEW p, NEW f, Parsed(p, f), NEW lo, NEW hi, Rises(p, lo, hi)
  PROVE  RisingOut(ParseEof(p).out, lo, hi)
<1> DEFINE q == ParseEof(p)
           s == EndRecord(p)
           t == [s EXCEPT !.last = FALSE]
<1>1. p \in Parsers /\ ~p.err
  BY DEF Parsed
<1>2. s.out = t.out /\ s.rset = t.rset
  OBVIOUS
<1>3. t.out \in Seq(Rsets) /\ t.rset \in Rsets
  BY EndRecordParsed DEF Parsed, Parsers
<1>4. RisingOut(t.out, lo, hi) /\ RisingRset(t.rset, lo, hi)
  BY EndRecordRises DEF Rises
<1>5. DOMAIN s = {"out", "rset", "rec", "last", "err", "eof"}
  BY <1>1 DEF EndRecord, Parsers
<1>6. q = IF s.rset.desc # None \/ NumRecords(s.rset) > 0
          THEN [s EXCEPT !.out = Append(@, s.rset), !.eof = TRUE,
                         !.rset = NewRset(None)]
          ELSE [s EXCEPT !.eof = TRUE]
  BY <1>1 DEF ParseEof
<1> HIDE DEF q, s, t
<1>7. q.out = Append(s.out, s.rset) \/ q.out = s.out
  BY <1>5, <1>6
<1>8. RisingOut(q.out, lo, hi)
  BY <1>2, <1>3, <1>4, <1>7, RisingOutAppend
<1> QED BY <1>8 DEF q

AddStates == [db : Seq(Rsets), status : {"file", "rest", "fatal"}]

\* The elements of anonymous records go behind those of earlier files.
LEMMA AddRsetRises ==
  ASSUME NEW s \in AddStates, NEW r \in Rsets,
         NEW lo \in Nat, NEW hi \in Nat, lo <= hi,
         RisingOut(s.db, 0, hi), RisingRset(r, lo, hi),
         r.desc = None => RisingOut(s.db, 0, lo)
  PROVE  AddRset(s, r) \in AddStates /\ RisingOut(AddRset(s, r).db, 0, hi)
<1> DEFINE d == s.db
           same == RsetsOfType(d, RsetType(r))
<1>0. d \in Seq(Rsets) /\ s = [db |-> d, status |-> s.status]
      /\ s.status \in {"file", "rest", "fatal"}
  BY DEF AddStates
<1>1. CASE s.status # "file"
  <2>1. AddRset(s, r) = s
    BY <1>1 DEF AddRset
  <2> QED BY <2>1
<1>2. CASE s.status = "file" /\ same = {}
  <2>1. AddRset(s, r) = [s EXCEPT !.db = Append(@, r)]
    BY <1>2 DEF AddRset
  <2>2. AddRset(s, r) = [db |-> Append(d, r), status |-> "file"]
    BY <1>0, <1>2, <2>1
  <2>3. Append(d, r) \in Seq(Rsets)
    <3> HIDE DEF d
    <3> QED BY <1>0, AppendProperties
  <2>4. RisingOut(Append(d, r), 0, hi)
    <3>1. RisingRset(r, 0, hi)
      BY RisingWider DEF RisingRset
    <3> QED BY <1>0, <3>1, RisingOutAppend
  <2> QED BY <2>2, <2>3, <2>4 DEF AddStates
<1>3. CASE s.status = "file" /\ same # {} /\ RsetType(r) # None
  <2>1. AddRset(s, r) = [s EXCEPT !.status = "fatal"]
    BY <1>3 DEF AddRset
  <2>2. AddRset(s, r) = [db |-> d, status |-> "fatal"]
    BY <1>0, <2>1
  <2> QED BY <1>0, <2>2 DEF AddStates
<1>4. CASE s.status = "file" /\ same # {} /\ RsetType(r) = None
  <2> DEFINE e == [i \in DOMAIN d |->
                     IF i \in same
                     THEN [d[i] EXCEPT !.elems = @ \o r.elems]
                     ELSE d[i]]
  <2>1. AddRset(s, r) = [db |-> e, status |-> "rest"]
    BY <1>4 DEF AddRset
  <2>2. r.desc = None
    BY <1>4, TypeIs
  <2>3. RisingOut(d, 0, lo)
    BY <2>2
  <2>4. r.elems \in Seq(Elems) /\ Rising(ElemsLines(r.elems), lo, hi)
    BY RsetFacts DEF RisingRset
  <2> HIDE DEF same, d
  <2>5. ASSUME NEW i \in 1..Len(d)
        PROVE  e[i] \in Rsets /\ RisingRset(e[i], 0, hi)
    <3> DEFINE x == d[i]
               y == [x EXCEPT !.elems = @ \o r.elems]
    <3>1. x \in Rsets /\ RisingRset(x, 0, lo) /\ RisingRset(x, 0, hi) /\ i \in DOMAIN d
      BY <1>0, <2>3 DEF RisingOut, d
    <3>2. e[i] = IF i \in same THEN y ELSE x
      BY <3>1
    <3> HIDE DEF e, x
    <3>3. y \in Rsets /\ y.elems = x.elems \o r.elems
      <4> DEFINE T == [desc : {None} \cup Descs, dpos : Nat, elems : Seq(Elems)]
                 c == x.elems \o r.elems
      <4>1. x \in T /\ x.elems \in Seq(Elems) /\ x.dpos <= Len(x.elems)
        BY <3>1 DEF Rsets
      <4>2. c \in Seq(Elems) /\ Len(x.elems) <= Len(c) /\ Len(x.elems) \in Nat
            /\ Len(c) \in Nat
        <5> DEFINE a == x.elems
                   b == r.elems
        <5>1. a \in Seq(Elems) /\ b \in Seq(Elems)
          BY <2>4, <4>1
        <5> HIDE DEF a, b
        <5>2. a \o b \in Seq(Elems) /\ Len(a \o b) = Len(a) + Len(b)
              /\ Len(a) \in Nat /\ Len(b) \in Nat
          BY <5>1, ConcatProperties
        <5>3. Len(a) <= Len(a \o b) /\ Len(a \o b) \in Nat
          BY <5>2
        <5> QED BY <5>2, <5>3 DEF a, b
      <4> HIDE DEF c
      <4>3. y = [x EXCEPT !.elems = c]
        BY DEF c
      <4> HIDE DEF y
      <4>4. y \in T /\ y.elems = c /\ y.dpos = x.dpos
        BY <4>1, <4>2, <4>3
      <4>5. y.dpos <= Len(y.elems)
        BY <4>1, <4>2, <4>4
      <4> QED BY <4>4, <4>5 DEF Rsets, c
    <3> HIDE DEF y
    <3>4. RisingRset(y, 0, hi)
      <4>1. x.elems \in Seq(Elems)
        BY <3>1, RsetFacts
      <4>2. ElemsLines(y.elems) = ElemsLines(x.elems) \o ElemsLines(r.elems)
        BY <2>4, <3>3, <4>1, ElemsConcat
      <4>3. Rising(ElemsLines(x.elems), 0, lo) /\ 0 \in Nat /\ 0 <= lo
        BY <3>1 DEF RisingRset
      <4>4. Rising(ElemsLines(x.elems) \o ElemsLines(r.elems), 0, hi)
        BY <2>4, <4>3, RisingJoin
      <4> QED BY <4>2, <4>4 DEF RisingRset
    <3> QED BY <3>1, <3>2, <3>3, <3>4
  <2>6. e \in Seq(Rsets) /\ Len(e) = Len(d)
    <3>1. DOMAIN d = 1..Len(d) /\ Len(d) \in Nat
      BY <1>0 DEF d
    <3> DEFINE n == Len(d)
    <3>2. e \in [1..n -> Rsets] /\ n \in Nat
      BY <2>5, <3>1
    <3> HIDE DEF n, e
    <3>3. e \in Seq(Rsets) /\ Len(e) = n
      BY <3>2
    <3> QED BY <3>3 DEF n
  <2> HIDE DEF e
  <2>7. RisingOut(e, 0, hi)
    BY <2>5, <2>6 DEF RisingOut
  <2> QED BY <2>1, <2>6, <2>7 DEF AddStates
<1> QED BY <1>1, <1>2, <1>3, <1>4

LEMMA AddNewRises ==
  ASSUME NEW p, p.out \in Seq(Rsets), DescribedDb(p.out), db \in Seq(Rsets),
         parser.out \in Seq(Rsets), Prefix(parser.out, p.out),
         NEW lo \in Nat, NEW hi \in Nat, lo <= hi,
         RisingOut(db, 0, hi), RisingOut(p.out, lo, hi),
         parser.out = << >> => RisingOut(db, 0, lo)
  PROVE  /\ AddNew(p) \in AddStates /\ RisingOut(AddNew(p).db, 0, hi)
         /\ p.out = << >> => AddNew(p).db = db
<1> DEFINE M == Len(parser.out)
           L == Len(p.out)
           N == L - M
           o == p.out
           A(n) == Added(p)[n]
           Good(n) == /\ A(n) \in AddStates /\ RisingOut(A(n).db, 0, hi)
                      /\ M + n = 0 => RisingOut(A(n).db, 0, lo)
           S == {n \in 0..N : Good(n)}
<1>1. M \in Nat /\ L \in Nat /\ M <= L /\ N \in Nat
      /\ o \in Seq(Rsets) /\ Len(o) = L /\ DescribedDb(o) /\ RisingOut(o, lo, hi)
  BY DEF Prefix
<1>2. A(0) = [db |-> db, status |-> "file"]
      /\ \A n \in 1..N : A(n) = AddRset(A(n - 1), o[M + n])
  BY <1>1, AddedDef
<1>3. AddNew(p) = A(N)
  BY DEF AddNew
<1>4. M = 0 => RisingOut(db, 0, lo)
  BY EmptySeq
<1>5. p.out = << >> => N = 0
  BY <1>1, EmptySeq
<1> HIDE DEF A, M, L, o
<1>6. 0 \in S
  <2>1. 0 \in 0..N /\ M + 0 = M
    BY <1>1
  <2>2. A(0) \in AddStates /\ A(0).db = db
    BY <1>2 DEF AddStates
  <2> QED BY <1>4, <2>1, <2>2
<1>7. ASSUME NEW n \in 0..(N - 1), n \in S PROVE n + 1 \in S
  <2>1. n + 1 \in 1..N /\ n + 1 \in 0..N /\ (n + 1) - 1 = n
        /\ M + (n + 1) # 0 /\ M + (n + 1) \in 1..L
    BY <1>1
  <2> DEFINE r == o[M + (n + 1)]
             s == A(n)
  <2>2. A(n + 1) = AddRset(s, r)
    BY <1>2, <2>1
  <2>3. r \in Rsets /\ RisingRset(r, lo, hi)
    BY <1>1, <2>1, SMTT(30) DEF RisingOut
  <2>4. s \in AddStates /\ RisingOut(s.db, 0, hi) /\ (M + n = 0 => RisingOut(s.db, 0, lo))
    BY <1>7
  <2>5. r.desc = None => M + n = 0
    <3>1. M + n # 0 => M + (n + 1) \in 2..Len(o)
      BY <1>1, <2>1
    <3> QED BY <1>1, <3>1 DEF DescribedDb
  <2> HIDE DEF r, s
  <2>6. AddRset(s, r) \in AddStates /\ RisingOut(AddRset(s, r).db, 0, hi)
    BY <2>3, <2>4, <2>5, AddRsetRises
  <2> QED BY <2>1, <2>2, <2>6
<1>8. N \in S
  <2>1. 0..N \subseteq S
    <3> HIDE DEF S, N
    <3> QED BY <1>1, <1>6, <1>7, UpToInduction
  <2> QED BY <1>1, <2>1
<1>9. p.out = << >> => AddNew(p).db = db
  BY <1>2, <1>3, <1>5
<1>10. Good(N)
  BY <1>8
<1> QED BY <1>3, <1>9, <1>10

LinesRead == Len(done) + Len(file)
OrderInv ==
  /\ done \in Seq(AllLines) /\ file \in Seq(AllLines) /\ db \in Seq(Rsets)
  /\ RisingOut(db, 0, LinesRead)
  /\ status = "file" /\ ~parser.err =>
       /\ Parsed(parser, file) /\ Rises(parser, Len(done), LinesRead)
       /\ parser.out = << >> => RisingOut(db, 0, Len(done))

LEMMA NothingRises == ASSUME NEW lo, NEW hi
                      PROVE  Rises(NewParser, lo, hi) /\ RisingOut(<< >>, lo, hi)
<1> DEFINE p == NewParser
<1>1. p.out = << >> /\ p.rset.elems = << >> /\ p.rec = << >>
  BY DEF NewParser, NewRset
<1> HIDE DEF p
<1>2. RisingOut(<< >>, lo, hi)
  BY DEF RisingOut
<1>3. Rising(ElemsLines(p.rset.elems), lo, hi)
  BY <1>1, ElemsNone, RisingNone
<1>4. ElemsLines(p.rset.elems) \o RecordLines(p.rec) = ElemsLines(p.rset.elems)
  <2>1. << >> \o << >> = << >>
    BY NoLines, ConcatEmptySeq
  <2> QED BY <1>1, <2>1, ElemsNone, NoRecordLines
<1>5. Rises(p, lo, hi)
  BY <1>1, <1>2, <1>3, <1>4 DEF Rises, RisingRset
<1> QED BY <1>2, <1>5 DEF p

LEMMA InitOrder == Init => OrderInv
<1> SUFFICES ASSUME Init PROVE OrderInv
  OBVIOUS
<1>1. parser = NewParser /\ db = << >> /\ file = << >> /\ done = << >>
  BY DEF Init
<1>2. << >> \in Seq(AllLines) /\ << >> \in Seq(Rsets)
  BY EmptySeq
<1> QED BY <1>1, <1>2, NewParsed, NothingRises DEF OrderInv

LEMMA OrderFacts ==
  ASSUME OrderInv
  PROVE  /\ Len(done) \in Nat /\ Len(file) \in Nat /\ LinesRead \in Nat
         /\ Len(done) <= LinesRead /\ LineNo = LinesRead + 1
         /\ LineNo <= MaxLines => Lines \subseteq AllLines
<1>1. Len(done) \in Nat /\ Len(file) \in Nat
  BY DEF OrderInv
<1>2. LineNo <= MaxLines => Lines \subseteq AllLines
  BY <1>1, LinesAre
<1>3. LineNo = LinesRead + 1 /\ LinesRead \in Nat /\ Len(done) <= LinesRead
  BY <1>1 DEF LinesRead, LineNo
<1> QED BY <1>1, <1>2, <1>3

LEMMA MoreLines ==
  ASSUME OrderInv, LineNo <= MaxLines, NEW line \in Lines,
         file' = Append(file, line), done' = done
  PROVE  file' \in Seq(AllLines) /\ LinesRead' = LinesRead + 1
<1>1. file \in Seq(AllLines) /\ line \in AllLines /\ Len(file) \in Nat
      /\ Len(done) \in Nat
  BY OrderFacts DEF OrderInv
<1>2. file' \in Seq(AllLines) /\ Len(file') = Len(file) + 1
  BY <1>1, AppendProperties
<1> QED BY <1>1, <1>2 DEF LinesRead

LEMMA ReadLineOrder ==
  ASSUME OrderInv, NEW line \in Lines, ReadLine(line)
  PROVE  OrderInv'
<1> DEFINE p == ParseLine(parser, line)
           lo == Len(done)
           hi == LinesRead
<1>1. /\ status = "file" /\ ~parser.err /\ Parsed(parser, file)
      /\ Rises(parser, lo, hi) /\ (parser.out = << >> => RisingOut(db, 0, lo))
      /\ db \in Seq(Rsets) /\ RisingOut(db, 0, hi) /\ done \in Seq(AllLines)
  BY DEF OrderInv, ReadLine
<1>2. /\ parser' = p /\ file' = Append(file, line) /\ done' = done
      /\ db' = AddNew(p).db /\ status' = AddNew(p).status
  BY DEF ReadLine
<1>L. LineNo <= MaxLines
  BY DEF ReadLine
<1>3. file' \in Seq(AllLines) /\ LinesRead' = hi + 1 /\ Len(done') = lo
  BY <1>2, <1>L, MoreLines
<1>4. lo \in Nat /\ hi \in Nat /\ hi + 1 \in Nat /\ lo <= hi /\ hi <= hi + 1
      /\ lo <= hi + 1 /\ line \in AllLines /\ LineNo = hi + 1 /\ 0 \in Nat /\ 0 <= 0
  BY <1>L, OrderFacts
<1>5. parser \in Parsers /\ ~parser.eof /\ parser.out \in Seq(Rsets)
  BY <1>1 DEF Parsed, Parsers
<1> HIDE DEF p, hi, lo
<1>6. RisingOut(db, 0, hi + 1)
  BY <1>1, <1>4, RisingOutWider
<1>7. CASE line.k \in {"bad", "cut"}
  <2>1. p.err /\ p.out = parser.out
    BY <1>1, <1>5, <1>7 DEF p, ParseLine, Error, Parsers
  <2>2. db' = db
    <3> DEFINE N == Len(p.out) - Len(parser.out)
    <3>1. N = 0
      BY <1>5, <2>1
    <3>2. Added(p)[0] = [db |-> db, status |-> "file"]
      BY <3>1, AddedDef
    <3>3. AddNew(p) = [db |-> db, status |-> "file"]
      BY <3>1, <3>2 DEF AddNew
    <3> QED BY <1>2, <3>3
  <2> QED BY <1>1, <1>2, <1>3, <1>6, <2>1, <2>2 DEF OrderInv
<1>8. CASE line.k \notin {"bad", "cut"}
  <2>1. Parsed(p, file') /\ OneMore(parser, p)
    BY <1>1, <1>2, <1>4, <1>8, ParseLineParsed DEF p
  <2>2. Rises(p, lo, hi + 1)
    <3>1. /\ line.k = "comment" => line.of = hi + 1
          /\ line.k = "field" => line.n = REC \/ line.v = hi + 1
      BY <1>4 DEF Lines, Blank, Bad, Cut, CommentLine, FieldLine
    <3> QED BY <1>1, <1>4, <1>8, <3>1, ParseLineRises DEF p
  <2>3. p.out \in Seq(Rsets) /\ DescribedDb(p.out) /\ Prefix(parser.out, p.out)
    BY <1>5, <2>1, ParsedOut, OneMorePrefix
  <2>4. RisingOut(p.out, lo, hi + 1)
    BY <2>2 DEF Rises
  <2>5. /\ AddNew(p) \in AddStates /\ RisingOut(AddNew(p).db, 0, hi + 1)
        /\ p.out = << >> => AddNew(p).db = db
    BY <1>1, <1>4, <1>5, <1>6, <2>3, <2>4, AddNewRises
  <2>6. db' \in Seq(Rsets) /\ RisingOut(db', 0, hi + 1)
    BY <1>2, <2>5 DEF AddStates
  <2>7. p.out = << >> => RisingOut(db', 0, lo)
    <3>1. p.out = << >> => parser.out = << >>
      BY <1>5, <2>3, EmptySeq DEF Prefix
    <3> QED BY <1>1, <1>2, <2>5, <3>1
  <2> QED BY <1>1, <1>2, <1>3, <2>1, <2>2, <2>6, <2>7 DEF OrderInv
<1> QED BY <1>7, <1>8

LEMMA ReadEofOrder ==
  ASSUME OrderInv, ReadEof
  PROVE  OrderInv'
<1> DEFINE p == ParseEof(parser)
           lo == Len(done)
           hi == LinesRead
<1>1. /\ Parsed(parser, file) /\ done \in Seq(AllLines) /\ file \in Seq(AllLines)
      /\ Rises(parser, lo, hi) /\ (parser.out = << >> => RisingOut(db, 0, lo))
      /\ db \in Seq(Rsets) /\ RisingOut(db, 0, hi)
  BY DEF OrderInv, ReadEof
<1>2. /\ db' = AddNew(p).db /\ file' = file /\ done' = done /\ status' # "file"
  BY DEF ReadEof
<1>3. lo \in Nat /\ hi \in Nat /\ lo <= hi /\ LinesRead' = hi
  BY <1>2, OrderFacts DEF LinesRead
<1>4. parser.out \in Seq(Rsets)
  BY <1>1 DEF Parsed, Parsers
<1>5. p.out \in Seq(Rsets) /\ DescribedDb(p.out) /\ Prefix(parser.out, p.out)
  BY <1>1, ParseEofParsed
<1>6. RisingOut(p.out, lo, hi)
  BY <1>1, ParseEofRises
<1> HIDE DEF p, lo, hi
<1>7. AddNew(p) \in AddStates /\ RisingOut(AddNew(p).db, 0, hi)
  BY <1>1, <1>3, <1>4, <1>5, <1>6, AddNewRises
<1>8. db' \in Seq(Rsets) /\ RisingOut(db', 0, hi)
  BY <1>2, <1>7 DEF AddStates
<1> QED BY <1>1, <1>2, <1>3, <1>8 DEF OrderInv

LEMMA NextOrder ==
  ASSUME OrderInv, [Next]_vars
  PROVE  OrderInv'
<1>1. ASSUME NEW line \in Lines, ReadLine(line) PROVE OrderInv'
  BY <1>1, ReadLineOrder
<1>2. ASSUME NEW line \in Lines, RestOfFile(line) PROVE OrderInv'
  <2>1. /\ status' = "rest" /\ db' = db /\ file' = Append(file, line) /\ done' = done
        /\ LineNo <= MaxLines
    BY <1>2 DEF RestOfFile
  <2>2. file' \in Seq(AllLines) /\ LinesRead' = LinesRead + 1
    BY <2>1, MoreLines
  <2>3. LinesRead \in Nat /\ LinesRead + 1 \in Nat /\ LinesRead <= LinesRead + 1
        /\ 0 \in Nat /\ 0 <= 0
    BY OrderFacts
  <2>4. RisingOut(db, 0, LinesRead + 1)
    BY <2>3, RisingOutWider DEF OrderInv
  <2> QED BY <2>1, <2>2, <2>4 DEF OrderInv
<1>3. CASE ReadError
  BY <1>3 DEF ReadError, OrderInv, LinesRead
<1>4. CASE ReadEof
  BY <1>4, ReadEofOrder
<1>5. CASE OpenFile
  <2>1. /\ parser' = NewParser /\ done' = done \o file /\ file' = << >> /\ db' = db
    BY <1>5 DEF OpenFile
  <2>2. done \in Seq(AllLines) /\ file \in Seq(AllLines)
    BY DEF OrderInv
  <2>3. done' \in Seq(AllLines) /\ Len(done') = LinesRead /\ file' \in Seq(AllLines)
        /\ Len(file') = 0
    BY <2>1, <2>2, ConcatProperties, EmptySeq DEF LinesRead
  <2>4. LinesRead' = LinesRead
    BY <2>3, OrderFacts DEF LinesRead
  <2>5. Parsed(parser', file') /\ Rises(parser', Len(done'), LinesRead')
    BY <2>1, NewParsed, NothingRises
  <2> QED BY <2>1, <2>3, <2>4, <2>5 DEF OrderInv
<1>6. ASSUME NEW hasRset \in BOOLEAN, OpenFileWithoutDb(hasRset) PROVE OrderInv'
  BY <1>6 DEF OpenFileWithoutDb, OrderInv, LinesRead
<1>7. CASE Finish
  BY <1>7 DEF Finish, OrderInv, LinesRead
<1>8. CASE UNCHANGED vars
  BY <1>8 DEF vars, OrderInv, LinesRead
<1> QED BY <1>1, <1>2, <1>3, <1>4, <1>5, <1>6, <1>7, <1>8 DEF Next

LEMMA OrderInvKeeps == OrderInv => OrderKept
<1> SUFFICES ASSUME OrderInv, NEW i \in DOMAIN db
             PROVE  LET lines == NonBlank(WriteRset([db[i] EXCEPT !.desc = None]))
                    IN \A j, k \in DOMAIN lines :
                         j < k => LineOf(lines[j]) < LineOf(lines[k])
  BY DEF OrderKept
<1> DEFINE lines == NonBlank(WriteRset([db[i] EXCEPT !.desc = None]))
<1>1. db[i] \in Rsets /\ RisingRset(db[i], 0, LinesRead)
  BY DEF OrderInv, RisingOut
<1>2. lines = ElemsLines(db[i].elems)
  BY <1>1, ElemsLinesOwn
<1>3. Rising(lines, 0, LinesRead)
  BY <1>1, <1>2 DEF RisingRset
<1> HIDE DEF lines
<1>4. \A j, k \in DOMAIN lines : j < k => LineOf(lines[j]) < LineOf(lines[k])
  BY <1>3 DEF Rising
<1> QED BY <1>4 DEF lines

\* The records and the comments of a record set are in the order of the
\* command line, and each is there once, whatever files are read and however
\* many (recutl_parse_db_from_file, recutl_build_db).
THEOREM OrderIsKept == Spec => []OrderKept
<1>1. OrderInv /\ [Next]_vars => OrderInv'
  BY NextOrder
<1> QED BY <1>1, InitOrder, OrderInvKeeps, PTL DEF Spec

---------------------------------------------------------------------------
(* What is written is read back *)

\* A record set that is read back from what is written of it.
Canonical(r) ==
  /\ AllWhole(r.elems)
  /\ r.desc = None => r.dpos = 0
  /\ r.desc # None => Packed(r.desc)
  /\ \A i \in 1..r.dpos : r.elems[i].k = "comment"
CanonicalDb(d) ==
  OneByOne(d) /\ \A i \in 1..Len(d) : Canonical(d[i]) /\ Complete(d[i])

\* The parser: the record that is being read has no two comments side by
\* side, and only the first record set may have comments before its
\* descriptor.
CanonicalParser(p) ==
  /\ CanonicalDb(p.out) /\ Canonical(p.rset)
  /\ p.out # << >> => p.rset.dpos = 0
  /\ p.rec # << >> => Packed(p.rec) /\ (p.rec[Len(p.rec)].k = "comment" => p.last)

ReadBackInv ==
  nfiles = 1 =>
    /\ status = "file" /\ ~parser.err => CanonicalParser(parser)
    /\ status \in {"open", "done"} => db \in Seq(Rsets) /\ CanonicalDb(db)

LEMMA CanonicalDbAppend ==
  ASSUME NEW d \in Seq(Rsets), NEW r \in Rsets, CanonicalDb(d), Canonical(r),
         Complete(r), d # << >> => r.desc # None /\ r.dpos = 0
  PROVE  CanonicalDb(Append(d, r))
<1> DEFINE u == Append(d, r)
           N == Len(d)
           C(x) == Canonical(x) /\ Complete(x)
           L(x) == x.desc # None /\ x.dpos = 0
<1>1. /\ Len(u) = N + 1 /\ N \in Nat /\ u[N + 1] = r
      /\ \A i \in 1..N : u[i] = d[i]
  BY AppendProperties
<1>2. N # 0 => d # << >>
  OBVIOUS
<1>3. C(r) /\ (\A i \in 1..N : C(d[i])) /\ (\A i \in 2..N : L(d[i]))
      /\ (N # 0 => L(r))
  BY <1>2 DEF CanonicalDb, OneByOne
<1> HIDE DEF u, N, C, L
<1>4. \A i \in 1..(N + 1) : i = N + 1 \/ i \in 1..N
  BY <1>1
<1>5. \A i \in 1..(N + 1) : C(u[i])
  BY <1>1, <1>3, <1>4
<1>6. \A i \in 2..(N + 1) :
        (i = N + 1 /\ N # 0) \/ (i \in 2..N /\ i \in 1..N)
  BY <1>1
<1>7. \A i \in 2..(N + 1) : L(u[i])
  BY <1>1, <1>3, <1>6
<1> QED BY <1>1, <1>5, <1>7 DEF u, C, L, CanonicalDb, OneByOne

LEMMA EndRecordCanonical ==
  ASSUME NEW p, NEW f, Parsed(p, f), CanonicalParser(p)
  PROVE  LET q == [EndRecord(p) EXCEPT !.last = FALSE]
         IN CanonicalParser(q)
<1> DEFINE q == [EndRecord(p) EXCEPT !.last = FALSE]
           x == p.rset
           y == q.rset
           s == x.elems
<1>1. p \in Parsers /\ Described(p)
  BY DEF Parsed
<1>2. p.out \in Seq(Rsets) /\ x \in Rsets /\ p.rec \in Seq(Items)
  BY <1>1, ParserFacts
<1>3. s \in Seq(Elems) /\ x.dpos \in Nat /\ Len(s) \in Nat
      /\ x.dpos <= Len(s)
  BY <1>2, RsetFacts
<1>4. /\ CanonicalDb(p.out) /\ Canonical(x)
      /\ p.out # << >> => x.dpos = 0
      /\ p.rec # << >> => Packed(p.rec)
  BY DEF CanonicalParser
<1>5. /\ AllWhole(s) /\ (x.desc = None => x.dpos = 0)
      /\ (x.desc # None => Packed(x.desc))
      /\ \A i \in 1..x.dpos : s[i].k = "comment"
  BY <1>4 DEF Canonical
<1>6. p.rec # << >> => p.rec # None
  BY <1>2, RecTextAssumption
<1>7. /\ q.rec = << >> /\ q.last = FALSE
      /\ \/ p.rec = << >> /\ q.out = p.out /\ y = x
         \/ /\ p.rec # << >> /\ ~HasField(p.rec, REC) /\ q.out = p.out
            /\ y.desc = x.desc /\ y.dpos = x.dpos
            /\ y.elems = Append(s, Record(p.rec))
         \/ /\ p.rec # << >> /\ HasField(p.rec, REC) /\ q.out = p.out
            /\ NumRecords(x) = 0 /\ x.desc = None
            /\ y.desc = p.rec /\ y.dpos = Len(s) /\ y.elems = s
         \/ /\ p.rec # << >> /\ HasField(p.rec, REC)
            /\ ~(NumRecords(x) = 0 /\ x.desc = None)
            /\ q.out = Append(p.out, x)
            /\ y.desc = p.rec /\ y.dpos = 0 /\ y.elems = << >>
  BY <1>1, EndRecordIs
<1> HIDE DEF q, x, y, s
<1>8. SUFFICES /\ CanonicalDb(q.out) /\ Canonical(y)
               /\ q.out # << >> => y.dpos = 0
  BY <1>7 DEF CanonicalParser, q, y
<1>9. CASE p.rec = << >>
  BY <1>4, <1>7, <1>9
<1>10. CASE p.rec # << >> /\ ~HasField(p.rec, REC)
  <2> DEFINE e == Record(p.rec)
  <2>1. /\ q.out = p.out /\ y.desc = x.desc /\ y.dpos = x.dpos
        /\ y.elems = Append(s, e)
    BY <1>7, <1>10
  <2>2. Whole(e) /\ e \in Elems
    <3>1. e.k = "record" /\ e.items = p.rec
      BY DEF Record
    <3>2. e \in Elems
      BY <1>2, RecordElem
    <3> QED BY <1>4, <1>10, <3>1, <3>2 DEF Whole
  <2> HIDE DEF e
  <2>3. AllWhole(y.elems)
    BY <1>3, <1>5, <2>1, <2>2, AllWholeAppend
  <2>4. \A i \in 1..x.dpos : y.elems[i].k = "comment"
    <3>1. \A i \in 1..x.dpos : i \in 1..Len(s)
      BY <1>3
    <3>2. \A i \in 1..Len(s) : y.elems[i] = s[i]
      BY <1>3, <2>1, <2>2, AppendProperties
    <3> QED BY <1>5, <3>1, <3>2
  <2>5. Canonical(y)
    BY <1>5, <2>1, <2>3, <2>4 DEF Canonical
  <2> QED BY <1>4, <2>1, <2>5
<1>11. CASE /\ p.rec # << >> /\ HasField(p.rec, REC)
            /\ NumRecords(x) = 0 /\ x.desc = None
  <2>1. /\ q.out = p.out /\ y.desc = p.rec /\ y.dpos = Len(s)
        /\ y.elems = s
    BY <1>7, <1>11
  <2>2. \A i \in 1..Len(s) : s[i].k = "comment"
    <3>1. ~HasRecord(s)
      BY <1>2, <1>11, NumRecordsIs DEF s
    <3>2. \A i \in 1..Len(s) : s[i] \in Elems /\ s[i].k # "record"
      BY <1>3, <3>1 DEF HasRecord
    <3> QED BY <3>2 DEF Elems
  <2>3. Canonical(y)
    BY <1>4, <1>5, <1>6, <1>11, <2>1, <2>2 DEF Canonical
  <2>4. p.out = << >>
    BY <1>1, <1>11 DEF Described, x
  <2> QED BY <1>4, <2>1, <2>3, <2>4
<1>12. CASE /\ p.rec # << >> /\ HasField(p.rec, REC)
            /\ ~(NumRecords(x) = 0 /\ x.desc = None)
  <2>1. /\ q.out = Append(p.out, x) /\ y.desc = p.rec /\ y.dpos = 0
        /\ y.elems = << >>
    BY <1>7, <1>12
  <2>2. Complete(x)
    <3>1. NumRecords(x) > 0 <=> ~(NumRecords(x) = 0)
      BY <1>2, NumRecordsIs
    <3> QED BY <1>12, <3>1 DEF Complete
  <2>3. p.out # << >> => x.desc # None /\ x.dpos = 0
    BY <1>1, <1>4 DEF Described, x
  <2>4. CanonicalDb(q.out)
    BY <1>2, <1>4, <2>1, <2>2, <2>3, CanonicalDbAppend
  <2>5. Canonical(y)
    <3>1. AllWhole(<< >>)
      BY DEF AllWhole
    <3> QED BY <1>4, <1>6, <1>12, <2>1, <3>1 DEF Canonical
  <2> QED BY <2>1, <2>4, <2>5
<1> QED BY <1>9, <1>10, <1>11, <1>12

LEMMA ParseLineCanonical ==
  ASSUME NEW p, NEW f, Parsed(p, f), CanonicalParser(p), NEW line \in AllLines,
         line.k # "bad", line.k # "cut"
  PROVE  CanonicalParser(ParseLine(p, line))
<1> DEFINE q == ParseLine(p, line)
           x == p.rset
           s == x.elems
           o == p.rec
           v == line.of
           c == p.last
<1>0. p \in Parsers /\ ~p.err /\ ~p.eof /\ Continues(p)
  BY DEF Parsed
<1>1. x \in Rsets /\ o \in Seq(Items) /\ (c = TRUE \/ c = FALSE)
      /\ p.last \in BOOLEAN
  BY <1>0, ParserFacts
<1>2. /\ s \in Seq(Elems) /\ x.dpos \in Nat /\ Len(s) \in Nat
      /\ x.dpos <= Len(s)
  BY <1>1, RsetFacts
<1>3. /\ CanonicalDb(p.out) /\ Canonical(x)
      /\ p.out # << >> => x.dpos = 0
      /\ o # << >> => Packed(o) /\ (o[Len(o)].k = "comment" => c)
  BY DEF CanonicalParser
<1>4. DOMAIN p = Parts /\ DOMAIN x = {"desc", "dpos", "elems"}
  BY <1>0, <1>1 DEF Parsers, Parts, Rsets
<1>5. CASE line.k = "blank"
  <2>1. q = [EndRecord(p) EXCEPT !.last = FALSE]
    BY <1>0, <1>5 DEF ParseLine
  <2> QED BY <2>1, EndRecordCanonical
<1>6. CASE line.k = "field"
  <2> DEFINE e == Field(line.n, line.v)
             rec == Append(o, e)
  <2>1. q = [p EXCEPT !.rec = rec, !.last = FALSE]
    BY <1>0, <1>6 DEF ParseLine
  <2>2. e \in Items /\ e.k = "field"
    BY <1>6, LineKinds
  <2> HIDE DEF q, e, o
  <2>3. /\ Packed(rec) /\ rec # << >> /\ rec[Len(rec)].k = "field"
    <3>1. Packed(rec)
      <4>1. CASE o = << >>
        BY <1>1, <2>2, <4>1, PackedAppend
      <4>2. CASE o # << >>
        <5>1. e.k # "comment"
          BY <2>2
        <5> QED BY <1>1, <1>3, <2>2, <4>2, <5>1, PackedAppend
      <4> QED BY <4>1, <4>2
    <3>2. rec # << >> /\ Len(rec) = Len(o) + 1 /\ rec[Len(o) + 1] = e
      BY <1>1, <2>2, AppendProperties
    <3> HIDE DEF rec
    <3> QED BY <2>2, <3>1, <3>2
  <2> HIDE DEF rec, x
  <2>4. q.out = p.out /\ q.rset = x /\ q.rec = rec
    BY <1>4, <2>1 DEF Parts, x
  <2> QED BY <1>3, <2>3, <2>4 DEF CanonicalParser, q
<1>7. line.k = "comment" => v \in Contents
  BY LineKinds
<1>8. CASE line.k = "comment" /\ o # << >>
  <2> DEFINE rec == AddText(o, c, v)
  <2>1. q = [p EXCEPT !.rec = rec, !.last = TRUE]
    BY <1>0, <1>8 DEF ParseLine
  <2>2. c => o[Len(o)].k = "comment"
    BY <1>0, <1>8 DEF Continues
  <2> HIDE DEF q, v, o, c
  <2>3. v \in Contents /\ Comment(<<v>>) \in Items
    BY <1>7, <1>8, CommentStarted
  <2>4. c => /\ o[Len(o)] \in [k : {"comment"}, texts : Seq(Contents)]
             /\ [o[Len(o)] EXCEPT !.texts = Append(@, v)] \in Items
    <3> SUFFICES ASSUME c
                 PROVE  /\ o[Len(o)] \in [k : {"comment"}, texts : Seq(Contents)]
                        /\ [o[Len(o)] EXCEPT !.texts = Append(@, v)] \in Items
      OBVIOUS
    <3> DEFINE z == o[Len(o)]
    <3>1. z \in Items
      BY <1>1, <1>8, EmptySeq
    <3>2. z.k = "comment"
      BY <2>2
    <3> HIDE DEF z
    <3>3. z \in [k : {"comment"}, texts : Seq(Contents)]
      BY <3>1, <3>2, ItemLines
    <3>4. [z EXCEPT !.texts = Append(@, v)] \in Items
      BY <2>3, <3>3, CommentContinued DEF Items
    <3> QED BY <3>3, <3>4 DEF z
  <2>B. Extends(Items, o, c, v)
    BY <1>8, <2>2, <2>4 DEF Extends
  <2>C. \E g \in Seq(Items), y \in Items : HasText(Items, o, c, rec, g, y)
    BY <1>1, <1>2, <2>3, <2>B, TextAdded
  <2>D. PICK g \in Seq(Items), y \in Items : HasText(Items, o, c, rec, g, y)
    BY <2>C
  <2>5. /\ rec = Append(g, y)
        /\ y.k = "comment" /\ y.texts # << >>
        /\ ~c => g = o
        /\ c => \E w \in Items : o = Append(g, w) /\ w.k = "comment"
    BY <2>D DEF HasText
  <2>6. g # << >> /\ Packed(g) /\ g[Len(g)].k # "comment"
    <3>1. CASE ~c
      BY <1>3, <1>8, <2>5, <3>1
    <3>2. CASE c
      <4>1. PICK w \in Items : o = Append(g, w) /\ w.k = "comment"
        BY <2>5, <3>2
      <4>2. Packed(Append(g, w))
        BY <1>3, <1>8, <4>1
      <4>3. g # << >>
        BY <4>1, <4>2, PackedAppend
      <4> QED BY <4>1, <4>2, <4>3, PackedAppend
    <3> QED BY <3>1, <3>2
  <2>7. Packed(rec)
    BY <2>5, <2>6, PackedAppend
  <2> HIDE DEF rec, x
  <2>8. q.out = p.out /\ q.rset = x /\ q.rec = rec /\ q.last = TRUE
    BY <1>4, <2>1 DEF Parts, x
  <2> QED BY <1>3, <2>7, <2>8 DEF CanonicalParser, q
<1>9. CASE line.k = "comment" /\ o = << >>
  <2> DEFINE u == AddText(s, c, v)
  <2>1. q = [p EXCEPT !.rset.elems = AddText(@, c, v), !.last = TRUE]
    BY <1>0, <1>9 DEF ParseLine
  <2>2. c => /\ s # << >> /\ s[Len(s)].k = "comment" /\ x.dpos < Len(s)
    BY <1>0, <1>9 DEF Continues
  <2> HIDE DEF q, v, c, s, o
  <2>3. v \in Contents /\ Comment(<<v>>) \in Elems
    BY <1>7, <1>9, CommentStarted, ElemComment
  <2>4. c => /\ s[Len(s)] \in [k : {"comment"}, texts : Seq(Contents)]
             /\ [s[Len(s)] EXCEPT !.texts = Append(@, v)] \in Elems
    <3> SUFFICES ASSUME c
                 PROVE  /\ s[Len(s)] \in [k : {"comment"}, texts : Seq(Contents)]
                        /\ [s[Len(s)] EXCEPT !.texts = Append(@, v)] \in Elems
      OBVIOUS
    <3> DEFINE z == s[Len(s)]
    <3>1. z \in Elems
      BY <1>2, <2>2, EmptySeq
    <3>2. z.k = "comment"
      BY <2>2
    <3> HIDE DEF z
    <3>3. z \in [k : {"comment"}, texts : Seq(Contents)]
      BY <3>1, <3>2 DEF Elems
    <3>4. [z EXCEPT !.texts = Append(@, v)] \in Elems
      BY <2>3, <3>3, CommentContinued, ElemComment
    <3> QED BY <3>3, <3>4 DEF z
  <2>B. Extends(Elems, s, c, v)
    BY <2>2, <2>4 DEF Extends
  <2>C. \E g \in Seq(Elems), y \in Elems : HasText(Elems, s, c, u, g, y)
    BY <1>1, <1>2, <2>3, <2>B, TextAdded
  <2>D. PICK g \in Seq(Elems), y \in Elems : HasText(Elems, s, c, u, g, y)
    BY <2>C
  <2>5. /\ u = Append(g, y)
        /\ y.k = "comment" /\ y.texts # << >>
        /\ ~c => g = s
        /\ c => \E w \in Elems : s = Append(g, w) /\ w.k = "comment"
    BY <2>D DEF HasText
  <2>6. /\ AllWhole(g) /\ x.dpos <= Len(g)
        /\ \A i \in 1..x.dpos : g[i].k = "comment"
    <3>0. AllWhole(s) /\ \A i \in 1..x.dpos : s[i].k = "comment"
      BY <1>3 DEF Canonical, s
    <3>1. CASE ~c
      BY <1>2, <2>5, <3>0, <3>1
    <3>2. CASE c
      <4>1. PICK w \in Elems : s = Append(g, w) /\ w.k = "comment"
        BY <2>5, <3>2
      <4>2. AllWhole(g)
        BY <3>0, <4>1, AllWholeAppend
      <4>3. /\ Len(s) = Len(g) + 1 /\ Len(g) \in Nat
            /\ \A i \in 1..Len(g) : s[i] = g[i]
        BY <4>1, AppendProperties
      <4>4. x.dpos <= Len(g)
        BY <1>2, <2>2, <3>2, <4>3
      <4>5. \A i \in 1..x.dpos : i \in 1..Len(g)
        BY <1>2, <4>3, <4>4
      <4> QED BY <3>0, <4>2, <4>3, <4>4, <4>5
    <3> QED BY <3>1, <3>2
  <2>7. AllWhole(u) /\ \A i \in 1..x.dpos : u[i].k = "comment"
    <3>1. Whole(y)
      BY <2>5 DEF Whole
    <3>2. AllWhole(u)
      BY <2>5, <2>6, <3>1, AllWholeAppend
    <3>3. Len(g) \in Nat /\ \A i \in 1..Len(g) : u[i] = g[i]
      BY <2>5, AppendProperties
    <3>4. \A i \in 1..x.dpos : i \in 1..Len(g)
      BY <1>2, <2>6, <3>3
    <3> QED BY <2>6, <3>2, <3>3, <3>4
  <2> HIDE DEF x
  <2>8. /\ q.out = p.out /\ q.rec = o
        /\ q.rset = [x EXCEPT !.elems = AddText(@, c, v)]
    BY <1>4, <2>1 DEF Parts, x, o
  <2>9. /\ q.rset.desc = x.desc /\ q.rset.dpos = x.dpos /\ q.rset.elems = u
    BY <1>4, <2>8 DEF s
  <2> HIDE DEF u
  <2> DEFINE y1 == q.rset
  <2> HIDE DEF y1
  <2>10. y1.desc = x.desc /\ y1.dpos = x.dpos /\ y1.elems = u
    BY <2>9 DEF y1
  <2>11. Canonical(y1)
    BY <1>3, <2>7, <2>10 DEF Canonical
  <2> QED BY <1>3, <1>9, <2>8, <2>10, <2>11 DEF CanonicalParser, q, y1
<1>10. line.k \in {"blank", "field", "comment"}
  BY LineKinds
<1> QED BY <1>5, <1>6, <1>8, <1>9, <1>10

LEMMA ParseEofCanonical ==
  ASSUME NEW p, NEW f, Parsed(p, f), CanonicalParser(p)
  PROVE  CanonicalDb(ParseEof(p).out)
<1> DEFINE q == ParseEof(p)
           s == EndRecord(p)
           t == [s EXCEPT !.last = FALSE]
<1>1. p \in Parsers /\ ~p.err
  BY DEF Parsed
<1>2. Parsed(t, f) /\ CanonicalParser(t)
  BY EndRecordParsed, EndRecordCanonical
<1>3. s.out = t.out /\ s.rset = t.rset
  OBVIOUS
<1>4. q = IF s.rset.desc # None \/ NumRecords(s.rset) > 0
          THEN [s EXCEPT !.out = Append(@, s.rset), !.eof = TRUE,
                         !.rset = NewRset(None)]
          ELSE [s EXCEPT !.eof = TRUE]
  BY <1>1 DEF ParseEof
<1>5. DOMAIN s = {"out", "rset", "rec", "last", "err", "eof"}
  BY <1>1 DEF EndRecord, Parsers
<1> HIDE DEF q, s, t
<1> DEFINE o == t.out
           x == t.rset
<1>6. /\ o \in Seq(Rsets) /\ x \in Rsets /\ CanonicalDb(o) /\ Canonical(x)
      /\ o # << >> => x.desc # None /\ x.dpos = 0
  <2>1. t \in Parsers /\ Described(t)
    BY <1>2 DEF Parsed
  <2> QED BY <1>2, <2>1, ParserFacts DEF CanonicalParser, Described
<1>7. CASE x.desc # None \/ NumRecords(x) > 0
  <2>1. q = [s EXCEPT !.out = Append(@, s.rset), !.eof = TRUE,
                      !.rset = NewRset(None)]
    BY <1>3, <1>4, <1>7
  <2>2. q.out = Append(o, x)
    <3>1. q.out = Append(s.out, s.rset)
      BY <1>5, <2>1
    <3> QED BY <1>3, <3>1
  <2> HIDE DEF o, x
  <2>3. Complete(x)
    BY <1>7 DEF Complete
  <2>4. CanonicalDb(Append(o, x))
    BY <1>6, <2>3, CanonicalDbAppend
  <2> QED BY <2>2, <2>4 DEF q
<1>8. CASE ~(x.desc # None \/ NumRecords(x) > 0)
  <2>1. q = [s EXCEPT !.eof = TRUE]
    BY <1>3, <1>4, <1>8
  <2>2. q.out = o
    BY <1>3, <1>5, <2>1
  <2> QED BY <1>6, <2>2 DEF q
<1> QED BY <1>7, <1>8

LEMMA NewParserCanonical == CanonicalParser(NewParser)
<1> DEFINE p == NewParser
           r == NewRset(None)
<1>1. p.out = << >> /\ p.rset = r /\ p.rec = << >>
  BY DEF NewParser
<1>2. r.desc = None /\ r.dpos = 0 /\ r.elems = << >>
  BY DEF NewRset
<1>3. AllWhole(<< >>) /\ CanonicalDb(<< >>)
  BY DEF AllWhole, CanonicalDb, OneByOne
<1> HIDE DEF p, r
<1>4. Canonical(r)
  BY <1>2, <1>3 DEF Canonical
<1> QED BY <1>1, <1>2, <1>3, <1>4 DEF CanonicalParser, p

LEMMA InitReadBack == Init => ReadBackInv
  BY NewParserCanonical DEF Init, ReadBackInv

LEMMA NextReadBack ==
  ASSUME ReadInv, ReadBackInv, [Next]_vars
  PROVE  ReadBackInv'
<1>1. ASSUME NEW line \in Lines, ReadLine(line) PROVE ReadBackInv'
  <2> SUFFICES ASSUME nfiles' = 1
               PROVE  /\ status' = "file" /\ ~parser'.err =>
                           CanonicalParser(parser')
                      /\ status' \in {"open", "done"} =>
                           db' \in Seq(Rsets) /\ CanonicalDb(db')
    BY DEF ReadBackInv
  <2> DEFINE p == ParseLine(parser, line)
  <2>1. /\ nfiles = 1 /\ status = "file" /\ ~parser.err /\ parser' = p
        /\ status' = AddNew(p).status
    BY <1>1 DEF ReadLine
  <2>2. FirstFile /\ Parsed(parser, file) /\ db = parser.out
        /\ CanonicalParser(parser)
    BY <2>1 DEF ReadInv, FirstFile, ReadBackInv
  <2>L. LineNo <= MaxLines /\ Len(done) \in Nat /\ Len(file) \in Nat
    BY <1>1, <2>2 DEF ReadLine, FirstFile, Parsed
  <2>3. line \in AllLines /\ parser \in Parsers /\ ~parser.eof
    BY <2>2, <2>L, LinesAre DEF Parsed
  <2>4. CASE line.k \in {"bad", "cut"}
    <3>1. p.err /\ p.out = parser.out
      BY <2>1, <2>3, <2>4 DEF p, ParseLine, Error, Parsers
    <3>2. status' = "file"
      <4> HIDE DEF p
      <4> DEFINE N == Len(p.out) - Len(parser.out)
      <4>1. N = 0
        BY <2>3, <3>1 DEF Parsers
      <4>2. Added(p)[0] = [db |-> db, status |-> "file"]
        BY <4>1, AddedDef
      <4>3. AddNew(p) = [db |-> db, status |-> "file"]
        BY <4>1, <4>2 DEF AddNew
      <4> QED BY <2>1, <4>3
    <3> QED BY <2>1, <3>1, <3>2
  <2>5. CASE line.k \notin {"bad", "cut"}
    <3>1. CanonicalParser(p)
      BY <2>2, <2>3, <2>5, ParseLineCanonical
    <3>2. Parsed(p, Append(file, line)) /\ OneMore(parser, p)
      BY <2>2, <2>3, <2>5, ParseLineParsed
    <3>3. p.out \in Seq(Rsets) /\ DescribedDb(p.out) /\ Prefix(parser.out, p.out)
      BY <2>3, <3>2, ParsedOut, OneMorePrefix
    <3>4. db \in Seq(Rsets)
      BY <2>2, ParsedOut
    <3> HIDE DEF p
    <3>5. status' \in {"fatal", "file"}
      BY <2>1, <2>2, <3>3, <3>4, OneFileAdds
    <3> QED BY <2>1, <3>1, <3>5
  <2> QED BY <2>4, <2>5
<1>2. ASSUME NEW line \in Lines, RestOfFile(line) PROVE ReadBackInv'
  BY <1>2 DEF RestOfFile, ReadBackInv
<1>3. CASE ReadError
  BY <1>3 DEF ReadError, ReadBackInv
<1>4. CASE ReadEof
  <2> SUFFICES ASSUME nfiles' = 1
               PROVE  /\ status' # "file"
                      /\ status' \in {"open", "done"} =>
                           db' \in Seq(Rsets) /\ CanonicalDb(db')
    BY DEF ReadBackInv
  <2> DEFINE p == ParseEof(parser)
  <2>1. /\ nfiles = 1 /\ status = "file" /\ ~parser.err
        /\ db' = AddNew(p).db
        /\ status' = IF AddNew(p).status = "fatal" THEN "fatal" ELSE "open"
    BY <1>4 DEF ReadEof
  <2>2. Parsed(parser, file) /\ db = parser.out /\ CanonicalParser(parser)
    BY <2>1 DEF ReadInv, FirstFile, ReadBackInv
  <2>3. p.out \in Seq(Rsets) /\ DescribedDb(p.out) /\ Prefix(parser.out, p.out)
    BY <2>2, ParseEofParsed
  <2>4. CanonicalDb(p.out)
    BY <2>2, ParseEofCanonical
  <2>5. db \in Seq(Rsets)
    BY <2>2, ParsedOut
  <2> HIDE DEF p
  <2>6. \/ AddNew(p).status = "fatal"
        \/ AddNew(p).status = "file" /\ AddNew(p).db = p.out
    BY <2>2, <2>3, <2>5, OneFileAdds
  <2> QED BY <2>1, <2>3, <2>4, <2>6
<1>5. CASE OpenFile
  BY <1>5 DEF OpenFile, ReadBackInv, ReadInv
<1>6. ASSUME NEW hasRset \in BOOLEAN, OpenFileWithoutDb(hasRset)
      PROVE  ReadBackInv'
  BY <1>6 DEF OpenFileWithoutDb, ReadBackInv, ReadInv
<1>7. CASE Finish
  <2>1. CASE status = "rest"
    BY <1>7, <2>1 DEF Finish, ReadBackInv, ReadInv, FirstFile
  <2>2. CASE status = "open"
    BY <1>7, <2>2 DEF Finish, ReadBackInv
  <2> QED BY <1>7, <2>1, <2>2 DEF Finish
<1>8. CASE UNCHANGED vars
  BY <1>8 DEF vars, ReadBackInv
<1> QED BY <1>1, <1>2, <1>3, <1>4, <1>5, <1>6, <1>7, <1>8 DEF Next

LEMMA CanonicalOver ==
  ASSUME NEW d \in Seq(Rsets), CanonicalDb(d)
  PROVE  d \in Seq(CompleteRsets(Contents)) /\ OneByOne(d)
<1> DEFINE N == Len(d)
           C == CompleteRsets(Contents)
<1>1. N \in Nat /\ d = [i \in 1..N |-> d[i]] /\ \A i \in 1..N : d[i] \in Rsets
  OBVIOUS
<1>2. ASSUME NEW r \in Rsets, Canonical(r), Complete(r) PROVE r \in C
  <2>1. /\ r.elems \in Seq(ElemsOver(Contents)) /\ r.dpos \in Nat
        /\ r.dpos <= Len(r.elems)
        /\ r.desc # None => r.desc \in Seq(ItemsOver(Contents))
                            /\ HasField(r.desc, REC)
        /\ r = [desc |-> r.desc, dpos |-> r.dpos, elems |-> r.elems]
    BY RsetFacts, MembersOver
  <2>2. r \in [desc : {None} \cup Seq(ItemsOver(Contents)), dpos : Nat,
               elems : Seq(ElemsOver(Contents))]
    BY <2>1
  <2> QED BY <1>2, <2>1, <2>2 DEF Canonical, CompleteRsets, RsetsOver
<1>3. \A i \in 1..N : d[i] \in C
  <2> HIDE DEF C
  <2> QED BY <1>1, <1>2 DEF CanonicalDb
<1> HIDE DEF C, N
<1>4. d \in Seq(C)
  BY <1>1, <1>3
<1> QED BY <1>4 DEF C, CanonicalDb

LEMMA ReadBackRounds == ReadBackInv => RoundTrip
<1> SUFFICES ASSUME ReadBackInv, status = "done", nfiles = 1
             PROVE  ~Parse(Write(db)).err /\ Parse(Write(db)).out = db
  BY DEF RoundTrip
<1>1. db \in Seq(Rsets) /\ CanonicalDb(db)
  BY DEF ReadBackInv
<1>2. db \in Seq(CompleteRsets(Contents)) /\ OneByOne(db)
  BY <1>1, CanonicalOver
<1> QED BY <1>2, DbReadBack

\* What is written of the database that was read from a file is read back as
\* the same database, whatever the file is and however long: the same record
\* sets, records and comments, with the descriptors between the same ones
\* (rec_parse_rset, rec_write_rset and descriptor_pos).
THEOREM WrittenIsReadBack == Spec => []RoundTrip
<1>1. Init => ReadInv /\ ReadBackInv
  BY InitRead, InitReadBack
<1>2. (ReadInv /\ ReadBackInv) /\ [Next]_vars => (ReadInv /\ ReadBackInv)'
  BY NextRead, NextReadBack
<1>3. ReadInv /\ ReadBackInv => RoundTrip
  BY ReadBackRounds
<1> QED BY <1>1, <1>2, <1>3, PTL DEF Spec

---------------------------------------------------------------------------
(* What recfix --sort writes is read back *)

\* The sorted record set: the comments come first, among them those that
\* are before the descriptor, and a record remains behind them.
LEMMA SortedIs ==
  ASSUME NEW r \in Rsets, Canonical(r), HasRecord(r.elems), r.desc # None
  PROVE  LET q == Sorted(r)
         IN /\ q \in Rsets /\ Canonical(q) /\ Complete(q)
            /\ q.desc = r.desc /\ q.dpos = r.dpos
            /\ q.dpos < Len(q.elems) /\ Len(q.elems) \in Nat
<1> DEFINE q == Sorted(r)
           s == r.elems
           a == Only(s, "comment")
           b == Only(s, "record")
           u == a \o b
           n == r.dpos
<1>1. /\ s \in Seq(Elems) /\ n \in Nat /\ n <= Len(s) /\ Len(s) \in Nat
      /\ r.desc \in {None} \cup Descs
      /\ r = [desc |-> r.desc, dpos |-> n, elems |-> s]
  BY RsetFacts DEF Rsets
<1>2. AllWhole(s) /\ Packed(r.desc) /\ \A i \in 1..n : s[i].k = "comment"
  BY DEF Canonical
<1>3. q = [desc |-> r.desc, dpos |-> n, elems |-> u]
  <2>1. q = [r EXCEPT !.elems = u]
    BY DEF Sorted, Comments, Records
  <2> HIDE DEF q, u, n, s
  <2> QED BY <1>1, <2>1
<1>4. OnlyFacts(Elems, "comment", s) /\ OnlyFacts(Elems, "record", s)
      /\ a \in Seq(Elems) /\ b \in Seq(Elems)
  BY <1>1, OnlyMembers, OnlyIs
<1>5. n <= Len(a) /\ b # << >>
  <2>1. n \in 0..Len(s)
    BY <1>1
  <2>2. \E i \in DOMAIN s : s[i].k = "record"
    BY DEF HasRecord
  <2> HIDE DEF a, b, n, s
  <2> QED BY <1>2, <1>4, <2>1, <2>2 DEF OnlyFacts, a, b
<1>6. /\ \A j \in DOMAIN a : a[j].k = "comment" /\ \E i \in DOMAIN s : s[i] = a[j]
      /\ \A j \in DOMAIN b : b[j].k = "record" /\ \E i \in DOMAIN s : s[i] = b[j]
  BY <1>4 DEF OnlyFacts
<1> HIDE DEF q, a, b, s, n
<1>7. /\ u \in Seq(Elems) /\ Len(u) = Len(a) + Len(b)
      /\ \A i \in 1..(Len(a) + Len(b)) :
           u[i] = IF i <= Len(a) THEN a[i] ELSE b[i - Len(a)]
  BY <1>4, ConcatProperties
<1>8. /\ Len(a) \in Nat /\ Len(b) \in Nat /\ Len(b) # 0
      /\ DOMAIN a = 1..Len(a) /\ DOMAIN b = 1..Len(b)
  BY <1>4, <1>5, EmptySeq
<1> HIDE DEF u
<1>9. n < Len(u) /\ Len(u) \in Nat /\ DOMAIN u = 1..Len(u)
  BY <1>1, <1>5, <1>7, <1>8
<1>10. AllWhole(u)
  <2> SUFFICES ASSUME NEW i \in 1..Len(u) PROVE Whole(u[i])
    BY <1>9 DEF AllWhole
  <2>1. \E j \in DOMAIN s : s[j] = u[i]
    <3>1. CASE i <= Len(a)
      <4>1. i \in 1..Len(a) /\ u[i] = a[i]
        BY <1>7, <1>8, <3>1
      <4> QED BY <1>6, <1>8, <4>1
    <3>2. CASE ~(i <= Len(a))
      <4>1. i - Len(a) \in 1..Len(b) /\ u[i] = b[i - Len(a)]
        BY <1>7, <1>8, <3>2
      <4> QED BY <1>6, <1>8, <4>1
    <3> QED BY <3>1, <3>2
  <2> QED BY <1>2, <2>1 DEF AllWhole
<1>11. \A i \in 1..n : u[i].k = "comment"
  <2> TAKE i \in 1..n
  <2>1. i \in 1..Len(a) /\ i \in 1..(Len(a) + Len(b)) /\ i <= Len(a)
    BY <1>1, <1>5, <1>8
  <2> QED BY <1>6, <1>7, <1>8, <2>1
<1>12. q \in Rsets
  BY <1>1, <1>3, <1>7, <1>9, RsetIs
<1>13. q.desc = r.desc /\ q.dpos = n /\ q.elems = u
  BY <1>3
<1>14. Canonical(q) /\ Complete(q)
  BY <1>2, <1>10, <1>11, <1>13 DEF Canonical, Complete
<1> QED BY <1>9, <1>12, <1>13, <1>14 DEF q, n

\* The number of elements that the writer is told matters only to a record
\* set without elements and to a descriptor behind the last one.
LEMMA CountedLess ==
  ASSUME NEW r, NEW m \in Nat, NEW N \in Nat, N = Len(r.elems), NEW n \in Nat,
         n = r.dpos, n < N, n < m
  PROVE  WriteRsetCounting(r, m) = WriteRset(r)
<1>1. m # 0 /\ N # 0 /\ ~(n >= m) /\ ~(n >= N)
  OBVIOUS
<1>2. WriteRset(r) = WriteRsetCounting(r, N)
  BY DEF WriteRset
<1> DEFINE body == FlattenSeq(RsetMap(r))
<1>3. \A x : WriteRsetCounting(r, x) =
               IF x = 0 /\ r.desc # None THEN WriteRecord(r.desc)
               ELSE IF r.desc # None /\ n >= x
               THEN body \o <<Blank>> \o WriteRecord(r.desc)
               ELSE body
  BY DEF WriteRsetCounting, RsetMap, Here, Gap, DescAt
<1> HIDE DEF body
<1>4. WriteRsetCounting(r, m) = body /\ WriteRsetCounting(r, N) = body
  BY <1>1, <1>3
<1> QED BY <1>2, <1>4

SortedDb(d) == [i \in DOMAIN d |-> Sorted(d[i])]
AllHaveRecords(d) == \A i \in DOMAIN d : NumRecords(d[i]) > 0

LEMMA SortedWritten ==
  ASSUME NEW d \in Seq(Rsets), CanonicalDb(d), AllHaveRecords(d)
  PROVE  /\ SortedDb(d) \in Seq(Rsets) /\ CanonicalDb(SortedDb(d))
         /\ WriteSorted(d) = Write(SortedDb(d))
<1> DEFINE u == SortedDb(d)
           N == Len(d)
           n(r) == Len(r.elems) * (IF r.desc = None THEN 1 ELSE 2)
           w(i, r) == (IF i # 1 THEN <<Blank>> ELSE << >>)
                      \o WriteRsetCounting(Sorted(r), n(r))
           v(i, r) == (IF i # 1 THEN <<Blank>> ELSE << >>) \o WriteRset(r)
<1>1. N \in Nat /\ DOMAIN d = 1..N /\ \A i \in 1..N : d[i] \in Rsets
  OBVIOUS
<1>2. /\ \A i \in 1..N : Canonical(d[i]) /\ Complete(d[i])
      /\ \A i \in 2..N : d[i].desc # None /\ d[i].dpos = 0
  BY DEF CanonicalDb, OneByOne
<1>3. ASSUME NEW r \in Rsets, Canonical(r), Complete(r), NumRecords(r) > 0
      PROVE  /\ Sorted(r) \in Rsets /\ Canonical(Sorted(r))
             /\ Complete(Sorted(r))
             /\ Sorted(r).desc = r.desc /\ Sorted(r).dpos = r.dpos
             /\ WriteRsetCounting(Sorted(r), n(r)) = WriteRset(Sorted(r))
  <2>1. CASE r.desc = None
    <3>1. Sorted(r) = r
      BY <2>1 DEF Sorted
    <3>2. n(r) = Len(r.elems)
      <4>1. Len(r.elems) \in Nat
        BY RsetFacts
      <4> QED BY <2>1, <4>1
    <3>3. WriteRsetCounting(r, n(r)) = WriteRset(r)
      BY <3>2 DEF WriteRset
    <3> QED BY <1>3, <3>1, <3>3
  <2>2. CASE r.desc # None
    <3> DEFINE q == Sorted(r)
               m == n(r)
               k == q.dpos
               L == Len(q.elems)
    <3>0. HasRecord(r.elems)
      BY <1>3, NumRecordsIs
    <3>1. /\ q \in Rsets /\ Canonical(q) /\ Complete(q)
          /\ q.desc = r.desc /\ q.dpos = r.dpos
          /\ q.dpos < Len(q.elems) /\ Len(q.elems) \in Nat
      BY <1>3, <2>2, <3>0, SortedIs
    <3>2. /\ Len(r.elems) \in Nat /\ r.dpos \in Nat /\ r.dpos <= Len(r.elems)
          /\ Len(r.elems) # 0
      <4>1. r.elems \in Seq(Elems)
        BY RsetFacts
      <4>2. r.elems # << >>
        BY <3>0 DEF HasRecord
      <4>3. Len(r.elems) # 0
        BY <4>1, <4>2, EmptySeq
      <4> QED BY <4>3, RsetFacts
    <3>3. m \in Nat /\ r.dpos < m
      BY <2>2, <3>2
    <3> HIDE DEF q, m
    <3>4. k \in Nat /\ L \in Nat /\ k < L /\ k < m
      BY <3>1, <3>2, <3>3
    <3>5. WriteRsetCounting(q, m) = WriteRset(q)
      BY <3>3, <3>4, CountedLess
    <3> QED BY <3>1, <3>5 DEF q, m
  <2> QED BY <2>1, <2>2
<1>4. \A i \in 1..N : NumRecords(d[i]) > 0
  BY <1>1 DEF AllHaveRecords
<1>5. u = [i \in 1..N |-> Sorted(d[i])]
  BY <1>1 DEF SortedDb
<1> HIDE DEF u, n
<1>6. \A i \in 1..N :
        /\ u[i] \in Rsets /\ Canonical(u[i]) /\ Complete(u[i])
        /\ u[i].desc = d[i].desc /\ u[i].dpos = d[i].dpos
        /\ WriteRsetCounting(Sorted(d[i]), n(d[i])) = WriteRset(u[i])
  BY <1>1, <1>2, <1>3, <1>4, <1>5
<1>7. u \in Seq(Rsets) /\ Len(u) = N /\ DOMAIN u = 1..N
  BY <1>1, <1>5, <1>6
<1>8. CanonicalDb(u)
  <2>1. \A i \in 2..N : i \in 1..N
    BY <1>1
  <2>2. \A i \in 2..N : u[i].desc # None /\ u[i].dpos = 0
    BY <1>2, <1>6, <2>1
  <2> QED BY <1>6, <1>7, <2>2 DEF CanonicalDb, OneByOne
<1>9. WriteSorted(d) = Write(u)
  <2>1. WriteSorted(d) = FlattenSeq([i \in 1..N |-> w(i, d[i])])
    BY <1>1 DEF WriteSorted, n
  <2>2. Write(u) = FlattenSeq([i \in 1..N |-> v(i, u[i])])
    BY <1>7 DEF Write
  <2>3. \A i \in 1..N : w(i, d[i]) = v(i, u[i])
    BY <1>6
  <2> HIDE DEF w, v
  <2>4. [i \in 1..N |-> w(i, d[i])] = [i \in 1..N |-> v(i, u[i])]
    BY <2>3
  <2> QED BY <2>1, <2>2, <2>4
<1> QED BY <1>7, <1>8, <1>9 DEF u

LEMMA ReadBackSorts == ReadBackInv => SortedRoundTrip
<1> SUFFICES ASSUME ReadBackInv, status = "done", nfiles = 1,
                    \A i \in DOMAIN db : NumRecords(db[i]) > 0
             PROVE  Parse(WriteSorted(db)).out = [i \in DOMAIN db |-> Sorted(db[i])]
  BY DEF SortedRoundTrip
<1> DEFINE u == SortedDb(db)
<1>1. db \in Seq(Rsets) /\ CanonicalDb(db) /\ AllHaveRecords(db)
  BY DEF ReadBackInv, AllHaveRecords
<1>2. u \in Seq(Rsets) /\ CanonicalDb(u) /\ WriteSorted(db) = Write(u)
  BY <1>1, SortedWritten
<1> HIDE DEF u
<1>3. u \in Seq(CompleteRsets(Contents)) /\ OneByOne(u)
  BY <1>2, CanonicalOver
<1>4. Parse(Write(u)).out = u
  BY <1>3, DbReadBack
<1> QED BY <1>2, <1>4 DEF u, SortedDb

\* What recfix --sort writes of a file, of which every record set has
\* records, is read back as the sorted record sets, whatever the file is and
\* however long, although the writer compares the position of a descriptor
\* with twice the number of the elements (recfix_do_sort, rec_write_rset).
THEOREM SortedIsReadBack == Spec => []SortedRoundTrip
<1>1. Init => ReadInv /\ ReadBackInv
  BY InitRead, InitReadBack
<1>2. (ReadInv /\ ReadBackInv) /\ [Next]_vars => (ReadInv /\ ReadBackInv)'
  BY NextRead, NextReadBack
<1>3. ReadInv /\ ReadBackInv => SortedRoundTrip
  BY ReadBackSorts
<1> QED BY <1>1, <1>2, <1>3, PTL DEF Spec

=============================================================================
