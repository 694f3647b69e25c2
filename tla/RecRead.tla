------------------------------ MODULE RecRead ------------------------------
(***************************************************************************)
(* Reading a database from the files named in a command line:              *)
(* recutl_build_db and recutl_parse_db_from_file of src/utils/recutl.c,    *)
(* over the parser of RecText.  The text of the files is chosen line by    *)
(* line as it is read; the v of a field or of a comment is its line        *)
(* number, so that every line has contents of its own.                     *)
(***************************************************************************)
EXTENDS RecText

CONSTANTS
  TypeNames,  \* the values of %rec
  Name,       \* the name of an ordinary field
  MaxLines,   \* bound of the model: lines in all the files together
  MaxFiles    \* bound of the model: files in the command line

ASSUME RecReadAssumption ==
  /\ MaxLines \in Nat /\ MaxFiles \in Nat \ {0}
  /\ 1..MaxLines \subseteq Contents
  /\ TypeNames \subseteq Contents /\ Name \in Contents /\ Name # REC

VARIABLES
  parser,  \* the parser of the file being read
  db,      \* the database built so far
  status,  \* "file": reading one, "rest": not reading the rest of
           \* one, "open": between two files, "done", "failed": a parse
           \* error was reported, "fatal": exit, "crashed": NULL database
  file,    \* history: the lines of the current file
  done,    \* history: the lines of the files read before it
  nfiles   \* the number of files opened

vars == <<parser, db, status, file, done, nfiles>>

Init ==
  /\ parser = NewParser /\ db = << >> /\ status = "file"
  /\ file = << >> /\ done = << >> /\ nfiles = 1

LineNo == Len(done) + Len(file) + 1
Lines == {Blank, Bad, Cut, CommentLine(LineNo), FieldLine(Name, LineNo)}
           \cup {FieldLine(REC, t) : t \in TypeNames}

---------------------------------------------------------------------------
\* Slip: later anonymous records are put first.
AddRsetBefore(s, rset) ==
  LET t == RsetType(rset)
      same == RsetsOfType(s.db, t)
  IN IF s.status # "file" THEN s
     ELSE IF same = {} THEN [s EXCEPT !.db = Append(@, rset)]
     ELSE IF t # None THEN [s EXCEPT !.status = "fatal"]
     ELSE [db |-> [i \in DOMAIN s.db |->
                     IF i \in same
                     THEN [s.db[i] EXCEPT !.elems = rset.elems \o @]
                     ELSE s.db[i]],
           status |-> "rest"]

\* The body of the loop of recutl_parse_db_from_file, for a record set that
\* rec_parse_rset has returned: a new type is added at the end; the elements
\* of anonymous records are appended to those already there, and the
\* function returns without reading the rest of the file.
AddRset(s, rset) ==
  LET t == RsetType(rset)
      same == RsetsOfType(s.db, t)
  IN IF s.status # "file" THEN s
     ELSE IF same = {} THEN [s EXCEPT !.db = Append(@, rset)]
     ELSE IF t # None THEN [s EXCEPT !.status = "fatal"]
     ELSE [db |-> [i \in DOMAIN s.db |->
                     IF i \in same
                     THEN [s.db[i] EXCEPT !.elems = @ \o rset.elems]
                     ELSE s.db[i]],
           status |-> "rest"]

\* The database after the first n record sets that p has completed and
\* parser not, and after all of them.
Added(p) ==
  LET added[n \in 0..(Len(p.out) - Len(parser.out))] ==
        IF n = 0 THEN [db |-> db, status |-> "file"]
        ELSE AddRset(added[n - 1], p.out[Len(parser.out) + n])
  IN added
AddNew(p) == Added(p)[Len(p.out) - Len(parser.out)]

\* One more line of the current file, and the record set it completes.
ReadLine(line) ==
  LET p == ParseLine(parser, line) IN
  /\ status = "file" /\ ~parser.err /\ LineNo <= MaxLines
  /\ file' = Append(file, line)
  /\ parser' = p
  /\ db' = AddNew(p).db /\ status' = AddNew(p).status
  /\ UNCHANGED <<done, nfiles>>

\* The parser stops at an error: it is reported and the database is freed.
ReadError ==
  /\ status = "file" /\ parser.err
  /\ status' = "failed"
  /\ UNCHANGED <<parser, db, file, done, nfiles>>

\* The end of the file ends its last record, which may be a descriptor, and
\* its last record set.
ReadEof ==
  LET p == ParseEof(parser) IN
  /\ status = "file" /\ ~parser.err
  /\ parser' = p
  /\ db' = AddNew(p).db
  /\ status' = IF AddNew(p).status = "fatal" THEN "fatal" ELSE "open"
  /\ UNCHANGED <<file, done, nfiles>>

\* The rest of a file whose anonymous records were merged is not read.
RestOfFile(line) ==
  /\ status = "rest" /\ LineNo <= MaxLines
  /\ file' = Append(file, line)
  /\ UNCHANGED <<parser, db, status, done, nfiles>>

\* The next file of the command line (recutl_build_db).
OpenFile ==
  /\ status \in {"open", "rest"} /\ nfiles < MaxFiles
  /\ status' = "file" /\ nfiles' = nfiles + 1
  /\ parser' = NewParser
  /\ done' = done \o file /\ file' = << >>
  /\ UNCHANGED db

\* recutl_build_db goes on with the next file although the database was
\* freed: a file that holds a record set adds it to NULL, and crashes.
OpenFileWithoutDb(hasRset) ==
  /\ status = "failed" /\ nfiles < MaxFiles
  /\ nfiles' = nfiles + 1
  /\ status' = IF hasRset THEN "crashed" ELSE "failed"
  /\ UNCHANGED <<parser, db, file, done>>

Finish ==
  /\ status \in {"open", "rest"} /\ status' = "done"
  /\ UNCHANGED <<parser, db, file, done, nfiles>>

Next ==
  \/ \E line \in Lines : ReadLine(line)
  \/ \E line \in Lines : RestOfFile(line)
  \/ ReadError
  \/ ReadEof
  \/ OpenFile
  \/ \E hasRset \in BOOLEAN : OpenFileWithoutDb(hasRset)
  \/ Finish

Spec == Init /\ [][Next]_vars

---------------------------------------------------------------------------
(* recfix --sort, on what was read from a file *)

\* Slip: the comments of a record set go behind its records.
SortedLast(rset) ==
  IF rset.desc = None THEN rset
  ELSE [rset EXCEPT !.elems = Records(rset) \o Comments(rset)]

\* rec_rset_sort, for the record sets with a %sort, which here are all those
\* with a descriptor: the comments come first.  The records are sorted by
\* their line numbers, and are in that order.
Sorted(rset) ==
  IF rset.desc = None THEN rset
  ELSE [rset EXCEPT !.elems = Comments(rset) \o Records(rset)]

\* recfix_do_sort: the sorted record sets are written in a process where
\* rec_rset_num_elems counts their elements twice.
WriteSorted(d) ==
  LET count(rset) == Len(rset.elems) * IF rset.desc = None THEN 1 ELSE 2
  IN FlattenSeq([i \in DOMAIN d |->
                   (IF i # 1 THEN <<Blank>> ELSE << >>)
                   \o WriteRsetCounting(Sorted(d[i]), count(d[i]))])

---------------------------------------------------------------------------
(* Properties *)

Text == done \o file

\* A file that is read, when it holds at least one field, comes back with
\* every field and every comment in its place: writing the database gives
\* the same lines, packed (rec_parse_rset, rec_write_db).
NothingLost ==
  status = "done" /\ nfiles = 1 /\ (\E i \in DOMAIN Text : Text[i].k = "field")
    => NonBlank(Write(db)) = NonBlank(Text)

\* Reading what was written gives the same database: the same record sets,
\* descriptors, records and comments, and the descriptors between the same
\* elements (rec_write_rset places a descriptor with descriptor_pos and
\* rec_parse_rset counts comments to find it again).
RoundTrip ==
  status = "done" /\ nfiles = 1
    => /\ ~Parse(Write(db)).err
       /\ Parse(Write(db)).out = db

\* The elements of a record set are in the order of the command line, and
\* each is there once, when the anonymous records of a later file are added
\* to those already read.
LineOf(line) == IF line.k = "field" THEN line.v ELSE line.of
OrderKept ==
  \A i \in DOMAIN db :
    LET lines == NonBlank(WriteRset([db[i] EXCEPT !.desc = None]))
    IN \A j, k \in DOMAIN lines :
         j < k => LineOf(lines[j]) < LineOf(lines[k])

\* A file of which every record set has records can be sorted: what recfix
\* --sort writes is read back as the sorted database, although the number
\* of elements the writer compares the descriptor's position with is wrong.
SortedRoundTrip ==
  status = "done" /\ nfiles = 1 /\ (\A i \in DOMAIN db : NumRecords(db[i]) > 0)
    => Parse(WriteSorted(db)).out = [i \in DOMAIN db |-> Sorted(db[i])]

\* The comment in rec_write_rset: the special case of a descriptor behind
\* the last comment is written too.
DescriptorWritten ==
  status = "done" /\ nfiles = 1
    => \A i \in DOMAIN db :
         db[i].desc # None
           => \E j \in DOMAIN WriteSorted(db) :
                WriteSorted(db)[j] = FieldLine(REC, RsetType(db[i]))

\* The manual on recsel: several files are processed and their records
\* output, here for files that were read without an error.
FilesProcessed ==
  status = "done" =>
    \A i \in DOMAIN Text :
      Text[i].k = "field" /\ Text[i].n # REC
        => \E j \in DOMAIN Write(db) : Write(db)[j] = Text[i]

=============================================================================
