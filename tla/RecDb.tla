------------------------------- MODULE RecDb -------------------------------
(***************************************************************************)
(* The operations of src/src/rec-db.c that modify a database in memory:    *)
(* rec_db_insert, rec_db_delete and rec_db_set, over the databases of      *)
(* RecText, and the writing and reading back that separates two commands   *)
(* on the same file (Reload).                                              *)
(*                                                                         *)
(* A selection (an index list, a selection expression, a quick string or a *)
(* number of random records) is the set of record numbers it selects in    *)
(* the record set; it is Everything when no selection option is given.  A  *)
(* subscript of a field expression is the set of occurrences it selects.   *)
(***************************************************************************)
EXTENDS RecText

CONSTANTS
  KEY,         \* the special field name %key
  TypeArgs,    \* the types given to the operations, None for the default
  Names,       \* the names of the fields of records
  Values,      \* the values given to fields
  Subscripts,  \* the subscripts, as sets of occurrences
  MaxElems,    \* bound of the model: elements of all the record sets
  MaxItems     \* bound of the model: items of a record

ASSUME RecDbAssumption ==
  /\ Names \cap {REC, KEY} = {} /\ REC # KEY
  /\ Names \cup Values \cup (TypeArgs \ {None}) \cup {KEY, "text"} \subseteq Contents
  /\ \A w \in Subscripts : w \subseteq Nat
  /\ MaxElems \in Nat /\ MaxItems \in Nat

VARIABLES
  db,      \* the database
  crashed  \* a NULL record set was dereferenced

vars == <<db, crashed>>

\* An empty database, or one of a record set with a descriptor and a key.
Init ==
  /\ db \in {<< >>}
       \cup {<<NewRset(<<Field(REC, t), Field(KEY, n)>>)>> :
               t \in TypeArgs \ {None}, n \in Names}
  /\ crashed = FALSE

Everything == 0..MaxElems

SizeOf(d) == FoldLeft(LAMBDA n, rset : n + Len(rset.elems), 0, d)

\* rec_db_get_rset_by_type: the first record set of the type, as a set.
RsetByType(d, t) ==
  {i \in RsetsOfType(d, t) : \A j \in RsetsOfType(d, t) : i <= j}

\* The record set rec_db_delete and rec_db_set work on.
TargetRset(d, t) ==
  IF t = None /\ RsetsOfType(d, t) = {} /\ Len(d) = 1 THEN {1}
  ELSE RsetByType(d, t)

\* The number, from 0, of the record that is element j.
RecordNumber(elems, j) ==
  Cardinality({k \in 1..(j - 1) : elems[k].k = "record"})

\* rec_db_record_selected_p
Selected(elems, sel, j) ==
  elems[j].k = "record" /\ RecordNumber(elems, j) \in sel

\* The selections that tell the records of the target apart.
Selections(t) ==
  {Everything} \cup
    UNION {SUBSET (0..(NumRecords(db[i]) - 1)) : i \in TargetRset(db, t)}

---------------------------------------------------------------------------
(* rec_db_insert *)

\* Slip: a new record is always put behind the descriptor.
InsertIndexFirst(rset) == rset.dpos + 1

\* Where a new record goes: after the last record, or just after the
\* relative position of the descriptor when there is none.
InsertIndex(rset) ==
  LET recs == {j \in DOMAIN rset.elems : rset.elems[j].k = "record"}
  IN IF recs = {} THEN rset.dpos + 1
     ELSE 1 + CHOOSE j \in recs : \A k \in recs : k <= j

\* No selection option: the record is appended to the record set of its
\* type, or to a new one; a new default record set is the first one.
Inserted(d, t, items) ==
  IF RsetByType(d, t) # {}
  THEN [i \in DOMAIN d |->
          IF i \notin RsetByType(d, t) THEN d[i]
          ELSE [d[i] EXCEPT !.elems =
                  InsertAt(@, InsertIndex(d[i]), Record(items))]]
  ELSE LET new == [NewRset(IF t = None THEN None ELSE <<Field(REC, t)>>)
                     EXCEPT !.elems = <<Record(items)>>]
       IN IF t = None THEN <<new>> \o d ELSE Append(d, new)

Insert(t, items) ==
  /\ ~crashed /\ SizeOf(db) < MaxElems
  /\ db' = Inserted(db, t, items)
  /\ UNCHANGED crashed

\* A selection option: the selected records are replaced by copies.
Replace(t, sel, items) ==
  /\ ~crashed
  /\ db' = [i \in DOMAIN db |->
              IF i \notin RsetByType(db, t) THEN db[i]
              ELSE [db[i] EXCEPT !.elems =
                      [j \in DOMAIN @ |->
                         IF Selected(@, sel, j) THEN Record(items) ELSE @[j]]]]
  /\ UNCHANGED crashed

---------------------------------------------------------------------------
(* rec_db_delete *)

\* rec_record_to_comment and rec_field_to_comment: the text of a comment
\* is what would be written, of which the model keeps one line.
ToComment == Comment(<<"text">>)

\* The elements of s whose index is in kept.
Keep(s, kept) ==
  LET at(j) == IF j \in kept THEN <<s[j]>> ELSE << >>
  IN FlattenSeq([j \in DOMAIN s |-> at(j)])

DeleteSelected(elems, sel) ==
  Keep(elems, {j \in DOMAIN elems : ~Selected(elems, sel, j)})

CommentSelected(elems, sel) ==
  [j \in DOMAIN elems |->
     IF Selected(elems, sel, j) THEN ToComment ELSE elems[j]]

\* The function reads the number of records of a record set that may be
\* missing.
Delete(t, sel, commentOut) ==
  /\ ~crashed
  /\ crashed' = (TargetRset(db, t) = {})
  /\ db' = [i \in DOMAIN db |->
              IF i \notin TargetRset(db, t) THEN db[i]
              ELSE [db[i] EXCEPT !.elems =
                      IF commentOut THEN CommentSelected(@, sel)
                      ELSE DeleteSelected(@, sel)]]

---------------------------------------------------------------------------
(* rec_db_set *)

\* Item i is a field n whose occurrence the subscript w selects.
Hit(items, i, n, w) ==
  /\ items[i].k = "field" /\ items[i].n = n
  /\ Cardinality({k \in 1..(i - 1) : items[k].k = "field"
                                     /\ items[k].n = n}) \in w

\* rec_db_set_act_rename, for the fields of a record.
ActRename(items, n, w, m) ==
  [i \in DOMAIN items |->
     IF Hit(items, i, n, w) THEN Field(m, items[i].v) ELSE items[i]]

\* rec_db_set_act_set
ActSet(items, n, w, v, addP) ==
  LET set == [i \in DOMAIN items |->
                IF Hit(items, i, n, w) THEN Field(n, v) ELSE items[i]]
  IN IF addP /\ ~HasField(items, n) THEN Append(set, Field(n, v)) ELSE set

\* rec_db_set_act_add
ActAdd(items, n, v) == Append(items, Field(n, v))

\* rec_db_set_act_delete
ActDelete(items, n, w, commentOut) ==
  IF commentOut
  THEN [i \in DOMAIN items |->
          IF Hit(items, i, n, w) THEN ToComment ELSE items[i]]
  ELSE Keep(items, {i \in DOMAIN items : ~Hit(items, i, n, w)})

\* rec_rset_rename_field, for a descriptor with a %key.
RenameInDescriptor(desc, n, m) ==
  IF desc = None THEN None
  ELSE [i \in DOMAIN desc |->
          IF desc[i] = Field(KEY, n) THEN Field(KEY, m) ELSE desc[i]]

\* The first record a traversal without a selection comes to.
FirstRecord(rset) == Records(rset)[1].items

\* The descriptor is renamed while the first record of an entire record
\* set is, if that record has the field.
SetDescriptor(rset, sel, act, n, w, m) ==
  IF act = "rename" /\ sel = Everything
     /\ \E i \in DOMAIN FirstRecord(rset) : Hit(FirstRecord(rset), i, n, w)
  THEN RenameInDescriptor(rset.desc, n, m) ELSE rset.desc

Act(items, act, n, w, v) ==
  CASE act = "rename" -> ActRename(items, n, w, v)
    [] act = "set" -> ActSet(items, n, w, v, FALSE)
    [] act = "setadd" -> ActSet(items, n, w, v, TRUE)
    [] act = "add" -> ActAdd(items, n, v)
    [] act = "delete" -> ActDelete(items, n, w, FALSE)
    [] act = "comment" -> ActDelete(items, n, w, TRUE)

\* v is the action argument: a field name for "rename", else a value.
SetRset(rset, sel, act, n, w, v) ==
  IF NumRecords(rset) = 0 THEN rset
  ELSE [rset EXCEPT
          !.desc = SetDescriptor(rset, sel, act, n, w, v),
          !.elems = [j \in DOMAIN @ |->
                       IF Selected(@, sel, j)
                       THEN Record(Act(@[j].items, act, n, w, v))
                       ELSE @[j]]]

ItemsBounded(d) ==
  \A i \in DOMAIN d : \A j \in DOMAIN d[i].elems :
    d[i].elems[j].k = "record" => Len(d[i].elems[j].items) <= MaxItems

Set(t, sel, act, n, w, v) ==
  /\ ~crashed
  /\ crashed' = (TargetRset(db, t) = {})
  /\ db' = [i \in DOMAIN db |->
              IF i \in TargetRset(db, t) THEN SetRset(db[i], sel, act, n, w, v)
              ELSE db[i]]
  /\ ItemsBounded(db')

---------------------------------------------------------------------------
\* The database is written to its file and the next command reads it.  A
\* comment in front of the fields of a record is read as one before it.
Reloaded(d) == Parse(Write(d)).out

Reload ==
  /\ ~crashed
  /\ db' = Reloaded(db) /\ SizeOf(db') <= MaxElems
  /\ UNCHANGED crashed

NewRecords == {<<Field(n, v)>> : n \in Names, v \in Values}
Actions == {"set", "setadd", "add", "delete", "comment"}

Next ==
  \/ \E t \in TypeArgs, r \in NewRecords : Insert(t, r)
  \/ \E t \in TypeArgs, r \in NewRecords :
       \E sel \in Selections(t) : Replace(t, sel, r)
  \/ \E t \in TypeArgs, c \in BOOLEAN :
       \E sel \in Selections(t) : Delete(t, sel, c)
  \/ \E t \in TypeArgs, n, m \in Names, w \in Subscripts :
       \E sel \in Selections(t) : Set(t, sel, "rename", n, w, m)
  \/ \E t \in TypeArgs, act \in Actions, n \in Names, v \in Values,
        w \in Subscripts :
       \E sel \in Selections(t) : Set(t, sel, act, n, w, v)
  \/ Reload

Spec == Init /\ [][Next]_vars

---------------------------------------------------------------------------
(* Properties *)

\* The records of type t, without their comments; a record that has lost
\* all its fields is none.
FieldsIn(e) ==
  IF e.k = "record" /\ Fields(e.items) # << >> THEN <<Fields(e.items)>>
  ELSE << >>
FieldsOf(elems) == FlattenSeq([j \in DOMAIN elems |-> FieldsIn(elems[j])])
RecordsIn(rset, t) == IF RsetType(rset) = t THEN FieldsOf(rset.elems) ELSE << >>
RecordsOf(d, t) == FlattenSeq([i \in DOMAIN d |-> RecordsIn(d[i], t)])

CommentLines(d) == Only(Write(d), "comment")

\* What is written is read back: after any operations, each type has the
\* same records, with the same fields, in the same order.
ReloadKeepsRecords ==
  \A t \in TypeArgs \cup {None} :
    RecordsOf(Reloaded(db), t) = RecordsOf(db, t)

\* A new record is the last one of its type, also on the way through the
\* file (rec.h, rec_db_insert: the new record is appended).
InsertLast ==
  \A t \in TypeArgs, r \in NewRecords :
    RecordsOf(Reloaded(Inserted(db, t, r)), t) = Append(RecordsOf(db, t), r)

\* As long as the file holds a field, writing the database and reading it
\* keeps every comment: what a command comments out is not removed by the
\* next one.
CommentsKept ==
  (\E i \in DOMAIN Write(db) : Write(db)[i].k = "field")
    => CommentLines(Reloaded(db)) = CommentLines(db)

\* The manual on comments: what is commented out is not removed in a
\* definitive way.  Writing the database and reading it keeps the comments.
CommentsSurvive == CommentLines(Reloaded(db)) = CommentLines(db)

\* The manual on recset --rename: if an entire record set is selected then
\* the field is renamed in the record descriptor as well.
DescriptorRenamed ==
  \A i \in DOMAIN db : \A n, m \in Names, w \in Subscripts :
    LET new == SetRset(db[i], Everything, "rename", n, w, m)
    IN db[i].desc # None /\ n # m /\ new # db[i]
         => Field(KEY, n) \notin ToSet(new.desc)

=============================================================================
