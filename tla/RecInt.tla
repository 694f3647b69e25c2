------------------------------- MODULE RecInt -------------------------------
(***************************************************************************)
(* Descriptors and integrity: the properties a record set derives from its *)
(* descriptor (src/src/rec-rset.c), the checks of src/src/rec-int.c, auto  *)
(* fields, and the commands recins, recset, recdel and recfix that change  *)
(* a file and write it when the check finds nothing.                       *)
(*                                                                         *)
(* A record is a sequence of pairs, name and value.  A descriptor is a     *)
(* sequence of directives; ok tells whether the text of the directive can  *)
(* be parsed (see RecTypes and RecFex for the parsing).  A file is a       *)
(* sequence of record sets, each of them a descriptor and records.         *)
(***************************************************************************)
EXTENDS RecCrypt

CONSTANTS Fields,       \* the names of fields
          Values,       \* the plain values that commands write
          NewRecords,   \* the records given to recins
          Starts,       \* the file and the external file to start from
          Passwords,
          IntMax,       \* INT_MAX
          SizeMax,      \* SIZE_MAX
          MaxRecords,   \* bound: no more records in a record set
          MaxCommands   \* bound: no more commands that write the file

ASSUME IntAssumption ==
  /\ IntMax \in Nat /\ SizeMax \in Nat /\ MaxRecords \in Nat /\ MaxCommands \in Nat
  /\ \A p \in Passwords : Len(p) > 0

\* Sequences; records, whose fields are pairs; descriptors, in which a %key
\* names one field; and files.
IsSeq(s) == s \in Seq(Range(s))
IsRecord(rec) ==
  IsSeq(rec) /\ \A j \in DOMAIN rec : rec[j] = <<rec[j][1], rec[j][2]>>
IsDescriptor(desc) ==
  /\ IsSeq(desc)
  /\ \A n \in DOMAIN desc : /\ IsSeq(desc[n].fs)
                            /\ desc[n].d = "key" => Len(desc[n].fs) <= 1
IsFile(f) ==
  /\ IsSeq(f)
  /\ \A i \in DOMAIN f :
       /\ f[i] = [desc |-> f[i].desc, recs |-> f[i].recs]
       /\ IsDescriptor(f[i].desc)
       /\ IsSeq(f[i].recs)
       /\ \A k \in DOMAIN f[i].recs : IsRecord(f[i].recs[k])

\* The descriptors of an external file.
IsOutside(out) == \A n \in DOMAIN out.descs : IsDescriptor(out.descs[n])

ASSUME FilesAssumption ==
  /\ \A s \in Starts : IsFile(s.file) /\ IsOutside(s.outside)
  /\ \A rec \in NewRecords : IsRecord(rec)

VARIABLES file,    \* the record sets in the file
          outside, \* the external file with the remote descriptor
          cmd      \* the last command that wrote the file

vars == <<file, outside, cmd>>

NoDescriptor == << >>
None == "none"

---------------------------------------------------------------------------
(* Directives *)

Named(d, names) == [d |-> d, ok |-> TRUE, fs |-> names]
Broken(d) == [d |-> d, ok |-> FALSE, fs |-> << >>]
Type(names, t) == [d |-> "type", ok |-> TRUE, fs |-> names, t |-> t]
Typedef(n, t) == [d |-> "typedef", ok |-> TRUE, fs |-> <<n>>, t |-> t]
Size(cond, n) == [d |-> "size", ok |-> TRUE, fs |-> << >>, cond |-> cond, n |-> n]
Rec(name, from) == [d |-> "rec", ok |-> TRUE, fs |-> <<name>>, from |-> from]
Constraint(f, v) == [d |-> "constraint", ok |-> TRUE, fs |-> <<f>>, v |-> v]

\* Types: a kind, and what belongs to it.  "name" refers to a %typedef.
Kind(k) == [kind |-> k]
RangeType(min, max) == [kind |-> "range", min |-> min, max |-> max]
RecType(t) == [kind |-> "rec", ref |-> t]
TypeName(n) == [kind |-> "name", ref |-> n]
NoType == [kind |-> None]

Of(desc, d) == SelectSeq(desc, LAMBDA x : x.d = d)
Directives(desc, d) == {n \in DOMAIN desc : desc[n].d = d}
NamesOf(desc, d) ==
  UNION {Range(x.fs) : x \in {y \in Range(desc) : y.d = d /\ y.ok}}

\* rec_type_check for the kinds in use here.
rec_type_check(t, v) ==
  CASE t.kind = "int" -> v[1] = "int"
    [] t.kind = "range" -> v[1] = "int" /\ t.min <= v[2] /\ v[2] <= t.max
    [] t.kind \in {"date", "uuid"} -> v[1] = t.kind
    [] OTHER -> TRUE

---------------------------------------------------------------------------
(* The registry of types: a function from names to types or synonyms *)

rec_type_reg_get(reg, name) ==
  LET follow(t, i) == IF t.kind = "name" THEN IF t.ref \in DOMAIN reg
                                              THEN reg[t.ref] ELSE NoType
                      ELSE t
      end == FoldLeft(follow, TypeName(name),
                      [i \in 1..(Cardinality(DOMAIN reg) + 1) |-> i])
  IN IF end.kind = "name" THEN NoType ELSE end

rec_rset_update_types(desc) ==
  FoldLeft(LAMBDA reg, x : (x.fs[1] :> x.t) @@ reg,
           [n \in {} |-> NoType],
           SelectSeq(desc, LAMBDA x : x.d = "typedef" /\ x.ok
                                      /\ x.t.kind # "invalid"))

---------------------------------------------------------------------------
(* The properties of fields: a list to which new fields are prepended *)

NewProps(f) == [f |-> f, auto |-> FALSE, key |-> FALSE, conf |-> FALSE,
                type |-> NoType, name |-> None]

\* The places of the properties of f: one or none.
rec_rset_get_props(props, f) == {i \in DOMAIN props : props[i].f = f}

PropsOf(x, p) ==
  CASE x.d = "type" -> IF x.t.kind = "name"
                       THEN [p EXCEPT !.type = NoType, !.name = x.t.ref]
                       ELSE [p EXCEPT !.type = x.t, !.name = None]
    [] x.d = "key" -> [p EXCEPT !.key = TRUE]
    [] x.d = "auto" -> [p EXCEPT !.auto = TRUE]
    [] x.d = "confidential" -> [p EXCEPT !.conf = TRUE]

\* The properties with those of f, created if there are none, changed as the
\* directive x says.
PropsWith(props, f, x) ==
  IF rec_rset_get_props(props, f) = {} THEN <<PropsOf(x, NewProps(f))>> \o props
  ELSE [i \in DOMAIN props |-> IF props[i].f = f THEN PropsOf(x, props[i])
                               ELSE props[i]]

\* The properties after the first k fields that a directive names.
PropsNamed(props, x) ==
  LET named[k \in 0..Len(x.fs)] ==
        IF k = 0 THEN props ELSE PropsWith(named[k - 1], x.fs[k], x)
  IN named

SaysOfFields(x) ==
  /\ x.d \in {"type", "key", "auto", "confidential"}
  /\ x.ok
  /\ x.d = "type" => x.t.kind # "invalid"

ScanNext(props, x) ==
  IF SaysOfFields(x) THEN PropsNamed(props, x)[Len(x.fs)] ELSE props

\* The properties after the first n directives.
PropsScanned(props, desc) ==
  LET scanned[n \in 0..Len(desc)] ==
        IF n = 0 THEN props ELSE ScanNext(scanned[n - 1], desc[n])
  IN scanned

\* The directives of the descriptor that say something of fields, applied in
\* their order; then an auto field without type is an integer.
ScanProps(props, desc) ==
  LET scanned == PropsScanned(props, desc)[Len(desc)]
      typed(p) == IF p.auto /\ p.type = NoType /\ p.name = None
                  THEN [p EXCEPT !.type = Kind("int")] ELSE p
  IN [i \in DOMAIN scanned |-> typed(scanned[i])]

\* Slip: the keys are not reset either.
FieldPropsKeyKept(props, desc) ==
  ScanProps([i \in DOMAIN props |->
               [props[i] EXCEPT !.auto = FALSE, !.type = NoType]], desc)

\* The reset keeps conf and name.
rec_rset_update_field_props(props, desc) ==
  ScanProps([i \in DOMAIN props |->
               [props[i] EXCEPT !.key = FALSE, !.auto = FALSE,
                                !.type = NoType]], desc)

rec_rset_key(rset) ==
  LET keys == {i \in DOMAIN rset.props : rset.props[i].key}
  IN IF keys = {} THEN None ELSE rset.props[Min(keys)].f

rec_rset_auto(rset) ==
  {rset.props[i].f : i \in {j \in DOMAIN rset.props : rset.props[j].auto}}

rec_rset_confidential(rset) ==
  {rset.props[i].f : i \in {j \in DOMAIN rset.props : rset.props[j].conf}}

rec_rset_get_field_type(rset, f) ==
  LET of(p) == IF p.type = NoType /\ p.name # None
               THEN rec_type_reg_get(rset.reg, p.name) ELSE p.type
      places == rec_rset_get_props(rset.props, f)
  IN IF places = {} THEN NoType ELSE of(rset.props[Min(places)])

\* size_t arithmetic.
ToSize(n) == n % (SizeMax + 1)

\* Slip: "<" is taken for "<=".
SizeConstraintsOffByOne(desc) ==
  LET sizes == Of(desc, "size")
      n == ToSize(sizes[1].n)
  IN IF sizes = << >> \/ ~sizes[1].ok THEN [min |-> 0, max |-> SizeMax]
     ELSE CASE sizes[1].cond = "=" -> [min |-> n, max |-> n]
            [] sizes[1].cond = "<" -> [min |-> 0, max |-> n]
            [] sizes[1].cond = "<=" -> [min |-> 0, max |-> n]
            [] sizes[1].cond = ">" -> [min |-> ToSize(n + 1), max |-> SizeMax]
            [] sizes[1].cond = ">=" -> [min |-> n, max |-> SizeMax]

rec_rset_update_size_constraints(desc) ==
  LET sizes == Of(desc, "size")
      n == ToSize(sizes[1].n)
  IN IF sizes = << >> \/ ~sizes[1].ok THEN [min |-> 0, max |-> SizeMax]
     ELSE CASE sizes[1].cond = "=" -> [min |-> n, max |-> n]
            [] sizes[1].cond = "<" -> [min |-> 0, max |-> ToSize(n - 1)]
            [] sizes[1].cond = "<=" -> [min |-> 0, max |-> n]
            [] sizes[1].cond = ">" -> [min |-> ToSize(n + 1), max |-> SizeMax]
            [] sizes[1].cond = ">=" -> [min |-> n, max |-> SizeMax]

\* The constraints that compile.
rec_rset_update_sex_constraints(desc) ==
  SelectSeq(Of(desc, "constraint"), LAMBDA x : x.ok)

rec_rset_set_descriptor(rset, desc) ==
  [desc |-> desc, recs |-> rset.recs,
   reg |-> IF desc = NoDescriptor THEN rset.reg ELSE rec_rset_update_types(desc),
   props |-> rec_rset_update_field_props(rset.props, desc),
   limits |-> rec_rset_update_size_constraints(desc),
   cons |-> rec_rset_update_sex_constraints(desc)]

Load(f) ==
  [i \in DOMAIN f |->
     rec_rset_set_descriptor([recs |-> f[i].recs, props |-> << >>,
                              reg |-> [n \in {} |-> NoType]], f[i].desc)]

\* A %key that names no field: rec_rset_update_field_props looks for the
\* properties of a null name, which ends the program that loads the file.
BrokenKey(desc) == \E n \in DOMAIN desc : desc[n].d = "key" /\ ~desc[n].ok
Loadable(f) == \A i \in DOMAIN f : ~BrokenKey(f[i].desc)

Unload(db) == [i \in DOMAIN db |-> [desc |-> db[i].desc, recs |-> db[i].recs]]

RsetType(rset) == IF rset.desc = NoDescriptor THEN None
                  ELSE Of(rset.desc, "rec")[1].fs[1]

---------------------------------------------------------------------------
(* Integrity: whether a check reports no error *)

At(rec, f) == {i \in DOMAIN rec : rec[i][1] = f}
First(rec, f) == rec[Min(At(rec, f))][2]
Names(rec) == {rec[i][1] : i \in DOMAIN rec}

rec_int_check_record_key(rset, k) ==
  \A f \in NamesOf(rset.desc, "key") :
    /\ Cardinality(At(rset.recs[k], f)) = 1
    /\ \A o \in DOMAIN rset.recs \ {k} :
         At(rset.recs[o], f) # {} => First(rset.recs[o], f) # First(rset.recs[k], f)

\* A value of type rec is checked with the type of the key it refers to.  A
\* record set that has properties and no key stops the program (strcmp of a
\* null pointer): as after an error, nothing is written.
rec_int_check_field_type(db, rset, f, v) ==
  LET key_check(other, key) ==
        \/ key = None /\ other.props = << >>
        \/ key # None /\ rec_type_check(rec_rset_get_field_type(other, key), v)
      ref_check(refs) ==
        \A i \in refs : i = Min(refs) => key_check(db[i], rec_rset_key(db[i]))
      check(t) ==
        IF t.kind # "rec" THEN rec_type_check(t, v)
        ELSE ref_check({i \in DOMAIN db : RsetType(db[i]) = t.ref})
  IN check(rec_rset_get_field_type(rset, f))

rec_int_check_record_allowed(rset, rec) ==
  LET allowed == NamesOf(rset.desc, "allowed")
  IN allowed # {} => Names(rec) \subseteq allowed \cup NamesOf(rset.desc, "mandatory")
                                               \cup NamesOf(rset.desc, "key")

rec_int_check_record_mandatory(rset, rec) ==
  \A f \in NamesOf(rset.desc, "mandatory") : Cardinality(At(rec, f)) # 0

rec_int_check_record_unique(rset, rec) ==
  \A f \in NamesOf(rset.desc, "unique") : ~(Cardinality(At(rec, f)) > 1)

rec_int_check_record_prohibit(rset, rec) ==
  \A f \in NamesOf(rset.desc, "prohibit") : ~(Cardinality(At(rec, f)) > 0)

\* A constraint f = v holds when some field f has the value.
rec_int_check_record_sex_constraints(rset, rec) ==
  \A c \in DOMAIN rset.cons :
    \E i \in At(rec, rset.cons[c].fs[1]) : rec[i][2] = rset.cons[c].v

rec_int_check_record_secrets(rset, rec) ==
  \A i \in DOMAIN rec : rec[i][1] \in rec_rset_confidential(rset)
                        => rec_field_encrypted_p(rec[i][2])

rec_int_check_record_types(db, rset, rec) ==
  \A i \in DOMAIN rec : rec_int_check_field_type(db, rset, rec[i][1], rec[i][2])

rec_int_check_record(db, rset, k) ==
  LET rec == rset.recs[k]
  IN /\ rec_int_check_record_key(rset, k)
     /\ rec_int_check_record_types(db, rset, rec)
     /\ rec_int_check_record_mandatory(rset, rec)
     /\ rec_int_check_record_unique(rset, rec)
     /\ rec_int_check_record_prohibit(rset, rec)
     /\ rec_int_check_record_secrets(rset, rec)
     /\ rec_int_check_record_sex_constraints(rset, rec)
     /\ rec_int_check_record_allowed(rset, rec)

\* One directive of a descriptor.
CheckDirective(rset, x) ==
  /\ x.ok \/ x.d = "key"
  /\ x.d \in {"type", "typedef"} =>
       /\ x.t.kind # "invalid"
       /\ x.t.kind = "name" => rec_type_reg_get(rset.reg, x.t.ref) # NoType
  /\ x.d = "auto" =>
       \A i \in DOMAIN x.fs : rec_rset_get_field_type(rset, x.fs[i]).kind
                              \in {"int", "range", "uuid", "date"}

rec_int_check_descriptor(rset) ==
  rset.desc # NoDescriptor =>
    /\ Cardinality(Directives(rset.desc, "rec")) = 1
    /\ \A d \in {"key", "size", "sort"} : Cardinality(Directives(rset.desc, d)) <= 1
    /\ \A i \in DOMAIN rset.desc : CheckDirective(rset, rset.desc[i])

rec_int_check_size(rset) ==
  LET n == Len(rset.recs)
  IN IF rset.limits.min = rset.limits.max THEN n = rset.limits.min
     ELSE ~(n > rset.limits.max) /\ ~(n < rset.limits.min)

\* One directive of the external descriptor is added, unless it is its %rec.
RemoteNext(desc, x) == IF x.d = "rec" THEN desc ELSE Append(desc, x)

\* The descriptor with the first n directives of the external one.
WithRemote(desc, remote) ==
  LET merged[n \in 0..Len(remote)] ==
        IF n = 0 THEN desc ELSE RemoteNext(merged[n - 1], remote[n])
  IN merged

\* The external file is missing, is not valid rec data, or has descriptors,
\* none of which may stop the program.
rec_int_merge_remote(rset) ==
  LET rec == Of(rset.desc, "rec")[1]
      remote == outside.descs[rec.fs[1]]
      there == /\ outside.state = "valid" /\ rec.fs[1] \in DOMAIN outside.descs
               /\ \A n \in DOMAIN outside.descs : ~BrokenKey(outside.descs[n])
  IN IF rset.desc = NoDescriptor \/ ~rec.ok \/ rec.from = None
     THEN [ok |-> TRUE, rset |-> rset]
     ELSE IF ~there THEN [ok |-> FALSE, rset |-> rset]
     ELSE [ok |-> TRUE,
           rset |-> rec_rset_set_descriptor(rset,
                      WithRemote(rset.desc, remote)[Len(remote)])]

\* The checks of record set i of db, once it is merged; Restored is the
\* database afterwards, unless an error is found before the records.
CheckMerged(db, i, merge_ok, Restored(_)) ==
  IF ~merge_ok \/ ~rec_int_check_descriptor(db[i])
  THEN [ok |-> FALSE, db |-> db]
  ELSE [ok |-> /\ rec_int_check_size(db[i])
               /\ \A k \in DOMAIN db[i].recs : rec_int_check_record(db, db[i], k),
        db |-> Restored(db)]

Merged(rset, remote_p) ==
  IF remote_p THEN rec_int_merge_remote(rset) ELSE [ok |-> TRUE, rset |-> rset]

\* Slip: the merged descriptor stays.
CheckRsetMerged(db, i, remote_p) ==
  LET check(merge) == CheckMerged([db EXCEPT ![i] = merge.rset], i, merge.ok,
                                  LAMBDA merged : merged)
  IN check(Merged(db[i], remote_p))

\* The descriptor is restored unless an error is found before the records.
rec_int_check_rset(db, i, remote_p) ==
  LET restored(merged) ==
        IF remote_p
        THEN [merged EXCEPT ![i] = rec_rset_set_descriptor(@, db[i].desc)]
        ELSE merged
      check(merge) == CheckMerged([db EXCEPT ![i] = merge.rset], i, merge.ok,
                                  restored)
  IN check(Merged(db[i], remote_p))

\* One more record set is checked, after those that gave r.
CheckNext(r, i, remote_p) ==
  LET check == rec_int_check_rset(r.db, i, remote_p)
  IN [ok |-> r.ok /\ check.ok, db |-> check.db]

\* What the checks of the first n record sets found and left.
Checked(db, remote_p) ==
  LET checked[n \in 0..Len(db)] ==
        IF n = 0 THEN [ok |-> TRUE, db |-> db]
        ELSE CheckNext(checked[n - 1], n, remote_p)
  IN checked

rec_int_check_db(db, remote_p) == Checked(db, remote_p)[Len(db)]

---------------------------------------------------------------------------
(* Auto fields *)

\* What is left of a long that is assigned to an int, and of an int that
\* overflows.
ToInt(n) == ((n + IntMax + 1) % (2 * IntMax + 2)) - IntMax - 1

\* Slip: an equal number is not passed.
PassEqual(next, x, f) ==
  IF x[1] = f /\ x[2][1] = "int" /\ next < ToInt(x[2][2])
  THEN ToInt(ToInt(x[2][2]) + 1) ELSE next

\* The next number once it has to pass a field: one that is not called f, or
\* is not a number, is ignored.
Pass(next, x, f) ==
  IF x[1] = f /\ x[2][1] = "int" /\ next <= ToInt(x[2][2])
  THEN ToInt(ToInt(x[2][2]) + 1) ELSE next

\* The next number after the first j fields of a record.
PassFields(start, rec, f) ==
  LET next[j \in 0..Len(rec)] ==
        IF j = 0 THEN start ELSE Pass(next[j - 1], rec[j], f)
  IN next

PassRecord(start, rec, f) == PassFields(start, rec, f)[Len(rec)]

\* The next number after the first k records.
PassRecords(recs, f) ==
  LET next[k \in 0..Len(recs)] ==
        IF k = 0 THEN 0 ELSE PassRecord(next[k - 1], recs[k], f)
  IN next

rec_rset_add_auto_field_int(recs, f) ==
  <<"int", PassRecords(recs, f)[Len(recs)]>>

\* uuid_generate_time (external): one that nobody has.
FreshUuid(recs, f) ==
  <<"uuid", Cardinality({k \in DOMAIN recs : At(recs[k], f) # {}})>>

\* The value for field f of a new record: << >> if it gets none.
AutoField(rset, f) ==
  LET new(kind) ==
        CASE kind \in {"int", "range"} ->
               <<<<f, rec_rset_add_auto_field_int(rset.recs, f)>>>>
          [] kind = "date" -> <<<<f, <<"date", 0>>>>>>
          [] kind = "uuid" -> <<<<f, FreshUuid(rset.recs, f)>>>>
          [] OTHER -> << >>
  IN new(rec_rset_get_field_type(rset, f).kind)

\* The record with the field of p in front, if it is auto and missing.
FillField(rset, rec, p) ==
  IF p.auto /\ At(rec, p.f) = {} THEN AutoField(rset, p.f) \o rec ELSE rec

\* The record after the first n fields that have properties.
Filled(rset, rec) ==
  LET filled[n \in 0..Len(rset.props)] ==
        IF n = 0 THEN rec ELSE FillField(rset, filled[n - 1], rset.props[n])
  IN filled

rec_rset_add_auto_fields(rset, rec) == Filled(rset, rec)[Len(rset.props)]

---------------------------------------------------------------------------
(* Commands *)

\* The confidential fields of the record with their values changed.
Confidential(rset, rec, Change(_)) ==
  [i \in DOMAIN rec |-> IF rec[i][1] \in rec_rset_confidential(rset)
                        THEN <<rec[i][1], Change(rec[i][2])>> ELSE rec[i]]

rec_encrypt_record(rset, rec, password) ==
  Confidential(rset, rec, LAMBDA v : rec_encrypt_field(v, password))

rec_decrypt_record(rset, rec, password, after) ==
  Confidential(rset, rec, LAMBDA v : rec_decrypt_field(v, password, after))

\* Every record of the database changed by Change.
Records(db, Change(_, _)) ==
  [i \in DOMAIN db |->
     [db[i] EXCEPT !.recs = [k \in DOMAIN db[i].recs |->
                               Change(db[i], db[i].recs[k])]]]

\* Checks and writes the database: a command that finds errors writes
\* nothing, --force leaves out the check, --no-external the remote
\* descriptors.
Save(db, mode, c, given) ==
  /\ \E checked \in {IF mode = "force" THEN [ok |-> TRUE, db |-> db]
                  ELSE rec_int_check_db(db, mode = "external")} :
    /\ checked.ok
    /\ file' = Unload(checked.db)
    /\ cmd' = [n |-> cmd.n + 1, c |-> c, given |-> given]
    /\ UNCHANGED outside

\* recins: the record at place k is replaced, or one is appended (k = 0).
Recins(db, i, k, rec, auto, password, mode) ==
  LET filled == IF auto THEN rec_rset_add_auto_fields(db[i], rec) ELSE rec
      record == IF password = << >> THEN filled
                ELSE rec_encrypt_record(db[i], filled, password)
  IN /\ k = 0 => Len(db[i].recs) < MaxRecords
     /\ rec # << >>
     /\ Save([db EXCEPT ![i].recs = IF k = 0 THEN Append(@, record)
                                    ELSE [@ EXCEPT ![k] = record]],
             mode, "recins", Names(rec))

\* recset: the first field f of record k gets another value.
Recset(db, i, k, f, v, mode) ==
  /\ At(db[i].recs[k], f) # {}
  /\ Save([db EXCEPT ![i].recs[k][Min(At(db[i].recs[k], f))][2] = v],
          mode, "recset", {f})

Recdel(db, i, k, mode) ==
  Save([db EXCEPT ![i].recs = RemoveAt(@, k)], mode, "recdel", {})

\* recfix --encrypt and --decrypt write without a check.
RecfixEncrypt(db, password) ==
  Save(Records(db, LAMBDA rset, rec : rec_encrypt_record(rset, rec, password)),
       "force", "encrypt", {})

RecfixDecrypt(db, password, after) ==
  Save(Records(db, LAMBDA rset, rec :
                     rec_decrypt_record(rset, rec, password, after)),
       "force", "decrypt", {})

\* recfix --auto: a record that was completed counts for the next ones.
AutoRecord(r, k) == [r EXCEPT !.recs[k] = rec_rset_add_auto_fields(r, @)]

\* The record set after the first k records.
AutoRecords(rset) ==
  LET done[k \in 0..Len(rset.recs)] ==
        IF k = 0 THEN rset ELSE AutoRecord(done[k - 1], k)
  IN done

AutoRset(rset) == AutoRecords(rset)[Len(rset.recs)]

RecfixAuto(db, mode) ==
  Save([i \in DOMAIN db |-> AutoRset(db[i])], mode, "auto", {})

Init ==
  /\ \E s \in Starts : file = s.file /\ outside = s.outside
  /\ cmd = [n |-> 0, c |-> None, given |-> {}]

\* Each command loads the file into its database db.
Next ==
  \E db \in {Load(file)} :
    /\ cmd.n < MaxCommands
    /\ Loadable(file)
    /\ \/ \E mode \in {"force", "local", "external"}, i \in DOMAIN file :
            \/ \E k \in 0..Len(file[i].recs), rec \in NewRecords,
                  auto \in BOOLEAN, p \in Passwords \cup {<< >>} :
                 Recins(db, i, k, rec, auto, p, mode)
            \/ \E k \in DOMAIN file[i].recs, f \in Fields, v \in Values :
                 Recset(db, i, k, f, v, mode)
            \/ \E k \in DOMAIN file[i].recs : Recdel(db, i, k, mode)
       \/ \E mode \in {"local", "external"} : RecfixAuto(db, mode)
       \/ \E p \in Passwords :
            \/ RecfixEncrypt(db, p)
            \/ \E after \in {0, 1} : RecfixDecrypt(db, p, after)

Spec == Init /\ [][Next]_vars

---------------------------------------------------------------------------
(* What a descriptor means *)

\* The last definition of a type name, and the type that a chain of
\* definitions without a loop leads to.
Definitions(desc, n) ==
  {i \in DOMAIN desc : desc[i].d = "typedef" /\ desc[i].fs[1] = n
                       /\ desc[i].ok /\ desc[i].t.kind # "invalid"}
Chains(desc, n) ==
  LET names == {desc[i].fs[1] : i \in {j \in DOMAIN desc : desc[j].d = "typedef"}}
  IN {s \in SeqOf(names, Cardinality(names)) :
        /\ s # << >> /\ s[1] = n
        /\ \A j \in DOMAIN s : Definitions(desc, s[j]) # {}
        /\ \A j \in 1..(Len(s) - 1) :
             desc[Max(Definitions(desc, s[j]))].t = TypeName(s[j + 1])}
Defined(desc, n) ==
  LET ends == {desc[Max(Definitions(desc, Last(s)))].t : s \in Chains(desc, n)}
      types == {t \in ends : t.kind # "name"}
  IN IF types = {} THEN NoType ELSE CHOOSE t \in types : TRUE

DeclaredType(desc, f) ==
  LET decls == {i \in DOMAIN desc : desc[i].d = "type" /\ desc[i].ok
                                    /\ f \in Range(desc[i].fs)
                                    /\ desc[i].t.kind # "invalid"}
      t == desc[Max(decls)].t
  IN IF decls # {} THEN IF t.kind = "name" THEN Defined(desc, t.ref) ELSE t
     ELSE IF f \in NamesOf(desc, "auto") THEN Kind("int") ELSE NoType

WellFormed(desc) ==
  /\ \A i \in DOMAIN desc :
       /\ desc[i].ok
       /\ desc[i].d \in {"type", "typedef"} =>
            \/ desc[i].t.kind \notin {"name", "invalid"}
            \/ desc[i].t.kind = "name" /\ Defined(desc, desc[i].t.ref) # NoType
  /\ \A i, j \in DOMAIN desc :
       i # j => ~(desc[i].d = desc[j].d /\ desc[i].d \in {"rec", "key", "size", "sort"})
  /\ \A f \in NamesOf(desc, "auto") :
       DeclaredType(desc, f).kind \in {"int", "range", "uuid", "date"}

SizeHolds(desc, n) ==
  \A i \in DOMAIN desc : desc[i].d = "size" =>
    CASE desc[i].cond = "=" -> n = desc[i].n
      [] desc[i].cond = "<" -> n < desc[i].n
      [] desc[i].cond = "<=" -> n <= desc[i].n
      [] desc[i].cond = ">" -> n > desc[i].n
      [] desc[i].cond = ">=" -> n >= desc[i].n

\* The record sets that a value of type t refers to.
Referred(t) == {o \in DOMAIN file : file[o].desc # NoDescriptor
                                    /\ file[o].desc[1].fs[1] = t.ref}

\* A value has its declared type, or that of the key it refers to, if the
\* record set it refers to has one.
TypeHolds(i, f, v) ==
  LET t == DeclaredType(file[i].desc, f)
  IN IF t.kind # "rec" THEN rec_type_check(t, v)
     ELSE \A o \in Referred(t) : \A key \in NamesOf(file[o].desc, "key") :
            rec_type_check(DeclaredType(file[o].desc, key), v)

Sound(i) ==
  LET desc == file[i].desc
      recs == file[i].recs
      Listed(d) == NamesOf(desc, d)
  IN desc # NoDescriptor =>
     /\ WellFormed(desc)
     /\ SizeHolds(desc, Len(recs))
     /\ \A f \in Listed("key") :
          LET keys == [k \in DOMAIN recs |-> SelectSeq(recs[k], LAMBDA x : x[1] = f)]
          IN IsInjective(keys) /\ \A k \in DOMAIN recs : Len(keys[k]) = 1
     /\ \A k \in DOMAIN recs :
          /\ Listed("mandatory") \subseteq Names(recs[k])
          /\ Listed("prohibit") \cap Names(recs[k]) = {}
          /\ Listed("allowed") # {} =>
               \A f \in Names(recs[k]) :
                 \E d \in {"allowed", "mandatory", "key"} : f \in Listed(d)
          /\ \A j \in DOMAIN recs[k] :
               LET f == recs[k][j][1] IN
               /\ TypeHolds(i, f, recs[k][j][2])
               /\ f \in Listed("unique") => \A l \in DOMAIN recs[k] \ {j} :
                                              recs[k][l][1] # f
               /\ f \in Listed("confidential") => recs[k][j][2][1] \in {"enc", "fake"}
          /\ \A c \in DOMAIN desc : desc[c].d = "constraint" =>
               <<desc[c].fs[1], desc[c].v>> \in Range(recs[k])

---------------------------------------------------------------------------
(* Properties *)

\* The file is a file after every command: the invariant behind the proofs
\* of DescriptorKept, AutoFresh and EncryptReversible.
FileTyped == IsFile(file)

\* Two cases in which the check is wrong: SizeLimitsHold and
\* KeylessAccepted state each of them.
BelowZero(desc) ==
  \E n \in DOMAIN desc : desc[n].d = "size" /\ desc[n].ok
                          /\ desc[n].cond = "<" /\ desc[n].n = 0
Keyless(o) == NamesOf(file[o].desc, "key") = {}
RefersToKeyless(i) ==
  \E k \in DOMAIN file[i].recs : \E f \in Names(file[i].recs[k]) :
    LET t == DeclaredType(file[i].desc, f)
    IN t.kind = "rec" /\ \E o \in Referred(t) : Keyless(o)

\* The check of a file without external descriptors (rec_int_check_rset)
\* finds no error in a record set exactly when its records are what its
\* descriptor says: the last %type counts, type names are followed to their
\* definition, and the limits are those that are written there.  Left out
\* are a %size below zero and, in one direction, references to record sets
\* without a key: what is found to be sound is.
CheckExact ==
  Loadable(file) =>
    \A db \in {Load(file)} : \A i \in DOMAIN file :
      \A ok \in {rec_int_check_rset(db, i, FALSE).ok} :
        ~BelowZero(file[i].desc) =>
          /\ ok => Sound(i)
          /\ Sound(i) /\ ~RefersToKeyless(i) => ok

\* The manual: %size "is used to limit the number of records in a record
\* set" (rec_int_check_rset with the limits of rec_rset_update_size_constraints).
SizeLimitsHold ==
  Loadable(file) =>
    \A i \in DOMAIN file :
      rec_int_check_rset(Load(file), i, FALSE).ok
        => SizeHolds(file[i].desc, Len(file[i].recs))

\* The comment in rec_int_check_field_type: a field that refers to a record
\* set is checked "if and only if" the record set has a primary key, so that
\* every value is accepted for a reference to one without.
KeylessAccepted ==
  Loadable(file) =>
    \A i \in DOMAIN file : \A k \in DOMAIN file[i].recs :
      \A j \in DOMAIN file[i].recs[k] :
        LET x == file[i].recs[k][j]
            t == DeclaredType(file[i].desc, x[1])
        IN t.kind = "rec" /\ (\A o \in Referred(t) : Keyless(o))
           => rec_int_check_field_type(Load(file), Load(file)[i], x[1], x[2])

\* A command that uses an external descriptor (rec_int_merge_remote) writes
\* the local descriptor back, and never what it merged.
DescriptorKept ==
  [][\A i \in DOMAIN file : file'[i].desc = file[i].desc]_vars

\* After a check with external descriptors a record set has the limits, the
\* constraints, the key and the types it had before.  Names of types and
\* confidential fields of the external descriptor are not forgotten
\* (rec_rset_update_field_props).
CheckRestores ==
  LET External == UNION {Range(outside.descs[n]) : n \in DOMAIN outside.descs}
      named == UNION {Range(x.fs) : x \in
                        {y \in External : y.d = "type" /\ y.t.kind = "name"}}
      same(rset, old) ==
        /\ rset.limits = old.limits
        /\ rset.cons = old.cons
        /\ rset.recs = old.recs
        /\ rec_rset_key(rset) = rec_rset_key(old)
        /\ \A f \in Fields \ named :
             /\ rec_rset_get_field_type(rset, f) = rec_rset_get_field_type(old, f)
             /\ f \in rec_rset_auto(rset) <=> f \in rec_rset_auto(old)
  IN \A db \in {Load(file)} : \A i \in DOMAIN db :
       \A check \in {rec_int_check_rset(db, i, TRUE)} :
         check.ok => same(check.db[i], db[i])

Numbered(i, f) == {k \in DOMAIN file[i].recs : At(file[i].recs[k], f) # {}}
NumbersDiffer(i, f) ==
  IsInjective([k \in Numbered(i, f) |-> First(file[i].recs[k], f)])
NumbersFit(i, f) ==
  \A k \in DOMAIN file[i].recs : \A j \in At(file[i].recs[k], f) :
    LET v == file[i].recs[k][j][2]
    IN v[1] = "int" => v[2] \in (-IntMax - 1)..(IntMax - 1)
Counters(i) ==
  LET rset == Load(file)[i]
  IN {f \in rec_rset_auto(rset) \ rec_rset_confidential(rset) :
        rec_rset_get_field_type(rset, f).kind \in {"int", "range"}}

\* The number that recins and recfix --auto give to a field
\* (rec_rset_add_auto_field_int) is one that no other record has, while all
\* numbers are below the largest int, those that recfix gives on its way
\* included, and none is encrypted.
AutoFresh ==
  [][\A i \in DOMAIN file : \A f \in Counters(i) :
       /\ cmd'.c \in {"recins", "auto"}
       /\ f \notin cmd'.given
       /\ NumbersDiffer(i, f)
       /\ NumbersFit(i, f)
       /\ cmd'.c = "auto" => NumbersFit(i, f)'
       => NumbersDiffer(i, f)']_vars

\* The values of the confidential fields of a record set.
Secrets(rset) ==
  UNION {{rec[j][2] : j \in {i \in DOMAIN rec : rec[i][1] \in rec_rset_confidential(rset)}} :
           rec \in Range(rset.recs)}

\* Whoever encrypts the file and decrypts it with the same password
\* (rec_encrypt_record, rec_decrypt_record) gets back what there was if and
\* only if the confidential values that this has encrypted are recoverable:
\* what looks encrypted already stays, whichever key it has been encrypted
\* with.  Fields encrypted with this password before are left out, since the
\* decryption undoes that as well.
EncryptReversible ==
  LET db == Load(file)
      encrypted(p) == Records(db, LAMBDA rset, rec : rec_encrypt_record(rset, rec, p))
      decrypted(p, after) ==
        Records(encrypted(p), LAMBDA rset, rec : rec_decrypt_record(rset, rec, p, after))
  IN \A p \in Passwords, after \in {0, 1} :
       (\A i \in DOMAIN db : \A v \in Secrets(db[i]) : Encrypted(v) => v[2].key # Key(p))
       => (Unload(decrypted(p, after)) = file
           <=> \A i \in DOMAIN db : \A v \in Secrets(db[i]) :
                 rec_field_encrypted_p(v) \/ Recoverable(v, after))

\* The manual: "confidential fields are unencrypted if the correct password is
\* provided", and the comment in rec_encrypt says of the checksum that it is
\* "a control token to determine whether the correct key is used": with the
\* correct key rec_decrypt decrypts every value.
RightKeyDecrypts ==
  \A i \in DOMAIN file : \A k \in DOMAIN file[i].recs :
    \A j \in DOMAIN file[i].recs[k] :
      LET v == file[i].recs[k][j][2]
      IN v[1] = "enc" => \A p \in Passwords : Key(p) = v[2].key
                                              => rec_decrypt(v, p, 0)
=============================================================================
