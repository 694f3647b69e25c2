------------------------------ MODULE RecQuery ------------------------------
(***************************************************************************)
(* Queries: rec_db_query (src/src/rec-db.c) with its joins, grouping,      *)
(* sorting, selection, field expressions and aggregates, as recsel and the *)
(* users of the library call it.  A query works on the record sets of the  *)
(* database themselves: it leaves them sorted and grouped.                 *)
(*                                                                         *)
(* A name is a sequence of strings, the parts that underscores join.  A    *)
(* record is a sequence of fields; comments are left out.  A record set    *)
(* has a type, its records, the number of records that it believes to have,*)
(* the fields of %sort, the order of its last sort, the fields declared to *)
(* be integers, its key and its foreign keys.                              *)
(***************************************************************************)
EXTENDS Integers, Sequences, FiniteSets, SequencesExt

CONSTANTS Databases,   \* the databases a process may have read
          Queries,     \* the queries it may make
          MaxQueries   \* how many of them

ASSUME QueryBound == MaxQueries \in Nat

\* What the records of a database are made of: names of at least one part,
\* texts, and records with at least one field (rec_parse_record).
Fields == [n : Seq(STRING) \ {<< >>}, v : {"text"} \X STRING]
Records == Seq(Fields) \ {<< >>}

IsRset(r) ==
  r \in [type : Seq(STRING), recs : Seq(Records), count : Int, sort : {r.sort},
         order : {r.order}, ints : {r.ints}, key : Seq(STRING), refs : {r.refs}]

IsDb(d) == d \in Seq(Range(d)) /\ \A i \in DOMAIN d : IsRset(d[i])

ASSUME DatabasesAssumption == \A d \in Databases : IsDb(d)
\* A query: names are sequences of parts, and so is what it asks for.
IsQuery(q) ==
  /\ q \in [type : Seq(STRING), join : Seq(STRING), sel : {q.sel}, fex : Seq(Range(q.fex)),
            group : Seq(Seq(STRING)), sort : Seq(Seq(STRING)),
            uniq : BOOLEAN, descriptor : BOOLEAN]
  /\ q.sel.how = "random" => q.sel.num \in Nat

ASSUME QueriesAssumption == \A q \in Queries : IsQuery(q)

VARIABLES db,      \* the sequence of record sets
          before,  \* what it was before the last query
          query,   \* the last query
          result,  \* its result: a status, a type and records
          made     \* how many queries have been made

vars == <<db, before, query, result, made>>

None == << >>
NOINDEX == -1

---------------------------------------------------------------------------
(* Values *)

\* A text, or a number as a fraction.
Text(s) == <<"text", s>>
Num(n) == <<"number", n, 1>>

\* The texts in use that are numbers, and the order strcmp gives to them.
NumberOf ==
  [s \in {"-1", "1", "2", "10"} |->
     CASE s = "-1" -> -1 [] s = "1" -> 1 [] s = "2" -> 2 [] s = "10" -> 10]
LexOrder == <<"-1", "1", "10", "2", "x">>

IsNumber(v) == v[2] \in DOMAIN NumberOf
LexRank(v) == CHOOSE i \in DOMAIN LexOrder : LexOrder[i] = v[2]
Sign(n) == IF n < 0 THEN -1 ELSE IF n > 0 THEN 1 ELSE 0

\* rec_type_values_cmp for a field that is, or is not, an integer.
rec_type_values_cmp(int, v1, v2) ==
  IF int /\ IsNumber(v1) /\ IsNumber(v2)
  THEN Sign(NumberOf[v1[2]] - NumberOf[v2[2]])
  ELSE Sign(LexRank(v1) - LexRank(v2))

Plus(a, b) == <<"number", a[2] * b[3] + b[2] * a[3], a[3] * b[3]>>
Over(a, n) == <<"number", a[2], a[3] * n>>
Less(a, b) == a[2] * b[3] < b[2] * a[3]

---------------------------------------------------------------------------
(* Records *)

\* Op of the elements, the elements that pass a test, and Op over all of them.
Each(Op(_), seq) == [i \in DOMAIN seq |-> Op(seq[i])]
Where(seq, Test(_)) ==
  FlattenSeq([i \in DOMAIN seq |-> IF Test(seq[i]) THEN <<seq[i]>> ELSE << >>])
Folded(Op(_, _), base, seq) ==
  LET val[i \in 0..Len(seq)] == IF i = 0 THEN base ELSE Op(val[i - 1], seq[i])
  IN val[Len(seq)]

Named(r, name) == Where(r, LAMBDA f : f.n = name)
rec_record_get_num_fields_by_name(r, name) == Len(Named(r, name))
rec_record_get_field_by_name(r, name, i) == Named(r, name)[i + 1]
ValuesOf(r, name) == {r[i].v : i \in {j \in DOMAIN r : r[j].n = name}}

\* strstr on the texts in use.
Within(a, b) == a = b \/ (a = "1" /\ b \in {"10", "-1"})
rec_record_contains_value(r, v) == \E i \in DOMAIN r : Within(v[2], r[i].v[2])

\* The first of the fields with a name and a value is kept.
rec_record_uniq(r) ==
  LET kept(i) == \A j \in 1..(i - 1) : r[j].n # r[i].n \/ r[j].v # r[i].v
  IN Each(LAMBDA i : r[i], Where([i \in DOMAIN r |-> i], kept))

---------------------------------------------------------------------------
(* Aggregates *)

Numbers(r, name) ==
  Each(LAMBDA f : Num(NumberOf[f.v[2]]),
       Where(r, LAMBDA f : f.n = name /\ f.v[1] = "text" /\ IsNumber(f.v)))

\* DBL_MAX, and DBL_MIN, which is the smallest positive number.
DBL_MAX == Num(1000)
DBL_MIN == <<"number", 1, 10000000>>

rec_aggregate_std_avg_record(r, name) ==
  LET ns == Numbers(r, name)
      sum == Folded(Plus, Num(0), ns)
  IN IF ns = << >> THEN sum ELSE Over(sum, Len(ns))

\* recs is one record, or all records of the record set
rec_aggregate_std_avg(recs, name) ==
  LET sum == Folded(LAMBDA a, r : Plus(a, rec_aggregate_std_avg_record(r, name)),
                      Num(0), recs)
  IN IF recs = << >> THEN sum ELSE Over(sum, Len(recs))

rec_aggregate_std_count(recs, name) ==
  Num(Folded(LAMBDA n, r : n + rec_record_get_num_fields_by_name(r, name), 0, recs))

\* A number is printed with six decimals, or as a whole one.
Printed(a) ==
  IF a[2] % a[3] = 0 THEN Num(a[2] \div a[3])
  ELSE <<"number", (a[2] * 2000000 + a[3]) \div (2 * a[3]), 1000000>>

\* The average, when it is whole, is printed as a size_t.
PrintedUnsigned(a) ==
  IF a[2] % a[3] = 0 /\ a[2] < 0 THEN <<"wrapped", a[2] \div a[3], 1>> ELSE Printed(a)

Lesser(a, b) == IF Less(b, a) THEN b ELSE a
Greater(a, b) == IF Less(a, b) THEN b ELSE a

\* What REC_AGGREGATE_ACCUM_FUNC is given for a function, and what it makes of
\* a record and of a record set.
OP(function, a, b) ==
  CASE function = "sum" -> Plus(a, b)
    [] function = "min" -> Lesser(a, b)
    [] function = "max" -> Greater(a, b)
INIT_VAL(function) ==
  CASE function = "sum" -> Num(0)
    [] function = "min" -> DBL_MAX
    [] function = "max" -> DBL_MIN
AccumulatedRecord(function, r, name) ==
  Folded(LAMBDA a, b : OP(function, a, b), INIT_VAL(function), Numbers(r, name))
Accumulated(function, recs, name) ==
  Folded(LAMBDA val, r : OP(function, val, AccumulatedRecord(function, r, name)),
         INIT_VAL(function), recs)

\* Slip: the sum of a record set is the one of its last record.
rec_aggregate_sum_last(recs, name) ==
  IF recs = << >> THEN Num(0) ELSE Accumulated("sum", <<Last(recs)>>, name)

rec_aggregate_std_sum(recs, name) == Accumulated("sum", recs, name)

Standard == {"count", "avg", "sum", "min", "max"}

\* rec_aggregate_reg_get and the call; the case of the name does not matter.
Aggregate(function, recs, name) ==
  CASE function = "count" -> rec_aggregate_std_count(recs, name)
    [] function = "avg" -> PrintedUnsigned(rec_aggregate_std_avg(recs, name))
    [] function = "sum" -> Printed(rec_aggregate_std_sum(recs, name))
    [] function = "min" -> Printed(Accumulated("min", recs, name))
    [] function = "max" -> Printed(Accumulated("max", recs, name))

---------------------------------------------------------------------------
(* Sorting and grouping *)

\* The comparison of the first field of each name in which they differ.
rec_rset_compare_typed_records(rset, r1, r2, fields) ==
  LET cmp(name) ==
        CASE Named(r1, name) = << >> -> -1
          [] Named(r2, name) = << >> -> 1
          [] OTHER -> rec_type_values_cmp(name \in rset.ints,
                                          rec_record_get_field_by_name(r1, name, 0).v,
                                          rec_record_get_field_by_name(r2, name, 0).v)
      differ == Where(fields, LAMBDA name : cmp(name) # 0)
  IN IF differ = << >> THEN 0 ELSE cmp(differ[1])

\* Slip: a record that compares equal to one in the list replaces it.
SortedRecordsUnique(rset, fields) ==
  LET add(l, r) ==
        LET cmp(x) == rec_rset_compare_typed_records(rset, x, r, fields)
        IN Where(l, LAMBDA x : cmp(x) < 0) \o <<r>> \o Where(l, LAMBDA x : cmp(x) > 0)
  IN Folded(add, << >>, rset.recs)

\* A record is put after the ones that are not greater.
SortedRecords(rset, fields) ==
  LET add(l, r) ==
        LET smaller == {i \in DOMAIN l :
                          rec_rset_compare_typed_records(rset, l[i], r, fields) <= 0}
        IN InsertAt(l, Cardinality(smaller) + 1, r)
  IN Folded(add, << >>, rset.recs)

\* Sorting counts the records once more (rec_mset_sort); %sort prevails
\* over the order that was asked for afterwards.
rec_rset_sort(rset, by) ==
  LET order == IF by = None THEN rset.order ELSE by
  IN IF order = None THEN rset
     ELSE [rset EXCEPT !.recs = SortedRecords(rset, order),
                       !.count = @ + Len(rset.recs),
                       !.order = IF rset.sort = None THEN order ELSE rset.sort]

\* Slip: fields that the record already has are not added.
rec_rset_merge_records_new(to, from, by) ==
  to \o Where(from, LAMBDA f : f \notin Range(to) /\ f.n \notin Range(by))

\* The fields of the group stay those of the first record.
rec_rset_merge_records(to, from, by) ==
  to \o Where(from, LAMBDA f : f.n \notin Range(by))

\* Neighbours that compare equal become one record.
rec_rset_group(rset, by) ==
  LET add(groups, r) ==
        IF groups # << >> /\ rec_rset_compare_typed_records(rset, Last(groups), r, by) = 0
        THEN Append(Front(groups), rec_rset_merge_records(Last(groups), r, by))
        ELSE Append(groups, r)
      recs == Folded(add, << >>, rset.recs)
  IN [rset EXCEPT !.recs = recs, !.count = @ - (Len(rset.recs) - Len(recs))]

---------------------------------------------------------------------------
(* Joins *)

rec_db_merge_records(r1, r2, prefix) ==
  r1 \o Each(LAMBDA f : [n |-> prefix \o f.n, v |-> f.v], r2)

\* Slip: the joined record keeps the fields that were joined.
JoinedKeeping(r1, r2, field) == rec_db_merge_records(r1, r2, field)

Joined(r1, r2, field) ==
  Where(rec_db_merge_records(r1, r2, field), LAMBDA f : f.n # field)

\* The records that the k-th foreign key of r1 brings: the scan of the
\* second record set ends at the first record without a k-th key.
JoinScan(r1, field, rset2, k) ==
  LET without == Where([i \in DOMAIN rset2.recs |-> i],
                           LAMBDA i : rec_record_get_num_fields_by_name(rset2.recs[i],
                                                                        rset2.key) <= k)
      scanned == IF without = << >> THEN rset2.recs
                 ELSE SubSeq(rset2.recs, 1, without[1] - 1)
  IN Where(scanned, LAMBDA r2 :
       rec_record_get_field_by_name(r2, rset2.key, k).v \in ValuesOf(r1, field))

\* The record set of the join has no types and no order.
rec_db_join(rset1, rset2, field) ==
  LET ofKey(r1, k) == Each(LAMBDA r2 : Joined(r1, r2, field),
                           JoinScan(r1, field, rset2, k - 1))
      ofRecord(r1) ==
        FlattenSeq([k \in 1..rec_record_get_num_fields_by_name(r1, field) |-> ofKey(r1, k)])
      recs == FlattenSeq(Each(ofRecord, rset1.recs))
  IN [rset1 EXCEPT !.type = rset1.type \o field, !.recs = recs, !.count = Len(recs),
                   !.sort = None, !.order = None, !.ints = {}, !.key = None,
                   !.refs = << >>]

---------------------------------------------------------------------------
(* Selection and field expressions *)

rec_db_index_p(index, num) ==
  \E i \in DOMAIN index :
    IF index[i][2] = NOINDEX THEN num = index[i][1]
    ELSE index[i][1] <= num /\ num <= index[i][2]

\* Slip: a number that has been drawn before is drawn again.
rec_db_add_random_indexes_again(draws, limit) ==
  Folded(LAMBDA index, d : Append(index, <<d, NOINDEX>>), << >>, draws)

\* For a number drawn before the first free one is taken.
rec_db_add_random_indexes(draws, limit) ==
  LET free(index) == {i \in 0..(limit - 1) : ~rec_db_index_p(index, i)}
      pick(index, d) == IF rec_db_index_p(index, d) /\ free(index) # {}
                        THEN CHOOSE i \in free(index) : \A j \in free(index) : i <= j
                        ELSE d
  IN Folded(LAMBDA index, d : Append(index, <<pick(index, d), NOINDEX>>), << >>, draws)

\* A selection expression is a name and a value: one of the fields has it.
rec_db_record_selected_p(sel, index, num, r) ==
  CASE sel.how = "quick" -> rec_record_contains_value(r, sel.v)
    [] sel.how = "sex" -> sel.v \in ValuesOf(r, sel.n)
    [] sel.how \in {"index", "random"} -> rec_db_index_p(index, num)
    [] sel.how = "all" -> TRUE

\* The fields that one element of the field expression gives; recs is the
\* record, or all of them if the expression has nothing but calls.
FexFields(e, recs) ==
  LET fields == Named(recs[1], e.n)
      last == IF e.max = NOINDEX THEN e.min ELSE e.max
      chosen == IF e.min = NOINDEX THEN fields
                ELSE SubSeq(fields, e.min + 1,
                            IF last + 1 > Len(fields) THEN Len(fields) ELSE last + 1)
  IN IF e.function # ""
     THEN IF e.function \notin Standard THEN << >>
          ELSE <<[n |-> IF e.alias # None THEN e.alias ELSE <<e.function>> \o e.n,
                  v |-> Aggregate(e.function, recs, e.n)]>>
     ELSE Each(LAMBDA f : IF e.alias # None THEN [f EXCEPT !.n = e.alias] ELSE f, chosen)

rec_db_process_fex(fex, recs) ==
  IF fex = None THEN recs[1] ELSE FlattenSeq(Each(LAMBDA e : FexFields(e, recs), fex))

rec_fex_all_calls_p(fex) == \A i \in DOMAIN fex : fex[i].function # ""

\* What becomes of a selected record.
Shown(q, r) ==
  LET fields == rec_db_process_fex(q.fex, <<r>>)
  IN IF q.uniq THEN rec_record_uniq(fields) ELSE fields

---------------------------------------------------------------------------
(* rec_db_query *)

rec_db_get_rset_by_type(d, type) ==
  LET at == {i \in DOMAIN d : d[i].type = type}
  IN IF at = {} THEN 0 ELSE CHOOSE i \in at : TRUE

\* The record set in the database, 0 if there is none.
Target(d, q) ==
  LET i == rec_db_get_rset_by_type(d, q.type)
  IN IF i = 0 /\ q.type = None /\ Len(d) = 1 THEN 1 ELSE i

Referred(d, q) ==
  LET rset == d[Target(d, q)]
  IN IF q.join \in DOMAIN rset.refs THEN rec_db_get_rset_by_type(d, rset.refs[q.join]) ELSE 0

JoinP(d, q) == q.join # None /\ d[Target(d, q)].type = q.type /\ Referred(d, q) # 0

\* The record set that is queried.
Source(d, q) ==
  IF JoinP(d, q) THEN rec_db_join(d[Target(d, q)], d[Referred(d, q)], q.join)
  ELSE d[Target(d, q)]

AggregatesOnly(q) == q.fex # None /\ q.group = None /\ rec_fex_all_calls_p(q.fex)

\* The source as the query leaves it.
Arranged(rset, q) ==
  LET grouped == IF q.group = None THEN rset
                 ELSE rec_rset_group(rec_rset_sort(rset, q.group), q.group)
  IN IF AggregatesOnly(q) THEN rset ELSE rec_rset_sort(grouped, q.sort)

Answer(status, type, recs) == [status |-> status, type |-> type, recs |-> recs]

\* The records of the result; index holds the positions that are asked for.
Selected(rset, q, index) ==
  LET at == Where([i \in DOMAIN rset.recs |-> i],
                      LAMBDA i : rec_db_record_selected_p(q.sel, index, i - 1, rset.recs[i]))
  IN IF AggregatesOnly(q) THEN <<rec_db_process_fex(q.fex, rset.recs)>>
     ELSE Where(Each(LAMBDA i : Shown(q, rset.recs[i]), at), LAMBDA r : r # << >>)

\* The numbers that random_r may give; none are drawn below 1.
Draws(q, rset) == [1..(IF q.sel.how = "random" THEN q.sel.num ELSE 0) -> 0..(rset.count - 1)]

rec_db_query(q) ==
  IF Target(db, q) = 0
  THEN result' = Answer("ok", None, << >>) /\ db' = db
  ELSE IF JoinP(db, q) /\ db[Referred(db, q)].key = None
  THEN result' = Answer("out of memory", None, << >>) /\ db' = db
  ELSE LET rset == Source(db, q)
       IN IF q.sel.how = "random" /\ q.sel.num > 0 /\ rset.count = 0
          THEN result' = Answer("division by zero", None, << >>) /\ db' = db
          ELSE \E draws \in Draws(q, rset) : \E arranged \in {Arranged(rset, q)} :
                 LET index == IF q.sel.how = "random"
                              THEN rec_db_add_random_indexes(draws, rset.count)
                              ELSE q.sel.index
                     sel == IF q.sel.how = "random" /\ q.sel.num = 0
                            THEN [q EXCEPT !.sel.how = "all"] ELSE q
                 IN /\ result' = Answer("ok", IF q.descriptor THEN arranged.type ELSE None,
                                        Selected(arranged, sel, index))
                    /\ db' = IF JoinP(db, q) THEN db
                             ELSE [db EXCEPT ![Target(db, q)] = arranged]

---------------------------------------------------------------------------
(* The processes that make queries *)

NoQuery == [type |-> None, join |-> None, sel |-> [how |-> "all"],
            fex |-> None, group |-> None, sort |-> None, uniq |-> FALSE,
            descriptor |-> FALSE]

Init ==
  /\ db \in Databases /\ before = db
  /\ query = NoQuery /\ result = Answer("none", None, << >>) /\ made = 0

\* A program that uses the library.
Query(q) ==
  /\ made < MaxQueries
  /\ rec_db_query(q)
  /\ before' = db /\ query' = q /\ made' = made + 1

\* recsel_process_data: one query per process, for one type of records.
Recsel(q) ==
  /\ made = 0
  /\ IF q.type = None /\ Len(db) > 1
     THEN result' = Answer("fatal", None, << >>) /\ db' = db
     ELSE rec_db_query(q)
  /\ before' = db /\ query' = q /\ made' = MaxQueries

Next == \E q \in Queries : Query(q) \/ Recsel(q)

Spec == Init /\ [][Next]_vars

---------------------------------------------------------------------------
(* Properties *)

Answered == made > 0 /\ result.status = "ok" /\ Target(before, query) # 0

\* How often a field stands in the records.
Times(recs, f) ==
  Cardinality({i \in DOMAIN FlattenSeq(recs) : FlattenSeq(recs)[i] = f})
FieldsIn(recs) == UNION {Range(recs[i]) : i \in DOMAIN recs}

\* The query asks for nothing but a join, or a grouping, or neither.
Whole(q) == q.sel.how = "all" /\ q.fex = None /\ ~q.uniq /\ q.sort = None

\* A join is the relational one: a record for every pair of records such
\* that the key of the second is one of the foreign keys of the first, once,
\* with the fields of both but the foreign keys, provided that every record
\* of the second set has the one key that the integrity check demands.
InnerJoin(q, d) ==
  LET rset1 == d[Target(d, q)]
      rset2 == d[Referred(d, q)]
      pairs == {p \in (DOMAIN rset1.recs) \X (DOMAIN rset2.recs) :
                  ValuesOf(rset2.recs[p[2]], rset2.key)
                    \cap ValuesOf(rset1.recs[p[1]], q.join) # {}}
      made1(p) == Where(rset1.recs[p[1]], LAMBDA f : f.n # q.join)
                  \o [i \in DOMAIN rset2.recs[p[2]] |->
                        [n |-> q.join \o rset2.recs[p[2]][i].n, v |-> rset2.recs[p[2]][i].v]]
  IN /\ Len(result.recs) = Cardinality(pairs)
     /\ \A p \in pairs :
          Cardinality({i \in DOMAIN result.recs : result.recs[i] = made1(p)})
            = Cardinality({o \in pairs : made1(o) = made1(p)})

KeysComplete(q, d) ==
  LET rset2 == d[Referred(d, q)]
  IN \A i \in DOMAIN rset2.recs :
       rec_record_get_num_fields_by_name(rset2.recs[i], rset2.key) = 1

JoinExact ==
  Answered /\ Whole(query) /\ query.group = None /\ JoinP(before, query)
    /\ KeysComplete(query, before)
  => InnerJoin(query, before)

\* rec-db.c says of a record without a key that it is "none of our business,
\* so just skip it": the records after it are joined.
JoinSkipsKeyless ==
  Answered /\ Whole(query) /\ query.group = None /\ JoinP(before, query)
    /\ (\A i \in DOMAIN before[Referred(before, query)].recs :
          rec_record_get_num_fields_by_name(before[Referred(before, query)].recs[i],
                                            before[Referred(before, query)].key) <= 1)
  => InnerJoin(query, before)

\* A grouping leaves one record for each key (a record without a complete
\* key stays alone), and every other field of the record set is in the record
\* of its key, as often as it was in the records of the key.
GroupExact ==
  Answered /\ Whole(query) /\ query.group # None /\ ~JoinP(before, query) =>
    LET recs == before[Target(before, query)].recs
        keyed(r) == \A i \in DOMAIN query.group : Named(r, query.group[i]) # << >>
        key(r) == [i \in DOMAIN query.group |->
                     rec_record_get_field_by_name(r, query.group[i], 0).v]
        keys == {key(r) : r \in {r \in Range(recs) : keyed(r)}}
        with(rs, k) == Where(rs, LAMBDA r : keyed(r) /\ key(r) = k)
        alone(rs) == Where(rs, LAMBDA r : ~keyed(r))
    IN /\ Len(result.recs) = Cardinality(keys) + Len(alone(recs))
       /\ \A k \in keys :
            /\ Len(with(result.recs, k)) = 1
            /\ \A f \in FieldsIn(recs) :
                 f.n \notin Range(query.group) =>
                   Times(with(result.recs, k), f) = Times(with(recs, k), f)
       /\ \A r \in Range(alone(recs)) : Times(<<alone(result.recs)>>, r) = Times(<<alone(recs)>>, r)

\* A random selection gives as many different records as were asked for, or
\* all of them, as long as the record set knows how many records it has.
RandomExact ==
  Answered /\ query.sel.how = "random" /\ query.fex = None /\ query.group = None
    /\ query.sel.num > 0 /\ ~query.uniq /\ ~JoinP(before, query) =>
    LET rset == before[Target(before, query)]
    IN rset.count = Len(rset.recs) =>
         /\ Len(result.recs) = IF query.sel.num < Len(rset.recs) THEN query.sel.num
                               ELSE Len(rset.recs)
         /\ \A r \in Range(result.recs) :
              Times(<<result.recs>>, r) <= Times(<<rset.recs>>, r)

\* The manual: a field expression with nothing but aggregates is applied "to
\* the single record that would result from concatenating all the records".
\* A function that is not known gives no field.
OfConcatenation(functions) ==
  Answered /\ AggregatesOnly(query) =>
    LET one == <<FlattenSeq(Source(before, query).recs)>>
        at(i) == Cardinality({j \in 1..i : query.fex[j].function \in Standard})
    IN \A i \in DOMAIN query.fex :
         query.fex[i].function \in functions =>
           result.recs[1][at(i)].v = Aggregate(query.fex[i].function, one, query.fex[i].n)

AggregateConcat == OfConcatenation(Standard \ {"avg"})
AvgConcat == OfConcatenation({"avg"})

\* A query rearranges the record sets of the database and may repeat a
\* grouping, but it loses no record without grouping, and no field but those
\* it groups by with it.
QueryKeepsFields ==
  [][\A i \in DOMAIN db :
       /\ query'.group = None => Len(db'[i].recs) = Len(db[i].recs)
       /\ \A f \in FieldsIn(db[i].recs) \cup FieldsIn(db'[i].recs) :
            f.n \notin Range(query'.group) => Times(db'[i].recs, f) = Times(db[i].recs, f)]_vars

=============================================================================
