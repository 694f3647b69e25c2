------------------------------- MODULE RecSex -------------------------------
(***************************************************************************)
(* Selection expressions: src/src/rec-sex.c over the trees of              *)
(* src/src/rec-sex-ast.c.  A compiled expression is kept by a query and    *)
(* evaluated on one record after the other (rec_sex_eval, or               *)
(* rec_sex_eval_str for the templates of recfmt).  When a record has       *)
(* several fields of a name the evaluation is repeated with each of them;  *)
(* a name with a subscript keeps the value of its first evaluation, which  *)
(* the node stores.                                                        *)
(*                                                                         *)
(* A field name is the sequence of its parts: A_B is <<"A", "B">>, which   *)
(* the node A.B also denotes.  A variable that the code reads before       *)
(* setting it has the value junk.                                          *)
(***************************************************************************)
EXTENDS RecRegex

CONSTANTS
  Cases,  \* the expressions that are compiled, with or without regard to
          \* case, and the records each is evaluated on, in sequence
  Junk    \* the values of an uninitialised integer

VARIABLES
  expr, icase,  \* the expression as parsed, and case_insensitive
  recs, k,      \* the records, and the number of the current one
  pc,
  ast,          \* the tree of the expression, with the values it has fixed
  marks,        \* the marked fields of the record
  i, j,         \* the field the loop is at, and the occurrence tried
  status,       \* the status of the last evaluation
  out           \* the results, one for each record

vars == <<expr, icase, recs, k, pc, ast, marks, i, j, status, out>>

---------------------------------------------------------------------------
(* Trees *)

\* rec_sex_ast_node_new, and the links to its children.
NodeOf(op, kids) ==
  [op |-> op, kids |-> kids, val |-> 0, name |-> << >>, sub |-> << >>,
   index |-> -1, fixed |-> FALSE, fixed_val |-> << >>]

\* rec_sex_ast_node_set_int, _real, _str and _name, and _set_index
IntNode(n) == [NodeOf("int", << >>) EXCEPT !.val = n]
RealNode(q) == [NodeOf("real", << >>) EXCEPT !.val = q]
StrNode(s) == [NodeOf("str", << >>) EXCEPT !.val = s]
NameNode(n, sub, idx) ==
  [NodeOf("name", << >>) EXCEPT !.name = n, !.sub = sub, !.index = idx]

RECURSIVE Unfix(_), NameP(_, _, _), HashNameP(_, _), Compiles(_)

\* rec_sex_ast_node_unfix
Unfix(node) ==
  [node EXCEPT !.fixed = FALSE, !.kids = Each(Unfix, @)]

\* rec_sex_ast_name_p: a node NAME[I] with I < idx, or without subscript.
NameP(node, n, idx) ==
  \/ /\ node.op = "name" /\ node.name = n
     /\ (node.index = -1 \/ node.index < idx)
  \/ \E c \in DOMAIN node.kids : NameP(node.kids[c], n, idx)

\* rec_sex_ast_hash_name_p: a counter of the fields of the name.
HashNameP(node, n) ==
  \/ node.op = "sha" /\ node.kids[1].op = "name" /\ node.kids[1].name = n
  \/ \E c \in DOMAIN node.kids : HashNameP(node.kids[c], n)

\* rec_sex_parser_run: the grammar does not take an integer for a match.
Compiles(node) ==
  /\ node.op = "mat" => \A c \in DOMAIN node.kids : node.kids[c].op # "int"
  /\ \A c \in DOMAIN node.kids : Compiles(node.kids[c])

---------------------------------------------------------------------------
(* Values *)

Int_(n) == [t |-> "int", v |-> n]
Real_(q) == [t |-> "real", v |-> q]
Str_(s) == [t |-> "str", v |-> s]
Bool_(b) == Good(Int_(IF b THEN 1 ELSE 0))

\* ATOI_VAL: a real leaves the destination as it is.
ToInt(val, junk) ==
  CASE val.t = "int" -> Good(val.v)
    [] val.t = "real" -> Good(junk)
    [] val.t = "str" -> IF val.v = << >> THEN Good(0) ELSE rec_atoi(val.v)

\* ATOD_VAL
ToReal(val) ==
  CASE val.t = "real" -> Good(val.v)
    [] val.t = "int" -> Good(<<val.v, 1>>)
    [] val.t = "str" -> IF val.v = << >> THEN Good(<<0, 1>>)
                        ELSE rec_atod(val.v)

\* parse_datetime (external), for "@" and a number of seconds.
parse_datetime(s) ==
  LET time(q) == [sec |-> q[1] \div q[2],
                  nsec |-> (q[1] % q[2]) * (1000000000 \div q[2])]
      of(r) == IF r.ok THEN Good(time(r.v)) ELSE Bad
  IN IF s = << >> \/ s[1] # "@" THEN Bad ELSE of(rec_atod(Tail(s)))

\* ATOTS_VAL: only strings have a time.
ToTime(val) == IF val.t = "str" THEN parse_datetime(val.v) ELSE Bad

IsInt(val) == val.t = "int" \/ (val.t = "str" /\ rec_atoi(val.v).ok)
IsReal(val) ==
  \/ val.t = "real"
  \/ val.t = "str" /\ rec_atod(val.v).ok /\ ~rec_atoi(val.v).ok

\* Slip: the type of the second operand decides.
RealPSecond(v1, v2) == IsReal(v2)

\* rec_sex_op_real_p
RealP(v1, v2) ==
  IF IsReal(v1) THEN v2.t # "str" \/ rec_atod(v2.v).ok
  ELSE IF IsInt(v1) THEN IsReal(v2)
  ELSE TRUE

---------------------------------------------------------------------------
(* The operators *)

\* Division of C, towards zero.
Quot(a, b) ==
  LET q == Abs(a) \div Abs(b) IN IF (a < 0) = (b < 0) THEN q ELSE -q

\* Of a sum, the sign is in the numerator; a division by zero leaves 0 there
\* and one of 0, 1 and -1 above it.
Ratio(n, d) ==
  IF d > 0 THEN <<n, d>> ELSE IF d < 0 THEN <<-n, -d>>
  ELSE <<IF n > 0 THEN 1 ELSE IF n < 0 THEN -1 ELSE 0, 0>>

RealLess(a, b) == a[1] * b[2] < b[1] * a[2]
RealEqual(a, b) ==
  IF 0 \in {a[2], b[2]} THEN a = b /\ a # <<0, 0>>
  ELSE a[1] * b[2] = b[1] * a[2]

\* What is computed from two converted operands.
Both(a, b, Op(_, _)) == IF a.ok /\ b.ok THEN Op(a.v, b.v) ELSE Bad

\* Both operands as reals, or both as integers: OnReals or OnInts of them.
Numeric(v1, v2, junk, OnReals(_, _), OnInts(_, _)) ==
  IF RealP(v1, v2) THEN Both(ToReal(v1), ToReal(v2), OnReals)
  ELSE Both(ToInt(v1, junk), ToInt(v2, junk), OnInts)

\* REC_SEX_OP_ADD, _SUB and _MUL: the difference of two reals is computed
\* from integers that were never set.
Arith(op, v1, v2, junk) ==
  Numeric(v1, v2, junk,
    LAMBDA a, b : Good(Real_(
      CASE op = "add" -> Ratio(a[1] * b[2] + b[1] * a[2], a[2] * b[2])
        [] op = "sub" -> <<junk, 1>>
        [] op = "mul" -> Ratio(a[1] * b[1], a[2] * b[2]))),
    LAMBDA a, b : Good(Int_(
      CASE op = "add" -> a + b [] op = "sub" -> a - b [] op = "mul" -> a * b)))

\* REC_SEX_OP_DIV
Division(v1, v2, junk) ==
  Numeric(v1, v2, junk,
    LAMBDA a, b : Good(Real_(Ratio(a[1] * b[2], a[2] * b[1]))),
    LAMBDA a, b : IF b = 0 THEN Bad ELSE Good(Int_(Quot(a, b))))

\* REC_SEX_OP_MOD
Modulus(v1, v2, junk) ==
  Both(ToInt(v1, junk), ToInt(v2, junk),
       LAMBDA a, b : IF b = 0 THEN Bad ELSE Good(Int_(a - b * Quot(a, b))))

\* Letters of both cases are one to strcasecmp.
Fold(s, ci) ==
  [n \in DOMAIN s |->
     IF ci /\ s[n] \in DOMAIN LowerCase THEN LowerCase[s[n]] ELSE s[n]]

BothStr(v1, v2) == v1.t = "str" /\ v2.t = "str"

\* REC_SEX_OP_EQL and _NEQ: two strings are compared as strings.
Equality(op, v1, v2, ci, junk) ==
  IF BothStr(v1, v2)
  THEN Bool_((Fold(v1.v, ci) = Fold(v2.v, ci)) = (op = "eql"))
  ELSE Numeric(v1, v2, junk,
         LAMBDA a, b : Bool_(RealEqual(a, b) = (op = "eql")),
         LAMBDA a, b : Bool_((a = b) = (op = "eql")))

\* REC_SEX_OP_MAT, for a regular expression of plain characters.
Matching(v1, v2, ci) ==
  IF ~BothStr(v1, v2) THEN Bad
  ELSE LET re == Fold(v2.v, ci)
       IN Bool_(MatchAny(Cat([c \in DOMAIN re |-> In({re[c]})]),
                         Fold(v1.v, ci)))

\* REC_SEX_OP_BEFORE, _AFTER and _SAMETIME
Dates(op, v1, v2) ==
  LET zero(s) == s.diff = [sec |-> 0, nsec |-> 0]
      test(s) == CASE op = "before" -> s.negative
                   [] op = "after" -> ~s.negative /\ ~zero(s)
                   [] op = "sametime" -> zero(s)
  IN Both(ToTime(v1), ToTime(v2),
          LAMBDA a, b : Bool_(test(rec_timespec_subtract(a, b))))

\* REC_SEX_OP_LT, _LTE, _GT and _GTE
Ordering(op, v1, v2, junk) ==
  Numeric(v1, v2, junk,
    LAMBDA a, b : Bool_(CASE op = "lt" -> RealLess(a, b)
                          [] op = "gt" -> RealLess(b, a)
                          [] op = "lte" -> RealLess(a, b) \/ RealEqual(a, b)
                          [] op = "gte" -> RealLess(b, a) \/ RealEqual(a, b)),
    LAMBDA a, b : Bool_(CASE op = "lt" -> a < b [] op = "gt" -> a > b
                          [] op = "lte" -> a <= b [] op = "gte" -> a >= b))

\* REC_SEX_OP_AND, _OR and, with the same conversions, _IMPLIES
Logic(op, v1, v2, junk) ==
  Both(ToInt(v1, junk), ToInt(v2, junk),
    LAMBDA a, b : Bool_(CASE op = "and" -> a # 0 /\ b # 0
                          [] op = "or" -> a # 0 \/ b # 0
                          [] op = "implies" -> a = 0 \/ b # 0))

\* REC_SEX_OP_CONCAT
Concat(v1, v2) == IF BothStr(v1, v2) THEN Good(Str_(v1.v \o v2.v)) ELSE Bad

\* REC_SEX_OP_NOT
Negation(v1, junk) ==
  LET not(a) == IF a.ok THEN Bool_(a.v = 0) ELSE Bad IN not(ToInt(v1, junk))

\* REC_SEX_OP_COND, after all of its three children were evaluated.
Conditional(v1, v2, v3, junk) ==
  LET choose(a) == IF a.ok THEN Good(IF a.v # 0 THEN v2 ELSE v3) ELSE Bad
  IN choose(ToInt(v1, junk))

Apply(op, v, ci, junk) ==
  CASE op \in {"add", "sub", "mul"} -> Arith(op, v[1], v[2], junk)
    [] op = "div" -> Division(v[1], v[2], junk)
    [] op = "mod" -> Modulus(v[1], v[2], junk)
    [] op \in {"eql", "neq"} -> Equality(op, v[1], v[2], ci, junk)
    [] op = "mat" -> Matching(v[1], v[2], ci)
    [] op \in {"before", "after", "sametime"} -> Dates(op, v[1], v[2])
    [] op \in {"lt", "lte", "gt", "gte"} -> Ordering(op, v[1], v[2], junk)
    [] op \in {"and", "or", "implies"} -> Logic(op, v[1], v[2], junk)
    [] op = "concat" -> Concat(v[1], v[2])
    [] op = "not" -> Negation(v[1], junk)
    [] op = "cond" -> Conditional(v[1], v[2], v[3], junk)

---------------------------------------------------------------------------
(* rec_sex_eval_node *)

Named(rec, n) == SelectSeq(rec, LAMBDA f : f.n = n)
EffectiveName(node) == node.name \o node.sub

\* REC_SEX_NAME: the value of the node, "" if there is no such field.
NameValue(node, rec) ==
  LET fields == Named(rec, EffectiveName(node))
      at == IF node.index = -1 THEN 1 ELSE node.index + 1
  IN IF node.fixed THEN node.fixed_val
     ELSE IF at <= Len(fields) THEN fields[at].v ELSE << >>

\* REC_SEX_NAME: a subscript fixes the node.
EvalName(node, rec) ==
  LET s == NameValue(node, rec)
  IN [ok |-> TRUE, v |-> Str_(s),
      node |-> IF node.index = -1 THEN node
               ELSE [node EXCEPT !.fixed = TRUE, !.fixed_val = s]]

\* REC_SEX_OP_SHA
EvalSharp(node, rec) ==
  [ok |-> TRUE, node |-> node,
   v |-> Int_(Len(Named(rec, EffectiveName(node.kids[1]))))]

\* The value r of an operator, and its node with the children as the
\* evaluations rs of them left it: those after a failure were not evaluated.
AfterKids(node, rs, r) ==
  LET kid(c) == IF \E b \in 1..(c - 1) : ~rs[b].ok THEN node.kids[c]
                ELSE rs[c].node
  IN [ok |-> r.ok, v |-> IF r.ok THEN r.v ELSE Int_(0),
      node |-> [node EXCEPT !.kids = Each(kid, [c \in DOMAIN @ |-> c])]]

\* An operator, when its children were evaluated to rs.
ApplyKids(node, rs, ci, junk) ==
  AfterKids(node, rs,
            IF \E c \in DOMAIN rs : ~rs[c].ok THEN Bad
            ELSE Apply(node.op, Each(LAMBDA x : x.v, rs), ci, junk))

RECURSIVE EvalNode(_, _, _, _)

\* rec_sex_eval_node: [ok, v, node], where node is the tree as the
\* evaluation leaves it.  The children are evaluated from left to right, all
\* of them, up to the first that fails.
EvalNode(node, rec, ci, junk) ==
  CASE node.op = "name" -> EvalName(node, rec)
    [] node.op = "sha" -> EvalSharp(node, rec)
    [] node.op \in {"int", "real", "str"} ->
         [ok |-> TRUE, v |-> [t |-> node.op, v |-> node.val], node |-> node]
    [] OTHER ->
         ApplyKids(node,
                   Each(LAMBDA kid : EvalNode(kid, rec, ci, junk), node.kids),
                   ci, junk)

\* EXEC_AST: only an integer other than zero is true.
Truth(r) == r.v.t = "int" /\ r.v.v # 0

---------------------------------------------------------------------------
(* The state machine: rec_sex_compile, then for each record rec_sex_eval   *)
(* or rec_sex_eval_str.                                                    *)

Init ==
  /\ \E c \in Cases : expr = c.expr /\ icase = c.icase /\ recs = c.recs
  /\ k = 1 /\ pc = "new" /\ ast = expr
  /\ marks = {} /\ i = 1 /\ j = 0 /\ status = FALSE /\ out = << >>

Compile ==
  /\ pc = "new"
  /\ pc' = IF Compiles(expr) THEN "idle" ELSE "error"
  /\ UNCHANGED <<expr, icase, recs, k, ast, marks, i, j, status, out>>

Result(b) == [fn |-> "eval", res |-> b, text |-> << >>]

\* The end of rec_sex_eval, reached with the last evaluation r.
Return(r) ==
  /\ out' = Append(out, Result(r.ok /\ Truth(r)))
  /\ pc' = "idle" /\ k' = k + 1 /\ i' = 1 /\ j' = 0 /\ marks' = {}

\* Slip: the values fixed for an earlier record are kept.
EvalStartStale ==
  /\ pc = "idle" /\ k <= Len(recs)
  /\ \E r \in {EvalNode(ast, recs[k], icase, junk) : junk \in Junk} :
       /\ ast' = r.node /\ status' = r.ok
       /\ IF Truth(r) THEN Return(r)
          ELSE /\ pc' = "loop" /\ marks' = {} /\ i' = 1 /\ j' = 0
               /\ UNCHANGED <<k, out>>
  /\ UNCHANGED <<expr, icase, recs>>

\* rec_sex_eval: the record as it is.
EvalStart ==
  /\ pc = "idle" /\ k <= Len(recs)
  /\ \E r \in {EvalNode(Unfix(ast), recs[k], icase, junk) : junk \in Junk} :
       /\ ast' = r.node /\ status' = r.ok
       /\ IF Truth(r) THEN Return(r)
          ELSE /\ pc' = "loop" /\ marks' = {} /\ i' = 1 /\ j' = 0
               /\ UNCHANGED <<k, out>>
  /\ UNCHANGED <<expr, icase, recs>>

\* Slip: a counted name is tried with each of its fields, too.
TriedCounted(rec, f) ==
  LET nf == Len(Named(rec, rec[f].n))
  IN nf > 1 /\ f \notin marks /\ NameP(ast, rec[f].n, nf)

\* The fields of the record with which the loop repeats the evaluation.
Tried(rec, f) ==
  LET nf == Len(Named(rec, rec[f].n))
  IN /\ nf > 1 /\ f \notin marks
     /\ NameP(ast, rec[f].n, nf) /\ ~HashNameP(ast, rec[f].n)

NextField ==
  /\ pc = "loop" /\ j = 0 /\ i <= Len(recs[k])
  /\ IF Tried(recs[k], i)
     THEN j' = 1 /\ i' = i
     ELSE i' = i + 1 /\ j' = 0
  /\ UNCHANGED <<expr, icase, recs, k, pc, ast, marks, status, out>>

\* The record with one field left of those of its name, the last of all.
Only(rec, f) ==
  Append(SelectSeq(rec, LAMBDA g : g.n # f.n), f)

Occurrence(rec, n, occ) ==
  CHOOSE f \in DOMAIN rec :
    rec[f].n = n /\ Cardinality({g \in 1..f : rec[g].n = n}) = occ

\* The evaluation with the j-th field of the name.
TryField ==
  /\ pc = "loop" /\ j > 0
  /\ LET rec == recs[k]
         n == rec[i].n
         f == Occurrence(rec, n, j)
     IN \E r \in {EvalNode(ast, Only(rec, rec[f]), icase, junk) :
                   junk \in Junk} :
          /\ ast' = r.node /\ status' = r.ok
          /\ IF Truth(r) THEN Return(r)
             ELSE /\ marks' = marks \cup {f}
                  /\ IF j < Len(Named(rec, n)) THEN j' = j + 1 /\ i' = i
                     ELSE j' = 0 /\ i' = i + 1
                  /\ UNCHANGED <<k, pc, out>>
  /\ UNCHANGED <<expr, icase, recs>>

\* Every field was tried.
EvalEnd ==
  /\ pc = "loop" /\ j = 0 /\ i > Len(recs[k])
  /\ out' = Append(out, Result(FALSE))
  /\ pc' = "idle" /\ k' = k + 1 /\ i' = 1 /\ marks' = {}
  /\ UNCHANGED <<expr, icase, recs, ast, j, status>>

\* printf with "%d", and with "%f"
Natural(n) ==
  LET width == Min({w \in 1..10 : n < 10 ^ Min({w, 9}) \/ w = 10})
  IN [d \in 1..width |->
        HexDigits[((n \div 10 ^ (width - d)) % 10) + 1]]
Decimal(n) == (IF n < 0 THEN <<"-">> ELSE << >>) \o Natural(Abs(n))
Fixed6(q) ==
  LET six == ((Abs(q[1]) * 1000000) + (q[2] \div 2)) \div q[2]
      frac == Natural(1000000 + (six % 1000000))
  IN (IF q[1] < 0 THEN <<"-">> ELSE << >>) \o Natural(six \div 1000000)
     \o <<".">> \o Tail(frac)

AsText(v) ==
  CASE v.t = "int" -> Decimal(v.v)
    [] v.t = "real" -> IF v.v[2] = 0
                       THEN (IF v.v[1] < 0 THEN <<"-">> ELSE << >>)
                            \o Txt(IF v.v[1] = 0 THEN "nan" ELSE "inf")
                       ELSE Fixed6(v.v)
    [] v.t = "str" -> v.v

\* Slip: the values fixed for an earlier record are kept.
EvalStrStale ==
  /\ pc = "idle" /\ k <= Len(recs)
  /\ \E r \in {EvalNode(ast, recs[k], icase, junk) : junk \in Junk} :
       /\ ast' = r.node /\ status' = r.ok
       /\ out' = Append(out, [fn |-> "str", res |-> r.ok,
                              text |-> IF r.ok THEN AsText(r.v) ELSE << >>])
  /\ k' = k + 1
  /\ UNCHANGED <<expr, icase, recs, pc, marks, i, j>>

\* rec_sex_eval_str: no text is a failure.
EvalStr ==
  /\ pc = "idle" /\ k <= Len(recs)
  /\ \E r \in {EvalNode(Unfix(ast), recs[k], icase, junk) : junk \in Junk} :
       /\ ast' = r.node /\ status' = r.ok
       /\ out' = Append(out, [fn |-> "str", res |-> r.ok,
                              text |-> IF r.ok THEN AsText(r.v) ELSE << >>])
  /\ k' = k + 1
  /\ UNCHANGED <<expr, icase, recs, pc, marks, i, j>>

Done == (pc = "error" \/ (pc = "idle" /\ k > Len(recs))) /\ UNCHANGED vars

Next ==
  Compile \/ EvalStart \/ NextField \/ TryField \/ EvalEnd \/ EvalStr \/ Done

Spec == Init /\ [][Next]_vars

---------------------------------------------------------------------------
(* Properties *)

RECURSIVE Pinned(_, _), Mentions(_, _)

\* The tree with every subscripted name fixed by the record itself.
Pinned(node, rec) ==
  IF node.op = "name" THEN EvalName(node, rec).node
  ELSE [node EXCEPT !.kids = Each(LAMBDA kid : Pinned(kid, rec), @)]

Mentions(node, n) ==
  \/ node.op = "name" /\ node.name = n /\ node.index = -1
  \/ \E c \in DOMAIN node.kids : Mentions(node.kids[c], n)

\* The names of which the record has several fields to choose from.
Multi(rec) ==
  {n \in {rec[f].n : f \in DOMAIN rec} :
     /\ Len(Named(rec, n)) > 1 /\ Mentions(expr, n) /\ ~HashNameP(expr, n)}

\* The combinations: the record with one field of each of these names.
Combinations(rec) ==
  {FoldSet(LAMBDA n, r : Only(r, pick[n]), rec, Multi(rec)) :
     pick \in {p \in [Multi(rec) -> Range(rec)] :
                 \A n \in Multi(rec) : p[n].n = n}}

\* The expression has a value on the record, and none that depends on an
\* uninitialised variable, with each of its fields.
Outcomes(rec, r) ==
  {EvalNode(Pinned(Unfix(expr), rec), r, icase, junk) : junk \in Junk}
Regular(rec) ==
  LET definite(rs) ==
        (\A r \in rs : r.ok) /\ Cardinality({r.v : r \in rs}) = 1
  IN \A r \in {rec} \cup Combinations(rec)
                    \cup {Only(rec, rec[f]) : f \in DOMAIN rec} :
       definite(Outcomes(rec, r))

Holds(rec, r) == \A o \in Outcomes(rec, r) : Truth(o)

SomeCombination(rec) == \E r \in Combinations(rec) : Holds(rec, r)

Evaluated == {n \in DOMAIN out : out[n].fn = "eval"}

\* A record with several fields of one name that the expression mentions is
\* selected if and only if the expression holds with one of them, whatever
\* was evaluated before: rec_sex_eval tries every field of the name and
\* leaves the names with a subscript as they are in the record.
AnyFieldSelects ==
  \A n \in Evaluated :
    Regular(recs[n]) /\ Cardinality(Multi(recs[n])) <= 1
      => out[n].res = SomeCombination(recs[n])

\* A selected record has a witness: rec_sex_eval returns true only if the
\* expression holds for some choice of one field of each name, or for the
\* first field of every name.
SelectedHasWitness ==
  \A n \in Evaluated :
    Regular(recs[n]) /\ out[n].res
      => SomeCombination(recs[n]) \/ Holds(recs[n], recs[n])

\* What the manual says: the expression "will be evaluated for every
\* possible permutation of the fields" until one of the combinations
\* succeeds.
EveryCombinationTried ==
  \A n \in Evaluated :
    Regular(recs[n]) => out[n].res = SomeCombination(recs[n])

\* The operands of a comparison on the first record.
Operands ==
  Each(LAMBDA kid : EvalNode(Unfix(kid), recs[1], icase, 0), expr.kids)

Numbers(v) ==
  v.t # "str" \/ (rec_atod(v.v).ok /\ v.v[1] # "0"
                  /\ Written(v.v).v \in INT_MIN..INT_MAX)
Holding(op, v1, v2) ==
  LET true(r) == r.ok /\ r.v = Int_(1)
  IN true(Apply(op, <<v1, v2>>, icase, 0))

\* The comparisons that hold between two values are those of a set.
Exactly(ops, v1, v2, true) ==
  \A op \in ops : Holding(op, v1, v2) <=> op \in true

\* Comparisons of numbers are those of the numbers, whether an operand is an
\* integer, a real or a string that reads as one (rec_sex_op_real_p picks the
\* arithmetic from both operands), so that of <, = and > exactly one holds.
\* Two strings are equal as strings.  Left out are strings with octal or
\* hexadecimal numbers, which only rec_atoi reads so, and those with numbers
\* that do not fit an int, which rec_atoi cuts.
NumericOrder ==
  LET sorted(x1, x2) ==
        IF RealLess(x1, x2) THEN {"lt", "lte", "neq"}
        ELSE IF RealLess(x2, x1) THEN {"gt", "gte", "neq"}
        ELSE {"lte", "gte", "eql"}
      compared(v1, v2) ==
        {"lt", "lte", "gt", "gte"}
        \cup IF BothStr(v1, v2) THEN {} ELSE {"eql", "neq"}
      ordered(a, b) ==
        a.ok /\ b.ok /\ Numbers(a.v) /\ Numbers(b.v)
        => Exactly(compared(a.v, b.v), a.v, b.v,
                   sorted(ToReal(a.v).v, ToReal(b.v).v))
      both(ops) == ordered(ops[1], ops[2])
  IN expr.op \in {"lt", "lte", "gt", "gte", "eql", "neq"} /\ recs[1] # << >>
     => both(Operands)

\* Two dates are in exactly one of the relations before, after and same
\* time, which is the order of their seconds and nanoseconds
\* (rec_timespec_subtract borrows from the seconds).
DateOrder ==
  LET sorted(a, b) ==
        IF a = b THEN {"sametime"}
        ELSE IF a.sec < b.sec \/ (a.sec = b.sec /\ a.nsec < b.nsec)
        THEN {"before"} ELSE {"after"}
      ordered(v1, v2, a, b) ==
        a.ok /\ b.ok => Exactly({"before", "after", "sametime"}, v1, v2,
                                sorted(a.v, b.v))
      both(ops) == ordered(ops[1].v, ops[2].v, ToTime(ops[1].v), ToTime(ops[2].v))
  IN expr.op \in {"before", "after", "sametime"} => both(Operands)

\* The comparisons of numbers and of dates are orders.
ComparisonOrder == NumericOrder /\ DateOrder

\* The text of an expression is that of a fresh evaluation on the record,
\* whatever the same tree was evaluated on before (rec_sex_ast_node_unfix),
\* and the text of an integer reads as that integer.
TextIsFresh ==
  \A n \in {n \in DOMAIN out : out[n].fn = "str"} :
    \E r \in {EvalNode(Unfix(expr), recs[n], icase, junk) : junk \in Junk} :
      /\ out[n].res = r.ok
      /\ r.ok => out[n].text = AsText(r.v)
      /\ r.ok /\ r.v.t = "int" => rec_atoi(out[n].text).v = r.v.v

=============================================================================
