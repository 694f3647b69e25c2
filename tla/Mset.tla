------------------------------- MODULE Mset -------------------------------
(***************************************************************************)
(* The multi-set of src/src/rec-mset.c: the ordered, typed container on    *)
(* which records (fields and comments) and record sets (records and        *)
(* comments) are built.                                                    *)
(*                                                                         *)
(* An element is named by the data it stores: the library never stores the *)
(* same pointer twice in a multi-set.  elem_list is a gnulib GL_ARRAY_LIST,*)
(* whose nodes are positions: node[d] is the list_node cached in the       *)
(* element of d, and nothing refreshes it when a neighbour is inserted or  *)
(* removed, except rec_mset_iterator_next.                                 *)
(*                                                                         *)
(* One iterator is modelled, the one of the loop that modifies the         *)
(* multi-set.  rec.h forbids every other modification during a traversal,  *)
(* and the clients in rec-db.c, rec-rset.c and rec-record.c respect it.    *)
(***************************************************************************)
EXTENDS Integers, Sequences, FiniteSets, SequencesExt

CONSTANTS
  Data,          \* the pointers a client may store
  Types,         \* the registered types (ntypes - 1 of them)
  MSET_ANY,      \* type 0: an element of any type
  MSET_COMMENT,  \* the type of the comments, which has its own compare_fn
  Key,           \* Key[d]: rank of the order-by fields of record d
  Absent,        \* the rank of a record that lacks the order-by field
  NULL,          \* no element
  SIZE_MAX,      \* the largest size_t, at which a counter wraps around
  CountBound,    \* bound of the model: no sort counts further than this
  Calls          \* the entry points the client uses

ASSUME MsetAssumption ==
  /\ IsFiniteSet(Data) /\ NULL \notin Data
  /\ IsFiniteSet(Types) /\ MSET_ANY \notin Types
  /\ MSET_COMMENT \in Types
  /\ Key \in [Data -> Int] /\ Absent \in Int
  /\ CountBound \in Nat /\ CountBound < SIZE_MAX
  /\ SIZE_MAX \in Nat /\ Cardinality(Data) < SIZE_MAX

VARIABLES
  list,     \* elem_list: the elements in order
  type,     \* type[d]: elem->type; MSET_ANY while d is not stored
  node,     \* node[d]: elem->list_node, a position; 0 while d is not stored
  count,    \* mset->count, per type and in total (MSET_ANY)
  iter,     \* the iterator of the current traversal
  cur,      \* the *ELEM the last rec_mset_iterator_next gave back, or NULL
  aborted,  \* gnulib called abort (), or a NULL element was dereferenced
  plan,     \* history: what the traversal has to return, when it started
  seen      \* history: what it has returned so far

mset == <<list, type, node, count>>
vars == <<list, type, node, count, iter, cur, aborted, plan, seen>>

AllTypes == Types \cup {MSET_ANY}

Idle == [on |-> FALSE, ty |-> MSET_ANY, p |-> 0, n |-> 0, done |-> FALSE]

\* rec_mset_new: every counter is 0 and the list is empty.
Init ==
  /\ list = << >>
  /\ type = [d \in Data |-> MSET_ANY]
  /\ node = [d \in Data |-> 0]
  /\ count = [t \in AllTypes |-> 0]
  /\ iter = Idle /\ cur = NULL /\ aborted = FALSE
  /\ plan = << >> /\ seen = << >>

Stored == ToSet(list)
Matches(d, t) == t = MSET_ANY \/ type[d] = t
OfType(t) == {d \in Stored : Matches(d, t)}

\* The elements of type t in order: the k-th is the one at the place with k
\* such places up to it, which is how rec_mset_get_at counts them.
Places(t) == {i \in 1..Len(list) : Matches(list[i], t)}
InOrder(t) ==
  [k \in 1..Cardinality(Places(t)) |->
     list[CHOOSE i \in Places(t) : Cardinality(Places(t) \cap 1..i) = k]]

\* size_t arithmetic on the counters.
Up(n) == IF n = SIZE_MAX THEN 0 ELSE n + 1
Down(n) == IF n = 0 THEN SIZE_MAX ELSE n - 1

\* The statistics update shared by the functions that add an element.
Counted(c, t) == [c EXCEPT ![MSET_ANY] = Up(@), ![t] = Up(@)]

Client(call) == call \in Calls /\ ~aborted
Modify(call) == Client(call) /\ ~iter.on
NoTraversal == UNCHANGED <<iter, cur, plan, seen>>

---------------------------------------------------------------------------
(* Getting and inserting elements *)

\* rec_mset_get_at: the data of the (p+1)-th element of type t.  The bound
\* is the counter, not the list, so an element of MSET_ANY may be looked
\* for past the end of the list (GetAtAborts), and one of another type not
\* be found (NULL).
GetAtAborts(t, p) == t = MSET_ANY /\ p < count[t] /\ p >= Len(list)
GetAt(t, p) ==
  LET found == InOrder(t)
  IN IF p < count[t] /\ p < Len(found) THEN found[p + 1] ELSE NULL

\* Where rec_mset_insert_at puts an element: the position is compared with
\* the number of elements of any type.
InsertPosition(p) == IF p >= count[MSET_ANY] THEN Len(list) ELSE p

\* gl_list_nx_add_at, and the bookkeeping that follows it.
PutAt(d, t, p) ==
  /\ list' = InsertAt(list, p + 1, d)
  /\ type' = [type EXCEPT ![d] = t]
  /\ node' = [node EXCEPT ![d] = p + 1]
  /\ count' = Counted(count, t)
  /\ UNCHANGED aborted

\* rec_mset_insert_at.
InsertElemAt(d, t, p) ==
  /\ Modify("insert_at") /\ d \notin Stored
  /\ IF InsertPosition(p) <= Len(list)
     THEN PutAt(d, t, InsertPosition(p))
     ELSE aborted' = TRUE /\ UNCHANGED mset
  /\ NoTraversal

\* rec_mset_append (mset, t, d, u): an insertion at position count (u),
\* where u is MSET_ANY for the elements of a record set and may be another
\* type for the fields of a record.
AppendElem(d, t, u) ==
  /\ Modify(IF u = MSET_ANY THEN "append" ELSE "append_typed")
  /\ d \notin Stored
  /\ IF InsertPosition(count[u]) <= Len(list)
     THEN PutAt(d, t, InsertPosition(count[u]))
     ELSE aborted' = TRUE /\ UNCHANGED mset
  /\ NoTraversal

\* rec_mset_insert_after (mset, t, d, e).  When e is not found, which takes
\* a client that passes an element of another multi-set ("foreign"), the
\* code adds e itself, and counts nothing.
InsertAfter(d, t, e) ==
  /\ Modify("insert_after") /\ d \notin Stored /\ d # e
  /\ IF e \in Stored
     THEN \E i \in 1..Len(list) : list[i] = e /\ PutAt(d, t, i)
     ELSE /\ "foreign" \in Calls
          /\ list' = Append(list, e)
          /\ type' = [type EXCEPT ![e] = t]
          /\ UNCHANGED <<node, count, aborted>>
  /\ NoTraversal

---------------------------------------------------------------------------
(* Removing elements *)

\* Slip: only the counter of the type is decremented.
RemoveElemNoTotal(d) ==
  IF node[d] \in 1..Len(list)
  THEN LET victim == list[node[d]] IN
       /\ list' = RemoveAt(list, node[d])
       /\ type' = [type EXCEPT ![victim] = MSET_ANY]
       /\ node' = [node EXCEPT ![victim] = 0]
       /\ count' = [count EXCEPT ![type[d]] = Down(@)]
       /\ UNCHANGED aborted
  ELSE aborted' = TRUE /\ UNCHANGED mset

\* rec_mset_remove_elem: the element is removed at the node it remembers,
\* whichever element is there now; the counters are those of its own type.
RemoveElem(d) ==
  IF node[d] \in 1..Len(list)
  THEN LET victim == list[node[d]] IN
       /\ list' = RemoveAt(list, node[d])
       /\ type' = [type EXCEPT ![victim] = MSET_ANY]
       /\ node' = [node EXCEPT ![victim] = 0]
       /\ count' = [count EXCEPT ![type[d]] = Down(@), ![MSET_ANY] = Down(@)]
       /\ UNCHANGED aborted
  ELSE aborted' = TRUE /\ UNCHANGED mset

\* rec_mset_remove_at: the position is clipped, the element is found with
\* rec_mset_get_at and rec_mset_search, neither of which refreshes its node.
RemoveElemAt(t, p) ==
  /\ Modify("remove_at") /\ count[t] > 0
  /\ LET q == IF p >= count[t] THEN count[t] - 1 ELSE p
         d == GetAt(t, q)
     IN IF GetAtAborts(t, q) \/ d = NULL
        THEN aborted' = TRUE /\ UNCHANGED mset
        ELSE RemoveElem(d)
  /\ NoTraversal

---------------------------------------------------------------------------
(* Sorting and duplicating *)

\* rec_rset_compare_typed_records: a record that lacks the order-by field is
\* smaller, also than another one that lacks it.
CompareRecords(d1, d2) ==
  IF Key[d1] = Absent THEN -1
  ELSE IF Key[d2] = Absent THEN 1
  ELSE Key[d1] - Key[d2]

\* Slip: records with equal fields compare as 0, and then as greater.
CompareUnstable(d1, d2) ==
  IF type[d1] = MSET_COMMENT THEN -1
  ELSE IF type[d2] = MSET_COMMENT THEN 1
  ELSE IF CompareRecords(d1, d2) = 0 THEN 1 ELSE CompareRecords(d1, d2)

\* rec_rset_comment_compare_fn and rec_rset_record_compare_fn: the comparison
\* of a stored element with the one being added, which is never 0.
Compare(d1, d2) ==
  IF type[d1] = MSET_COMMENT THEN -1
  ELSE IF type[d2] = MSET_COMMENT THEN 1
  ELSE IF CompareRecords(d1, d2) = 0 THEN -1 ELSE CompareRecords(d1, d2)

\* gl_sortedlist_nx_add: the binary search of the insertion point of d, in
\* the window of l that is left after n rounds.
Halved(l, d, w) ==
  LET mid == (w[1] + w[2]) \div 2
  IN IF w[1] >= w[2] THEN w
     ELSE IF Compare(l[mid + 1], d) < 0 THEN <<mid + 1, w[2]>>
     ELSE <<w[1], mid>>
Windows(l, d) ==
  LET window[n \in 0..Len(l)] ==
        IF n = 0 THEN <<0, Len(l)>> ELSE Halved(l, d, window[n - 1])
  IN window
SortedPosition(l, d) == Windows(l, d)[Len(l)][1]

SortedAdd(l, d) == InsertAt(l, SortedPosition(l, d) + 1, d)

\* The new list of rec_mset_sort after n elements of l.
Sorting(l) ==
  LET sorted[n \in 0..Len(l)] ==
        IF n = 0 THEN << >> ELSE SortedAdd(sorted[n - 1], l[n])
  IN sorted

\* The node rec_mset_add_sorted stores in an element during a sort: its
\* position at the time, in the part of the list sorted so far.
SortNode(l, d) ==
  LET i == CHOOSE j \in 1..Len(l) : l[j] = d
  IN SortedPosition(Sorting(l)[i - 1], d) + 1

\* The counter of t once rec_mset_add_sorted has counted every element.
SortCount(t) == (count[t] + Cardinality(OfType(t))) % (SIZE_MAX + 1)

\* rec_mset_sort: the data are moved one by one to a new sorted list.  The
\* counters are not reset before the elements are counted again.
Sort ==
  /\ Modify("sort") /\ count[MSET_ANY] + Len(list) <= CountBound
  /\ UNCHANGED <<type, aborted>> /\ NoTraversal
  /\ list' = Sorting(list)[Len(list)]
  /\ node' = [d \in Data |-> IF d \in Stored THEN SortNode(list, d) ELSE 0]
  /\ count' = [t \in AllTypes |-> SortCount(t)]

\* rec_mset_dup: the copy's counters start at 0 and each element of the
\* original is appended.  The client goes on with the copy.
Dup ==
  /\ Modify("dup")
  /\ node' = [d \in Data |->
                IF d \in Stored
                THEN CHOOSE i \in 1..Len(list) : list[i] = d ELSE 0]
  /\ count' = [t \in AllTypes |-> Cardinality(OfType(t))]
  /\ UNCHANGED <<list, type, aborted>> /\ NoTraversal

---------------------------------------------------------------------------
(* Iterating *)

\* rec_mset_iterator: gnulib remembers the number of elements.
StartIterator(t) ==
  /\ Modify("iterate")
  /\ iter' = [on |-> TRUE, ty |-> t, p |-> 0, n |-> Len(list), done |-> FALSE]
  /\ cur' = NULL
  /\ plan' = InOrder(t)
  /\ seen' = << >>
  /\ UNCHANGED <<mset, aborted>>

\* gl_list_iterator_next: one element less than at the last call means that
\* the last returned one was removed, and the position steps back.
StepBack == IF iter.n = Len(list) + 1 THEN 1 ELSE 0
\* Slip: the removal of the last returned element is not noticed.
AheadNoStepBack == {i \in Places(iter.ty) : i > iter.p}

Ahead == {i \in Places(iter.ty) : i > iter.p - StepBack}

\* Slip: the list_node of the returned element is not refreshed.
IteratorNextStale(wantsElem) ==
  /\ Client("iterate") /\ iter.on /\ ~iter.done
  /\ iter.n \in {Len(list), Len(list) + 1}
  /\ \E i \in Ahead :
       /\ \A j \in Ahead : i <= j
       /\ iter' = [iter EXCEPT !.p = i, !.n = Len(list)]
       /\ seen' = Append(seen, list[i])
       /\ cur' = IF wantsElem THEN list[i] ELSE NULL
  /\ UNCHANGED <<list, type, node, count, plan, aborted>>

\* rec_mset_iterator_next: the next element of the type.  When the caller
\* asks for ELEM, its list_node is refreshed.
IteratorNext(wantsElem) ==
  /\ Client("iterate") /\ iter.on /\ ~iter.done
  /\ iter.n \in {Len(list), Len(list) + 1}
  /\ \E i \in Ahead :
       /\ \A j \in Ahead : i <= j
       /\ iter' = [iter EXCEPT !.p = i, !.n = Len(list)]
       /\ seen' = Append(seen, list[i])
       /\ IF wantsElem
          THEN cur' = list[i] /\ node' = [node EXCEPT ![list[i]] = i]
          ELSE cur' = NULL /\ UNCHANGED node
  /\ UNCHANGED <<list, type, count, plan, aborted>>

\* rec_mset_iterator_next finds no more elements and leaves the iterator
\* as it was, or gl_list_iterator_next aborts because the list lost more
\* than the last returned element.
IteratorEnd ==
  /\ Client("iterate") /\ iter.on /\ ~iter.done
  /\ IF iter.n \in {Len(list), Len(list) + 1}
     THEN /\ Ahead = {} /\ iter' = [iter EXCEPT !.done = TRUE]
          /\ UNCHANGED aborted
     ELSE aborted' = TRUE /\ UNCHANGED iter
  /\ cur' = NULL
  /\ UNCHANGED <<mset, plan, seen>>

\* rec_mset_iterator_free, at the end or when the loop is left early.
IteratorFree ==
  /\ ~aborted /\ iter.on
  /\ iter' = Idle /\ cur' = NULL /\ plan' = << >> /\ seen' = << >>
  /\ UNCHANGED <<mset, aborted>>

\* The loop removes the element it is at (rec_mset_remove_elem).
RemoveCurrent ==
  /\ Client("iterate") /\ iter.on /\ cur # NULL
  /\ RemoveElem(cur) /\ cur' = NULL
  /\ UNCHANGED <<iter, plan, seen>>

\* Slip: the counters are not told.
RetypeCurrentUncounted(t) ==
  /\ Client("iterate") /\ iter.on /\ cur # NULL
  /\ type' = [type EXCEPT ![cur] = t]
  /\ UNCHANGED <<list, node, count, iter, cur, plan, seen, aborted>>

\* The loop changes the type of the element it is at
\* (rec_mset_elem_set_type), to turn a record or a field into a comment.
RetypeCurrent(t) ==
  /\ Client("iterate") /\ iter.on /\ cur # NULL
  /\ type' = [type EXCEPT ![cur] = t]
  /\ count' = [[count EXCEPT ![type[cur]] = Down(@)] EXCEPT ![t] = Up(@)]
  /\ UNCHANGED <<list, node, iter, cur, plan, seen, aborted>>

\* The loop replaces the data of the element it is at
\* (rec_mset_elem_set_data), which keeps its type and its node.
ReplaceCurrent(d) ==
  /\ Client("iterate") /\ iter.on /\ cur # NULL /\ d \notin Stored
  /\ list' = [i \in 1..Len(list) |-> IF list[i] = cur THEN d ELSE list[i]]
  /\ type' = [type EXCEPT ![d] = type[cur], ![cur] = MSET_ANY]
  /\ node' = [node EXCEPT ![d] = node[cur], ![cur] = 0]
  /\ cur' = d
  /\ UNCHANGED <<count, iter, plan, seen, aborted>>

---------------------------------------------------------------------------
Next ==
  \/ \E d \in Data, t \in Types, p \in 0..Cardinality(Data) :
       InsertElemAt(d, t, p)
  \/ \E d \in Data, t \in Types, u \in AllTypes : AppendElem(d, t, u)
  \/ \E d \in Data, t \in Types, e \in Data : InsertAfter(d, t, e)
  \/ \E t \in AllTypes, p \in 0..Cardinality(Data) : RemoveElemAt(t, p)
  \/ Sort
  \/ Dup
  \/ \E t \in AllTypes : StartIterator(t)
  \/ \E wantsElem \in BOOLEAN : IteratorNext(wantsElem)
  \/ IteratorEnd
  \/ IteratorFree
  \/ RemoveCurrent
  \/ \E t \in Types : RetypeCurrent(t)
  \/ \E d \in Data : ReplaceCurrent(d)

Spec == Init /\ [][Next]_vars

\* The clients the counter of all elements is right for.
TotalClients == Calls \cap {"sort", "foreign"} = {}

\* The clients all the counters are right for: those of the library and of
\* the utilities that do not sort.
CountingClients == Calls \cap {"sort", "remove_at", "foreign"} = {}

---------------------------------------------------------------------------
(* Properties *)

\* Every variable of the multi-set and of its iterator has its type (plan
\* and seen are history and constrain nothing).
TypeOK ==
  /\ list \in Seq(Data)
  /\ type \in [Data -> AllTypes]
  /\ node \in [Data -> Nat]
  /\ count \in [AllTypes -> 0..SIZE_MAX]
  /\ iter \in [on : BOOLEAN, ty : AllTypes, p : Nat, n : Nat, done : BOOLEAN]
  /\ cur \in Data \cup {NULL}
  /\ aborted \in BOOLEAN

\* The counter of each type, kept up to date by every function that adds,
\* removes or retypes an element, is the number of elements of that type
\* (rec.h, rec_mset_count).  It bounds every access by position.
CountsExact == \A t \in AllTypes : count[t] = Cardinality(OfType(t))

\* The counter of all the elements is the length of the list, even when
\* rec_mset_remove_at removes another element than the one it found.
TotalExact == count[MSET_ANY] = Len(list)

\* A traversal returns each of the elements that had its type when it
\* started, once and in order, although the loop removes, retypes and
\* replaces elements on its way (rec_mset_iterator_next).
TraversalExact ==
  iter.on => IsPrefix(seen, plan) /\ (iter.done => seen = plan)

\* No call makes gnulib abort: the positions given to it are in the list
\* and the iterator recognises every modification as a removal of the last
\* returned element.
NeverAborts == ~aborted

\* When a loop removes the element it is at, that element leaves the list
\* and no other does, wherever the earlier insertions and removals moved it
\* (rec_mset_remove_elem trusts list_node).
RemovalHitsCurrent ==
  [][RemoveCurrent =>
       \E i \in 1..Len(list) : list[i] = cur /\ list' = RemoveAt(list, i)]_vars

\* The order a sort has to produce: comments first, then the records by
\* their order-by fields, and equal elements in the order they had.
Rank(d) == IF type[d] = MSET_COMMENT THEN <<0, 0>>
           ELSE IF Key[d] = Absent THEN <<1, 0>> ELSE <<2, Key[d]>>
Below(r, s) == r[1] < s[1] \/ (r[1] = s[1] /\ r[2] < s[2])
IndexOf(l, d) == CHOOSE i \in 1..Len(l) : l[i] = d
Before(l, d1, d2) ==
  \/ Below(Rank(d1), Rank(d2))
  \/ Rank(d1) = Rank(d2) /\ IndexOf(l, d1) < IndexOf(l, d2)

\* A sort is a stable permutation of the elements, comments first
\* (rec_mset_sort with the compare_fn callbacks of a record set).
SortStable ==
  [][Sort => /\ ToSet(list') = Stored /\ Len(list') = Len(list)
             /\ \A i, j \in 1..Len(list) :
                  i < j => Before(list, list'[i], list'[j])]_vars

\* The inductive invariants behind the proofs of SortStable, TotalExact,
\* CountsExact, NeverAborts and RemovalHitsCurrent: an element is stored once,
\* it has a type while it is stored, the element the loop holds knows where it
\* is, and the iterator has missed at most the removal of that element.
StoredOnce ==
  \A i, j \in 1..Len(list) : list[i] = list[j] => i = j
TypedWhenStored == \A d \in Data : d \in Stored <=> type[d] \in Types
CurrentLocated ==
  cur # NULL => /\ iter.on
                /\ node[cur] \in 1..Len(list) /\ list[node[cur]] = cur
IteratorInStep ==
  iter.on => /\ iter.n \in {Len(list), Len(list) + 1}
             /\ cur # NULL => iter.n = Len(list)
ListInv ==
  /\ TypeOK /\ StoredOnce /\ TypedWhenStored /\ CurrentLocated
  /\ IteratorInStep
MsetInv == ListInv /\ TotalExact /\ CountsExact /\ NeverAborts

\* The inductive invariant behind the proof of TraversalExact: the element
\* the loop holds is the one the iterator is at, what was returned is the
\* beginning of the plan, and the k-th element ahead is the k-th of the rest.
AheadPlanned ==
  /\ Cardinality(Ahead) = Len(plan) - Len(seen)
  /\ \A i \in Ahead :
       list[i] = plan[Len(seen) + Cardinality(Ahead \cap 1..i)]
TraversalInv ==
  iter.on => /\ plan \in Seq(Data) /\ seen \in Seq(Data)
             /\ Len(seen) <= Len(plan)
             /\ \A k \in 1..Len(seen) : seen[k] = plan[k]
             /\ cur # NULL => node[cur] = iter.p /\ ~iter.done
             /\ IF iter.done THEN Len(seen) = Len(plan) ELSE AheadPlanned

=============================================================================
