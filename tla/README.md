# TLA+ specifications of GNU recutils

This directory models the part of recutils that a user's data depends on: the
container every record lives in, the parser and the writer of the rec format, the
languages of the utilities (field expressions, selection expressions, types, CSV,
templates), the operations that change or query a database, the integrity rules,
and the way the command line tools replace a file. TLC checks the modules on
small instances, and TLAPS proves some of the properties for all instances. Paths
below are relative to the root of the repository.

## The system

| Part | Source | State | Operations |
|------|--------|-------|------------|
| Multi-set | `src/rec-mset.c` | `elem_list` (a gnulib array list), a counter per type, a `list_node` cached in each element | insert, append, insert after, remove, sort, dup, iterate |
| Fields, comments, records | `src/rec-field.c`, `rec-comment.c`, `rec-record.c` | a multi-set of fields and comments | lookup by name, conversion to a comment, removal of repeated fields |
| Record sets | `src/rec-rset.c` | a multi-set of records and comments, the descriptor, `descriptor_pos`, properties, types, limits and constraints derived from the descriptor, the order of the last sort | set descriptor, rename field, sort, group, auto fields |
| Databases | `src/rec-db.c` | a list of record sets | insert, delete, set, query, join |
| Parser | `src/rec-parser.c` | position, error, `prev_descriptor` | field, record, record set, database |
| Writer | `src/rec-writer.c` | output, mode | the same in the other direction |
| Integrity | `src/rec-int.c` | none; the descriptor is replaced while a remote one is merged | check database, record set, record, descriptor |
| Selection expressions | `src/rec-sex.c`, `rec-sex-ast.c` | a tree with values fixed in its nodes, marks in the record | compile, evaluate, evaluate to text |
| Field expressions, types, aggregates | `src/rec-fex.c`, `rec-types.c`, `rec-aggregate.c` | parsed expressions, a registry of types | check, parse, print, sort, compare, accumulate |
| Encryption | `src/rec-crypt.c` | none | encrypt and decrypt a field |
| Utilities | `utils/*.c` | the database of a command, the file | `recins`, `recdel`, `recset`, `recfix`, `recsel`, `recinf`, `recfmt`, converters |

The library is sequential. A record set is a multi-set of records, and a record
is a multi-set of fields; the parser builds them by appending, `rec-db.c`
changes them in loops that hold an iterator, and the writer walks over them. A
query evaluates one compiled selection expression on one record after the other,
and sorts and groups the record set of the database itself. A utility reads one
file (`recutl_read_db_from_file`) or several (`recutl_build_db`), changes the
database, checks it (`rec_int_check_db`, which parses the descriptor's types, sizes
and constraints) and writes it to a temporary file that it renames
(`recutl_write_db_to_file`).

What is hard to get right, and what each part has to guarantee:

* The multi-set caches positions and counters. Loops remove and retype the
  element they are at. A loop has to meet every element once, remove the one it
  means, and leave the counters equal to the numbers of elements, since they
  bound every access by position.
* The format has no brackets: a record belongs to the descriptor that precedes
  it. The parser remembers the descriptor's place among the comments, and the
  writer has to put it back there. After any sequence of operations a database
  has to be read back as it was written, down to the characters of a value.
* An expression is compiled once and evaluated many times, with values fixed in
  the tree and taken out again. What one record left must not reach the next.
* A descriptor is derived state: properties are reset and computed again whenever a
  remote descriptor is merged, and afterwards. The check has to accept what the
  directives say, and to leave nothing behind.
* A query works in place. Its result has to be the relational one, and
  the database must not lose what the next query, or a write, needs.
* Several commands may run on the same file, and each of them may be killed.
  The file has to be a complete and sound version at every moment.
* Some steps fail: a file that does not parse among several, a full disk, a
  rename to another file system.

`PROJECT.json` lists these hazards one by one, with the line where each bites
and the properties that would catch it.

## Modules

| Module | Models | Extends | Checked by |
|--------|--------|---------|------------|
| `Mset` | `rec-mset.c`, and the compare callbacks of `rec-rset.c` | | `MsetProofs`, `MCMset` |
| `RecText` | the parser and the writer, line by line, as operators | | `RecTextProofs`, and through `RecRead`, `RecDb` |
| `RecRead` | reading the files of a command line (`utils/recutl.c`), and what `recfix --sort` writes | `RecText` | `RecReadProofs`, `MCRecRead` |
| `RecDb` | `rec_db_insert`, `rec_db_delete`, `rec_db_set`, with writing and reading in between | `RecText` | `RecDbProofs`, `MCRecDb` |
| `RecUtil` | concurrent `recins`, `recdel`, `recset`, `recfix` on one file | | `RecUtilProofs`, `MCRecUtil` |
| `RecFile` | the abstract file: what the utilities promise about it | | through `RecUtilFile` |
| `RecUtilFile` | the refinement mapping from `RecUtil` to `RecFile` | `RecUtil`, instance of `RecFile` | `MCRecUtil` |
| `RecStr`, `RecRegex` | the string helpers and regular expressions of `rec-utils.c` | | through the modules below |
| `RecSex` | `rec-sex.c`, `rec-sex-ast.c` | `RecRegex` | `MCRecSex` |
| `RecCrypt` | `rec-crypt.c` | | through `RecInt` |
| `RecInt` | descriptors, integrity, auto fields and confidential fields, under the commands that write a file | `RecCrypt` | `RecIntProofs`, `MCRecInt` |
| `RecCodec` | the parser and the writer of records, character by character | `RecRegex` | through `RecSyntax` |
| `RecFex` | `rec-fex.c` | `RecRegex` | through `RecSyntax` |
| `RecTypes` | `rec-types.c` | `RecRegex` | through `RecSyntax` |
| `RecCsv` | `rec2csv`, `csv2rec`, `libcsv` between them, the templates of `recfmt` | `RecCodec`, `RecFex` | through `RecSyntax` |
| `RecSyntax` | the inputs of all of these languages, and what has to hold for them | `RecTypes`, `RecCsv` | `MCRecSyntax` |
| `RecQuery` | `rec_db_query`, joins, grouping, aggregates, `recsel` | | `RecQueryProofs`, `MCRecQuery` |
| `SeqLemmas` | nothing: lemmas on sequences that the proofs share | | |

Definitions whose comment starts with "Slip" are variants of the definition
below them, with a mistake one could make in the code. No specification uses
them: they are there to confirm that the properties notice the mistake.

### Mset

`list`, `type`, `node` and `count` are `elem_list`, the `type` and the
`list_node` of the elements, and `mset->count`. An element is named by its data,
and a node is a position, as in gnulib's `GL_ARRAY_LIST`. The counters wrap
around at `SIZE_MAX`. `aborted` says that gnulib called `abort`, or that NULL was
dereferenced. There is one action per entry point, and the client is
described by the set `Calls` of the entry points it uses. One iterator is
modelled, with what gnulib keeps in it (`p` and `n`: the next position and the
number of elements it knows of); `plan` and `seen` are history variables for
the traversal. `InOrder` lists the elements of a type in the order of the list, as
`rec_mset_get_at` counts them. A sort inserts the elements one after the other
(`Sorting`), each at the place that the binary search of gnulib ends at: `Windows`
are the intervals it looks at, and nothing in it assumes that the list is sorted
already or that the comparison is an order. Running out of memory is not
modelled.

### RecText

A line is blank, a comment, a field, something else (`Bad`) or a field cut by
the end of the file (`Cut`). `ParseLine` and `ParseEof` are `rec_parse_rset` and
`rec_parse_record` turned inside out, so that a client can run them line by line;
`Parse` folds them over a file. `WriteRsetCounting` takes the number of elements
as an argument because in the program it is a counter, which is wrong after a
sort. The text of names and values is abstract here: a field's continuation lines
and the escaping of newlines belong to one line of the model, and to `RecCodec`.
`Contents` are the names and values of fields and the lines of comments, and `Items`
the fields and comments that records are made of.

### RecRead

TLC chooses the lines of the files as they are read, so that the reachable
states cover every file up to `MaxLines` lines. The contents of a field or of
a comment is its line number: a line that is lost, repeated or moved is seen.
`AddRset` is the body of the loop of `recutl_parse_db_from_file`, early return
included, and `Added` is the database after each of the record sets that a line has
completed (the end of a file may complete two). `WriteSorted` is `recfix_do_sort` on what was read.

### RecDb

The actions are the three operations with all their variants: insertion or
replacement, deletion or commenting out, and the six actions of `recset`. A
selection is the set of record numbers that it selects, so that indexes, selection
expressions, quick strings and random selections are covered together (`RecSex` and
`RecQuery` have them in detail); a subscript is the set of occurrences it selects. `Reload` writes the database and
reads it back, as happens between two commands. `crashed` records that a
missing record set was dereferenced.

### RecUtil

A process runs one command. Its steps are those of the main functions: read,
change and check, test the permissions, `stat`, write a temporary file, `rename`,
`chmod`. Each can fail in the ways the code handles, or ignores, and the process
can be killed between any two of them. That the machine stops is not modelled: nothing
calls `fsync`, so that after a power failure a file that was renamed may be empty. The contents of a file is reduced to
the number of its records, whether there is a descriptor (with a `%size`, which
stands for all the integrity rules, and a `%sort`), whether it parses, whether it is
complete, and the set `by` of the commands whose changes it holds. `alone`
says that no command has started while another one was running.

### RecFile and RecUtilFile

`RecFile` says what is left of `RecUtil` for somebody who only looks at the
contents of the file: a command takes the version there is, makes something of it,
and either puts it in place in one step or gives up. Nothing locks the file, so
the version replaced need not be the one taken. `RecUtilFile` maps the program
counter of a process to the four stages of a command (`StageAt`) and what it holds,
in memory or in its temporary file, to the version it works on (`WorkAt`); the permission tests, `stat`,
the temporary file and `chmod` are stuttering steps, and `rename` is the step
that changes the contents. A full disk cuts the version that is written
(`WrittenFor`), since `recutl_write_db_to_file` ignores the errors of the writer.

### RecSex

A behaviour compiles an expression and evaluates it on a sequence of records, by
`rec_sex_eval` (`EvalStart`, `NextField`, `TryField`, `EvalEnd`: the loop over the
fields, one step per evaluation) or `rec_sex_eval_str` (`EvalStr`). `ast` is the
tree with the values its nodes have fixed, `marks` the marks of the fields, and
`status` what the last evaluation said. `EvalNode` is `rec_sex_eval_node`, with one
operator per group of cases. Reals are fractions, dates seconds and nanoseconds,
and an integer that the code reads before it is set is any value of `Junk`.

### RecCrypt and RecInt

The state of `RecInt` is the file, an external file that holds a remote descriptor,
and the last command. Each action is a whole command: it loads the file
(`Load` derives what `rec_rset_set_descriptor` does), changes a record, adds auto
fields, encrypts, checks, and writes if the check finds nothing or is not made
(`Save`). A descriptor is a sequence of parsed directives; a value is an integer, a
word, something encrypted or a text that looks so. `ToInt` and `ToSize` keep the
width of `int` and `size_t`. Loops over descriptors, records and fields are
recursive functions over the positions that they have passed. In `RecCrypt` a buffer is a sequence of bytes with the
checksum and the padding in place, because the decryption finds its length with
`strlen`; the cipher itself is a key that fits or not. `Sound` is the reference for
the check, written from the manual and the comments and not from the checks: limits
of `%size` are those that are written, and a reference to a record set without a key
is satisfied by every value.

### RecCodec, RecFex, RecTypes, RecCsv, RecSyntax

These are pure functions on texts, and they are translated as operators: a
parser returns whether it succeeded, what it has read, and the position behind it.
`RecSyntax` is the state machine that writes inputs: a topic, and words from which
a text is put together, so that TLC visits every input up to a length. The
properties relate two functions of the code (writer and parser, check and parser,
`rec2csv` and `csv2rec`), or one of them to a reference definition. Numbers go through
`rec_atoi` with the two widths they have there: `strtol` gives the nearest `long`, and the
conversion to `int` keeps the lower bits. The reference definitions are about what is
written, for numbers that fit an `int`; of the others `ValueOrder` says that they are
ordered by what is left of them. A regular expression written by the user is text
of which only one thing is known, whether `regcomp` accepts it (`regcomp`, external:
here, whether its parentheses are closed); `RegexpMeaning` says with sets of places
which delimiter ends it. `rec2csv` collects the columns with `rec_fex_append`, which
refuses more than `FexMaxElems` of them, and goes on; `CsvRoundTrip` says which columns
are left.

### RecQuery

`rec_db_query` is one action with all its parameters: selection by index, expression,
quick string or random numbers, field expression with subscripts, aliases and
aggregates, grouping, sorting, unique fields, join, descriptor. `Recsel` makes one
query and ends; a program that uses the library makes several on the same
database, which the queries leave sorted and grouped, with counters that a sort
doubles. Values are numbers and words with their two orders, numeric and
lexicographic; a selection expression is reduced to a name and a value, since
`RecSex` has the rest.

## Runs

Passing runs:

| Run | Instance | Shows |
|-----|----------|-------|
| `mset_traverse` | 4 data, 2 types, all clients that do not sort | counters exact, traversal complete, no abort, removals precise |
| `mset_sort` | 3 data, two with equal keys and one without, inserted anywhere, copied, sorted and removed by position | stable sort, comments first |
| `read_files` | every one or two files of up to 6 lines together, 2 types | nothing lost, exact round trip, also after a sort; order of the command line |
| `db_ops` | typed and anonymous records, 3 elements, 2 items per record | what is written is read back with its type, whatever the operations, and keeps its comments |
| `util_any` | 2 commands of any kind on any file or none, crashes, full disk | the abstract file is implemented, the file stays, every command ends |
| `util_checked` | 3 checked commands on a file of up to 2 records, crashes | complete and sound file, no lost update or permission in sequence |
| `sex_eval` | every operator on pairs of leaves of every kind, and compound expressions on two records in sequence | selected if and only if one field satisfies the expression; never without a witness; comparisons are orders; text of a fresh evaluation |
| `int_check` | descriptors of one to three directives out of 29, external descriptors, foreign keys; 2 records, 2 commands | the check is exact but for two cases, restores what it merged, encryption is undone for exactly the recoverable values, descriptors stay, auto numbers are new |
| `text` | inputs of up to 7 words for seven topics | round trips of values and records, and of CSV up to the largest number of columns; field expressions that are accepted can be parsed, printed and sorted; type descriptions of every kind mean what they say; typed values are totally ordered, and numbers that fit an `int` as numbers; templates are not rescanned |
| `query` | up to 3 records of R, a referred set S, 2 queries in sequence out of 40 | joins and groups are the relational ones, random selections exact, aggregates those of the concatenation, no field lost |

Two runs each show a disagreement between the code and the manual or a comment,
with the quotation in `findings` of `PROJECT.json`:

* `util_sort`: a sort doubles the counters, so the check of `recfix --sort`
  accepts a database with too few records;
* `query_aggregates`: the average over a record set is the average of the averages
  of its records.

### Other disagreements

The following definitions state what a document or a comment says, and TLC
refutes each of them as an INVARIANT of the run named here:

| Definition | Run | What happens |
|------------|-----|--------------|
| `FilesProcessed` | `read_files` | a second file with anonymous records is read only up to its first descriptor |
| `DescriptorWritten` | `read_files` | `recfix --sort` does not write a descriptor that follows the last comment of a record set without records |
| `CommentsSurvive` | `db_ops` | a file that holds only comments is read as an empty database |
| `DescriptorRenamed` | `db_ops` with `Names = {F, G}`, `TypeArgs = {T}`, `MaxElems = 2` | a field that the first record lacks is not renamed in the descriptor |
| `AttributesRestored` | `util_checked` | overlapping commands make the permissions of a temporary file permanent |
| `EveryCombinationTried` | `sex_eval` | two names with several fields each are not tried in all combinations |
| `SizeLimitsHold` | `int_check` | the limit of `%size: < 0` wraps around to the largest `size_t` (`src/src/rec-rset.c:1173`), so that any number of records passes the check; `src/doc/recutils.texi:3093` says that `%size` limits it |
| `KeylessAccepted` | `int_check` | a value that refers to a record set with types and no key stops the check, which compares a NULL key with the names of fields (`src/src/rec-int.c:286`); the comment at line 272 says that the type is checked if and only if there is a key |
| `RightKeyDecrypts` | `int_check` | a checksum with a zero byte makes the right password fail (`src/src/rec-crypt.c:246`); `src/doc/recutils.texi:4206` says that the correct password decrypts |
| `NumericFieldsOrdered` | `text` | values such as `2 ` are accepted as integers and not compared as numbers |
| `JoinSkipsKeyless` | `query` | a record without a key ends the scan of a join |

The passing properties leave out exactly these cases: `RoundTrip` and
`SortedRoundTrip` say which files, `Fragile` (RecSyntax) which values,
`KeysComplete` (RecQuery) which record sets, `Regular` (RecSex) which expressions,
`BelowZero` and `RefersToKeyless` (RecInt) which record sets. For a reference to a
record set without a key, `CheckExact` still says that what passes is sound.
`EncryptReversible` leaves out no plain value: `Recoverable` (RecCrypt) says which
come back, and the property says that these do and that no others do. It is about files
in which nothing confidential is encrypted with the same password already.

One more disagreement is a guard of the model. A `%key` without a name is ignored
according to the comment at `src/src/rec-rset.c:1297`, but the code looks for the
properties of a NULL name, and the program ends while it loads the file. The commands
of `RecInt` are about files that can be loaded (`Loadable`), and a remote
descriptor with such a `%key` is not merged.

The modules also contain behaviour for which there is no property of its own: the branch of
`rec_mset_insert_after` that adds the wrong element (`InsertAfter` with
`"foreign"` in `Calls`), a truncated file that is renamed after a failed write
(`WriteSome`), records that `recset` leaves without fields (`Changed`), a join with
a record set without a key, which is reported as lack of memory, and a random
selection from an empty record set, which divides by zero (`rec_db_query`).

### Bounds

* `Mset`: three elements are needed for a stale node in the middle of a list,
  four for a removal on each side of it, which is what `mset_traverse` has.
  `mset_sort` has the three that a violation of stability takes, two equal ones
  around another. `CountBound` stops repeated sorts, each of which doubles the
  counters; it allows three elements to be sorted once and fewer several times.
  `SIZE_MAX` is just large enough for the total not to wrap around.
* `RecRead`: a comment, a descriptor, a record and the blank lines that separate
  them are five lines; six hold two record sets, or comments on both sides
  of a descriptor.
* `RecDb`: three elements allow a comment before a descriptor, one
  behind it, and a record; two items are a field and its second occurrence, or a
  comment.
* `RecUtil`: two processes are enough for every pair of steps to interleave;
  three are used where the state space allows. `MinRecords` and `MaxRecords`
  lie inside of the numbers of records reached, and a file starts with at most two
  records (`MaxInit`), so that one command can leave the limits and another one
  come back.
* `RecSex`: records of up to four fields have a name three times, or two names
  twice; two records in sequence show what the first leaves in the tree. `Junk` has a
  false and a true value.
* `RecInt`: `IntMax` is 3 and `SizeMax` 15, so that two insertions reach the largest
  `int` and `%size: < 0` wraps around, which is the only way to pass with too many
  records (`SizeLimitsHold`). Blocks of 4 bytes, keys of 2 and checksums of
  2 give values with and without padding, and passwords that are repeated. Two
  commands are an encryption and its decryption, or two insertions.
* `RecStr`: an `int` and a `long` are as wide as `IntMax` and `LongMax` say, 31 and 1023
  in `text`, 127 and 511 in `sex_eval`: small enough for TLC, whose own integers have
  32 bits, and with numbers among the words on each side of both: 65, 40 and 257
  lose their upper bits, and -99999 and 700 are cut off by `strtol`. The real widths are
  as much powers of two as these.
* `RecCsv`: `FexMaxElems` is 3, so that five words of CSV can have a column too many.
* `RecSyntax`: seven characters hold a value of three lines with continuation
  marks and backslashes; three values are what transitivity takes; five words of CSV
  are two records with a repeated name.
* `RecQuery`: three records are two of a group around another one; two queries
  are a sort and what meets its result.

Data, and processes with the same set of commands, are interchangeable where the
configurations declare a symmetry; no liveness property is checked with one.
Deadlock is not an error in the runs of systems that come to an end: a file is
read, an input is as long as it may be, or all the commands have run.

### Fairness

Only `RecUtil` needs it. Each process is weakly fair (`WF_vars(Step(p))`): the
operating system runs a command that can take a step. Being killed is not
fair, and a process that has not started is assumed to start. Under this
assumption `AllEnd` holds: no command waits for another one. The library is
sequential and its loops are over finite lists, so there is no scheduling to assume
anything about.

## Proofs

Each theorem is about the specification with any values of its constants that
satisfy the assumptions. Most properties are not inductive; what follows says which
invariant is, and why.

`SeqLemmas` has the facts that several proofs need: induction over the natural
numbers and up to a bound, stated for sets so that no operator is a parameter;
the existence of a function defined by recursion over `0..N`; positions and
elements after `InsertAt`, `RemoveAt`, `Append`; and `FlattenSeq`, whose recursive
definition is unfolded once (`FlattenIs`) and then used through what it does to a
concatenation, and where the members of the pieces are in the whole.

**Multi-set.** `MsetProofs` has three layers. `ListInv` holds for every client: no
element is stored twice, stored elements are those with a type, the current element
of a loop knows its position (which holds since `rec_mset_iterator_next` refreshes
it, and fails for any other element), and the iterator has missed at most one
removal. `RemovalIsPrecise` follows from it even for clients that sort. For clients
that do not sort (`TotalClients`), the total is exact (`TotalIsExact`), although
`rec_mset_remove_at` may remove another element than the one it has found. For
clients that do not remove by position either (`CountingClients`), `MsetInv` adds
the counters of the types, and `CountsAreExact` and `NoAbort` follow.
A second part proves that the binary search of gnulib, whose comparison never
says that two elements are equal, ends behind all the elements that are not greater
(the window invariant of `Windows`), that inserting there keeps the list sorted up to
that point (`SortedUpTo`), and so that `SortIsStable`. A third part proves
`TraversalIsExact`: what was returned is the beginning of the plan, and the k-th
element ahead of the iterator is the k-th of the rest (`TraversalInv`); the lemmas
count the places of a set of elements up to one of them, as the list shifts.

**Reading and writing.** `RecReadProofs` is about files of any length. The parser
invariant `Parsed` says that the lines of the part of the file that has been read are
those of the record sets that were completed, then those of the record set that
is being parsed, then those of its last record; it also says when a comment can
continue the last item, and that only the first record set of a file can be
anonymous. Two sets of lemmas carry it: how the lines that the writer would write
change when a record, a comment, a line of a comment or a descriptor is added
(`RsetAppend`, `RsetAddText`, `RsetDescribed`, `DbAppend`), where the descriptor's place
among the elements matters, and what a line and the end of the file do to the
parser (`ParseLineParsed`, `ParseEofParsed`). `NothingIsLost` follows for the first
file, since its record sets never meet another one of their type without an error
(`OneFileAdds`). For any number of files, `OrderIsKept` rests on `OrderInv`: the
line numbers of what each record set holds rise (`Rises`), those of the file that is
being read are above those of the files before it, and until the parser has completed
a record set everything in the database comes from earlier files. This is why the
elements of anonymous records can be appended to those already there.

That a database is read back as it was written takes the other direction.
`RecTextProofs` runs the parser over a concatenation (`ParseLinesConcat`) and says what
it makes of the text of one item, of a record, of an element, of a descriptor and of
a record set, each from the state in which the text before has left it
(`RecordRead`, `ElemRead`, `DescRead`, `RsetWritten`); `DbReadBack` puts
these together: every database with a certain form is what the parser makes of
what the writer writes. The form is `CanonicalDb`: in no record do two comments
follow each other, which the parser would join, what precedes a descriptor is
comments, a record set but the first has its descriptor in front, and
every record set has a descriptor or a record. It is not a property of all databases, so
the theorem about files needs to know that reading produces it. `ReadBackInv` says so,
with what the parser holds between two lines (`CanonicalParser`), whence
`WrittenIsReadBack`. For `SortedIsReadBack` the lemmas describe what `rec_rset_sort` makes of
the elements: comments first, then the records, so that the descriptor can only
be lost where `SortedRoundTrip` says.

**Database operations.** `RecDbProofs` proves the three properties of `RecDb` for any
sequence of operations on databases of any size. They are about what the parser makes of
the database when it is written, although the database may not have the form above: a
deletion can leave comments side by side and records without fields. The proof
therefore follows the parser over the text with a weaker relation: `At(t, p, Q, T, c, r)`
says that with the lines `t` the parser has come to a state with the fields `Q` of the
records of one type, the text `T` of the comments, and the current type `c`, and
`Turns` what the text of an element, a descriptor and a record set adds to
these. The inductive invariant is `DbInv`, that is `Sane(db)`: a database is a
sequence of record sets with elements of the right form, only the first record set
may lack a descriptor, no two are of the same type, what precedes a descriptor is
comments, and no record has a `%rec` field of its own. Each part is needed: a record set without a
descriptor is read as part of the one before it, and a record before a descriptor gets
another type. `Like` says which changes of one record set keep this, and every
operation is shown to be made of such changes (insertion, the loops of deletion
and `recset`, renaming in the descriptor). With it, `RecordsAreReadBack`,
`InsertedIsLast` and `CommentsAreKept` are about the lines of one database.

**Utilities.** `RecUtilProofs` proves, for any number of processes, any limits and any
initial files, that the file is complete at every moment while no write was cut short
(`FileAlwaysWhole`), that checked commands keep a sound file sound
(`IntegrityAlwaysKept`), that commands run in sequence lose no change and no permission
(`SequentialUpdatesKept`, `SequentialAttributesKept`), and that the file never goes
away (`FileAlwaysStays`). The file is only ever replaced by a temporary one,
which is a copy of what is in memory, which was read from the file and checked:
`UtilInv` states each property for all three places (`WholeInv`, `ParsesInv`,
`SoundInv`). For sequences of commands `AloneInv` says that at most one is running
and that what it holds includes the changes of all those that have ended well,
and `AttrInv` that it knows the attributes of the file that it is going to replace.
A sorted database is checked with a wrong count, but sorting does not change
the number of records, so `SoundInv` survives it. A second part proves the
refinement (`UtilitiesImplementFile`): with `FileInv`, which says what a command holds
at each point, every step of `RecUtil` is a step of `RecFile` or leaves its variables
alone.

**Integrity.** `RecIntProofs` first proves that each loop of the model, a recursive
function over positions, returns a descriptor, a record or a file of the right
form, and from this `FileAlwaysTyped`. `DescriptorsKept` then takes that the check
works on a copy of the descriptors and that no other step of a command writes
one. For `NumbersStayDifferent`, the number that `recins` and `recfix --auto` add is
above all those that the field has in the file, while those are small enough
(`NumbersFit`); the records that have a number keep it, which is what makes a
loop that adds several numbers safe. `EncryptionReversible` follows a value through
padding, checksum, prefix and back: the zero byte behind the checksum is where
`strlen` stops, and the padded value is an entire number of blocks. It says both that
a file comes back and when it does not (`BufferDecrypts`): a value must not be empty,
its checksum must have no zero byte, and there must be padding or, by chance, a zero
byte behind the buffer (`after`), which a value that fills its blocks does not have of its
own. From values it goes to records and files, where one field that does not come back
is enough (`RecordBack`, `FileBack`). For
`MergeIsForgotten` the properties of a field after a scan of a descriptor are given
by what the descriptor says of it (`Means`): key and auto if some directive names it,
the type that the last directive gives, and, if none does, the name of a type
that was there before the scan. That name is the only thing a second scan depends
on; it is empty in a record set as it was read (`FirstSettled`), and a merge gives
one to no field but those that the external descriptor names (`MergedSettled`). The
key is the same although the list of properties has other fields in front, because
a descriptor that passed the check has one `%key`, and a `%key` names one field.

**Queries.** `RecQueryProofs` is about any databases and queries. A query works on the
record sets in place, so that what it leaves behind is the next query's input: the
invariant is `QueryInv`, that the database consists of records with at least one
field, which sorting, grouping and joining keep. Everything else is counting: `CountIn(s, X)` is
how many elements of a sequence are in a set, and there is a lemma on what it is for a
concatenation of pieces (`FlattenCount`), for the elements that pass a test
(`KeepCount`) and after an insertion (`InsertCount`). Then a sort counts the same for
every set (`SortKeepsRecords`), a grouping for every set of fields it does not group by
(`GroupKeepsFields`), whence `QueriesKeepFields`. For `RandomIsExact` each
draw adds a new number to the index or there is none left (`IndexStep`), so that
the index has `min(num, limit)` numbers of records. For `JoinIsExact` the
scan for the first key of the referred records finds each record with a key among
the foreign keys (`ScanIs`), and the scans for the further ones, of which there is one
for each foreign key of the record, end at once because each record has only
one key; a join so counts as many records in a set as there are pairs that become a
member of it (`JoinCount`). `AggregatesAreOfConcatenation` needs that the
steps of the sum, the minimum and the maximum commute and associate on the values
that occur, and that the start of the fold is neutral to itself (`Collects`): for the
maximum these values are the integers and `DBL_MIN`, which lies between 0 and 1. Sums are exact here,
as they are for doubles as long as the numbers are small integers. The average does not have this
property, which `query_aggregates` shows.

The assumptions are those that the modules state: `MsetAssumption` (finite sets,
counters that do not overflow), `RecUtilAssumption` (initial files are complete, and
no file is none of them), `RecTextAssumption` (`None` is neither contents nor a sequence
of items), `RecReadAssumption` and `RecDbAssumption` (names, values and line numbers are
contents; `%rec` and `%key` are different from each other and from the names of
ordinary fields), `DatabasesAssumption` and `QueriesAssumption` (records have fields, names have
parts, and a query has the parameters of `rec_db_query`), `IntAssumption`, `FilesAssumption` and `CryptAssumption` (passwords are not
empty, files, external descriptors and records have their form, a `%key` names at most one field as the code takes one name of it, sizes are positive). `EncryptionReversible`
has one more hypothesis, `BytesAreStrings`: a plain value holds no zero byte, as
a string of C does not, and a checksum has its size. That the value is recoverable is no
hypothesis: the theorem is an equivalence. TLC cannot evaluate it as an
assumption, because it is about all values.

Only model-checked:

* `CheckExact`, which needs an induction over chains of type names.
* `GroupExact`, which needs that the comparison of records is an order. It is one only on
  the texts in use: it says of two records without the field that the one is less
  than the other, and of the other that it is less than the one.
* Everything in `RecSex`, `RecTypes`, `RecCodec`, `RecFex`, `RecCsv` and `RecSyntax`:
  `RecStr` and `RecRegex` declare recursive operators, about which tlapm cannot
  reason, and so every module that extends them stays with TLC.
* `AllEnd`, a liveness property that needs fairness.

## Not modelled

Memory exhaustion and memory safety (fixed buffers for names, regular expressions
and the elements of a field expression that is parsed); the lexer and the grammar of selection
expressions, which are generated; option parsing, prompts and messages of the
utilities; a query with a password; `recinf`, which only prints; `mdb2rec`, whose input
comes through a library; the bash builtins and the Python bindings, which wrap the
library; the declarations of `rec.h`. `gnulib`, `libgcrypt`, `regcomp` and `libuuid`
belong to other projects; so does the parser of dates, of which `@` and a number of
seconds is modelled; the modules have what the code relies on, marked external.
Of `libcsv`, a copy of another project that is part of the repository, `RecCsv` has
the parser in the mode `csv2rec` uses it.

## Plan

1. `CheckExact`: what a scan means (`Means`) is half of it; the other half are the
   chains of type names.
2. `GroupExact`: the order that the comparison is on keys cut off at the first missing
   field, and the neighbours in a list that is sorted by it.
3. `RecSex` and `RecTypes`: the string helpers as recursive functions, so that tlapm
   can reason about the modules that use them.
4. A refinement that replaces the number of records of `RecUtil` by the databases of
   `RecInt`.
