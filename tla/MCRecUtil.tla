----------------------------- MODULE MCRecUtil -----------------------------
(* Instances of RecUtil for TLC. *)
EXTENDS RecUtilFile, TLC

CONSTANT MaxInit  \* the records of the largest initial file

NewFile(n, s) ==
  [data |-> [n |-> n, size |-> "given", syntax |-> s, extent |-> "all",
            by |-> {}],
   mode |-> Mode]

\* No file, one that parses and one that does not.
AnyFile == {NoFile} \cup {NewFile(MaxInit, s) : s \in {"ok", "error"}}
GoodFile == {NewFile(n, "ok") : n \in 0..MaxInit}

\* Every command; recfix looks at --force only when it encrypts.
AnyCommand ==
  {c \in AllCommands : c.name \in {"sort", "auto", "check"} => ~c.force}

Checked == [name : {"recins", "recdel", "sort", "check"},
            force : {FALSE}]
Sorting == [name : {"sort"}, force : {FALSE}]

Symmetry == Permutations(Procs)

=============================================================================
