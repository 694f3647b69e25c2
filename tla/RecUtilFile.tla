---------------------------- MODULE RecUtilFile ----------------------------
(***************************************************************************)
(* The utilities implement the abstract file of RecFile: the temporary     *)
(* file, the checks, the permissions and the failures on the way are       *)
(* stuttering steps of it, and rename is the step that replaces the file.  *)
(***************************************************************************)
EXTENDS RecUtil

Version(f) == IF f = NoFile THEN NoFile ELSE f.data

\* The stage of a command that is at step l, and the version in its hands.
StageAt(l) ==
  CASE l = "start" -> "idle"
    [] l = "change" -> "taken"
    [] l \in {"access", "stat", "write", "rename"} -> "edited"
    [] OTHER -> "over"
WorkAt(l, c) == IF StageAt(l) \in {"taken", "edited"} THEN c ELSE Empty

\* A command may add a record, drop any number, and leaves its mark.
EditsOf(p, c) == {[c EXCEPT !.n = n, !.by = @ \cup {p}] : n \in 0..(c.n + 1)}

\* The whole version or, when the disk is full, some first part of it.
WrittenFor(c) ==
  {c} \cup
  {FirstPart(c, n, z, s) :
     n \in IF DiskFull THEN 0..c.n ELSE {}, z \in {c.size, "none"}, s \in {"ok", "error"}}

File ==
  INSTANCE RecFile
    WITH Initial <- {Version(f) : f \in InitFiles},
         Edits <- EditsOf, Written <- WrittenFor,
         content <- Version(file),
         stage <- [p \in Procs |-> StageAt(pc[p])],
         work <- [p \in Procs |-> WorkAt(pc[p], mem[p])]

\* Commands that overlap, fail and are killed at any step change the file
\* only by replacing it in one step with what they made of a version they
\* have read (recutl_write_db_to_file and the commands that call it).
ReplacesAtomically == File!Spec

\* What the refinement rests on besides UtilInv: a command starts with
\* nothing in its hands, and what it is about to install is what may be
\* written for its database.
FileInv ==
  \A p \in Procs :
    /\ pc[p] = "start" => mem[p] = Empty
    /\ pc[p] = "rename" => tmp[p].data \in WrittenFor(mem[p])

=============================================================================
