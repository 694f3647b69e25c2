------------------------------ MODULE RecUtil ------------------------------
(***************************************************************************)
(* The utilities that rewrite a recfile: recins, recdel, recset and the    *)
(* operations of recfix, run concurrently on the same file.  Each command  *)
(* reads the file, changes the database in memory, checks its integrity    *)
(* and replaces the file: recutl_read_db_from_file,                        *)
(* recutl_check_integrity, recutl_file_is_writable and                     *)
(* recutl_write_db_to_file of src/utils/recutl.c, called in the order of   *)
(* the main functions of src/utils/rec{ins,del,set,fix}.c.                 *)
(*                                                                         *)
(* A file is the number of its records, whether their descriptor is there, *)
(* with a %sort and the %size that stands for the integrity rules, whether *)
(* the file parses, whether it is a complete version, and the commands     *)
(* whose changes it holds.                                                 *)
(* Files are replaced and never written in place, so that reading one is a *)
(* single step.  A command may be killed at any of its steps.              *)
(***************************************************************************)
EXTENDS Integers, FiniteSets

CONSTANTS
  Procs,       \* the processes, each of which runs one command
  Commands,    \* the commands the user may give
  MinRecords,  \* rec_rset_min_records
  MaxRecords,  \* rec_rset_max_records
  Mode,        \* the permissions of the file of the user
  TmpMode,     \* the permissions mkstemp gives
  NoFile,      \* there is no file
  InitFiles,   \* the files the commands may start from
  Writable,    \* the user has write permission on the file
  DiskFull,    \* writing may fail
  MayCrash     \* a command may be killed

\* A command is a utility, or an operation of recfix, and its --force.
AllCommands ==
  [name : {"recins", "recdel", "recset", "sort", "auto", "crypt", "check"},
   force : BOOLEAN]
Contents == [n : Nat, size : {"given", "none"}, syntax : {"ok", "error"},
             extent : {"all", "part"}, by : SUBSET Procs]
Files == [data : Contents, mode : {Mode, TmpMode}]

ASSUME RecUtilAssumption ==
  /\ Commands \subseteq AllCommands
  /\ MinRecords \in Nat /\ MaxRecords \in Nat
  /\ NoFile \notin Files \cup Contents \cup {Mode, TmpMode}
  /\ InitFiles \subseteq Files \cup {NoFile}
  /\ \A f \in InitFiles \ {NoFile} : f.data.extent = "all" /\ f.data.by = {}
  /\ Writable \in BOOLEAN /\ DiskFull \in BOOLEAN /\ MayCrash \in BOOLEAN

VARIABLES
  file,     \* the file of the command line
  first,    \* history: the file the commands started from
  cmd,      \* cmd[p]: the command of process p
  pc,       \* pc[p]: its next step
  mem,      \* mem[p]: the database in memory
  saved,    \* saved[p]: st1.st_mode, or NoFile when stat failed
  tmp,      \* tmp[p]: its temporary file, or NoFile
  exit,     \* exit[p]: its exit status, -1 while it runs
  cut,      \* history: the commands that could not write everything
  alone     \* history: no command started while another one was running

vars == <<file, first, cmd, pc, mem, saved, tmp, exit, cut, alone>>

\* rec_db_new: no record and no descriptor.
Empty == [n |-> 0, size |-> "none", syntax |-> "ok", extent |-> "all",
          by |-> {}]

Init ==
  /\ file \in InitFiles /\ first = file
  /\ cmd \in [Procs -> Commands] /\ pc = [p \in Procs |-> "start"]
  /\ mem = [p \in Procs |-> Empty]
  /\ saved = [p \in Procs |-> NoFile]
  /\ tmp = [p \in Procs |-> NoFile]
  /\ exit = [p \in Procs |-> -1]
  /\ cut = {} /\ alone = TRUE

Running(p) == pc[p] \notin {"start", "ended", "killed"}
Goto(p, l) == pc' = [pc EXCEPT ![p] = l]
Exit(p, status) == /\ Goto(p, "ended")
                   /\ exit' = [exit EXCEPT ![p] = status]

\* rec_int_check_rset: the number of records against %size, if it is given.
Sound(size, n) == size = "given" => MinRecords <= n /\ n <= MaxRecords

---------------------------------------------------------------------------
\* recutl_read_db_from_file.  When it fails, because there is no file or
\* it does not parse, recins goes on with an empty database and the other
\* commands exit.
Readable == file # NoFile /\ file.data.syntax = "ok"

Read(p) ==
  /\ pc[p] = "start"
  /\ alone' = (alone /\ \A q \in Procs : ~Running(q))
  /\ IF Readable
     THEN /\ mem' = [mem EXCEPT ![p] = file.data]
          /\ Goto(p, "change") /\ UNCHANGED exit
     ELSE IF cmd[p].name = "recins"
     THEN Goto(p, "change") /\ UNCHANGED <<mem, exit>>
     ELSE Exit(p, 1) /\ UNCHANGED mem
  /\ UNCHANGED <<file, first, cmd, saved, tmp, cut>>

\* The numbers of records the change of p can leave: recins appends or
\* replaces, recdel deletes records, recset may delete all the fields of a
\* record, which is none any more in the file, the others keep the number.
Changed(p, n) ==
  CASE cmd[p].name = "recins" -> {n, n + 1}
    [] cmd[p].name \in {"recdel", "recset"} -> 0..n
    [] OTHER -> {n}

\* The number of records the check sees when the change of p turned m
\* records into n: rec_mset_sort has counted every element twice, and a
\* record that lost its fields is still counted.
Counted(p, m, n) ==
  CASE cmd[p].name = "sort" -> 2 * n
    [] cmd[p].name = "recset" -> m
    [] OTHER -> n

\* Slip: what recdel leaves is not checked.
ChecksNotDeletions(p) ==
  \/ cmd[p].name \in {"sort", "auto", "check"}
  \/ cmd[p].name \in {"recins", "recset"} /\ ~cmd[p].force

\* rec_int_check_db is run unless --force is given; recfix checks always
\* when it sorts or adds auto fields, and never when it encrypts.
Checks(p) == \/ cmd[p].name \in {"sort", "auto", "check"}
             \/ cmd[p].name \in {"recins", "recdel", "recset"} /\ ~cmd[p].force

\* The operation, and the integrity check that follows it.
Change(p) ==
  /\ pc[p] = "change"
  /\ \E n \in Changed(p, mem[p].n) :
       /\ mem' = [mem EXCEPT ![p] = [mem[p] EXCEPT !.n = n, !.by = @ \cup {p}]]
       /\ IF Checks(p) /\ ~Sound(mem[p].size, Counted(p, mem[p].n, n))
          THEN Exit(p, 1)
          ELSE IF cmd[p].name = "check" THEN Exit(p, 0)
          ELSE Goto(p, "access") /\ UNCHANGED exit
  /\ UNCHANGED <<file, first, cmd, saved, tmp, cut, alone>>

\* There is no record set of the type: recdel exits, and recset dereferences
\* NULL.  recfix --encrypt finds encrypted fields and is not forced.
NoChange(p) ==
  /\ pc[p] = "change"
  /\ \/ cmd[p].name = "recdel" /\ Exit(p, 1)
     \/ cmd[p].name = "recset" /\ Goto(p, "killed") /\ UNCHANGED exit
     \/ cmd[p].name = "crypt" /\ ~cmd[p].force /\ Exit(p, 1)
  /\ UNCHANGED <<file, first, cmd, mem, saved, tmp, cut, alone>>

\* Slip: a command waits until its file is writable.
AccessWaits(p) ==
  /\ pc[p] = "access"
  /\ cmd[p].name \in {"auto", "crypt"} \/ (file # NoFile /\ Writable)
  /\ Goto(p, "stat")
  /\ UNCHANGED <<file, first, cmd, mem, saved, tmp, exit, cut, alone>>

\* recutl_file_is_writable: euidaccess fails for a file that is missing.
\* recfix asks only before it writes a sorted file.
Access(p) ==
  /\ pc[p] = "access"
  /\ IF cmd[p].name \in {"auto", "crypt"} \/ (file # NoFile /\ Writable)
     THEN Goto(p, "stat") /\ UNCHANGED exit
     ELSE Exit(p, 1)
  /\ UNCHANGED <<file, first, cmd, mem, saved, tmp, cut, alone>>

\* recutl_write_db_to_file: the attributes of the file are recorded.
Stat(p) ==
  /\ pc[p] = "stat" /\ Goto(p, "write")
  /\ saved' = [saved EXCEPT ![p] = IF file = NoFile THEN NoFile ELSE file.mode]
  /\ UNCHANGED <<file, first, cmd, mem, tmp, exit, cut, alone>>

\* Slip: the file is written in place, before it is renamed.
WriteInPlace(p) ==
  /\ pc[p] = "write" /\ Goto(p, "rename")
  /\ tmp' = [tmp EXCEPT ![p] = [data |-> mem[p], mode |-> TmpMode]]
  /\ file' = [data |-> [mem[p] EXCEPT !.extent = "part"], mode |-> Mode]
  /\ UNCHANGED <<first, cmd, mem, saved, exit, cut, alone>>

\* Slip: the old file is removed before the new one is renamed.
WriteAndRemove(p) ==
  /\ pc[p] = "write" /\ Goto(p, "rename")
  /\ tmp' = [tmp EXCEPT ![p] = [data |-> mem[p], mode |-> TmpMode]]
  /\ file' = NoFile
  /\ UNCHANGED <<first, cmd, mem, saved, exit, cut, alone>>

\* mkstemp, rec_write_db and fclose: everything is written to a temporary
\* file.
Write(p) ==
  /\ pc[p] = "write" /\ Goto(p, "rename")
  /\ tmp' = [tmp EXCEPT ![p] = [data |-> mem[p], mode |-> TmpMode]]
  /\ UNCHANGED <<file, first, cmd, mem, saved, exit, cut, alone>>

\* mkstemp fails: the directory is not writable.
NoTempFile(p) ==
  /\ pc[p] = "write" /\ Exit(p, 1)
  /\ UNCHANGED <<file, first, cmd, mem, saved, tmp, cut, alone>>

\* Some first part of a database: the first records, perhaps not even all of
\* the descriptor, and perhaps half a line.
FirstPart(c, n, z, s) ==
  [c EXCEPT !.n = n, !.size = z, !.syntax = s, !.extent = "part"]

\* The disk is full: some first part of the database is written, and the
\* result of rec_write_db and of fclose is not looked at.
WriteSome(p) ==
  /\ pc[p] = "write" /\ DiskFull /\ Goto(p, "rename")
  /\ \E n \in 0..mem[p].n, z \in {mem[p].size, "none"},
        s \in {"ok", "error"} :
       tmp' = [tmp EXCEPT ![p] = [data |-> FirstPart(mem[p], n, z, s),
                                  mode |-> TmpMode]]
  /\ cut' = cut \cup {p}
  /\ UNCHANGED <<file, first, cmd, mem, saved, exit, alone>>

\* rename replaces the file.
Rename(p) ==
  /\ pc[p] = "rename" /\ Goto(p, "chmod")
  /\ file' = tmp[p]
  /\ tmp' = [tmp EXCEPT ![p] = NoFile]
  /\ UNCHANGED <<first, cmd, mem, saved, exit, cut, alone>>

\* Slip: the result of rename is not looked at.
RenameFailsSilently(p) ==
  /\ pc[p] = "rename"
  /\ tmp' = [tmp EXCEPT ![p] = NoFile] /\ Exit(p, 0)
  /\ UNCHANGED <<file, first, cmd, mem, saved, cut, alone>>

\* rename fails (the temporary file is made in the current directory,
\* which may be on another file system): it is removed.
RenameFails(p) ==
  /\ pc[p] = "rename"
  /\ tmp' = [tmp EXCEPT ![p] = NoFile] /\ Exit(p, 1)
  /\ UNCHANGED <<file, first, cmd, mem, saved, cut, alone>>

\* Slip: the attributes are not restored.
ChmodForgotten(p) ==
  /\ pc[p] = "chmod" /\ Exit(p, 0)
  /\ UNCHANGED <<file, first, cmd, mem, saved, tmp, cut, alone>>

\* The attributes are restored, and the command exits with EXIT_SUCCESS.
Chmod(p) ==
  /\ pc[p] = "chmod" /\ Exit(p, 0)
  /\ file' = IF saved[p] = NoFile THEN file
             ELSE [file EXCEPT !.mode = saved[p]]
  /\ UNCHANGED <<first, cmd, mem, saved, tmp, cut, alone>>

\* The command is killed.  A machine that stops may lose more: nothing
\* calls fsync, so that a renamed file need not be on the disk yet.
Kill(p) ==
  /\ MayCrash /\ Running(p) /\ Goto(p, "killed")
  /\ UNCHANGED <<file, first, cmd, mem, saved, tmp, exit, cut, alone>>

Step(p) == \/ Read(p) \/ Change(p) \/ NoChange(p) \/ Access(p) \/ Stat(p)
           \/ Write(p) \/ NoTempFile(p) \/ WriteSome(p) \/ Rename(p)
           \/ RenameFails(p) \/ Chmod(p)

Next == \E p \in Procs : Step(p) \/ Kill(p)

\* A command that was started is run by the operating system to its end.
Spec == Init /\ [][Next]_vars /\ \A p \in Procs : WF_vars(Step(p))

---------------------------------------------------------------------------
(* Properties *)

TypeOK ==
  /\ file \in Files \cup {NoFile} /\ first \in Files \cup {NoFile}
  /\ cmd \in [Procs -> Commands]
  /\ pc \in [Procs -> {"start", "change", "access", "stat", "write",
                       "rename", "chmod", "ended", "killed"}]
  /\ mem \in [Procs -> Contents]
  /\ saved \in [Procs -> {Mode, TmpMode, NoFile}]
  /\ tmp \in [Procs -> Files \cup {NoFile}]
  /\ exit \in [Procs -> {-1, 0, 1}]
  /\ cut \in SUBSET Procs /\ alone \in BOOLEAN

\* As long as no write was cut short by a full disk, the file is at every
\* moment a complete version, although commands overlap and are killed
\* halfway (recutl_write_db_to_file writes a temporary file and renames it).
FileWhole == cut = {} /\ file # NoFile => file.data.extent = "all"

\* A file whose database is sound keeps its rules and stays sound, as long as every command checks
\* what it writes: none has --force or encrypts, or removes fields (recutl_check_integrity is
\* the last thing before the write, and what it checked is what is written,
\* although other commands replace the file in between).
AllCheck == \A c \in Commands : ~c.force /\ c.name \notin {"crypt", "recset"}
IntegrityKept ==
  /\ AllCheck /\ cut = {}
  /\ first # NoFile /\ first.data.syntax = "ok"
  /\ Sound(first.data.size, first.data.n)
  => /\ file.data.size = first.data.size
     /\ Sound(file.data.size, file.data.n)

\* A temporary file is left only by a command that is running or was
\* killed, and each command has its own.
NoTempLeft ==
  \A p \in Procs : tmp[p] # NoFile => pc[p] \in {"rename", "killed"}

\* Commands that are run one after the other lose no change: the file holds
\* the changes of every command that ended well, when all of them could
\* read the file and write it.
Successful == {p \in Procs : exit[p] = 0 /\ cmd[p].name # "check"}
NoLostUpdate ==
  /\ alone /\ cut = {} /\ first # NoFile /\ first.data.syntax = "ok"
  => \A p \in Successful : p \in file.data.by

\* There is a file at every moment, once there is one.
FileStays == [][file # NoFile => file' # NoFile]_vars

\* Every command that is not killed and does not crash ends, with an exit
\* status.
AllEnd == \A p \in Procs : <>(pc[p] = "killed" \/ exit[p] # -1)

\* Commands that are run one after the other leave the file with the
\* permissions it had.
AttributesKept ==
  /\ alone /\ \A p \in Procs : pc[p] \in {"start", "ended"}
  /\ first # NoFile
  => file.mode = first.mode

---------------------------------------------------------------------------
(* The inductive invariants behind the proofs *)

\* The steps between reading the file and writing the temporary one.
Holds(p) == pc[p] \in {"change", "access", "stat", "write"}

\* A command about to rename has a temporary file, and there is a file
\* once a command has renamed its own.
TempInv ==
  /\ NoTempLeft
  /\ \A p \in Procs : pc[p] = "rename" => tmp[p] # NoFile
  /\ (\E p \in Procs : pc[p] = "chmod") => file # NoFile
  /\ first # NoFile => file # NoFile

\* Without a write cut short, whatever is in memory or in a file is complete.
WholeInv ==
  cut = {} =>
    /\ file # NoFile => file.data.extent = "all"
    /\ \A p \in Procs :
         /\ mem[p].extent = "all"
         /\ tmp[p] # NoFile => tmp[p].data.extent = "all"

\* A database that was read from a good file parses and, when every command
\* checks, is sound wherever it is; the check of a sorted database is wrong,
\* but the sort has not changed the number of its records.
GoodStart == cut = {} /\ first # NoFile /\ first.data.syntax = "ok"
SoundStart ==
  AllCheck /\ GoodStart /\ Sound(first.data.size, first.data.n)
SoundData(c) == c.size = first.data.size /\ Sound(c.size, c.n)
ParsesInv ==
  GoodStart =>
    /\ file.data.syntax = "ok"
    /\ \A p \in Procs :
         /\ mem[p].syntax = "ok"
         /\ tmp[p] # NoFile => tmp[p].data.syntax = "ok"
SoundInv ==
  SoundStart => /\ SoundData(file.data)
                /\ \A p \in Procs :
                     /\ Holds(p) => SoundData(mem[p])
                     /\ tmp[p] # NoFile => SoundData(tmp[p].data)

\* As long as no two commands overlap, what a command holds includes the
\* changes of all those that ended well, and its own once it made it.
ExitInv == \A p \in Procs : exit[p] # -1 => pc[p] = "ended"
HoldsAll(p) ==
  /\ Holds(p) => Successful \subseteq mem[p].by
  /\ pc[p] \in {"access", "stat", "write"} => p \in mem[p].by
  /\ pc[p] = "rename" => Successful \cup {p} \subseteq tmp[p].data.by
  /\ pc[p] = "chmod" => p \in file.data.by
AloneInv ==
  alone /\ GoodStart =>
    /\ \A p, q \in Procs : Running(p) /\ Running(q) => p = q
    /\ Successful \subseteq file.data.by
    /\ \A p \in Procs : HoldsAll(p)

\* As long as no two commands overlap and none was killed, the permissions
\* a command has recorded are those of the first file, and so are those of
\* the file unless a command is about to restore them.
AttrInv ==
  alone /\ first # NoFile =>
    /\ \A p, q \in Procs : Running(p) /\ Running(q) => p = q
    /\ (\A p \in Procs : pc[p] # "killed") =>
         /\ \A p \in Procs : pc[p] \in {"write", "rename", "chmod"} =>
                             saved[p] = first.mode
         /\ (\A p \in Procs : pc[p] # "chmod") => file.mode = first.mode

UtilInv ==
  /\ TypeOK /\ TempInv /\ WholeInv /\ ParsesInv /\ SoundInv
  /\ ExitInv /\ AloneInv /\ AttrInv

---------------------------------------------------------------------------
\* The comment of recutl_write_db_to_file: the attributes of the original
\* file are restored.  Here: once all the commands have ended, not killed.
AttributesRestored ==
  /\ \A p \in Procs : pc[p] = "ended"
  /\ first # NoFile
  => file.mode = first.mode

\* The manual on recfix --sort: if there is an integrity failure the
\* sorting is not performed.
SortedWhenSound ==
  [][\A p \in Procs : cmd[p].name = "sort" /\ Rename(p)
                         => Sound(mem[p].size, mem[p].n)]_vars

=============================================================================
