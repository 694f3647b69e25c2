--------------------------- MODULE RecUtilProofs ---------------------------
(***************************************************************************)
(* What RecUtil guarantees for any number of concurrent commands, any size *)
(* limits and any initial file.  The invariants are those of RecUtil: one  *)
(* lemma per invariant shows that a step keeps it.                         *)
(***************************************************************************)
EXTENDS RecUtilFile, TLAPS

\* The contents of a file after a change, and after a partial write.
LEMMA ContentsChanged ==
  ASSUME NEW c \in Contents, NEW n \in Nat, NEW p \in Procs
  PROVE  /\ [c EXCEPT !.n = n, !.by = @ \cup {p}] \in Contents
         /\ [c EXCEPT !.by = @ \cup {p}] \in Contents
<1>1. c.by \cup {p} \in SUBSET Procs
  BY DEF Contents
<1>2. QED
  BY <1>1 DEF Contents

LEMMA ContentsFields ==
  ASSUME NEW c \in Contents, NEW n, NEW p
  PROVE  /\ [c EXCEPT !.n = n, !.by = @ \cup {p}].n = n
         /\ [c EXCEPT !.n = n, !.by = @ \cup {p}].size = c.size
         /\ [c EXCEPT !.n = n, !.by = @ \cup {p}].extent = c.extent
         /\ [c EXCEPT !.n = n, !.by = @ \cup {p}].syntax = c.syntax
         /\ [c EXCEPT !.n = n, !.by = @ \cup {p}].by = c.by \cup {p}
         /\ [c EXCEPT !.by = @ \cup {p}].n = c.n
         /\ [c EXCEPT !.by = @ \cup {p}].size = c.size
         /\ [c EXCEPT !.by = @ \cup {p}].extent = c.extent
         /\ [c EXCEPT !.by = @ \cup {p}].syntax = c.syntax
         /\ [c EXCEPT !.by = @ \cup {p}].by = c.by \cup {p}
  BY DEF Contents

LEMMA ContentsCut ==
  ASSUME NEW c \in Contents, NEW n \in 0..c.n, NEW z \in {c.size, "none"},
         NEW s \in {"ok", "error"}
  PROVE  FirstPart(c, n, z, s) \in Contents
<1>1. n \in Nat
  BY DEF Contents
<1>2. QED
  BY <1>1 DEF Contents, FirstPart

\* A change leaves a number of records.
LEMMA ChangedNat ==
  ASSUME NEW p, NEW m \in Nat, NEW n \in Changed(p, m)
  PROVE  n \in Nat
<1>1. Changed(p, m) \in {{m, m + 1}, 0..m, {m}}
  BY DEF Changed
<1>2. QED
  BY <1>1

\* A partial write makes a temporary file with some contents.
LEMMA PartialFile ==
  ASSUME TypeOK, NEW p \in Procs, WriteSome(p)
  PROVE  \E c \in Contents :
           tmp' = [tmp EXCEPT ![p] = [data |-> c, mode |-> TmpMode]]
<1>1. mem[p] \in Contents
  BY DEF TypeOK
<1>2. QED
  BY <1>1, ContentsCut DEF WriteSome

\* Every step of RecUtil keeps the types.
LEMMA TypesKept ==
  ASSUME TypeOK, TempInv, NEW p \in Procs, Step(p) \/ Kill(p)
  PROVE  TypeOK'
<1> USE RecUtilAssumption DEF TypeOK, Goto, Exit
<1>1. CASE Read(p)
  BY <1>1 DEF Read, Readable, Files
<1>2. CASE Change(p)
  <2>1. PICK n \in Changed(p, mem[p].n) :
          mem' = [mem EXCEPT ![p] =
                    [mem[p] EXCEPT !.n = n, !.by = @ \cup {p}]]
    BY <1>2 DEF Change
  <2>2. n \in Nat
    <3>1. mem[p].n \in Nat
      BY DEF Contents
    <3>2. QED
      BY <3>1, ChangedNat
  <2>3. [mem[p] EXCEPT !.n = n, !.by = @ \cup {p}] \in Contents
    BY <2>2, ContentsChanged
  <2>4. QED
    BY <1>2, <2>1, <2>3 DEF Change
<1>3. CASE NoChange(p)
  BY <1>3 DEF NoChange
<1>4. CASE Access(p)
  BY <1>4 DEF Access
<1>5. CASE Stat(p)
  BY <1>5 DEF Stat, Files
<1>6. CASE Write(p)
  BY <1>6 DEF Write, Files
<1>7. CASE NoTempFile(p)
  BY <1>7 DEF NoTempFile
<1>8. CASE WriteSome(p)
  <2>1. tmp' \in [Procs -> Files \cup {NoFile}]
    BY <1>8, PartialFile DEF Files
  <2>2. QED
    BY <1>8, <2>1 DEF WriteSome
<1>9. CASE Rename(p)
  BY <1>9 DEF Rename
<1>10. CASE RenameFails(p)
  BY <1>10 DEF RenameFails
<1>11. CASE Chmod(p)
  <2>1. file' \in Files
    BY <1>11 DEF Chmod, TempInv, Files
  <2>2. QED
    BY <1>11, <2>1 DEF Chmod
<1>12. CASE Kill(p)
  BY <1>12 DEF Kill
<1>13. QED
  BY <1>1, <1>2, <1>3, <1>4, <1>5, <1>6, <1>7, <1>8, <1>9, <1>10, <1>11,
     <1>12 DEF Step

\* Every step keeps the temporary files with their owners and the file in
\* its place.
LEMMA TempKept ==
  ASSUME TypeOK, TempInv, NEW p \in Procs, Step(p) \/ Kill(p)
  PROVE  TempInv' /\ (file # NoFile => file' # NoFile)
<1> USE RecUtilAssumption DEF TypeOK, TempInv, NoTempLeft, Goto, Exit
<1>1. CASE Read(p)
  BY <1>1 DEF Read
<1>2. CASE Change(p)
  BY <1>2 DEF Change
<1>3. CASE NoChange(p)
  BY <1>3 DEF NoChange
<1>4. CASE Access(p)
  BY <1>4 DEF Access
<1>5. CASE Stat(p)
  BY <1>5 DEF Stat
<1>6. CASE Write(p) \/ WriteSome(p)
  <2>1. tmp'[p] # NoFile /\ \A q \in Procs \ {p} : tmp'[q] = tmp[q]
    <3>1. tmp'[p] \in Files
      <4>1. CASE Write(p)
        BY <4>1 DEF Write, Files
      <4>2. CASE WriteSome(p)
        BY <4>2, PartialFile DEF Files
      <4>3. QED
        BY <1>6, <4>1, <4>2
    <3>2. QED
      BY <1>6, <3>1 DEF Write, WriteSome
  <2>2. QED
    BY <1>6, <2>1 DEF Write, WriteSome
<1>7. CASE NoTempFile(p)
  BY <1>7 DEF NoTempFile
<1>8. CASE Rename(p)
  BY <1>8 DEF Rename
<1>9. CASE RenameFails(p)
  BY <1>9 DEF RenameFails
<1>10. CASE Chmod(p)
  <2>1. file' \in Files
    BY <1>10 DEF Chmod, Files
  <2>2. QED
    BY <1>10, <2>1 DEF Chmod
<1>11. CASE Kill(p)
  BY <1>11 DEF Kill, Running
<1>12. QED
  BY <1>1, <1>2, <1>3, <1>4, <1>5, <1>6, <1>7, <1>8, <1>9, <1>10, <1>11
     DEF Step

\* A change touches only the number of records and the history of its own
\* database.
LEMMA ChangeTouches ==
  ASSUME TypeOK, NEW p \in Procs, Change(p) \/ NoChange(p), NEW q \in Procs
  PROVE  /\ NoChange(p) => mem'[q].n = mem[q].n
         /\ mem'[q].size = mem[q].size
         /\ mem'[q].extent = mem[q].extent
         /\ mem'[q].syntax = mem[q].syntax
         /\ q # p => mem'[q] = mem[q]
         /\ mem[q].by \subseteq mem'[q].by
         /\ pc'[p] = "access" => p \in mem'[p].by
<1>1. mem \in [Procs -> Contents] /\ mem[p] \in Contents
  BY DEF TypeOK
<1>2. CASE Change(p) /\ ~NoChange(p)
  <2>1. PICK n : mem' = [mem EXCEPT ![p] =
                           [mem[p] EXCEPT !.n = n, !.by = @ \cup {p}]]
    BY <1>2 DEF Change
  <2>2. mem'[p] = [mem[p] EXCEPT !.n = n, !.by = @ \cup {p}]
    BY <1>1, <2>1
  <2>3. q # p => mem'[q] = mem[q]
    BY <1>1, <2>1
  <2>4. CASE q = p
    <3>1. /\ mem'[p].n = n
          /\ mem'[p].size = mem[p].size
          /\ mem'[p].extent = mem[p].extent
          /\ mem'[p].syntax = mem[p].syntax
          /\ mem'[p].by = mem[p].by \cup {p}
      BY <1>1, <2>2, ContentsFields
    <3>2. QED
      BY <1>2, <2>4, <3>1
  <2>5. p \in mem'[p].by
    BY <1>1, <2>2, ContentsFields
  <2>6. QED
    BY <1>2, <2>3, <2>4, <2>5
<1>3. CASE NoChange(p)
  BY <1>1, <1>3 DEF NoChange, Exit, Goto, TypeOK
<1>4. QED
  BY <1>2, <1>3

\* The permissions are no part of the contents.
LEMMA ChmodTouches ==
  ASSUME TypeOK, TempInv, NEW p \in Procs, Chmod(p)
  PROVE  file # NoFile /\ file' # NoFile /\ file'.data = file.data
<1>1. file \in Files
  BY DEF TypeOK, TempInv, Chmod
<1>2. [file EXCEPT !.mode = saved[p]].data = file.data
  BY <1>1 DEF Files
<1>3. file'.data = file.data
  BY <1>2 DEF Chmod
<1>4. file' # NoFile
  BY <1>1, TempKept, RecUtilAssumption DEF Step
<1>5. QED
  BY <1>1, <1>3, <1>4, RecUtilAssumption

\* A command that could not write everything is remembered.
LEMMA NotCut ==
  ASSUME NEW p \in Procs, Step(p) \/ Kill(p), cut' = {}
  PROVE  cut = {} /\ ~WriteSome(p)
<1>1. cut' = cut \/ cut' = cut \cup {p}
  BY DEF Step, Read, Change, NoChange, Access, Stat, Write, NoTempFile,
         WriteSome, Rename, RenameFails, Chmod, Kill
<1>2. WriteSome(p) => cut' = cut \cup {p}
  BY DEF WriteSome
<1>3. QED
  BY <1>1, <1>2

\* Every step that is not a partial write keeps what is in memory and in
\* the files complete.
LEMMA WholeKept ==
  ASSUME TypeOK, TempInv, WholeInv, NEW p \in Procs, Step(p) \/ Kill(p)
  PROVE  WholeInv'
<1> SUFFICES ASSUME cut' = {} PROVE WholeInv'
  BY DEF WholeInv
<1> USE NotCut DEF TypeOK, WholeInv
<1>1. CASE Read(p)
  BY <1>1 DEF Read, Readable
<1>2. CASE Change(p) \/ NoChange(p)
  <2>1. \A q \in Procs : mem'[q].extent = mem[q].extent
    BY <1>2, ChangeTouches
  <2>2. QED
    BY <1>2, <2>1 DEF Change, NoChange
<1>3. CASE Access(p) \/ Stat(p) \/ NoTempFile(p) \/ Kill(p)
  BY <1>3 DEF Access, Stat, NoTempFile, Kill
<1>4. CASE Write(p)
  BY <1>4 DEF Write
<1>5. CASE WriteSome(p)
  BY <1>5
<1>6. CASE Rename(p)
  BY <1>6 DEF Rename
<1>7. CASE RenameFails(p)
  BY <1>7 DEF RenameFails
<1>8. CASE Chmod(p)
  BY <1>8, ChmodTouches DEF Chmod
<1>9. QED
  BY <1>1, <1>2, <1>3, <1>4, <1>5, <1>6, <1>7, <1>8 DEF Step

\* From a good file every command can read, and what it writes can be read.
LEMMA ParsesKept ==
  ASSUME TypeOK, TempInv, ParsesInv, NEW p \in Procs, Step(p) \/ Kill(p)
  PROVE  ParsesInv'
<1>1. first' = first
  BY DEF Step, Read, Change, NoChange, Access, Stat, Write, NoTempFile,
         WriteSome, Rename, RenameFails, Chmod, Kill
<1> SUFFICES ASSUME GoodStart, cut' = {} PROVE ParsesInv'
  BY <1>1, NotCut DEF ParsesInv, GoodStart
<1> USE DEF TypeOK, ParsesInv, GoodStart
<1>2. CASE Read(p)
  BY <1>2 DEF Read, Readable
<1>3. CASE Change(p) \/ NoChange(p)
  <2>1. \A q \in Procs : mem'[q].syntax = mem[q].syntax
    BY <1>3, ChangeTouches
  <2>2. QED
    BY <1>3, <2>1 DEF Change, NoChange
<1>4. CASE Access(p) \/ Stat(p) \/ NoTempFile(p) \/ Kill(p)
  BY <1>4 DEF Access, Stat, NoTempFile, Kill
<1>5. CASE Write(p)
  BY <1>5 DEF Write
<1>6. CASE WriteSome(p)
  BY <1>6, NotCut
<1>7. CASE Rename(p)
  BY <1>7 DEF Rename, TempInv
<1>8. CASE RenameFails(p)
  BY <1>8 DEF RenameFails
<1>9. CASE Chmod(p)
  BY <1>9, ChmodTouches DEF Chmod
<1>10. QED
  BY <1>2, <1>3, <1>4, <1>5, <1>6, <1>7, <1>8, <1>9 DEF Step

\* When every command checks what it writes, every step keeps what was
\* read and what will be written sound.
LEMMA SoundKept ==
  ASSUME TypeOK, TempInv, ParsesInv, SoundInv, NEW p \in Procs,
         Step(p) \/ Kill(p)
  PROVE  SoundInv'
<1>1. first' = first
  BY DEF Step, Read, Change, NoChange, Access, Stat, Write, NoTempFile,
         WriteSome, Rename, RenameFails, Chmod, Kill
<1> SUFFICES ASSUME SoundStart, cut' = {} PROVE SoundInv'
  BY <1>1, NotCut DEF SoundInv, SoundStart, GoodStart, Sound, SoundData, AllCheck
<1> USE <1>1 DEF TypeOK, SoundInv, SoundData, Holds, Goto, Exit
<1>2. file # NoFile /\ Readable
  BY DEF SoundStart, GoodStart, ParsesInv, TempInv, Readable
<1>3. CASE Read(p)
  BY <1>2, <1>3 DEF Read
<1>4. CASE Change(p)
  <2>1. PICK n \in Changed(p, mem[p].n) :
          /\ mem' = [mem EXCEPT ![p] =
                       [mem[p] EXCEPT !.n = n, !.by = @ \cup {p}]]
          /\ IF Checks(p) /\ ~Sound(mem[p].size, Counted(p, mem[p].n, n))
             THEN Exit(p, 1)
             ELSE IF cmd[p].name = "check" THEN Exit(p, 0)
             ELSE Goto(p, "access") /\ UNCHANGED exit
    BY <1>4 DEF Change
  <2>2. /\ mem'[p].n = n /\ mem'[p].size = mem[p].size
        /\ \A q \in Procs \ {p} : mem'[q] = mem[q]
    BY <2>1, ContentsFields
  <2>3. ASSUME pc'[p] = "access" PROVE Sound(mem[p].size, n)
    <3>1. Checks(p)
      <4>1. cmd[p] \in Commands /\ cmd[p] \in AllCommands
        BY RecUtilAssumption
      <4>2. QED
        BY <4>1 DEF SoundStart, AllCheck, Checks, AllCommands
    <3>2. Sound(mem[p].size, Counted(p, mem[p].n, n))
      BY <2>1, <2>3, <3>1
    <3>3. CASE cmd[p].name = "sort"
      <4>1. n = mem[p].n
        BY <3>3, <2>1 DEF Changed
      <4>2. QED
        BY <1>4, <4>1 DEF Change
    <3>4. CASE cmd[p].name # "sort"
      <4>1. cmd[p].name # "recset"
        BY DEF SoundStart, AllCheck
      <4>2. QED
        BY <3>2, <3>4, <4>1 DEF Counted
    <3>5. QED
      BY <3>3, <3>4
  <2>4. pc'[p] \in {"access", "ended"} /\ \A q \in Procs \ {p} : pc'[q] = pc[q]
    BY <2>1
  <2>5. QED
    BY <1>4, <2>2, <2>3, <2>4 DEF Change
<1>5. CASE NoChange(p)
  <2>1. \A q \in Procs : mem'[q].n = mem[q].n /\ mem'[q].size = mem[q].size
    BY <1>5, ChangeTouches
  <2>2. QED
    BY <1>5, <2>1 DEF NoChange
<1>6. CASE Access(p) \/ Stat(p) \/ NoTempFile(p) \/ Kill(p)
  BY <1>6 DEF Access, Stat, NoTempFile, Kill
<1>7. CASE Write(p)
  BY <1>7 DEF Write
<1>8. CASE WriteSome(p)
  BY <1>8, NotCut
<1>9. CASE Rename(p)
  BY <1>9 DEF Rename, TempInv
<1>10. CASE RenameFails(p)
  BY <1>10 DEF RenameFails
<1>11. CASE Chmod(p)
  BY <1>11, ChmodTouches DEF Chmod
<1>12. QED
  BY <1>3, <1>4, <1>5, <1>6, <1>7, <1>8, <1>9, <1>10, <1>11 DEF Step

\* A command has an exit status only once it has ended.
LEMMA ExitKept ==
  ASSUME TypeOK, ExitInv, NEW p \in Procs, Step(p) \/ Kill(p)
  PROVE  ExitInv'
<1> USE DEF TypeOK, ExitInv, Goto, Exit
<1>1. CASE Read(p) \/ Change(p) \/ NoChange(p) \/ Access(p)
  BY <1>1 DEF Read, Change, NoChange, Access
<1>2. CASE Stat(p) \/ Write(p) \/ NoTempFile(p) \/ WriteSome(p)
  BY <1>2 DEF Stat, Write, NoTempFile, WriteSome
<1>3. CASE Rename(p) \/ RenameFails(p) \/ Chmod(p) \/ Kill(p)
  BY <1>3 DEF Rename, RenameFails, Chmod, Kill, Running
<1>4. QED
  BY <1>1, <1>2, <1>3 DEF Step

\* Only the command that restores the permissions becomes a successful one.
LEMMA SuccessfulAfter ==
  ASSUME TypeOK, ExitInv, NEW p \in Procs, Step(p) \/ Kill(p)
  PROVE  /\ Successful' \subseteq Successful \cup {p}
         /\ ~Chmod(p) => Successful' \subseteq Successful
<1> USE DEF TypeOK, ExitInv, Successful, Goto, Exit
<1>1. CASE Read(p)
  BY <1>1 DEF Read
<1>2. CASE Change(p)
  BY <1>2 DEF Change
<1>3. CASE NoChange(p)
  BY <1>3 DEF NoChange
<1>4. CASE Access(p)
  BY <1>4 DEF Access
<1>5. CASE Stat(p)
  BY <1>5 DEF Stat
<1>6. CASE Write(p)
  BY <1>6 DEF Write
<1>7. CASE NoTempFile(p)
  BY <1>7 DEF NoTempFile
<1>8. CASE WriteSome(p)
  BY <1>8 DEF WriteSome
<1>9. CASE Rename(p)
  BY <1>9 DEF Rename
<1>10. CASE RenameFails(p)
  BY <1>10 DEF RenameFails
<1>11. CASE Chmod(p)
  BY <1>11 DEF Chmod
<1>12. CASE Kill(p)
  BY <1>12 DEF Kill
<1>13. QED
  BY <1>1, <1>2, <1>3, <1>4, <1>5, <1>6, <1>7, <1>8, <1>9,
     <1>10, <1>11, <1>12 DEF Step

\* A step moves only its own process, and only a first step may start to
\* overlap.
LEMMA StepMoves ==
  ASSUME TypeOK, NEW p \in Procs, Step(p) \/ Kill(p)
  PROVE  /\ first' = first
         /\ \A q \in Procs \ {p} : pc'[q] = pc[q]
         /\ pc[p] = "start" \/ Running(p)
         /\ alone' => alone /\ (Running(p) \/ \A q \in Procs : ~Running(q))
<1> USE DEF TypeOK, Goto, Exit, Running
<1>1. CASE Read(p)
  BY <1>1 DEF Read
<1>2. CASE Change(p)
  BY <1>2 DEF Change
<1>3. CASE NoChange(p)
  BY <1>3 DEF NoChange
<1>4. CASE Access(p)
  BY <1>4 DEF Access
<1>5. CASE Stat(p)
  BY <1>5 DEF Stat
<1>6. CASE Write(p)
  BY <1>6 DEF Write
<1>7. CASE NoTempFile(p)
  BY <1>7 DEF NoTempFile
<1>8. CASE WriteSome(p)
  BY <1>8 DEF WriteSome
<1>9. CASE Rename(p)
  BY <1>9 DEF Rename
<1>10. CASE RenameFails(p)
  BY <1>10 DEF RenameFails
<1>11. CASE Chmod(p)
  BY <1>11 DEF Chmod
<1>12. CASE Kill(p)
  BY <1>12 DEF Kill
<1>13. QED
  BY <1>1, <1>2, <1>3, <1>4, <1>5, <1>6, <1>7, <1>8, <1>9,
     <1>10, <1>11, <1>12 DEF Step

\* Commands that do not overlap build on each other's changes.
LEMMA AloneKept ==
  ASSUME TypeOK, TempInv, ParsesInv, ExitInv, AloneInv, NEW p \in Procs,
         Step(p) \/ Kill(p)
  PROVE  AloneInv'
<1> SUFFICES ASSUME alone', GoodStart, cut' = {}
             PROVE  /\ \A q, r \in Procs :
                         Running(q)' /\ Running(r)' => q = r
                    /\ (Successful \subseteq file.data.by)'
                    /\ \A q \in Procs : HoldsAll(q)'
  BY StepMoves, NotCut DEF AloneInv, GoodStart
<1>1. /\ \A q, r \in Procs : Running(q) /\ Running(r) => q = r
      /\ Successful \subseteq file.data.by
      /\ \A q \in Procs : HoldsAll(q)
  BY StepMoves DEF AloneInv
<1>2. \A q \in Procs \ {p} : pc'[q] = pc[q] /\ ~Running(q) /\ ~Running(q)'
  BY <1>1, StepMoves DEF Running
<1>3. \A q, r \in Procs : Running(q)' /\ Running(r)' => q = r
  BY <1>2
<1>4. \A q \in Procs \ {p} : HoldsAll(q)'
  BY <1>2 DEF HoldsAll, Holds, Running
<1>5. file # NoFile /\ Readable
  BY DEF GoodStart, ParsesInv, TempInv, Readable
<1> SUFFICES (Successful \subseteq file.data.by)' /\ HoldsAll(p)'
  BY <1>3, <1>4
<1> USE DEF TypeOK, HoldsAll, Holds, Goto, Exit
<1>6. CASE Read(p)
  <2>1. mem'[p] = file.data /\ pc'[p] = "change" /\ file' = file
    BY <1>5, <1>6 DEF Read
  <2>2. QED
    BY <1>1, <1>6, <2>1, SuccessfulAfter DEF Read, Chmod
<1>7. CASE Change(p) \/ NoChange(p)
  <2>1. /\ file' = file /\ pc[p] = "change"
        /\ pc'[p] \in {"access", "ended", "killed"}
    BY <1>7 DEF Change, NoChange
  <2>2. Successful' \subseteq Successful
    BY <2>1, SuccessfulAfter DEF Chmod
  <2>3. mem[p].by \subseteq mem'[p].by /\ (pc'[p] = "access" => p \in mem'[p].by)
    BY <1>7, ChangeTouches
  <2>4. QED
    BY <1>1, <2>1, <2>2, <2>3
<1>8. CASE Access(p)
  <2>1. /\ file' = file /\ mem' = mem /\ tmp' = tmp /\ pc[p] = "access"
        /\ pc'[p] \in {"stat", "ended"}
    BY <1>8 DEF Access
  <2>2. Successful' \subseteq Successful
    BY <2>1, SuccessfulAfter DEF Chmod
  <2>3. QED
    BY <1>1, <2>1, <2>2
<1>9. CASE Stat(p)
  BY <1>1, <1>9, SuccessfulAfter DEF Stat, Chmod
<1>10. CASE Write(p)
  <2>1. /\ file' = file /\ mem' = mem /\ pc[p] = "write" /\ pc'[p] = "rename"
        /\ tmp'[p].data = mem[p]
    BY <1>10 DEF Write
  <2>2. Successful' \subseteq Successful
    BY <2>1, SuccessfulAfter DEF Chmod
  <2>3. QED
    BY <1>1, <2>1, <2>2
<1>11. CASE NoTempFile(p)
  BY <1>1, <1>11, SuccessfulAfter DEF NoTempFile, Chmod
<1>12. CASE WriteSome(p)
  BY <1>12, NotCut
<1>13. CASE Rename(p)
  BY <1>1, <1>13, SuccessfulAfter DEF Rename, Chmod
<1>14. CASE RenameFails(p)
  BY <1>1, <1>14, SuccessfulAfter DEF RenameFails, Chmod
<1>15. CASE Chmod(p)
  <2>1. file'.data = file.data /\ pc'[p] = "ended" /\ p \in file.data.by
    BY <1>1, <1>15, ChmodTouches DEF Chmod
  <2>2. QED
    BY <1>1, <2>1, SuccessfulAfter
<1>16. CASE Kill(p)
  <2>1. /\ file' = file /\ exit' = exit /\ cmd' = cmd
        /\ pc'[p] = "killed"
    BY <1>16 DEF Kill
  <2>2. Successful' = Successful
    BY <2>1 DEF Successful
  <2>3. QED
    BY <1>1, <2>1, <2>2
<1>17. QED
  BY <1>6, <1>7, <1>8, <1>9, <1>10, <1>11, <1>12, <1>13, <1>14, <1>15,
     <1>16 DEF Step

\* Commands that do not overlap hand the permissions on.
LEMMA AttrKept ==
  ASSUME TypeOK, TempInv, AttrInv, NEW p \in Procs, Step(p) \/ Kill(p)
  PROVE  AttrInv'
<1> SUFFICES ASSUME alone', first # NoFile
             PROVE  AttrInv'
  BY StepMoves DEF AttrInv
<1>1. first' = first /\ file # NoFile /\ first.mode # NoFile
  BY StepMoves, RecUtilAssumption DEF TempInv, TypeOK, Files
<1>2. \A q \in Procs \ {p} : pc'[q] = pc[q] /\ ~Running(q) /\ ~Running(q)'
  BY StepMoves DEF AttrInv, Running
<1>3. \A q, r \in Procs : Running(q)' /\ Running(r)' => q = r
  BY <1>2
<1> SUFFICES ASSUME \A q \in Procs : pc'[q] # "killed"
             PROVE  /\ pc'[p] \in {"write", "rename", "chmod"} =>
                         saved'[p] = first.mode
                    /\ pc'[p] # "chmod" => file'.mode = first.mode
  BY <1>1, <1>2, <1>3 DEF AttrInv, Running
<1>4. pc[p] # "killed"
  BY StepMoves DEF Running
<1>5. /\ pc[p] \in {"write", "rename", "chmod"} => saved[p] = first.mode
      /\ pc[p] # "chmod" => file.mode = first.mode
  BY <1>2, <1>4, StepMoves DEF AttrInv, Running
<1> USE <1>5 DEF TypeOK, Goto, Exit
<1>6. CASE Read(p) \/ Change(p) \/ NoChange(p) \/ Access(p)
  BY <1>6 DEF Read, Change, NoChange, Access
<1>7. CASE Stat(p)
  BY <1>1, <1>7 DEF Stat
<1>8. CASE Write(p) \/ NoTempFile(p) \/ WriteSome(p)
  BY <1>8 DEF Write, NoTempFile, WriteSome
<1>9. CASE Rename(p) \/ RenameFails(p)
  BY <1>9 DEF Rename, RenameFails
<1>10. CASE Chmod(p)
  <2>1. file \in Files /\ file' = [file EXCEPT !.mode = first.mode]
    BY <1>1, <1>10 DEF Chmod
  <2>2. file'.mode = first.mode
    BY <2>1 DEF Files
  <2>3. QED
    BY <1>10, <2>2 DEF Chmod
<1>11. CASE Kill(p)
  BY <1>11 DEF Kill
<1>12. QED
  BY <1>6, <1>7, <1>8, <1>9, <1>10, <1>11 DEF Step

---------------------------------------------------------------------------
\* The initial states satisfy the inductive invariant.
LEMMA InitUtil == Init => UtilInv
<1> SUFFICES ASSUME Init PROVE UtilInv
  OBVIOUS
<1> USE RecUtilAssumption DEF Init
<1>1. Empty \in Contents
  BY DEF Empty, Contents
<1>2. TypeOK
  BY <1>1 DEF TypeOK
<1>3. TempInv /\ ExitInv
  BY DEF TempInv, NoTempLeft, ExitInv
<1>4. WholeInv /\ ParsesInv
  BY DEF WholeInv, ParsesInv, GoodStart, Empty
<1>5. SoundInv
  BY DEF SoundInv, SoundStart, SoundData, GoodStart, Holds
<1>6. AloneInv /\ AttrInv
  BY DEF AloneInv, AttrInv, HoldsAll, Holds, Successful, Running
<1>7. QED
  BY <1>2, <1>3, <1>4, <1>5, <1>6 DEF UtilInv

\* Every step of every command keeps the inductive invariant.
LEMMA NextUtil == UtilInv /\ [Next]_vars => UtilInv'
<1> SUFFICES ASSUME UtilInv, [Next]_vars PROVE UtilInv'
  OBVIOUS
<1>1. CASE Next
  <2>1. PICK p \in Procs : Step(p) \/ Kill(p)
    BY <1>1 DEF Next
  <2>2. QED
    BY <2>1, TypesKept, TempKept, WholeKept, ParsesKept, SoundKept, ExitKept,
       AloneKept, AttrKept DEF UtilInv
<1>2. CASE UNCHANGED vars
  BY <1>2 DEF vars, UtilInv, TypeOK, TempInv, NoTempLeft, WholeInv, ParsesInv,
     SoundInv, SoundStart, GoodStart, ExitInv, AloneInv, AttrInv, HoldsAll, Holds,
     Successful, Running, Sound, SoundData, AllCheck
<1>3. QED
  BY <1>1, <1>2

\* The invariant of recutl_write_db_to_file and of the main functions that
\* call it, for any number of concurrent commands.
THEOREM UtilInvariant == Spec => []UtilInv
<1>1. Init => UtilInv
  BY InitUtil
<1>2. UtilInv /\ [Next]_vars => UtilInv'
  BY NextUtil
<1>3. QED
  BY <1>1, <1>2, PTL DEF Spec

\* However many commands run at once and wherever they are killed, the
\* file is a complete version while no write was cut short, and only a
\* running or killed command has a temporary file.
THEOREM FileAlwaysWhole == Spec => [](FileWhole /\ NoTempLeft)
<1>1. UtilInv => FileWhole /\ NoTempLeft
  BY DEF UtilInv, WholeInv, TempInv, FileWhole
<1>2. QED
  BY <1>1, UtilInvariant, PTL

\* Commands that check what they write never replace a sound database by
\* an unsound one, although the check is made long before the rename and
\* other commands replace the file in between.
THEOREM IntegrityAlwaysKept == Spec => []IntegrityKept
<1>1. UtilInv => IntegrityKept
  BY DEF UtilInv, SoundInv, SoundStart, SoundData, GoodStart, IntegrityKept
<1>2. QED
  BY <1>1, UtilInvariant, PTL

\* Commands that are run one after the other lose no change.
THEOREM SequentialUpdatesKept == Spec => []NoLostUpdate
<1>1. UtilInv => NoLostUpdate
  BY DEF UtilInv, AloneInv, GoodStart, NoLostUpdate
<1>2. QED
  BY <1>1, UtilInvariant, PTL

\* Commands that are run one after the other and not killed leave the file
\* with the permissions it had, although each of them replaces it by a file
\* with other ones.
THEOREM SequentialAttributesKept == Spec => []AttributesKept
<1>1. UtilInv => AttributesKept
  BY DEF UtilInv, AttrInv, AttributesKept
<1>2. QED
  BY <1>1, UtilInvariant, PTL

\* No step of any command removes the file.
THEOREM FileAlwaysStays == Spec => FileStays
<1>1. UtilInv /\ [Next]_vars => (file # NoFile => file' # NoFile)
  <2> SUFFICES ASSUME UtilInv, [Next]_vars PROVE file # NoFile => file' # NoFile
    OBVIOUS
  <2>1. CASE Next
    <3>1. PICK p \in Procs : Step(p) \/ Kill(p)
      BY <2>1 DEF Next
    <3>2. QED
      BY <3>1, TempKept DEF UtilInv
  <2>2. CASE UNCHANGED vars
    BY <2>2 DEF vars
  <2>3. QED
    BY <2>1, <2>2
<1>2. QED
  BY <1>1, UtilInvariant, PTL DEF Spec, FileStays

---------------------------------------------------------------------------
(* The utilities implement the abstract file of RecFile, for any number of
   commands: every step of a command is a step of the abstract one or
   changes nothing that it sees.                                          *)

\* The whole database may be written, and any first part of it when the
\* disk is full.
LEMMA WholeWritten ==
  ASSUME NEW c
  PROVE  c \in WrittenFor(c)
  BY DEF WrittenFor

LEMMA PartWritten ==
  ASSUME NEW c, DiskFull, NEW n \in 0..c.n, NEW z \in {c.size, "none"},
         NEW s \in {"ok", "error"}
  PROVE  FirstPart(c, n, z, s) \in WrittenFor(c)
  BY DEF WrittenFor

\* Every step keeps what the refinement rests on.
LEMMA FileInvKept ==
  ASSUME TypeOK, FileInv, NEW p \in Procs, Step(p) \/ Kill(p)
  PROVE  FileInv'
<1> USE DEF TypeOK, FileInv, Goto, Exit
<1>1. CASE Read(p)
  BY <1>1 DEF Read
<1>2. CASE Change(p)
  BY <1>2 DEF Change
<1>3. CASE NoChange(p)
  BY <1>3 DEF NoChange
<1>4. CASE Access(p) \/ Stat(p) \/ NoTempFile(p)
  BY <1>4 DEF Access, Stat, NoTempFile
<1>5. CASE Write(p)
  <2>1. tmp'[p].data = mem[p] /\ mem[p] \in WrittenFor(mem[p])
    BY <1>5, WholeWritten DEF Write
  <2>2. QED
    BY <1>5, <2>1 DEF Write
<1>6. CASE WriteSome(p)
  <2>1. PICK n \in 0..mem[p].n, z \in {mem[p].size, "none"},
             s \in {"ok", "error"} :
          tmp' = [tmp EXCEPT ![p] = [data |-> FirstPart(mem[p], n, z, s),
                                     mode |-> TmpMode]]
    BY <1>6 DEF WriteSome
  <2>2. tmp'[p].data = FirstPart(mem[p], n, z, s)
    BY <2>1
  <2>3. DiskFull
    BY <1>6 DEF WriteSome
  <2>4. tmp'[p].data \in WrittenFor(mem[p])
    BY <2>2, <2>3, PartWritten
  <2>5. QED
    BY <1>6, <2>1, <2>4 DEF WriteSome
<1>7. CASE Rename(p) \/ RenameFails(p) \/ Chmod(p) \/ Kill(p)
  BY <1>7 DEF Rename, RenameFails, Chmod, Kill, Running
<1>8. QED
  BY <1>1, <1>2, <1>3, <1>4, <1>5, <1>6, <1>7 DEF Step

\* The steps of a command seen from the abstract file: a command that goes
\* to step l enters the stage of l.
LEMMA StepMaps ==
  ASSUME TypeOK, NEW p \in Procs, NEW l, Goto(p, l),
         \A q \in Procs \ {p} : mem'[q] = mem[q]
  PROVE  /\ File!Enter(p, StageAt(l))
         /\ File!Hold(p, WorkAt(l, mem'[p]))
<1>1. pc'[p] = l /\ \A q \in Procs \ {p} : pc'[q] = pc[q]
  BY DEF Goto, TypeOK
<1>2. [q \in Procs |-> StageAt(pc'[q])]
        = [[q \in Procs |-> StageAt(pc[q])] EXCEPT ![p] = StageAt(l)]
  BY <1>1
<1>3. [q \in Procs |-> WorkAt(pc'[q], mem'[q])]
        = [[q \in Procs |-> WorkAt(pc[q], mem[q])]
             EXCEPT ![p] = WorkAt(l, mem'[p])]
  BY <1>1
<1>4. QED
  BY <1>2, <1>3 DEF File!Enter, File!Hold

\* A command that stays in its stage, with the same database, shows nothing.
LEMMA StaysStutters ==
  ASSUME TypeOK, NEW p \in Procs, NEW l, Goto(p, l), mem' = mem,
         StageAt(l) = StageAt(pc[p]), Version(file)' = Version(file)
  PROVE  UNCHANGED File!fileVars
<1>1. \A q \in Procs : StageAt(pc'[q]) = StageAt(pc[q])
  BY DEF Goto, TypeOK
<1>2. \A q \in Procs : WorkAt(pc'[q], mem'[q]) = WorkAt(pc[q], mem[q])
  BY <1>1 DEF WorkAt
<1>3. QED
  BY <1>1, <1>2 DEF File!fileVars

\* A command that gives up, or is killed, before it has renamed anything.
LEMMA EndsAbandons ==
  ASSUME TypeOK, NEW p \in Procs, NEW l \in {"ended", "killed"}, Goto(p, l),
         pc[p] \notin {"chmod", "ended", "killed"}, file' = file,
         \A q \in Procs \ {p} : mem'[q] = mem[q]
  PROVE  File!Abandon(p)
<1>1. StageAt(l) = "over" /\ WorkAt(l, mem'[p]) = Empty
  BY DEF StageAt, WorkAt
<1>2. StageAt(pc[p]) # "over"
  BY DEF TypeOK, StageAt
<1>3. File!Enter(p, "over") /\ File!Hold(p, Empty)
  BY <1>1, StepMaps
<1>4. QED
  BY <1>2, <1>3 DEF File!Abandon, Version

\* What a change makes of a database is one of the edits of the command.
LEMMA ChangeEdits ==
  ASSUME TypeOK, NEW p \in Procs, Change(p) \/ NoChange(p),
         pc'[p] = "access"
  PROVE  mem'[p] \in EditsOf(p, mem[p])
<1>1. mem[p] \in Contents /\ mem[p].n \in Nat
  BY DEF TypeOK, Contents
<1>2. CASE Change(p)
  <2>1. PICK n \in Changed(p, mem[p].n) :
          mem' = [mem EXCEPT ![p] =
                    [mem[p] EXCEPT !.n = n, !.by = @ \cup {p}]]
    BY <1>2 DEF Change
  <2>2. n \in 0..(mem[p].n + 1)
    <3>1. Changed(p, mem[p].n)
            \in {{mem[p].n, mem[p].n + 1}, 0..mem[p].n, {mem[p].n}}
      BY DEF Changed
    <3>2. QED
      BY <1>1, <2>1, <3>1
  <2>3. mem'[p] = [mem[p] EXCEPT !.n = n, !.by = @ \cup {p}]
    BY <2>1 DEF TypeOK
  <2>4. QED
    BY <2>2, <2>3 DEF EditsOf
<1>3. CASE NoChange(p)
  BY <1>3 DEF NoChange, Exit, Goto, TypeOK
<1>4. QED
  BY <1>2, <1>3

\* Every step of a command, and its death, is a step of the abstract file
\* or changes nothing that it sees.
LEMMA StepSimulates ==
  ASSUME TypeOK, TempInv, FileInv, NEW p \in Procs, Step(p) \/ Kill(p)
  PROVE  \/ File!Take(p) \/ File!Edit(p) \/ File!Install(p) \/ File!Abandon(p)
         \/ UNCHANGED File!fileVars
<1>1. CASE Read(p)
  <2>1. CASE Readable
    <3>1. file \in Files /\ file # NoFile /\ file.data \in Contents
      BY <2>1 DEF Readable, TypeOK, Files
    <3>2. /\ Goto(p, "change") /\ mem'[p] = file.data /\ file' = file
          /\ \A q \in Procs \ {p} : mem'[q] = mem[q]
      BY <1>1, <2>1 DEF Read, TypeOK
    <3>3. StageAt("change") = "taken" /\ WorkAt("change", mem'[p]) = file.data
      BY <3>2 DEF StageAt, WorkAt
    <3>4. File!Enter(p, "taken") /\ File!Hold(p, file.data)
      BY <3>2, <3>3, StepMaps
    <3>5. file.data \in {Version(file), Empty} \ {NoFile}
      BY <3>1, RecUtilAssumption DEF Version
    <3>6. StageAt(pc[p]) = "idle"
      BY <1>1 DEF Read, StageAt
    <3>7. QED
      BY <3>2, <3>4, <3>5, <3>6 DEF File!Take, Version
  <2>2. CASE ~Readable /\ cmd[p].name = "recins"
    <3>1. Goto(p, "change") /\ mem' = mem /\ file' = file /\ pc[p] = "start"
      BY <1>1, <2>2 DEF Read
    <3>2. mem[p] = Empty /\ Empty \in Contents
      BY <3>1 DEF FileInv, TypeOK
    <3>3. StageAt("change") = "taken" /\ WorkAt("change", mem'[p]) = Empty
      BY <3>1, <3>2 DEF StageAt, WorkAt
    <3>4. File!Enter(p, "taken") /\ File!Hold(p, Empty)
      BY <3>1, <3>3, StepMaps
    <3>5. Empty \in {Version(file), Empty} \ {NoFile}
      BY <3>2, RecUtilAssumption
    <3>6. StageAt(pc[p]) = "idle"
      BY <3>1 DEF StageAt
    <3>7. QED
      BY <3>1, <3>4, <3>5, <3>6 DEF File!Take, Version
  <2>3. CASE ~Readable /\ cmd[p].name # "recins"
    <3>1. Goto(p, "ended") /\ mem' = mem /\ file' = file /\ pc[p] = "start"
      BY <1>1, <2>3 DEF Read, Exit
    <3>2. QED
      BY <3>1, EndsAbandons
  <2>4. QED
    BY <2>1, <2>2, <2>3
<1>2. CASE Change(p) \/ NoChange(p)
  <2>1. /\ pc[p] = "change" /\ file' = file
        /\ Goto(p, "access") \/ Goto(p, "ended") \/ Goto(p, "killed")
    BY <1>2 DEF Change, NoChange, Exit
  <2>2. \A q \in Procs \ {p} : mem'[q] = mem[q]
    BY <1>2, ChangeTouches
  <2>3. CASE Goto(p, "access")
    <3>1. pc'[p] = "access"
      BY <2>3 DEF Goto, TypeOK
    <3>2. mem'[p] \in EditsOf(p, mem[p])
      BY <1>2, <3>1, ChangeEdits
    <3>3. /\ StageAt("access") = "edited" /\ StageAt(pc[p]) = "taken"
          /\ WorkAt("access", mem'[p]) = mem'[p] /\ WorkAt(pc[p], mem[p]) = mem[p]
      BY <2>1 DEF StageAt, WorkAt
    <3>4. File!Enter(p, "edited") /\ File!Hold(p, mem'[p])
      BY <2>2, <2>3, <3>3, StepMaps
    <3>5. QED
      BY <2>1, <3>2, <3>3, <3>4 DEF File!Edit, Version
  <2>4. CASE Goto(p, "ended") \/ Goto(p, "killed")
    BY <2>1, <2>2, <2>4, EndsAbandons
  <2>5. QED
    BY <2>1, <2>3, <2>4
<1>3. CASE Access(p)
  <2>1. /\ pc[p] = "access" /\ file' = file /\ mem' = mem
        /\ Goto(p, "stat") \/ Goto(p, "ended")
    BY <1>3 DEF Access, Exit
  <2>2. CASE Goto(p, "stat")
    <3>1. StageAt("stat") = StageAt(pc[p])
      BY <2>1 DEF StageAt
    <3>2. QED
      BY <2>1, <2>2, <3>1, StaysStutters DEF Version
  <2>3. QED
    BY <2>1, <2>2, EndsAbandons
<1>4. CASE Stat(p)
  <2>1. pc[p] = "stat" /\ Goto(p, "write") /\ file' = file /\ mem' = mem
    BY <1>4 DEF Stat
  <2>2. StageAt("write") = StageAt(pc[p])
    BY <2>1 DEF StageAt
  <2>3. QED
    BY <2>1, <2>2, StaysStutters DEF Version
<1>5. CASE Write(p) \/ WriteSome(p)
  <2>1. pc[p] = "write" /\ Goto(p, "rename") /\ file' = file /\ mem' = mem
    BY <1>5 DEF Write, WriteSome
  <2>2. StageAt("rename") = StageAt(pc[p])
    BY <2>1 DEF StageAt
  <2>3. QED
    BY <2>1, <2>2, StaysStutters DEF Version
<1>6. CASE NoTempFile(p) \/ RenameFails(p)
  <2>1. /\ pc[p] \in {"write", "rename"} /\ Goto(p, "ended")
        /\ file' = file /\ mem' = mem
    BY <1>6 DEF NoTempFile, RenameFails, Exit
  <2>2. QED
    BY <2>1, EndsAbandons
<1>7. CASE Rename(p)
  <2>1. /\ pc[p] = "rename" /\ Goto(p, "chmod") /\ file' = tmp[p] /\ mem' = mem
    BY <1>7 DEF Rename
  <2>2. Version(file') = tmp[p].data /\ tmp[p].data \in WrittenFor(mem[p])
    BY <2>1 DEF TempInv, FileInv, Version
  <2>3. /\ StageAt("chmod") = "over" /\ StageAt(pc[p]) = "edited"
        /\ WorkAt("chmod", mem'[p]) = Empty /\ WorkAt(pc[p], mem[p]) = mem[p]
    BY <2>1 DEF StageAt, WorkAt
  <2>4. File!Enter(p, "over") /\ File!Hold(p, Empty)
    BY <2>1, <2>3, StepMaps
  <2>5. QED
    BY <2>2, <2>3, <2>4 DEF File!Install
<1>8. CASE Chmod(p)
  <2>1. pc[p] = "chmod" /\ Goto(p, "ended") /\ mem' = mem
    BY <1>8 DEF Chmod, Exit
  <2>2. StageAt("ended") = StageAt(pc[p])
    BY <2>1 DEF StageAt
  <2>3. Version(file)' = Version(file)
    BY <1>8, ChmodTouches DEF Version
  <2>4. QED
    BY <2>1, <2>2, <2>3, StaysStutters
<1>9. CASE Kill(p)
  <2>1. Running(p) /\ Goto(p, "killed") /\ file' = file /\ mem' = mem
    BY <1>9 DEF Kill
  <2>2. CASE pc[p] = "chmod"
    <3>1. StageAt("killed") = StageAt(pc[p])
      BY <2>2 DEF StageAt
    <3>2. QED
      BY <2>1, <3>1, StaysStutters DEF Version
  <2>3. CASE pc[p] # "chmod"
    BY <2>1, <2>3, EndsAbandons DEF Running
  <2>4. QED
    BY <2>2, <2>3
<1>10. QED
  BY <1>1, <1>2, <1>3, <1>4, <1>5, <1>6, <1>7, <1>8, <1>9 DEF Step

---------------------------------------------------------------------------
\* The initial states are initial states of the abstract file.
LEMMA InitSimulates == Init => File!Init /\ FileInv
<1> SUFFICES ASSUME Init PROVE File!Init /\ FileInv
  OBVIOUS
<1>1. \A p \in Procs : StageAt(pc[p]) = "idle" /\ WorkAt(pc[p], mem[p]) = Empty
  BY DEF Init, StageAt, WorkAt
<1>2. File!Init
  BY <1>1 DEF Init, File!Init
<1>3. FileInv
  BY DEF Init, FileInv
<1>4. QED
  BY <1>2, <1>3

\* A step of the detailed specification is one of the abstract specification.
LEMMA NextSimulates ==
  UtilInv /\ FileInv /\ [Next]_vars => [File!Next]_(File!fileVars) /\ FileInv'
<1> SUFFICES ASSUME UtilInv, FileInv, [Next]_vars
             PROVE  [File!Next]_(File!fileVars) /\ FileInv'
  OBVIOUS
<1>1. CASE Next
  <2>1. PICK p \in Procs : Step(p) \/ Kill(p)
    BY <1>1 DEF Next
  <2>2. FileInv'
    BY <2>1, FileInvKept DEF UtilInv
  <2>3. \/ File!Take(p) \/ File!Edit(p) \/ File!Install(p) \/ File!Abandon(p)
        \/ UNCHANGED File!fileVars
    BY <2>1, StepSimulates DEF UtilInv
  <2>4. QED
    BY <2>2, <2>3 DEF File!Next
<1>2. CASE UNCHANGED vars
  <2>1. UNCHANGED File!fileVars
    BY <1>2 DEF vars, File!fileVars, Version
  <2>2. FileInv'
    BY <1>2 DEF vars, FileInv
  <2>3. QED
    BY <2>1, <2>2
<1>3. QED
  BY <1>1, <1>2

\* Any number of commands that overlap, fail and are killed at any step
\* implement the abstract file: it changes only when one of them replaces
\* it, in one step, by what that command made of a version it had read
\* (recutl_write_db_to_file and the commands that call it).
THEOREM UtilitiesImplementFile == Spec => ReplacesAtomically
<1>1. Init => File!Init /\ FileInv
  BY InitSimulates
<1>2. UtilInv /\ FileInv /\ [Next]_vars => [File!Next]_(File!fileVars) /\ FileInv'
  BY NextSimulates
<1>3. QED
  BY <1>1, <1>2, UtilInvariant, PTL DEF Spec, ReplacesAtomically, File!Spec

=============================================================================
