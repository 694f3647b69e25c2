------------------------------ MODULE RecFile ------------------------------
(***************************************************************************)
(* What the utilities promise about a file, whatever they do on the way:   *)
(* nothing locks it, but it changes only by being replaced, in one step,   *)
(* by a version that a command made of what the file was at some earlier   *)
(* moment.  A command that fails or is killed before that leaves it alone. *)
(***************************************************************************)
CONSTANTS
  Procs,         \* the commands
  NoFile,        \* there is no file
  Empty,         \* the database of a command that found none
  Initial,       \* the versions there may be at first
  Edits(_, _),   \* Edits(p, c): what command p may make of version c
  Written(_)     \* Written(c): what may be written for version c

VARIABLES
  content,  \* the version of the file, or NoFile
  stage,    \* stage[p]: "idle", "taken", "edited" or "over"
  work      \* work[p]: the version in the hands of p

fileVars == <<content, stage, work>>

Init ==
  /\ content \in Initial
  /\ stage = [p \in Procs |-> "idle"] /\ work = [p \in Procs |-> Empty]

Enter(p, s) == stage' = [stage EXCEPT ![p] = s]
Hold(p, c) == work' = [work EXCEPT ![p] = c]

\* The version is taken as it is, or none is found.
Take(p) ==
  /\ stage[p] = "idle" /\ Enter(p, "taken")
  /\ \E c \in {content, Empty} \ {NoFile} : Hold(p, c)
  /\ UNCHANGED content

Edit(p) ==
  /\ stage[p] = "taken" /\ Enter(p, "edited")
  /\ \E c \in Edits(p, work[p]) : Hold(p, c)
  /\ UNCHANGED content

\* The only step that changes the file.
Install(p) ==
  /\ stage[p] = "edited" /\ Enter(p, "over")
  /\ content' \in Written(work[p])
  /\ Hold(p, Empty)

Abandon(p) ==
  /\ stage[p] # "over" /\ Enter(p, "over")
  /\ Hold(p, Empty)
  /\ UNCHANGED content

Next == \E p \in Procs : Take(p) \/ Edit(p) \/ Install(p) \/ Abandon(p)

Spec == Init /\ [][Next]_fileVars

=============================================================================
