----------------------------- MODULE MCRecRead -----------------------------
(* Instances of RecRead for TLC. *)
EXTENDS RecRead

=============================================================================
