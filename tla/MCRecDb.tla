------------------------------ MODULE MCRecDb ------------------------------
(* Instances of RecDb for TLC. *)
EXTENDS RecDb

\* A field without a subscript, and the second one of its name.
TwoSubscripts == {0..MaxItems, {1}}

=============================================================================
