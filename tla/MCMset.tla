------------------------------ MODULE MCMset ------------------------------
(* Instances of Mset for TLC. *)
EXTENDS Mset

CONSTANTS a, b, c, e

\* Three records or comments, two of them with equal order-by fields.
ThreeKeys == (a :> 1) @@ (b :> 0) @@ (c :> 1)

SameKeys == [d \in Data |-> 1]

\* Without a sort nothing tells two data apart.
Symmetry == Permutations(Data)

\* ThreeKeys gives these two the same rank.
EqualKeys == Permutations({a, c})

=============================================================================
