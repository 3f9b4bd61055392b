--------------------------- MODULE MCPublication ---------------------------
(* Instances of Publication for TLC: runs and operators are interchangeable. *)
EXTENDS Publication, TLC

CONSTANTS r1, r2, op1, op2

Interchangeable == Permutations(Run) \union Permutations(Operator)
=============================================================================
