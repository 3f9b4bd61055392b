--------------------------- MODULE MCPostReview ---------------------------
(* Instances of PostReview for TLC. *)
EXTENDS PostReview, TLC

CONSTANTS op1, op2
=============================================================================
