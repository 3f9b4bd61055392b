-------------------------- MODULE MCProjectSetup --------------------------
(* The instance of ProjectSetup for TLC. *)
EXTENDS ProjectSetup
=============================================================================
