---------------------------- MODULE MCAsyncRelaxed ----------------------------
(* Instances of AsyncRelaxed for TLC. *)
EXTENDS AsyncRelaxed
=============================================================================
