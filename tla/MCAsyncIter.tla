------------------------------ MODULE MCAsyncIter ------------------------------
(* Instances of AsyncIter for TLC. *)
EXTENDS AsyncIter
=============================================================================
