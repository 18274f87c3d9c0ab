------------------------------ MODULE MCAsyncPair ------------------------------
(* Instances of AsyncPair for TLC. *)
EXTENDS AsyncPair
=============================================================================
