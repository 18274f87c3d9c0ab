------------------------------ MODULE MCCallChain ------------------------------
(* Contexts of call chains for TLC. *)
EXTENDS CallChain

\* "New" is a context of a later kernel.
MCContexts == {"Kernel", "User", "UserDeferred", "New"}
MCKnown == {"Kernel", "User", "UserDeferred"}
MCMarker == [Kernel |-> 61, User |-> 63, UserDeferred |-> 49, New |-> 52]
=============================================================================
