----------------------------- MODULE MCCounterGroup -----------------------------
(* Instances of CounterGroup for TLC. *)
EXTENDS CounterGroup

\* Every read format a leader can have: StatFormat is five independent flags.
AllFormats == SUBSET Flags

\* The sibling read format with every word it can have.
FullSiblingFormat == {Flags \ {"group"}}

FullFormat == {Flags}
=============================================================================
