------------------------------- MODULE MCAuxRing -------------------------------
(* Instances of AuxRing for TLC. *)
EXTENDS AuxRing

\* Bursts that stop short of, reach and wrap past the end of the area.
SomeBursts == {1, 3, 7}

\* Limits smaller than, equal to and greater than a burst, and none.
SomeLimits == {1, 3, 5, Unlimited}
=============================================================================
