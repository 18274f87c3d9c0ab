----------------------------- MODULE MCRecordRing -----------------------------
(* Instances of RecordRing for TLC. *)
EXTENDS RecordRing

CONSTANTS i1, i2

\* The kernel rounds every record up to 8 bytes.
AlignedLens == {8, 16, 24}

\* Lengths that bring the tail to every distance from the end of the area
\* that lending_pop distinguishes: more than 7, exactly 7 and less than 7.
SomeLens == {8, 9, 13, 24}

OneIter == {i1}
TwoIters == {i1, i2}
=============================================================================
