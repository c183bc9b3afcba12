-------------------------------- MODULE MCCow --------------------------------
\* Instances of Cow for TLC.
EXTENDS Cow, TLC

CONSTANTS p1, p2, p3, g1, g2, g3, g4

MCProc3 == {p1, p2, p3}
MCPage4 == {g1, g2, g3, g4}

Symm == Permutations({p2, p3}) \cup Permutations(MCPage4)
==============================================================================
