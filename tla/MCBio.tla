-------------------------------- MODULE MCBio --------------------------------
\* Instances of Bio for TLC.
EXTENDS Bio, TLC

CONSTANTS p1, p2, b1, b2, b3, k1, k2, k3, k4

MCProc == {p1, p2}
MCBuf3 == {b1, b2, b3}
MCBlock4 == {k1, k2, k3, k4}

Symm == Permutations(MCProc) \cup Permutations(MCBuf3) \cup Permutations(MCBlock4)
==============================================================================
