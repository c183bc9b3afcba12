-------------------------------- MODULE MCFile --------------------------------
\* Instances of File for TLC.
EXTENDS File, TLC

CONSTANTS p1, p2, p3, f1, f2, o1, d0, d1

MCProc3 == {p1, p2, p3}
MCFile2 == {f1, f2}
MCFd == {d0, d1}
MCObject == {o1}

Symm == Permutations({p2, p3}) \cup Permutations(MCFile2) \cup Permutations(MCFd)
================================================================================
