------------------------------- MODULE MCInode -------------------------------
\* Instances of Inode for TLC.
EXTENDS Inode, TLC

CONSTANTS p1, p2, p3, s1, s2, e1, e2, n1, n2, a, b, d1, d2

MCProc2 == {p1, p2}
MCProc3 == {p1, p2, p3}
MCSlot == {s1, s2}
MCEntry == {e1, e2}
MCInum == {n1, n2}
MCName == {a, b}
OneDir == (a :> d1 @@ b :> d1)
TwoDirs == (a :> d1 @@ b :> d2)

Symm == Permutations(MCProc3) \cup Permutations(MCSlot) \cup Permutations(MCEntry) \cup Permutations(MCInum) \cup Permutations(MCName)
==============================================================================
