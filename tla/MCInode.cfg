CONSTANTS
  p1 = p1  p2 = p2  p3 = p3  s1 = s1  s2 = s2  e1 = e1  e2 = e2  n1 = n1  n2 = n2
  a = a  b = b  d1 = d1  d2 = d2
  Proc <- MCProc3
  Slot <- MCSlot
  Entry <- MCEntry
  Inum <- MCInum
  None = None
  Name <- MCName
  DirOf <- OneDir
SYMMETRY Symm
SPECIFICATION Spec
INVARIANT InodeInv
INVARIANT LockedCorrect
INVARIANT NamesLead
