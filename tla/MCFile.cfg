CONSTANTS
  p1 = p1  p2 = p2  p3 = p3  f1 = f1  f2 = f2  o1 = o1  d0 = d0  d1 = d1
  Proc <- MCProc3
  first = p1
  File <- MCFile2
  Fd <- MCFd
  Object <- MCObject
  None = None
  MaxVma = 1
  MaxRef = 5
  Preempt = FALSE
SYMMETRY Symm
SPECIFICATION Spec
 
INVARIANT ClosedAtZero
