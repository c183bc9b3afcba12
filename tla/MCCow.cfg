CONSTANTS
  p1 = p1  p2 = p2  p3 = p3  g1 = g1  g2 = g2  g3 = g3  g4 = g4
  Proc <- MCProc3
  first = p1
  Page <- MCPage4
  NoPte = NoPte
  Data = {"zero", "junk"}
  Zero = "zero"
  Junk = "junk"
  MaxVA = 2
  Preempt = FALSE
SYMMETRY Symm
SPECIFICATION Spec
CHECK_DEADLOCK FALSE
INVARIANT MemInv
 
