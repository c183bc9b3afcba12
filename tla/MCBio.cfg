CONSTANTS
  p1 = p1  p2 = p2  b1 = b1  b2 = b2  b3 = b3  k1 = k1  k2 = k2  k3 = k3  k4 = k4
  Proc <- MCProc
  Buf <- MCBuf3
  Block <- MCBlock4
  Data = {0, 1}
  None = None
  MaxPins = 1
  Faulty = FALSE
SYMMETRY Symm
SPECIFICATION Spec
INVARIANT CacheInv
 
PROPERTY Implements
