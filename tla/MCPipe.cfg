CONSTANTS
  Proc = {p1, p2}
  None = None
  Byte = {0, 1}
  PIPESIZE = 2
  UINT = 4
  MaxN = 3
SPECIFICATION FairSpec
CHECK_DEADLOCK FALSE
INVARIANT PipeInv
PROPERTY IsFifo
PROPERTY CallsReturn
