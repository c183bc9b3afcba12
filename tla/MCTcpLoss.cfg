SPECIFICATION Spec
CONSTANTS
  UINT = 64
  BUF = 2
  Iss <- MCIss1
  MaxData <- MCData2
  MaxNet = 2
  MaxRexmit = 1
CHECK_DEADLOCK FALSE
INVARIANT Prefix
