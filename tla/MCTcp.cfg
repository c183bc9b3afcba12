SPECIFICATION FairSpec
CONSTANTS
  UINT = 64
  BUF = 1
  Iss <- MCIss
  MaxData <- MCData
  MaxNet = 2
  MaxRexmit = 1
CHECK_DEADLOCK FALSE
 
INVARIANT HandshakeAgrees
INVARIANT NoLostWakeup
 
 
