CONSTANTS
  Proc = {p1, p2}
  Block = {b1, b2, b3}
  Data = {0, 1}
  NoData = NoData
  NoBlock = NoBlock
  MAXOPBLOCKS = 1
  LOGSIZE = 2
  NLOG = 3
SPECIFICATION FairSpec
CHECK_DEADLOCK FALSE
INVARIANT IInv
 
PROPERTY AtomicCommit
PROPERTY NoLostUpdate
PROPERTY LogDrains
