CONSTANTS
  Proc = {p0, p1, p2}
  initproc = p0
  None = None
  MaxPid = 4
  Targets = {0, 2, 3}
SPECIFICATION FairSpec
INVARIANT Inv
INVARIANT NoOrphan
INVARIANT NoLostWakeup
PROPERTY OrphansReaped
PROPERTY KilledExits
