CONSTANTS
  TXNUM = 2
  RXNUM = 2
  NoFrame = NoFrame
  ARP_CACHE_SIZE = 2
  NoAddr = NoAddr
  WIDTH = 4
  Me = 1
  MASKLEN = 1
  Gateway = 4
  MaxConfig = 2
  Proc = {p, q}
  NPCB = 2
  Ports = {1}
  Ephemeral = {1}
  MaxQueue = 1
  MaxRx = 2
  BindAddr = {0}
  MaxSend = 1
  Wire <- MCWire
  Dst <- MCDst
SPECIFICATION FairSpec
CHECK_DEADLOCK FALSE
INVARIANT NetInv
INVARIANT AddressedRight
 
INVARIANT NoLostWakeup
PROPERTY RingsAreQueues
PROPERTY Drained
