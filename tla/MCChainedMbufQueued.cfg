SPECIFICATION Spec
CONSTANTS
  Mbuf = {x1, x2, x3}
  NULL = NULL
  RxRingSize = 0
  Buf = 1000
  Room = 2048
INVARIANTS
  QueuedPacketIsWhole
