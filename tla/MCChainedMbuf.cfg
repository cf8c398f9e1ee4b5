SPECIFICATION Spec
CONSTANTS
  Mbuf = {x1, x2, x3, x4, x5}
  NULL = NULL
  RxRingSize = 2
  Buf = 1000
  Room = 2048
INVARIANTS
  TypeOK
  AllocSucceeds
  SentWhole
