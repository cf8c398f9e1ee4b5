SPECIFICATION Spec
CONSTANTS
  a1 = a1  a2 = a2  a3 = a3  b1 = b1  b2 = b2
  NumPorts = 1
  Mbuf = {a1, a2, a3}
  PoolOf <- OnePort3
  NoMbuf = NoMbuf
  RingSize = 4
  BURST_SIZE = 2
  RxRingSize = 2
  TxRingSize = 2
  Frame = {ip, arp, lldp}
  Forwarded = {ip, arp}
  TapQueueLen = 1
SYMMETRY SymOnePort
INVARIANTS
  TypeOK
  NoAliasing
  NoLeak
  RingHasRoom
PROPERTIES
  ImplementsCrossConnect
