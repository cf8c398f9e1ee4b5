SPECIFICATION Spec
CONSTANTS
  a1 = a1  a2 = a2  a3 = a3  b1 = b1  b2 = b2
  NumPorts = 1
  Mbuf = {a1, a2}
  PoolOf <- OnePort2
  NoMbuf = NoMbuf
  RingSize = 3
  BURST_SIZE = 1
  RxRingSize = 1
  TxRingSize = 1
  Frame = {ip, lldp}
  Forwarded = {ip}
  TapQueueLen = 1
INVARIANTS
  MtodOnMbuf
