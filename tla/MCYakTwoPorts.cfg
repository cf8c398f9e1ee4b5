SPECIFICATION FairSpec
CONSTANTS
  a1 = a1  a2 = a2  a3 = a3  b1 = b1  b2 = b2
  NumPorts = 2
  Mbuf = {a1, b1, b2}
  PoolOf <- OneAndTwo
  NoMbuf = NoMbuf
  RingSize = 3
  BURST_SIZE = 2
  RxRingSize = 1
  TxRingSize = 1
  Frame = {ip}
  Forwarded = {ip}
  TapQueueLen = 1
INVARIANTS
  PoolAffinity
  ThreadsSeeReadyPorts
PROPERTIES
  ImplementsCrossConnect
  BuffersRecycled
  TapServesAll
