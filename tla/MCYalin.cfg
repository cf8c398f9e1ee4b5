SPECIFICATION FairSpec
CONSTANTS
  BufLen = 64
  Reach = 12
  SockQLen = 1
  Datagram <- AllDatagrams
  StackWord <- OldWord
INVARIANTS
  TypeOK
  DumpShowsMessage
  NoRemnant
  BufferHolds
  RefusalHasCause
PROPERTIES
  BackToRecv
  ImplementsMonitor
