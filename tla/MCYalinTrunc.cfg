SPECIFICATION Spec
CONSTANTS
  BufLen = 64
  Reach = 12
  SockQLen = 2
  Datagram <- TruncDatagrams
  StackWord <- ZeroWord
INVARIANTS
  TruncatedEndsLoop
