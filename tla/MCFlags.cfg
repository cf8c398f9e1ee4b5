SPECIFICATION Spec
CONSTANTS
  BufSize = 100
  Message <- Messages
INVARIANTS
  TypeOK
  StringIsNames
  SixFlagsNeeded
