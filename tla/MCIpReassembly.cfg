SPECIFICATION Spec
CONSTANTS
  Files <- MCFiles
  PoolSize = 7
  MaxFrag = 4
INVARIANTS
  TypeOK
  MbufsAccounted
  FailsOnBadFile
  CompleteAreShown
