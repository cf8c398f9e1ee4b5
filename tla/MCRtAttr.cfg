SPECIFICATION FairSpec
CONSTANTS
  SizeT = 65536
  LinkInfo <- Kinds
  LinkAttr <- LinkAttrs
INVARIANTS
  TypeOK
  VlanShown
  ReadsInside
PROPERTIES
  WalkEnds
