SPECIFICATION Spec
CONSTANTS
  SizeT = 65536
  LinkInfo <- KindsAndSlaves
  LinkAttr <- LinkAttrs
INVARIANTS
  KindComesFirst
