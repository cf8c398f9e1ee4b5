SPECIFICATION Spec
CONSTANTS
  Octet = {0, 2, 10, 20}
INVARIANTS
  TypeOK
  AliasOnTheWire
