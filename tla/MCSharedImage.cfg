CONSTANTS
  Callers = {c1, c2}
  None = None
  Values = {0, 1}
  Size = 2
  DataEnd = 1
  BuildCeiling = 3
  Ceilings <- MCCeilings
  MaxLength = 4
  OneCeiling = TRUE
SPECIFICATION Spec
SYMMETRY Interchangeable
INVARIANTS
  TypeOK
  MappedIsBacked
  NothingAboveKept
PROPERTIES
  OwnWritesOnly
