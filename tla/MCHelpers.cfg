SPECIFICATION Spec
CONSTANTS
  ByteBits = 4
  WordBytes = 4
  ExpBits = 4
  I8 = 1
  I16 = 2
  I32 = 4
  I64 = 4
  F32 = 2
  F64 = 4
  WideMod = 64
  Size = 16
  Memory0 <- MCMemory0
  Segments <- MCSegments
  SomeVectors <- MCVectors
  SomeFloatVectors <- MCFloatVectors
  SomeNumbers <- MCNumbers
  SomeBytes = {0, 21}
  SomeFloats <- MCFloats
  SomeDoubles <- MCDoubles
  Shuffles <- MCShuffles
  Counts = {0, 1, 3, 4, 7, 8, 15, 16, 17, 63}
  SomeAddresses = {0, 2, 15, 16, 31}
  SomeOffsets = {0, 1, 8}
  AtomicOperands = {0, 1, 169, 425, 65535, 65537}
  WideAddresses <- MCWideAddresses
  Lengths = {0, 1, 3, 62}
  MaxCalls = 2
  EndTop = 31
  CodeValues <- MCCodeValues
  ShortValues <- MCShortValues
  CodeAddresses = {0, 3, 100, 130, 200}
  IEEE <- MCIEEE
  Exceptional = FALSE
INVARIANTS
  PureMeansWasm
PROPERTIES
  ImplementsWasmInstance
CHECK_DEADLOCK FALSE
