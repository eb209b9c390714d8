CONSTANTS
  main = main
  agent = agent
  Threads <- MCThreads
  Main <- main
  Ops <- MCOps
  NoOp = NoOp
  Whole = Whole
  Base = 2
  NumLanes = 2
SPECIFICATION Spec
INVARIANTS
  TypeOK
  FastPathAlone
PROPERTIES
  ImplementsAtomicMemory
