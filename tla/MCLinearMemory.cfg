CONSTANTS
  main = main
  agent = agent
  host = host
  Agents <- MCAgents
  Main <- main
  Hosts <- MCHosts
  None = None
  NoOp = NoOp
  Trap = Trap
  Values <- MCValues
  Ops <- MCOps
  InitPages = 1
  InitCap = 2
  Ceiling = 3
  MaxMem = 3
  HardCap = 3
  TailPointers = FALSE
SPECIFICATION FairSpec
INVARIANTS
  TypeOK
  SliceCoversMemory
  CheckedStaysInside
  TailIsZero
PROPERTIES
  GrowReturns
  ImplementsWasmMemory
