SPECIFICATION Spec
CONSTANTS
    Byte = 4
    VLen = 2
    PageBytes = 4
    InitPages = 1
    MaxPages = 2
    LargeConst = 3
    Window = 8
    DupFactor = 8
    DupSlack = 64
    NestCap = 200
    InlineMaxBody = 30
    InlineMaxProduct = 60
    InlineCallerBudget = 60
    InlineNonLeafMaxBody = 12
    NoInline <- MCNoInline
    OutlineMinValues = 7
    OutlineV128MinBody = 600
    FixpointCap = 8
    Fuel = 40
    ScanRegs <- MCScanRegs
    CarryRegs <- MCCarryRegs
    Callees <- MCCallees
    Programs <- MCPrograms
    Inputs <- MCInputs
INVARIANTS Verified EmittedMeaning AssembledMeaning FixpointBeforeCap ReadsHeld
PROPERTIES MeaningKept
CHECK_DEADLOCK FALSE
