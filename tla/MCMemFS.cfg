CONSTANTS
    Movers = {t1}
    Users = {t2}
    Host = host
    Names = {1, 2}
    Paths <- MCPaths
    NewPaths <- MCNewPaths
    HostPaths <- MCHostPaths
    MaxNodes = 3
    Entries = {e1, e2}
    Bytes = {1}
    HostBytes = {2}
    MaxSize = 1
    MaxBufs = 1
    None = None
    Rewinds = FALSE
    Careless = FALSE
SPECIFICATION Spec
SYMMETRY Interchangeable
INVARIANTS TypeOK WalkListsSnapshot
PROPERTIES NothingLost ImplementsFileStore
CHECK_DEADLOCK FALSE
