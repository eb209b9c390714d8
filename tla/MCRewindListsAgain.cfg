CONSTANTS
    Movers = {t1}
    Users = {t2}
    Host = host
    Names = {1, 2}
    Paths <- MCPaths
    NewPaths <- MCNewPaths
    HostPaths <- MCHostPaths
    MaxNodes = 3
    Entries = {e1, e2}
    Bytes = {1}
    HostBytes = {2}
    MaxSize = 1
    MaxBufs = 1
    None = None
    Rewinds = TRUE
    Careless = FALSE
SPECIFICATION Spec
SYMMETRY Interchangeable
INVARIANT WalkListsSnapshot
CHECK_DEADLOCK FALSE
