CONSTANTS
  Threads = {t1, t2}
  Ops = {o1, o2, o3}
  Files = {f1, f2}
  Conns = {c1, c2}
  None = None
  MaxFD = 6
  GuestFds = {1, 4, 5, 6}
  AnyTarget = FALSE
  SharedDial = FALSE
SPECIFICATION Spec
SYMMETRY Interchangeable
INVARIANTS
  TypeOK
  RefsCountSlots
  LiveHandlesOpen
  HandlesOwned
PROPERTIES
  FreshFdIsFree
CHECK_DEADLOCK FALSE
