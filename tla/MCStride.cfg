SPECIFICATION Spec
CONSTANTS
  init = p1
  Late = {p2, p3}
  Sleepers = {p1}
  Null = Null
  idle = idle
  Priorities = {1, 3}
  Big = 3
  MaxSlice = 1
INVARIANTS
  TypeOK
  PoolExact
PROPERTIES
  StaysInWindow
  PicksMinimum
  NoStarvationOnceSettled
