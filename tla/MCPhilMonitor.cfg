SPECIFICATION Spec
CONSTANTS
  N = 4
  Times = 2
INVARIANTS
  QueuedAsleep
  NeighboursExclude
  MonitorExclusive
  SignalledMayEat
PROPERTIES
  AllQuit
