SPECIFICATION Spec
CONSTANTS
  Procs = {init, p1, p2}
  init = init
  MaxPid = 5
  MaxProcess = 4
  NEntry = 2
  Std = 1
  root = root
  Dirs = {root}
  Regular = {prog}
  Devs = {stdin}
  None = None
  MaxLost = 1
INVARIANTS
  PidsUnique
  Counted
PROPERTY
  GetPidReturns
CHECK_DEADLOCK FALSE
