SPECIFICATION FairSpec
CONSTANTS
  Users = {u1, u2}
  idle = idle
  init = init
  NoProc = NoProc
  AnyChild = AnyChild
  MaxProcess = 4
  BufSize = 1
  MaxRead = 2
PROPERTIES
  KilledDies
