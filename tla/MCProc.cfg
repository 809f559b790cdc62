SPECIFICATION Spec
CONSTANTS
  Users = {u1, u2, u3}
  idle = idle
  init = init
  NoProc = NoProc
  AnyChild = AnyChild
  MaxProcess = 5
  BufSize = 1
  MaxRead = 2
SYMMETRY Symmetry
INVARIANTS
  TypeOK
  RunPoolExact
  ControlOK
  NoLostChildWakeup
  NoLostKey
  StackRefsLive
  FamilyOK
  NoDangling
  InitQuits
