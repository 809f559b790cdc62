SPECIFICATION Spec
CONSTANTS
  Procs = {p1, p2}
  first = p1
  F = 19
  V = 6
  T = 3
  Stack = 2
  StackInit = 1
  ArgPages = 2
  Programs <- MCPrograms
INVARIANTS
  FramesExact
  SpacesOK
  NoKernelFault
CHECK_DEADLOCK FALSE
