SPECIFICATION Spec
CONSTANTS
  Procs = {p1, p2, p3, p4}
  MaxSleep = 3
INVARIANTS
  TypeOK
  HeadHasTicks
PROPERTIES
  ImplementsTimerAbs
  TimerRunsOut
