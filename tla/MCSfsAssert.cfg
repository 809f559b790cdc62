SPECIFICATION Spec
CONSTANTS
  Files = {f1, f2}
  NoFile = NoFile
  Fds = {d1, d2}
  Blocks = {1, 2, 3}
  BlkSize = 2
  NDirect = 1
  MaxSize = 4
  MaxLen = 2
  AccModes = {"O_RDWR"}
  Vals = {5}
INVARIANT
  AssertionsHold
