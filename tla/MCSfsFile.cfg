SPECIFICATION SpecMarked
CONSTANTS
  Files = {f1, f2}
  NoFile = NoFile
  Fds = {d1, d2}
  Blocks = {1, 2, 3}
  BlkSize = 2
  NDirect = 1
  MaxSize = 3
  AccModes = {"O_RDONLY", "O_RDWR"}
  MaxLen = 2
  Vals = {5}
INVARIANTS
  BlocksOwnedOnce
  BlocksMapped
  ZeroBeyondEnd
PROPERTIES
  ImplementsFlatFile
  FoundAgain
SYMMETRY Symmetry
