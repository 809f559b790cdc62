SPECIFICATION Spec
CONSTANTS
  N = 4
  U = 5
  Small = {2}
  Large = {5, 10}
  Direct = {2}
INVARIANTS
  PagesExact
  SlobExact
PROPERTIES
  ImplementsHeapAbs
