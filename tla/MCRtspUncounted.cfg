SPECIFICATION Spec
CONSTANTS
  c1 = c1
  c2 = c2
  c3 = c3
  Client <- MCClient
  MAX_CONNECTION = 2
  MaxRegular = 2
  MaxIrregular = 0
  MaxBelow = 1
SYMMETRY Symmetry
CHECK_DEADLOCK FALSE
INVARIANTS
  PlayingIsCounted
