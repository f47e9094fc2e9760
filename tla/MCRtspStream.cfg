SPECIFICATION Spec
CONSTANTS
  NMAX = 3
  Shape <- MCShape
  MaxPut = 4
  SEQ_LIMIT = 3
  MaxViews = 2
CHECK_DEADLOCK FALSE
INVARIANTS
  TypeOK
  CountInRange
  LentIntact
PROPERTIES
  ImplementsFrameQueue
  GapsAreVisible
  FrameTaken
