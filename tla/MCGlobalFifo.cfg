SPECIFICATION Spec
CONSTANTS
  p1 = p1
  p2 = p2
  p3 = p3
  Process <- MCProcess
  Byte <- MCByte
  GLOBALFIFO_SIZE = 2
  Input <- MCInput
  Request = {1, 2}
SYMMETRY Symmetry
INVARIANTS
  TypeOK
  NoReaderMissesData
  NoWriterMissesRoom
PROPERTIES
  IsAQueue
