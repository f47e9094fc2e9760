CONSTANTS
  Byte = {b0, b1}
  m_BuffSize = 3
  Input <- MCInput
  Request <- MCRequest
SPECIFICATION Spec
INVARIANTS
  TypeOK
  FullMeansIndicesMeet
PROPERTY
  ImplementsQueue
