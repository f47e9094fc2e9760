SPECIFICATION TcpSpec
CONSTANTS
  Addr <- MCOneAddr
  MAXSLEEP = 1
  ClientMsg <- NoClientMsg
  Kind = {"request", "refused", "unsupported"}
  MaxWire = 2
  MaxRequest = 2
  MaxQueueSize = 2
INVARIANTS
  TcpTypeOK
  UpMeansConnected
  DialOnlyWhileDown
  CommandsInOrder
  ResponsesInOrder
CHECK_DEADLOCK FALSE
