SPECIFICATION TcpFairSpec
CONSTANTS
  Addr <- MCAddr
  MAXSLEEP = 2
  ClientMsg <- NoClientMsg
  Kind = {"reply"}
  MaxWire = 1
  MaxRequest = 0
  MaxQueueSize = 1
PROPERTIES
  ConnectsWhereConfigured
  ComesBack
  LossNoticed
