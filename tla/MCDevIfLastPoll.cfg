SPECIFICATION Spec
CONSTANTS
  Addr <- MCOneAddr
  MAXSLEEP = 1
  ClientMsg <- DevClientMsg
  Kind = {"reply"}
  MaxWire = 1
  MaxRequest = 0
  MaxQueueSize = 1
  DEV_HEARTBEAT_TIMEOUT = 2
  MaxOwed = 1
  DeviceAsks = FALSE
  MayFallSilent = FALSE
PROPERTIES
  AnsweredHeartbeatKeepsConnection
