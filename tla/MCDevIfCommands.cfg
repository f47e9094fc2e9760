SPECIFICATION Spec
CONSTANTS
  Addr <- MCAddr
  MAXSLEEP = 1
  ClientMsg <- DevClientMsg
  Kind = {"request"}
  MaxWire = 1
  MaxRequest = 2
  MaxQueueSize = 1
  DEV_HEARTBEAT_TIMEOUT = 1
  MaxOwed = 0
  DeviceAsks = FALSE
  MayFallSilent = FALSE
INVARIANTS
  CommandsAppliedInOrder
PROPERTIES
  ImplementsCommandChannel
