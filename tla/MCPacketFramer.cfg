SPECIFICATION FairSpec
CONSTANTS
  Byte <- MCByte
  TAG1 = 14
  TAG2 = 13
  HEADER = 3
  MAX_LEN = 6
  Packets <- MCPackets
  MaxSent = 2
  MaxConnections = 3
INVARIANTS
  TypeOK
  PacketsAreThoseSent
  NoByteLost
PROPERTIES
  SentIsDelivered
  ImplementsArrivals
