SPECIFICATION FairSpec
CONSTANTS
  a1 = a1
  Addrs = {a1}
  MaxConns = 2
  MaxBytes = 2
  MaxPeerBytes = 1
INVARIANTS
  TypeOK
  Lifecycle
  ConnectionsAlive
  ReceivedInOrder
  NoStrandedBytes
PROPERTIES
  SleepsOnlyAfterUnknown
  ShutdownCompletes
  OutboundDrains
  BytesReachHost
CHECK_DEADLOCK FALSE
