SPECIFICATION FairSpec
CONSTANTS
  c1 = c1
  c2 = c2
  Clients = {c1, c2}
  MaxPort = 3
  Worlds <- MCWorlds
INVARIANTS
  TypeOK
  OnlyAuthenticated
  AnnouncedIsServed
PROPERTIES
  HandshakeEnds
  DestroyAnswered
  PortsReleased
  ServerStops
CHECK_DEADLOCK FALSE
