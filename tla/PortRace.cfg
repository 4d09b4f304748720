SPECIFICATION Spec
CONSTANTS
  c1 = c1
  c2 = c2
  Clients = {c1, c2}
  MaxPort = 3
  Worlds <- MCWorlds
INVARIANT PortsExclusive
CHECK_DEADLOCK FALSE
