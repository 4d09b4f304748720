SPECIFICATION Spec
CONSTANTS
  a1 = a1
  a2 = a2
  Addrs = {a1, a2}
  MaxConns = 1
  MaxBytes = 1
  MaxPeerBytes = 1
INVARIANT ResetClosesOneConnection
CHECK_DEADLOCK FALSE
