SPECIFICATION Spec
CONSTANTS
  a1 = a1
  a2 = a2
  Addrs = {a1, a2}
  MaxConns = 1
  MaxBytes = 0
  Batch = 2
  Events = {"svc_fin"}
SYMMETRY Symmetry
PROPERTY HostsReachService
CHECK_DEADLOCK FALSE
