SPECIFICATION Spec
CONSTANTS
  a1 = a1
  Addrs = {a1}
  MaxConns = 2
  MaxBytes = 1
  Batch = 1
  Events = {"host_write", "svc_write", "host_fin", "host_reset", "svc_fin", "svc_reset", "refuse"}
INVARIANTS
  TypeOK
  ServiceGetsOneStream
  HostGetsInOrder
  NewIsFresh
  TablesAgree
CHECK_DEADLOCK FALSE
