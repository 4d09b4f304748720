SPECIFICATION Spec
CONSTANTS
  a1 = a1
  Addrs = {a1}
  MaxConns = 1
  MaxBytes = 1
  Batch = 1
  Events = {"host_write", "svc_write", "refuse"}
PROPERTIES
  CloseOfCleanedUpProceeds
CHECK_DEADLOCK FALSE
