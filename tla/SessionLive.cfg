SPECIFICATION FairSpec
CONSTANTS
  a1 = a1
  Addrs = {a1}
  MaxConns = 1
  MaxBytes = 1
  Batch = 1
  Events = {"host_fin", "host_reset", "refuse", "svc_write", "svc_fin", "svc_reset",
            "server_interrupt", "client_interrupt", "long_record"}
PROPERTIES
  HostCloseReachesClient
  ServiceCloseReachesHost
  ClientInterruptEndsRelay
  ServerInterruptEndsClient
CHECK_DEADLOCK FALSE
