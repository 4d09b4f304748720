SPECIFICATION FairSpec
CONSTANTS
  Outgoing <- MCForeign
  MaxSent = 2
  RecordMax = 20
  RecvMax = 20
  Receiver = "manager"
PROPERTY BadVersionEndsThread
CHECK_DEADLOCK FALSE
