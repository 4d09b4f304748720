SPECIFICATION FairSpec
CONSTANTS
  Outgoing <- MCFrames
  MaxSent = 2
  RecordMax = 20
  RecvMax = 13
  Receiver = "client"
PROPERTY EveryMessageDecoded
CHECK_DEADLOCK FALSE
