SPECIFICATION FairSpec
CONSTANTS
  Outgoing <- MCMixed
  MaxSent = 3
  RecordMax = 13
  RecvMax = 8
  Receiver = "manager"
INVARIANTS
  TypeOK
  EofIsLast
  NothingPastForeign
PROPERTIES
  ChannelSpec
  EveryMessageDecodedOrHeld
CHECK_DEADLOCK FALSE
