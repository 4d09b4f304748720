SPECIFICATION FairSpec
CONSTANTS
  MaxMsgs = 2
  Bound = 1
  Room = 1
  Worlds <- MCWorlds
INVARIANTS
  TypeOK
  NeverSleepsOnWork
  ManagerIdles
PROPERTIES
  Channels
  EverythingArrives
  EndsTogether
CHECK_DEADLOCK FALSE
