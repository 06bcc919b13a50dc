SPECIFICATION SpecAll
CONSTANTS
  Last = 3
  MaxDataId = 1
  maxCSynTimes = 2
  MaxLosses = 3
  GapMaxDataId = 2
  GapTimes = 3
  GapLosses = 2
  nNodes = 3
  Links <- MCLinks
  LossyLinks <- MCLossyLinks
  IdSpace = 4
  nQueue = 3
  Traffic <- MCTraffic
  MaxLostPackets = 2
  ListIdSpace = 7
INVARIANTS SubscriberOnce AckSettles GivesUpSpent GapsAsked SeenExactly LossesRepaired
CHECK_DEADLOCK FALSE
