SPECIFICATION Spec
CONSTANTS
  PrimPath <- MCPrimPath
  PrimPathID = 0
  Rsps <- MCRsps
  NoPath = 99
  Succ <- MCSucc
  MaxLsas = 3
  Failing <- MCFailing
INVARIANTS
  AdvertisedIsCurrent
  ViewsConverge
  RouteJoins
  AppliedOnce
CHECK_DEADLOCK FALSE
