SPECIFICATION Spec
CONSTANTS
  PrimPath <- MCPrimPath
  PrimPathID = 0
  Rsps <- MCRsps
  NoPath = 99
  PrimSuccs <- MCPrimSuccs
  RspSuccs <- MCRspSuccs
  OtherLinks <- MCOtherLinks
INVARIANTS
  PreferredNotFailed
