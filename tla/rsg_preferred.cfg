SPECIFICATION PartsSpec
CONSTANTS
  PrimPath <- MCPrimPath
  PrimPathID = 0
  Rsps <- MCRsps
  NoPath = 99
  PrimSuccs <- MCPrimSuccs
  RspSuccs <- MCRspSuccs
  OtherLinks <- MCOtherLinks
  Succ <- MCSucc
  Failing <- MCFailing
INVARIANTS
  RspStatusExact
  PreferredIsBest
  AnswersComeBack
  SettledDelivers
PROPERTY
  CapsulesMoveOn
