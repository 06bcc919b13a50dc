SPECIFICATION PartsSpec
CONSTANTS
  Ids = {d1, d2, d3, d4}
  InitLen = 1
  MaxTime = 3
  MaxDataId = 4
  size = 2
  maxWaitTime = 2
  ArrivalTime = 3
  TicksPerSec = 2
  Period = 2
  Factor = 6
  SilenceTime = 12
  HeapSize = 9
  HeapSource = 3
  Top = 2
  MaxUpdates = 3
  Routers = {1, 2, 3, 4, 5}
  Graphs <- MCGraphs
  Delay = 2
  QueueDelay = 1
  NumRetransRequests = 2
  Beta = 2
  IntMax = 15
  Faces = {"a", "b", "u", "v"}
  Up = "u"
  Down = "a"
  Callers = {"a", "b"}
  Names = {"s", "t", "y"}
  Nonces = {7, 8}
  Datas = {1, 2, 3}
  Matches <- MCMatches
  StreamNames = {"s", "t"}
  StreamDatas = {1, 2}
  MustBeFresh = {"t"}
  FreshnessPeriod <- MCFreshness
  DnlLifetime = 6
  Lifetime = 1
  PitDuration = 2
  CsLimit = 1
  Configs <- MCConfigs
  ForwardTime = 2
  Packets <- MCPackets
  NoField <- MCNoField
  Mtu = 4
  MarkSize = 1
  Interval0 = 2
  MaxSent = 3
  MaxLosses = 1
  LinkTime = 3
  Programs <- MCPrograms
  NamesOfApp = {"s"}
  MaxPackets = 3
  FaceTime = 1
  PktBits = 3
  BitTicks = 2
  MaxBytes = 3
  OnTimes = {1, 5, 7}
  OffTimes = {0, 2}
  LoadTime = 18
  MaxNodes = 3
  Pmus = {1, 2}
  Pdcs = {1, 2}
  Prefix <- MCPrefix
  Subscriptions <- MCSubscriptions
  Piat = 2
  OneSecond = 1
  ControlTime = 3
  MaxInFlight = 2
  MaxCapsules = 3
  AppTime = 5
INVARIANTS
  TypesOK
  Consistent
  SilenceSuspected
  RoutesSound
  GraphSound
  StreamStaysOpen
  LinkFaithful
  FaceSound
  RateKept
PROPERTIES
  StreamsSound
  NeverForgets
  HeapSound
  InterestsSettled
  PassedInOrder
CHECK_DEADLOCK FALSE
