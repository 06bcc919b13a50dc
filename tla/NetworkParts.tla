---------------------------- MODULE NetworkParts ----------------------------
(***************************************************************************)
(* The parts that run with the network and keep a state of their own,      *)
(* which no other part reads or writes: the ids a router remembers         *)
(* (DataIdQueue), the resequencing queue of the PDC, the counters of the   *)
(* active link check, a forwarder, a link, the face of an application, the *)
(* traffic that loads the network, and the PMUs and PDCs.                  *)
(***************************************************************************)
EXTENDS DataIdQueue

CONSTANTS
  MaxDataId, size, maxWaitTime, ArrivalTime,   \* ResequenceQueue
  TicksPerSec, Period, Factor, SilenceTime,    \* ActiveCheck
  Faces, Up, Down, Callers, Names, Nonces, Datas, Matches, StreamNames, StreamDatas, MustBeFresh,
  FreshnessPeriod, DnlLifetime, Lifetime, PitDuration, CsLimit, Configs, ForwardTime,  \* PitForwarder
  Packets, NoField, Mtu, MarkSize, Interval0, MaxSent, MaxLosses, LinkTime,   \* LinkService
  Programs, NamesOfApp, MaxPackets, FaceTime,  \* NdnFace
  PktBits, BitTicks, MaxBytes, OnTimes, OffTimes, LoadTime,   \* OnOffTraffic
  Pmus, Pdcs, Prefix, Subscriptions, Piat, OneSecond, ControlTime, MaxCapsules, MaxInFlight,
  AppTime                                      \* Applications

VARIABLES
  lastDataId, q_seq, q_time, tasks, rnow, arrived, passed, promised,
  tick, init_secs, last_count_secs, counts, waitCap, events, arrivals, checks,
  config, pit, deadNonces, cs, fnow, asked, answers, lastSent, streamed,
  allowFragmentation, allowReassembly, lastSeqNo, nextMarkTime, nMarked, wire, fragments, lnow,
  nOutOverMtu, sent, received, longSince, losses,
  program, calls, posted, pending, filters, prefixes, connected, receiving, anow, nextId, nPackets,
  outcomes, given, nacks, dropped, leaving, closed,
  running, sendAt, startStop, lastStartTime, residualBits, dataID, onow, onTime, lastOn, cuts,
  kind, pnow, nextDataId, streamAt, interestAt, controlAt, net, lastCapsule, arrival

R == INSTANCE ResequenceQueue WITH now <- rnow, MaxTime <- ArrivalTime
A == INSTANCE ActiveCheck WITH now <- tick, MaxTime <- SilenceTime
F == INSTANCE PitForwarder WITH now <- fnow, MaxTime <- ForwardTime
L == INSTANCE LinkService
       WITH now <- lnow, MaxTime <- LinkTime, parts <- fragments, None <- NoField
N == INSTANCE NdnFace WITH now <- anow, MaxTime <- FaceTime, Names <- NamesOfApp
T == INSTANCE OnOffTraffic
       WITH now <- onow, MaxTime <- LoadTime, MaxPackets <- MaxBytes
P == INSTANCE Applications
       WITH now <- pnow, dataId <- nextDataId, sendAt <- streamAt, lastSent <- lastCapsule,
            Second <- OneSecond, MaxTime <- AppTime

ASSUME QueueAssumption == R!ResequenceQueueAssumption
ASSUME CheckAssumption == A!ActiveCheckAssumption
ASSUME ForwarderAssumption == F!PitForwarderAssumption
ASSUME LinkAssumption == L!LinkServiceAssumption
ASSUME FaceAssumption == N!NdnFaceAssumption
ASSUME LoadAssumption == T!OnOffAssumption
ASSUME AppsAssumption == P!ApplicationsAssumption
=============================================================================
