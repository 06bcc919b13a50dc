# Formal model of DRTP

DRTP (`src/README.md`) is a reliable transport for phasor measurements over a
wide-area network: a measurement unit (PMU) publishes *capsules* numbered
0, 1, 2, ..., routers push them down a *resilient routes subgraph* (RSG) to the
concentrator (PDC), and every router repairs losses itself by hop-by-hop
retransmission over the primary path and the redundant sub-paths (RSP) of the
RSG.  The program is a set of changes to ns-3 and ndnSIM; the sources modelled
are below `src/ndnSIM/ns-3/src/ndnSIM/` (called `D` here; `FW` is
`D/NFD/daemon/fw`).

Everything runs in one discrete event simulator: a handler or a timer callback
is atomic.  The concurrency is between *events*: capsules, copies, answers,
reports, link tests and timers of many routers in an order nobody chose.

## 1. Inventory

| component | state it keeps | operations | interacts with |
|---|---|---|---|
| Retransmission control, `FW/lltc-strategy-service-sublayer-*.cpp` | one `CapsuleForwardingStates` per RSG and prefix: `lastDataId`, transmitted ids, ids reported lost, wait entries, RequestS chains, RequestM batches, their timers | `onReceiveCapsule`, `onReceiveRetranS/M`, `onReceiveReport`, `onReceiveRequestS/M`, four timer callbacks | packet forwarding (sends and dispatch), content store (lookup), path control (preferred path, link test on a gap) |
| Message helper, `FW/lltc-messages-helper.cpp` | none | constructors and parsers of the ten message kinds | all strategy parts |
| Packet forwarding, `FW/lltc-strategy-forwarding-sublayer-packet-forwarding.cpp` | the forwarding entries | dispatch of PIT and non-PIT data, sends | retransmission control, path control, faces |
| Path control, `...-path-control.cpp` | echo states, face status, seen LSAs, own previous LSA, timers per face | echo, back, link tests, LSA flooding, preferred path | RSG subgraph, forwarding |
| RSG subgraph, `D/model/lltc/lltc-resilient-routes-subgraph.cpp` | graph of one RSG, link status | status update, preferred path of a node | path control |
| Transmitted-id queue, `FW/lltc-common.cpp` | queue, set, time map, capacity | `push`, `pop`, `contains` | retransmission control |
| PDC, `D/apps/lltc-pdc.cpp` | resequencing queue with timers | `receiveData`, `releaseQueue`, `autoDequeueTask` | last router |
| PMU, `D/apps/lltc-pmu.cpp`, and the PMUs and PDCs of the baselines | next id, one timer per Interest | `OnInterest`, `sendData` at a fixed rate; `SendInterest`, `OnData` | first and last router |
| Forwarder, strategy base, content store (modified NFD), `D/NFD/daemon/{fw,table}` | PIT, dead nonces, CS | interest, data and nack pipelines | strategies, faces |
| Link service, `D/NFD/daemon/face` | sequence number, fragments, congestion state | `sendNetPacket`, `receivePacket` | forwarder, links |
| Face of an application, `D/ndn-cxx/ndn-cxx/face.cpp` | pending Interests, filters, registered prefixes, posted calls | express, put, register, shutdown, receive | applications, forwarder |
| On/off traffic, `applications/model/onoff-application.cc` | residual bits, two events | start, stop, send | links |
| Baselines SDATP, MFTP, R2T, `FW/{sdatp,mftp,r2t}-strategy.cpp` | per-hop buffers, timers, acknowledgement state | their handlers and timers | forwarder |
| Frame replication, `applications/model/pa-app.cc` | lists of recent packets per flow | replicate, deduplicate, flush | sockets |
| Route generation, `D/model/lltc/*generation*.cpp`, graph, heap | graphs, paths, timeouts | loaders, Dijkstra, redundant sub-paths, timeouts | routing helper |
| Routing helper, configuration, logging, scenarios | FIB set-up, parameters | run once or pure I/O | - |

Hard behaviours, each with its line in `PROJECT.json` under `hazards`:

- the original of a capsule, its copy from a sub-path, a single and a batch
  answer race, and a sub-path takes some on under another id (`DeliveredOnce`,
  `Delivers`);
- a gap is found from `lastDataId` while the ids in it may be in any of four
  tables (`DetectionSound`);
- tables and queued events are separate and must be cleared together
  (`RequestsTracked`);
- chains and batches retry on a budget (`Quiesces`), and timers, reports and
  requests of neighbours must repair one another's losses (`OneLossRepaired`);
- link tests overlap, their echos and answers are lost or late
  (`VerdictsSound`, `StatusFollowsLink`);
- link state advertisements cross each other and come back to their origin
  (`ViewsConverge`, `RouteJoins`, `AppliedOnce`, `AdvertisedIsCurrent`);
- each router chooses its next hop alone (`PreferredIsBest`, `RouteJoins`), and
  messages travel while the routers' views differ (`CapsulesMoveOn`,
  `SettledDelivers`, `AnswersComeBack`);
- a full or late resequencing queue (`PassedInOrder`);
- keys rise deep in the heap of the route searches (`HeapSound`), sums overflow
  behind nodes not reached and searches share sets of forbidden links
  (`RoutesSound`);
- acknowledgements of the baselines race their timers (`AckSettles`,
  `GivesUpSpent`), copies race over two paths and a flush over both
  (`SeenExactly`, `LossesRepaired`);
- long-lived entries of streams share timers with Interests and Nacks, and loops
  come back after their entry is gone (`StreamStaysOpen`, `InterestsSettled`);
- tags travel in first fragments only, marks are counted from the last one
  (`LinkFaithful`), calls of an application take effect later (`FaceSound`);
- streams for several PDCs share one counter and prefixes begin one another
  (`StreamsSound`); files name links twice (`GraphSound`); a load is cut short
  (`RateKept`).

What makes each component correct, in one line: a router delivers a capsule
once and loses track of none; the chain repairs what its links lose; a face has
the status its link has earned; the routers' preferred paths join into one best
route; a sub-path shares no link with what it bypasses, and the timers behind a
router wait for it; a remembered id is not forgotten; the PDC's queue neither
loses nor reorders more than its waiting time forces it to; a forwarder answers
an Interest once and keeps a stream open; a link gives on whole packets with
their own tags; an application's Interest has one outcome.

## 2. Plan

| # | module | what | state |
|---|---|---|---|
| 1 | `LltcRouter` | the handlers and timers of one router as operators on the record `CapsuleForwardingStates` | done |
| 2 | `RetransControl` | one router under every environment | done |
| 3 | `RetransControlProofs` | `TypeOK`, `DeliveredOnce`, `RequestsTracked`, `DetectionSound` for all constants, `ExclusiveRetransmission` at a first hop | done |
| 4 | `IdMemory`, `DataIdQueue`, `NetworkPartsProofs` | the transmitted-id queue implements a memory that never forgets | done |
| 5 | `ResequenceQueue`, `ActiveCheck`, `NetworkParts`, `MCLocalParts`, `NetworkPartsProofs`, `LocalPartsProofs` | resequencing at the PDC, the counters of the active link check; `PassedInOrder`, `SilenceSuspected` for all constants | done |
| 6 | `RsgSubgraph`, `RsgSubgraphProofs`, `RsgPreferredPath`, `RsgForwarding`, `MCRsgForwarding`, `RsgForwardingProofs` | the RSG as each router sees it, preferred path against a reference definition, messages along the paths installed; `CapsulesMoveOn`, `AnswersComeBack`, `RspStatusExact` for all constants | done |
| 7 | `LinkTests`, `PathControl`, `PathControlProofs` | link tests of one router; LSA flooding and preferred paths of all routers, on 6; `AdvertisedIsCurrent`, `AppliedOnce`, `ViewsConverge`, `RouteJoins` for any RSG | done; next more than one RSG |
| 8 | `HopLinks`, `StreamDelivery`, `DrtpChain`, `DrtpChainProofs` | PMU, routers of 1, lossy links; implements a stream delivered at most once, `Delivers` for all constants | done; next redundant sub-paths and the PDC of 5 behind it |
| 9 | `R2tChain`, `MftpChain`, `SdatpChain`, `MCBaselines`, `BaselinesProofs` | the baselines on the links of 8; `SubscriberOnce`, `AckSettles`, `GivesUpSpent`, `GapsAsked` for all constants | done |
| 10 | `PaList`, `PaFlow`, `BaselinesProofs` | the frame replication baseline: telling copies, holding packets ahead of a gap, forwarding on two paths; `SeenExactly` for all constants | done |
| 11 | `FibonacciHeap`, `RouteGeneration`, `GraphLoading` | the heap; paths and timers of the drtp-simple generator against a reference; the loaders of the graph | done; next the static routes |
| 12 | `PitForwarder`, `NetworkPartsProofs` | PIT, dead nonces and content store, with the long-lived entries of streams; `InterestsSettled`, `StreamStaysOpen` for all constants | done; next the composition with 2 |
| 13 | `LinkService`, `NdnFace`, `Applications`, `OnOffTraffic`, `NetworkPartsProofs`, `LocalPartsProofs` | what carries the messages, and what sends and takes them; `LinkFaithful`, `FaceSound`, `StreamsSound`, `RateKept` for all constants | done; next `LinkService` below the hops of 8 |

`LltcRouter` has no variables on purpose: `RetransControl` and `DrtpChain`
compose the same translation of the code.  In the same way `RsgSubgraph` serves
`RsgPreferredPath`, `RsgForwarding` and `PathControl`, and `HopLinks` serves all four chains.
The `MC` modules only give constants their values or put parts side by side: both halves
of an RSG, search and forwarding, are checked on the paths of `MCRsgSubgraph`.
`NetworkParts` holds the constants, variables and assumptions of the parts of
`MCLocalParts` that run with the network, so that `NetworkPartsProofs` is about these and
nothing else.

## 3. Modules and the code

### LltcRouter and RetransControl

A router is a record with the fields of `CapsuleForwardingStates`, the events
the simulator has queued for it (`waitTimers`, `singleTimers`, `batchTimers`,
and the report timers in `WaitForRetransInBatchEvents`), the content store
`localCs` and `out`, what the running handler sends.  Every handler is an
operator from record to record; `RetransControl` turns each into an action and
`Commit` takes the messages out.

| action | code |
|---|---|
| `ReceiveCapsule`, `ReceiveCapsuleOnRsp` | `onReceiveCapsule` (a capsule on the PIT path is in the content store first) |
| `ReceiveRetranS`, `ReceiveRetranSMiss`, `ReceiveRetranM` | `onReceiveRetranS`, `onReceiveRetranM`; a Miss carries id 0 as the helper builds it |
| `ReceiveReport` | `onReceiveReport`, from a source with or without a configured timeout |
| `WaitTimeout`, `SingleTimeout`, `BatchTimeout`, `ReportTimeout` | the four callbacks |
| `SwitchDownPath` | `updatePreferredPathWithLSA`, seen from one RSG |

Abstractions: time (a queued timer may fire at any moment, so every order of
timers and arrivals the configured timeouts could give is included);
`transmittedDataIds` is a set, which `DataIdQueue` justifies; a path list is a
set; UIDs are model values.  The environment may answer any request it was sent
at any later time and again, with any id the store's lookup can return.  Where
the retransmission timeout of an entry is 0 the code starts no link test at the end
of a chain; the model always does, which no property here speaks of.

Observed: a RequestS is always answered with the closest capsule d from the id q it
asks for, and `onReceiveRetranS` hands `deliverCapsule` the id q (line 113).  On the
primary path the capsule is sent as it is.  On a redundant sub-path
`constructCapsuleOnRSP` gives it the name q, so that q may go down twice, with two
contents, and d never under its own id; the routers behind take the content of d for
q.  No document says otherwise.  So the model keeps both ids of a `CapsuleOnRSP`,
`delivered` counts *contents*, and `renamed` is a history of the pairs (q, d).
`DeliveredOnce` says that each content goes down exactly once, and that only this
case renames one, always to an earlier id that was asked for.  What arrives with
`ReceiveCapsuleOnRsp` is counted under the name it has when it arrives, since the
router sees no other.

### DrtpChain

The PMU (`Publish` is `sendData`), the routers `1..Last` of the primary path,
each an instance of `LltcRouter`, and the application at the last one.  The hops
are FIFO queues in both directions (`HopLinks`); `Lose` drops the first message
of one.  `ReceiveDown` is what `afterReceiveData` and `afterReceiveNonPitData`
dispatch to; `ReceiveUp` answers from the content store (`onReceiveRequestS`,
`onReceiveRequestM`, `lookupInCs`).  `constructRequestS` writes "Closest" when
the caller asks for no closest capsule, so a RequestS is always answered with
the closest one the store has.

Here timers are bound to what they wait for, as `computeRetranTimes` sets them:
the wait for a capsule expires only if a hop before the router lost it
(`dropped`), a retransmission timeout only when neither the request nor an
answer to it is under way (`addFibsFromPath` sets it to the delay of the link there and
back).  The wait for a reporting router is bound to nothing and may end at any
moment: `computeRetranTimes` adds up the timeouts of routers with sub-paths, which
this chain has none of, and what is left is a difference of queueing delays.  So a
router may ask, and spend its requests, while the router before it is itself
repairing.

`StreamDelivery` is what the application is promised: published capsules only,
each once.  `Delivers` is the refinement; `OneLossRepaired` says that one lost
message, whatever it is, costs no capsule but possibly capsule 0 (`lastDataId`
starts at 0, so nobody waits for it).  With two losses a capsule can be lost
for good: while router 2 repairs hop 1, router 3 spends all its requests at
router 2, and the repaired capsule is then lost on hop 2.

### DataIdQueue

`q`, `set`, `dataIdAddTimeMap` and `n` as in the class, `Push` and `Pop` its
operations, `now` the time handed to `push`.  `push` counts the capacity up
with each id, so the capacity of 1000 that the configuration names
`queueSizeForTransmittedDataIds` never bounds the queue: `CapacityAhead` and the
refinement `NeverForgets` say so.

### ResequenceQueue

`ReceiveInOrder` and `ReceiveOutOfOrder` are the branches of `receiveData`,
`AutoDequeueTask` the timer, `Tick` the clock, which moves only when no event is
left for the present.  `ReleaseQueue` is the code's three loops as sets (the run
that follows `lastDataId`, the aged ids, what is at or before the greatest aged
id).  The event scheduled by a push is never stored, so events accumulate:
`tasks` counts them.  Interests and names are in `Applications`; logs are left out.
`PassedInOrder` joins what it promises: a capsule is passed on once, no waiting
capsule is overtaken by a greater one, none is passed before its turn unless the
queue is full or a capsule has aged, and each leaves at the latest when the event
scheduled for it runs.

### RsgSubgraph and RsgPreferredPath

A *view* is one router's `linkStatusMap`; `UpdateLinkStatus` is
`rsgUpdateLinkStatus`, `ComputePreferredPathID` the search of
`rsgComputePreferredPathID` on the virtual links of the RSG, where a redundant sub-path is one virtual link.
`RsgPreferredPath` lets links fail and recover in any order and compares the
choices of all positions with a reference: the best product of success ratios
among the paths the code takes for usable.

### RsgForwarding

`FibEntries` is what `convertToFSes` and `addFibsFromPath` install for the
primary path and the sub-paths of one RSG.  A message is a capsule (on the
primary path or on a sub-path), a request or its answer; `Receive` is
`afterReceiveData` at the routers with the PIT entry of the stream, those of the
primary path, and `afterReceiveNonPitData` at the others.  `Learn` stands for an
advertisement that reaches one router (`PathControl` has their flooding), so the
views differ as much as they can.  Routers keep nothing of a message they pass
on: one message at a time stands for all.  Reports are in `RetransControl`;
control messages of the applications, PIT expiry and losses on working links are
left out.  `SettledDelivers` holds only while no sub-path has failed: the finding
of `rsg_failed_rsp` breaks it otherwise.

Observed while modelling, and no document says otherwise: the last router of a
primary path never changes `preferredUpPathId`, since the search only looks for
the node as a predecessor; and the applications' control messages carry the
primary path's number, so `forwardInNonPitRegionIfNecessary` keeps them on it
whatever path is preferred.

### FibonacciHeap and RouteGeneration

The heap keeps its circular lists as sequences that start at `maxNode` (or the
child pointer); `Cut`, `CascadingCut`, `IncreaseKey`, `MakeChild`,
`DegreewiseMerge` and `RemoveMax` are the methods of that name.  What it
promises, that a node with the greatest key is removed and nothing is lost, is
what `RouteGeneration` takes of it: `Nearest` is any of the nearest nodes, since
which one the heap gives depends on its shape.  `RouteGeneration` has one action
per round of `genPathDijkstra` and one per end of a search; `Plus` wraps around
at `IntMax` as the sum does in the build (signed overflow).  The path numbers
(`_nextPathID++`) are left out.  Its result is what `RsgSubgraphAssumption`
asks of the paths of an RSG.  The timers are operators on the finished routes:
`RetransTimeout`, `WaitForLostReport`, `WaitOnRetransReport` (times that
`computeRetranTimes` and its callers put in the entries) and `EntryTimeouts` (the
forwarding entries).  `WaitsAreStaged` compares them: a router that leaves a loss
to the routers before it waits longer than these wait and try.  It speaks of
routers with sub-paths only: one without also retries, on the primary link, but
its timeout stays 0 and the waits behind it take no account of it.

Observed, and no document says otherwise: a sub-path ends at the nearest node
before its own but may pass through later nodes of the primary path;
a link of `addLinkDual` takes its success ratio in both directions from `abRelia`;
`computeResilientRouteEEDT_N_InStep` counts the delays of sub-paths only where a
node has more than one; in the reroute generator the filter of sub-paths that
share a link with the primary path compares links at equal positions only.

### LinkTests, ActiveCheck and PathControl

`LinkTests`: `checkLinkConnectivityInPeriodic`, `...InActiveManner` and
`runLinkTestsAndDoUpdate` (`RunRound` and, once the rounds are over, `Finish`) as
actions on a queue of scheduled calls, echos and backs on links that fail,
recover and lose.  `ActiveCheck`:
`doActiveLinkConnectivityCheck` for one face, with the clock finer than the
seconds it counts in.  `PathControl`: `LinkTestOver` is the outcome of a
link test, `BroadcastingLsaTask` floods what changed, `OnReceiveLsa` and
`UpdatePreferredPathWithLSA` apply it.  The code applies the statuses of an
advertisement link by link; a sub-path is recomputed from all its links each time,
so that applying them at once (`UpdateLinkStatuses`) gives the same view, which
`AppliedLinkByLink` has TLC compare for every view and every table of statuses.
One RSG: the code's loop over RSGs
returns at the first one without a retransmission point (line 304), which is
listed as a hazard.

### GraphLoading

The three loaders as one automaton over the lines of a file: `state` is the
variable of that name in each loader, a line is the tuple its pattern picks.
`LoadFromIEEEDataFile`, `LoadFromBriteDataFile` and `LoadFromCSVDataFile` are one
round of their loops; `AddVirtNode` and `RemoveVirtNode` what the route searches
do with the virtual node.  Delays and success ratios are left out.  A branch that
names a bus the file has not listed joins node 0, since a missing key of
`nodeIdToIdx` reads as 0; `LoadsDescribed` says so.

### PitForwarder

The pipelines of `forwarder.cpp` on the PIT, the dead nonces and the content
store, with best-route, the streaming strategies or `LltcStrategy` above it
(`BestRoute`, `NextHops`, `StreamRoute`): `OnIncomingInterest` with its loop,
cache hit and cache miss, `OnInterestFinalize`, `OnIncomingData` with the branch
for Data below the prefix of streams (`OnStreamData`, where the entry is kept for
the configured time) and the plain one (`OnPlainData`), `OnIncomingNack`.  What
strategies do with a capsule afterwards is `LltcRouter` and the chains.

Observed, and no document says otherwise: a subscriber that arrives when an entry
is gone and a capsule is cached gets that one capsule and no stream; a Nack closes
an open stream.

### LinkService and NdnFace

`LinkService` is a sender and a receiver with a lossy link between: `EncodeLpFields`
(which tags go into which packet), `Fragment` and `Fits` (fragmentation on or off),
`CheckCongestionLevel` with its interval that shrinks, `ReceivePacket` with
reassembly, `DecodeInterest`, `DecodeData`, `DecodeNack`.  Marks on any but the
first fragment are lost at the receiver, which is what the code does, and a packet
sent without tags arrives with those of RSG 0 and path 0.

`NdnFace` has the calls of an application as posted operations that run later, in
order (`Call`, then one action per operation), and Interests, Data, Nacks, timeouts
and answers to registrations between them.  Observed: an unregistration before the
registration is answered is refused and leaves the filter; a shutdown leaves the
filters; `extractLpLocalFields` drops the RSG tag, so that a PMU of a remote
face would not see it.

### Applications and OnOffTraffic

`Applications` has PMUs and PDCs of the three kinds on a network that loses and
reorders.  A name is a sequence of pieces, so that one prefix can begin another.
An Interest of a second PDC starts a second timer on the same `dataId`:
`StreamsPaced` says that a stream skips an id only then.  `OnOffTraffic` is the
application that loads the links: `ScheduleNextTx`, `CancelEvents`, the residual
bits, with the two events of the simulator.  Its clock counts ticks, the resolution
of `ns3::Time`, several of them to a bit (`BitTicks`), since the code rounds twice.
`CancelEvents` keeps the whole bits of the time that passed (`bits.GetHigh()`,
`WholeBits`; of an exact number of bits possibly one less, as the product of fractions
is rounded down), and `Seconds(bits / rate)` in `ScheduleNextTx` may come out a tick
short.  So the load does not keep its rate exactly, and times on shorter than a bit send
nothing at all.  `RateKept` says how far it may be off: a tick early for each packet sent,
a bit late for each packet cut short (`cuts`), and nothing else, so that what passed
before a cut is neither counted twice nor forgotten.

### The baselines

`R2tChain`, `MftpChain` and `SdatpChain` have one action per branch of
`afterReceiveData` and one for the timer (`waitingCACK`, `waitingRD`), which may
fire at any moment.  What they show of the code beside the properties: the last
MFTP router returns before it remembers a capsule, so each of its CACKs is
empty; the timers of MFTP and SDATP are scheduled once, whatever `maxCSynTimes`;
R2T compares its count with `<=`, the others with `<`; SDATP's timer is given
the id just received and asks for that instead of the missing one.

`PaFlow` is frame replication on any topology given: every node passes on the
first copy it sees (`ProcessPacket`, with `PaList` to tell), the last one may put
packets in order (`RollIn`, `FlushQueue`).  `PaList` is also run alone, against the
set of ids it was asked about.  Identifications are not renewed: when 16 bits
begin again every packet is taken for a copy, which `LossesRepaired` states (it
promises the first `IdSpace` packets and no other).

## 4. Runs

| run | question | bounds and why they are enough |
|---|---|---|
| `retrans_core` | do the tables of one router stay consistent in every interleaving? | ids 0..3 (a gap of two ids needs three ids after the first), one up path, budget 1, one report; the down path starts as the primary path or a sub-path and moves between them at any time, so that answers are renamed; RSG 5, whose number is not that of a path (the other runs but `retrans_unreported` have RSG 0) |
| `retrans_reports` | and with two reports, one from a source without timeout; does every retransmission end? | ids 0..2, so that two reports can overlap and follow each other; budget 2 |
| `retrans_first_hop` | are chains and batches exclusive where no report arrives? | two up paths, budget 2, primary path or sub-path downwards |
| `retrans_not_exclusive` | README: exclusive execution for the same lost packet - violated | one report |
| `retrans_unreported` | comment: reports the lost packet when a wait expires - violated | RSG number differs from the path number |
| `drtp_chain` | does the chain deliver as `StreamDelivery` says, and repair one loss? | three routers (one before, one after the repairing router), ids 0..2, budget 2, two losses, RSG 0 (its number is its path's, so that reports of expired waits are sent) and RSG 1 (they are not) |
| `local_parts` | eleven parts, one per behaviour (below): is each what the others take it for? | see the next table |
| `rsg_preferred` | do the routers choose one best route; do messages sent by it come where they belong while the routers' views differ? | a primary path of four nodes, three sub-paths that overlap, share links and cross another router of the primary path. Search: 27 choices of ratios, every combination of link states. Forwarding: two links of the primary path fail and recover, four routers learn of them one by one; every sub-path is the best for some failures |
| `rsg_failed_rsp` | comment: `linkID` is for links of the primary path - violated | the same |
| `link_tests` | is every verdict deserved and every lasting change found? | two faces, one of them slow, two rounds, two tests at once |
| `path_control` | do views and routes agree once it is quiet? | a triangle, three advertisements or losses together |
| `baselines` | do R2T, MFTP and SDATP deliver once, settle and give up correctly; does frame replication hand over each packet once? | three routers, ids 0..1 and three losses (R2T, MFTP), 0..2 and two (SDATP); PA: a direct link between the ends and a lossy path by a third node, two losses, up to five packets of four identifications (so that they begin again, and a packet may wait for ids that came long before), a queue of three; `PaList`: seven identifications in every order, enough for merges at both ends |

The parts of `local_parts`, which share nothing:

| part | property | bounds and why they are enough |
|---|---|---|
| ids | `Consistent`, `NeverForgets` | four ids, initial length 1, the smallest that could evict |
| resequence | `PassedInOrder` | five capsules, two places, waiting time 2: the queue is full, ages and is bypassed |
| active | `SilenceSuspected` | six seconds of arrivals, a period of two |
| heap | `HeapSound` | nine nodes, the fewest for a tree deep enough for cascading cuts, and three keys increased |
| routes | `RoutesSound` | every graph of seven links on five routers, connected or not; two sub-paths for a node, two retries |
| graph | `GraphSound` | three formats, three buses, up to three branches out of seven pairs: either way round, repeated, one of an unlisted bus |
| forwarder | `StreamStaysOpen`, `InterestsSettled` | five set-ups with two or three Interests from two neighbours, two next hops, two nonces, three Data, a store of one: loops, copies, prefixes and full stores meet |
| link | `LinkFaithful` | three packets of four kinds, one in two or more fragments, one loss, a mark as big as a quarter of a fragment |
| face | `FaceSound` | four programs of calls that cover every call, three packets coming in |
| load | `RateKept` | packets of three bits, bits of two ticks; times on of 1 tick (no bit), 5 (a bit in parts, less than a packet) and 7 (more than a packet, with a bit in parts), off of 0 and 2, up to three packets in 18 ticks: without `cuts`, or without a tick for each packet, TLC finds `RateKept` violated |
| apps | `StreamsSound` | two PMUs, the name of one beginning the other's, a PDC of both and one of the first, three capsules, two packets under way |

Every constant that bounds something is named in the module that declares it.

Fairness.  Simulator events always run: `TimerFairness` in `RetransControl` is
weak fairness of each timer and of nothing else; `DrtpChain` assumes that the
simulator goes on while an event is queued (publishing, a message not lost, a
timer) and nothing of the losses; `LinkTests` that scheduled calls run (the
periodic test schedules itself again), and that a message on a working link
arrives unless it is lost.  `StatusFollowsLink` asks for recovery only where
the link loses nothing any more.

`CHECK_DEADLOCK FALSE` is given where the system really stops: no capsule
coming and no event queued, a stream at its horizon, a bound reached.

### Findings

- `retrans_not_exclusive`: `onReceiveReport` restarts the wait at an id that may
  be in a running batch; its timeout starts a chain beside the batch.
- `retrans_unreported`: `waitForNextCapsuleDelayedTask` swaps the arguments RSG
  and path of `sendReport`; unless they coincide no entry is found and the
  report is dropped.
- `rsg_failed_rsp`: `rsgComputePreferredPathID` looks up the status of a
  redundant sub-path under its `linkID`, where only links of the primary path
  have one; a sub-path known to have failed is still preferred.

## 5. Proofs

`RetransControlProofs` proves `Spec => []TypeOK` and `Spec => []DeliveredOnce`
from `RetransControlAssumption` alone (the horizon and the budget are naturals,
the preferred path is a down path), on the primary path and on any sub-path alike.
Each operator is *silent* (no capsule sent, none marked transmitted, none renamed) or
*handled* (exactly the capsules newly marked are sent, by content, under names that the
lemma gives); silence composes; the invariant is TypeOK with "transmitted ids are
exactly those delivered, once, and `out` is empty between steps" and with what
`DeliveredOnce` says of names: the name given to another capsule is an earlier id that a
RequestS asked for.
`ComputeNextDataIdType` shows that the `CHOOSE` of the next awaited id is
defined, from well-foundedness of a finite interval.

The second half of the module proves `RequestsTracked`, `DetectionSound` and, for
a router that no upstream router reports losses to (`ReportUIDs = {}`, the first
hop), `ExclusiveRetransmission`; with reports it is false, as
`retrans_not_exclusive` shows.  The properties are not inductive.  `TablesInv`
strengthens each part:

- `ChainsListed` adds to `SingleChain` that every armed wait is recorded, which
  is what makes the timer of a wait find its entry.
- `RoundsListed` adds to `BatchTracked` that the numbers of batches are used up
  (below `curRetransInBatchID`), so that a new batch is not taken for an old one.
- `Booked` adds to `BatchesDisjoint` the other places a capsule can be booked in:
  a pending report names ids reported lost; no id is in two pending reports, or in
  one and in a batch, unless it was transmitted; a batch holds only ids that were
  passed or skipped.  Without the reports nothing keeps the batch that a report's
  timeout opens apart from those of gaps.
- `Ahead` adds to `NextAwaited` that *only* the next id is awaited behind
  `lastDataId`.  `onReceiveReport` goes on waiting for the id after the greatest
  of the awaited ids reported lost: with a second wait further on it would jump
  over the next id, and nothing would await it.
- `Exclusive` says, where there are no reports, that the ids in batches are
  passed ids without an armed wait or a chain.

Each operator has a lemma that names the tables it leaves alone (`SameIds`,
`SameWaits`, `SameChains`, `SameBatches`, `SameReports`) and what it does to the
others; each handler is then followed operator by operator (`...Sound`).  `NoGap(s, r)`,
"what is unaccounted for in r was so in s", composes along a handler; the
answers to requests are the only handlers without it, and what they pass over
is what `overlooked` records.

`NetworkPartsProofs` is about the parts of `NetworkParts`, each from its own assumption.
`LocalPartsProofs` carries the results over to the run `local_parts`, which puts the
parts side by side: every behaviour of `PartsSpec` is one of the part's own
specification, so that the same properties hold as the run states them; all parts keep
their types (`PartsKeepTypes`, for `TypesOK`).

- `DataIdQueue`: `Consistent`, `CapacityAhead` and the refinement of `IdMemory`.
  `CapacityAhead` is what makes the refinement inductive: without it the eviction branch
  of `push` cannot be excluded.
- `OnOffTraffic`: `RateKept`.  The invariant (`LoadInv`) relates the time used, the
  packets sent and what is kept of the next one (`residualBits` while the application is
  off, `residualBits` and the time since `lastStartTime` while it is on), to the time it
  was on: they differ by a tick for each packet and a bit for each cut at most
  (`Close`).  The next packet is due when the rest of it has passed or a tick before.
  What one conversion may drop is one lemma each (`BitsKept`, `NextTx`).
- `ResequenceQueue`: `PassedInOrder`, its four parts.  The invariant (`QueueInv`) adds that
  what waits and what was passed are apart and make up what arrived, that the id passed
  last is among those passed (`Apart`), that no capsule has a time to come (`InTime`),
  and of each promise that it awaits an event still scheduled or was served: nothing that
  waits before it is as old (`Kept`).  The three loops of `releaseQueue` are followed
  one by one: each passes on more ids behind the earlier ones, in ascending order
  (`Grown`, `Taken`, `Released`).  It needs `maxWaitTime > 0`: the code multiplies
  `LLTC_PDC_RESEQNEUCE_RANGE`, 20 in `lltc-config.cpp:88`, by the time between two
  capsules.  With no time to wait a capsule would age at once, and `NoEarlySkip` is
  false.
- `ActiveCheck`: `SilenceSuspected`.  The invariant (`ActiveInv`) adds that each count is
  the number of capsules that came in its second (`CountsKept`) and that at most one event
  is scheduled, at the time remembered (`EventsKept`).  The sum of the counts is a fold;
  that folds have values is `FoldExists`, as in `RsgSubgraphProofs`.
- `PitForwarder`: `InterestsSettled` and `StreamStaysOpen`.  The invariant
  (`ForwarderInv`) adds that a neighbour's answers and the names it waits for are together
  at most its Interests (`AnswersOwed`), that the nonce of the last Interest sent to a
  next hop is dead, or in an out-record of an entry where no other neighbour has it
  (`SentKnown`), that the entry of a stream is there with its timer until the time
  configured is over (`StreamsKept`), and that the content store has a Data once
  (`StoreSound`).  The assumption it adds is that Data below the prefix of streams and
  other Data satisfy different Interests: nobody asks for a name above the prefix.
- `LinkService`: `LinkFaithful` (in `LocalPartsProofs`).  The invariant about packets
  (`PiecesInv`) says that the fragments under way and kept are pieces of packets sent
  (`ArePieces`), in the order of sending and each once (`InOrder`), that packets with
  several fragments have ranges of sequence numbers of their own (`Numbered`), which is why
  the difference of sequence and index tells messages apart (`MessageIs`), and, as long
  as nothing is lost, that each piece of a packet not yet received is under way or kept,
  its last one under way (`NoneMissing`).  A message has as many fragments as it
  needs exactly if it has one for each index (`Completing`); then its last one was at the
  front and nothing of it comes later (`OthersLater`).  The invariant about marks
  (`MarkedInv`) is kept fragment by fragment (`OneChecked`): the marks of a packet are a
  recursive function, and the intervals between marks add up as a fold does
  (`IntervalsAdd`).
- `NdnFace`: `FaceSound`.  The invariant (`FaceInv`) says that an Interest pending or
  dropped has no outcome and any other one, with the Nacks to come counted
  (`LedgerKept`), that ids are used once (`IdsFresh`), that a registration is asked for,
  under way, registered or given up, and keeps its filter until it is given up
  (`RegistrationsKept`), and what the transport must be up for (`Reachable`).
- `Applications`: `StreamsSound`.  The invariant (`AppsInv`) says where each stream
  stands: it has not begun while its Interest is to be sent or on its way (`AskedOnce`), the
  next capsule is due a Piat after the last and follows it unless others got ids
  (`StreamsDue`), all ids given are below `dataId` (`IdsBehind`).  That a name parses
  with one prefix only (`ParsesOnce`) needs that no PMU has "/Capsule/" in its name.

The chain baselines are proved about for any number of routers from
`LastAssumption` alone, and from `BudgetAssumption` (`maxCSynTimes` is unsigned)
where the budget matters: capsules and losses may be any.  `BaselinesProofs` begins
with what sending and taking a message do to the messages of the hops.

- R2T: `AckSettles` is not inductive, because an acknowledgement
  removes the wait of a capsule whatever the next router has.  The invariant adds
  that acknowledgements under way are of capsules the next router passed on
  (`R2tAcksPassed`), that Data under way and waits are of capsules the router itself
  passed on (`R2tSendsPassed`, `R2tWaitsForPassed`), and that each acknowledgement is
  the only one for its capsule and is waited for (`R2tAcksOnce`, `R2tAcksAwaited`): the
  last two are `AckIsExpected`, which is why the entry the code dereferences is
  there.  `GivesUpSpent` needs the books to be kept (`R2tAccounts`): of a capsule the
  next router lacks, what is on the hop and what was lost on it are together what
  its one wait has counted, a wait without a timer has counted all the sendings
  allowed, and nothing is lost of a capsule not passed on.  That a capsule taken
  off the hop leaves the books is no error, since it is not lacking any more.
- MFTP: an answer may come late, twice and after its wait has ended,
  and confirms only what the next router passed on (`ConfirmsPassed`,
  `ReceivedPassed`).  No bound on the answers under way is needed.  A wait without
  a timer has spent the budget (`Asking`), which with `AckSettles` is `GivesUpSpent`.
- SDATP: a late repair passed on as Data moves `recentDataID` *back*,
  so that the gap before the next capsule begins too low, never too high.  The
  invariant is that `recentDataID` was received, and that everything below any
  capsule received was passed on or asked for (`NoneOverlooked`).
- In all three, `DeliveredOnce` follows with "what was handed over is what the
  last router passed on" (`Served`).
- `BaselinesProofs` states the results as the properties the run `baselines`
  checks.  `MCBaselines` runs one protocol at a time on shared variables: its
  invariant has the invariant of each protocol under the condition that it runs.

- `BaselinesProofs` also proves `SeenExactly` of `PaList`, for any id space with
  `PaListAssumption`: the intervals of the list are in order, without overlap and
  inside the id space (`ListSound`), and the ids in them are those asked about.
  The ways `AddId` changes the list (an interval put in, one longer at either end,
  two joined) are proved one by one (`NotedSound`).

`DrtpChainProofs` proves the refinement `Delivers`: the chain of routers implements
`StreamDelivery`, for any path of two routers or more (`DrtpChainAssumption`), any RSG,
number of capsules, of requests and of losses.

- One router first.  Most operators of `LltcRouter` are quiet (`Quiet`): they mark no
  capsule as transmitted, store none and send none, whatever they do to the tables and
  timers, and quiet steps compose.  A handler that is not quiet does the three for the
  capsule it was given and for no other, and only if that was not marked before
  (`Carried`): here the tests of `transmittedDataIds` are used.  The lemmas are about an
  instance `Router(r)` and any record with the three fields.
- Then the chain.  The invariant (`IInv`) says that capsules under way, in any of the
  three messages that carry one, and capsules in stores were published, and that what the
  subscriber was handed is marked at the last router.  A step of the last router hands
  over the capsule it newly marked, which is therefore published and not handed over
  before: a step `Deliver` of `StreamDelivery`.  The PMU's step at the first router is
  `Publish`, every other step a stutter.  The timers need no guard for this: the theorem
  holds whatever a timeout waits for.

`PathControlProofs` has four theorems for every RSG, any links that may fail and
any number of advertisements and losses.  The state does not keep an
advertisement once it is received everywhere, so the invariant is of the form
"there are advertisements g, one for each id given out, such that ..."
(`IInv == \E g : Kept(g)`): what a router has advertised is its last one in g
(`History`, `Latest`); an id seen was given out, and the books of ids, uses and
losses agree (`Counted`).

- `AdvertisedIsCurrent` follows with the type invariant, `AppliedOnce` with
  `Counted`: an advertisement is applied once by each router that receives it, and
  once more by its source at most.
- `ViewsConverge` needs more, while nothing was lost (`Delivered`): channels are
  queues and every router floods on what is new to it, so of two advertisements of
  one source the earlier is seen, or stands before the later in the queue
  (`ReceivedInOrder`, `ChannelsInOrder`); an advertisement seen by a router was
  seen by each neighbour or is on its way there (`Spread`); and the status in a
  view is that of the last advertisement seen of an end of the link (`ViewsTold`).
  When the channels are empty every router has seen all (`AllReceived`): the
  routers of an RSG are connected because each sub-path ends on the primary path,
  by the least position not reached (`PathInside`).

- `RouteJoins` rests on what a search finds, whatever it is given
  (`RsgSubgraphProofs`): each position is reached by a usable virtual link that
  leads to it (`SearchFinds`), the way back from the destination goes by these links
  to smaller positions (`WayBackAt`), and what a router is offered are the paths of
  the links before and behind it on the way (`PreferredAt`).  The invariant
  (`RoutesInv`) says that every router prefers what its last search offered, and
  that its view is exact: a sub-path has failed just when one of its links has.  Then
  routers that see every link alike have the same view, run the same search and
  find the same way, each its own piece of it; the pieces join by induction from the
  destination (`Joined`).

`RsgForwardingProofs` has three theorems about the messages of an RSG and the views, for
every RSG, any success ratios and any links that fail.

- `CapsulesMoveOn` and `AnswersComeBack` follow from one invariant (`IInv`), which says
  where each kind of message may be (`Fits`): a capsule on the primary path was passed
  on by the router before; one on a sub-path by the router the sub-path ends at
  (`nodeIds` lead upstream); a request on a sub-path comes from its first router, an
  answer from its last.  It needs that a router leaves the primary path only by a
  sub-path that ends at that router (`DownFits`), which the search offers whatever the
  router believes (`PreferredAt`): the views need not agree for capsules to move on.
  What is installed for a path leads on from each of its nodes to exactly one other
  (`PrimHops`, `RspHops`), since no path visits a node twice and path numbers differ.
  That is also why a request or an answer on a sub-path crosses other routers of the
  primary path without being taken there.
- `RspStatusExact` is inductive: a sub-path with a link that changes is recomputed
  from all its links, and the others share no link with the change.

The search is a fold, and the way back and the joined way are recursive functions.
TLA+ chooses a function that satisfies the equation of a recursive definition if
there is one; that there is (`FoldExists`, `WaysExist`), and what holds of all its
values (`FoldKeeps`), is proved by a least counterexample, from well-foundedness of
the naturals, since the induction theorems of the library cannot be instantiated.
The assumptions about an RSG that these proofs add are that it has finitely many
sub-paths, none of them empty, that no path visits a node twice and that the primary
path's number is not `UINT_MAX`: paths are shortest paths, numbered from 0 on.

Only model-checked: liveness (`Quiesces`, `OneLossRepaired`,
`StatusFollowsLink`), which is out of the prover's reach.  What a recursive operator
computes is out of its reach too: `RouteGeneration` and `HeapSound`.
That the search finds the *best* route (`PreferredIsBest`), and one wherever there is
one (`SettledDelivers`), needs an induction over sums of keys, and holds only while no
sum gets down to `MinusInf`.  Proofs are ahead for `PaFlow`, the link tests and
the loading of graphs.

## 6. Not modelled

- The reroute generator (`lltc-resilient-routes-generation-for-reroute.cpp`)
  and `computeResilientRouteEEDT_*`: they choose by expected delays and loss rates
  in floating point; a model would have to fix an arithmetic that is not the
  program's.
- The reader of static routes: a file format.
- The spelling of names in `lltc-messages-helper.cpp`: messages are records of what
  the handlers read.  `parseCapsuleOnRSPUri` reads its component 4 places behind
  the prefix for "Retrans" in names of four components; such names are never
  constructed.
- Of the forwarder: scope control, forwarding hints, `NextHopFaceId`,
  `onNewNextHop`, `sendNacks` (not used by the strategies of this repository).
- Of the faces: link reliability (off here), the stack and link helpers, which
  create ns-3 objects.
- `tagged-onoff-application.cc` (does not compile as it stands: line 290
  initialises a pointer to `uint32_t` with the address of a byte array);
  `FlowForwardModule::pathForward`, which the constant `TYPE` switches off.
- Configuration, logging, scenarios: I/O and set-up.
