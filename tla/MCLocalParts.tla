----------------------------- MODULE MCLocalParts -----------------------------
(***************************************************************************)
(* The parts of NetworkParts and those that are done before the network    *)
(* runs: the loading of the graph, the heap of the route searches and the  *)
(* generation of routes.  A behaviour is one of a single part; the others  *)
(* stay as they began.                                                     *)
(***************************************************************************)
EXTENDS NetworkParts

CONSTANTS
  HeapSize, HeapSource, Top, MaxUpdates,       \* FibonacciHeap
  Routers, Graphs, Delay, QueueDelay, Beta, NumRetransRequests, IntMax,   \* RouteGeneration
  MaxNodes                                     \* GraphLoading

VARIABLES
  part,
  roots, kids, mark, key, numberOfNodes, updates,
  links, src, dst, phase, from, heap, delays, prevNode, pp, pos, rsps,
  format, buses, branches, file, state, at, nodeIdToIdx, nodeIdx, nNodes, graphLinks, virtLinks,
  eLinks, iLinks, loaded

resequenceVars == <<lastDataId, q_seq, q_time, tasks, rnow, arrived, passed, promised>>
activeVars == <<tick, init_secs, last_count_secs, counts, waitCap, events, arrivals, checks>>
heapVars == <<roots, kids, mark, key, numberOfNodes, updates>>
routeVars == <<links, src, dst, phase, from, heap, delays, prevNode, pp, pos, rsps>>
forwarderVars == <<config, pit, deadNonces, cs, fnow, asked, answers, lastSent, streamed>>
linkVars == <<allowFragmentation, allowReassembly, lastSeqNo, nextMarkTime, nMarked, wire, fragments,
              lnow, nOutOverMtu, sent, received, longSince, losses>>
faceVars == <<program, calls, posted, pending, filters, prefixes, connected, receiving, anow, nextId,
              nPackets, outcomes, given, nacks, dropped, leaving, closed>>
loadVars ==
  <<running, sendAt, startStop, lastStartTime, residualBits, dataID, onow, onTime, lastOn, cuts>>
graphVars == <<format, buses, branches, file, state, at, nodeIdToIdx, nodeIdx, nNodes, graphLinks,
               virtLinks, eLinks, iLinks, loaded>>
appVars == <<kind, pnow, nextDataId, streamAt, interestAt, controlAt, net, lastCapsule, arrival>>

H == INSTANCE FibonacciHeap WITH size <- numberOfNodes, NumNodes <- HeapSize, Source <- HeapSource
G == INSTANCE RouteGeneration WITH q <- heap

\* Data 1 answers "s" and "t" below the prefix of streams, 2 only "s", 3 is plain Data.
\* The first set-up has a next hop to turn to; the last has no route.
MCMatches == <<{"s", "t"}, {"s"}, {"y"}>>
MCFreshness == <<0, 2, 0>>
SetUp(mode, hasUp, fib, names, interests) ==
  [mode |-> mode, hasUp |-> hasUp, fib |-> fib, names |-> names, interests |-> interests]
MCConfigs ==
  {SetUp("plain", FALSE, <<"u", "v">>, {"s"}, 3), SetUp("plain", FALSE, <<"u">>, {"s", "t"}, 3),
   SetUp("lltc", TRUE, <<"u">>, {"s", "y"}, 2), SetUp("streaming", TRUE, <<>>, {"s"}, 3),
   SetUp("lltc", FALSE, <<>>, {"s"}, 3)}

\* A tagged Interest, tagged Data that needs fragments, and a Data and a Nack without tags.
MCNoField == -1
MCPacket(type, bytes, hops, path, transient, rsg) ==
  [type |-> type, size |-> bytes, hops |-> hops, path |-> path, transient |-> transient,
   rsg |-> rsg, mark |-> MCNoField, pitToken |-> MCNoField]
MCPackets ==
  {MCPacket("Interest", 1, MCNoField, MCNoField, MCNoField, 1), MCPacket("Data", 5, 1, 1, 1, 1),
   MCPacket("Data", 2, MCNoField, MCNoField, MCNoField, MCNoField),
   MCPacket("Nack", 1, MCNoField, MCNoField, MCNoField, MCNoField)}

\* What applications do: Interests answered by the application itself, a registration
\* given up twice, Interests cancelled, and a face that is closed and used again.
C(op, id, flag) == [op |-> op, id |-> id, name |-> "s", flag |-> flag]
MCPrograms ==
  {<<C("setFilter", 1, TRUE), C("express", 2, FALSE), C("express", 3, FALSE),
     C("putNack", 0, FALSE), C("putData", 0, FALSE)>>,
   <<C("register", 1, TRUE), C("unregister", 1, FALSE), C("unregister", 1, FALSE)>>,
   <<C("connect", 0, FALSE), C("register", 2, FALSE), C("express", 3, FALSE),
     C("cancel", 3, FALSE), C("removeAll", 0, FALSE)>>,
   <<C("setFilter", 1, FALSE), C("express", 2, FALSE), C("clearFilter", 1, FALSE),
     C("putData", 0, FALSE), C("shutdown", 0, FALSE), C("express", 6, FALSE)>>}

\* Branches of three buses, given either way round and repeated, and branches of a
\* number without a bus; behind them, a section whose lines look like branches.
MCBranches == {<<5, 2>>, <<2, 5>>, <<2, 7>>, <<7, 9>>, <<0, 1>>, <<1, 0>>, <<2, 1>>}
E == INSTANCE GraphLoading
       WITH links <- graphLinks, BusLists <- {<<5, 2, 7>>, <<0, 1, 2>>},
            BranchLists <- UNION {[1..len -> MCBranches] : len \in 0..3}, Tails <- {<<<<2, 7>>, <<>>>>}

\* Two PMUs, the name of one of which begins that of the other, and a PDC of both
\* besides one of the first.
MCPrefix == <<<<"/pmu", "1">>, <<"/pmu", "1", "2">>>>
MCSubscriptions == <<{1, 2}, {1}>>

\* Every graph on five routers with some of these links: trees, rings with chords
\* and graphs in pieces.
MCGraphs == SUBSET {{1, 2}, {2, 3}, {3, 4}, {4, 5}, {1, 3}, {2, 5}, {1, 4}}

ASSUME H!FibonacciHeapAssumption
ASSUME G!RouteGenerationAssumption
ASSUME GraphAssumption == E!GraphLoadingAssumption

Parts == {"ids", "resequence", "active", "heap", "routes", "forwarder", "link", "face", "load",
          "graph", "apps"}

\* What a part starts from, while the others have one way to start.
PartsInit ==
  /\ part \in Parts
  /\ part # "routes" => links = {} /\ src = 1 /\ dst = 2
  /\ part # "apps" => kind = "ndn"
  /\ part # "graph" => format = "csv" /\ branches = <<>>
  /\ Init /\ R!Init /\ A!Init /\ H!Init /\ E!Init /\ G!Init /\ T!Init /\ P!Init
  /\ L!Init /\ (part # "link" => allowFragmentation /\ allowReassembly)
  /\ F!Init /\ (part # "forwarder" => config.mode = "streaming")
  /\ N!Init /\ (part # "face" => program[1].op = "register")

Others(one) ==
  /\ one # "ids" => UNCHANGED vars
  /\ one # "resequence" => UNCHANGED resequenceVars
  /\ one # "active" => UNCHANGED activeVars
  /\ one # "heap" => UNCHANGED heapVars
  /\ one # "routes" => UNCHANGED routeVars
  /\ one # "forwarder" => UNCHANGED forwarderVars
  /\ one # "link" => UNCHANGED linkVars
  /\ one # "face" => UNCHANGED faceVars
  /\ one # "load" => UNCHANGED loadVars
  /\ one # "graph" => UNCHANGED graphVars
  /\ one # "apps" => UNCHANGED appVars

PartsNext ==
  /\ UNCHANGED part
  /\ \/ part = "ids" /\ Next /\ Others("ids")
     \/ part = "resequence" /\ R!Next /\ Others("resequence")
     \/ part = "active" /\ A!Next /\ Others("active")
     \/ part = "heap" /\ H!Next /\ Others("heap")
     \/ part = "routes" /\ G!Next /\ Others("routes")
     \/ part = "forwarder" /\ F!Next /\ Others("forwarder")
     \/ part = "link" /\ L!Next /\ Others("link")
     \/ part = "face" /\ N!Next /\ Others("face")
     \/ part = "load" /\ T!Next /\ Others("load")
     \/ part = "graph" /\ E!Next /\ Others("graph")
     \/ part = "apps" /\ P!Next /\ Others("apps")

allVars == <<part, vars, resequenceVars, activeVars, heapVars, routeVars, forwarderVars, linkVars,
             faceVars, loadVars, graphVars, appVars>>

PartsSpec == PartsInit /\ [][PartsNext]_allVars

-------------------------------------------------------------------------------
\* The variables of the parts that run with the network keep their types.
TypesOK ==
  /\ part = "ids" => TypeOK
  /\ part = "resequence" => R!TypeOK
  /\ part = "active" => A!TypeOK
  /\ part = "forwarder" => F!TypeOK
  /\ part = "link" => L!TypeOK
  /\ part = "face" => N!TypeOK
  /\ part = "load" => T!TypeOK
  /\ part = "apps" => P!TypeOK

\* The resequencing queue passes each capsule once and within the time it promises,
\* in order, and skips none before its time.
PassedInOrder ==
  /\ [](part = "resequence" => R!PassedOnce /\ R!PromiseKept)
  /\ R!NoOvertaking /\ R!NoEarlySkip

\* A face that falls silent is suspected.
SilenceSuspected == part = "active" => A!SilenceSuspected

\* The heap gives the greatest key and keeps its degrees low.
HeapSound == [](part = "heap" => H!DegreesStayLow) /\ H!RemovesGreatest

\* Primary paths are shortest, sub-paths avoid what they are there to avoid, and the
\* timers of the routers on a path are staged.
RoutesSound == part = "routes" => G!PrimaryShortest /\ G!SubPathsBypass /\ G!WaitsAreStaged

\* The graph of a file is the one it describes, and virtual nodes leave no trace.
GraphSound == part = "graph" => E!LoadsDescribed /\ E!ListsAgree

\* A forwarder answers an Interest at most once and stops Interests that loop.
InterestsSettled == []F!OneAnswerPerInterest /\ F!LoopsStopped

\* The entry of a stream stays open for the time configured after each Data.
StreamStaysOpen == part = "forwarder" => F!StreamStaysOpen

\* A link gives on whole packets with the tags they had, and marks as it has to.
LinkFaithful == part = "link" => L!WholeWithTags /\ L!MarksEarned

\* A face settles each Interest once and keeps its handlers.
FaceSound == part = "face" => N!OneOutcome /\ N!HandlersKept

\* PMUs send the streams they were asked for, and PDCs keep them apart.
StreamsSound == [](part = "apps" => P!QueuesApart /\ P!IdsUsedOnce) /\ P!StreamsPaced

\* The load keeps its rate over the time it is on, to a tick a packet and a bit a cut.
RateKept == T!RateKept
===============================================================================
