------------------------------ MODULE LltcRouter ------------------------------
(***************************************************************************)
(* The service sublayer of one DRTP router (class LltcStrategy) for one    *)
(* prefix of one resilient subgraph (RSG): what every handler and every    *)
(* timer callback does to the record CapsuleForwardingStates.  The module  *)
(* has no variables: a router is a record ds, a handler is an operator     *)
(* that returns the next record, so that the single-router specification   *)
(* (RetransControl) and the chain of routers (DrtpChain) share one         *)
(* translation of the code.                                                *)
(*                                                                         *)
(* Beside the C++ fields the record holds                                  *)
(*   localCs      the capsule ids in the content store the router uses     *)
(*   waitTimers, singleTimers, batchTimers                                 *)
(*                the events that Simulator::Schedule has queued           *)
(*   out          the messages the running handler has handed to the       *)
(*                forwarding sublayer                                      *)
(* An id of WaitForRetransInBatchEvents that the code has dropped from its *)
(* list while the simulator event stays queued has listed = FALSE.         *)
(* Time is abstracted: a queued event may fire at any moment.              *)
(***************************************************************************)
EXTENDS Integers, FiniteSets

CONSTANTS
  MaxDataId,           \* horizon: the stream carries the ids 0..MaxDataId
  UpPaths,             \* pathIds of the FIB entries with direction 1 that are retrans points
  NumRetransRequests,  \* LltcStrategyConfig::numRetransRequests
  RsgId,               \* the RSG of the stream
  DownPaths,           \* pathIds the down traffic may be sent on
  DownEntries,         \* <<rsgId, pathId>> pairs with a direction 0 FIB entry at this router
  ReportUIDs,          \* the UIDs of the reports upstream routers make
  NewUID               \* stands for the random UID of a report made by this router

DataIds == 0..MaxDataId

\* Ids a wait entry may be made for: the successor of the last id included.
WaitIds == 0..(MaxDataId + 1)

(***************************************************************************)
(* Messages handed to the forwarding sublayer.                             *)
(***************************************************************************)
Capsule(d, p)        == [type |-> "Capsule", id |-> d, path |-> p]
\* Capsule d sent under the id n.
CapsuleOnRSP(n, d, p) == [type |-> "CapsuleOnRSP", id |-> n, of |-> d, path |-> p]
RequestS(d, p)       == [type |-> "RequestS", id |-> d, path |-> p]
RequestM(b, ids, p)  == [type |-> "RequestM", rbi |-> b, ids |-> ids, path |-> p]
Report(u, ids, p)    == [type |-> "Report", uid |-> u, ids |-> ids, path |-> p]
LinkTest(p)          == [type |-> "LinkTest", path |-> p]

Messages ==
  [type : {"Capsule"}, id : DataIds, path : DownPaths]
    \cup [type : {"CapsuleOnRSP"}, id : DataIds, of : DataIds, path : DownPaths]
    \cup [type : {"RequestS"}, id : WaitIds, path : UpPaths]
    \cup [type : {"RequestM"}, rbi : Nat, ids : SUBSET DataIds, path : UpPaths]
    \cup [type : {"Report"}, uid : ReportUIDs \cup {NewUID}, ids : SUBSET WaitIds,
          path : DownPaths \cup {RsgId}]
    \cup [type : {"LinkTest"}, path : UpPaths]

(***************************************************************************)
(* A fresh record: createOrGetCapsuleForwardingStates, with the RSG state  *)
(* (preferred down path) the router has at that time.                      *)
(***************************************************************************)
NewCapsuleForwardingStates(downPath, onRsp) ==
  [ lastDataId                      |-> 0,
    transmittedDataIds              |-> {},
    lostDataIdsFromPrevRouters      |-> {},
    waitForNextDataEvents           |-> {},
    retransInSingleEvents           |-> {},
    retransInBatchEvents            |-> {},
    WaitForRetransInBatchEvents     |-> {},
    recentDataRetransReportUIDs     |-> {},
    curRetransInBatchID             |-> 0,
    curWaitForRetransInBatchEventID |-> 0,
    localCs                         |-> {},
    waitTimers                      |-> {},
    singleTimers                    |-> {},
    batchTimers                     |-> {},
    preferredDownPathId             |-> downPath,
    isDownPathInRspState            |-> onRsp,
    out                             |-> {} ]

\* The type of the record, and of the entries of its tables.
Chains       == WaitIds \X UpPaths
Batches      == [rbi : Nat, ids : SUBSET DataIds]
ReportWaits  == [eventID : Nat, ids : SUBSET DataIds, listed : BOOLEAN]
SingleEvents == [id : WaitIds, path : UpPaths, rest : 0..NumRetransRequests]
BatchEvents  == [rbi : Nat, rest : 0..NumRetransRequests]

CapsuleForwardingStates ==
  [ lastDataId                      : DataIds,
    transmittedDataIds              : SUBSET DataIds,
    lostDataIdsFromPrevRouters      : SUBSET DataIds,
    waitForNextDataEvents           : SUBSET WaitIds,
    retransInSingleEvents           : SUBSET Chains,
    retransInBatchEvents            : SUBSET Batches,
    WaitForRetransInBatchEvents     : SUBSET ReportWaits,
    recentDataRetransReportUIDs     : SUBSET ReportUIDs,
    curRetransInBatchID             : Nat,
    curWaitForRetransInBatchEventID : Nat,
    localCs                         : SUBSET DataIds,
    waitTimers                      : SUBSET WaitIds,
    singleTimers                    : SUBSET SingleEvents,
    batchTimers                     : SUBSET BatchEvents,
    preferredDownPathId             : DownPaths,
    isDownPathInRspState            : BOOLEAN,
    out                             : SUBSET Messages ]

HasDownEntry(rsg, path) == <<rsg, path>> \in DownEntries

(***************************************************************************)
(* deliverCapsule: on the preferred down path as CapsuleOnRSP when that is *)
(* a redundant sub-path, else as Capsule to the next hop or, where there   *)
(* is no next hop, to the application.  A Capsule is sent as it is, a      *)
(* CapsuleOnRSP gets its name from the argument dataId.                    *)
(***************************************************************************)
DeliverCapsule(ds, d, dataId) ==
  LET p == ds.preferredDownPathId
      m == IF ds.isDownPathInRspState THEN CapsuleOnRSP(dataId, d, p) ELSE Capsule(d, p)
  IN  [ds EXCEPT !.out = @ \cup {m}]

SendReport(ds, ids, rsg, path) ==
  IF HasDownEntry(rsg, path)
  THEN [ds EXCEPT !.out = @ \cup {Report(NewUID, ids, path)}]
  ELSE ds

(***************************************************************************)
(* The wait for the next capsule.                                          *)
(***************************************************************************)
Skipped(ds) == ds.lostDataIdsFromPrevRouters \cup ds.transmittedDataIds

\* The first id after cur that is neither transmitted nor reported lost.
ComputeNextDataId(ds, cur) ==
  CHOOSE n \in (cur + 1)..(MaxDataId + 1) :
     /\ n \notin Skipped(ds)
     /\ \A m \in (cur + 1)..(n - 1) : m \in Skipped(ds)

WaitForNextCapsule(ds, d) ==
  IF d \in ds.waitForNextDataEvents THEN ds
  ELSE [ds EXCEPT !.waitForNextDataEvents = @ \cup {d}, !.waitTimers = @ \cup {d}]

CleanWaitForNextEvent(ds, ids) ==
  [ds EXCEPT !.waitForNextDataEvents = @ \ ids, !.waitTimers = @ \ ids]

\* Mutant: the table entry goes, the queued event stays.
CleanRetranInSingleEventsKeepingTimer(ds, ids) ==
  [ds EXCEPT !.retransInSingleEvents = {e \in @ : e[1] \notin ids}]

CleanRetranInSingleEvents(ds, ids) ==
  [ds EXCEPT !.retransInSingleEvents = {e \in @ : e[1] \notin ids},
             !.singleTimers = {t \in @ : t.id \notin ids}]

\* Mutants: the exhausted budget is not noticed; the budget is not spent.
RequestSRoundWithoutLimit(ds, d, paths, rest) ==
  [ds EXCEPT
     !.out = @ \cup {RequestS(d, p) : p \in paths},
     !.retransInSingleEvents = @ \cup {<<d, p>> : p \in paths},
     !.singleTimers = @ \cup {[id |-> d, path |-> p, rest |-> rest - 1] : p \in paths}]

RequestSRoundNotCounting(ds, d, paths, rest) ==
  IF rest = 0
  THEN [ds EXCEPT !.out = @ \cup {LinkTest(p) : p \in paths}]
  ELSE [ds EXCEPT
          !.out = @ \cup {RequestS(d, p) : p \in paths},
          !.retransInSingleEvents = @ \cup {<<d, p>> : p \in paths},
          !.singleTimers = @ \cup {[id |-> d, path |-> p, rest |-> rest] : p \in paths}]

(***************************************************************************)
(* waitForNextCapsuleDelayedTaskIterative on a set of up paths.  With no   *)
(* request left only the link of the path is tested; the table entry of    *)
(* the exhausted chain stays.                                              *)
(***************************************************************************)
RequestSRound(ds, d, paths, rest) ==
  IF rest = 0
  THEN [ds EXCEPT !.out = @ \cup {LinkTest(p) : p \in paths}]
  ELSE [ds EXCEPT
          !.out = @ \cup {RequestS(d, p) : p \in paths},
          !.retransInSingleEvents = @ \cup {<<d, p>> : p \in paths},
          !.singleTimers = @ \cup {[id |-> d, path |-> p, rest |-> rest - 1] : p \in paths}]

(***************************************************************************)
(* waitForNextCapsuleDelayedTask: the awaited capsule is late.  The code   *)
(* passes sendReport the path where it takes the RSG and the RSG where it  *)
(* takes the path.  The wait entry stays, without a queued event.          *)
(***************************************************************************)
WaitForNextCapsuleDelayedTask(ds, d) ==
  LET fired    == [ds EXCEPT !.waitTimers = @ \ {d},
                             !.waitForNextDataEvents = @ \cup {d}]
      reported == SendReport(fired, {d}, ds.preferredDownPathId, RsgId)
  IN  RequestSRound(reported, d, UpPaths, NumRetransRequests)

\* The retransmission timeout of one chain (the same function, rescheduled).
RetransSingleTimeout(ds, t) ==
  RequestSRound([ds EXCEPT !.singleTimers = @ \ {t}], t.id, {t.path}, t.rest)

(***************************************************************************)
(* Retransmissions in batch.                                               *)
(***************************************************************************)
\* broadcastRequestMAndWaitForRetranMRecursive
RequestMRound(ds, rbi, rest) ==
  LET batch == {b \in ds.retransInBatchEvents : b.rbi = rbi}
      ids   == UNION {b.ids : b \in batch}
  IN  IF rest = 0 THEN ds
      ELSE IF ids = {} THEN [ds EXCEPT !.retransInBatchEvents = @ \ batch]
      ELSE IF UpPaths = {} THEN ds
      ELSE [ds EXCEPT !.out = @ \cup {RequestM(rbi, ids, p) : p \in UpPaths},
                      !.batchTimers = @ \cup {[rbi |-> rbi, rest |-> rest - 1]}]

BroadcastRequestM(ds, ids) ==
  LET rbi == ds.curRetransInBatchID
  IN  RequestMRound([ds EXCEPT
                       !.curRetransInBatchID = @ + 1,
                       !.retransInBatchEvents = @ \cup {[rbi |-> rbi, ids |-> ids]}],
                    rbi, NumRetransRequests)

RetransBatchTimeout(ds, t) ==
  RequestMRound([ds EXCEPT !.batchTimers = @ \ {t}], t.rbi, t.rest)

Without(b, ids) == [rbi |-> b.rbi, ids |-> b.ids \ ids]

\* cleanRetranMEvents(ds, bri, id): a batch already empty is dropped, else
\* the id leaves it (and the batch may stay behind empty).
CleanRetranMEventsOfBatch(ds, rbi, d) ==
  LET empty == {b \in ds.retransInBatchEvents : b.rbi = rbi /\ b.ids = {}}
  IN  IF empty # {}
      THEN [ds EXCEPT !.retransInBatchEvents = @ \ empty,
                      !.batchTimers = {t \in @ : t.rbi # rbi}]
      ELSE [ds EXCEPT !.retransInBatchEvents =
              {IF b.rbi = rbi THEN Without(b, {d}) ELSE b : b \in @}]

\* Mutant: no batch is cleaned.
CleanRetranMEventsNot(ds, ids) == ds

\* cleanRetranMEvents(ds, id) for every id of a set: the ids leave every
\* batch, and every batch that is empty then is dropped with its event.
CleanRetranMEvents(ds, ids) ==
  LET left == {Without(b, ids) : b \in ds.retransInBatchEvents}
      live == {b \in left : b.ids # {}}
      dead == {b.rbi : b \in left \ live}
  IN  [ds EXCEPT !.retransInBatchEvents = live,
                 !.batchTimers = {t \in @ : t.rbi \notin dead}]

\* The first listed record that holds the id loses the id and its place in
\* the list; its event is removed only when no id is left.
CleanWaitForRequestMEvents(ds, d) ==
  LET holding == {w \in ds.WaitForRetransInBatchEvents : w.listed /\ d \in w.ids}
      first   == CHOOSE w \in holding : \A v \in holding : w.eventID <= v.eventID
      rest    == [eventID |-> first.eventID, ids |-> first.ids \ {d}, listed |-> FALSE]
  IN  IF holding = {} THEN ds
      ELSE [ds EXCEPT !.WaitForRetransInBatchEvents =
              (@ \ {first}) \cup (IF rest.ids = {} THEN {} ELSE {rest})]

\* waitToRequestM: the reporting router had its time; ask for what is missing.
WaitToRequestM(ds, w) ==
  LET fired   == [ds EXCEPT !.WaitForRetransInBatchEvents = @ \ {w}]
      missing == w.ids \ ds.transmittedDataIds
  IN  IF missing = {} THEN fired ELSE BroadcastRequestM(fired, missing)

(***************************************************************************)
(* The gap between the last id and the arriving one.                       *)
(***************************************************************************)
\* Mutants: the gap starts one id late; an awaited id is taken as lost.
NewLostDataIdsOffByOne(ds, d) ==
  ((ds.lastDataId + 2)..(d - 1)) \
     (ds.lostDataIdsFromPrevRouters \cup ds.waitForNextDataEvents \cup ds.transmittedDataIds)

NewLostDataIdsAwaitedToo(ds, d) ==
  ((ds.lastDataId + 1)..(d - 1)) \
     (ds.lostDataIdsFromPrevRouters \cup ds.transmittedDataIds)

NewLostDataIds(ds, d) ==
  ((ds.lastDataId + 1)..(d - 1)) \
     (ds.lostDataIdsFromPrevRouters \cup ds.waitForNextDataEvents \cup ds.transmittedDataIds)

DiscoverLostCapsules(ds, d) ==
  LET new == NewLostDataIds(ds, d)
  IN  IF new = {} THEN ds
      ELSE SendReport(BroadcastRequestM(ds, new), new, RsgId, ds.preferredDownPathId)

(***************************************************************************)
(* Message handlers.                                                       *)
(***************************************************************************)
\* Mutant: what came is not remembered.
RecordTransmittedNot(ds, d) == ds

RecordTransmitted(ds, d) == [ds EXCEPT !.transmittedDataIds = @ \cup {d}]
InsertInCs(ds, d)        == [ds EXCEPT !.localCs = @ \cup {d}]

OnReceiveCapsule(ds, d) ==
  LET r1 == RecordTransmitted(ds, d)
      r2 == IF d \in r1.lostDataIdsFromPrevRouters
            THEN [r1 EXCEPT !.lostDataIdsFromPrevRouters = @ \ {d}]
            ELSE LET r == DiscoverLostCapsules(r1, d)
                 IN  [r EXCEPT !.lastDataId = IF d > @ THEN d ELSE @]
      r3 == CleanRetranInSingleEvents(CleanWaitForNextEvent(r2, {d}), {d})
      r4 == DeliverCapsule(CleanWaitForRequestMEvents(r3, d), d, d)
  IN  IF d \in ds.transmittedDataIds THEN ds
      ELSE IF d = r4.lastDataId
           THEN WaitForNextCapsule(r4, ComputeNextDataId(r4, d))
           ELSE r4

\* The tail shared by onReceiveRetranS and onReceiveRetranM.
AdvanceToRetransmitted(ds, d) ==
  IF d <= ds.lastDataId THEN ds
  ELSE LET r == [ds EXCEPT !.lastDataId = d]
       IN  WaitForNextCapsule(r, ComputeNextDataId(r, d))

\* A Miss names the id 0 whatever was asked for (lookupInCs returns 0), and
\* parseRetranSUri takes the requested id from there.
OnRetranSMiss(ds) ==
  LET r == CleanRetranInSingleEvents(ds, {0})
  IN  IF 0 \in ds.transmittedDataIds THEN r ELSE WaitForNextCapsule(r, 0)

\* Reading waitForNextDataEvents[dataId] makes an entry without an event.  What is
\* handed to deliverCapsule is the id asked for, not that of the capsule.
OnReceiveRetranS(ds, d, requested) ==
  LET r1 == RecordTransmitted(ds, d)
      r2 == [r1 EXCEPT !.waitForNextDataEvents = @ \cup {d}]
      r3 == CleanWaitForNextEvent(r2, {requested})
      r4 == InsertInCs(CleanRetranInSingleEvents(r3, {requested}), d)
  IN  IF d \in ds.transmittedDataIds THEN ds
      ELSE AdvanceToRetransmitted(DeliverCapsule(r4, d, requested), d)

\* Mutant: a second answer is not recognised.
OnReceiveRetranMUnchecked(ds, rbi, d) ==
  AdvanceToRetransmitted(
    DeliverCapsule(
      InsertInCs(CleanRetranMEventsOfBatch(RecordTransmitted(ds, d), rbi, d), d), d, d), d)

\* A RequestM asks for exact capsules: the id asked for is that of the capsule.
OnReceiveRetranM(ds, rbi, d) ==
  LET r1 == CleanRetranMEventsOfBatch(RecordTransmitted(ds, d), rbi, d)
  IN  IF d \in ds.transmittedDataIds THEN ds
      ELSE AdvanceToRetransmitted(DeliverCapsule(InsertInCs(r1, d), d, d), d)

\* The report's timer is set only for a source with a known timeout.
ScheduleWaitToRequestM(ds, ids, known) ==
  IF ids = {} \/ ~known THEN ds
  ELSE [ds EXCEPT
          !.curWaitForRetransInBatchEventID = @ + 1,
          !.WaitForRetransInBatchEvents =
             @ \cup {[eventID |-> ds.curWaitForRetransInBatchEventID,
                      ids |-> ids, listed |-> TRUE]}]

OnReceiveReport(ds, uid, ids, known) ==
  LET r1   == [ds EXCEPT !.recentDataRetransReportUIDs = @ \cup {uid}]
      r2   == ScheduleWaitToRequestM(r1, ids \ ds.lostDataIdsFromPrevRouters, known)
      lost == ds.lostDataIdsFromPrevRouters \cup ids
      held == lost \cap ds.waitForNextDataEvents
      max  == CHOOSE m \in held : \A h \in held : h <= m
      r3   == CleanRetranInSingleEvents(
                 CleanWaitForNextEvent([r2 EXCEPT !.lostDataIdsFromPrevRouters = lost], held),
                 held)
      r4   == CleanRetranMEvents(r3, lost)
      r5   == IF held = {} THEN r4 ELSE WaitForNextCapsule(r4, ComputeNextDataId(r4, max))
  IN  IF uid \in ds.recentDataRetransReportUIDs THEN ds
      ELSE IF HasDownEntry(RsgId, ds.preferredDownPathId)
           THEN [r5 EXCEPT !.out = @ \cup {Report(uid, ids, ds.preferredDownPathId)}]
           ELSE r5
===============================================================================
