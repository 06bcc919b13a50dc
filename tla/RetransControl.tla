---------------------------- MODULE RetransControl ----------------------------
(***************************************************************************)
(* One router of a resilient subgraph under every environment the protocol *)
(* allows: capsules of the stream arrive in any order, any number of times *)
(* or never; an upstream router may answer each request it was sent, late  *)
(* and more than once; upstream routers report losses; every queued timer  *)
(* may fire at any time.                                                   *)
(***************************************************************************)
EXTENDS LltcRouter

CONSTANTS
  KnownSource,     \* BOOLEAN values a report's source may have: is its timeout configured
  DownStates       \* <<preferredDownPathId, isDownPathInRspState>> pairs path control may set

VARIABLES
  ds,          \* the CapsuleForwardingStates of the router
  requested,   \* every request the router has ever sent
  delivered,   \* how often each capsule was delivered downstream
  renamed,     \* <<n, d>>: capsule d was delivered under the id n of another capsule
  overlooked,  \* ids a retransmission made the router pass over
  reported     \* ids in reports the router has originated

vars == <<ds, requested, delivered, renamed, overlooked, reported>>

RetransControlAssumption ==
  /\ MaxDataId \in Nat
  /\ NumRetransRequests \in Nat
  /\ KnownSource \subseteq BOOLEAN
  /\ DownStates \subseteq DownPaths \X BOOLEAN
  /\ DownStates # {}
  /\ NewUID \notin ReportUIDs
ASSUME RetransControlAssumption

Init ==
  /\ \E s \in DownStates : ds = NewCapsuleForwardingStates(s[1], s[2])
  /\ requested = {}
  /\ delivered = [d \in DataIds |-> 0]
  /\ renamed = {}
  /\ overlooked = {}
  /\ reported = {}

(***************************************************************************)
(* A handler ran and left the record r: its messages leave the router.     *)
(***************************************************************************)
\* The capsule a message carries, whatever the message is called.
Carries(m, d) ==
  \/ m.type = "Capsule" /\ m.id = d
  \/ m.type = "CapsuleOnRSP" /\ m.of = d

CapsulesIn(out, d) == \E m \in out : Carries(m, d)

Renamings(out) ==
  {<<m.id, m.of>> : m \in {n \in out : n.type = "CapsuleOnRSP" /\ n.id # n.of}}

Commit(r) ==
  /\ ds' = [r EXCEPT !.out = {}]
  /\ requested' = requested \cup {m \in r.out : m.type \in {"RequestS", "RequestM"}}
  /\ delivered' = [d \in DataIds |->
                     IF CapsulesIn(r.out, d) THEN delivered[d] + 1 ELSE delivered[d]]
  /\ renamed' = renamed \cup Renamings(r.out)
  /\ reported' = reported \cup
                   UNION {m.ids : m \in {n \in r.out : n.type = "Report" /\ n.uid = NewUID}}

\* The ids below upTo that nothing accounts for in r, see NoSilentGap.
Accounted(r) ==
  r.transmittedDataIds \cup r.lostDataIdsFromPrevRouters \cup r.waitForNextDataEvents
    \cup UNION {b.ids : b \in r.retransInBatchEvents}

Unaccounted(r) == (1..r.lastDataId) \ Accounted(r)

(***************************************************************************)
(* Messages.  A capsule on the PIT path is put in the content store by the *)
(* forwarder before the strategy sees it (onIncomingData), a capsule that  *)
(* came over a redundant sub-path is not (LltcTransientTag 1).             *)
(***************************************************************************)
ReceiveCapsule(d) ==
  /\ Commit(OnReceiveCapsule(InsertInCs(ds, d), d))
  /\ UNCHANGED overlooked

ReceiveCapsuleOnRsp(d) ==
  /\ Commit(OnReceiveCapsule(ds, d))
  /\ UNCHANGED overlooked

\* The upstream store holds the requested capsule or one after it.
ReceiveRetranS(q, d) ==
  /\ q \in requested /\ q.type = "RequestS"
  /\ q.id <= d
  /\ LET r == OnReceiveRetranS(ds, d, q.id)
     IN  /\ Commit(r)
         /\ overlooked' = overlooked \cup Unaccounted(r)

\* The upstream store holds neither the requested capsule nor a later one.
ReceiveRetranSMiss(q) ==
  /\ q \in requested /\ q.type = "RequestS"
  /\ Commit(OnRetranSMiss(ds))
  /\ UNCHANGED overlooked

ReceiveRetranM(q, d) ==
  /\ q \in requested /\ q.type = "RequestM"
  /\ d \in q.ids
  /\ LET r == OnReceiveRetranM(ds, q.rbi, d)
     IN  /\ Commit(r)
         /\ overlooked' = overlooked \cup Unaccounted(r)

\* A second copy of a report is dropped on its UID and changes nothing.
ReceiveReport(uid, ids, known) ==
  /\ uid \notin ds.recentDataRetransReportUIDs
  /\ Commit(OnReceiveReport(ds, uid, ids, known))
  /\ UNCHANGED overlooked

\* External: path control moves the stream to another down path.
SwitchDownPath(s) ==
  /\ ds' = [ds EXCEPT !.preferredDownPathId = s[1], !.isDownPathInRspState = s[2]]
  /\ UNCHANGED <<requested, delivered, renamed, overlooked, reported>>

(***************************************************************************)
(* Timers.  The wait for the id after the horizon never fires.             *)
(***************************************************************************)
WaitTimeout(d) ==
  /\ d \in ds.waitTimers \cap DataIds
  /\ Commit(WaitForNextCapsuleDelayedTask(ds, d))
  /\ UNCHANGED overlooked

SingleTimeout(t) ==
  /\ t \in ds.singleTimers
  /\ Commit(RetransSingleTimeout(ds, t))
  /\ UNCHANGED overlooked

BatchTimeout(t) ==
  /\ t \in ds.batchTimers
  /\ Commit(RetransBatchTimeout(ds, t))
  /\ UNCHANGED overlooked

ReportTimeout(w) ==
  /\ w \in ds.WaitForRetransInBatchEvents
  /\ Commit(WaitToRequestM(ds, w))
  /\ UNCHANGED overlooked

Timers ==
  \/ \E d \in DataIds : WaitTimeout(d)
  \/ \E t \in ds.singleTimers : SingleTimeout(t)
  \/ \E t \in ds.batchTimers : BatchTimeout(t)
  \/ \E w \in ds.WaitForRetransInBatchEvents : ReportTimeout(w)

Deliveries ==
  \/ \E d \in DataIds : ReceiveCapsule(d)
  \/ \E d \in DataIds : ReceiveCapsuleOnRsp(d)
  \/ \E q \in requested, d \in DataIds : ReceiveRetranS(q, d)
  \/ \E q \in requested : ReceiveRetranSMiss(q)
  \/ \E q \in requested, d \in DataIds : ReceiveRetranM(q, d)
  \/ \E uid \in ReportUIDs, ids \in SUBSET DataIds \ {{}}, known \in KnownSource :
        ReceiveReport(uid, ids, known)

Next ==
  \/ Timers
  \/ Deliveries
  \/ \E s \in DownStates : SwitchDownPath(s)

Spec == Init /\ [][Next]_vars

\* Simulator::Schedule: an event that is not removed is executed.
TimerFairness ==
  /\ \A d \in DataIds : WF_vars(WaitTimeout(d))
  /\ WF_vars(\E t \in ds.singleTimers : SingleTimeout(t))
  /\ WF_vars(\E t \in ds.batchTimers : BatchTimeout(t))
  /\ WF_vars(\E w \in ds.WaitForRetransInBatchEvents : ReportTimeout(w))

FairSpec == Spec /\ TimerFairness

-------------------------------------------------------------------------------
\* Every field of the record and every history variable keeps its type, and
\* no handler leaves a message behind.
TypeOK ==
  /\ ds \in CapsuleForwardingStates
  /\ ds.out = {}
  /\ requested \subseteq Messages
  /\ delivered \in [DataIds -> Nat]
  /\ renamed \subseteq DataIds \X DataIds
  /\ overlooked \subseteq DataIds
  /\ reported \subseteq WaitIds

\* A capsule reaches the router as an original, over a redundant sub-path, as
\* an answer to a RequestS or to a RequestM, in any combination and number;
\* it is delivered downstream exactly once, when it first arrives
\* (checkAndRecordRetransmittedDataId guards every deliverCapsule).  It keeps
\* its id, but for one case: on a redundant sub-path, the closest answer to a
\* RequestS goes on under the id that was asked for (onReceiveRetranS hands
\* deliverCapsule requestedDataId), an earlier id than its own.
DeliveredOnce ==
  /\ \A d \in DataIds : delivered[d] = (IF d \in ds.transmittedDataIds THEN 1 ELSE 0)
  /\ \A x \in renamed :
       /\ x[1] < x[2] /\ x[2] \in ds.transmittedDataIds
       /\ \E q \in requested : q.type = "RequestS" /\ q.id = x[1]

\* Only an answer to a request may make the router pass over a capsule: what
\* arriving capsules, reports and timers leave behind lastDataId is delivered,
\* awaited, in a batch or reported lost by an upstream router.
NoSilentGap == Unaccounted(ds) \subseteq overlooked

\* A queued RequestS chain can always be found and removed: it has its table
\* entry, its wait has fired and is still recorded, and it is the only chain
\* of its capsule on its path.
SingleChain ==
  \A t \in ds.singleTimers :
    /\ <<t.id, t.path>> \in ds.retransInSingleEvents
    /\ t.id \in ds.waitForNextDataEvents \ ds.waitTimers
    /\ \A u \in ds.singleTimers : u.id = t.id /\ u.path = t.path => u = t

\* A queued RequestM round belongs to a batch of the table and is the only
\* round of that batch, so an emptied batch is never asked for again.
BatchTracked ==
  \A t \in ds.batchTimers :
    /\ \E b \in ds.retransInBatchEvents : b.rbi = t.rbi
    /\ \A u \in ds.batchTimers : u.rbi = t.rbi => u = t

\* Whatever is queued can be stopped: chains and rounds alike.
RequestsTracked == SingleChain /\ BatchTracked

\* No capsule is asked for by two batches at once, although gaps, reports and
\* the timeouts of reports all open batches.
BatchesDisjoint ==
  \A a, b \in ds.retransInBatchEvents : a # b => a.ids \cap b.ids = {}

\* Detection never stops: behind the last capsule the first one neither
\* delivered nor reported lost always has a wait entry, whatever mix of
\* handlers moved lastDataId.
NextAwaited ==
  ds.lastDataId > 0 =>
     ComputeNextDataId(ds, ds.lastDataId) \in ds.waitForNextDataEvents

\* The tables stay sound when reports overlap and follow each other: nothing is
\* skipped, no capsule is in two batches, detection goes on.
DetectionSound == NoSilentGap /\ BatchesDisjoint /\ NextAwaited

\* src/README.md: retransmission instances are "exclusive ... for the same lost
\* packet": no capsule is asked for by a RequestS chain and by a batch at once.
ExclusiveRetransmission ==
  ~ \E t \in ds.singleTimers, u \in ds.batchTimers, b \in ds.retransInBatchEvents :
       b.rbi = u.rbi /\ t.id \in b.ids

\* waitForNextCapsule "sends the control messages with the lost packets
\* report": a router with a down path has reported every capsule whose wait
\* has expired.
ExpiredWaitReported ==
  \A t \in ds.singleTimers :
    HasDownEntry(RsgId, ds.preferredDownPathId) => t.id \in reported

\* Every retransmission ends: the budget of requests of each chain and batch
\* runs out and the router falls silent.
Quiesces ==
  <>[](/\ ds.waitTimers \cap DataIds = {}
       /\ ds.singleTimers = {}
       /\ ds.batchTimers = {}
       /\ ds.WaitForRetransInBatchEvents = {})
===============================================================================
