----------------------------- MODULE DrtpChain ------------------------------
(* A stream over the primary path of one RSG: the PMU, the routers 1..Last and  *)
(* the subscriber at the last of them.  Each router runs the handlers and       *)
(* timers of LltcRouter; the links between them are those of HopLinks and lose  *)
(* at most MaxLosses messages.                                                  *)
(*                                                                              *)
(* The routers of a path without sub-paths have the timeouts addFibsFromPath    *)
(* and computeRetranTimes give them: the guards of the timeouts below say what  *)
(* cannot be under way any more when each of them runs.  RetransControl lets    *)
(* the same timers fire at any moment.                                          *)
EXTENDS HopLinks, FiniteSets

CONSTANTS RsgIds, Primary, \* the RSGs the stream may belong to, their primary path
          MaxDataId, NumRetransRequests,
          MaxLosses     \* bound: messages the links lose
\* The PMU and the subscriber are at different ends of the path.
ASSUME DrtpChainAssumption ==
  /\ RsgIds \cup {Primary, MaxDataId, NumRetransRequests, MaxLosses} \subseteq Nat
  /\ Last > 1

NewUID == -1

VARIABLES rsg,        \* the RSG of the stream
          next,       \* the next capsule of the PMU
          router,     \* per router: its CapsuleForwardingStates
          down, up,   \* messages on the hops
          app,        \* the capsules handed to the subscriber, in order
          reports,    \* reports made so far, the source of their UIDs
          losses,
          dropped     \* <<h, d>>: hop h lost the capsule d

vars == <<rsg, next, router, down, up, app, reports, losses, dropped>>

Router(r) == INSTANCE LltcRouter WITH
  UpPaths     <- IF HasFaceUp(r) THEN {Primary} ELSE {},
  DownPaths   <- {Primary},
  DownEntries <- IF HasFaceDown(r) THEN {<<rsg, Primary>>} ELSE {},
  RsgId       <- rsg,
  ReportUIDs  <- 0..reports

SX == INSTANCE SequencesExt

DataIds == 0..MaxDataId

Init ==
  /\ rsg \in RsgIds
  /\ next = 0
  /\ router = [r \in Routers |-> Router(r)!NewCapsuleForwardingStates(Primary, FALSE)]
  /\ down = NoMessages /\ up = NoMessages
  /\ app = <<>>
  /\ reports = 0
  /\ losses = 0
  /\ dropped = {}

(***************************************************************************)
(* A handler of router r left the record s; dn and uq are the links after  *)
(* it took its message.  A gap is reported before the capsule goes on.     *)
(***************************************************************************)
OfType(out, types) == {m \in out : m.type \in types}

Commit(r, s, dn, uq) ==
  LET capsules == OfType(s.out, {"Capsule"})
      new      == {m \in OfType(s.out, {"Report"}) : m.uid = NewUID}
      stamped  == {[m EXCEPT !.uid = reports] : m \in new}
      known    == OfType(s.out, {"Report"}) \ new
      requests == OfType(s.out, {"RequestS", "RequestM"})
  IN  /\ router' = [router EXCEPT ![r] = [s EXCEPT !.out = {}]]
      /\ reports' = reports + Cardinality(new)
      /\ down' = SendDown(dn, r, SX!SetToSeq(stamped \cup known) \o SX!SetToSeq(capsules))
      /\ up' = SendUp(uq, r, SX!SetToSeq(requests))
      /\ app' = IF HasFaceDown(r) THEN app
                ELSE app \o SX!SetToSeq({m.id : m \in capsules})

Publish ==
  /\ next \in DataIds
  /\ next' = next + 1
  /\ Commit(1, Router(1)!OnReceiveCapsule(Router(1)!InsertInCs(router[1], next), next),
            down, up)
  /\ UNCHANGED <<rsg, losses, dropped>>

-------------------------------------------------------------------------------
\* What a router makes of a message of the router before it.  computeRetranTimes
\* gives it a timeout for the reports of every router before it but the first.
Handled(r, s, m) ==
  CASE m.type = "Capsule" -> Router(r)!OnReceiveCapsule(Router(r)!InsertInCs(s, m.id), m.id)
    [] m.type = "Report"  -> Router(r)!OnReceiveReport(s, m.uid, m.ids, TRUE)
    [] m.type = "RetranS" -> Router(r)!OnReceiveRetranS(s, m.id, m.requested)
    [] m.type = "Miss"    -> Router(r)!OnRetranSMiss(s)
    [] m.type = "RetranM" -> Router(r)!OnReceiveRetranM(s, m.rbi, m.id)

ReceiveDown(r) ==
  /\ HasFaceUp(r) /\ down[r - 1] # <<>>
  /\ Commit(r, Handled(r, router[r], Head(down[r - 1])), Taken(down, r - 1), up)
  /\ UNCHANGED <<rsg, next, losses, dropped>>

\* Mutant: the capsule itself is not looked for.
FoundAfter(cs, d) ==
  {c \in cs : c > d /\ \A b \in cs : b > d => c <= b}

\* lookupInCs: the capsule, else the first one after it, else none.  A RequestS
\* always asks for the closest one: waitForNextCapsuleDelayedTask passes FALSE
\* for findClosestDataIfCsMissed and constructRequestS writes "Closest" for FALSE.
Found(cs, d) ==
  {c \in cs : c >= d /\ \A b \in cs : b >= d => c <= b}

\* onReceiveRequestS
AnswerS(cs, m) ==
  IF Found(cs, m.id) = {} THEN <<[type |-> "Miss", requested |-> m.id]>>
  ELSE SX!SetToSeq({[type |-> "RetranS", id |-> c, requested |-> m.id] : c \in Found(cs, m.id)})

\* onReceiveRequestM: one RetranM for each capsule the store has.
AnswerM(cs, m) ==
  SX!SetToSeq({[type |-> "RetranM", rbi |-> m.rbi, id |-> c] : c \in m.ids \cap cs})

ReceiveUp(r) ==
  /\ HasFaceDown(r) /\ up[r] # <<>>
  /\ LET m == Head(up[r])
         cs == router[r].localCs
     IN  down' = SendDown(down, r, IF m.type = "RequestS" THEN AnswerS(cs, m)
                                   ELSE AnswerM(cs, m))
  /\ up' = Taken(up, r)
  /\ UNCHANGED <<rsg, next, router, app, reports, losses, dropped>>

-------------------------------------------------------------------------------
\* The wait for the next capsule is long enough for d to come, unless a hop on
\* its way lost it.
WaitTimeout(r, d) ==
  /\ HasFaceUp(r) /\ d \in router[r].waitTimers
  /\ \E h \in Hops : h < r /\ <<h, d>> \in dropped
  /\ Commit(r, Router(r)!WaitForNextCapsuleDelayedTask(router[r], d), down, up)
  /\ UNCHANGED <<rsg, next, losses, dropped>>

\* The timeout is the delay to the router before and back: neither the request
\* nor an answer to it is under way.
SingleTimeout(r, t) ==
  /\ \A m \in OnHop(up, r - 1) : ~(m.type = "RequestS" /\ m.id = t.id)
  /\ \A m \in OnHop(down, r - 1) : ~(m.type \in {"RetranS", "Miss"} /\ m.requested = t.id)
  /\ Commit(r, Router(r)!RetransSingleTimeout(router[r], t), down, up)
  /\ UNCHANGED <<rsg, next, losses, dropped>>

BatchTimeout(r, t) ==
  /\ \A m \in OnHop(up, r - 1) : ~(m.type = "RequestM" /\ m.rbi = t.rbi)
  /\ \A m \in OnHop(down, r - 1) : ~(m.type = "RetranM" /\ m.rbi = t.rbi)
  /\ Commit(r, Router(r)!RetransBatchTimeout(router[r], t), down, up)
  /\ UNCHANGED <<rsg, next, losses, dropped>>

\* Without sub-paths retransTimeouts stays 0 and the wait is a difference of
\* queueing delays: it may end before a router before r has repaired its loss.
ReportTimeout(r, w) ==
  /\ Commit(r, Router(r)!WaitToRequestM(router[r], w), down, up)
  /\ UNCHANGED <<rsg, next, losses, dropped>>

Lose(h) ==
  /\ losses < MaxLosses
  /\ losses' = losses + 1
  /\ \/ /\ down[h] # <<>> /\ down' = Taken(down, h) /\ UNCHANGED up
        /\ dropped' = dropped \cup
             {<<h, m.id>> : m \in OfType({Head(down[h])}, {"Capsule"})}
     \/ up[h] # <<>> /\ up' = Taken(up, h) /\ UNCHANGED <<down, dropped>>
  /\ UNCHANGED <<rsg, next, router, app, reports>>

Timeouts(r) ==
  \/ \E d \in DataIds : WaitTimeout(r, d)
  \/ \E t \in router[r].singleTimers : SingleTimeout(r, t)
  \/ \E t \in router[r].batchTimers : BatchTimeout(r, t)
  \/ \E w \in router[r].WaitForRetransInBatchEvents : ReportTimeout(r, w)

Step ==
  \/ Publish
  \/ \E r \in Routers : ReceiveDown(r) \/ ReceiveUp(r) \/ Timeouts(r)

Next == Step \/ \E h \in Hops : Lose(h)

Spec == Init /\ [][Next]_vars

\* The simulator goes on as long as an event is queued: a capsule to publish, a
\* message a link has not lost, a timer.
FairSpec == Spec /\ WF_vars(Step)

-------------------------------------------------------------------------------
Stream == INSTANCE StreamDelivery WITH published <- next, delivered <- app

\* Whatever originals, copies and answers of the routers race and whatever is
\* lost, the application gets what StreamDelivery says: nothing that was not
\* published, nothing twice (the duplicate tests of every deliverCapsule).
Delivers == Stream!Spec

\* If the links lose one message in all, every capsule but the first reaches the
\* subscriber: the routers' timeouts, reports and requests repair one another, even
\* when a router spends its requests while the router before has nothing to give.
OneLossRepaired ==
  [](losses <= 1) => <>(\A d \in 1..MaxDataId : \E i \in 1..Len(app) : app[i] = d)
=============================================================================
