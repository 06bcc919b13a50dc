------------------------------- MODULE LinkTests -------------------------------
(***************************************************************************)
(* The link tests of one router (lltc-strategy-forwarding-sublayer-path-   *)
(* control.cpp): rounds of echos to its neighbours, their answers, and the *)
(* verdict on each face once the rounds are over.  One test of all faces   *)
(* runs periodically; tests of a single face start at any time beside it.  *)
(*                                                                         *)
(* Every round of every test is scheduled the same interval ahead, so the  *)
(* simulator runs them in the order they were scheduled: queue.            *)
(***************************************************************************)
EXTENDS Integers, Sequences, FiniteSets

CONSTANTS
  Faces,       \* faces with a neighbour (remoteLltcNodeId is not -1)
  Times,       \* timesForCheckPathConnectivity
  LinkTestIDs, \* ids of tests, used again once the test is over
  MaxTests,    \* bound on the tests running at once
  CapsuleFaces,\* faces capsules come from: those an active test may be about
  Slow         \* faces whose answers may take longer than the interval between rounds

VARIABLES
  status,   \* faceEntries: face -> status
  queue,    \* scheduled calls of runLinkTestsAndDoUpdate, the first due first
  echoIDs,  \* EchoIDsInLinkTest: test -> the echos sent for it
  echos,    \* echoMsgStateMap: echo -> has its answer come
  net,      \* echos and backs on their way
  linkUp,   \* face -> its link works
  seen      \* history: test -> the faces whose link, since the test began, was at
            \* some time down or lost a message, for a slow face: worked

vars == <<status, queue, echoIDs, echos, net, linkUp, seen>>

LinkTestsAssumption ==
  /\ Times \in Nat \ {0}
  /\ MaxTests \in Nat \ {0}
  /\ Cardinality(LinkTestIDs) >= MaxTests
  /\ CapsuleFaces \subseteq Faces
  /\ Slow \subseteq Faces
ASSUME LinkTestsAssumption

Init ==
  /\ status = [f \in Faces |-> "NORMAL"]
  /\ queue = <<>>
  /\ echoIDs = <<>>
  /\ echos = <<>>
  /\ net = {}
  /\ linkUp = [f \in Faces |-> TRUE]
  /\ seen = <<>>

Running == {queue[i].test : i \in DOMAIN queue}
Without(f, S) == [x \in DOMAIN f \ S |-> f[x]]

-------------------------------------------------------------------------------
(* broadcastEchos, one echo to each face of the test; what is sent over a    *)
(* link that does not work is lost, and so is what still travels under an id *)
(* that is used again.  Echo ids are random, taken to be distinct.           *)
BroadcastEchos(c, old) ==
  LET new == {[test |-> c.test, round |-> Times - c.rest + 1, face |-> f] : f \in c.faces} IN
    /\ echoIDs' = [t \in DOMAIN echoIDs \cup {c.test} |->
                     IF t = c.test THEN old \cup new ELSE echoIDs[t]]
    /\ echos' = [e \in DOMAIN echos \cup new |-> e \notin new /\ echos[e]]
    /\ net' = {m \in net : m.echo \notin new} \cup [type : {"Echo"}, echo : {e \in new : linkUp[e.face]}]

NextCall(c) == [c EXCEPT !.rest = @ - 1]

\* checkLinkConnectivityInPeriodic and checkLinkConnectivityInActiveManner: the
\* first round runs at once.
StartTest(test, faces, isFull) ==
  LET call == [test |-> test, rest |-> Times, faces |-> faces, isFull |-> isFull] IN
    /\ BroadcastEchos(call, {})
    /\ queue' = Append(queue, NextCall(call))
    /\ seen' = [t \in DOMAIN seen \cup {test} |->
                  IF t = test THEN {f \in Faces : linkUp[f] <=> f \in Slow} ELSE seen[t]]
    /\ UNCHANGED <<status, linkUp>>

NextLinkTestID == CHOOSE t \in LinkTestIDs : t \notin Running

\* A period lasts longer than the rounds of a test.
CheckLinkConnectivityInPeriodic ==
  /\ \A i \in DOMAIN queue : ~queue[i].isFull
  /\ StartTest(NextLinkTestID, Faces, TRUE)

CheckLinkConnectivityInActiveManner(f) ==
  /\ Cardinality({i \in DOMAIN queue : ~queue[i].isFull}) < MaxTests - 1
  /\ StartTest(NextLinkTestID, {f}, FALSE)

\* What is to come over faces that are not slow has come.
RoundOver(c) == \A m \in net : m.echo.test = c.test => m.echo.face \in Slow

RunRound ==
  /\ queue # <<>> /\ Head(queue).rest > 0
  /\ RoundOver(Head(queue))
  /\ BroadcastEchos(Head(queue), echoIDs[Head(queue).test])
  /\ queue' = Append(Tail(queue), NextCall(Head(queue)))
  /\ UNCHANGED <<status, linkUp, seen>>

Tested(ids) == {e.face : e \in ids}
\* Mutant: one answer speaks for every face of the test.
AnsweredAny(ids) == IF \E e \in ids : echos[e] THEN Tested(ids) ELSE {}

Answered(ids) == {e.face : e \in {x \in ids : echos[x]}}

\* Mutant: a normal face stays normal.
UpdateFaceStatsNormal(ids) == [f \in Faces |-> IF f \in Answered(ids) THEN "NORMAL" ELSE status[f]]

\* updateFaceStatsWithLinkTestStates.
UpdateFaceStats(ids) ==
  [f \in Faces |-> IF f \in Answered(ids) THEN "NORMAL"
                   ELSE IF f \in Tested(ids) THEN "FAILURE" ELSE status[f]]

EraseEchos(ids) == Without(echos, ids)

\* The rounds are over; broadcastingLsaTask follows in the same call, see PathControl.
Finish ==
  /\ queue # <<>> /\ Head(queue).rest = 0
  /\ RoundOver(Head(queue))
  /\ LET t == Head(queue).test IN
       /\ status' = UpdateFaceStats(echoIDs[t])
       /\ echos' = EraseEchos(echoIDs[t])
       /\ echoIDs' = Without(echoIDs, {t})
       /\ seen' = Without(seen, {t})
  /\ queue' = Tail(queue)
  /\ UNCHANGED <<net, linkUp>>

-------------------------------------------------------------------------------
(* The neighbour answers an echo at once, onReceiveEcho. *)
OnReceiveEcho(e) ==
  /\ [type |-> "Echo", echo |-> e] \in net
  /\ net' = (net \ {[type |-> "Echo", echo |-> e]}) \cup {[type |-> "Back", echo |-> e]}
  /\ UNCHANGED <<status, queue, echoIDs, echos, linkUp, seen>>

\* A back of an echo no longer in the map changes nothing.
OnReceiveBack(e) ==
  /\ [type |-> "Back", echo |-> e] \in net
  /\ net' = net \ {[type |-> "Back", echo |-> e]}
  /\ echos' = [x \in DOMAIN echos |-> echos[x] \/ x = e]
  /\ UNCHANGED <<status, queue, echoIDs, linkUp, seen>>

Seen(f) == [t \in DOMAIN seen |-> seen[t] \cup {f}]

\* A message that may come as late as it likes need not be lost besides.
Lose(m) ==
  /\ m.echo.face \notin Slow
  /\ net' = net \ {m}
  /\ seen' = Seen(m.echo.face)
  /\ UNCHANGED <<status, queue, echoIDs, echos, linkUp>>

\* What travels over a link that fails is lost.
LinkChange(f) ==
  /\ linkUp' = [linkUp EXCEPT ![f] = ~@]
  /\ seen' = IF linkUp[f] # (f \in Slow) THEN Seen(f) ELSE seen
  /\ net' = {m \in net : m.echo.face # f \/ ~linkUp[f]}
  /\ UNCHANGED <<status, queue, echoIDs, echos>>

Deliver ==
  \/ \E m \in net : OnReceiveEcho(m.echo)
  \/ \E m \in net : OnReceiveBack(m.echo)

Next ==
  \/ CheckLinkConnectivityInPeriodic
  \/ \E f \in CapsuleFaces : CheckLinkConnectivityInActiveManner(f)
  \/ RunRound
  \/ Finish
  \/ Deliver
  \/ \E m \in net : Lose(m)
  \/ \E f \in Faces : LinkChange(f)

Spec == Init /\ [][Next]_vars

\* The simulator runs what is scheduled, the periodic test reschedules itself, and
\* a link that works carries what was sent.
Fairness ==
  /\ WF_vars(CheckLinkConnectivityInPeriodic)
  /\ WF_vars(RunRound \/ Finish)
  /\ WF_vars(Deliver)

FairSpec == Spec /\ Fairness

-------------------------------------------------------------------------------
\* Three structures speak of the tests: every running test has its echos, all of
\* them and only those are in echoMsgStateMap, and none belongs to two tests.
EchosAccounted ==
  /\ DOMAIN echoIDs = Running
  /\ DOMAIN echos = UNION {echoIDs[t] : t \in Running}
  /\ \A t, u \in Running : t # u => echoIDs[t] \cap echoIDs[u] = {}

\* However late the answers of earlier tests come, a slow face is declared normal
\* only by a test during which its link worked at some time; and a face whose
\* answers come in time is declared failed only by a test during which its link
\* was down or lost a message.
VerdictsEarned ==
  [][\A f \in Faces :
       status'[f] # status[f] /\ (f \in Slow <=> status'[f] = "NORMAL")
         => f \in seen[Head(queue).test]]_vars

\* A verdict rests on the echos of its own test.
VerdictsSound == []EchosAccounted /\ VerdictsEarned

\* A link that stays down is found out, whichever tests of its face overlap.
FailureFound ==
  \A f \in CapsuleFaces : <>[](~linkUp[f]) => <>[](status[f] = "FAILURE")

\* A link that works again and loses nothing any more is declared normal for good.
RecoveryFound ==
  \A f \in CapsuleFaces \ Slow :
    <>[](linkUp[f]) /\ <>[][\A m \in net : m.echo.face = f => ~Lose(m)]_vars
      => <>[](status[f] = "NORMAL")

\* What lasts is found out in both directions.
StatusFollowsLink == FailureFound /\ RecoveryFound
===============================================================================
