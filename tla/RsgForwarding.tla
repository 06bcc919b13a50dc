----------------------------- MODULE RsgForwarding -----------------------------
(***************************************************************************)
(* The data plane of one RSG: the forwarding entries the routing helper    *)
(* installs for its paths, and how the routers pass a capsule on, or a     *)
(* request and its answer, by them while each router learns of link        *)
(* changes in its own time (PathControl has the advertisements).           *)
(*                                                                         *)
(* A router forwards each message by itself and keeps nothing of it: one   *)
(* message at a time stands for all.                                       *)
(***************************************************************************)
EXTENDS RsgSubgraph

CONSTANTS
  Succ,      \* virtual link -> logarithm of its success ratio
  Failing    \* bound: the links that may fail

VARIABLES
  linkUp,    \* link -> it works
  known,     \* router of the primary path -> its view of the RSG
  down,      \* router of the primary path -> preferredDownPathId
  msg        \* the message on its way

vars == <<linkUp, known, down, msg>>

RsgForwardingAssumption ==
  /\ Succ \in [VirLinks -> Int]
  /\ Failing \subseteq Links

\* The Interest went up the primary path: these have the PIT entry of the stream.
PrimNodes == {PrimPath[i] : i \in Positions}
Source == PrimPath[1]

-------------------------------------------------------------------------------
(* addFibsFromPath: an entry each way for every link of a path, direction 0 *)
(* for what goes downstream.  A sub-path leads upstream.                    *)

PathEntries(pathId, nodeIds, isPrimPath) ==
  UNION {{[node |-> nodeIds[i], pathId |-> pathId, direction |-> IF isPrimPath THEN 0 ELSE 1,
           nextHop |-> nodeIds[i + 1], isRetransPoint |-> isPrimPath \/ i = 1],
          [node |-> nodeIds[i + 1], pathId |-> pathId, direction |-> IF isPrimPath THEN 1 ELSE 0,
           nextHop |-> nodeIds[i], isRetransPoint |-> isPrimPath]}
         : i \in 1..(Len(nodeIds) - 1)}

FibEntries ==
  PathEntries(PrimPathID, PrimPath, TRUE)
    \cup UNION {PathEntries(r.pathID, r.nodeIds, FALSE) : r \in Rsps}

\* Mutant: an entry of either direction will do.
LookupForwardingEntryAny(n, pathId, direction) ==
  {fe.nextHop : fe \in {e \in FibEntries : e.node = n /\ e.pathId = pathId}}

\* The next hops of a path at a node, none or one.
LookupForwardingEntry(n, pathId, direction) ==
  {fe.nextHop : fe \in {e \in FibEntries : /\ e.node = n /\ e.pathId = pathId
                                           /\ e.direction = direction}}

-------------------------------------------------------------------------------
Kinds == {"Capsule", "CapsuleOnRSP", "Request", "Answer"}

\* No message is on its way: the last one was delivered to the application,
\* answered, lost on a link or dropped for want of an entry.
Ends == {"None", "Delivered", "Answered", "Lost", "Dropped"}

\* from, to: the link it is on; origin: the router a request comes from; served:
\* the router that last had it as its own, not in transit; settled: whether all
\* routers knew every link when it was sent, and none has changed since.
NoMessage ==
  [kind |-> "None", from |-> Source, to |-> Source, path |-> PrimPathID,
   origin |-> Source, served |-> Source, settled |-> FALSE]

Init ==
  /\ linkUp = [l \in Links |-> TRUE]
  /\ known = [n \in PrimNodes |-> InitialView]
  /\ down = [n \in PrimNodes |-> PrimPathID]
  /\ msg = NoMessage

Actual == [l \in Links |-> IF linkUp[l] THEN "NORMAL" ELSE "FAILURE"]
Settled == \A n \in PrimNodes : known[n].link = Actual

\* One of the messages sent to the next hops, or ended where there is no entry.
SendTo(hops, m, n) ==
  IF hops = {} THEN msg' = [m EXCEPT !.kind = "Dropped", !.from = n, !.to = n]
  ELSE \E h \in hops : msg' = [m EXCEPT !.from = n, !.to = h]

(***************************************************************************)
(* onReceiveCapsule, deliverCapsule: a router of the primary path passes a *)
(* capsule on by the path it prefers; where the primary path ends, to the  *)
(* application.                                                            *)
(***************************************************************************)
DeliverCapsule(m, n) ==
  LET path == down[n]
      hops == LookupForwardingEntry(n, path, 0)
      kind == IF path = PrimPathID THEN "Capsule" ELSE "CapsuleOnRSP"
      own == [m EXCEPT !.served = n, !.path = path]
  IN  IF path = PrimPathID /\ hops = {}
      THEN msg' = [own EXCEPT !.kind = "Delivered", !.from = n, !.to = n]
      ELSE SendTo(hops, [own EXCEPT !.kind = kind], n)

Publish ==
  /\ msg.kind \in Ends
  /\ DeliverCapsule([NoMessage EXCEPT !.settled = Settled], Source)
  /\ UNCHANGED <<linkUp, known, down>>

\* RequestS and RequestM go out at every retransmission point of the router.
SendRequest(n) ==
  /\ msg.kind \in Ends
  /\ \E fe \in FibEntries :
       /\ fe.node = n /\ fe.direction = 1 /\ fe.isRetransPoint
       /\ SendTo({fe.nextHop},
                 [NoMessage EXCEPT !.kind = "Request", !.path = fe.pathId, !.origin = n,
                                   !.served = n, !.settled = Settled], n)
  /\ UNCHANGED <<linkUp, known, down>>

\* Mutant: messages on the primary path are passed on too.
NeedToForwardAll(m) == m.kind # "Capsule"

\* Requests and answers on the primary path go one hop.
NeedToForward(m) ==
  m.kind = "CapsuleOnRSP" \/ (m.kind \in {"Request", "Answer"} /\ m.path # PrimPathID)

Direction(m) == IF m.kind = "Request" THEN 1 ELSE 0

\* onReceiveRequestS and onReceiveRequestM answer over the face the request came
\* from; whether the capsule is found is up to the content store.
Process(m, n) ==
  \/ m.kind \in {"Capsule", "CapsuleOnRSP"} /\ DeliverCapsule(m, n)
  \/ m.kind = "Request" /\ msg' = [m EXCEPT !.kind = "Answer", !.served = n, !.from = n, !.to = m.from]
  \/ m.kind = "Answer" /\ msg' = [m EXCEPT !.kind = "Answered", !.from = n, !.to = n]

\* afterReceiveData at a router with the PIT entry, afterReceiveNonPitData at one
\* without.
Receive ==
  LET n == msg.to
      hops == LookupForwardingEntry(n, msg.path, Direction(msg))
  IN  /\ msg.kind \in Kinds
      /\ linkUp[{msg.from, n}]
      /\ IF n \notin PrimNodes THEN SendTo(hops, msg, n)
         ELSE IF NeedToForward(msg) /\ hops # {} THEN SendTo(hops, msg, n)
         ELSE Process(msg, n)
      /\ UNCHANGED <<linkUp, known, down>>

Lose ==
  /\ msg.kind \in Kinds
  /\ ~linkUp[{msg.from, msg.to}]
  /\ msg' = [msg EXCEPT !.kind = "Lost"]
  /\ UNCHANGED <<linkUp, known, down>>

-------------------------------------------------------------------------------
LinkChange(l) ==
  /\ linkUp' = [linkUp EXCEPT ![l] = ~@]
  /\ msg' = [msg EXCEPT !.settled = FALSE]
  /\ UNCHANGED <<known, down>>

\* updatePreferredPathWithLSA for an advertisement with the link's status.
Learn(n, l) ==
  /\ known[n].link[l] # Actual[l]
  /\ LET v == UpdateLinkStatus(known[n], l, Actual[l]) IN
       /\ known' = [known EXCEPT ![n] = v]
       /\ down' = [down EXCEPT ![n] = Preferred(@, ComputePreferredPathID(v, Succ, n).down)]
  /\ UNCHANGED <<linkUp, msg>>

Next ==
  \/ Publish
  \/ \E n \in PrimNodes : SendRequest(n)
  \/ Receive
  \/ Lose
  \/ \E l \in Failing : LinkChange(l)
  \/ \E n \in PrimNodes, l \in Links : Learn(n, l)

Spec == Init /\ [][Next]_vars

-------------------------------------------------------------------------------
(* The installed entries fit the paths: deliverCapsule uses the entry of a   *)
(* preferred sub-path without the test for NULL it has for the primary path, *)
(* and no message is dropped in the middle of a path.                        *)
NoDeadEnd ==
  /\ \A n \in PrimNodes : down[n] # PrimPathID => LookupForwardingEntry(n, down[n], 0) # {}
  /\ msg.kind # "Dropped"

\* However differently the routers see the links, a capsule is passed on to a
\* router further down the primary path, never back or around.
CapsulesMoveOn ==
  [][msg.kind \in {"Capsule", "CapsuleOnRSP"} /\ msg'.served # msg.served
       => PositionOf(msg'.served) > PositionOf(msg.served)]_vars

\* A request sent at a retransmission point is answered by a router before the one
\* that sent it, and the answer comes back to just that one, also over sub-paths
\* that cross other routers of the primary path.
AnswerReturns ==
  msg.kind = "Answered" =>
    msg.to = msg.origin /\ PositionOf(msg.served) < PositionOf(msg.origin)

\* Working links and sub-paths lead from the source to a position.
Reached[i \in Positions] ==
  \/ i = 1
  \/ \E v \in VirLinks :
       /\ v.egress = i
       /\ IF v.pathID = PrimPathID THEN linkUp[PrimLinkInto(i)]
          ELSE \A l \in LinksOf(RspOf(v.pathID).nodeIds) : linkUp[l]
       /\ Reached[v.ingress]

\* Once every router knows every link and until one changes, a capsule gets through
\* wherever a route is left; as long as no sub-path has failed, which a router
\* prefers all the same (RsgPreferredPath has that).
SettledDelivers ==
  msg.kind = "Lost" /\ msg.origin = Source /\ msg.settled /\ (\A r \in Rsps : ~Broken(Actual, r))
    => ~Reached[Len(PrimPath)]
===============================================================================
