------------------------------ MODULE PathControl ------------------------------
(***************************************************************************)
(* Path control of the routers of one RSG: a link test that ends changes   *)
(* the status of faces (LinkTests has the test itself), a changed status   *)
(* is flooded as a link state advertisement (LSA), and every router of the *)
(* primary path applies each advertisement to its own view of the RSG and  *)
(* chooses the paths it prefers.                                           *)
(*                                                                         *)
(* There is one first-in first-out channel each way on every link.         *)
(***************************************************************************)
EXTENDS RsgSubgraph

CONSTANTS
  Succ,      \* virtual link -> logarithm of its success ratio
  Failing,   \* bound: the links tests may find to have failed
  MaxLsas    \* bound: advertisements originated and messages lost, together

VARIABLES
  faceStatus,    \* node -> neighbour -> status (faceEntries)
  prevLsa,       \* node -> the statuses last advertised, NoLsa before
  recentLsaIds,  \* node -> ids of the advertisements received
  view,          \* node -> its view of the RSG
  down, up,      \* node -> preferredDownPathId, preferredUpPathId
  channel,       \* <<from, to>> -> advertisements on their way
  lsas,          \* number of advertisements originated
  lost,          \* number of messages lost
  applied        \* history: node -> id -> how often it was applied

vars == <<faceStatus, prevLsa, recentLsaIds, view, down, up, channel, lsas, lost, applied>>

PathControlAssumption ==
  /\ Succ \in [VirLinks -> Int]
  /\ Failing \subseteq Links
  /\ MaxLsas \in Nat
ASSUME PathControlAssumption

Nodes == UNION Links
Neighbours(n) == {m \in Nodes \ {n} : {n, m} \in Links}
Channels == {c \in Nodes \X Nodes : c[2] \in Neighbours(c[1])}
PrimNodes == {PrimPath[i] : i \in Positions}
LsaIds == 1..MaxLsas
NoLsa == [neighbour \in {} |-> "NORMAL"]

Init ==
  /\ faceStatus = [n \in Nodes |-> [m \in Neighbours(n) |-> "NORMAL"]]
  /\ prevLsa = [n \in Nodes |-> NoLsa]
  /\ recentLsaIds = [n \in Nodes |-> {}]
  /\ view = [n \in Nodes |-> InitialView]
  /\ down = [n \in Nodes |-> PrimPathID]
  /\ up = [n \in Nodes |-> PrimPathID]
  /\ channel = [c \in Channels |-> <<>>]
  /\ lsas = 0
  /\ lost = 0
  /\ applied = [n \in Nodes |-> [id \in LsaIds |-> 0]]

-------------------------------------------------------------------------------
(* updatePreferredPathWithLSA at node n.  Only a router with a retransmission *)
(* point of the RSG takes part; NoPath leaves the preferred path as it is.    *)
Told(lsa) ==
  [l \in {{lsa.source, m} : m \in DOMAIN lsa.states} |->
     lsa.states[CHOOSE m \in DOMAIN lsa.states : {lsa.source, m} = l]]
Applied(v, lsa) == UpdateLinkStatuses(v, Told(lsa))

UpdatePreferredPathWithLSA(n, lsa) ==
  IF n \notin PrimNodes THEN UNCHANGED <<view, down, up, applied>>
  ELSE LET v == Applied(view[n], lsa)
           p == ComputePreferredPathID(v, Succ, n)
       IN  /\ view' = [view EXCEPT ![n] = v]
           /\ down' = [down EXCEPT ![n] = Preferred(@, p.down)]
           /\ up' = [up EXCEPT ![n] = Preferred(@, p.up)]
           /\ applied' = [applied EXCEPT ![n][lsa.id] = @ + 1]

\* Mutant: it goes to the first face only.
FloodFirst(n, chan, lsa) ==
  [c \in Channels |-> IF c[1] = n /\ \A m \in Neighbours(n) : c[2] <= m
                      THEN Append(chan[c], lsa) ELSE chan[c]]

\* An advertisement goes to every face, the one it came from included.
Flood(n, chan, lsa) ==
  [c \in Channels |-> IF c[1] = n THEN Append(chan[c], lsa) ELSE chan[c]]

\* Mutant: recovered links make no difference.
DiffersFailure(n, states) ==
  \E m \in DOMAIN states :
    states[m] = "FAILURE" /\ (prevLsa[n] = NoLsa \/ prevLsa[n][m] = "NORMAL")

Differs(n, states) ==
  IF prevLsa[n] = NoLsa THEN \E m \in DOMAIN states : states[m] = "FAILURE"
  ELSE states # prevLsa[n]

\* The router does not count its own advertisement as received: it floods and
\* applies it once more when a neighbour sends it back.
BroadcastingLsaTask(n, states) ==
  IF ~Differs(n, states) THEN UNCHANGED <<prevLsa, view, down, up, channel, lsas, applied>>
  ELSE LET lsa == [id |-> lsas + 1, source |-> n, states |-> states] IN
         /\ lsas + lost < MaxLsas
         /\ UpdatePreferredPathWithLSA(n, lsa)
         /\ prevLsa' = [prevLsa EXCEPT ![n] = states]
         /\ channel' = Flood(n, channel, lsa)
         /\ lsas' = lsas + 1

\* A test of all faces or of one has ended; what it found is up to the links.
LinkTestOver(n, result) ==
  LET states == [m \in Neighbours(n) |-> IF m \in DOMAIN result THEN result[m]
                                         ELSE faceStatus[n][m]]
  IN  /\ faceStatus' = [faceStatus EXCEPT ![n] = states]
      /\ BroadcastingLsaTask(n, states)
      /\ UNCHANGED <<recentLsaIds, lost>>

\* Mutant: the id is not kept.
RememberNot(ids, id) == ids

Remember(ids, id) == ids \cup {id}

OnReceiveLsa(c) ==
  /\ channel[c] # <<>>
  /\ LET lsa == Head(channel[c])
         n == c[2]
         rest == [channel EXCEPT ![c] = Tail(@)]
     IN  IF lsa.id \in recentLsaIds[n]
         THEN channel' = rest /\ UNCHANGED <<recentLsaIds, view, down, up, applied>>
         ELSE /\ recentLsaIds' = [recentLsaIds EXCEPT ![n] = Remember(@, lsa.id)]
              /\ channel' = Flood(n, rest, lsa)
              /\ UpdatePreferredPathWithLSA(n, lsa)
  /\ UNCHANGED <<faceStatus, prevLsa, lsas, lost>>

Lose(c) ==
  /\ lsas + lost < MaxLsas
  /\ channel[c] # <<>>
  /\ channel' = [channel EXCEPT ![c] = Tail(@)]
  /\ lost' = lost + 1
  /\ UNCHANGED <<faceStatus, prevLsa, recentLsaIds, view, down, up, lsas, applied>>

Next ==
  \/ \E n \in Nodes :
       \E F \in {Neighbours(n)} \cup {{m} : m \in Neighbours(n)} :
         \E result \in [F -> Status] :
           /\ \A m \in F : result[m] = "FAILURE" => {n, m} \in Failing
           /\ LinkTestOver(n, result)
  \/ \E c \in Channels : OnReceiveLsa(c)
  \/ \E c \in Channels : Lose(c)

Spec == Init /\ [][Next]_vars

-------------------------------------------------------------------------------
\* What a router last advertised is what its faces are in, the initial statuses
\* being known without an advertisement.
AdvertisedIsCurrent ==
  \A n \in Nodes :
    faceStatus[n] = IF prevLsa[n] = NoLsa THEN [m \in Neighbours(n) |-> "NORMAL"] ELSE prevLsa[n]

\* Flooding sends an advertisement back where it came from; still a router applies
\* it once, and the one router it speaks of once more when it comes back.
AppliedOnce ==
  \A id \in LsaIds :
    /\ \A n \in Nodes : applied[n][id] <= IF id \in recentLsaIds[n] THEN 2 ELSE 1
    /\ \A n, m \in Nodes : applied[n][id] > 1 /\ applied[m][id] > 1 => n = m

-------------------------------------------------------------------------------
Quiet == \A c \in Channels : channel[c] = <<>>
Settled == Quiet /\ lost = 0
EndsAgree == \A c \in Channels : faceStatus[c[1]][c[2]] = faceStatus[c[2]][c[1]]

\* When no advertisement is on its way, none was lost and the ends of every link
\* found the same, every router knows every link as it is: neither an old
\* advertisement nor a router's own, come back late, has the last word.
ViewsConverge ==
  Settled /\ EndsAgree =>
    \A n \in PrimNodes, l \in Links : \A a, b \in l : a # b => view[n].link[l] = faceStatus[a][b]

\* The virtual links the source and each router after it prefer, from position i on.
Leads[i \in Positions] ==
  \/ i = Len(PrimPath)
  \/ \E v \in VirLinks : /\ v.ingress = i
                         /\ v.pathID = down[PrimPath[i]]
                         /\ Usable(view[PrimPath[i]], v)
                         /\ v.egress # Len(PrimPath) => up[PrimPath[v.egress]] = v.pathID
                         /\ v.egress > i /\ Leads[v.egress]

\* Then the paths the routers chose one by one join: from the source each leads
\* to a router that expects the capsules on it, up to the destination, whenever
\* there is a route.
RouteJoins ==
  Settled /\ EndsAgree /\ ComputePreferredPathID(view[PrimPath[1]], Succ, PrimPath[1]).down # NoPath
    => Leads[1]
===============================================================================
