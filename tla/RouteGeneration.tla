--------------------------- MODULE RouteGeneration ----------------------------
(***************************************************************************)
(* class ResilientRouteGenerationForDrtpSimple: the primary path from a    *)
(* source to a destination and, for every later node on it, up to Beta     *)
(* redundant sub-paths (RSP) back to some node before it.  Each path comes *)
(* from a search of Dijkstra's; an RSP's is for a virtual node joined to   *)
(* all nodes before.  The searches of the program only share the graph, so *)
(* a behaviour is the generation for one source and one destination.       *)
(***************************************************************************)
EXTENDS Integers, Sequences, FiniteSets, FiniteSetsExt

CONSTANTS
  Routers,     \* the nodes of the graph
  Graphs,      \* sets of links {a, b}
  Delay,       \* delay_total, which the loaders give every link alike
  QueueDelay,  \* delay_queue, which is part of delay_total
  Beta,        \* config->beta
  NumRetransRequests,
  IntMax       \* INT_MAX

Virt == 0      \* the virtual node

RouteGenerationAssumption ==
  /\ Virt \notin Routers
  /\ \A g \in Graphs : \A l \in g : l \subseteq Routers /\ Cardinality(l) = 2
  /\ Delay \in Nat \ {0}
  /\ QueueDelay \in 0..Delay
  /\ Beta \in Nat \ {0}
  /\ NumRetransRequests \in Nat \ {0}
  /\ Delay * Cardinality(Routers) < IntMax

VARIABLES
  links, src, dst,
  phase,                \* "primary", then "rsp", then "done"
  from,                 \* the node the search starts from
  q, delays, prevNode,  \* genPathDijkstra: isNodeIdInQ, delays, prevNodeIdx
  pp,                   \* the primary path, NoPath before it is known or without one
  pos,                  \* the position on it whose RSPs are generated
  rsps                  \* position -> its RSPs in the order generated

vars == <<links, src, dst, phase, from, q, delays, prevNode, pp, pos, rsps>>

NoPath == <<>>
None == -1

LinksOf(path) == {{path[j], path[j + 1]} : j \in 1..(Len(path) - 1)}

\* 32-bit addition for the width of IntMax: more than IntMax wraps around.
Plus(x, y) == IF x + y > IntMax THEN x + y - 2 * (IntMax + 1) ELSE x + y

-------------------------------------------------------------------------------
\* Links to the virtual node exist only while RSPs are searched.
VirtLinks == IF phase = "rsp" THEN {{Virt, pp[j]} : j \in 1..(pos - 1)} ELSE {}

\* Mutant: the links of earlier RSPs may be used again.
InvalidPrimaryOnly == IF phase = "rsp" THEN LinksOf(pp) ELSE {}

\* The links of the primary path and of the RSPs the node has already.
Invalid ==
  IF phase = "rsp" THEN LinksOf(pp) \cup UNION {LinksOf(rsps[pos][k]) : k \in DOMAIN rsps[pos]} ELSE {}

Usable == (links \cup VirtLinks) \ Invalid
LinkDelay(l) == IF Virt \in l THEN 0 ELSE Delay

StartSearch(s, nodes) ==
  /\ from' = s
  /\ q' = nodes
  /\ delays' = [v \in nodes |-> IF v = s THEN 0 ELSE IntMax]
  /\ prevNode' = [v \in nodes |-> None]

Init ==
  /\ links \in Graphs
  /\ src \in Routers /\ dst \in Routers \ {src}
  /\ phase = "primary"
  /\ from = src
  /\ q = Routers
  /\ delays = [v \in Routers |-> IF v = src THEN 0 ELSE IntMax]
  /\ prevNode = [v \in Routers |-> None]
  /\ pp = NoPath
  /\ pos = 2
  /\ rsps = <<>>

\* Which of several nearest nodes is the greatest in the heap depends on its shape.
Nearest(u) == u \in q /\ \A v \in q : delays[u] <= delays[v]

\* One round of genPathDijkstra.  Behind the last node that is reached the sum
\* overflows, so nodes that are not reached get predecessors all the same.
RemoveMax(u) ==
  /\ phase # "done"
  /\ Nearest(u)
  /\ q' = q \ {u}
  /\ LET overV(v) == Plus(LinkDelay({u, v}), delays[u])
         better == {v \in q' : {u, v} \in Usable /\ overV(v) < delays[v]}
     IN  /\ delays' = [v \in DOMAIN delays |-> IF v \in better THEN overV(v) ELSE delays[v]]
         /\ prevNode' = [v \in DOMAIN prevNode |-> IF v \in better THEN u ELSE prevNode[v]]
  /\ UNCHANGED <<links, src, dst, phase, from, pp, pos, rsps>>

-------------------------------------------------------------------------------
\* The nodes met from d back to the start of the search, the last first.
WayBack(d) ==
  LET way[n \in Nat] ==   \* n more steps
        IF n = 0 THEN <<d>>
        ELSE LET w == way[n - 1]
             IN  IF Head(w) = from \/ prevNode[Head(w)] = None THEN w
                 ELSE <<prevNode[Head(w)]>> \o w
  IN  way[Cardinality(DOMAIN prevNode)]

ConvertPrevToPath(d, dropLast) ==
  IF Head(WayBack(d)) # from THEN NoPath
  ELSE IF dropLast THEN SubSeq(WayBack(d), 1, Len(WayBack(d)) - 1)
  ELSE WayBack(d)

\* The primary search is over: the path to the destination, and the first search
\* for RSPs; a destination that is not reached has no routes.
EndPrimarySearch ==
  /\ phase = "primary"
  /\ q = {}
  /\ pp' = ConvertPrevToPath(dst, FALSE)
  /\ IF pp' = NoPath
     THEN phase' = "done" /\ UNCHANGED <<from, q, delays, prevNode, rsps>>
     ELSE /\ phase' = "rsp"
          /\ rsps' = [j \in 2..Len(pp') |-> <<>>]
          /\ StartSearch(pp'[2], Routers \cup {Virt})
  /\ UNCHANGED <<links, src, dst, pos>>

\* A search for an RSP is over.  The node gets another search after a path found,
\* until it has Beta; then, or without a path, it is the next node's turn.
EndRspSearch ==
  /\ phase = "rsp"
  /\ q = {}
  /\ LET path == ConvertPrevToPath(Virt, TRUE) IN
       /\ rsps' = IF path = NoPath THEN rsps ELSE [rsps EXCEPT ![pos] = Append(@, path)]
       /\ pos' = IF path = NoPath \/ Len(rsps'[pos]) = Beta THEN pos + 1 ELSE pos
  /\ IF pos' > Len(pp) THEN phase' = "done" /\ UNCHANGED <<from, q, delays, prevNode>>
     ELSE phase' = "rsp" /\ StartSearch(pp[pos'], Routers \cup {Virt})
  /\ UNCHANGED <<links, src, dst, pp>>

Next ==
  \/ \E u \in Routers \cup {Virt} : RemoveMax(u)
  \/ EndPrimarySearch
  \/ EndRspSearch

Spec == Init /\ [][Next]_vars

-------------------------------------------------------------------------------
\* The timers of the routes.  Positions on the primary path count from 1, the source.
\* retransDelayInSingleTime: there and back on the path.
SingleTime(path) == 2 * Delay * (Len(path) - 1)
MultiTimes(path) == SingleTime(path) * NumRetransRequests

\* retransTimeouts; a router without RSPs has none.
RetransTimeout(i) ==
  IF i = 1 \/ rsps[i] = <<>> THEN 0 ELSE Max({MultiTimes(rsps[i][k]) : k \in DOMAIN rsps[i]})

RetransTimeouts(j, i) == MapThenSumSet(RetransTimeout, j..i)
CulQueueTime(i) == QueueDelay * (i - 1)

\* waitingTimeoutOnNextPacketForLostReport
WaitForLostReport(i) == Delay * (i - 1) + RetransTimeouts(1, i - 1)

\* waitingTimeoutOnRetransReport of router i after a Report of router j, 1 < j < i.
WaitOnRetransReport(i, j) == RetransTimeouts(j, i - 1) + CulQueueTime(i) - CulQueueTime(j)

\* The timer of a request that router i sends upstream: the forwarding entry of the
\* primary path, or that of an RSP of its own.
EntryTimeouts(i) == {2 * Delay} \cup {SingleTime(rsps[i][k]) : k \in DOMAIN rsps[i]}

-------------------------------------------------------------------------------
\* The nodes within n links of s.
Within(use, s, n) ==
  FoldSet(LAMBDA k, near : near \cup {v \in Routers : \E u \in near : {u, v} \in use},
          {s}, 1..n)

Reach(use, s) == Within(use, s, Cardinality(Routers))

\* A path of use from s with as few links as lead to any node of targets.
Shortest(use, path, s, targets) ==
  /\ path[1] = s
  /\ path[Len(path)] \in targets
  /\ LinksOf(path) \subseteq use
  /\ Within(use, s, Len(path) - 2) \cap targets = {}

\* Every destination connected to the source gets a shortest path, and no other a
\* path, whatever the delays of unreached nodes have overflowed to.
PrimaryShortest ==
  phase # "primary" =>
    IF pp = NoPath THEN dst \notin Reach(links, src) ELSE Shortest(links, pp, src, {dst})

Upstream(j) == {pp[h] : h \in 1..(j - 1)}
Left(j, k) == (links \ LinksOf(pp)) \ UNION {LinksOf(rsps[j][h]) : h \in 1..(k - 1)}

\* An RSP of a node is a shortest way to the nodes before it that shares no link
\* with the primary path nor with the node's earlier RSPs, and a node has fewer
\* than Beta only when there is no other such way.
SubPathsBypass ==
  \A j \in DOMAIN rsps :
    /\ \A k \in DOMAIN rsps[j] : Shortest(Left(j, k), rsps[j][k], pp[j], Upstream(j))
    /\ j < pos => \/ Len(rsps[j]) = Beta
                \/ Reach(Left(j, Len(rsps[j]) + 1), pp[j]) \cap Upstream(j) = {}

\* The time router i may spend on requests that are not answered.
RetryTime(i) == NumRetransRequests * Max(EntryTimeouts(i))

\* The timers of a path are staged: a router that leaves a loss to the routers before
\* it takes over only after each of them has waited and tried in its turn, and the
\* capsule had time to come down.  A router without RSPs also tries, on the primary
\* link, but the timers behind it take no account of it, so it is left out here.
WaitsAreStaged ==
  phase = "done" =>
    \A i \in 3..Len(pp) : \A k \in 2..(i - 1) : rsps[k] # <<>> =>
      /\ WaitForLostReport(i) >= WaitForLostReport(k) + RetryTime(k) + Delay * (i - k)
      /\ WaitOnRetransReport(i, k) >= RetryTime(k) + QueueDelay * (i - k)
      /\ \A j \in 2..(k - 1) :
           WaitOnRetransReport(i, j) >= WaitOnRetransReport(k, j) + RetryTime(k) + QueueDelay * (i - k)
===============================================================================
