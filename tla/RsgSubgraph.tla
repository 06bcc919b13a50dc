----------------------------- MODULE RsgSubgraph ------------------------------
(***************************************************************************)
(* class LltcRrSubgraph: what a router knows of one resilient routes       *)
(* subgraph, a primary path and redundant sub-paths (RSP) that bypass      *)
(* parts of it, and how it derives its preferred paths from the link       *)
(* states advertised.  The module has no variables: a view is a record     *)
(*   link   physical link -> status                                        *)
(*   rsp    pathID of an RSP -> status                                     *)
(* the two halves of the C++ linkStatusMap.                                *)
(***************************************************************************)
EXTENDS Integers, Sequences, FiniteSets, FiniteSetsExt

CONSTANTS
  PrimPath,     \* the nodes of the primary path, from the source on
  PrimPathID,   \* its pathID
  Rsps,         \* [pathID, nodeIds]: nodeIds leads from a node upstream to an earlier one
  NoPath        \* UINT_MAX

\* A shortest path visits no node twice.
Simple(nodeIds) == \A i, j \in 1..Len(nodeIds) : nodeIds[i] = nodeIds[j] => i = j

RsgSubgraphAssumption ==
  /\ PrimPath \in Seq(Int) /\ Len(PrimPath) > 1 /\ Simple(PrimPath)
  /\ PrimPathID # NoPath
  /\ IsFiniteSet(Rsps)
  /\ \A r \in Rsps :
       /\ r.nodeIds \in Seq(Int) /\ Len(r.nodeIds) > 1 /\ Simple(r.nodeIds)
       /\ \E i, j \in 1..Len(PrimPath) :
            j < i /\ r.nodeIds[1] = PrimPath[i] /\ r.nodeIds[Len(r.nodeIds)] = PrimPath[j]
  /\ \A r, s \in Rsps : r.pathID = s.pathID => r = s
  /\ \A r \in Rsps : r.pathID \notin {PrimPathID, NoPath}
ASSUME RsgSubgraphAssumption

Status == {"NORMAL", "FAILURE"}

LinksOf(nodeIds) == {{nodeIds[i], nodeIds[i + 1]} : i \in 1..(Len(nodeIds) - 1)}
PrimLinks == LinksOf(PrimPath)
Links == PrimLinks \cup UNION {LinksOf(r.nodeIds) : r \in Rsps}
RspIDs == {r.pathID : r \in Rsps}

Views == [link : [Links -> Status], rsp : [RspIDs -> Status]]

\* genLltcRrSubgraph starts every link and sub-path as normal.
InitialView == [link |-> [l \in Links |-> "NORMAL"], rsp |-> [p \in RspIDs |-> "NORMAL"]]

-------------------------------------------------------------------------------
RspOf(p) == CHOOSE r \in Rsps : r.pathID = p

Broken(link, r) == \E k \in LinksOf(r.nodeIds) : link[k] = "FAILURE"

\* Mutant: a sub-path that failed is not looked at again.
UpdateLinkStatusSticky(view, l, status) ==
  IF l \notin Links THEN view
  ELSE LET link == [view.link EXCEPT ![l] = status] IN
         [link |-> link,
          rsp  |-> [p \in RspIDs |-> IF l \in LinksOf(RspOf(p).nodeIds) /\ status = "FAILURE"
                                     THEN "FAILURE" ELSE view.rsp[p]]]

\* rsgUpdateLinkStatus, for each link of a table of statuses: a link in no path of the
\* subgraph is ignored; a sub-path with one of the links is recomputed from all of its
\* links, so that the order of the links makes no difference.
UpdateLinkStatuses(view, told) ==
  LET link == [l \in Links |-> IF l \in DOMAIN told THEN told[l] ELSE view.link[l]] IN
    [link |-> link,
     rsp  |-> [p \in RspIDs |->
                 IF LinksOf(RspOf(p).nodeIds) \cap DOMAIN told = {} THEN view.rsp[p]
                 ELSE IF Broken(link, RspOf(p)) THEN "FAILURE" ELSE "NORMAL"]]

UpdateLinkStatus(view, l, status) == UpdateLinkStatuses(view, [k \in {l} |-> status])

-------------------------------------------------------------------------------
(* Virtual links join positions of the primary path. *)
Positions == 1..Len(PrimPath)
PositionOf(node) == CHOOSE i \in Positions : PrimPath[i] = node

PrimVirLinks ==
  {[pathID |-> PrimPathID, ingress |-> i - 1, egress |-> i] : i \in 2..Len(PrimPath)}
RspVirLinks ==
  {[pathID  |-> r.pathID,
    ingress |-> PositionOf(r.nodeIds[Len(r.nodeIds)]),
    egress  |-> PositionOf(r.nodeIds[1])] : r \in Rsps}
VirLinks == PrimVirLinks \cup RspVirLinks

PrimLinkInto(i) == {PrimPath[i - 1], PrimPath[i]}

\* Failed links of the primary path before a position: equal for two positions
\* the primary path still joins.
ComponentID(view, i) == Cardinality({k \in 2..i : view.link[PrimLinkInto(k)] = "FAILURE"})

\* The status looked up is that of linkID, which is 0 for an RSP: its own status
\* is never read.
Usable(view, v) ==
  IF v.pathID = PrimPathID
  THEN view.link[PrimLinkInto(v.egress)] # "FAILURE"
  ELSE ComponentID(view, v.ingress) # ComponentID(view, v.egress)

(***************************************************************************)
(* The search: succ is the logarithm of each virtual link's success ratio, *)
(* MinusInf that of a node not reached (and of an RSP whose loss rate was  *)
(* never computed).  Each round removes a node with the greatest key.      *)
(***************************************************************************)
MinusInf == -1000

Plus(x, y) == IF x = MinusInf \/ y = MinusInf THEN MinusInf ELSE x + y

NoPrev == [pathID |-> NoPath, ingress |-> 0, egress |-> 0]

SearchStart ==
  [key  |-> [i \in Positions |-> IF i = 1 THEN 0 ELSE MinusInf],
   prev |-> [i \in Positions |-> NoPrev],
   left |-> Positions]

\* Mutant: the last link looked at is kept, better or not.
RelaxAlways(view, succ, v, s) ==
  LET alt == Plus(s.key[v.ingress], succ[v]) IN
    IF v.egress \in s.left /\ Usable(view, v) /\ alt > MinusInf
    THEN [s EXCEPT !.key[v.egress] = alt, !.prev[v.egress] = v]
    ELSE s

Relax(view, succ, v, s) ==
  LET alt == Plus(s.key[v.ingress], succ[v]) IN
    IF v.egress \in s.left /\ Usable(view, v) /\ alt > s.key[v.egress]
    THEN [s EXCEPT !.key[v.egress] = alt, !.prev[v.egress] = v]
    ELSE s

SearchRound(view, succ, s) ==
  LET u == CHOOSE i \in s.left : \A j \in s.left : s.key[j] <= s.key[i]
  IN  FoldSet(LAMBDA v, t : Relax(view, succ, v, t),
              [s EXCEPT !.left = @ \ {u}],
              {v \in VirLinks : v.ingress = u})

SearchRounds(view, succ) ==
  FoldSet(LAMBDA i, s : SearchRound(view, succ, s), SearchStart, Positions)

\* The positions met on the way back from the destination.
WayBack(prev) ==
  LET on[i \in Positions] ==
        i = Len(PrimPath) \/ \E j \in (i + 1)..Len(PrimPath) : prev[j].ingress = i /\ on[j]
  IN  {i \in Positions : on[i]}

\* The paths to leave and to enter a node by once the search has run, NoPath for
\* a node that is not on the way or has no such side.
PreferredLink(prev, node) ==
  LET downs == {i \in WayBack(prev) : prev[i] # NoPrev /\ PrimPath[prev[i].ingress] = node}
  IN  IF downs = {} THEN [down |-> NoPath, up |-> NoPath]
      ELSE [down |-> prev[CHOOSE i \in downs : TRUE].pathID,
            up   |-> prev[PositionOf(node)].pathID]

\* rsgComputePreferredPathID.
ComputePreferredPathID(view, succ, node) ==
  PreferredLink(SearchRounds(view, succ).prev, node)

(* A router keeps the path it prefers when the search offers it none. *)
\* Mutant: a sub-path once preferred is never left.
PreferredOnce(old, new) == IF new = NoPath \/ old # PrimPathID THEN old ELSE new

Preferred(old, new) == IF new = NoPath THEN old ELSE new
===============================================================================
