--------------------------- MODULE RsgPreferredPath ---------------------------
(***************************************************************************)
(* Routers that share one view of an RSG, under every sequence of link     *)
(* state updates and for several success ratios of its virtual links,      *)
(* against a reference definition of the preferred path.                   *)
(***************************************************************************)
EXTENDS RsgSubgraph

CONSTANTS
  PrimSuccs,   \* logarithms a link of the primary path may have
  RspSuccs,    \* logarithms an RSP may have
  OtherLinks   \* links of routers of the RSG that are in no path of it

VARIABLES
  view,      \* the statuses the routers believe in
  succ,      \* virtual link -> logarithm of its success ratio, fixed
  preferred  \* what the router at each position of the primary path computes

vars == <<view, succ, preferred>>

\* Every router runs the same search; it is run once here.
PreferredIn(v) ==
  LET prev == SearchRounds(v, succ).prev
  IN  [i \in Positions |-> PreferredLink(prev, PrimPath[i])]

Init ==
  /\ view = InitialView
  /\ succ \in [VirLinks -> PrimSuccs \cup RspSuccs]
  /\ \A v \in VirLinks : succ[v] \in IF v \in PrimVirLinks THEN PrimSuccs ELSE RspSuccs
  /\ preferred = PreferredIn(view)

\* A link state advertisement with the status of one link; a router advertises
\* all its links, those outside the subgraph too.
Update(l, status) ==
  /\ view' = UpdateLinkStatus(view, l, status)
  /\ preferred' = PreferredIn(view')
  /\ UNCHANGED succ

Next == \E l \in Links \cup OtherLinks, status \in Status : Update(l, status)

Spec == Init /\ [][Next]_vars

-------------------------------------------------------------------------------
\* A sub-path is believed to have failed just when one of its links is, however
\* the updates of links shared between sub-paths interleave.
RspStatusExact ==
  \A r \in Rsps : view.rsp[r.pathID] = "FAILURE" <=> Broken(view.link, r)

(***************************************************************************)
(* Reference: a route is a set of usable virtual links that leads from the *)
(* source to the destination, worth the sum of their logarithms.           *)
(***************************************************************************)
Ways ==
  {w \in SUBSET {v \in VirLinks : Usable(view, v) /\ succ[v] # MinusInf} :
     /\ \A i \in Positions \ {1} :
          Cardinality({v \in w : v.egress = i}) =
            IF i = Len(PrimPath) THEN 1 ELSE Cardinality({v \in w : v.ingress = i})
     /\ \A i \in Positions : Cardinality({v \in w : v.ingress = i}) <= 1}

Worth(w) == MapThenSumSet(LAMBDA v : succ[v], w)

\* The routers of the subgraph, each computing its own preferred path from the
\* same view, together choose one best route from source to destination, and
\* none chooses where there is no route.
PreferredIsBest ==
  LET chosen == {v \in VirLinks : Usable(view, v) /\ preferred[v.ingress].down = v.pathID}
  IN  IF Ways = {} THEN chosen = {}
      ELSE \E w \in Ways : /\ \A x \in Ways : Worth(x) <= Worth(w)
                           /\ \A v \in w : preferred[v.ingress].down = v.pathID
                           /\ \A i \in Positions :
                                preferred[i].down # NoPath => \E v \in w : v.ingress = i

\* The status looked up for an RSP "if isOnPrimPath is true" only
\* (lltc-resilient-routes-subgraph.hpp): no router prefers a sub-path it knows
\* to have failed.
PreferredNotFailed ==
  \A i \in Positions :
    preferred[i].down \in RspIDs => view.rsp[preferred[i].down] # "FAILURE"
===============================================================================
