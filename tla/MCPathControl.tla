---------------------------- MODULE MCPathControl -----------------------------
(***************************************************************************)
(* Three routers in a triangle: a primary path 1-2-3 and a redundant       *)
(* sub-path 3-1.                                                           *)
(***************************************************************************)
EXTENDS PathControl

MCPrimPath == <<1, 2, 3>>
MCRsps == {[pathID |-> 1, nodeIds |-> <<3, 1>>]}
MCSucc == [v \in VirLinks |-> IF v.pathID = 1 THEN -5 ELSE -2]


\* One link whose ends test it, fail it and find it well again, each on its own.
MCFailing == {{1, 2}}

\* The statuses of an advertisement applied at once are those applied link by link.
AppliedLinkByLink ==
  \A v \in Views, n \in Nodes :
    \A states \in [Neighbours(n) -> Status] :
      Applied(v, [id |-> 1, source |-> n, states |-> states]) =
        FoldSet(LAMBDA m, w : UpdateLinkStatus(w, {n, m}, states[m]), v, Neighbours(n))
ASSUME AppliedLinkByLink
===============================================================================
