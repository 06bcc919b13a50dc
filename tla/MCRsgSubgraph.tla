----------------------------- MODULE MCRsgSubgraph -----------------------------
(***************************************************************************)
(* A primary path 1-2-3-4 with three redundant sub-paths.  The last      *)
(* bypasses what the others bypass link by link; the first crosses router  *)
(* 4, further down the primary path, and shares a link with each of them.  *)
(***************************************************************************)
EXTENDS RsgSubgraph

MCPrimPath == <<1, 2, 3, 4>>
MCRsps == {[pathID |-> 1, nodeIds |-> <<2, 5, 4, 1>>],
           [pathID |-> 2, nodeIds |-> <<3, 5, 2>>],
           [pathID |-> 3, nodeIds |-> <<4, 1>>]}
MCOtherLinks == {{1, 6}}

MCPrimSuccs == {-2}

\* MinusInf: drtp-simple and static leave the loss rate of an RSP at 0.
MCRspSuccs == {-1, -4, MinusInf}

\* Every sub-path is the best for some failures.
MCSucc == [v \in VirLinks |-> CASE v \in PrimVirLinks -> -2 [] v.pathID = 3 -> -9 [] OTHER -> -4]

\* The sub-paths stay intact.
MCFailing == {{1, 2}, {2, 3}}
===============================================================================
