---------------------------- MODULE MCRsgForwarding ----------------------------
(***************************************************************************)
(* The two halves of an RSG, a behaviour being one of either: the search   *)
(* for the preferred path, and the forwarding of messages by the paths     *)
(* preferred.  Both are on the subgraph of MCRsgSubgraph.                  *)
(***************************************************************************)
EXTENDS RsgForwarding, MCRsgSubgraph

CONSTANTS PrimSuccs, RspSuccs, OtherLinks

VARIABLES part, view, succ, preferred

S == INSTANCE RsgPreferredPath

ASSUME ForwardingAssumption == RsgForwardingAssumption

searchVars == <<view, succ, preferred>>

PartsInit ==
  /\ part \in {"search", "forwarding"}
  /\ S!Init
  /\ part = "forwarding" => \A v \in RspVirLinks : succ[v] = MinusInf
  /\ Init

PartsNext ==
  \/ part = "search" /\ S!Next /\ UNCHANGED <<part, vars>>
  \/ part = "forwarding" /\ Next /\ UNCHANGED <<part, searchVars>>

PartsSpec == PartsInit /\ [][PartsNext]_<<part, searchVars, vars>>

-------------------------------------------------------------------------------
\* The messages of the forwarding half, see there.
AnswersComeBack == NoDeadEnd /\ AnswerReturns

\* The properties of the search half, see there.
RspStatusExact == S!RspStatusExact
PreferredIsBest == S!PreferredIsBest
===============================================================================
