----------------------------- MODULE MCBaselines -----------------------------
(* The baselines, one per behaviour: the three protocols on the same chain and  *)
(* the same lossy links, and frame replication on a network with two paths,     *)
(* whose list of packets seen is also taken alone, with more identifications.   *)
EXTENDS HopLinks

CONSTANTS
  MaxDataId, maxCSynTimes, MaxLosses,      \* R2T and MFTP
  GapMaxDataId, GapTimes, GapLosses,       \* SDATP
  nNodes, Links, LossyLinks, IdSpace, nQueue, Traffic, MaxLostPackets,  \* PaFlow
  ListIdSpace                              \* PaList

VARIABLES protocol, next, transDataIDs, down, up, app, losses,
          csynStates, lost, receivedDataIDs, recentDataID, retranStates, cs, asked,
          needRes, wanted, sent, seen, wire, queue, flushes, handed, lostPackets,
          paList, askedIds, answers

R2T   == INSTANCE R2tChain
MFTP  == INSTANCE MftpChain
SDATP == INSTANCE SdatpChain
           WITH MaxDataId <- GapMaxDataId, maxCSynTimes <- GapTimes, MaxLosses <- GapLosses

F == INSTANCE PaFlow WITH losses <- lostPackets, MaxLosses <- MaxLostPackets
P == INSTANCE PaList WITH IdSpace <- ListIdSpace, asked <- askedIds

\* The ends are linked directly and by node 1, where packets may be lost.
MCLinks == {<<0, 1>>, <<0, 2>>, <<1, 2>>}
MCLossyLinks == {<<0, 1>>, <<1, 2>>}
MCTraffic == {[forward |-> 5, ack |-> 0], [forward |-> 1, ack |-> 1], [forward |-> 0, ack |-> 3]}

\* maxCSynTimes of the R2T and MFTP routes is unsigned.
ASSUME BudgetAssumption == maxCSynTimes \in Nat
ASSUME F!PaFlowAssumption
ASSUME ListIdsAssumption == P!PaListAssumption

r2tOnly   == <<lost>>
ackOnly   == <<csynStates>>
sdatpOnly == <<recentDataID, retranStates, cs, asked>>
chainVars == <<next, transDataIDs, down, up, app, losses, r2tOnly, ackOnly, receivedDataIDs,
               sdatpOnly>>
flowVars  == <<needRes, wanted, sent, seen, wire, queue, flushes, handed, lostPackets>>
listVars  == <<paList, askedIds, answers>>

InitAll ==
  /\ protocol \in {"r2t", "mftp", "sdatp", "pa", "palist"}
  /\ R2T!Init
  /\ MFTP!Init
  /\ SDATP!Init
  /\ F!Init
  /\ P!ListInit
  /\ protocol # "pa" => needRes /\ wanted = [forward |-> 1, ack |-> 1]

ChainNext ==
  \/ protocol = "r2t" /\ R2T!Next /\ UNCHANGED <<receivedDataIDs, sdatpOnly>>
  \/ protocol = "mftp" /\ MFTP!Next /\ UNCHANGED <<r2tOnly, sdatpOnly>>
  \/ protocol = "sdatp" /\ SDATP!Next /\ UNCHANGED <<r2tOnly, ackOnly>>

NextAll ==
  /\ UNCHANGED protocol
  /\ \/ ChainNext /\ UNCHANGED <<flowVars, listVars>>
     \/ protocol = "pa" /\ F!Next /\ UNCHANGED <<chainVars, listVars>>
     \/ protocol = "palist" /\ P!ListNext /\ UNCHANGED <<chainVars, flowVars>>

SpecAll == InitAll /\ [][NextAll]_<<protocol, chainVars, flowVars, listVars>>

-------------------------------------------------------------------------------
\* No protocol hands the subscriber a capsule twice.
SubscriberOnce == R2T!DeliveredOnce

\* R2T and MFTP end a wait only for a capsule the next router passed on; R2T gets no
\* acknowledgement it has no entry for.
AckSettles ==
  /\ protocol = "r2t" => R2T!AckSettles /\ R2T!AckIsExpected
  /\ protocol = "mftp" => MFTP!AckSettles

\* R2T and MFTP give a capsule up only when the budget is spent.
GivesUpSpent ==
  /\ protocol = "r2t" => R2T!GivesUpSpent
  /\ protocol = "mftp" => MFTP!GivesUpSpent

\* SDATP passes over no capsule without asking for it.
GapsAsked == protocol = "sdatp" => SDATP!GapsAsked

\* Frame replication: the list calls each packet new exactly once, losses on one of two
\* paths cost the host nothing.  See PaList and PaFlow.
SeenExactly == protocol = "palist" => P!ListTypeOK /\ P!SeenExactly
LossesRepaired == protocol = "pa" => F!TypeOK /\ F!LossesRepaired
=============================================================================
