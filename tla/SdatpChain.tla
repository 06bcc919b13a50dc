----------------------------- MODULE SdatpChain -----------------------------
(* SDATP (NFD/daemon/fw/sdatp-strategy.cpp): a router finds the capsules missing *)
(* before the one it receives and asks the router before it for each with an RR; *)
(* the RD that answers carries the capsule.  Each request, and each wait for the *)
(* next capsule, is an entry with a random uid and a timer that asks again.      *)
(*                                                                               *)
(* A uid is the pair of the id its entry is for and the id received when it was  *)
(* made: no two entries of a router share both.                                  *)
EXTENDS HopLinks

CONSTANTS MaxDataId, maxCSynTimes, MaxLosses

DataIds == 0..MaxDataId

VARIABLES next, transDataIDs,
          receivedDataIDs,  \* per router: the capsules that came as Data
          recentDataID,     \* per router: the last of them, -1 before the first
          retranStates,     \* per router: requests and waits
          cs,               \* per router: the Data in the content store
          down, up, app, losses,
          asked             \* history, per router: the gaps a RR was sent for

vars == <<next, transDataIDs, receivedDataIDs, recentDataID, retranStates, cs,
          down, up, app, losses, asked>>

Data(d)    == [type |-> "Data", id |-> d]
RD(uid, d) == [type |-> "RD", uid |-> uid, id |-> d]
RR(uid, d) == [uid |-> uid, id |-> d]

Init ==
  /\ next = 0
  /\ transDataIDs = [r \in Routers |-> {}]
  /\ receivedDataIDs = [r \in Routers |-> {}]
  /\ recentDataID = [r \in Routers |-> -1]
  /\ retranStates = [r \in Routers |-> {}]
  /\ cs = [r \in Routers |-> {}]
  /\ down = NoMessages /\ up = NoMessages
  /\ app = <<>>
  /\ losses = 0
  /\ asked = [r \in Routers |-> {}]

\* An entry for capsule d made when capsule cur came; its dataID is uid[1].
Entry(d, cur) == [uid |-> <<d, cur>>, times |-> 1, timer |-> TRUE]

\* What is left when the first entry for d, in the order of the hash table, goes.
WithoutOneFor(entries, d) ==
  LET those == {e \in entries : e.uid[1] = d}
  IN  IF those = {} THEN {entries} ELSE {entries \ {e} : e \in those}

-------------------------------------------------------------------------------
\* Mutant: the first capsule of a gap is overlooked.
GapSkippingFirst(r, d) == (recentDataID[r] + 2)..(d - 1)

\* The ids between the last capsule received and this one.
Gap(r, d) == (recentDataID[r] + 1)..(d - 1)

\* One RR for each id of the gap, in ascending order.
RRsFor(gap, d) ==
  LET low == CHOOSE s \in gap : \A t \in gap : s <= t
  IN  [i \in 1..(IF gap = {} THEN 0 ELSE d - low) |->
         RR(<<low + i - 1, d>>, low + i - 1)]

\* Data in afterReceiveData.  The subscriber's router hands it over and looks for no gap.
HandleData(r, d, pending) ==
  /\ cs' = [cs EXCEPT ![r] = @ \cup {d}]
  /\ \/ /\ d \in transDataIDs[r]
        /\ down' = pending
        /\ UNCHANGED <<transDataIDs, receivedDataIDs, recentDataID, retranStates, up, app, asked>>
     \/ /\ d \notin transDataIDs[r] /\ ~HasFaceDown(r)
        /\ \E left \in WithoutOneFor(retranStates[r], d) :
              retranStates' = [retranStates EXCEPT ![r] = left]
        /\ app' = Append(app, d)
        /\ transDataIDs' = [transDataIDs EXCEPT ![r] = @ \cup {d}]
        /\ down' = pending
        /\ UNCHANGED <<receivedDataIDs, recentDataID, up, asked>>
     \/ /\ d \notin transDataIDs[r] /\ HasFaceDown(r)
        /\ down' = SendDown(pending, r, <<Data(d)>>)
        /\ transDataIDs' = [transDataIDs EXCEPT ![r] = @ \cup {d}]
        /\ receivedDataIDs' = [receivedDataIDs EXCEPT ![r] = @ \cup {d}]
        /\ up' = SendUp(up, r, RRsFor(Gap(r, d), d))
        /\ asked' = [asked EXCEPT ![r] = @ \cup Gap(r, d)]
        /\ \E left \in WithoutOneFor(retranStates[r], d) :
              retranStates' = [retranStates EXCEPT ![r] =
                 left \cup {Entry(s, d) : s \in Gap(r, d)} \cup {Entry(d + 1, d)}]
        /\ recentDataID' = [recentDataID EXCEPT ![r] = d]
        /\ UNCHANGED app

Publish ==
  /\ next \in DataIds
  /\ next' = next + 1
  /\ HandleData(1, next, down)
  /\ UNCHANGED losses

IsNext(r, type) == HasFaceUp(r) /\ down[r - 1] # <<>> /\ Head(down[r - 1]).type = type

ReceiveData(r) ==
  /\ IsNext(r, "Data")
  /\ HandleData(r, Head(down[r - 1]).id, Taken(down, r - 1))
  /\ UNCHANGED <<next, losses>>

\* RD in afterReceiveData: the entry of its uid ends, a missing capsule goes on.
\* It is not put into the content store, nor counted as received.
ReceiveRD(r) ==
  /\ IsNext(r, "RD")
  /\ LET m    == Head(down[r - 1])
         rest == Taken(down, r - 1)
     IN  /\ retranStates' = [retranStates EXCEPT ![r] = {e \in @ : e.uid # m.uid}]
         /\ IF m.id \in transDataIDs[r]
            THEN down' = rest /\ UNCHANGED <<transDataIDs, app>>
            ELSE /\ transDataIDs' = [transDataIDs EXCEPT ![r] = @ \cup {m.id}]
                 /\ down' = SendDown(rest, r, <<Data(m.id)>>)
                 /\ app' = IF HasFaceDown(r) THEN app ELSE Append(app, m.id)
  /\ UNCHANGED <<next, receivedDataIDs, recentDataID, cs, up, losses, asked>>

\* RR in afterReceiveData: answered from the content store, or missed.
ReceiveRR(r) ==
  /\ HasFaceDown(r) /\ up[r] # <<>>
  /\ LET m == Head(up[r]) IN
       down' = IF m.id \in cs[r] THEN SendDown(down, r, <<RD(m.uid, m.id)>>) ELSE down
  /\ up' = Taken(up, r)
  /\ UNCHANGED <<next, transDataIDs, receivedDataIDs, recentDataID, retranStates, cs,
                 app, losses, asked>>

\* waitingRD: asks again - for the id received when the entry was made, not for the
\* id the entry is for.
WaitingRD(r, e) ==
  /\ e.timer
  /\ HasFaceDown(r)
  /\ up' = SendUp(up, r, <<RR(e.uid, e.uid[2])>>)
  /\ retranStates' = [retranStates EXCEPT ![r] = (@ \ {e}) \cup
        {[e EXCEPT !.times = @ + 1, !.timer = e.times + 1 < maxCSynTimes]}]
  /\ UNCHANGED <<next, transDataIDs, receivedDataIDs, recentDataID, cs, down, app,
                 losses, asked>>

Lose(h) ==
  /\ losses < MaxLosses
  /\ losses' = losses + 1
  /\ \/ down[h] # <<>> /\ down' = Taken(down, h) /\ UNCHANGED up
     \/ up[h] # <<>> /\ up' = Taken(up, h) /\ UNCHANGED down
  /\ UNCHANGED <<next, transDataIDs, receivedDataIDs, recentDataID, retranStates, cs,
                 app, asked>>

Next ==
  \/ Publish
  \/ \E r \in Routers :
        \/ ReceiveData(r)
        \/ ReceiveRD(r)
        \/ ReceiveRR(r)
        \/ \E e \in retranStates[r] : WaitingRD(r, e)
  \/ \E h \in Hops : Lose(h)

Spec == Init /\ [][Next]_vars

-------------------------------------------------------------------------------
\* A router between publisher and subscriber passes over no capsule silently: what it
\* neither has nor asked for comes after everything it received.
GapsAsked ==
  \A r \in Routers : HasFaceDown(r) /\ HasFaceUp(r) =>
     \A d \in DataIds : (\E c \in receivedDataIDs[r] : d < c) =>
        d \in transDataIDs[r] \cup asked[r]

\* The subscriber gets no capsule twice.
DeliveredOnce == \A i, j \in 1..Len(app) : app[i] = app[j] => i = j
=============================================================================
