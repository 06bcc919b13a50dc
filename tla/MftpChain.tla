----------------------------- MODULE MftpChain ------------------------------
(* MFTP (NFD/daemon/fw/mftp-strategy.cpp): after each capsule a router asks the *)
(* next one with a CSYN whether it arrived.  A CACK that names the capsule ends *)
(* the matter; an empty one makes the router send the capsule and the CSYN      *)
(* again, and a timeout the CSYN alone, within maxCSynTimes.                    *)
(*                                                                              *)
(* A random uid ties a CSYN, its answers and the entry together; it is drawn    *)
(* once per capsule and router and taken to be unique, so the capsule's id      *)
(* stands for it.  Assumed as in R2tChain: the content store keeps the Data.    *)
EXTENDS HopLinks

CONSTANTS MaxDataId, maxCSynTimes, MaxLosses

DataIds == 0..MaxDataId

VARIABLES next, transDataIDs,
          receivedDataIDs,  \* per router: the capsules a CACK confirms
          csynStates, down, up, app, losses

vars == <<next, transDataIDs, receivedDataIDs, csynStates, down, up, app, losses>>

Data(d)     == [type |-> "Data", id |-> d]
CSYN(d)     == [type |-> "CSYN", id |-> d]
CACK(d, ok) == [id |-> d, received |-> ok]

Init ==
  /\ next = 0
  /\ transDataIDs = [r \in Routers |-> {}]
  /\ receivedDataIDs = [r \in Routers |-> {}]
  /\ csynStates = [r \in Routers |-> {}]
  /\ down = NoMessages /\ up = NoMessages
  /\ app = <<>>
  /\ losses = 0

Entries(r, d) == {e \in csynStates[r] : e.dataID = d}

-------------------------------------------------------------------------------
\* Data in afterReceiveData.  The router of the subscriber marks the capsule passed
\* on but not received, so every CSYN it gets is answered with an empty CACK.
HandleData(r, d, pending) ==
  \/ /\ d \in transDataIDs[r]
     /\ down' = pending
     /\ UNCHANGED <<transDataIDs, receivedDataIDs, csynStates, app>>
  \/ /\ d \notin transDataIDs[r] /\ ~HasFaceDown(r)
     /\ app' = Append(app, d)
     /\ transDataIDs' = [transDataIDs EXCEPT ![r] = @ \cup {d}]
     /\ down' = pending
     /\ UNCHANGED <<receivedDataIDs, csynStates>>
  \/ /\ d \notin transDataIDs[r] /\ HasFaceDown(r)
     /\ down' = SendDown(pending, r, <<Data(d), CSYN(d)>>)
     /\ transDataIDs' = [transDataIDs EXCEPT ![r] = @ \cup {d}]
     /\ receivedDataIDs' = [receivedDataIDs EXCEPT ![r] = @ \cup {d}]
     /\ csynStates' = [csynStates EXCEPT ![r] =
                         @ \cup {[dataID |-> d, times |-> 1, timer |-> TRUE]}]
     /\ UNCHANGED app

Publish ==
  /\ next \in DataIds
  /\ next' = next + 1
  /\ HandleData(1, next, down)
  /\ UNCHANGED <<up, losses>>

IsNext(r, type) == HasFaceUp(r) /\ down[r - 1] # <<>> /\ Head(down[r - 1]).type = type

ReceiveData(r) ==
  /\ IsNext(r, "Data")
  /\ HandleData(r, Head(down[r - 1]).id, Taken(down, r - 1))
  /\ UNCHANGED <<next, up, losses>>

\* Mutant: the CACK confirms whatever it is asked.
ReceiveCSYNConfirming(r) ==
  /\ IsNext(r, "CSYN")
  /\ up' = SendUp(up, r, <<CACK(Head(down[r - 1]).id, TRUE)>>)
  /\ down' = Taken(down, r - 1)
  /\ UNCHANGED <<next, transDataIDs, receivedDataIDs, csynStates, app, losses>>

\* CSYN in afterReceiveData: the CACK names the capsule if it was received.
ReceiveCSYN(r) ==
  /\ IsNext(r, "CSYN")
  /\ LET d == Head(down[r - 1]).id IN
       up' = SendUp(up, r, <<CACK(d, d \in receivedDataIDs[r])>>)
  /\ down' = Taken(down, r - 1)
  /\ UNCHANGED <<next, transDataIDs, receivedDataIDs, csynStates, app, losses>>

\* One more CSYN is counted; another timer only while some are left.
Asked(e) == [e EXCEPT !.times = @ + 1, !.timer = e.times + 1 < maxCSynTimes]

\* What a CACK does to the entry it answers; the entry's timer is removed first.
Answer(r, e, ok) ==
  \/ /\ ok
     /\ csynStates' = [csynStates EXCEPT ![r] = @ \ {e}]
     /\ UNCHANGED down
  \/ /\ ~ok /\ e.times < maxCSynTimes
     /\ down' = SendDown(down, r, <<Data(e.dataID), CSYN(e.dataID)>>)
     /\ csynStates' = [csynStates EXCEPT ![r] = (@ \ {e}) \cup {Asked(e)}]
  \/ /\ ~ok /\ e.times >= maxCSynTimes
     /\ csynStates' = [csynStates EXCEPT ![r] = (@ \ {e}) \cup {[e EXCEPT !.timer = FALSE]}]
     /\ UNCHANGED down

ReceiveCACK(r) ==
  /\ HasFaceDown(r) /\ up[r] # <<>>
  /\ up' = Taken(up, r)
  /\ LET m == Head(up[r]) IN
       \/ Entries(r, m.id) = {} /\ UNCHANGED <<csynStates, down>>
       \/ \E e \in Entries(r, m.id) : Answer(r, e, m.received)
  /\ UNCHANGED <<next, transDataIDs, receivedDataIDs, app, losses>>

\* waitingCACK: the CSYN is sent again, at least once whatever maxCSynTimes is.
WaitingCACK(r, e) ==
  /\ e.timer
  /\ down' = SendDown(down, r, <<CSYN(e.dataID)>>)
  /\ csynStates' = [csynStates EXCEPT ![r] = (@ \ {e}) \cup {Asked(e)}]
  /\ UNCHANGED <<next, transDataIDs, receivedDataIDs, up, app, losses>>

Lose(h) ==
  /\ losses < MaxLosses
  /\ losses' = losses + 1
  /\ \/ down[h] # <<>> /\ down' = Taken(down, h) /\ UNCHANGED up
     \/ up[h] # <<>> /\ up' = Taken(up, h) /\ UNCHANGED down
  /\ UNCHANGED <<next, transDataIDs, receivedDataIDs, csynStates, app>>

Next ==
  \/ Publish
  \/ \E r \in Routers :
        \/ ReceiveData(r)
        \/ ReceiveCSYN(r)
        \/ ReceiveCACK(r)
        \/ \E e \in csynStates[r] : WaitingCACK(r, e)
  \/ \E h \in Hops : Lose(h)

Spec == Init /\ [][Next]_vars

-------------------------------------------------------------------------------
\* A router forgets a capsule it asked about only when the next router has passed
\* it on, however late and out of turn the CACK that says so comes.
AckSettles ==
  \A h \in Hops : \A d \in transDataIDs[h] :
     Entries(h, d) = {} => d \in transDataIDs[h + 1]

\* A hop stops asking for a capsule the next router lacks only when maxCSynTimes
\* CSYNs were sent: an empty CACK that stops a timer never ends the matter early.
GivesUpSpent ==
  \A h \in Hops : \A d \in transDataIDs[h] \ transDataIDs[h + 1] :
     \/ \E m \in OnHop(down, h) \cup OnHop(up, h) : m.id = d
     \/ \E e \in Entries(h, d) : e.timer \/ e.times >= maxCSynTimes

\* The subscriber gets no capsule twice.
DeliveredOnce == \A i, j \in 1..Len(app) : app[i] = app[j] => i = j
=============================================================================
