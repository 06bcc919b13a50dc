------------------------------ MODULE R2tChain ------------------------------
(* R2T (NFD/daemon/fw/r2t-strategy.cpp): every router acknowledges a capsule  *)
(* to the router before it and sends it again until it is acknowledged itself *)
(* or maxCSynTimes retransmissions are spent.                                 *)
(*                                                                            *)
(* Assumed: the content store holds every Data a router passed on (lookupInCs *)
(* is dereferenced without a check).  Not modelled: Interests, counters, logs.*)
EXTENDS HopLinks, FiniteSets

CONSTANTS MaxDataId,      \* bound: the last capsule published
          maxCSynTimes,   \* retransmissions of one capsule on one hop
          MaxLosses       \* bound: messages lost in a behaviour

DataIds == 0..MaxDataId

VARIABLES next,           \* the next capsule of the publisher
          transDataIDs,   \* per router: the capsules passed on
          csynStates,     \* per router: what it waits to be acknowledged
          down, up,       \* Data and CACKs on the hops
          app,            \* what the subscriber was handed
          losses, lost    \* history: messages lost; Data lost per hop and id

vars == <<next, transDataIDs, csynStates, down, up, app, losses, lost>>

Init ==
  /\ next = 0
  /\ transDataIDs = [r \in Routers |-> {}]
  /\ csynStates = [r \in Routers |-> {}]
  /\ down = NoMessages /\ up = NoMessages
  /\ app = <<>>
  /\ losses = 0
  /\ lost = [h \in Hops |-> [d \in DataIds |-> 0]]

Entries(r, d) == {e \in csynStates[r] : e.dataID = d}

\* A timer is scheduled only when retransmissions are configured.
Opened(d) == [dataID |-> d, times |-> IF maxCSynTimes >= 1 THEN 1 ELSE -1,
              timer |-> maxCSynTimes >= 1]

-------------------------------------------------------------------------------

\* Mutant: what was passed on is not remembered.
HandleDataForgetting(r, d, pending) ==
  /\ down' = SendDown(pending, r, <<d>>)
  /\ up' = SendUp(up, r, <<d>>)
  /\ transDataIDs' = transDataIDs
  /\ csynStates' = IF HasFaceDown(r)
                   THEN [csynStates EXCEPT ![r] = (@ \ Entries(r, d)) \cup {Opened(d)}]
                   ELSE csynStates
  /\ app' = IF HasFaceDown(r) THEN app ELSE Append(app, d)

\* Data in afterReceiveData: known capsules end here; others go on, start the wait
\* for their acknowledgement and are acknowledged upwards.
HandleData(r, d, pending) ==
  \/ /\ d \in transDataIDs[r]
     /\ down' = pending
     /\ UNCHANGED <<transDataIDs, csynStates, up, app>>
  \/ /\ d \notin transDataIDs[r]
     /\ transDataIDs' = [transDataIDs EXCEPT ![r] = @ \cup {d}]
     /\ down' = SendDown(pending, r, <<d>>)
     /\ up' = SendUp(up, r, <<d>>)
     /\ csynStates' = IF HasFaceDown(r)
                      THEN [csynStates EXCEPT ![r] = (@ \ Entries(r, d)) \cup {Opened(d)}]
                      ELSE csynStates
     /\ app' = IF HasFaceDown(r) THEN app ELSE Append(app, d)

Publish ==
  /\ next \in DataIds
  /\ next' = next + 1
  /\ HandleData(1, next, down)
  /\ UNCHANGED <<losses, lost>>

ReceiveData(r) ==
  /\ HasFaceUp(r) /\ down[r - 1] # <<>>
  /\ HandleData(r, Head(down[r - 1]), Taken(down, r - 1))
  /\ UNCHANGED <<next, losses, lost>>

\* CACK in afterReceiveData: the wait and its timer end.
ReceiveCACK(r) ==
  /\ HasFaceDown(r) /\ up[r] # <<>>
  /\ csynStates' = [csynStates EXCEPT ![r] = @ \ Entries(r, Head(up[r]))]
  /\ up' = Taken(up, r)
  /\ UNCHANGED <<next, transDataIDs, down, app, losses, lost>>

\* Mutant: one retransmission is missing.
WaitAgainSooner(e) == [e EXCEPT !.times = @ + 1, !.timer = e.times + 1 < maxCSynTimes]

\* The timer of a wait: the capsule is sent again.
WaitAgain(e) == [e EXCEPT !.times = @ + 1, !.timer = e.times + 1 <= maxCSynTimes]

WaitingCACK(r, e) ==
  /\ e.timer
  /\ down' = SendDown(down, r, <<e.dataID>>)
  /\ csynStates' = [csynStates EXCEPT ![r] = (@ \ {e}) \cup {WaitAgain(e)}]
  /\ UNCHANGED <<next, transDataIDs, up, app, losses, lost>>

LoseData(h) ==
  /\ losses < MaxLosses /\ down[h] # <<>>
  /\ lost' = [lost EXCEPT ![h][Head(down[h])] = @ + 1]
  /\ down' = Taken(down, h)
  /\ losses' = losses + 1
  /\ UNCHANGED <<next, transDataIDs, csynStates, up, app>>

LoseCACK(h) ==
  /\ losses < MaxLosses /\ up[h] # <<>>
  /\ up' = Taken(up, h)
  /\ losses' = losses + 1
  /\ UNCHANGED <<next, transDataIDs, csynStates, down, app, lost>>

Next ==
  \/ Publish
  \/ \E r \in Routers :
        \/ ReceiveData(r)
        \/ ReceiveCACK(r)
        \/ \E e \in csynStates[r] : WaitingCACK(r, e)
  \/ \E h \in Hops : LoseData(h) \/ LoseCACK(h)

Spec == Init /\ [][Next]_vars

-------------------------------------------------------------------------------
\* A router stops waiting for an acknowledgement only when the next router has
\* passed the capsule on (csynStates.erase in afterReceiveData).
AckSettles ==
  \A h \in Hops : \A d \in transDataIDs[h] :
     Entries(h, d) = {} => d \in transDataIDs[h + 1]

\* Every acknowledgement under way finds the entry it dereferences, and is the only
\* one for it: csynStates[dataID] of an unknown capsule would be a null pointer.
AckIsExpected ==
  \A h \in Hops :
     /\ \A i \in 1..Len(up[h]) : Entries(h, up[h][i]) # {}
     /\ Cardinality(OnHop(up, h)) = Len(up[h])

\* A hop gives a capsule up only after the first sending and all retransmissions of
\* it were lost.
GivesUpSpent ==
  \A h \in Hops : \A d \in transDataIDs[h] \ transDataIDs[h + 1] :
     \/ d \in OnHop(down, h)
     \/ \E e \in Entries(h, d) : e.timer
     \/ lost[h][d] = maxCSynTimes + 1

\* The subscriber gets no capsule twice.
DeliveredOnce == \A i, j \in 1..Len(app) : app[i] = app[j] => i = j
=============================================================================
