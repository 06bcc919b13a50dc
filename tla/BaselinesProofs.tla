--------------------------- MODULE BaselinesProofs ---------------------------
(***************************************************************************)
(* The results of the three chain protocols and of frame replication, for  *)
(* the behaviours the runs check: MCBaselines runs one at a time on the    *)
(* same variables, so that the inductive invariants, each under the        *)
(* condition that its protocol runs, make one of the whole specification.  *)
(*                                                                         *)
(* MFTP, for any number of routers, capsules, retransmissions and losses:  *)
(* no router forgets a capsule it asked about before the next router has   *)
(* it, or stops asking while the budget lasts.  SDATP: no router passes    *)
(* over a capsule without asking for it.  R2T: no wait for an               *)
(* acknowledgement ends before the next router has the capsule, none comes  *)
(* that nobody waits for, no hop gives a capsule up while a sending is left. *)
(***************************************************************************)
EXTENDS MCBaselines, FiniteSetTheorems, SequenceTheorems, TLAPS

-------------------------------------------------------------------------------
(* What sending a message to a hop and taking one from it do to the messages   *)
(* under way, for any number of routers and any messages.                       *)

\* A message put behind the others.
LEMMA OneBehind ==
  ASSUME NEW S, NEW s \in Seq(S), NEW x \in S
  PROVE  /\ s \o <<x>> \in Seq(S)
         /\ Len(s) \in Nat
         /\ Len(s \o <<x>>) = Len(s) + 1
         /\ \A i \in 1..Len(s) : (s \o <<x>>)[i] = s[i]
         /\ (s \o <<x>>)[Len(s) + 1] = x
OBVIOUS

\* The first message taken.
LEMMA FirstTaken ==
  ASSUME NEW S, NEW s \in Seq(S), s # <<>>
  PROVE  /\ Tail(s) \in Seq(S)
         /\ Len(s) \in Nat \ {0}
         /\ Head(s) = s[1] /\ Head(s) \in S
         /\ Len(Tail(s)) = Len(s) - 1
         /\ \A i \in 1..Len(Tail(s)) : Tail(s)[i] = s[i + 1]
OBVIOUS

\* The hop below router r, if any, is r, the hop above it r - 1.
LEMMA HopsOfRouters ==
  /\ \A h \in R2T!Hops : /\ h \in Int /\ h \in R2T!Routers /\ h + 1 \in R2T!Routers
                        /\ h + 1 # h /\ h + 1 - 1 = h
  /\ 1 \in R2T!Routers /\ ~ R2T!HasFaceUp(1)
BY LastAssumption DEF R2T!Hops, R2T!Routers, R2T!HasFaceUp

\* A hop with its first message taken.
LEMMA TakenOf ==
  ASSUME NEW S, NEW q \in [R2T!Hops -> Seq(S)], NEW h \in R2T!Hops, q[h] # <<>>
  PROVE  /\ R2T!Taken(q, h) \in [R2T!Hops -> Seq(S)]
         /\ R2T!Taken(q, h)[h] = Tail(q[h])
         /\ \A g \in R2T!Hops \ {h} : R2T!Taken(q, h)[g] = q[g]
         /\ \A g \in R2T!Hops : \A i \in 1..Len(R2T!Taken(q, h)[g]) :
               \E j \in 1..Len(q[g]) : R2T!Taken(q, h)[g][i] = q[g][j]
<1>1. /\ Tail(q[h]) \in Seq(S)
      /\ Len(q[h]) \in Nat \ {0} /\ Len(Tail(q[h])) = Len(q[h]) - 1
      /\ \A i \in 1..Len(Tail(q[h])) : Tail(q[h])[i] = q[h][i + 1]
  BY FirstTaken
<1>2. /\ R2T!Taken(q, h) \in [R2T!Hops -> Seq(S)]
      /\ R2T!Taken(q, h)[h] = Tail(q[h])
      /\ \A g \in R2T!Hops \ {h} : R2T!Taken(q, h)[g] = q[g]
  BY <1>1 DEF R2T!Taken
<1>3. \A i \in 1..Len(Tail(q[h])) : i + 1 \in 1..Len(q[h])
  BY <1>1
<1>4. \A i \in 1..Len(R2T!Taken(q, h)[h]) :
         \E j \in 1..Len(q[h]) : R2T!Taken(q, h)[h][i] = q[h][j]
  BY <1>1, <1>2, <1>3
<1> QED
  BY <1>2, <1>4

\* A message of router r is put behind the others of the hop below it.
LEMMA SendDownAdds ==
  ASSUME NEW S, NEW q \in [R2T!Hops -> Seq(S)], NEW r \in R2T!Routers, NEW x \in S
  PROVE  /\ R2T!SendDown(q, r, <<x>>) \in [R2T!Hops -> Seq(S)]
         /\ \A h \in R2T!Hops : \A i \in 1..Len(R2T!SendDown(q, r, <<x>>)[h]) :
               \/ h = r /\ R2T!SendDown(q, r, <<x>>)[h][i] = x
               \/ \E j \in 1..Len(q[h]) : R2T!SendDown(q, r, <<x>>)[h][i] = q[h][j]
<1>1. CASE r \in R2T!Hops
  <2>1. R2T!SendDown(q, r, <<x>>) = [q EXCEPT ![r] = @ \o <<x>>]
    BY <1>1 DEF R2T!SendDown, R2T!HasFaceDown
  <2>2. /\ q[r] \o <<x>> \in Seq(S) /\ Len(q[r]) \in Nat
        /\ Len(q[r] \o <<x>>) = Len(q[r]) + 1
        /\ \A i \in 1..Len(q[r]) : (q[r] \o <<x>>)[i] = q[r][i]
        /\ (q[r] \o <<x>>)[Len(q[r]) + 1] = x
    BY <1>1, OneBehind
  <2>3. \A i \in 1..Len(q[r] \o <<x>>) :
           (q[r] \o <<x>>)[i] = x \/ \E j \in 1..Len(q[r]) : (q[r] \o <<x>>)[i] = q[r][j]
    BY <1>1, <2>2
  <2>4. \A h \in R2T!Hops \ {r} : R2T!SendDown(q, r, <<x>>)[h] = q[h]
    BY <2>1
  <2>5. R2T!SendDown(q, r, <<x>>)[r] = q[r] \o <<x>>
    BY <1>1, <2>1
  <2>6. R2T!SendDown(q, r, <<x>>) \in [R2T!Hops -> Seq(S)]
    BY <2>1, <2>2
  <2>7. ASSUME NEW h \in R2T!Hops \ {r}, NEW i \in 1..Len(R2T!SendDown(q, r, <<x>>)[h])
        PROVE  \E j \in 1..Len(q[h]) : R2T!SendDown(q, r, <<x>>)[h][i] = q[h][j]
    BY <2>4, <2>7
  <2>8. ASSUME NEW i \in 1..Len(R2T!SendDown(q, r, <<x>>)[r])
        PROVE  \/ R2T!SendDown(q, r, <<x>>)[r][i] = x
               \/ \E j \in 1..Len(q[r]) : R2T!SendDown(q, r, <<x>>)[r][i] = q[r][j]
    BY <2>3, <2>5, <2>8
  <2>9. ASSUME NEW h \in R2T!Hops, NEW i \in 1..Len(R2T!SendDown(q, r, <<x>>)[h])
        PROVE  \/ h = r /\ R2T!SendDown(q, r, <<x>>)[h][i] = x
               \/ \E j \in 1..Len(q[h]) : R2T!SendDown(q, r, <<x>>)[h][i] = q[h][j]
    <3>1. CASE h = r
      BY <2>8, <3>1
    <3>2. CASE h # r
      BY <2>7, <3>2
    <3> QED
      BY <3>1, <3>2
  <2> QED
    BY <2>6, <2>9
<1>2. CASE r \notin R2T!Hops
  BY <1>2 DEF R2T!SendDown, R2T!HasFaceDown
<1> QED
  BY <1>1, <1>2

\* A message of router r is put behind the others of the hop above it.
LEMMA SendUpAdds ==
  ASSUME NEW S, NEW q \in [R2T!Hops -> Seq(S)], NEW r \in R2T!Routers, NEW x \in S
  PROVE  /\ R2T!SendUp(q, r, <<x>>) \in [R2T!Hops -> Seq(S)]
         /\ \A h \in R2T!Hops : \A i \in 1..Len(R2T!SendUp(q, r, <<x>>)[h]) :
               \/ h + 1 = r /\ R2T!SendUp(q, r, <<x>>)[h][i] = x
               \/ \E j \in 1..Len(q[h]) : R2T!SendUp(q, r, <<x>>)[h][i] = q[h][j]
<1>1. CASE r - 1 \in R2T!Hops
  <2> DEFINE u == r - 1
  <2>1. R2T!SendUp(q, r, <<x>>) = [q EXCEPT ![u] = @ \o <<x>>]
    BY <1>1 DEF R2T!SendUp, R2T!HasFaceUp
  <2>2. u \in R2T!Hops /\ u + 1 = r
    BY <1>1, LastAssumption DEF R2T!Routers
  <2> HIDE DEF u
  <2>3. /\ q[u] \o <<x>> \in Seq(S) /\ Len(q[u]) \in Nat
        /\ Len(q[u] \o <<x>>) = Len(q[u]) + 1
        /\ \A i \in 1..Len(q[u]) : (q[u] \o <<x>>)[i] = q[u][i]
        /\ (q[u] \o <<x>>)[Len(q[u]) + 1] = x
    BY <2>2, OneBehind
  <2>4. \A i \in 1..Len(q[u] \o <<x>>) :
           (q[u] \o <<x>>)[i] = x \/ \E j \in 1..Len(q[u]) : (q[u] \o <<x>>)[i] = q[u][j]
    BY <2>3
  <2>5. \A h \in R2T!Hops \ {u} : R2T!SendUp(q, r, <<x>>)[h] = q[h]
    BY <2>1
  <2>6. R2T!SendUp(q, r, <<x>>)[u] = q[u] \o <<x>>
    BY <2>1, <2>2
  <2>7. R2T!SendUp(q, r, <<x>>) \in [R2T!Hops -> Seq(S)]
    BY <2>1, <2>2, <2>3
  <2>8. ASSUME NEW h \in R2T!Hops \ {u}, NEW i \in 1..Len(R2T!SendUp(q, r, <<x>>)[h])
        PROVE  \E j \in 1..Len(q[h]) : R2T!SendUp(q, r, <<x>>)[h][i] = q[h][j]
    BY <2>5, <2>8
  <2>9. ASSUME NEW i \in 1..Len(R2T!SendUp(q, r, <<x>>)[u])
        PROVE  \/ R2T!SendUp(q, r, <<x>>)[u][i] = x
               \/ \E j \in 1..Len(q[u]) : R2T!SendUp(q, r, <<x>>)[u][i] = q[u][j]
    BY <2>4, <2>6, <2>9
  <2>10. ASSUME NEW h \in R2T!Hops, NEW i \in 1..Len(R2T!SendUp(q, r, <<x>>)[h])
         PROVE  \/ h + 1 = r /\ R2T!SendUp(q, r, <<x>>)[h][i] = x
                \/ \E j \in 1..Len(q[h]) : R2T!SendUp(q, r, <<x>>)[h][i] = q[h][j]
    <3>1. CASE h = u
      BY <2>2, <2>9, <3>1
    <3>2. CASE h # u
      BY <2>8, <3>2
    <3> QED
      BY <3>1, <3>2
  <2> QED
    BY <2>7, <2>10
<1>2. CASE r - 1 \notin R2T!Hops
  BY <1>2 DEF R2T!SendUp, R2T!HasFaceUp
<1> QED
  BY <1>1, <1>2

\* A sequence without repetition keeps none when something new is put behind it.
LEMMA AppendOnce ==
  ASSUME NEW S, NEW s \in Seq(S), NEW x \in S,
         \A i, j \in 1..Len(s) : s[i] = s[j] => i = j,
         \A i \in 1..Len(s) : s[i] # x
  PROVE  /\ Append(s, x) \in Seq(S)
         /\ \A i \in 1..Len(Append(s, x)) :
               Append(s, x)[i] = x \/ \E j \in 1..Len(s) : Append(s, x)[i] = s[j]
         /\ \A i, j \in 1..Len(Append(s, x)) : Append(s, x)[i] = Append(s, x)[j] => i = j
<1> DEFINE t == Append(s, x)
<1>1. /\ t \in Seq(S) /\ Len(s) \in Nat /\ Len(t) = Len(s) + 1
      /\ t[Len(s) + 1] = x
      /\ \A i \in 1..Len(s) : t[i] = s[i]
  OBVIOUS
<1> HIDE DEF t
<1>2. \A i \in 1..Len(t) : i \in 1..Len(s) \/ i = Len(s) + 1
  BY <1>1
<1>3. \A i \in 1..Len(t) : t[i] = x \/ \E j \in 1..Len(s) : t[i] = s[j]
  BY <1>1, <1>2
<1>4. ASSUME NEW i \in 1..Len(t), NEW j \in 1..Len(t), t[i] = t[j] PROVE i = j
  <2>1. CASE i \in 1..Len(s) /\ j \in 1..Len(s)
    BY <1>1, <1>4, <2>1
  <2>2. CASE i \in 1..Len(s) /\ j = Len(s) + 1
    BY <1>1, <1>4, <2>2
  <2>3. CASE i = Len(s) + 1 /\ j \in 1..Len(s)
    BY <1>1, <1>4, <2>3
  <2>4. CASE i = Len(s) + 1 /\ j = Len(s) + 1
    BY <2>4
  <2> QED
    BY <1>2, <2>1, <2>2, <2>3, <2>4
<1> QED
  BY <1>1, <1>3, <1>4 DEF t
-------------------------------------------------------------------------------
(* The invariants. *)

R2tWaits == [dataID : R2T!DataIds, times : Int, timer : BOOLEAN]

R2tTypes ==
  /\ transDataIDs \in [R2T!Routers -> SUBSET R2T!DataIds]
  /\ csynStates \in [R2T!Routers -> SUBSET R2tWaits]
  /\ down \in [R2T!Hops -> Seq(R2T!DataIds)]
  /\ up \in [R2T!Hops -> Seq(R2T!DataIds)]

\* A router waits for, and sends, only what it passed on.
R2tWaitsForPassed == \A r \in R2T!Routers : \A e \in csynStates[r] : e.dataID \in transDataIDs[r]
R2tSendsPassed == \A h \in R2T!Hops : \A i \in 1..Len(down[h]) : down[h][i] \in transDataIDs[h]

\* Acknowledgements under way: of what the next router passed on, one for each capsule,
\* and expected.
R2tAcksPassed == \A h \in R2T!Hops : \A i \in 1..Len(up[h]) : up[h][i] \in transDataIDs[h + 1]
R2tAcksOnce ==
  \A h \in R2T!Hops : \A i, j \in 1..Len(up[h]) : up[h][i] = up[h][j] => i = j
R2tAcksAwaited ==
  \A h \in R2T!Hops : \A i \in 1..Len(up[h]) : \E e \in csynStates[h] : e.dataID = up[h][i]

\* AckSettles, without the sets of Entries.
R2tSettled ==
  \A h \in R2T!Hops : \A d \in transDataIDs[h] :
    (\E e \in csynStates[h] : e.dataID = d) \/ d \in transDataIDs[h + 1]

R2tIInv ==
  /\ R2tTypes
  /\ R2tWaitsForPassed
  /\ R2tSendsPassed
  /\ R2tAcksPassed
  /\ R2tAcksOnce
  /\ R2tAcksAwaited
  /\ R2tSettled

\* An opened wait is a wait.
LEMMA R2tOpenedType ==
  ASSUME NEW d \in R2T!DataIds
  PROVE  R2T!Opened(d) \in R2tWaits /\ R2T!Opened(d).dataID = d
<1>1. (maxCSynTimes >= 1) \in BOOLEAN
  OBVIOUS
<1>2. (IF maxCSynTimes >= 1 THEN 1 ELSE -1) \in Int
  OBVIOUS
<1> QED
  BY <1>1, <1>2 DEF R2T!Opened, R2tWaits

\* Waiting on keeps a wait for the same capsule.
LEMMA R2tWaitAgainType ==
  ASSUME NEW e \in R2tWaits
  PROVE  R2T!WaitAgain(e) \in R2tWaits /\ R2T!WaitAgain(e).dataID = e.dataID
<1>1. (e.times + 1 <= maxCSynTimes) \in BOOLEAN
  OBVIOUS
<1>2. e.times + 1 \in Int
  BY DEF R2tWaits
<1> QED
  BY <1>1, <1>2 DEF R2T!WaitAgain, R2tWaits

\* Nothing has been passed on or sent.
LEMMA R2tInitInv == R2T!Init => R2tIInv
<1> SUFFICES ASSUME R2T!Init PROVE R2tIInv
  OBVIOUS
<1>1. R2tTypes
  BY DEF R2T!Init, R2tTypes, R2T!NoMessages
<1>2. \A h \in R2T!Hops : h \in R2T!Routers /\ Len(down[h]) = 0 /\ Len(up[h]) = 0
  BY HopsOfRouters DEF R2T!Init, R2T!NoMessages
<1>3. R2tWaitsForPassed /\ R2tSettled
  BY <1>2 DEF R2T!Init, R2tWaitsForPassed, R2tSettled
<1>4. R2tSendsPassed /\ R2tAcksPassed /\ R2tAcksOnce /\ R2tAcksAwaited
  BY <1>2 DEF R2tSendsPassed, R2tAcksPassed, R2tAcksOnce, R2tAcksAwaited
<1> QED
  BY <1>1, <1>3, <1>4 DEF R2tIInv

\* What a router sends down, when it has passed it on.
LEMMA SendDownOf ==
  ASSUME NEW q \in [R2T!Hops -> Seq(R2T!DataIds)],
         NEW passed \in [R2T!Routers -> SUBSET R2T!DataIds],
         NEW r \in R2T!Routers, NEW d \in passed[r],
         \A h \in R2T!Hops : \A i \in 1..Len(q[h]) : q[h][i] \in passed[h]
  PROVE  /\ R2T!SendDown(q, r, <<d>>) \in [R2T!Hops -> Seq(R2T!DataIds)]
         /\ \A h \in R2T!Hops : \A i \in 1..Len(R2T!SendDown(q, r, <<d>>)[h]) :
               R2T!SendDown(q, r, <<d>>)[h][i] \in passed[h]
<1>1. d \in R2T!DataIds
  OBVIOUS
<1>2. R2T!SendDown(q, r, <<d>>) \in [R2T!Hops -> Seq(R2T!DataIds)]
  BY <1>1, SendDownAdds
<1>3. ASSUME NEW h \in R2T!Hops, NEW i \in 1..Len(R2T!SendDown(q, r, <<d>>)[h])
      PROVE  R2T!SendDown(q, r, <<d>>)[h][i] \in passed[h]
  <2>1. \/ h = r /\ R2T!SendDown(q, r, <<d>>)[h][i] = d
        \/ \E j \in 1..Len(q[h]) : R2T!SendDown(q, r, <<d>>)[h][i] = q[h][j]
    BY <1>1, <1>3, SendDownAdds
  <2> QED
    BY <2>1
<1> QED
  BY <1>2, <1>3

\* Data: the capsule was passed on by the router before, and the other messages are
\* ones of capsules passed on.
LEMMA R2tHandleDataInv ==
  ASSUME R2tIInv, NEW r \in R2T!Routers, NEW d \in R2T!DataIds,
         NEW pending \in [R2T!Hops -> Seq(R2T!DataIds)],
         \A h \in R2T!Hops : \A i \in 1..Len(pending[h]) : pending[h][i] \in transDataIDs[h],
         R2T!HasFaceUp(r) => d \in transDataIDs[r - 1],
         R2T!HandleData(r, d, pending)
  PROVE  R2tIInv'
<1>1. CASE /\ d \in transDataIDs[r] /\ down' = pending
           /\ UNCHANGED <<transDataIDs, csynStates, up, app>>
  <2>1. R2tTypes' /\ R2tSendsPassed'
    BY <1>1 DEF R2tIInv, R2tTypes, R2tSendsPassed
  <2>2. R2tWaitsForPassed' /\ R2tAcksPassed' /\ R2tAcksOnce' /\ R2tAcksAwaited' /\ R2tSettled'
    BY <1>1 DEF R2tIInv, R2tWaitsForPassed, R2tAcksPassed, R2tAcksOnce, R2tAcksAwaited, R2tSettled
  <2> QED
    BY <2>1, <2>2 DEF R2tIInv
<1>2. CASE /\ d \notin transDataIDs[r]
           /\ transDataIDs' = [transDataIDs EXCEPT ![r] = @ \cup {d}]
           /\ down' = R2T!SendDown(pending, r, <<d>>)
           /\ up' = R2T!SendUp(up, r, <<d>>)
           /\ csynStates' = IF R2T!HasFaceDown(r)
                            THEN [csynStates EXCEPT ![r] = (@ \ R2T!Entries(r, d)) \cup {R2T!Opened(d)}]
                            ELSE csynStates
  <2>1. /\ transDataIDs \in [R2T!Routers -> SUBSET R2T!DataIds]
        /\ csynStates \in [R2T!Routers -> SUBSET R2tWaits]
        /\ up \in [R2T!Hops -> Seq(R2T!DataIds)]
    BY DEF R2tIInv, R2tTypes
  <2>2. /\ transDataIDs' \in [R2T!Routers -> SUBSET R2T!DataIds]
        /\ transDataIDs'[r] = transDataIDs[r] \cup {d}
        /\ \A s \in R2T!Routers \ {r} : transDataIDs'[s] = transDataIDs[s]
        /\ \A s \in R2T!Routers : transDataIDs[s] \subseteq transDataIDs'[s]
    BY <1>2, <2>1
  <2>3. /\ csynStates' \in [R2T!Routers -> SUBSET R2tWaits]
        /\ \A s \in R2T!Routers : \A e \in csynStates'[s] :
              e \in csynStates[s] \/ (s = r /\ e.dataID = d)
        /\ \A s \in R2T!Routers : \A e \in csynStates[s] :
              \E f \in csynStates'[s] : f.dataID = e.dataID
        /\ r \in R2T!Hops => \E f \in csynStates'[r] : f.dataID = d
    <3>1. CASE r \in R2T!Hops
      <4>1. csynStates' = [csynStates EXCEPT ![r] = (@ \ R2T!Entries(r, d)) \cup {R2T!Opened(d)}]
        BY <1>2, <3>1 DEF R2T!HasFaceDown
      <4>2. R2T!Opened(d) \in R2tWaits /\ R2T!Opened(d).dataID = d
        BY R2tOpenedType
      <4>3. \A e \in csynStates[r] : e \in R2T!Entries(r, d) <=> e.dataID = d
        BY DEF R2T!Entries
      <4> QED
        BY <2>1, <4>1, <4>2, <4>3
    <3>2. CASE r \notin R2T!Hops
      BY <1>2, <2>1, <3>2 DEF R2T!HasFaceDown
    <3> QED
      BY <3>1, <3>2
  <2>4. down' \in [R2T!Hops -> Seq(R2T!DataIds)] /\ R2tSendsPassed'
    <3>1. \A h \in R2T!Hops : \A i \in 1..Len(pending[h]) : pending[h][i] \in transDataIDs'[h]
      BY <2>2, HopsOfRouters
    <3> QED
      BY <1>2, <2>2, <3>1, SendDownOf DEF R2tSendsPassed
  <2>5. R2tWaitsForPassed'
    BY <2>2, <2>3 DEF R2tIInv, R2tWaitsForPassed
  <2>8. \A h \in R2T!Hops : \A x :
           (\E e \in csynStates[h] : e.dataID = x) => \E e \in csynStates'[h] : e.dataID = x
    <3> SUFFICES ASSUME NEW h \in R2T!Hops, NEW x, NEW e \in csynStates[h], e.dataID = x
                 PROVE  \E f \in csynStates'[h] : f.dataID = x
      OBVIOUS
    <3>1. h \in R2T!Routers
      BY HopsOfRouters
    <3>2. \E f \in csynStates'[h] : f.dataID = e.dataID
      BY <2>3, <3>1
    <3> QED
      BY <3>2
  <2>6. R2tSettled'
    <3> SUFFICES ASSUME NEW h \in R2T!Hops, NEW x \in transDataIDs'[h]
                 PROVE  (\E e \in csynStates'[h] : e.dataID = x) \/ x \in transDataIDs'[h + 1]
      BY DEF R2tSettled
    <3>1. h \in R2T!Routers /\ h + 1 \in R2T!Routers
      BY HopsOfRouters
    <3>2. CASE x \in transDataIDs[h]
      <4>1. (\E e \in csynStates[h] : e.dataID = x) \/ x \in transDataIDs[h + 1]
        BY <3>2 DEF R2tIInv, R2tSettled
      <4> QED
        BY <2>2, <2>8, <3>1, <4>1
    <3>3. CASE x \notin transDataIDs[h]
      BY <2>2, <2>3, <3>1, <3>3
    <3> QED
      BY <3>2, <3>3
  <2>7. up' \in [R2T!Hops -> Seq(R2T!DataIds)] /\ R2tAcksPassed' /\ R2tAcksOnce' /\ R2tAcksAwaited'
    <3>1. CASE r - 1 \in R2T!Hops
      <4> DEFINE u == r - 1
      <4>1. u \in R2T!Hops /\ u + 1 = r /\ u \in R2T!Routers /\ u # r
        BY <3>1, LastAssumption DEF R2T!Routers, R2T!Hops
      <4>7. up' = [up EXCEPT ![u] = @ \o <<d>>]
        BY <1>2, <3>1 DEF R2T!SendUp, R2T!HasFaceUp
      <4>8. d \in transDataIDs[u]
        BY <3>1 DEF R2T!HasFaceUp
      <4> HIDE DEF u
      <4>2. /\ up[u] \o <<d>> \in Seq(R2T!DataIds) /\ Len(up[u]) \in Nat
            /\ Len(up[u] \o <<d>>) = Len(up[u]) + 1
            /\ \A i \in 1..Len(up[u]) : (up[u] \o <<d>>)[i] = up[u][i]
            /\ (up[u] \o <<d>>)[Len(up[u]) + 1] = d
        BY <2>1, <4>1, OneBehind
      <4>3. /\ up' \in [R2T!Hops -> Seq(R2T!DataIds)]
            /\ up'[u] = up[u] \o <<d>>
            /\ \A h \in R2T!Hops \ {u} : up'[h] = up[h]
        BY <2>1, <4>1, <4>2, <4>7
      <4>4. R2tAcksPassed'
        <5>1. \A i \in 1..Len(up'[u]) : up'[u][i] \in transDataIDs'[u + 1]
          <6>1. \A i \in 1..Len(up[u]) : up'[u][i] \in transDataIDs'[u + 1]
            <7> SUFFICES ASSUME NEW i \in 1..Len(up[u])
                         PROVE  up'[u][i] \in transDataIDs'[u + 1]
              OBVIOUS
            <7>1. up'[u][i] = up[u][i]
              BY <4>2, <4>3
            <7>2. up[u][i] \in transDataIDs[u + 1]
              BY <4>1 DEF R2tIInv, R2tAcksPassed
            <7> QED
              BY <2>2, <4>1, <7>1, <7>2
          <6>2. up'[u][Len(up[u]) + 1] \in transDataIDs'[u + 1]
            BY <2>2, <4>1, <4>2, <4>3
          <6>3. Len(up'[u]) = Len(up[u]) + 1
            BY <4>2, <4>3
          <6> QED
            BY <4>2, <6>1, <6>2, <6>3
        <5>2. \A h \in R2T!Hops \ {u} : \A i \in 1..Len(up'[h]) : up'[h][i] \in transDataIDs'[h + 1]
          BY <2>2, <4>3, HopsOfRouters DEF R2tIInv, R2tAcksPassed
        <5> QED
          BY <5>1, <5>2 DEF R2tAcksPassed
      <4>5. R2tAcksOnce'
        <5>1. \A i \in 1..Len(up[u]) : up[u][i] # d
          BY <1>2, <4>1 DEF R2tIInv, R2tAcksPassed
        <5>2. \A i, j \in 1..Len(up'[u]) : up'[u][i] = up'[u][j] => i = j
          BY <4>1, <4>2, <4>3, <5>1 DEF R2tIInv, R2tAcksOnce
        <5> QED
          BY <4>3, <5>2 DEF R2tIInv, R2tAcksOnce
      <4>6. R2tAcksAwaited'
        <5>1. d \in transDataIDs[u] /\ d \notin transDataIDs[u + 1]
          BY <1>2, <4>1, <4>8
        <5>2. \E e \in csynStates[u] : e.dataID = d
          BY <4>1, <5>1 DEF R2tIInv, R2tSettled
        <5>3. \A i \in 1..Len(up'[u]) : \E e \in csynStates[u] : e.dataID = up'[u][i]
          <6>1. \A i \in 1..Len(up[u]) : \E e \in csynStates[u] : e.dataID = up[u][i]
            BY <4>1 DEF R2tIInv, R2tAcksAwaited
          <6>2. Len(up'[u]) = Len(up[u]) + 1 /\ up'[u][Len(up[u]) + 1] = d
            BY <4>2, <4>3
          <6>3. \A i \in 1..Len(up[u]) : up'[u][i] = up[u][i]
            BY <4>2, <4>3
          <6> QED
            BY <4>2, <5>2, <6>1, <6>2, <6>3
        <5>4. \A h \in R2T!Hops : \A i \in 1..Len(up'[h]) : \E e \in csynStates[h] : e.dataID = up'[h][i]
          <6> SUFFICES ASSUME NEW h \in R2T!Hops, NEW i \in 1..Len(up'[h])
                       PROVE  \E e \in csynStates[h] : e.dataID = up'[h][i]
            OBVIOUS
          <6>1. CASE h = u
            BY <5>3, <6>1
          <6>2. CASE h # u
            <7>1. up'[h] = up[h]
              BY <4>3, <6>2
            <7> QED
              BY <7>1 DEF R2tIInv, R2tAcksAwaited
          <6> QED
            BY <6>1, <6>2
        <5> QED
          <6> SUFFICES ASSUME NEW h \in R2T!Hops, NEW i \in 1..Len(up'[h])
                       PROVE  \E e \in csynStates'[h] : e.dataID = up'[h][i]
            BY DEF R2tAcksAwaited
          <6>1. \E e \in csynStates[h] : e.dataID = up'[h][i]
            BY <5>4
          <6> QED
            BY <2>8, <6>1
      <4> QED
        BY <4>3, <4>4, <4>5, <4>6
    <3>2. CASE r - 1 \notin R2T!Hops
      <4>1. up' = up
        BY <1>2, <3>2 DEF R2T!SendUp, R2T!HasFaceUp
      <4>2. R2tAcksPassed'
        BY <2>2, <4>1, HopsOfRouters DEF R2tIInv, R2tAcksPassed
      <4>3. R2tAcksOnce'
        BY <4>1 DEF R2tIInv, R2tAcksOnce
      <4>4. R2tAcksAwaited'
        <5> SUFFICES ASSUME NEW h \in R2T!Hops, NEW i \in 1..Len(up'[h])
                     PROVE  \E e \in csynStates'[h] : e.dataID = up'[h][i]
          BY DEF R2tAcksAwaited
        <5>1. \E e \in csynStates[h] : e.dataID = up'[h][i]
          BY <4>1 DEF R2tIInv, R2tAcksAwaited
        <5> QED
          BY <2>8, <5>1
      <4> QED
        BY <2>1, <4>1, <4>2, <4>3, <4>4
    <3> QED
      BY <3>1, <3>2
  <2> QED
    BY <2>2, <2>3, <2>4, <2>5, <2>6, <2>7 DEF R2tIInv, R2tTypes
<1> QED
  BY <1>1, <1>2 DEF R2T!HandleData

\* The publisher's Data.
LEMMA R2tPublishInv == R2tIInv /\ R2T!Publish => R2tIInv'
<1> SUFFICES ASSUME R2tIInv, R2T!Publish PROVE R2tIInv'
  OBVIOUS
<1>1. next \in R2T!DataIds /\ R2T!HandleData(1, next, down)
  BY DEF R2T!Publish
<1>2. /\ down \in [R2T!Hops -> Seq(R2T!DataIds)]
      /\ \A h \in R2T!Hops : \A i \in 1..Len(down[h]) : down[h][i] \in transDataIDs[h]
  BY DEF R2tIInv, R2tTypes, R2tSendsPassed
<1> QED
  BY <1>1, <1>2, HopsOfRouters, R2tHandleDataInv

\* Data of the router before.
LEMMA R2tReceiveDataInv ==
  ASSUME R2tIInv, NEW r \in R2T!Routers, R2T!ReceiveData(r)
  PROVE  R2tIInv'
<1>1. r - 1 \in R2T!Hops /\ down[r - 1] # <<>>
  BY DEF R2T!ReceiveData, R2T!HasFaceUp
<1>2. down \in [R2T!Hops -> Seq(R2T!DataIds)]
  BY DEF R2tIInv, R2tTypes
<1>3. /\ Head(down[r - 1]) = down[r - 1][1]
      /\ 1 \in 1..Len(down[r - 1])
      /\ Head(down[r - 1]) \in R2T!DataIds
  BY <1>1, <1>2, FirstTaken
<1>4. Head(down[r - 1]) \in transDataIDs[r - 1]
  BY <1>1, <1>3 DEF R2tIInv, R2tSendsPassed
<1>5. /\ R2T!Taken(down, r - 1) \in [R2T!Hops -> Seq(R2T!DataIds)]
      /\ \A h \in R2T!Hops : \A i \in 1..Len(R2T!Taken(down, r - 1)[h]) :
            R2T!Taken(down, r - 1)[h][i] \in transDataIDs[h]
  <2>1. R2T!Taken(down, r - 1) \in [R2T!Hops -> Seq(R2T!DataIds)]
    BY <1>1, <1>2, TakenOf
  <2>2. \A h \in R2T!Hops : \A i \in 1..Len(R2T!Taken(down, r - 1)[h]) :
           \E j \in 1..Len(down[h]) : R2T!Taken(down, r - 1)[h][i] = down[h][j]
    BY <1>1, <1>2, TakenOf
  <2>3. \A h \in R2T!Hops : \A j \in 1..Len(down[h]) : down[h][j] \in transDataIDs[h]
    BY DEF R2tIInv, R2tSendsPassed
  <2> QED
    BY <2>1, <2>2, <2>3
<1>6. R2T!HandleData(r, Head(down[r - 1]), R2T!Taken(down, r - 1))
  BY DEF R2T!ReceiveData
<1> QED
  BY <1>3, <1>4, <1>5, <1>6, R2tHandleDataInv

\* An acknowledgement lost: the wait it was for goes on.
LEMMA R2tLoseCACKInv ==
  ASSUME R2tIInv, NEW h \in R2T!Hops, R2T!LoseCACK(h)
  PROVE  R2tIInv'
<1>1. /\ up[h] # <<>> /\ up' = R2T!Taken(up, h)
      /\ UNCHANGED <<transDataIDs, csynStates, down>>
  BY DEF R2T!LoseCACK
<1>2. up \in [R2T!Hops -> Seq(R2T!DataIds)]
  BY DEF R2tIInv, R2tTypes
<1>3. R2tTypes' /\ R2tWaitsForPassed' /\ R2tSendsPassed' /\ R2tSettled'
  <2>1. R2T!Taken(up, h) \in [R2T!Hops -> Seq(R2T!DataIds)]
    BY <1>1, <1>2, TakenOf
  <2> QED
    BY <1>1, <2>1 DEF R2tIInv, R2tTypes, R2tWaitsForPassed, R2tSendsPassed, R2tSettled
<1>4. R2tAcksPassed' /\ R2tAcksAwaited'
  <2>1. \A g \in R2T!Hops : \A i \in 1..Len(R2T!Taken(up, h)[g]) :
           \E j \in 1..Len(up[g]) : R2T!Taken(up, h)[g][i] = up[g][j]
    BY <1>1, <1>2, TakenOf
  <2> QED
    BY <1>1, <2>1 DEF R2tIInv, R2tAcksPassed, R2tAcksAwaited
<1>5. R2tAcksOnce'
  <2>1. \A g \in R2T!Hops \ {h} : up'[g] = up[g]
    BY <1>1, <1>2, TakenOf
  <2>2. \A i, j \in 1..Len(up'[h]) : up'[h][i] = up'[h][j] => i = j
    <3>1. up'[h] = Tail(up[h])
      BY <1>1, <1>2, TakenOf
    <3>2. /\ Len(up[h]) \in Nat \ {0} /\ Len(up'[h]) = Len(up[h]) - 1
          /\ \A i \in 1..Len(up'[h]) : up'[h][i] = up[h][i + 1]
      BY <1>1, <1>2, <3>1, FirstTaken
    <3>3. \A i, j \in 1..Len(up[h]) : up[h][i] = up[h][j] => i = j
      BY DEF R2tIInv, R2tAcksOnce
    <3> QED
      BY <3>2, <3>3
  <2> QED
    BY <2>1, <2>2 DEF R2tIInv, R2tAcksOnce
<1> QED
  BY <1>3, <1>4, <1>5 DEF R2tIInv

\* An acknowledgement: it was the only one for this wait, and the next router has the
\* capsule.
LEMMA R2tReceiveCACKInv ==
  ASSUME R2tIInv, NEW r \in R2T!Routers, R2T!ReceiveCACK(r)
  PROVE  R2tIInv'
<1> DEFINE x == Head(up[r])
<1>1. /\ r \in R2T!Hops /\ up[r] # <<>> /\ up' = R2T!Taken(up, r)
      /\ csynStates' = [csynStates EXCEPT ![r] = @ \ R2T!Entries(r, x)]
      /\ UNCHANGED <<transDataIDs, down>>
  BY DEF R2T!ReceiveCACK, R2T!HasFaceDown
<1>2. up \in [R2T!Hops -> Seq(R2T!DataIds)] /\ csynStates \in [R2T!Routers -> SUBSET R2tWaits]
  BY DEF R2tIInv, R2tTypes
<1>3. /\ Len(up[r]) \in Nat \ {0} /\ x = up[r][1]
      /\ Len(Tail(up[r])) = Len(up[r]) - 1
      /\ \A i \in 1..Len(Tail(up[r])) : Tail(up[r])[i] = up[r][i + 1]
  BY <1>1, <1>2, FirstTaken
<1>4. /\ up' \in [R2T!Hops -> Seq(R2T!DataIds)] /\ up'[r] = Tail(up[r])
      /\ \A h \in R2T!Hops \ {r} : up'[h] = up[h]
      /\ \A h \in R2T!Hops : \A i \in 1..Len(up'[h]) : \E j \in 1..Len(up[h]) : up'[h][i] = up[h][j]
  <2>1. up \in [R2T!Hops -> Seq(R2T!DataIds)] /\ r \in R2T!Hops /\ up[r] # <<>>
    BY <1>1, <1>2
  <2>2. R2T!Taken(up, r) \in [R2T!Hops -> Seq(R2T!DataIds)] /\ R2T!Taken(up, r)[r] = Tail(up[r])
    BY <2>1, TakenOf
  <2>3. \A h \in R2T!Hops \ {r} : R2T!Taken(up, r)[h] = up[h]
    BY <2>1, TakenOf
  <2>4. \A h \in R2T!Hops : \A i \in 1..Len(R2T!Taken(up, r)[h]) :
           \E j \in 1..Len(up[h]) : R2T!Taken(up, r)[h][i] = up[h][j]
    BY <2>1, TakenOf
  <2> QED
    BY <1>1, <2>2, <2>3, <2>4
<1> HIDE DEF x
<1>5. /\ csynStates' \in [R2T!Routers -> SUBSET R2tWaits]
      /\ \A s \in R2T!Routers : csynStates'[s] \subseteq csynStates[s]
      /\ \A s \in R2T!Routers \ {r} : csynStates'[s] = csynStates[s]
      /\ \A e \in csynStates[r] : e.dataID # x => e \in csynStates'[r]
  BY <1>1, <1>2 DEF R2T!Entries
<1>6. R2tTypes' /\ R2tWaitsForPassed' /\ R2tSendsPassed'
  BY <1>1, <1>4, <1>5 DEF R2tIInv, R2tTypes, R2tWaitsForPassed, R2tSendsPassed
<1>7. R2tAcksPassed'
  BY <1>1, <1>4 DEF R2tIInv, R2tAcksPassed
<1>8. \A i, j \in 1..Len(up[r]) : up[r][i] = up[r][j] => i = j
  BY <1>1 DEF R2tIInv, R2tAcksOnce
<1>9. /\ \A i \in 1..Len(up'[r]) : i + 1 \in 1..Len(up[r]) /\ up'[r][i] = up[r][i + 1]
      /\ 1 \in 1..Len(up[r])
  BY <1>3, <1>4
<1>10. R2tAcksOnce'
  <2>1. \A i, j \in 1..Len(up'[r]) : up'[r][i] = up'[r][j] => i = j
    <3> SUFFICES ASSUME NEW i \in 1..Len(up'[r]), NEW j \in 1..Len(up'[r]), up'[r][i] = up'[r][j]
                 PROVE  i = j
      OBVIOUS
    <3>1. i + 1 = j + 1
      BY <1>8, <1>9
    <3> QED
      BY <1>3, <1>4, <3>1
  <2> QED
    BY <1>4, <2>1 DEF R2tIInv, R2tAcksOnce
<1>11. R2tAcksAwaited'
  <2>1. \A i \in 1..Len(up'[r]) : up'[r][i] # x
    <3> SUFFICES ASSUME NEW i \in 1..Len(up'[r]), up'[r][i] = x PROVE FALSE
      OBVIOUS
    <3>1. i + 1 = 1
      BY <1>3, <1>8, <1>9
    <3> QED
      BY <1>3, <1>4, <3>1
  <2>2. \A i \in 1..Len(up'[r]) : \E e \in csynStates'[r] : e.dataID = up'[r][i]
    <3>1. \A i \in 1..Len(up'[r]) : \E e \in csynStates[r] : e.dataID = up'[r][i]
      <4> SUFFICES ASSUME NEW i \in 1..Len(up'[r])
                   PROVE  \E e \in csynStates[r] : e.dataID = up'[r][i]
        OBVIOUS
      <4>1. i + 1 \in 1..Len(up[r]) /\ up'[r][i] = up[r][i + 1]
        BY <1>9
      <4>2. \A j \in 1..Len(up[r]) : \E e \in csynStates[r] : e.dataID = up[r][j]
        BY <1>1 DEF R2tIInv, R2tAcksAwaited
      <4> QED
        BY <4>1, <4>2
    <3> QED
      BY <1>5, <2>1, <3>1
  <2>3. \A h \in R2T!Hops \ {r} : up'[h] = up[h] /\ csynStates'[h] = csynStates[h]
    BY <1>4, <1>5, HopsOfRouters
  <2>4. \A h \in R2T!Hops \ {r} : \A i \in 1..Len(up'[h]) :
           \E e \in csynStates'[h] : e.dataID = up'[h][i]
    BY <2>3 DEF R2tIInv, R2tAcksAwaited
  <2> QED
    BY <2>2, <2>4 DEF R2tAcksAwaited
<1>12. R2tSettled'
  <2>1. x \in transDataIDs[r + 1]
    BY <1>1, <1>3, <1>9 DEF R2tIInv, R2tAcksPassed
  <2> SUFFICES ASSUME NEW h \in R2T!Hops, NEW d \in transDataIDs[h]
               PROVE  (\E e \in csynStates'[h] : e.dataID = d) \/ d \in transDataIDs[h + 1]
    BY <1>1 DEF R2tSettled
  <2>2. (\E e \in csynStates[h] : e.dataID = d) \/ d \in transDataIDs[h + 1]
    BY DEF R2tIInv, R2tSettled
  <2>3. CASE h = r
    BY <1>5, <2>1, <2>2, <2>3
  <2>4. CASE h # r
    BY <1>5, <2>2, <2>4, HopsOfRouters
  <2> QED
    BY <2>3, <2>4
<1> QED
  BY <1>6, <1>7, <1>10, <1>11, <1>12 DEF R2tIInv

\* The capsule is sent again: the router passed it on, and waits on.
LEMMA R2tWaitingCACKInv ==
  ASSUME R2tIInv, NEW r \in R2T!Routers, NEW e \in csynStates[r], R2T!WaitingCACK(r, e)
  PROVE  R2tIInv'
<1>1. /\ down' = R2T!SendDown(down, r, <<e.dataID>>)
      /\ csynStates' = [csynStates EXCEPT ![r] = (@ \ {e}) \cup {R2T!WaitAgain(e)}]
      /\ UNCHANGED <<transDataIDs, up>>
  BY DEF R2T!WaitingCACK
<1>2. /\ transDataIDs \in [R2T!Routers -> SUBSET R2T!DataIds]
      /\ csynStates \in [R2T!Routers -> SUBSET R2tWaits]
      /\ down \in [R2T!Hops -> Seq(R2T!DataIds)]
  BY DEF R2tIInv, R2tTypes
<1>3. e.dataID \in transDataIDs[r]
  BY DEF R2tIInv, R2tWaitsForPassed
<1>4. R2T!WaitAgain(e) \in R2tWaits /\ R2T!WaitAgain(e).dataID = e.dataID
  BY <1>2, R2tWaitAgainType
<1>5. /\ csynStates' \in [R2T!Routers -> SUBSET R2tWaits]
      /\ \A s \in R2T!Routers : \A f \in csynStates'[s] : f \in csynStates[s] \/ f = R2T!WaitAgain(e)
      /\ \A s \in R2T!Routers \ {r} : csynStates'[s] = csynStates[s]
  BY <1>1, <1>2, <1>4
<1>6. \A s \in R2T!Routers : \A x :
         (\E f \in csynStates[s] : f.dataID = x) => \E f \in csynStates'[s] : f.dataID = x
  BY <1>1, <1>2, <1>4
<1>7. down' \in [R2T!Hops -> Seq(R2T!DataIds)] /\ R2tSendsPassed'
  <2>1. \A h \in R2T!Hops : \A i \in 1..Len(down[h]) : down[h][i] \in transDataIDs[h]
    BY DEF R2tIInv, R2tSendsPassed
  <2> QED
    BY <1>1, <1>2, <1>3, <2>1, SendDownOf DEF R2tSendsPassed
<1>8. R2tWaitsForPassed'
  BY <1>1, <1>3, <1>4, <1>5 DEF R2tIInv, R2tWaitsForPassed
<1>9. R2tAcksPassed' /\ R2tAcksOnce'
  BY <1>1 DEF R2tIInv, R2tAcksPassed, R2tAcksOnce
<1>10. R2tAcksAwaited' /\ R2tSettled'
  <2>1. \A h \in R2T!Hops : \A x :
           (\E f \in csynStates[h] : f.dataID = x) => \E f \in csynStates'[h] : f.dataID = x
    BY <1>6, HopsOfRouters
  <2>2. R2tAcksAwaited'
    BY <1>1, <2>1 DEF R2tIInv, R2tAcksAwaited
  <2>3. R2tSettled'
    BY <1>1, <2>1 DEF R2tIInv, R2tSettled
  <2> QED
    BY <2>2, <2>3
<1> QED
  BY <1>1, <1>2, <1>5, <1>7, <1>8, <1>9, <1>10 DEF R2tIInv, R2tTypes

\* Data lost: nothing the waits say of it changes.
LEMMA R2tLoseDataInv ==
  ASSUME R2tIInv, NEW h \in R2T!Hops, R2T!LoseData(h)
  PROVE  R2tIInv'
<1>1. /\ down[h] # <<>> /\ down' = R2T!Taken(down, h)
      /\ UNCHANGED <<transDataIDs, csynStates, up>>
  BY DEF R2T!LoseData
<1>2. down \in [R2T!Hops -> Seq(R2T!DataIds)]
  BY DEF R2tIInv, R2tTypes
<1>3. R2tTypes' /\ R2tSendsPassed'
  <2>1. /\ R2T!Taken(down, h) \in [R2T!Hops -> Seq(R2T!DataIds)]
        /\ \A g \in R2T!Hops : \A i \in 1..Len(R2T!Taken(down, h)[g]) :
              \E j \in 1..Len(down[g]) : R2T!Taken(down, h)[g][i] = down[g][j]
    BY <1>1, <1>2, TakenOf
  <2>2. R2tTypes'
    BY <1>1, <2>1 DEF R2tIInv, R2tTypes
  <2>3. R2tSendsPassed'
    BY <1>1, <2>1 DEF R2tIInv, R2tSendsPassed
  <2> QED
    BY <2>2, <2>3
<1>4. R2tWaitsForPassed' /\ R2tAcksPassed' /\ R2tAcksOnce' /\ R2tAcksAwaited' /\ R2tSettled'
  BY <1>1 DEF R2tIInv, R2tWaitsForPassed, R2tAcksPassed, R2tAcksOnce, R2tAcksAwaited, R2tSettled
<1> QED
  BY <1>3, <1>4 DEF R2tIInv

\* The invariant is kept by every step.
LEMMA R2tNextInv == R2tIInv /\ [R2T!Next]_R2T!vars => R2tIInv'
<1> SUFFICES ASSUME R2tIInv, [R2T!Next]_R2T!vars PROVE R2tIInv'
  OBVIOUS
<1>1. CASE R2T!Publish
  BY <1>1, R2tPublishInv
<1>2. ASSUME NEW r \in R2T!Routers, R2T!ReceiveData(r) PROVE R2tIInv'
  BY <1>2, R2tReceiveDataInv
<1>3. ASSUME NEW r \in R2T!Routers, R2T!ReceiveCACK(r) PROVE R2tIInv'
  BY <1>3, R2tReceiveCACKInv
<1>4. ASSUME NEW r \in R2T!Routers, NEW e \in csynStates[r], R2T!WaitingCACK(r, e) PROVE R2tIInv'
  BY <1>4, R2tWaitingCACKInv
<1>5. ASSUME NEW h \in R2T!Hops, R2T!LoseData(h) PROVE R2tIInv'
  BY <1>5, R2tLoseDataInv
<1>6. ASSUME NEW h \in R2T!Hops, R2T!LoseCACK(h) PROVE R2tIInv'
  BY <1>6, R2tLoseCACKInv
<1>7. CASE UNCHANGED R2T!vars
  BY <1>7 DEF R2T!vars, R2tIInv, R2tTypes, R2tWaitsForPassed, R2tSendsPassed, R2tAcksPassed, R2tAcksOnce,
              R2tAcksAwaited, R2tSettled
<1> QED
  BY <1>1, <1>2, <1>3, <1>4, <1>5, <1>6, <1>7 DEF R2T!Next

\* Different acknowledgements are as many as their places.
LEMMA OnceCounted ==
  ASSUME NEW S, NEW s \in Seq(S), \A i, j \in 1..Len(s) : s[i] = s[j] => i = j
  PROVE  Cardinality({s[i] : i \in 1..Len(s)}) = Len(s)
<1> DEFINE T == {s[i] : i \in 1..Len(s)}
           g == [i \in 1..Len(s) |-> s[i]]
<1>1. Len(s) \in Nat
  OBVIOUS
<1>2. g \in Bijection(1..Len(s), T)
  <2>1. g \in [1..Len(s) -> T] /\ \A i \in 1..Len(s) : g[i] = s[i]
    OBVIOUS
  <2>2. \A i, j \in 1..Len(s) : g[i] = g[j] => i = j
    BY <2>1
  <2>3. \A t \in T : \E i \in 1..Len(s) : g[i] = t
    BY <2>1
  <2> HIDE DEF T, g
  <2> QED
    BY <2>1, <2>2, <2>3 DEF Bijection, Injection, Surjection, IsInjective
<1>3. IsFiniteSet(1..Len(s)) /\ Cardinality(1..Len(s)) = Len(s)
  <2>1. /\ IsFiniteSet(1..Len(s))
        /\ Cardinality(1..Len(s)) = IF 1 > Len(s) THEN 0 ELSE Len(s) - 1 + 1
    <3>1. 1 \in Int /\ Len(s) \in Int
      BY <1>1
    <3> QED
      BY <3>1, FS_Interval, Zenon
  <2> QED
    BY <1>1, <2>1
<1> HIDE DEF T
<1>4. ExistsBijection(1..Len(s), T)
  BY <1>2 DEF ExistsBijection
<1>5. Cardinality(T) = Len(s)
  BY <1>3, <1>4, FS_Bijection
<1> QED
  BY <1>5 DEF T

LEMMA R2tInvSettles == R2tIInv => R2T!AckSettles
  BY DEF R2tIInv, R2tSettled, R2T!AckSettles, R2T!Entries

\* A router stops waiting for an acknowledgement only when the next router has passed
\* the capsule on, whatever is lost or sent again (csynStates.erase and waitingCACK in
\* r2t-strategy.cpp).
THEOREM R2tWaitsEndAcknowledged == R2T!Spec => []R2T!AckSettles
  BY R2tInvSettles, R2tInitInv, R2tNextInv, PTL DEF R2T!Spec

\* The cardinality of R2tChain is that of FiniteSets.
LEMMA R2tSizes ==
  ASSUME NEW S
  PROVE  R2T!Cardinality(S) = Cardinality(S)
BY DEF R2T!Cardinality, Cardinality, R2T!IsFiniteSet, IsFiniteSet

\* The acknowledgements on a hop find their waits, and are as many as the capsules.
LEMMA R2tInvExpects == R2tIInv => R2T!AckIsExpected
<1>1. ASSUME R2tIInv, NEW h \in R2T!Hops
      PROVE  /\ \A i \in 1..Len(up[h]) : R2T!Entries(h, up[h][i]) # {}
             /\ Cardinality(R2T!OnHop(up, h)) = Len(up[h])
  <2>1. \A i \in 1..Len(up[h]) : R2T!Entries(h, up[h][i]) # {}
    BY <1>1 DEF R2tIInv, R2tAcksAwaited, R2T!Entries
  <2>2. up[h] \in Seq(R2T!DataIds)
    BY <1>1 DEF R2tIInv, R2tTypes
  <2>3. \A i, j \in 1..Len(up[h]) : up[h][i] = up[h][j] => i = j
    BY <1>1 DEF R2tIInv, R2tAcksOnce
  <2> QED
    BY <2>1, <2>2, <2>3, OnceCounted DEF R2T!OnHop
<1> QED
  BY <1>1, R2tSizes DEF R2T!AckIsExpected

\* Every acknowledgement finds the wait whose pointer the code follows unchecked, and
\* is the only one for it (CACK in afterReceiveData, r2t-strategy.cpp).
THEOREM R2tAcksFindTheirWait == R2T!Spec => []R2T!AckIsExpected
  BY R2tInvExpects, R2tInitInv, R2tNextInv, PTL DEF R2T!Spec
-------------------------------------------------------------------------------
\* What the subscriber was handed: capsules the last router passed on, each once.
R2tServed ==
  /\ app \in Seq(R2T!DataIds)
  /\ \A i \in 1..Len(app) : app[i] \in transDataIDs[Last]
  /\ \A i, j \in 1..Len(app) : app[i] = app[j] => i = j

\* Data at a router: the last one hands it on when it did not know it.
LEMMA R2tHandleDataServes ==
  ASSUME transDataIDs \in [R2T!Routers -> SUBSET R2T!DataIds], R2tServed,
         NEW r \in R2T!Routers, NEW d \in R2T!DataIds, NEW pending, R2T!HandleData(r, d, pending)
  PROVE  R2tServed'
<1>1. Last \in R2T!Routers
  BY LastAssumption DEF R2T!Routers
<1>2. CASE UNCHANGED <<transDataIDs, app>>
  BY <1>2 DEF R2tServed
<1>3. CASE /\ d \notin transDataIDs[r]
           /\ transDataIDs' = [transDataIDs EXCEPT ![r] = @ \cup {d}]
           /\ app' = IF R2T!HasFaceDown(r) THEN app ELSE Append(app, d)
  <2>1. /\ \A s \in R2T!Routers : transDataIDs[s] \subseteq transDataIDs'[s]
        /\ d \in transDataIDs'[r]
    BY <1>3
  <2>2. CASE R2T!HasFaceDown(r)
    BY <1>1, <1>3, <2>1, <2>2 DEF R2tServed
  <2>3. CASE ~ R2T!HasFaceDown(r)
    <3>1. r = Last
      BY <2>3, LastAssumption DEF R2T!HasFaceDown, R2T!Routers, R2T!Hops
    <3>2. \A i \in 1..Len(app) : app[i] # d
      BY <1>3, <3>1 DEF R2tServed
    <3>3. /\ app' \in Seq(R2T!DataIds)
          /\ \A i \in 1..Len(app') : app'[i] = d \/ \E j \in 1..Len(app) : app'[i] = app[j]
          /\ \A i, j \in 1..Len(app') : app'[i] = app'[j] => i = j
      BY <1>3, <2>3, <3>2, AppendOnce DEF R2tServed
    <3> QED
      BY <1>1, <2>1, <3>1, <3>3 DEF R2tServed
  <2> QED
    BY <2>2, <2>3
<1> QED
  BY <1>2, <1>3 DEF R2T!HandleData

LEMMA R2tInitServes == R2T!Init => R2tServed
  BY DEF R2T!Init, R2tServed

\* Every step keeps it so.
LEMMA R2tNextServes == R2tIInv /\ R2tServed /\ [R2T!Next]_R2T!vars => R2tServed'
<1> SUFFICES ASSUME R2tIInv, R2tServed, [R2T!Next]_R2T!vars PROVE R2tServed'
  OBVIOUS
<1>1. /\ transDataIDs \in [R2T!Routers -> SUBSET R2T!DataIds]
      /\ down \in [R2T!Hops -> Seq(R2T!DataIds)]
  BY DEF R2tIInv, R2tTypes
<1>2. CASE R2T!Publish
  BY <1>1, <1>2, HopsOfRouters, R2tHandleDataServes DEF R2T!Publish
<1>3. ASSUME NEW r \in R2T!Routers, R2T!ReceiveData(r) PROVE R2tServed'
  <2>1. /\ r - 1 \in R2T!Hops /\ down[r - 1] # <<>>
        /\ R2T!HandleData(r, Head(down[r - 1]), R2T!Taken(down, r - 1))
    BY <1>3 DEF R2T!ReceiveData, R2T!HasFaceUp
  <2>2. Head(down[r - 1]) \in R2T!DataIds
    BY <1>1, <2>1, FirstTaken
  <2> QED
    BY <1>1, <2>1, <2>2, R2tHandleDataServes
<1>4. CASE UNCHANGED <<transDataIDs, app>>
  BY <1>4 DEF R2tServed
<1>5. ASSUME NEW r \in R2T!Routers,
             R2T!ReceiveCACK(r) \/ \E e \in csynStates[r] : R2T!WaitingCACK(r, e)
      PROVE  UNCHANGED <<transDataIDs, app>>
  BY <1>5 DEF R2T!ReceiveCACK, R2T!WaitingCACK
<1>6. ASSUME NEW h \in R2T!Hops, R2T!LoseData(h) \/ R2T!LoseCACK(h)
      PROVE  UNCHANGED <<transDataIDs, app>>
  BY <1>6 DEF R2T!LoseData, R2T!LoseCACK
<1>7. UNCHANGED R2T!vars => UNCHANGED <<transDataIDs, app>>
  BY DEF R2T!vars
<1> QED
  BY <1>2, <1>3, <1>4, <1>5, <1>6, <1>7 DEF R2T!Next

\* The subscriber gets no capsule twice, however often it is sent again
\* (transDataIDs in r2t-strategy.cpp).
THEOREM R2tDeliversOnce == R2T!Spec => []R2T!DeliveredOnce
<1>1. R2tServed => R2T!DeliveredOnce
  BY DEF R2tServed, R2T!DeliveredOnce
<1> QED
  BY <1>1, R2tInitServes, R2tNextServes, R2tInitInv, R2tNextInv, PTL DEF R2T!Spec
-------------------------------------------------------------------------------
\* How often a capsule is on a hop.
Places(q, d) == {i \in 1..Len(q) : q[i] = d}
Count(q, d) == Cardinality(Places(q, d))

LEMMA PlacesFinite ==
  ASSUME NEW S, NEW q \in Seq(S), NEW d
  PROVE  /\ IsFiniteSet(Places(q, d))
         /\ Count(q, d) \in Nat
         /\ (\A i \in 1..Len(q) : q[i] # d) <=> Count(q, d) = 0
<1>1. IsFiniteSet(1..Len(q))
  <2>1. 1 \in Int /\ Len(q) \in Int
    OBVIOUS
  <2> QED
    BY <2>1, FS_Interval, Zenon
<1>2. IsFiniteSet(Places(q, d))
  <2>1. Places(q, d) \subseteq 1..Len(q)
    BY DEF Places
  <2> QED
    BY <1>1, <2>1, FS_Subset
<1>3. Count(q, d) \in Nat /\ (Count(q, d) = 0 <=> Places(q, d) = {})
  BY <1>2, FS_CardinalityType, FS_EmptySet DEF Count
<1>4. (\A i \in 1..Len(q) : q[i] # d) <=> Places(q, d) = {}
  BY DEF Places
<1> QED
  BY <1>2, <1>3, <1>4

\* A capsule put behind the others is counted.
LEMMA CountSent ==
  ASSUME NEW S, NEW q \in Seq(S), NEW x \in S, NEW d
  PROVE  Count(q \o <<x>>, d) = Count(q, d) + (IF x = d THEN 1 ELSE 0)
<1> DEFINE t == q \o <<x>>
           n == Len(q) + 1
<1>1. /\ Len(q) \in Nat /\ Len(t) = n /\ t[n] = x
      /\ \A i \in 1..Len(q) : t[i] = q[i]
  OBVIOUS
<1>2. /\ \A i \in 1..n : i \in 1..Len(q) \/ i = n
      /\ 1..Len(q) \subseteq 1..n /\ n \in 1..n /\ n \notin 1..Len(q)
  BY <1>1
<1>3. IsFiniteSet(Places(q, d)) /\ n \notin Places(q, d) /\ Count(q, d) \in Nat
  BY <1>2, PlacesFinite DEF Places
<1> HIDE DEF t, n
<1>4. CASE x = d
  <2>1. Places(t, d) = Places(q, d) \cup {n}
    BY <1>1, <1>2, <1>4 DEF Places
  <2>2. Count(t, d) = Count(q, d) + 1
    BY <1>3, <2>1, FS_AddElement DEF Count
  <2> QED
    BY <1>4, <2>2 DEF t
<1>5. CASE x # d
  <2>1. Places(t, d) = Places(q, d)
    BY <1>1, <1>2, <1>5 DEF Places
  <2>2. Count(t, d) = Count(q, d)
    BY <2>1 DEF Count
  <2> QED
    BY <1>3, <1>5, <2>2 DEF t
<1> QED
  BY <1>4, <1>5

\* The first one taken is no longer counted.
LEMMA CountTaken ==
  ASSUME NEW S, NEW q \in Seq(S), q # <<>>, NEW d
  PROVE  Count(q, d) = Count(Tail(q), d) + (IF Head(q) = d THEN 1 ELSE 0)
<1> DEFINE t == Tail(q)
           g == [i \in Places(t, d) |-> i + 1]
           T == Places(q, d) \ {1}
<1>1. /\ t \in Seq(S) /\ Len(q) \in Nat \ {0} /\ Len(t) = Len(q) - 1 /\ Head(q) = q[1]
      /\ \A i \in 1..Len(t) : t[i] = q[i + 1]
  OBVIOUS
<1> HIDE DEF t
<1>2. g \in Bijection(Places(t, d), T)
  <2>1. \A i \in Places(t, d) : i \in Nat \ {0} /\ i + 1 \in T
    BY <1>1 DEF Places
  <2>2. \A j \in T : j \in Nat /\ j - 1 \in Places(t, d) /\ (j - 1) + 1 = j
    BY <1>1 DEF Places
  <2>3. g \in [Places(t, d) -> T] /\ \A i \in Places(t, d) : g[i] = i + 1
    BY <2>1
  <2> HIDE DEF g, T
  <2>4. \A i, j \in Places(t, d) : g[i] = g[j] => i = j
    BY <2>1, <2>3
  <2>5. \A j \in T : \E i \in Places(t, d) : g[i] = j
    BY <2>2, <2>3
  <2> QED
    BY <2>3, <2>4, <2>5 DEF Bijection, Injection, Surjection, IsInjective
<1>3. IsFiniteSet(Places(q, d)) /\ IsFiniteSet(Places(t, d)) /\ Count(t, d) \in Nat
  BY <1>1, PlacesFinite
<1>4. Cardinality(T) = Count(t, d) /\ IsFiniteSet(T)
  <2>1. ExistsBijection(Places(t, d), T)
    BY <1>2 DEF ExistsBijection
  <2> HIDE DEF T
  <2> QED
    BY <1>3, <2>1, FS_Bijection DEF Count
<1>5. CASE Head(q) = d
  <2>1. 1 \in Places(q, d)
    BY <1>1, <1>5 DEF Places
  <2>2. Places(q, d) = T \cup {1} /\ 1 \notin T
    BY <2>1
  <2> HIDE DEF T
  <2>3. Count(q, d) = Count(t, d) + 1
    BY <1>4, <2>2, FS_AddElement DEF Count
  <2> QED
    BY <1>5, <2>3 DEF t
<1>6. CASE Head(q) # d
  <2>1. T = Places(q, d)
    BY <1>1, <1>6 DEF Places
  <2>2. Count(q, d) = Count(t, d)
    BY <1>4, <2>1 DEF Count
  <2> QED
    BY <1>3, <1>6, <2>2 DEF t
<1> QED
  BY <1>5, <1>6

-------------------------------------------------------------------------------
\* How often the capsule of a wait was sent: times counts the first sending too, except
\* where no retransmission is configured.
R2tSendings(e) == IF e.times = -1 THEN 1 ELSE e.times

\* A wait whose timer runs has sendings left, any other has made them all.
R2tBudgeted(e) ==
  \/ e.timer /\ e.times \in 1..maxCSynTimes
  \/ ~e.timer /\ R2tSendings(e) = maxCSynTimes + 1

\* What was sent of a capsule the next router lacks is on the hop or lost, and there is
\* one wait that counted it.
R2tCounted(h, d) ==
  \A e \in csynStates[h] : e.dataID = d => Count(down[h], d) + lost[h][d] = R2tSendings(e)

R2tAccounts ==
  /\ lost \in [R2T!Hops -> [R2T!DataIds -> Nat]]
  /\ \A h \in R2T!Hops : \A d \in R2T!DataIds : lost[h][d] # 0 => d \in transDataIDs[h]
  /\ \A r \in R2T!Routers : \A e, f \in csynStates[r] : e.dataID = f.dataID => e = f
  /\ \A r \in R2T!Routers : \A e \in csynStates[r] : R2tBudgeted(e)
  /\ \A h \in R2T!Hops : \A d \in transDataIDs[h] \ transDataIDs[h + 1] : R2tCounted(h, d)

\* A new wait has sent its capsule once.
LEMMA R2tOpenedBudgeted ==
  ASSUME maxCSynTimes \in Nat, NEW d
  PROVE  R2tBudgeted(R2T!Opened(d)) /\ R2tSendings(R2T!Opened(d)) = 1
<1>1. CASE maxCSynTimes >= 1
  <2>1. R2T!Opened(d).timer
    BY <1>1 DEF R2T!Opened
  <2>2. R2T!Opened(d).times = 1 /\ R2T!Opened(d).times \in 1..maxCSynTimes
    BY <1>1 DEF R2T!Opened
  <2>3. R2tSendings(R2T!Opened(d)) = 1
    BY <2>2 DEF R2tSendings
  <2> QED
    BY <2>1, <2>2, <2>3, Zenon DEF R2tBudgeted
<1>2. CASE ~ (maxCSynTimes >= 1)
  <2>1. ~R2T!Opened(d).timer
    BY <1>2 DEF R2T!Opened
  <2>2. R2T!Opened(d).times = -1 /\ maxCSynTimes = 0
    BY <1>2 DEF R2T!Opened
  <2>3. R2tSendings(R2T!Opened(d)) = 1 /\ R2tSendings(R2T!Opened(d)) = maxCSynTimes + 1
    BY <2>2 DEF R2tSendings
  <2> QED
    BY <2>1, <2>3, Zenon DEF R2tBudgeted
<1> QED
  BY <1>1, <1>2

\* A wait that goes on has sent it once more.
LEMMA R2tWaitAgainBudgeted ==
  ASSUME maxCSynTimes \in Nat, NEW e \in R2tWaits, e.timer, R2tBudgeted(e)
  PROVE  /\ R2tBudgeted(R2T!WaitAgain(e))
         /\ R2tSendings(e) \in Nat /\ R2tSendings(R2T!WaitAgain(e)) = R2tSendings(e) + 1
<1>1. e.times \in 1..maxCSynTimes
  BY DEF R2tBudgeted
<1>2. R2T!WaitAgain(e).times = e.times + 1 /\ R2T!WaitAgain(e).timer = (e.times + 1 <= maxCSynTimes)
  BY DEF R2T!WaitAgain, R2tWaits
<1>3. R2tSendings(e) = e.times /\ R2tSendings(R2T!WaitAgain(e)) = e.times + 1
  BY <1>1, <1>2 DEF R2tSendings
<1>4. CASE e.times + 1 <= maxCSynTimes
  <2>1. R2T!WaitAgain(e).timer
    BY <1>2, <1>4
  <2>2. R2T!WaitAgain(e).times \in 1..maxCSynTimes
    BY <1>1, <1>2, <1>4
  <2>3. R2tBudgeted(R2T!WaitAgain(e))
    BY <2>1, <2>2, Zenon DEF R2tBudgeted
  <2> QED
    BY <1>1, <1>3, <2>3
<1>5. CASE ~ (e.times + 1 <= maxCSynTimes)
  <2>1. ~R2T!WaitAgain(e).timer
    BY <1>2, <1>5
  <2>2. R2tSendings(R2T!WaitAgain(e)) = maxCSynTimes + 1
    BY <1>1, <1>3, <1>5
  <2>3. R2tBudgeted(R2T!WaitAgain(e))
    BY <2>1, <2>2, Zenon DEF R2tBudgeted
  <2> QED
    BY <1>1, <1>3, <2>3
<1> QED
  BY <1>4, <1>5

LEMMA R2tInitAccounts == R2T!Init => R2tAccounts
  BY HopsOfRouters DEF R2T!Init, R2tAccounts

\* Data: what is taken off the hop before is no longer lacked behind it, and a new wait
\* begins with what was sent.
LEMMA R2tHandleDataAccounts ==
  ASSUME maxCSynTimes \in Nat, R2tIInv, R2tAccounts, NEW r \in R2T!Routers, NEW d \in R2T!DataIds,
         NEW pending \in [R2T!Hops -> Seq(R2T!DataIds)],
         \A h \in R2T!Hops : \A x \in R2T!DataIds :
            h # r - 1 \/ x # d => Count(pending[h], x) = Count(down[h], x),
         R2T!HandleData(r, d, pending), lost' = lost
  PROVE  R2tAccounts'
<1>1. /\ transDataIDs \in [R2T!Routers -> SUBSET R2T!DataIds]
      /\ csynStates \in [R2T!Routers -> SUBSET R2tWaits]
      /\ down \in [R2T!Hops -> Seq(R2T!DataIds)]
  BY DEF R2tIInv, R2tTypes
<1>2. CASE /\ d \in transDataIDs[r] /\ down' = pending
           /\ UNCHANGED <<transDataIDs, csynStates>>
  <2>1. ASSUME NEW h \in R2T!Hops, NEW x \in transDataIDs[h] \ transDataIDs[h + 1]
        PROVE  R2tCounted(h, x)'
    <3>1. x \in R2T!DataIds
      BY <1>1, HopsOfRouters
    <3>2. h # r - 1 \/ x # d
      BY <1>2, HopsOfRouters DEF R2T!Routers
    <3>3. Count(pending[h], x) = Count(down[h], x)
      BY <3>1, <3>2
    <3> QED
      BY <1>2, <3>3 DEF R2tAccounts, R2tCounted
  <2> QED
    BY <1>2, <2>1 DEF R2tAccounts
<1>3. CASE /\ d \notin transDataIDs[r]
           /\ transDataIDs' = [transDataIDs EXCEPT ![r] = @ \cup {d}]
           /\ down' = R2T!SendDown(pending, r, <<d>>)
           /\ csynStates' = IF R2T!HasFaceDown(r)
                            THEN [csynStates EXCEPT ![r] = (@ \ R2T!Entries(r, d)) \cup {R2T!Opened(d)}]
                            ELSE csynStates
  <2>1. /\ transDataIDs'[r] = transDataIDs[r] \cup {d}
        /\ \A s \in R2T!Routers \ {r} : transDataIDs'[s] = transDataIDs[s]
    BY <1>1, <1>3
  <2>2. /\ \A h \in R2T!Hops \ {r} : down'[h] = pending[h]
        /\ r \in R2T!Hops => down'[r] = pending[r] \o <<d>>
    BY <1>3 DEF R2T!SendDown, R2T!HasFaceDown
  <2>3. \A s \in R2T!Routers : \A e \in csynStates'[s] :
           \/ e \in csynStates[s] /\ (s = r => e.dataID # d)
           \/ s = r /\ r \in R2T!Hops /\ e = R2T!Opened(d)
    <3>1. \A e \in csynStates[r] : e.dataID # d
      BY <1>3 DEF R2tIInv, R2tWaitsForPassed
    <3> QED
      BY <1>1, <1>3, <3>1 DEF R2T!HasFaceDown
  <2>4. R2T!Opened(d).dataID = d /\ R2tBudgeted(R2T!Opened(d)) /\ R2tSendings(R2T!Opened(d)) = 1
    BY R2tOpenedType, R2tOpenedBudgeted
  <2>5. \A s \in R2T!Routers : \A e, f \in csynStates'[s] : e.dataID = f.dataID => e = f
    <3>1. \A s \in R2T!Routers : \A e, f \in csynStates[s] : e.dataID = f.dataID => e = f
      BY DEF R2tAccounts
    <3> QED
      BY <2>3, <2>4, <3>1
  <2>6. \A s \in R2T!Routers : \A e \in csynStates'[s] : R2tBudgeted(e)
    BY <2>3, <2>4 DEF R2tAccounts
  <2>7. \A h \in R2T!Hops : \A x \in R2T!DataIds : lost[h][x] # 0 => x \in transDataIDs'[h]
    BY <2>1, HopsOfRouters DEF R2tAccounts
  <2>8. ASSUME NEW h \in R2T!Hops, NEW x \in transDataIDs'[h] \ transDataIDs'[h + 1]
        PROVE  R2tCounted(h, x)'
    <3>1. h \in R2T!Routers /\ h + 1 \in R2T!Routers
      BY HopsOfRouters
    <3>2. h # r - 1 \/ x # d
      BY <2>1, <3>1 DEF R2T!Routers
    <3>3. x \in R2T!DataIds
      BY <1>1, <2>1, <3>1
    <3>4. Count(pending[h], x) = Count(down[h], x)
      BY <3>2, <3>3
    <3>5. CASE h = r /\ x = d
      <4>1. /\ down[h] \in Seq(R2T!DataIds) /\ pending[h] \in Seq(R2T!DataIds)
            /\ \A i \in 1..Len(down[h]) : down[h][i] # d
        BY <1>1, <1>3, <3>5 DEF R2tIInv, R2tSendsPassed
      <4>2. Count(pending[h], d) = 0
        BY <3>4, <3>5, <4>1, PlacesFinite
      <4>3. Count(down'[h], d) = 1
        <5>1. Count(pending[h] \o <<d>>, d) = Count(pending[h], d) + 1
          BY <4>1, CountSent
        <5>2. down'[h] = pending[h] \o <<d>>
          BY <2>2, <3>5
        <5>3. Count(down'[h], d) = Count(pending[h], d) + 1
          BY <5>1, <5>2
        <5> QED
          BY <4>2, <5>3
      <4>4. lost[h][d] = 0
        BY <1>3, <3>5 DEF R2tAccounts
      <4>5. \A e \in csynStates'[h] : e.dataID = d => e = R2T!Opened(d)
        BY <2>3, <3>1, <3>5
      <4> QED
        BY <2>4, <3>5, <4>3, <4>4, <4>5 DEF R2tCounted
    <3>6. CASE ~ (h = r /\ x = d)
      <4>1. x \in transDataIDs[h] \ transDataIDs[h + 1]
        BY <2>1, <3>1, <3>6
      <4>2. R2tCounted(h, x)
        BY <4>1 DEF R2tAccounts
      <4>3. Count(down'[h], x) = Count(down[h], x)
        <5>1. CASE h # r
          BY <2>2, <3>4, <5>1
        <5>2. CASE h = r
          <6>1. pending[h] \in Seq(R2T!DataIds) /\ Count(pending[h], x) \in Nat
            BY PlacesFinite
          <6>2. Count(pending[h] \o <<d>>, x) = Count(pending[h], x)
            BY <3>6, <5>2, <6>1, CountSent
          <6> QED
            BY <2>2, <3>4, <5>2, <6>2
        <5> QED
          BY <5>1, <5>2
      <4>4. \A e \in csynStates'[h] : e.dataID = x => e \in csynStates[h]
        BY <2>3, <2>4, <3>1, <3>6
      <4> QED
        BY <4>2, <4>3, <4>4 DEF R2tCounted
    <3> QED
      BY <3>5, <3>6
  <2> QED
    BY <2>5, <2>6, <2>7, <2>8 DEF R2tAccounts
<1> QED
  BY <1>2, <1>3 DEF R2T!HandleData

LEMMA R2tReceiveDataAccounts ==
  ASSUME maxCSynTimes \in Nat, R2tIInv, R2tAccounts, NEW r \in R2T!Routers, R2T!ReceiveData(r)
  PROVE  R2tAccounts'
<1> DEFINE d == Head(down[r - 1])
           pending == R2T!Taken(down, r - 1)
<1>1. /\ r - 1 \in R2T!Hops /\ down[r - 1] # <<>>
      /\ R2T!HandleData(r, d, pending) /\ lost' = lost
  BY DEF R2T!ReceiveData, R2T!HasFaceUp
<1>2. down \in [R2T!Hops -> Seq(R2T!DataIds)]
  BY DEF R2tIInv, R2tTypes
<1>3. d \in R2T!DataIds
  BY <1>1, <1>2, FirstTaken
<1>4. /\ pending \in [R2T!Hops -> Seq(R2T!DataIds)]
      /\ pending[r - 1] = Tail(down[r - 1])
      /\ \A h \in R2T!Hops \ {r - 1} : pending[h] = down[h]
  <2>1. pending \in [R2T!Hops -> Seq(R2T!DataIds)] /\ pending[r - 1] = Tail(down[r - 1])
    BY <1>1, <1>2, TakenOf
  <2>2. \A h \in R2T!Hops \ {r - 1} : pending[h] = down[h]
    BY <1>1, <1>2, TakenOf
  <2> QED
    BY <2>1, <2>2
<1>5. ASSUME NEW h \in R2T!Hops, NEW x \in R2T!DataIds, h # r - 1 \/ x # d
      PROVE  Count(pending[h], x) = Count(down[h], x)
  <2>1. CASE h # r - 1
    BY <1>4, <2>1
  <2>2. CASE h = r - 1
    <3>1. Count(down[h], x) = Count(Tail(down[h]), x) + 0
      BY <1>1, <1>2, <1>5, <2>2, CountTaken
    <3>2. Count(pending[h], x) \in Nat
      BY <1>4, PlacesFinite
    <3> QED
      BY <1>4, <2>2, <3>1, <3>2
  <2> QED
    BY <2>1, <2>2
<1> HIDE DEF d, pending
<1> QED
  BY <1>1, <1>3, <1>4, <1>5, R2tHandleDataAccounts

LEMMA R2tPublishAccounts ==
  ASSUME maxCSynTimes \in Nat, R2tIInv, R2tAccounts, R2T!Publish
  PROVE  R2tAccounts'
<1>1. next \in R2T!DataIds /\ R2T!HandleData(1, next, down) /\ lost' = lost
  BY DEF R2T!Publish
<1>2. down \in [R2T!Hops -> Seq(R2T!DataIds)]
  BY DEF R2tIInv, R2tTypes
<1> QED
  BY <1>1, <1>2, HopsOfRouters, R2tHandleDataAccounts

\* A wait that ends leaves the others as they are.
LEMMA R2tReceiveCACKAccounts ==
  ASSUME R2tIInv, R2tAccounts, NEW r \in R2T!Routers, R2T!ReceiveCACK(r)
  PROVE  R2tAccounts'
<1>1. /\ csynStates' = [csynStates EXCEPT ![r] = @ \ R2T!Entries(r, Head(up[r]))]
      /\ UNCHANGED <<transDataIDs, down, lost>>
  BY DEF R2T!ReceiveCACK
<1>2. \A s \in R2T!Routers : csynStates'[s] \subseteq csynStates[s]
  BY <1>1 DEF R2tIInv, R2tTypes
<1>3. \A h \in R2T!Hops : h \in R2T!Routers
  BY HopsOfRouters
<1> QED
  BY <1>1, <1>2, <1>3 DEF R2tAccounts, R2tCounted

\* A capsule sent again is counted by its wait.
LEMMA R2tWaitingCACKAccounts ==
  ASSUME maxCSynTimes \in Nat, R2tIInv, R2tAccounts, NEW r \in R2T!Routers, NEW e \in csynStates[r],
         R2T!WaitingCACK(r, e)
  PROVE  R2tAccounts'
<1> DEFINE w == R2T!WaitAgain(e)
           x == e.dataID
<1>1. /\ down' = R2T!SendDown(down, r, <<x>>)
      /\ csynStates' = [csynStates EXCEPT ![r] = (@ \ {e}) \cup {w}]
      /\ UNCHANGED <<transDataIDs, lost>>
      /\ e.timer
  BY DEF R2T!WaitingCACK
<1>2. /\ csynStates \in [R2T!Routers -> SUBSET R2tWaits] /\ e \in R2tWaits /\ x \in R2T!DataIds
      /\ transDataIDs \in [R2T!Routers -> SUBSET R2T!DataIds]
      /\ down \in [R2T!Hops -> Seq(R2T!DataIds)]
  BY DEF R2tIInv, R2tTypes, R2tWaits
<1>3. w.dataID = x
  BY <1>2, R2tWaitAgainType
<1>4. R2tBudgeted(w) /\ R2tSendings(e) \in Nat /\ R2tSendings(w) = R2tSendings(e) + 1
  BY <1>1, <1>2, R2tWaitAgainBudgeted DEF R2tAccounts
<1> HIDE DEF w
<1>5. \A s \in R2T!Routers : \A f \in csynStates'[s] :
         \/ f \in csynStates[s] /\ (s = r => f.dataID # x)
         \/ s = r /\ f = w
  <2>1. \A f \in csynStates[r] : f.dataID = x => f = e
    BY DEF R2tAccounts
  <2> QED
    BY <1>1, <1>2, <2>1
<1>6. \A s \in R2T!Routers : \A f, g \in csynStates'[s] : f.dataID = g.dataID => f = g
  <2>1. \A s \in R2T!Routers : \A f, g \in csynStates[s] : f.dataID = g.dataID => f = g
    BY DEF R2tAccounts
  <2> QED
    BY <1>3, <1>5, <2>1
<1>7. \A s \in R2T!Routers : \A f \in csynStates'[s] : R2tBudgeted(f)
  BY <1>4, <1>5 DEF R2tAccounts
<1>8. ASSUME NEW h \in R2T!Hops, NEW d \in transDataIDs[h] \ transDataIDs[h + 1]
      PROVE  R2tCounted(h, d)'
  <2>1. R2tCounted(h, d)
    BY DEF R2tAccounts
  <2>2. h \in R2T!Routers /\ d \in R2T!DataIds
    BY <1>2, HopsOfRouters
  <2>3. lost[h][d] \in Nat
    BY <2>2 DEF R2tAccounts
  <2>4. Count(down[h], d) \in Nat
    BY <1>2, PlacesFinite
  <2>5. CASE h = r
    <3>1. down'[h] = down[h] \o <<x>>
      BY <1>1, <1>2, <2>5 DEF R2T!SendDown, R2T!HasFaceDown
    <3>2. Count(down[h] \o <<x>>, d) = Count(down[h], d) + (IF x = d THEN 1 ELSE 0)
      BY <1>2, CountSent
    <3>3. CASE d = x
      <4>1. Count(down[h], d) + lost[h][d] = R2tSendings(e)
        BY <2>1, <2>5, <3>3 DEF R2tCounted
      <4>2. Count(down'[h], d) + lost[h][d] = R2tSendings(w)
        BY <1>4, <2>3, <2>4, <3>1, <3>2, <3>3, <4>1
      <4>3. \A f \in csynStates'[h] : f.dataID = d => f = w
        BY <1>5, <2>2, <2>5, <3>3
      <4> QED
        BY <1>1, <4>2, <4>3 DEF R2tCounted
    <3>4. CASE d # x
      <4>1. Count(down'[h], d) = Count(down[h], d)
        BY <2>4, <3>1, <3>2, <3>4
      <4>2. \A f \in csynStates'[h] : f.dataID = d => f \in csynStates[h]
        BY <1>3, <1>5, <2>2, <3>4
      <4> QED
        BY <1>1, <2>1, <4>1, <4>2 DEF R2tCounted
    <3> QED
      BY <3>3, <3>4
  <2>6. CASE h # r
    <3>1. down'[h] = down[h]
      BY <1>1, <1>2, <2>6 DEF R2T!SendDown
    <3>2. \A f \in csynStates'[h] : f \in csynStates[h]
      BY <1>5, <2>2, <2>6
    <3> QED
      BY <1>1, <2>1, <3>1, <3>2 DEF R2tCounted
  <2> QED
    BY <2>5, <2>6
<1> QED
  BY <1>1, <1>6, <1>7, <1>8 DEF R2tAccounts

\* A capsule lost leaves the hop and is counted as lost.
LEMMA R2tLoseDataAccounts ==
  ASSUME R2tIInv, R2tAccounts, NEW h \in R2T!Hops, R2T!LoseData(h)
  PROVE  R2tAccounts'
<1> DEFINE x == Head(down[h])
<1>1. /\ down[h] # <<>> /\ down' = R2T!Taken(down, h)
      /\ lost' = [lost EXCEPT ![h][x] = @ + 1]
      /\ UNCHANGED <<transDataIDs, csynStates>>
  BY DEF R2T!LoseData
<1>2. /\ down \in [R2T!Hops -> Seq(R2T!DataIds)]
      /\ transDataIDs \in [R2T!Routers -> SUBSET R2T!DataIds]
  BY DEF R2tIInv, R2tTypes
<1>3. x \in R2T!DataIds /\ x = down[h][1] /\ 1 \in 1..Len(down[h])
  BY <1>1, <1>2, FirstTaken
<1>4. x \in transDataIDs[h]
  BY <1>3 DEF R2tIInv, R2tSendsPassed
<1>5. /\ down'[h] = Tail(down[h])
      /\ \A g \in R2T!Hops \ {h} : down'[g] = down[g]
  <2>1. down'[h] = Tail(down[h])
    BY <1>1, <1>2, TakenOf
  <2>2. \A g \in R2T!Hops \ {h} : down'[g] = down[g]
    BY <1>1, <1>2, TakenOf
  <2> QED
    BY <2>1, <2>2
<1>6. /\ \A d \in R2T!DataIds : Count(down[h], d) = Count(down'[h], d) + (IF x = d THEN 1 ELSE 0)
      /\ \A d \in R2T!DataIds : Count(down[h], d) \in Nat /\ Count(down'[h], d) \in Nat
  <2>1. down[h] \in Seq(R2T!DataIds) /\ Tail(down[h]) \in Seq(R2T!DataIds)
    BY <1>1, <1>2
  <2>2. \A d : Count(down[h], d) = Count(Tail(down[h]), d) + (IF x = d THEN 1 ELSE 0)
    BY <1>1, <2>1, CountTaken
  <2>3. \A d : Count(down[h], d) \in Nat /\ Count(Tail(down[h]), d) \in Nat
    BY <2>1, PlacesFinite
  <2> HIDE DEF x
  <2> QED
    BY <1>5, <2>2, <2>3
<1> HIDE DEF x
<1>7. lost \in [R2T!Hops -> [R2T!DataIds -> Nat]]
  BY DEF R2tAccounts
<1>8. /\ lost' \in [R2T!Hops -> [R2T!DataIds -> Nat]]
      /\ lost'[h][x] = lost[h][x] + 1
      /\ \A g \in R2T!Hops : \A d \in R2T!DataIds : g # h \/ d # x => lost'[g][d] = lost[g][d]
  BY <1>1, <1>3, <1>7
<1>9. \A g \in R2T!Hops : \A d \in R2T!DataIds : lost'[g][d] # 0 => d \in transDataIDs[g]
  BY <1>4, <1>8 DEF R2tAccounts
<1>10. ASSUME NEW g \in R2T!Hops, NEW d \in transDataIDs[g] \ transDataIDs[g + 1]
       PROVE  R2tCounted(g, d)'
  <2>1. R2tCounted(g, d)
    BY DEF R2tAccounts
  <2>2. d \in R2T!DataIds /\ lost[g][d] \in Nat
    BY <1>2, <1>7, HopsOfRouters
  <2>3. Count(down'[g], d) + lost'[g][d] = Count(down[g], d) + lost[g][d]
    <3>1. CASE g = h /\ d = x
      BY <1>6, <1>8, <2>2, <3>1
    <3>2. CASE g = h /\ d # x
      <4>1. Count(down'[g], d) = Count(down[g], d)
        BY <1>6, <2>2, <3>2
      <4> QED
        BY <1>8, <2>2, <3>2, <4>1
    <3>3. CASE g # h
      BY <1>5, <1>8, <2>2, <3>3
    <3> QED
      BY <3>1, <3>2, <3>3
  <2> QED
    BY <1>1, <2>1, <2>3 DEF R2tCounted
<1> QED
  BY <1>1, <1>8, <1>9, <1>10 DEF R2tAccounts

\* Every step keeps the accounts.
LEMMA R2tNextAccounts ==
  maxCSynTimes \in Nat /\ R2tIInv /\ R2tAccounts /\ [R2T!Next]_R2T!vars => R2tAccounts'
<1> SUFFICES ASSUME maxCSynTimes \in Nat, R2tIInv, R2tAccounts, [R2T!Next]_R2T!vars
             PROVE  R2tAccounts'
  OBVIOUS
<1>1. CASE R2T!Publish
  BY <1>1, R2tPublishAccounts
<1>2. ASSUME NEW r \in R2T!Routers, R2T!ReceiveData(r) PROVE R2tAccounts'
  BY <1>2, R2tReceiveDataAccounts
<1>3. ASSUME NEW r \in R2T!Routers, R2T!ReceiveCACK(r) PROVE R2tAccounts'
  BY <1>3, R2tReceiveCACKAccounts
<1>4. ASSUME NEW r \in R2T!Routers, NEW e \in csynStates[r], R2T!WaitingCACK(r, e)
      PROVE  R2tAccounts'
  BY <1>4, R2tWaitingCACKAccounts
<1>5. ASSUME NEW h \in R2T!Hops, R2T!LoseData(h) PROVE R2tAccounts'
  BY <1>5, R2tLoseDataAccounts
<1>6. CASE UNCHANGED <<transDataIDs, csynStates, down, lost>>
  BY <1>6 DEF R2tAccounts, R2tCounted
<1>7. ASSUME NEW h \in R2T!Hops, R2T!LoseCACK(h)
      PROVE  UNCHANGED <<transDataIDs, csynStates, down, lost>>
  BY <1>7 DEF R2T!LoseCACK
<1>8. UNCHANGED R2T!vars => UNCHANGED <<transDataIDs, csynStates, down, lost>>
  BY DEF R2T!vars
<1> QED
  BY <1>1, <1>2, <1>3, <1>4, <1>5, <1>6, <1>7, <1>8 DEF R2T!Next

\* A capsule the next router lacks, that is no longer on the hop and has no timer, was
\* sent as often as allowed, and all of that was lost.
LEMMA R2tAccountsSpent == R2tIInv /\ R2tAccounts => R2T!GivesUpSpent
<1> SUFFICES ASSUME R2tIInv, R2tAccounts, NEW h \in R2T!Hops,
                    NEW d \in transDataIDs[h] \ transDataIDs[h + 1],
                    d \notin R2T!OnHop(down, h), \A e \in R2T!Entries(h, d) : ~e.timer
             PROVE  lost[h][d] = maxCSynTimes + 1
  BY DEF R2T!GivesUpSpent
<1>1. PICK e \in csynStates[h] : e.dataID = d
  BY DEF R2tIInv, R2tSettled
<1>2. ~e.timer
  BY <1>1 DEF R2T!Entries
<1>3. h \in R2T!Routers /\ d \in R2T!DataIds /\ down[h] \in Seq(R2T!DataIds)
  BY HopsOfRouters DEF R2tIInv, R2tTypes
<1>4. R2tSendings(e) = maxCSynTimes + 1
  BY <1>2, <1>3, Zenon DEF R2tAccounts, R2tBudgeted
<1>5. Count(down[h], d) = 0
  <2>1. \A i \in 1..Len(down[h]) : down[h][i] # d
    BY DEF R2T!OnHop
  <2> QED
    BY <1>3, <2>1, PlacesFinite
<1>6. Count(down[h], d) + lost[h][d] = R2tSendings(e) /\ lost[h][d] \in Nat
  BY <1>1, <1>3 DEF R2tAccounts, R2tCounted
<1> QED
  BY <1>4, <1>5, <1>6

\* A hop gives a capsule up only after the first sending and all retransmissions of it
\* were lost (es->times against routes->maxCSynTimes in waitingCACK, r2t-strategy.cpp).
THEOREM R2tGivesUpWhenSpent == maxCSynTimes \in Nat => (R2T!Spec => []R2T!GivesUpSpent)
<1> SUFFICES ASSUME maxCSynTimes \in Nat PROVE R2T!Spec => []R2T!GivesUpSpent
  OBVIOUS
<1>1. R2tIInv /\ R2tAccounts /\ [R2T!Next]_R2T!vars => R2tAccounts'
  BY R2tNextAccounts
<1> QED
  BY <1>1, R2tAccountsSpent, R2tInitAccounts, R2tInitInv, R2tNextInv, PTL DEF R2T!Spec

-------------------------------------------------------------------------------
(* MFTP. *)

\* The chain of MFTP is that of HopLinks.
LEMMA MftpLinks ==
  /\ MFTP!Routers = R2T!Routers /\ MFTP!Hops = R2T!Hops
  /\ \A r : MFTP!HasFaceUp(r) = R2T!HasFaceUp(r)
  /\ \A q, h : MFTP!Taken(q, h) = R2T!Taken(q, h)
  /\ \A q, r, msgs : MFTP!SendUp(q, r, msgs) = R2T!SendUp(q, r, msgs)
BY DEF MFTP!Routers, R2T!Routers, MFTP!Hops, R2T!Hops, MFTP!HasFaceUp, R2T!HasFaceUp, MFTP!Taken,
       R2T!Taken, MFTP!SendUp, R2T!SendUp

\* See HopsOfRouters, TakenOf and SendUpAdds above.
LEMMA MftpHopsOfRouters ==
  /\ \A h \in MFTP!Hops : /\ h \in Int /\ h \in MFTP!Routers /\ h + 1 \in MFTP!Routers
                        /\ h + 1 # h /\ h + 1 - 1 = h
  /\ 1 \in MFTP!Routers /\ ~ MFTP!HasFaceUp(1)
BY LastAssumption, HopsOfRouters, MftpLinks

LEMMA MftpTakenOf ==
  ASSUME NEW S, NEW q \in [MFTP!Hops -> Seq(S)], NEW h \in MFTP!Hops, q[h] # <<>>
  PROVE  /\ MFTP!Taken(q, h) \in [MFTP!Hops -> Seq(S)]
         /\ MFTP!Taken(q, h)[h] = Tail(q[h])
         /\ \A g \in MFTP!Hops \ {h} : MFTP!Taken(q, h)[g] = q[g]
         /\ \A g \in MFTP!Hops : \A i \in 1..Len(MFTP!Taken(q, h)[g]) :
               \E j \in 1..Len(q[g]) : MFTP!Taken(q, h)[g][i] = q[g][j]
<1>1. q \in [R2T!Hops -> Seq(S)] /\ h \in R2T!Hops
  BY MftpLinks
<1>2. MFTP!Taken(q, h) = R2T!Taken(q, h) /\ MFTP!Hops = R2T!Hops
  BY MftpLinks
<1>3. R2T!Taken(q, h) \in [R2T!Hops -> Seq(S)]
  BY <1>1, LastAssumption, TakenOf
<1>4. R2T!Taken(q, h)[h] = Tail(q[h])
  BY <1>1, LastAssumption, TakenOf
<1>5. \A g \in R2T!Hops \ {h} : R2T!Taken(q, h)[g] = q[g]
  BY <1>1, LastAssumption, TakenOf
<1>6. \A g \in R2T!Hops : \A i \in 1..Len(R2T!Taken(q, h)[g]) :
         \E j \in 1..Len(q[g]) : R2T!Taken(q, h)[g][i] = q[g][j]
  BY <1>1, LastAssumption, TakenOf
<1>7. \A g \in MFTP!Hops : \A i \in 1..Len(MFTP!Taken(q, h)[g]) :
         \E j \in 1..Len(q[g]) : MFTP!Taken(q, h)[g][i] = q[g][j]
  BY <1>2, <1>6
<1> QED
  BY <1>2, <1>3, <1>4, <1>5, <1>7

LEMMA MftpSendUpAdds ==
  ASSUME NEW S, NEW q \in [MFTP!Hops -> Seq(S)], NEW r \in MFTP!Routers, NEW x \in S
  PROVE  /\ MFTP!SendUp(q, r, <<x>>) \in [MFTP!Hops -> Seq(S)]
         /\ \A h \in MFTP!Hops : \A i \in 1..Len(MFTP!SendUp(q, r, <<x>>)[h]) :
               \/ h + 1 = r /\ MFTP!SendUp(q, r, <<x>>)[h][i] = x
               \/ \E j \in 1..Len(q[h]) : MFTP!SendUp(q, r, <<x>>)[h][i] = q[h][j]
BY LastAssumption, SendUpAdds, MftpLinks

MftpWaits == [dataID : MFTP!DataIds, times : Int, timer : BOOLEAN]
MftpAsks  == [type : {"Data", "CSYN"}, id : MFTP!DataIds]
MftpSays  == [id : MFTP!DataIds, received : BOOLEAN]

MftpTypes ==
  /\ transDataIDs \in [MFTP!Routers -> SUBSET MFTP!DataIds]
  /\ receivedDataIDs \in [MFTP!Routers -> SUBSET MFTP!DataIds]
  /\ csynStates \in [MFTP!Routers -> SUBSET MftpWaits]
  /\ down \in [MFTP!Hops -> Seq(MftpAsks)]
  /\ up \in [MFTP!Hops -> Seq(MftpSays)]

\* What a CACK confirms has been passed on: at the router that says so, and in the
\* CACKs under way from it.
MftpReceivedPassed == \A r \in MFTP!Routers : receivedDataIDs[r] \subseteq transDataIDs[r]
MftpConfirmsPassed ==
  \A h \in MFTP!Hops : \A i \in 1..Len(up[h]) :
    up[h][i].received => up[h][i].id \in transDataIDs[h + 1]

\* AckSettles, without the sets of Entries.
MftpSettled ==
  \A h \in MFTP!Hops : \A d \in transDataIDs[h] :
    (\E e \in csynStates[h] : e.dataID = d) \/ d \in transDataIDs[h + 1]

MftpIInv == MftpTypes /\ MftpReceivedPassed /\ MftpConfirmsPassed /\ MftpSettled

\* Nothing has been passed on or sent.
LEMMA MftpInitInv == MFTP!Init => MftpIInv
<1> SUFFICES ASSUME MFTP!Init PROVE MftpIInv
  OBVIOUS
<1>1. MftpTypes
  BY DEF MFTP!Init, MftpTypes, MFTP!NoMessages
<1>2. \A h \in MFTP!Hops : h \in MFTP!Routers /\ Len(up[h]) = 0
  BY MftpHopsOfRouters DEF MFTP!Init, MFTP!NoMessages
<1>3. MftpReceivedPassed /\ MftpConfirmsPassed /\ MftpSettled
  BY <1>2 DEF MFTP!Init, MftpReceivedPassed, MftpConfirmsPassed, MftpSettled
<1> QED
  BY <1>1, <1>3 DEF MftpIInv

\* Counting one more CSYN keeps a wait for the same capsule.
LEMMA MftpAskedType ==
  ASSUME NEW e \in MftpWaits
  PROVE  MFTP!Asked(e) \in MftpWaits /\ MFTP!Asked(e).dataID = e.dataID
<1>1. (e.times + 1 < maxCSynTimes) \in BOOLEAN
  OBVIOUS
<1>2. e.times + 1 \in Int
  BY DEF MftpWaits
<1> QED
  BY <1>1, <1>2 DEF MFTP!Asked, MftpWaits

\* The capsule and the question about it, sent together.
LEMMA MftpDataAndCSYN ==
  ASSUME NEW q \in [MFTP!Hops -> Seq(MftpAsks)], NEW r \in MFTP!Routers, NEW d \in MFTP!DataIds
  PROVE  /\ MFTP!SendDown(q, r, <<MFTP!Data(d), MFTP!CSYN(d)>>) \in [MFTP!Hops -> Seq(MftpAsks)]
         /\ MFTP!SendDown(q, r, <<MFTP!CSYN(d)>>) \in [MFTP!Hops -> Seq(MftpAsks)]
<1>1. MFTP!Data(d) \in MftpAsks /\ MFTP!CSYN(d) \in MftpAsks
  BY DEF MftpAsks, MFTP!Data, MFTP!CSYN
<1>2. <<MFTP!Data(d), MFTP!CSYN(d)>> \in Seq(MftpAsks) /\ <<MFTP!CSYN(d)>> \in Seq(MftpAsks)
  BY <1>1
<1> HIDE DEF MftpAsks
<1>3. \A h \in MFTP!Hops : /\ q[h] \o <<MFTP!Data(d), MFTP!CSYN(d)>> \in Seq(MftpAsks)
                           /\ q[h] \o <<MFTP!CSYN(d)>> \in Seq(MftpAsks)
  BY <1>2
<1> QED
  BY <1>3 DEF MFTP!SendDown

\* A wait that becomes another one for the same capsule settles what it settled.
LEMMA MftpWaitReplaced ==
  ASSUME MftpIInv, NEW r \in MFTP!Routers, NEW e \in csynStates[r],
         NEW f \in MftpWaits, f.dataID = e.dataID,
         csynStates' = [csynStates EXCEPT ![r] = (@ \ {e}) \cup {f}],
         UNCHANGED <<transDataIDs, receivedDataIDs>>
  PROVE  csynStates' \in [MFTP!Routers -> SUBSET MftpWaits] /\ MftpReceivedPassed' /\ MftpSettled'
<1>1. csynStates \in [MFTP!Routers -> SUBSET MftpWaits]
  BY DEF MftpIInv, MftpTypes
<1>2. csynStates' \in [MFTP!Routers -> SUBSET MftpWaits]
  BY <1>1
<1>3. MftpReceivedPassed'
  BY DEF MftpIInv, MftpReceivedPassed
<1>4. \A h \in MFTP!Hops : \A x :
         (\E g \in csynStates[h] : g.dataID = x) => \E g \in csynStates'[h] : g.dataID = x
  BY <1>1, MftpHopsOfRouters
<1>5. MftpSettled'
  BY <1>4 DEF MftpIInv, MftpSettled
<1> QED
  BY <1>2, <1>3, <1>5

\* Data: a capsule passed on is waited for, unless nobody follows.
LEMMA MftpHandleDataInv ==
  ASSUME MftpIInv, NEW r \in MFTP!Routers, NEW d \in MFTP!DataIds,
         NEW pending \in [MFTP!Hops -> Seq(MftpAsks)], MFTP!HandleData(r, d, pending), up' = up
  PROVE  MftpIInv'
<1>1. /\ transDataIDs \in [MFTP!Routers -> SUBSET MFTP!DataIds]
      /\ receivedDataIDs \in [MFTP!Routers -> SUBSET MFTP!DataIds]
      /\ csynStates \in [MFTP!Routers -> SUBSET MftpWaits]
      /\ up \in [MFTP!Hops -> Seq(MftpSays)]
  BY DEF MftpIInv, MftpTypes
<1>2. CASE down' = pending /\ UNCHANGED <<transDataIDs, receivedDataIDs, csynStates>>
  BY <1>2 DEF MftpIInv, MftpTypes, MftpReceivedPassed, MftpConfirmsPassed, MftpSettled
<1>3. CASE /\ transDataIDs' = [transDataIDs EXCEPT ![r] = @ \cup {d}]
           /\ \/ /\ ~MFTP!HasFaceDown(r) /\ down' = pending
                 /\ UNCHANGED <<receivedDataIDs, csynStates>>
              \/ /\ MFTP!HasFaceDown(r)
                 /\ down' = MFTP!SendDown(pending, r, <<MFTP!Data(d), MFTP!CSYN(d)>>)
                 /\ receivedDataIDs' = [receivedDataIDs EXCEPT ![r] = @ \cup {d}]
                 /\ csynStates' = [csynStates EXCEPT ![r] =
                                     @ \cup {[dataID |-> d, times |-> 1, timer |-> TRUE]}]
  <2>1. /\ transDataIDs' \in [MFTP!Routers -> SUBSET MFTP!DataIds]
        /\ transDataIDs'[r] = transDataIDs[r] \cup {d}
        /\ \A s \in MFTP!Routers \ {r} : transDataIDs'[s] = transDataIDs[s]
        /\ \A s \in MFTP!Routers : transDataIDs[s] \subseteq transDataIDs'[s]
    BY <1>1, <1>3
  <2> DEFINE w == [dataID |-> d, times |-> 1, timer |-> TRUE]
  <2>2. w \in MftpWaits /\ w.dataID = d
    BY DEF MftpWaits
  <2>3. /\ receivedDataIDs' \in [MFTP!Routers -> SUBSET MFTP!DataIds]
        /\ \A s \in MFTP!Routers : \A x \in receivedDataIDs'[s] :
              x \in receivedDataIDs[s] \/ (s = r /\ x = d)
        /\ csynStates' \in [MFTP!Routers -> SUBSET MftpWaits]
        /\ \A s \in MFTP!Routers : csynStates[s] \subseteq csynStates'[s]
        /\ r \in MFTP!Hops => \E e \in csynStates'[r] : e.dataID = d
        /\ down' \in [MFTP!Hops -> Seq(MftpAsks)]
    <3>1. CASE r \notin MFTP!Hops
      <4>1. down' = pending /\ UNCHANGED <<receivedDataIDs, csynStates>>
        BY <1>3, <3>1 DEF MFTP!HasFaceDown
      <4> QED
        BY <1>1, <3>1, <4>1
    <3>2. CASE r \in MFTP!Hops
      <4>1. /\ down' = MFTP!SendDown(pending, r, <<MFTP!Data(d), MFTP!CSYN(d)>>)
            /\ receivedDataIDs' = [receivedDataIDs EXCEPT ![r] = @ \cup {d}]
            /\ csynStates' = [csynStates EXCEPT ![r] = @ \cup {w}]
        BY <1>3, <3>2 DEF MFTP!HasFaceDown
      <4> HIDE DEF w
      <4>2. /\ receivedDataIDs' \in [MFTP!Routers -> SUBSET MFTP!DataIds]
            /\ \A s \in MFTP!Routers : \A x \in receivedDataIDs'[s] :
                  x \in receivedDataIDs[s] \/ (s = r /\ x = d)
        BY <1>1, <4>1
      <4>3. /\ csynStates' \in [MFTP!Routers -> SUBSET MftpWaits]
            /\ \A s \in MFTP!Routers : csynStates[s] \subseteq csynStates'[s]
            /\ w \in csynStates'[r]
        BY <1>1, <2>2, <4>1
      <4>4. down' \in [MFTP!Hops -> Seq(MftpAsks)]
        BY <4>1, MftpDataAndCSYN
      <4> QED
        BY <2>2, <4>2, <4>3, <4>4
    <3> QED
      BY <3>1, <3>2
  <2>4. MftpReceivedPassed'
    BY <2>1, <2>3 DEF MftpIInv, MftpReceivedPassed
  <2>5. MftpConfirmsPassed'
    BY <2>1, MftpHopsOfRouters DEF MftpIInv, MftpConfirmsPassed
  <2>6. MftpSettled'
    <3> SUFFICES ASSUME NEW h \in MFTP!Hops, NEW x \in transDataIDs'[h]
                 PROVE  (\E e \in csynStates'[h] : e.dataID = x) \/ x \in transDataIDs'[h + 1]
      BY DEF MftpSettled
    <3>1. h \in MFTP!Routers /\ h + 1 \in MFTP!Routers
      BY MftpHopsOfRouters
    <3>2. CASE x \in transDataIDs[h]
      <4>1. (\E e \in csynStates[h] : e.dataID = x) \/ x \in transDataIDs[h + 1]
        BY <3>2 DEF MftpIInv, MftpSettled
      <4> QED
        BY <2>1, <2>3, <3>1, <4>1
    <3>3. CASE x \notin transDataIDs[h]
      BY <2>1, <2>3, <3>1, <3>3
    <3> QED
      BY <3>2, <3>3
  <2> QED
    BY <1>1, <2>1, <2>3, <2>4, <2>5, <2>6 DEF MftpIInv, MftpTypes
<1> QED
  BY <1>2, <1>3 DEF MFTP!HandleData

\* The publisher's Data.
LEMMA MftpPublishInv == MftpIInv /\ MFTP!Publish => MftpIInv'
<1> SUFFICES ASSUME MftpIInv, MFTP!Publish PROVE MftpIInv'
  OBVIOUS
<1>1. next \in MFTP!DataIds /\ MFTP!HandleData(1, next, down) /\ up' = up
  BY DEF MFTP!Publish
<1>2. down \in [MFTP!Hops -> Seq(MftpAsks)]
  BY DEF MftpIInv, MftpTypes
<1> QED
  BY <1>1, <1>2, MftpHopsOfRouters, MftpHandleDataInv

\* The first message from the router before.
LEMMA MftpFirstAsked ==
  ASSUME MftpIInv, NEW r \in MFTP!Routers, NEW type, MFTP!IsNext(r, type)
  PROVE  /\ r - 1 \in MFTP!Hops
         /\ Head(down[r - 1]).id \in MFTP!DataIds
         /\ MFTP!Taken(down, r - 1) \in [MFTP!Hops -> Seq(MftpAsks)]
<1>1. r - 1 \in MFTP!Hops /\ down[r - 1] # <<>>
  BY DEF MFTP!IsNext, MFTP!HasFaceUp
<1>2. down \in [MFTP!Hops -> Seq(MftpAsks)]
  BY DEF MftpIInv, MftpTypes
<1>3. Head(down[r - 1]) \in MftpAsks
  BY <1>1, <1>2, LastAssumption, FirstTaken
<1>4. MFTP!Taken(down, r - 1) \in [MFTP!Hops -> Seq(MftpAsks)]
  BY <1>1, <1>2, MftpTakenOf
<1> QED
  BY <1>1, <1>3, <1>4 DEF MftpAsks

\* Data of the router before.
LEMMA MftpReceiveDataInv ==
  ASSUME MftpIInv, NEW r \in MFTP!Routers, MFTP!ReceiveData(r)
  PROVE  MftpIInv'
<1>1. /\ MFTP!IsNext(r, "Data") /\ up' = up
      /\ MFTP!HandleData(r, Head(down[r - 1]).id, MFTP!Taken(down, r - 1))
  BY DEF MFTP!ReceiveData
<1>2. /\ Head(down[r - 1]).id \in MFTP!DataIds
      /\ MFTP!Taken(down, r - 1) \in [MFTP!Hops -> Seq(MftpAsks)]
  BY <1>1, MftpFirstAsked
<1> QED
  BY <1>1, <1>2, MftpHandleDataInv

\* A CSYN: the answer confirms only what the router received.
LEMMA MftpReceiveCSYNInv ==
  ASSUME MftpIInv, NEW r \in MFTP!Routers, MFTP!ReceiveCSYN(r)
  PROVE  MftpIInv'
<1> DEFINE d == Head(down[r - 1]).id
           m == MFTP!CACK(d, d \in receivedDataIDs[r])
<1>1. /\ MFTP!IsNext(r, "CSYN")
      /\ up' = MFTP!SendUp(up, r, <<m>>)
      /\ down' = MFTP!Taken(down, r - 1)
      /\ UNCHANGED <<transDataIDs, receivedDataIDs, csynStates>>
  BY DEF MFTP!ReceiveCSYN
<1>2. d \in MFTP!DataIds /\ down' \in [MFTP!Hops -> Seq(MftpAsks)]
  BY <1>1, MftpFirstAsked
<1>3. up \in [MFTP!Hops -> Seq(MftpSays)]
  BY DEF MftpIInv, MftpTypes
<1> HIDE DEF d
<1>4. m.id = d /\ (m.received <=> d \in receivedDataIDs[r])
  BY DEF MFTP!CACK
<1>5. (d \in receivedDataIDs[r]) \in BOOLEAN
  OBVIOUS
<1>6. m \in MftpSays
  BY <1>2, <1>5 DEF MftpSays, MFTP!CACK
<1>7. m.received => m.id \in transDataIDs[r]
  BY <1>4 DEF MftpIInv, MftpReceivedPassed
<1> HIDE DEF m
<1> DEFINE u == MFTP!SendUp(up, r, <<m>>)
<1>8. /\ u \in [MFTP!Hops -> Seq(MftpSays)]
      /\ \A h \in MFTP!Hops : \A i \in 1..Len(u[h]) :
            \/ h + 1 = r /\ u[h][i] = m
            \/ \E j \in 1..Len(up[h]) : u[h][i] = up[h][j]
  BY <1>3, <1>6, MftpSendUpAdds
<1> HIDE DEF u
<1>9. MftpConfirmsPassed'
  <2> SUFFICES ASSUME NEW h \in MFTP!Hops, NEW i \in 1..Len(u[h])
               PROVE  u[h][i].received => u[h][i].id \in transDataIDs[h + 1]
    BY <1>1 DEF MftpConfirmsPassed, u
  <2>1. CASE h + 1 = r /\ u[h][i] = m
    BY <1>7, <2>1
  <2>2. CASE \E j \in 1..Len(up[h]) : u[h][i] = up[h][j]
    BY <2>2 DEF MftpIInv, MftpConfirmsPassed
  <2> QED
    BY <1>8, <2>1, <2>2
<1>10. up' = u
  BY <1>1 DEF u
<1> QED
  BY <1>1, <1>2, <1>8, <1>9, <1>10 DEF MftpIInv, MftpTypes, MftpReceivedPassed, MftpSettled

\* A message lost or taken leaves confirmations of capsules passed on.
LEMMA MftpFewerConfirms ==
  ASSUME MftpIInv, NEW h \in MFTP!Hops, up[h] # <<>>, up' = MFTP!Taken(up, h),
         transDataIDs' = transDataIDs
  PROVE  up' \in [MFTP!Hops -> Seq(MftpSays)] /\ MftpConfirmsPassed'
<1>1. up \in [MFTP!Hops -> Seq(MftpSays)]
  BY DEF MftpIInv, MftpTypes
<1>2. MFTP!Taken(up, h) \in [MFTP!Hops -> Seq(MftpSays)]
  BY <1>1, MftpTakenOf
<1>3. \A g \in MFTP!Hops : \A i \in 1..Len(MFTP!Taken(up, h)[g]) :
         \E j \in 1..Len(up[g]) : MFTP!Taken(up, h)[g][i] = up[g][j]
  BY <1>1, MftpTakenOf
<1>4. ASSUME NEW g \in MFTP!Hops, NEW i \in 1..Len(up'[g]), up'[g][i].received
      PROVE  up'[g][i].id \in transDataIDs[g + 1]
  <2>1. PICK j \in 1..Len(up[g]) : up'[g][i] = up[g][j]
    BY <1>3
  <2> QED
    BY <1>4, <2>1 DEF MftpIInv, MftpConfirmsPassed
<1> QED
  BY <1>2, <1>4 DEF MftpConfirmsPassed

\* A CACK: the wait ends when it confirms the capsule, and goes on otherwise.
LEMMA MftpReceiveCACKInv ==
  ASSUME MftpIInv, NEW r \in MFTP!Routers, MFTP!ReceiveCACK(r)
  PROVE  MftpIInv'
<1> DEFINE m == Head(up[r])
<1>1. /\ r \in MFTP!Hops /\ up[r] # <<>> /\ up' = MFTP!Taken(up, r)
      /\ UNCHANGED <<transDataIDs, receivedDataIDs>>
      /\ \/ UNCHANGED <<csynStates, down>>
         \/ \E e \in MFTP!Entries(r, m.id) : MFTP!Answer(r, e, m.received)
  BY DEF MFTP!ReceiveCACK, MFTP!HasFaceDown
<1>2. /\ up \in [MFTP!Hops -> Seq(MftpSays)] /\ csynStates \in [MFTP!Routers -> SUBSET MftpWaits]
      /\ transDataIDs \in [MFTP!Routers -> SUBSET MFTP!DataIds]
      /\ receivedDataIDs \in [MFTP!Routers -> SUBSET MFTP!DataIds]
      /\ down \in [MFTP!Hops -> Seq(MftpAsks)]
  BY DEF MftpIInv, MftpTypes
<1>3. m \in MftpSays /\ m = up[r][1] /\ 1 \in 1..Len(up[r])
  BY <1>1, <1>2, LastAssumption, FirstTaken
<1>4. m.received => m.id \in transDataIDs[r + 1]
  BY <1>1, <1>3 DEF MftpIInv, MftpConfirmsPassed
<1>5. up' \in [MFTP!Hops -> Seq(MftpSays)] /\ MftpConfirmsPassed'
  BY <1>1, MftpFewerConfirms
<1> HIDE DEF m
<1>6. CASE UNCHANGED <<csynStates, down>>
  BY <1>1, <1>2, <1>5, <1>6 DEF MftpIInv, MftpTypes, MftpReceivedPassed, MftpSettled
<1>7. ASSUME NEW e \in MFTP!Entries(r, m.id), MFTP!Answer(r, e, m.received) PROVE MftpIInv'
  <2>1. e \in csynStates[r] /\ e \in MftpWaits /\ e.dataID = m.id /\ e.dataID \in MFTP!DataIds
    BY <1>2, <1>7 DEF MFTP!Entries, MftpWaits
  <2>2. CASE /\ m.received /\ csynStates' = [csynStates EXCEPT ![r] = @ \ {e}]
             /\ UNCHANGED down
    <3>1. /\ csynStates' \in [MFTP!Routers -> SUBSET MftpWaits]
          /\ \A s \in MFTP!Routers \ {r} : csynStates'[s] = csynStates[s]
          /\ \A f \in csynStates[r] : f.dataID # m.id => f \in csynStates'[r]
      BY <1>2, <2>1, <2>2
    <3>2. MftpSettled'
      <4> SUFFICES ASSUME NEW h \in MFTP!Hops, NEW d \in transDataIDs[h]
                   PROVE  (\E f \in csynStates'[h] : f.dataID = d) \/ d \in transDataIDs[h + 1]
        BY <1>1 DEF MftpSettled
      <4>1. (\E f \in csynStates[h] : f.dataID = d) \/ d \in transDataIDs[h + 1]
        BY DEF MftpIInv, MftpSettled
      <4>2. CASE h = r
        BY <1>4, <2>2, <3>1, <4>1, <4>2
      <4>3. CASE h # r
        BY <3>1, <4>1, <4>3, MftpHopsOfRouters
      <4> QED
        BY <4>2, <4>3
    <3> QED
      BY <1>1, <1>2, <1>5, <2>2, <3>1, <3>2 DEF MftpIInv, MftpTypes, MftpReceivedPassed
  <2>3. CASE /\ down' = MFTP!SendDown(down, r, <<MFTP!Data(e.dataID), MFTP!CSYN(e.dataID)>>)
             /\ csynStates' = [csynStates EXCEPT ![r] = (@ \ {e}) \cup {MFTP!Asked(e)}]
    <3>1. MFTP!Asked(e) \in MftpWaits /\ MFTP!Asked(e).dataID = e.dataID
      BY <2>1, MftpAskedType
    <3>2. /\ csynStates' \in [MFTP!Routers -> SUBSET MftpWaits]
          /\ MftpReceivedPassed' /\ MftpSettled'
      BY <1>1, <2>1, <2>3, <3>1, MftpWaitReplaced
    <3>3. down' \in [MFTP!Hops -> Seq(MftpAsks)]
      BY <1>2, <2>1, <2>3, MftpDataAndCSYN
    <3> QED
      BY <1>1, <1>2, <1>5, <3>2, <3>3 DEF MftpIInv, MftpTypes
  <2>4. CASE /\ csynStates' = [csynStates EXCEPT ![r] =
                                (@ \ {e}) \cup {[e EXCEPT !.timer = FALSE]}]
             /\ UNCHANGED down
    <3>1. [e EXCEPT !.timer = FALSE] \in MftpWaits /\ [e EXCEPT !.timer = FALSE].dataID = e.dataID
      BY <2>1 DEF MftpWaits
    <3>2. /\ csynStates' \in [MFTP!Routers -> SUBSET MftpWaits]
          /\ MftpReceivedPassed' /\ MftpSettled'
      BY <1>1, <2>1, <2>4, <3>1, MftpWaitReplaced
    <3> QED
      BY <1>1, <1>2, <1>5, <2>4, <3>2 DEF MftpIInv, MftpTypes
  <2> QED
    BY <1>7, <2>2, <2>3, <2>4 DEF MFTP!Answer
<1> QED
  BY <1>1, <1>6, <1>7

\* The timer: the CSYN is sent again, and the router waits on.
LEMMA MftpWaitingCACKInv ==
  ASSUME MftpIInv, NEW r \in MFTP!Routers, NEW e \in csynStates[r], MFTP!WaitingCACK(r, e)
  PROVE  MftpIInv'
<1>1. /\ down' = MFTP!SendDown(down, r, <<MFTP!CSYN(e.dataID)>>)
      /\ csynStates' = [csynStates EXCEPT ![r] = (@ \ {e}) \cup {MFTP!Asked(e)}]
      /\ UNCHANGED <<transDataIDs, receivedDataIDs, up>>
  BY DEF MFTP!WaitingCACK
<1>2. csynStates \in [MFTP!Routers -> SUBSET MftpWaits] /\ down \in [MFTP!Hops -> Seq(MftpAsks)]
  BY DEF MftpIInv, MftpTypes
<1>3. e \in MftpWaits /\ e.dataID \in MFTP!DataIds
  BY <1>2 DEF MftpWaits
<1>4. MFTP!Asked(e) \in MftpWaits /\ MFTP!Asked(e).dataID = e.dataID
  BY <1>3, MftpAskedType
<1>5. csynStates' \in [MFTP!Routers -> SUBSET MftpWaits] /\ MftpReceivedPassed' /\ MftpSettled'
  BY <1>1, <1>4, MftpWaitReplaced
<1>6. down' \in [MFTP!Hops -> Seq(MftpAsks)]
  BY <1>1, <1>2, <1>3, MftpDataAndCSYN
<1> QED
  BY <1>1, <1>5, <1>6 DEF MftpIInv, MftpTypes, MftpConfirmsPassed

\* A message lost on a hop.
LEMMA MftpLoseInv ==
  ASSUME MftpIInv, NEW h \in MFTP!Hops, MFTP!Lose(h)
  PROVE  MftpIInv'
<1>1. UNCHANGED <<transDataIDs, receivedDataIDs, csynStates>>
  BY DEF MFTP!Lose
<1>2. CASE down[h] # <<>> /\ down' = MFTP!Taken(down, h) /\ UNCHANGED up
  <2>1. down \in [MFTP!Hops -> Seq(MftpAsks)]
    BY DEF MftpIInv, MftpTypes
  <2>2. down' \in [MFTP!Hops -> Seq(MftpAsks)]
    BY <1>2, <2>1, MftpTakenOf
  <2> QED
    BY <1>1, <1>2, <2>2 DEF MftpIInv, MftpTypes, MftpReceivedPassed, MftpConfirmsPassed,
       MftpSettled
<1>3. CASE up[h] # <<>> /\ up' = MFTP!Taken(up, h) /\ UNCHANGED down
  <2>1. up' \in [MFTP!Hops -> Seq(MftpSays)] /\ MftpConfirmsPassed'
    BY <1>1, <1>3, MftpFewerConfirms
  <2> QED
    BY <1>1, <1>3, <2>1 DEF MftpIInv, MftpTypes, MftpReceivedPassed, MftpSettled
<1> QED
  BY <1>2, <1>3 DEF MFTP!Lose

\* The invariant is kept by every step.
LEMMA MftpNextInv == MftpIInv /\ [MFTP!Next]_MFTP!vars => MftpIInv'
<1> SUFFICES ASSUME MftpIInv, [MFTP!Next]_MFTP!vars PROVE MftpIInv'
  OBVIOUS
<1>1. CASE MFTP!Publish
  BY <1>1, MftpPublishInv
<1>2. ASSUME NEW r \in MFTP!Routers, MFTP!ReceiveData(r) PROVE MftpIInv'
  BY <1>2, MftpReceiveDataInv
<1>3. ASSUME NEW r \in MFTP!Routers, MFTP!ReceiveCSYN(r) PROVE MftpIInv'
  BY <1>3, MftpReceiveCSYNInv
<1>4. ASSUME NEW r \in MFTP!Routers, MFTP!ReceiveCACK(r) PROVE MftpIInv'
  BY <1>4, MftpReceiveCACKInv
<1>5. ASSUME NEW r \in MFTP!Routers, NEW e \in csynStates[r], MFTP!WaitingCACK(r, e)
      PROVE  MftpIInv'
  BY <1>5, MftpWaitingCACKInv
<1>6. ASSUME NEW h \in MFTP!Hops, MFTP!Lose(h) PROVE MftpIInv'
  BY <1>6, MftpLoseInv
<1>7. CASE UNCHANGED MFTP!vars
  BY <1>7 DEF MFTP!vars, MftpIInv, MftpTypes, MftpReceivedPassed, MftpConfirmsPassed, MftpSettled
<1> QED
  BY <1>1, <1>2, <1>3, <1>4, <1>5, <1>6, <1>7 DEF MFTP!Next

LEMMA MftpInvSettles == MftpIInv => MFTP!AckSettles
  BY DEF MftpIInv, MftpSettled, MFTP!AckSettles, MFTP!Entries

\* A router forgets a capsule it asked about only when the next router has passed it
\* on, however late and out of turn the CACK that says so comes (afterReceiveData and
\* waitingCACK in mftp-strategy.cpp).
THEOREM MftpQuestionsEndAnswered == MFTP!Spec => []MFTP!AckSettles
  BY MftpInvSettles, MftpInitInv, MftpNextInv, PTL DEF MFTP!Spec
-------------------------------------------------------------------------------
\* A wait without a timer has spent the budget.
MftpAsking ==
  \A r \in MFTP!Routers : \A e \in csynStates[r] : e.timer \/ e.times >= maxCSynTimes

\* One wait of a router replaced by another that keeps the rule.
LEMMA MftpAskingReplaced ==
  ASSUME MftpTypes, MftpAsking, NEW r \in MFTP!Routers, NEW e, NEW f,
         f.timer \/ f.times >= maxCSynTimes,
         csynStates' = [csynStates EXCEPT ![r] = (@ \ {e}) \cup {f}]
  PROVE  MftpAsking'
<1>1. \A s \in MFTP!Routers : csynStates'[s] \subseteq csynStates[s] \cup {f}
  BY DEF MftpTypes
<1> QED
  BY <1>1 DEF MftpAsking

\* Counting one more CSYN keeps the rule.
LEMMA MftpAskedAsking ==
  ASSUME maxCSynTimes \in Nat, NEW e \in MftpWaits
  PROVE  MFTP!Asked(e).timer \/ MFTP!Asked(e).times >= maxCSynTimes
<1>1. MFTP!Asked(e).timer = (e.times + 1 < maxCSynTimes) /\ MFTP!Asked(e).times = e.times + 1
  BY DEF MFTP!Asked, MftpWaits
<1>2. e.times + 1 \in Int
  BY DEF MftpWaits
<1>3. CASE e.times + 1 < maxCSynTimes
  BY <1>1, <1>3
<1>4. CASE ~ (e.times + 1 < maxCSynTimes)
  BY <1>1, <1>2, <1>4
<1> QED
  BY <1>3, <1>4

\* Every step keeps the rule.
LEMMA MftpNextAsking ==
  maxCSynTimes \in Nat /\ MftpIInv /\ MftpAsking /\ [MFTP!Next]_MFTP!vars => MftpAsking'
<1> SUFFICES ASSUME maxCSynTimes \in Nat, MftpIInv, MftpAsking, [MFTP!Next]_MFTP!vars
             PROVE  MftpAsking'
  OBVIOUS
<1>1. MftpTypes /\ csynStates \in [MFTP!Routers -> SUBSET MftpWaits]
  BY DEF MftpIInv, MftpTypes
<1>2. ASSUME NEW r \in MFTP!Routers, NEW d, NEW pending, MFTP!HandleData(r, d, pending)
      PROVE  MftpAsking'
  <2>1. CASE UNCHANGED csynStates
    BY <2>1 DEF MftpAsking
  <2>2. CASE csynStates' = [csynStates EXCEPT ![r] =
                              @ \cup {[dataID |-> d, times |-> 1, timer |-> TRUE]}]
    <3>1. \A s \in MFTP!Routers : csynStates'[s] \subseteq
             csynStates[s] \cup {[dataID |-> d, times |-> 1, timer |-> TRUE]}
      BY <1>1, <2>2
    <3> QED
      BY <3>1 DEF MftpAsking
  <2> QED
    BY <1>2, <2>1, <2>2 DEF MFTP!HandleData
<1>3. CASE MFTP!Publish
  BY <1>2, <1>3, MftpHopsOfRouters DEF MFTP!Publish
<1>4. ASSUME NEW r \in MFTP!Routers, MFTP!ReceiveData(r) PROVE MftpAsking'
  BY <1>2, <1>4 DEF MFTP!ReceiveData
<1>5. ASSUME NEW r \in MFTP!Routers, MFTP!ReceiveCACK(r) PROVE MftpAsking'
  <2> DEFINE m == Head(up[r])
  <2>1. CASE UNCHANGED csynStates
    BY <2>1 DEF MftpAsking
  <2>2. ASSUME NEW e \in MFTP!Entries(r, m.id), MFTP!Answer(r, e, m.received) PROVE MftpAsking'
    <3>1. e \in MftpWaits
      BY <1>1, <2>2 DEF MFTP!Entries
    <3>2. CASE csynStates' = [csynStates EXCEPT ![r] = @ \ {e}]
      <4>1. \A s \in MFTP!Routers : csynStates'[s] \subseteq csynStates[s]
        BY <1>1, <3>2
      <4> QED
        BY <4>1 DEF MftpAsking
    <3>3. CASE csynStates' = [csynStates EXCEPT ![r] = (@ \ {e}) \cup {MFTP!Asked(e)}]
      BY <1>1, <3>1, <3>3, MftpAskedAsking, MftpAskingReplaced
    <3>4. CASE /\ e.times >= maxCSynTimes
                /\ csynStates' = [csynStates EXCEPT ![r] =
                                  (@ \ {e}) \cup {[e EXCEPT !.timer = FALSE]}]
      <4>1. [e EXCEPT !.timer = FALSE].times = e.times
        BY <3>1 DEF MftpWaits
      <4> QED
        BY <1>1, <3>4, <4>1, MftpAskingReplaced
    <3> QED
      BY <2>2, <3>2, <3>3, <3>4 DEF MFTP!Answer
  <2> QED
    BY <1>5, <2>1, <2>2 DEF MFTP!ReceiveCACK
<1>6. ASSUME NEW r \in MFTP!Routers, NEW e \in csynStates[r], MFTP!WaitingCACK(r, e)
      PROVE  MftpAsking'
  <2>1. e \in MftpWaits
    BY <1>1
  <2> QED
    BY <1>1, <1>6, <2>1, MftpAskedAsking, MftpAskingReplaced DEF MFTP!WaitingCACK
<1>7. ASSUME NEW r \in MFTP!Routers, MFTP!ReceiveCSYN(r) PROVE UNCHANGED csynStates
  BY <1>7 DEF MFTP!ReceiveCSYN
<1>8. ASSUME NEW h \in MFTP!Hops, MFTP!Lose(h) PROVE UNCHANGED csynStates
  BY <1>8 DEF MFTP!Lose
<1>9. CASE UNCHANGED csynStates
  BY <1>9 DEF MftpAsking
<1> QED
  BY <1>3, <1>4, <1>5, <1>6, <1>7, <1>8, <1>9 DEF MFTP!Next, MFTP!vars

\* A hop stops asking for a capsule the next router lacks only when maxCSynTimes CSYNs
\* were sent (es->times against routes->maxCSynTimes in mftp-strategy.cpp).
LEMMA MftpAskingSpent == MftpIInv /\ MftpAsking => MFTP!GivesUpSpent
<1> SUFFICES ASSUME MftpIInv, MftpAsking, NEW h \in MFTP!Hops,
                    NEW d \in transDataIDs[h] \ transDataIDs[h + 1]
             PROVE  \E e \in MFTP!Entries(h, d) : e.timer \/ e.times >= maxCSynTimes
  BY DEF MFTP!GivesUpSpent
<1>1. PICK e \in csynStates[h] : e.dataID = d
  BY DEF MftpIInv, MftpSettled
<1>2. e.timer \/ e.times >= maxCSynTimes
  BY MftpHopsOfRouters DEF MftpAsking
<1> QED
  BY <1>1, <1>2 DEF MFTP!Entries

LEMMA MftpInitAsking == MFTP!Init => MftpAsking
  BY DEF MFTP!Init, MftpAsking

THEOREM MftpGivesUpWhenSpent == maxCSynTimes \in Nat => (MFTP!Spec => []MFTP!GivesUpSpent)
<1> SUFFICES ASSUME maxCSynTimes \in Nat PROVE MFTP!Spec => []MFTP!GivesUpSpent
  OBVIOUS
<1>2. MftpIInv /\ MftpAsking /\ [MFTP!Next]_MFTP!vars => MftpAsking'
  BY MftpNextAsking
<1> QED
  BY <1>2, MftpAskingSpent, MftpInitAsking, MftpInitInv, MftpNextInv, PTL DEF MFTP!Spec
-------------------------------------------------------------------------------
\* What the subscriber was handed: capsules the last router passed on, each once.
MftpServed ==
  /\ app \in Seq(MFTP!DataIds)
  /\ \A i \in 1..Len(app) : app[i] \in transDataIDs[Last]
  /\ \A i, j \in 1..Len(app) : app[i] = app[j] => i = j

\* Data at a router: the last one hands it on when it did not know it.
LEMMA MftpHandleDataServes ==
  ASSUME transDataIDs \in [MFTP!Routers -> SUBSET MFTP!DataIds], MftpServed,
         NEW r \in MFTP!Routers, NEW d \in MFTP!DataIds, NEW pending,
         MFTP!HandleData(r, d, pending)
  PROVE  MftpServed'
<1>1. Last \in MFTP!Routers
  BY LastAssumption DEF MFTP!Routers
<1>2. CASE UNCHANGED <<transDataIDs, app>>
  BY <1>2 DEF MftpServed
<1>3. CASE transDataIDs' = [transDataIDs EXCEPT ![r] = @ \cup {d}] /\ UNCHANGED app
  <2>1. \A s \in MFTP!Routers : transDataIDs[s] \subseteq transDataIDs'[s]
    BY <1>3
  <2> QED
    BY <1>1, <1>3, <2>1 DEF MftpServed
<1>4. CASE /\ d \notin transDataIDs[r] /\ ~MFTP!HasFaceDown(r)
           /\ transDataIDs' = [transDataIDs EXCEPT ![r] = @ \cup {d}]
           /\ app' = Append(app, d)
  <2>1. /\ \A s \in MFTP!Routers : transDataIDs[s] \subseteq transDataIDs'[s]
        /\ d \in transDataIDs'[r]
    BY <1>4
  <2>2. r = Last
    BY <1>4, LastAssumption DEF MFTP!HasFaceDown, MFTP!Routers, MFTP!Hops
  <2>3. \A i \in 1..Len(app) : app[i] # d
    BY <1>4, <2>2 DEF MftpServed
  <2>4. /\ app' \in Seq(MFTP!DataIds)
        /\ \A i \in 1..Len(app') : app'[i] = d \/ \E j \in 1..Len(app) : app'[i] = app[j]
        /\ \A i, j \in 1..Len(app') : app'[i] = app'[j] => i = j
    BY <1>4, <2>3, LastAssumption, AppendOnce DEF MftpServed
  <2> QED
    BY <1>1, <2>1, <2>2, <2>4 DEF MftpServed
<1> QED
  BY <1>2, <1>3, <1>4 DEF MFTP!HandleData

\* Every step keeps it so.
LEMMA MftpNextServes == MftpIInv /\ MftpServed /\ [MFTP!Next]_MFTP!vars => MftpServed'
<1> SUFFICES ASSUME MftpIInv, MftpServed, [MFTP!Next]_MFTP!vars PROVE MftpServed'
  OBVIOUS
<1>1. transDataIDs \in [MFTP!Routers -> SUBSET MFTP!DataIds]
  BY DEF MftpIInv, MftpTypes
<1>2. CASE MFTP!Publish
  BY <1>1, <1>2, MftpHopsOfRouters, MftpHandleDataServes DEF MFTP!Publish
<1>3. ASSUME NEW r \in MFTP!Routers, MFTP!ReceiveData(r) PROVE MftpServed'
  <2>1. /\ MFTP!IsNext(r, "Data")
        /\ MFTP!HandleData(r, Head(down[r - 1]).id, MFTP!Taken(down, r - 1))
    BY <1>3 DEF MFTP!ReceiveData
  <2>2. Head(down[r - 1]).id \in MFTP!DataIds
    BY <2>1, MftpFirstAsked
  <2> QED
    BY <1>1, <2>1, <2>2, MftpHandleDataServes
<1>4. CASE UNCHANGED <<transDataIDs, app>>
  BY <1>4 DEF MftpServed
<1>5. ASSUME NEW r \in MFTP!Routers,
             \/ MFTP!ReceiveCSYN(r) \/ MFTP!ReceiveCACK(r)
             \/ \E e \in csynStates[r] : MFTP!WaitingCACK(r, e)
      PROVE  UNCHANGED <<transDataIDs, app>>
  BY <1>5 DEF MFTP!ReceiveCSYN, MFTP!ReceiveCACK, MFTP!WaitingCACK
<1>6. ASSUME NEW h \in MFTP!Hops, MFTP!Lose(h) PROVE UNCHANGED <<transDataIDs, app>>
  BY <1>6 DEF MFTP!Lose
<1>7. UNCHANGED MFTP!vars => UNCHANGED <<transDataIDs, app>>
  BY DEF MFTP!vars
<1> QED
  BY <1>2, <1>3, <1>4, <1>5, <1>6, <1>7 DEF MFTP!Next

LEMMA MftpInitServes == MFTP!Init => MftpServed
  BY DEF MFTP!Init, MftpServed

\* The subscriber gets no capsule twice, however often it is sent again
\* (transDataIDs in mftp-strategy.cpp).
THEOREM MftpDeliversOnce == MFTP!Spec => []MFTP!DeliveredOnce
<1>1. MftpServed => MFTP!DeliveredOnce
  BY DEF MftpServed, MFTP!DeliveredOnce
<1> QED
  BY <1>1, MftpInitServes, MftpNextServes, MftpInitInv, MftpNextInv, PTL DEF MFTP!Spec
-------------------------------------------------------------------------------
(* SDATP. *)

\* The chain of SDATP is that of HopLinks.
LEMMA SdatpLinks ==
  /\ SDATP!Routers = R2T!Routers /\ SDATP!Hops = R2T!Hops
  /\ \A r : SDATP!HasFaceUp(r) = R2T!HasFaceUp(r)
  /\ \A q, h : SDATP!Taken(q, h) = R2T!Taken(q, h)
BY DEF SDATP!Routers, R2T!Routers, SDATP!Hops, R2T!Hops, SDATP!HasFaceUp, R2T!HasFaceUp,
       SDATP!Taken, R2T!Taken

\* See HopsOfRouters, TakenOf above.
LEMMA SdatpHopsOfRouters ==
  /\ \A h \in SDATP!Hops : /\ h \in Int /\ h \in SDATP!Routers /\ h + 1 \in SDATP!Routers
                         /\ h + 1 # h /\ h + 1 - 1 = h
  /\ 1 \in SDATP!Routers /\ ~ SDATP!HasFaceUp(1)
BY LastAssumption, HopsOfRouters, SdatpLinks

LEMMA SdatpTakenOf ==
  ASSUME NEW S, NEW q \in [SDATP!Hops -> Seq(S)], NEW h \in SDATP!Hops, q[h] # <<>>
  PROVE  /\ SDATP!Taken(q, h) \in [SDATP!Hops -> Seq(S)]
         /\ SDATP!Taken(q, h)[h] = Tail(q[h])
         /\ \A g \in SDATP!Hops \ {h} : SDATP!Taken(q, h)[g] = q[g]
         /\ \A g \in SDATP!Hops : \A i \in 1..Len(SDATP!Taken(q, h)[g]) :
               \E j \in 1..Len(q[g]) : SDATP!Taken(q, h)[g][i] = q[g][j]
<1>1. q \in [R2T!Hops -> Seq(S)] /\ h \in R2T!Hops
  BY SdatpLinks
<1>2. SDATP!Taken(q, h) = R2T!Taken(q, h) /\ SDATP!Hops = R2T!Hops
  BY SdatpLinks
<1>3. R2T!Taken(q, h) \in [R2T!Hops -> Seq(S)]
  BY <1>1, LastAssumption, TakenOf
<1>4. R2T!Taken(q, h)[h] = Tail(q[h])
  BY <1>1, LastAssumption, TakenOf
<1>5. \A g \in R2T!Hops \ {h} : R2T!Taken(q, h)[g] = q[g]
  BY <1>1, LastAssumption, TakenOf
<1>6. \A g \in R2T!Hops : \A i \in 1..Len(R2T!Taken(q, h)[g]) :
         \E j \in 1..Len(q[g]) : R2T!Taken(q, h)[g][i] = q[g][j]
  BY <1>1, LastAssumption, TakenOf
<1>7. \A g \in SDATP!Hops : \A i \in 1..Len(SDATP!Taken(q, h)[g]) :
         \E j \in 1..Len(q[g]) : SDATP!Taken(q, h)[g][i] = q[g][j]
  BY <1>2, <1>6
<1> QED
  BY <1>2, <1>3, <1>4, <1>5, <1>7

SdatpUids    == Int \X Int
SdatpEntries == [uid : SdatpUids, times : Int, timer : BOOLEAN]
SdatpDowns   == [type : {"Data"}, id : SDATP!DataIds]
                  \cup [type : {"RD"}, uid : SdatpUids, id : SDATP!DataIds]
SdatpUps     == [uid : SdatpUids, id : Int]

SdatpTypes ==
  /\ transDataIDs \in [SDATP!Routers -> SUBSET SDATP!DataIds]
  /\ receivedDataIDs \in [SDATP!Routers -> SUBSET SDATP!DataIds]
  /\ recentDataID \in [SDATP!Routers -> SDATP!DataIds \cup {-1}]
  /\ retranStates \in [SDATP!Routers -> SUBSET SdatpEntries]
  /\ cs \in [SDATP!Routers -> SUBSET SDATP!DataIds]
  /\ asked \in [SDATP!Routers -> SUBSET Int]
  /\ down \in [SDATP!Hops -> Seq(SdatpDowns)]
  /\ up \in [SDATP!Hops -> Seq(SdatpUps)]

\* The capsule gaps are counted from is one the router received, and all it received
\* was passed on.
SdatpRecentReceived ==
  \A r \in SDATP!Routers :
    /\ recentDataID[r] = -1 \/ recentDataID[r] \in receivedDataIDs[r]
    /\ receivedDataIDs[r] \subseteq transDataIDs[r]

\* GapsAsked at every router: repairs overtaken by newer capsules move recentDataID
\* back, so that the capsules below all that was received must be covered.
SdatpCovered(r, c) == \A d \in SDATP!DataIds : d < c => d \in transDataIDs[r] \cup asked[r]
SdatpNoneOverlooked == \A r \in SDATP!Routers : \A c \in receivedDataIDs[r] : SdatpCovered(r, c)

SdatpIInv == SdatpTypes /\ SdatpRecentReceived /\ SdatpNoneOverlooked

\* Nothing has been received.
LEMMA SdatpInitInv == SDATP!Init => SdatpIInv
<1> SUFFICES ASSUME SDATP!Init PROVE SdatpIInv
  OBVIOUS
<1>1. SdatpTypes
  BY DEF SDATP!Init, SdatpTypes, SDATP!NoMessages
<1>2. SdatpRecentReceived /\ SdatpNoneOverlooked
  BY DEF SDATP!Init, SdatpRecentReceived, SdatpNoneOverlooked
<1> QED
  BY <1>1, <1>2 DEF SdatpIInv

\* The messages and entries of the handlers.
LEMMA SdatpMessageTypes ==
  /\ \A d \in SDATP!DataIds : SDATP!Data(d) \in SdatpDowns
  /\ \A u \in SdatpUids, d \in SDATP!DataIds : SDATP!RD(u, d) \in SdatpDowns
  /\ \A u \in SdatpUids, d \in Int : SDATP!RR(u, d) \in SdatpUps
<1>1. \A d \in SDATP!DataIds : SDATP!Data(d) \in [type : {"Data"}, id : SDATP!DataIds]
  BY DEF SDATP!Data
<1>2. \A u \in SdatpUids, d \in SDATP!DataIds :
         SDATP!RD(u, d) \in [type : {"RD"}, uid : SdatpUids, id : SDATP!DataIds]
  BY DEF SDATP!RD
<1> QED
  BY <1>1, <1>2 DEF SdatpDowns, SdatpUps, SDATP!RR

\* A function from the first numbers is a sequence.
LEMMA SdatpFunctionIsSeq ==
  ASSUME NEW S, NEW n \in Nat, NEW f \in [1..n -> S]
  PROVE  f \in Seq(S)
<1>1. Seq(S) = UNION {[1..k -> S] : k \in Nat}
  BY SeqDef
<1> QED
  BY <1>1

\* The requests for a gap are requests.
LEMMA SdatpGapRequests ==
  ASSUME NEW low \in Int, NEW d \in Int
  PROVE  SDATP!RRsFor(low..(d - 1), d) \in Seq(SdatpUps)
<1> DEFINE gap == low..(d - 1)
           first == CHOOSE s \in gap : \A t \in gap : s <= t
           n == IF gap = {} THEN 0 ELSE d - first
<1>1. CASE gap = {}
  <2>1. SDATP!RRsFor(gap, d) = [i \in 1..0 |-> SDATP!RR(<<first + i - 1, d>>, first + i - 1)]
    BY <1>1 DEF SDATP!RRsFor
  <2>2. [i \in 1..0 |-> SDATP!RR(<<first + i - 1, d>>, first + i - 1)] \in [1..0 -> SdatpUps]
    OBVIOUS
  <2> QED
    BY <2>1, <2>2, SdatpFunctionIsSeq
<1>2. CASE gap # {}
  <2>1. low \in gap /\ \A t \in gap : low <= t
    BY <1>2
  <2>2. first \in gap
    BY <2>1
  <2>3. first \in Int /\ d - first \in Nat
    BY <2>2
  <2>4. SDATP!RRsFor(gap, d) =
          [i \in 1..(d - first) |-> SDATP!RR(<<first + i - 1, d>>, first + i - 1)]
    BY <1>2 DEF SDATP!RRsFor
  <2> HIDE DEF first
  <2>5. \A i \in 1..(d - first) : SDATP!RR(<<first + i - 1, d>>, first + i - 1) \in SdatpUps
    <3> SUFFICES ASSUME NEW i \in 1..(d - first)
                 PROVE  SDATP!RR(<<first + i - 1, d>>, first + i - 1) \in SdatpUps
      OBVIOUS
    <3>1. first + i - 1 \in Int
      BY <2>3
    <3>2. <<first + i - 1, d>> \in SdatpUids
      BY <3>1 DEF SdatpUids
    <3> QED
      BY <3>1, <3>2, SdatpMessageTypes
  <2>6. SDATP!RRsFor(gap, d) \in [1..(d - first) -> SdatpUps]
    BY <2>4, <2>5
  <2> QED
    BY <2>3, <2>6, SdatpFunctionIsSeq
<1> QED
  BY <1>1, <1>2

\* Some messages put behind the others.
LEMMA SdatpSentTypes ==
  ASSUME NEW S, NEW q \in [SDATP!Hops -> Seq(S)], NEW r \in SDATP!Routers, NEW msgs \in Seq(S)
  PROVE  /\ SDATP!SendDown(q, r, msgs) \in [SDATP!Hops -> Seq(S)]
         /\ SDATP!SendUp(q, r, msgs) \in [SDATP!Hops -> Seq(S)]
<1>1. \A h \in SDATP!Hops : q[h] \o msgs \in Seq(S)
  OBVIOUS
<1> QED
  BY <1>1 DEF SDATP!SendDown, SDATP!SendUp

\* Whatever entry goes, the others stay.
LEMMA SdatpLeftTypes ==
  ASSUME NEW entries \in SUBSET SdatpEntries, NEW d, NEW left \in SDATP!WithoutOneFor(entries, d)
  PROVE  left \in SUBSET SdatpEntries
BY DEF SDATP!WithoutOneFor

\* Data: all below it is behind the last capsule received, or in the gap asked for.
LEMMA SdatpHandleDataInv ==
  ASSUME SdatpIInv, NEW r \in SDATP!Routers, NEW d \in SDATP!DataIds,
         NEW pending \in [SDATP!Hops -> Seq(SdatpDowns)], SDATP!HandleData(r, d, pending)
  PROVE  SdatpIInv'
<1>1. /\ transDataIDs \in [SDATP!Routers -> SUBSET SDATP!DataIds]
      /\ receivedDataIDs \in [SDATP!Routers -> SUBSET SDATP!DataIds]
      /\ recentDataID \in [SDATP!Routers -> SDATP!DataIds \cup {-1}]
      /\ retranStates \in [SDATP!Routers -> SUBSET SdatpEntries]
      /\ cs \in [SDATP!Routers -> SUBSET SDATP!DataIds]
      /\ asked \in [SDATP!Routers -> SUBSET Int]
      /\ up \in [SDATP!Hops -> Seq(SdatpUps)]
  BY DEF SdatpIInv, SdatpTypes
<1>2. cs' \in [SDATP!Routers -> SUBSET SDATP!DataIds]
  BY <1>1 DEF SDATP!HandleData
<1>3. CASE /\ down' = pending
           /\ UNCHANGED <<transDataIDs, receivedDataIDs, recentDataID, retranStates, up, asked>>
  BY <1>1, <1>2, <1>3 DEF SdatpIInv, SdatpTypes, SdatpRecentReceived, SdatpNoneOverlooked,
     SdatpCovered
<1>4. CASE /\ \E left \in SDATP!WithoutOneFor(retranStates[r], d) :
                 retranStates' = [retranStates EXCEPT ![r] = left]
           /\ transDataIDs' = [transDataIDs EXCEPT ![r] = @ \cup {d}]
           /\ down' = pending
           /\ UNCHANGED <<receivedDataIDs, recentDataID, up, asked>>
  <2>1. /\ transDataIDs' \in [SDATP!Routers -> SUBSET SDATP!DataIds]
        /\ \A s \in SDATP!Routers : transDataIDs[s] \subseteq transDataIDs'[s]
    BY <1>1, <1>4
  <2>2. retranStates' \in [SDATP!Routers -> SUBSET SdatpEntries]
    BY <1>1, <1>4, SdatpLeftTypes
  <2>3. SdatpRecentReceived'
    BY <1>4, <2>1 DEF SdatpIInv, SdatpRecentReceived
  <2>4. SdatpNoneOverlooked'
    BY <1>4, <2>1 DEF SdatpIInv, SdatpNoneOverlooked, SdatpCovered
  <2> QED
    BY <1>1, <1>2, <1>4, <2>1, <2>2, <2>3, <2>4 DEF SdatpIInv, SdatpTypes
<1>5. CASE /\ down' = SDATP!SendDown(pending, r, <<SDATP!Data(d)>>)
           /\ transDataIDs' = [transDataIDs EXCEPT ![r] = @ \cup {d}]
           /\ receivedDataIDs' = [receivedDataIDs EXCEPT ![r] = @ \cup {d}]
           /\ up' = SDATP!SendUp(up, r, SDATP!RRsFor(SDATP!Gap(r, d), d))
           /\ asked' = [asked EXCEPT ![r] = @ \cup SDATP!Gap(r, d)]
           /\ \E left \in SDATP!WithoutOneFor(retranStates[r], d) :
                 retranStates' = [retranStates EXCEPT ![r] =
                    left \cup {SDATP!Entry(s, d) : s \in SDATP!Gap(r, d)}
                         \cup {SDATP!Entry(d + 1, d)}]
           /\ recentDataID' = [recentDataID EXCEPT ![r] = d]
  <2>1. /\ transDataIDs' \in [SDATP!Routers -> SUBSET SDATP!DataIds]
        /\ transDataIDs'[r] = transDataIDs[r] \cup {d}
        /\ \A s \in SDATP!Routers : transDataIDs[s] \subseteq transDataIDs'[s]
    BY <1>1, <1>5
  <2>2. /\ receivedDataIDs' \in [SDATP!Routers -> SUBSET SDATP!DataIds]
        /\ receivedDataIDs'[r] = receivedDataIDs[r] \cup {d}
        /\ \A s \in SDATP!Routers \ {r} : receivedDataIDs'[s] = receivedDataIDs[s]
    BY <1>1, <1>5
  <2>3. /\ recentDataID' \in [SDATP!Routers -> SDATP!DataIds \cup {-1}]
        /\ recentDataID'[r] = d
        /\ \A s \in SDATP!Routers \ {r} : recentDataID'[s] = recentDataID[s]
    BY <1>1, <1>5
  <2>4. d \in Int /\ recentDataID[r] \in Int /\ SDATP!Gap(r, d) \subseteq Int
    BY <1>1 DEF SDATP!DataIds, SDATP!Gap
  <2>5. /\ asked' \in [SDATP!Routers -> SUBSET Int]
        /\ asked'[r] = asked[r] \cup SDATP!Gap(r, d)
        /\ \A s \in SDATP!Routers : asked[s] \subseteq asked'[s]
    BY <1>1, <1>5, <2>4
  <2>6. down' \in [SDATP!Hops -> Seq(SdatpDowns)]
    <3>1. <<SDATP!Data(d)>> \in Seq(SdatpDowns)
      BY SdatpMessageTypes
    <3> QED
      BY <1>5, <3>1, SdatpSentTypes
  <2>7. up' \in [SDATP!Hops -> Seq(SdatpUps)]
    <3>1. SDATP!RRsFor(SDATP!Gap(r, d), d) \in Seq(SdatpUps)
      <4>1. SDATP!Gap(r, d) = (recentDataID[r] + 1)..(d - 1) /\ recentDataID[r] + 1 \in Int
        BY <2>4 DEF SDATP!Gap
      <4> QED
        BY <2>4, <4>1, SdatpGapRequests
    <3> QED
      BY <1>1, <1>5, <3>1, SdatpSentTypes
  <2>8. retranStates' \in [SDATP!Routers -> SUBSET SdatpEntries]
    <3>1. \A s \in Int : SDATP!Entry(s, d) \in SdatpEntries
      BY <2>4 DEF SDATP!Entry, SdatpEntries, SdatpUids
    <3>2. PICK left \in SDATP!WithoutOneFor(retranStates[r], d) :
             retranStates' = [retranStates EXCEPT ![r] =
                left \cup {SDATP!Entry(s, d) : s \in SDATP!Gap(r, d)}
                     \cup {SDATP!Entry(d + 1, d)}]
      BY <1>5
    <3>3. left \in SUBSET SdatpEntries
      BY <1>1, SdatpLeftTypes
    <3>4. {SDATP!Entry(s, d) : s \in SDATP!Gap(r, d)} \cup {SDATP!Entry(d + 1, d)}
            \subseteq SdatpEntries
      BY <2>4, <3>1
    <3> QED
      BY <1>1, <3>2, <3>3, <3>4
  <2>9. SdatpRecentReceived'
    BY <2>1, <2>2, <2>3 DEF SdatpIInv, SdatpRecentReceived
  <2>10. ASSUME NEW x \in SDATP!DataIds, x < d PROVE x \in transDataIDs'[r] \cup asked'[r]
    <3>1. x \in Int
      BY DEF SDATP!DataIds
    <3>2. CASE recentDataID[r] < x
      <4>1. x \in SDATP!Gap(r, d)
        BY <2>4, <2>10, <3>1, <3>2 DEF SDATP!Gap
      <4> QED
        BY <2>5, <4>1
    <3>3. CASE ~ (recentDataID[r] < x)
      <4>1. recentDataID[r] \in receivedDataIDs[r]
        BY <3>3 DEF SdatpIInv, SdatpRecentReceived, SDATP!DataIds
      <4>2. x = recentDataID[r] \/ x < recentDataID[r]
        BY <2>4, <3>1, <3>3
      <4>3. x \in transDataIDs[r] \cup asked[r]
        BY <4>1, <4>2 DEF SdatpIInv, SdatpRecentReceived, SdatpNoneOverlooked, SdatpCovered
      <4> QED
        BY <2>1, <2>5, <4>3
    <3> QED
      BY <3>2, <3>3
  <2>11. SdatpNoneOverlooked'
    <3> SUFFICES ASSUME NEW s \in SDATP!Routers, NEW c \in receivedDataIDs'[s],
                        NEW x \in SDATP!DataIds, x < c
                 PROVE  x \in transDataIDs'[s] \cup asked'[s]
      BY DEF SdatpNoneOverlooked, SdatpCovered
    <3>1. CASE c \in receivedDataIDs[s]
      BY <2>1, <2>5, <3>1 DEF SdatpIInv, SdatpNoneOverlooked, SdatpCovered
    <3>2. CASE c \notin receivedDataIDs[s]
      BY <2>2, <2>10, <3>2
    <3> QED
      BY <3>1, <3>2
  <2> QED
    BY <1>2, <2>1, <2>2, <2>3, <2>5, <2>6, <2>7, <2>8, <2>9, <2>11 DEF SdatpIInv, SdatpTypes
<1> QED
  BY <1>3, <1>4, <1>5 DEF SDATP!HandleData

\* The publisher's Data.
LEMMA SdatpPublishInv == SdatpIInv /\ SDATP!Publish => SdatpIInv'
<1> SUFFICES ASSUME SdatpIInv, SDATP!Publish PROVE SdatpIInv'
  OBVIOUS
<1>1. next \in SDATP!DataIds /\ SDATP!HandleData(1, next, down)
  BY DEF SDATP!Publish
<1>2. down \in [SDATP!Hops -> Seq(SdatpDowns)]
  BY DEF SdatpIInv, SdatpTypes
<1> QED
  BY <1>1, <1>2, SdatpHopsOfRouters, SdatpHandleDataInv

\* The first message from the router before.
LEMMA SdatpFirstDown ==
  ASSUME SdatpIInv, NEW r \in SDATP!Routers, NEW type, SDATP!IsNext(r, type)
  PROVE  /\ Head(down[r - 1]) \in SdatpDowns
         /\ Head(down[r - 1]).type = type
         /\ Head(down[r - 1]).id \in SDATP!DataIds
         /\ SDATP!Taken(down, r - 1) \in [SDATP!Hops -> Seq(SdatpDowns)]
<1>1. r - 1 \in SDATP!Hops /\ down[r - 1] # <<>> /\ Head(down[r - 1]).type = type
  BY DEF SDATP!IsNext, SDATP!HasFaceUp
<1>2. down \in [SDATP!Hops -> Seq(SdatpDowns)]
  BY DEF SdatpIInv, SdatpTypes
<1>3. Head(down[r - 1]) \in SdatpDowns
  BY <1>1, <1>2, LastAssumption, FirstTaken
<1>4. SDATP!Taken(down, r - 1) \in [SDATP!Hops -> Seq(SdatpDowns)]
  BY <1>1, <1>2, SdatpTakenOf
<1> QED
  BY <1>1, <1>3, <1>4 DEF SdatpDowns

\* Data of the router before.
LEMMA SdatpReceiveDataInv ==
  ASSUME SdatpIInv, NEW r \in SDATP!Routers, SDATP!ReceiveData(r)
  PROVE  SdatpIInv'
<1>1. /\ SDATP!IsNext(r, "Data")
      /\ SDATP!HandleData(r, Head(down[r - 1]).id, SDATP!Taken(down, r - 1))
  BY DEF SDATP!ReceiveData
<1>2. /\ Head(down[r - 1]).id \in SDATP!DataIds
      /\ SDATP!Taken(down, r - 1) \in [SDATP!Hops -> Seq(SdatpDowns)]
  BY <1>1, SdatpFirstDown
<1> QED
  BY <1>1, <1>2, SdatpHandleDataInv

\* A repair: it is passed on, and moves no gap.
LEMMA SdatpReceiveRDInv ==
  ASSUME SdatpIInv, NEW r \in SDATP!Routers, SDATP!ReceiveRD(r)
  PROVE  SdatpIInv'
<1> DEFINE m == Head(down[r - 1])
           rest == SDATP!Taken(down, r - 1)
<1>1. /\ SDATP!IsNext(r, "RD")
      /\ retranStates' = [retranStates EXCEPT ![r] = {e \in @ : e.uid # m.uid}]
      /\ \/ down' = rest /\ transDataIDs' = transDataIDs
         \/ /\ transDataIDs' = [transDataIDs EXCEPT ![r] = @ \cup {m.id}]
            /\ down' = SDATP!SendDown(rest, r, <<SDATP!Data(m.id)>>)
      /\ UNCHANGED <<receivedDataIDs, recentDataID, cs, up, asked>>
  BY DEF SDATP!ReceiveRD
<1>2. m.id \in SDATP!DataIds /\ rest \in [SDATP!Hops -> Seq(SdatpDowns)]
  BY <1>1, SdatpFirstDown
<1>3. /\ transDataIDs \in [SDATP!Routers -> SUBSET SDATP!DataIds]
      /\ retranStates \in [SDATP!Routers -> SUBSET SdatpEntries]
  BY DEF SdatpIInv, SdatpTypes
<1> HIDE DEF m, rest
<1>4. /\ transDataIDs' \in [SDATP!Routers -> SUBSET SDATP!DataIds]
      /\ \A s \in SDATP!Routers : transDataIDs[s] \subseteq transDataIDs'[s]
  BY <1>1, <1>2, <1>3
<1>5. down' \in [SDATP!Hops -> Seq(SdatpDowns)]
  <2>1. <<SDATP!Data(m.id)>> \in Seq(SdatpDowns)
    BY <1>2, SdatpMessageTypes
  <2>2. SDATP!SendDown(rest, r, <<SDATP!Data(m.id)>>) \in [SDATP!Hops -> Seq(SdatpDowns)]
    BY <1>2, <2>1, SdatpSentTypes
  <2> QED
    BY <1>1, <1>2, <2>2
<1>6. retranStates' \in [SDATP!Routers -> SUBSET SdatpEntries]
  BY <1>1, <1>3
<1>7. SdatpRecentReceived'
  BY <1>1, <1>4 DEF SdatpIInv, SdatpRecentReceived
<1>8. SdatpNoneOverlooked'
  BY <1>1, <1>4 DEF SdatpIInv, SdatpNoneOverlooked, SdatpCovered
<1> QED
  BY <1>1, <1>4, <1>5, <1>6, <1>7, <1>8 DEF SdatpIInv, SdatpTypes

\* Steps that only send, take or lose messages and count requests.
LEMMA SdatpOnlyMessages ==
  ASSUME SdatpIInv,
         UNCHANGED <<transDataIDs, receivedDataIDs, recentDataID, cs, asked>>,
         retranStates' \in [SDATP!Routers -> SUBSET SdatpEntries],
         down' \in [SDATP!Hops -> Seq(SdatpDowns)], up' \in [SDATP!Hops -> Seq(SdatpUps)]
  PROVE  SdatpIInv'
BY DEF SdatpIInv, SdatpTypes, SdatpRecentReceived, SdatpNoneOverlooked, SdatpCovered

\* A request: answered from the content store, or missed.
LEMMA SdatpReceiveRRInv ==
  ASSUME SdatpIInv, NEW r \in SDATP!Routers, SDATP!ReceiveRR(r)
  PROVE  SdatpIInv'
<1> DEFINE m == Head(up[r])
<1>1. /\ r \in SDATP!Hops /\ up[r] # <<>> /\ up' = SDATP!Taken(up, r)
      /\ down' = IF m.id \in cs[r] THEN SDATP!SendDown(down, r, <<SDATP!RD(m.uid, m.id)>>)
                 ELSE down
      /\ UNCHANGED <<transDataIDs, receivedDataIDs, recentDataID, retranStates, cs, asked>>
  BY DEF SDATP!ReceiveRR, SDATP!HasFaceDown
<1>2. /\ up \in [SDATP!Hops -> Seq(SdatpUps)] /\ down \in [SDATP!Hops -> Seq(SdatpDowns)]
      /\ cs \in [SDATP!Routers -> SUBSET SDATP!DataIds]
      /\ retranStates \in [SDATP!Routers -> SUBSET SdatpEntries]
  BY DEF SdatpIInv, SdatpTypes
<1>3. m \in SdatpUps
  BY <1>1, <1>2, LastAssumption, FirstTaken
<1>4. up' \in [SDATP!Hops -> Seq(SdatpUps)]
  BY <1>1, <1>2, SdatpTakenOf
<1> HIDE DEF m
<1>5. down' \in [SDATP!Hops -> Seq(SdatpDowns)]
  <2>1. CASE m.id \in cs[r]
    <3>1. m.uid \in SdatpUids /\ m.id \in SDATP!DataIds
      BY <1>2, <1>3, <2>1 DEF SdatpUps
    <3>2. <<SDATP!RD(m.uid, m.id)>> \in Seq(SdatpDowns)
      BY <3>1, SdatpMessageTypes
    <3> QED
      BY <1>1, <1>2, <2>1, <3>2, SdatpSentTypes
  <2>2. CASE m.id \notin cs[r]
    BY <1>1, <1>2, <2>2
  <2> QED
    BY <2>1, <2>2
<1>6. retranStates' \in [SDATP!Routers -> SUBSET SdatpEntries]
  BY <1>1, <1>2
<1> QED
  BY <1>1, <1>4, <1>5, <1>6, SdatpOnlyMessages

\* The timer of an entry: some capsule is asked for again.
LEMMA SdatpWaitingRDInv ==
  ASSUME SdatpIInv, NEW r \in SDATP!Routers, NEW e \in retranStates[r], SDATP!WaitingRD(r, e)
  PROVE  SdatpIInv'
<1> DEFINE f == [e EXCEPT !.times = @ + 1, !.timer = e.times + 1 < GapTimes]
<1>1. /\ up' = SDATP!SendUp(up, r, <<SDATP!RR(e.uid, e.uid[2])>>)
      /\ retranStates' = [retranStates EXCEPT ![r] = (@ \ {e}) \cup {f}]
      /\ UNCHANGED <<transDataIDs, receivedDataIDs, recentDataID, cs, down, asked>>
  BY DEF SDATP!WaitingRD
<1>2. /\ up \in [SDATP!Hops -> Seq(SdatpUps)] /\ down \in [SDATP!Hops -> Seq(SdatpDowns)]
      /\ retranStates \in [SDATP!Routers -> SUBSET SdatpEntries]
  BY DEF SdatpIInv, SdatpTypes
<1>3. e.uid \in SdatpUids /\ e.uid[2] \in Int /\ e.times + 1 \in Int /\ e \in SdatpEntries
  BY <1>2 DEF SdatpEntries, SdatpUids
<1>4. (e.times + 1 < GapTimes) \in BOOLEAN
  OBVIOUS
<1>5. f \in SdatpEntries
  BY <1>3, <1>4 DEF SdatpEntries
<1> HIDE DEF f
<1>6. retranStates' \in [SDATP!Routers -> SUBSET SdatpEntries]
  BY <1>1, <1>2, <1>5
<1>7. up' \in [SDATP!Hops -> Seq(SdatpUps)]
  <2>1. <<SDATP!RR(e.uid, e.uid[2])>> \in Seq(SdatpUps)
    BY <1>3, SdatpMessageTypes
  <2> QED
    BY <1>1, <1>2, <2>1, SdatpSentTypes
<1> QED
  BY <1>1, <1>2, <1>6, <1>7, SdatpOnlyMessages

\* A message lost on a hop.
LEMMA SdatpLoseInv ==
  ASSUME SdatpIInv, NEW h \in SDATP!Hops, SDATP!Lose(h)
  PROVE  SdatpIInv'
<1>1. /\ up \in [SDATP!Hops -> Seq(SdatpUps)] /\ down \in [SDATP!Hops -> Seq(SdatpDowns)]
      /\ retranStates \in [SDATP!Routers -> SUBSET SdatpEntries]
  BY DEF SdatpIInv, SdatpTypes
<1>2. UNCHANGED <<transDataIDs, receivedDataIDs, recentDataID, retranStates, cs, asked>>
  BY DEF SDATP!Lose
<1>3. down' \in [SDATP!Hops -> Seq(SdatpDowns)]
  BY <1>1, SdatpTakenOf DEF SDATP!Lose
<1>4. up' \in [SDATP!Hops -> Seq(SdatpUps)]
  BY <1>1, SdatpTakenOf DEF SDATP!Lose
<1>5. retranStates' \in [SDATP!Routers -> SUBSET SdatpEntries]
  BY <1>1, <1>2
<1> QED
  BY <1>2, <1>3, <1>4, <1>5, SdatpOnlyMessages

\* The invariant is kept by every step.
LEMMA SdatpNextInv == SdatpIInv /\ [SDATP!Next]_SDATP!vars => SdatpIInv'
<1> SUFFICES ASSUME SdatpIInv, [SDATP!Next]_SDATP!vars PROVE SdatpIInv'
  OBVIOUS
<1>1. CASE SDATP!Publish
  BY <1>1, SdatpPublishInv
<1>2. ASSUME NEW r \in SDATP!Routers, SDATP!ReceiveData(r) PROVE SdatpIInv'
  BY <1>2, SdatpReceiveDataInv
<1>3. ASSUME NEW r \in SDATP!Routers, SDATP!ReceiveRD(r) PROVE SdatpIInv'
  BY <1>3, SdatpReceiveRDInv
<1>4. ASSUME NEW r \in SDATP!Routers, SDATP!ReceiveRR(r) PROVE SdatpIInv'
  BY <1>4, SdatpReceiveRRInv
<1>5. ASSUME NEW r \in SDATP!Routers, NEW e \in retranStates[r], SDATP!WaitingRD(r, e)
      PROVE  SdatpIInv'
  BY <1>5, SdatpWaitingRDInv
<1>6. ASSUME NEW h \in SDATP!Hops, SDATP!Lose(h) PROVE SdatpIInv'
  BY <1>6, SdatpLoseInv
<1>7. CASE UNCHANGED SDATP!vars
  BY <1>7 DEF SDATP!vars, SdatpIInv, SdatpTypes, SdatpRecentReceived, SdatpNoneOverlooked,
     SdatpCovered
<1> QED
  BY <1>1, <1>2, <1>3, <1>4, <1>5, <1>6, <1>7 DEF SDATP!Next

LEMMA SdatpInvAsks == SdatpIInv => SDATP!GapsAsked
  BY DEF SdatpIInv, SdatpNoneOverlooked, SdatpCovered, SDATP!GapsAsked

\* A router between publisher and subscriber passes over no capsule silently, even when
\* late repairs move the capsule it counts gaps from back (recentDataID in
\* sdatp-strategy.cpp).
THEOREM SdatpNoGapOverlooked == SDATP!Spec => []SDATP!GapsAsked
  BY SdatpInvAsks, SdatpInitInv, SdatpNextInv, PTL DEF SDATP!Spec
-------------------------------------------------------------------------------
\* What the subscriber was handed: capsules the last router passed on, each once.
SdatpServed ==
  /\ app \in Seq(SDATP!DataIds)
  /\ \A i \in 1..Len(app) : app[i] \in transDataIDs[Last]
  /\ \A i, j \in 1..Len(app) : app[i] = app[j] => i = j

\* A capsule the last router did not know is handed on.
LEMMA SdatpServesNew ==
  ASSUME transDataIDs \in [SDATP!Routers -> SUBSET SDATP!DataIds], SdatpServed,
         NEW r \in SDATP!Routers, ~SDATP!HasFaceDown(r),
         NEW d \in SDATP!DataIds, d \notin transDataIDs[r],
         transDataIDs' = [transDataIDs EXCEPT ![r] = @ \cup {d}],
         app' = Append(app, d)
  PROVE  SdatpServed'
<1>1. Last \in SDATP!Routers
  BY LastAssumption DEF SDATP!Routers
<1>2. /\ \A s \in SDATP!Routers : transDataIDs[s] \subseteq transDataIDs'[s]
      /\ d \in transDataIDs'[r]
  OBVIOUS
<1>3. r = Last
  BY LastAssumption DEF SDATP!HasFaceDown, SDATP!Routers, SDATP!Hops
<1>4. \A i \in 1..Len(app) : app[i] # d
  BY <1>3 DEF SdatpServed
<1>5. /\ app' \in Seq(SDATP!DataIds)
      /\ \A i \in 1..Len(app') : app'[i] = d \/ \E j \in 1..Len(app) : app'[i] = app[j]
      /\ \A i, j \in 1..Len(app') : app'[i] = app'[j] => i = j
  BY <1>4, LastAssumption, AppendOnce DEF SdatpServed
<1> QED
  BY <1>1, <1>2, <1>3, <1>5 DEF SdatpServed

\* A capsule somebody else passes on.
LEMMA SdatpServesOld ==
  ASSUME transDataIDs \in [SDATP!Routers -> SUBSET SDATP!DataIds], SdatpServed,
         NEW r \in SDATP!Routers, NEW d,
         transDataIDs' = transDataIDs \/ transDataIDs' = [transDataIDs EXCEPT ![r] = @ \cup {d}],
         UNCHANGED app
  PROVE  SdatpServed'
<1>1. Last \in SDATP!Routers
  BY LastAssumption DEF SDATP!Routers
<1>2. \A s \in SDATP!Routers : transDataIDs[s] \subseteq transDataIDs'[s]
  OBVIOUS
<1> QED
  BY <1>1, <1>2 DEF SdatpServed

\* Data and repairs: both hand a capsule on only at a last router that did not know it.
LEMMA SdatpHandleDataServes ==
  ASSUME transDataIDs \in [SDATP!Routers -> SUBSET SDATP!DataIds], SdatpServed,
         NEW r \in SDATP!Routers, NEW d \in SDATP!DataIds, NEW pending,
         SDATP!HandleData(r, d, pending)
  PROVE  SdatpServed'
<1>1. \/ UNCHANGED <<transDataIDs, app>>
      \/ /\ d \notin transDataIDs[r] /\ ~SDATP!HasFaceDown(r)
         /\ transDataIDs' = [transDataIDs EXCEPT ![r] = @ \cup {d}]
         /\ app' = Append(app, d)
      \/ /\ transDataIDs' = [transDataIDs EXCEPT ![r] = @ \cup {d}]
         /\ UNCHANGED app
  BY DEF SDATP!HandleData
<1> QED
  BY <1>1, SdatpServesNew, SdatpServesOld

LEMMA SdatpReceiveRDServes ==
  ASSUME SdatpIInv, SdatpServed, NEW r \in SDATP!Routers, SDATP!ReceiveRD(r)
  PROVE  SdatpServed'
<1> DEFINE d == Head(down[r - 1]).id
<1>1. transDataIDs \in [SDATP!Routers -> SUBSET SDATP!DataIds]
  BY DEF SdatpIInv, SdatpTypes
<1>2. d \in SDATP!DataIds
  BY SdatpFirstDown DEF SDATP!ReceiveRD
<1>3. \/ UNCHANGED <<transDataIDs, app>>
      \/ /\ d \notin transDataIDs[r]
         /\ transDataIDs' = [transDataIDs EXCEPT ![r] = @ \cup {d}]
         /\ app' = IF SDATP!HasFaceDown(r) THEN app ELSE Append(app, d)
  BY DEF SDATP!ReceiveRD
<1> HIDE DEF d
<1>4. CASE SDATP!HasFaceDown(r)
  BY <1>1, <1>3, <1>4, SdatpServesOld
<1>5. CASE ~SDATP!HasFaceDown(r)
  BY <1>1, <1>2, <1>3, <1>5, SdatpServesNew, SdatpServesOld
<1> QED
  BY <1>4, <1>5

LEMMA SdatpInitServes == SDATP!Init => SdatpServed
  BY DEF SDATP!Init, SdatpServed

\* Every step keeps it so.
LEMMA SdatpNextServes == SdatpIInv /\ SdatpServed /\ [SDATP!Next]_SDATP!vars => SdatpServed'
<1> SUFFICES ASSUME SdatpIInv, SdatpServed, [SDATP!Next]_SDATP!vars PROVE SdatpServed'
  OBVIOUS
<1>1. transDataIDs \in [SDATP!Routers -> SUBSET SDATP!DataIds]
  BY DEF SdatpIInv, SdatpTypes
<1>2. CASE SDATP!Publish
  BY <1>1, <1>2, SdatpHopsOfRouters, SdatpHandleDataServes DEF SDATP!Publish
<1>3. ASSUME NEW r \in SDATP!Routers, SDATP!ReceiveData(r) PROVE SdatpServed'
  <2>1. /\ SDATP!IsNext(r, "Data")
        /\ SDATP!HandleData(r, Head(down[r - 1]).id, SDATP!Taken(down, r - 1))
    BY <1>3 DEF SDATP!ReceiveData
  <2>2. Head(down[r - 1]).id \in SDATP!DataIds
    BY <2>1, SdatpFirstDown
  <2> QED
    BY <1>1, <2>1, <2>2, SdatpHandleDataServes
<1>4. ASSUME NEW r \in SDATP!Routers, SDATP!ReceiveRD(r) PROVE SdatpServed'
  BY <1>4, SdatpReceiveRDServes
<1>5. CASE UNCHANGED <<transDataIDs, app>>
  BY <1>5 DEF SdatpServed
<1>6. ASSUME NEW r \in SDATP!Routers,
             SDATP!ReceiveRR(r) \/ \E e \in retranStates[r] : SDATP!WaitingRD(r, e)
      PROVE  UNCHANGED <<transDataIDs, app>>
  BY <1>6 DEF SDATP!ReceiveRR, SDATP!WaitingRD
<1>7. ASSUME NEW h \in SDATP!Hops, SDATP!Lose(h) PROVE UNCHANGED <<transDataIDs, app>>
  BY <1>7 DEF SDATP!Lose
<1>8. UNCHANGED SDATP!vars => UNCHANGED <<transDataIDs, app>>
  BY DEF SDATP!vars
<1> QED
  BY <1>2, <1>3, <1>4, <1>5, <1>6, <1>7, <1>8 DEF SDATP!Next

\* The subscriber gets no capsule twice, although it may come as Data and as a repair
\* (transDataIDs in sdatp-strategy.cpp).
THEOREM SdatpDeliversOnce == SDATP!Spec => []SDATP!DeliveredOnce
<1>1. SdatpServed => SDATP!DeliveredOnce
  BY DEF SdatpServed, SDATP!DeliveredOnce
<1> QED
  BY <1>1, SdatpInitServes, SdatpNextServes, SdatpInitInv, SdatpNextInv, PTL DEF SDATP!Spec
-------------------------------------------------------------------------------
\* The invariants of the protocols hold while their protocol runs; where none does,
\* nobody is handed a capsule.
R2tInv   == R2tIInv /\ R2tServed /\ R2tAccounts
MftpInv  == MftpIInv /\ MftpServed /\ MftpAsking
SdatpInv == SdatpIInv /\ SdatpServed

ChainInv ==
  /\ protocol \in {"r2t", "mftp", "sdatp", "pa", "palist"}
  /\ protocol = "r2t" => R2tInv
  /\ protocol = "mftp" => MftpInv
  /\ protocol = "sdatp" => SdatpInv
  /\ protocol \in {"pa", "palist"} => app = <<>>

LEMMA R2tKept ==
  /\ R2T!Init => R2tInv
  /\ R2tInv /\ (R2T!Next \/ UNCHANGED R2T!vars) => R2tInv'
<1>1. R2T!Init => R2tInv
  BY R2tInitInv, R2tInitServes, R2tInitAccounts, LastAssumption DEF R2tInv
<1>2. R2tInv /\ [R2T!Next]_R2T!vars => R2tInv'
  BY R2tNextInv, R2tNextServes, R2tNextAccounts, LastAssumption, BudgetAssumption DEF R2tInv
<1> QED
  BY <1>1, <1>2

LEMMA MftpKept ==
  /\ MFTP!Init => MftpInv
  /\ MftpInv /\ (MFTP!Next \/ UNCHANGED MFTP!vars) => MftpInv'
<1>1. MFTP!Init => MftpInv
  BY MftpInitInv, MftpInitServes, MftpInitAsking, LastAssumption DEF MftpInv
<1>2. MftpInv /\ [MFTP!Next]_MFTP!vars => MftpInv'
  BY MftpNextInv, MftpNextServes, MftpNextAsking, LastAssumption, BudgetAssumption DEF MftpInv
<1> QED
  BY <1>1, <1>2

LEMMA SdatpKept ==
  /\ SDATP!Init => SdatpInv
  /\ SdatpInv /\ (SDATP!Next \/ UNCHANGED SDATP!vars) => SdatpInv'
<1>1. SDATP!Init => SdatpInv
  BY SdatpInitInv, SdatpInitServes, LastAssumption DEF SdatpInv
<1>2. SdatpInv /\ [SDATP!Next]_SDATP!vars => SdatpInv'
  BY SdatpNextInv, SdatpNextServes, LastAssumption DEF SdatpInv
<1> QED
  BY <1>1, <1>2

\* A run takes the first states and the steps of its protocol.
LEMMA InitChain == InitAll => ChainInv
<1> SUFFICES ASSUME InitAll PROVE ChainInv
  OBVIOUS
<1>1. /\ protocol \in {"r2t", "mftp", "sdatp", "pa", "palist"}
      /\ R2T!Init /\ MFTP!Init /\ SDATP!Init
  BY DEF InitAll
<1>2. app = <<>>
  BY <1>1 DEF R2T!Init
<1> QED
  BY <1>1, <1>2, R2tKept, MftpKept, SdatpKept DEF ChainInv

LEMMA NextChain ==
  ChainInv /\ [NextAll]_<<protocol, chainVars, flowVars, listVars>> => ChainInv'
<1> SUFFICES ASSUME ChainInv, [NextAll]_<<protocol, chainVars, flowVars, listVars>>
             PROVE  ChainInv'
  OBVIOUS
<1>1. protocol' = protocol
  BY DEF NextAll
<1>2. UNCHANGED chainVars =>
        UNCHANGED app /\ UNCHANGED R2T!vars /\ UNCHANGED MFTP!vars /\ UNCHANGED SDATP!vars
  BY DEF chainVars, r2tOnly, ackOnly, sdatpOnly, R2T!vars, MFTP!vars, SDATP!vars
<1>3. \/ UNCHANGED chainVars
      \/ protocol = "r2t" /\ R2T!Next
      \/ protocol = "mftp" /\ MFTP!Next
      \/ protocol = "sdatp" /\ SDATP!Next
  BY DEF NextAll, ChainNext
<1>4. CASE protocol = "r2t"
  <2>1. R2tInv'
    BY <1>2, <1>3, <1>4, R2tKept DEF ChainInv
  <2> QED
    BY <1>1, <1>4, <2>1 DEF ChainInv
<1>5. CASE protocol = "mftp"
  <2>1. MftpInv'
    BY <1>2, <1>3, <1>5, MftpKept DEF ChainInv
  <2> QED
    BY <1>1, <1>5, <2>1 DEF ChainInv
<1>6. CASE protocol = "sdatp"
  <2>1. SdatpInv'
    BY <1>2, <1>3, <1>6, SdatpKept DEF ChainInv
  <2> QED
    BY <1>1, <1>6, <2>1 DEF ChainInv
<1>7. CASE protocol \in {"pa", "palist"}
  <2>1. UNCHANGED app
    BY <1>2, <1>3, <1>7
  <2> QED
    BY <1>1, <1>7, <2>1 DEF ChainInv
<1> QED
  BY <1>4, <1>5, <1>6, <1>7 DEF ChainInv

LEMMA ChainInvariance == SpecAll => []ChainInv
  BY InitChain, NextChain, PTL DEF SpecAll
-------------------------------------------------------------------------------
\* No chain protocol hands the subscriber a capsule twice, whatever is lost, sent again,
\* repaired or late (transDataIDs in the three strategies).
THEOREM SubscribersServedOnce == SpecAll => []SubscriberOnce
<1>1. ChainInv => SubscriberOnce
  <2> SUFFICES ASSUME ChainInv PROVE \A i, j \in 1..Len(app) : app[i] = app[j] => i = j
    BY DEF SubscriberOnce, R2T!DeliveredOnce
  <2>1. CASE protocol = "r2t"
    BY <2>1 DEF ChainInv, R2tInv, R2tServed
  <2>2. CASE protocol = "mftp"
    BY <2>2 DEF ChainInv, MftpInv, MftpServed
  <2>3. CASE protocol = "sdatp"
    BY <2>3 DEF ChainInv, SdatpInv, SdatpServed
  <2>4. CASE protocol \in {"pa", "palist"}
    <3>1. Len(app) = 0
      BY <2>4 DEF ChainInv
    <3> QED
      BY <3>1
  <2> QED
    BY <2>1, <2>2, <2>3, <2>4 DEF ChainInv
<1> QED
  BY <1>1, ChainInvariance, PTL

\* A wait of R2T or MFTP ends only when the next router passed the capsule on, and every
\* acknowledgement of R2T finds the wait whose pointer the code follows unchecked
\* (csynStates in r2t-strategy.cpp and mftp-strategy.cpp).
THEOREM AcksEndWaits == SpecAll => []AckSettles
<1>1. ChainInv => AckSettles
  <2> SUFFICES ASSUME ChainInv PROVE AckSettles
    OBVIOUS
  <2>1. protocol = "r2t" => R2T!AckSettles /\ R2T!AckIsExpected
    BY R2tInvSettles, R2tInvExpects, LastAssumption DEF ChainInv, R2tInv
  <2>2. protocol = "mftp" => MFTP!AckSettles
    BY MftpInvSettles, LastAssumption DEF ChainInv, MftpInv
  <2> QED
    BY <2>1, <2>2 DEF AckSettles
<1> QED
  BY <1>1, ChainInvariance, PTL

\* R2T and MFTP give a capsule up only when the budget is spent: in R2T the first sending
\* and all retransmissions were lost (maxCSynTimes in waitingCACK of both strategies).
THEOREM GiveUpWhenSpent == SpecAll => []GivesUpSpent
<1>1. ChainInv => GivesUpSpent
  <2> SUFFICES ASSUME ChainInv PROVE GivesUpSpent
    OBVIOUS
  <2>1. protocol = "r2t" => R2T!GivesUpSpent
    BY R2tAccountsSpent, LastAssumption DEF ChainInv, R2tInv
  <2>2. protocol = "mftp" => MFTP!GivesUpSpent
    BY MftpAskingSpent, LastAssumption DEF ChainInv, MftpInv
  <2> QED
    BY <2>1, <2>2 DEF GivesUpSpent
<1> QED
  BY <1>1, ChainInvariance, PTL

\* SDATP passes over no capsule without asking for it, even when late repairs move the
\* capsule it counts gaps from back (recentDataID in sdatp-strategy.cpp).
THEOREM GapsAlwaysAsked == SpecAll => []GapsAsked
<1>1. ChainInv => GapsAsked
  <2> SUFFICES ASSUME ChainInv PROVE GapsAsked
    OBVIOUS
  <2>1. protocol = "sdatp" => SDATP!GapsAsked
    BY SdatpInvAsks, LastAssumption DEF ChainInv, SdatpInv
  <2> QED
    BY <2>1 DEF GapsAsked
<1> QED
  BY <1>1, ChainInvariance, PTL

-------------------------------------------------------------------------------
\* The intervals of a PaList: by increasing id, without overlap, inside the id space.
ListSound(list) ==
  /\ list \in Seq(P!Interval)
  /\ \A i \in 1..Len(list) : P!End(list[i]) < ListIdSpace
  /\ \A i, j \in 1..Len(list) : i < j => P!End(list[i]) < list[j].id

\* A set that holds with a number all from 1 on is an interval.
LEMMA DownClosed ==
  ASSUME NEW n \in Nat, NEW D \in SUBSET (1..n),
         \A i \in D : 1..i \subseteq D
  PROVE  /\ P!Cardinality(D) \in 0..n
         /\ D = 1..P!Cardinality(D)
<1> DEFINE c == Cardinality(D)
<1>1. P!Cardinality(D) = c
  BY DEF P!Cardinality, Cardinality
<1>2. IsFiniteSet(D) /\ c <= Cardinality(1..n) /\ Cardinality(1..n) = n
  <2>1. IsFiniteSet(1..n) /\ Cardinality(1..n) = n
    BY FS_Interval
  <2> QED
    BY <2>1, FS_Subset
<1>3. c \in Nat
  BY <1>2, FS_CardinalityType
<1>4. \A i \in D : i <= c
  <2> TAKE i \in D
  <2>1. Cardinality(1..i) = i
    BY FS_Interval
  <2> QED
    BY <1>2, <2>1, FS_Subset
<1>5. D \subseteq 1..c
  BY <1>3, <1>4
<1>6. IsFiniteSet(1..c) /\ Cardinality(1..c) = c
  BY <1>3, FS_Interval
<1>7. D = 1..c
  BY <1>5, <1>6, FS_Subset
<1> QED
  BY <1>1, <1>2, <1>3, <1>7

\* What an interval holds.
LEMMA IntervalOf ==
  ASSUME NEW list, list \in Seq(P!Interval), NEW i \in 1..Len(list), P!PaListAssumption
  PROVE  /\ list[i].id \in Nat /\ list[i].len \in Nat
         /\ list[i].id < ListIdSpace
         /\ P!End(list[i]) = list[i].id + list[i].len
         /\ P!End(list[i]) \in Nat
<1>1. list[i] \in P!Interval
  OBVIOUS
<1> QED
  BY <1>1 DEF P!Interval, P!PacketIds, P!End, P!PaListAssumption

\* FindInterval: the intervals up to it, and no others, begin at id or before.
LEMMA Found ==
  ASSUME NEW list, ListSound(list), NEW id \in P!PacketIds, P!PaListAssumption
  PROVE  /\ P!FindInterval(list, id) \in 0..Len(list)
         /\ \A i \in 1..Len(list) : list[i].id <= id <=> i <= P!FindInterval(list, id)
<1> DEFINE D == {i \in DOMAIN list : \A j \in 1..i : list[j].id <= id}
<1>1. list \in Seq(P!Interval) /\ DOMAIN list = 1..Len(list) /\ Len(list) \in Nat /\ id \in Nat
  BY DEF ListSound, P!PacketIds, P!PaListAssumption
<1>2. D \subseteq 1..Len(list) /\ \A i \in D : 1..i \subseteq D
  BY <1>1
<1>3. P!FindInterval(list, id) = P!Cardinality(D)
  BY DEF P!FindInterval
<1>4. P!FindInterval(list, id) \in 0..Len(list) /\ D = 1..P!FindInterval(list, id)
  <2> HIDE DEF D
  <2> QED
    BY <1>1, <1>2, <1>3, DownClosed
<1>5. \A i \in 1..Len(list) : list[i].id <= id <=> i \in D
  <2> SUFFICES ASSUME NEW i \in 1..Len(list), list[i].id <= id, NEW j \in 1..i
               PROVE  list[j].id <= id
    BY <1>1
  <2>1. j \in 1..Len(list)
    BY <1>1
  <2>2. j < i => P!End(list[j]) < list[i].id
    BY <2>1 DEF ListSound
  <2>3. CASE j = i
    BY <2>3
  <2>4. CASE j < i
    <3>1. /\ list[j].id \in Nat /\ list[j].len \in Nat /\ list[i].id \in Nat
          /\ P!End(list[j]) = list[j].id + list[j].len
      BY <1>1, <2>1, IntervalOf
    <3>2. list[j].id <= P!End(list[j]) /\ P!End(list[j]) \in Nat
      BY <3>1
    <3> QED
      BY <1>1, <2>2, <2>4, <3>1, <3>2
  <2> QED
    BY <1>1, <2>3, <2>4
<1> HIDE DEF D
<1> QED
  BY <1>1, <1>4, <1>5

\* The ids a list holds.
LEMMA IdsOf ==
  ASSUME NEW list, list \in Seq(P!Interval), NEW x
  PROVE  x \in P!IdsIn(list) <=> \E i \in 1..Len(list) : x \in list[i].id..P!End(list[i])
BY DEF P!IdsIn

\* An id is new when the list does not hold it.
LEMMA NewIds ==
  ASSUME NEW list, ListSound(list), NEW id \in P!PacketIds, P!PaListAssumption
  PROVE  P!IsNew(list, id) <=> id \notin P!IdsIn(list)
<1> DEFINE k == P!FindInterval(list, id)
<1>1. list \in Seq(P!Interval) /\ Len(list) \in Nat /\ id \in Nat
  BY DEF ListSound, P!PacketIds, P!PaListAssumption
<1>2. k \in 0..Len(list) /\ \A i \in 1..Len(list) : list[i].id <= id <=> i <= k
  BY Found
<1>3. P!IsNew(list, id) <=> ~ (k # 0 /\ list[k].id <= id /\ P!End(list[k]) >= id)
  BY DEF P!IsNew, P!HasId
<1> HIDE DEF k
<1>4. ASSUME NEW i \in 1..Len(list), id \in list[i].id..P!End(list[i]) PROVE i = k
  <2>1. i <= k
    BY <1>1, <1>2, <1>4, IntervalOf
  <2>2. i < k => P!End(list[i]) < list[k].id /\ list[k].id <= id
    BY <1>1, <1>2 DEF ListSound
  <2>3. k \in 1..Len(list)
    BY <1>2, <2>1
  <2> QED
    BY <1>1, <1>2, <1>4, <2>1, <2>2, <2>3, IntervalOf
<1>5. k # 0 => k \in 1..Len(list)
  BY <1>1, <1>2
<1> QED
  BY <1>1, <1>3, <1>4, <1>5, IdsOf, IntervalOf

\* An id the list does not hold comes between the interval found and the next.
LEMMA Around ==
  ASSUME NEW list, ListSound(list), NEW id \in P!PacketIds, P!PaListAssumption,
         id \notin P!IdsIn(list)
  PROVE  LET k == P!FindInterval(list, id)
         IN  /\ k \in 0..Len(list)
             /\ \A i \in 1..Len(list) : i <= k => P!End(list[i]) < id
             /\ \A i \in 1..Len(list) : i > k => id < list[i].id
<1> DEFINE k == P!FindInterval(list, id)
<1>1. list \in Seq(P!Interval) /\ Len(list) \in Nat /\ id \in Nat
  BY DEF ListSound, P!PacketIds, P!PaListAssumption
<1>2. k \in 0..Len(list) /\ \A i \in 1..Len(list) : list[i].id <= id <=> i <= k
  BY Found
<1> HIDE DEF k
<1>3. ASSUME NEW i \in 1..Len(list)
      PROVE  /\ list[i].id \in Nat /\ P!End(list[i]) \in Nat
             /\ ~ (id \in list[i].id..P!End(list[i]))
  BY <1>1, IntervalOf, IdsOf
<1>4. ASSUME NEW i \in 1..Len(list), i <= k PROVE P!End(list[i]) < id
  BY <1>1, <1>2, <1>3, <1>4
<1>5. ASSUME NEW i \in 1..Len(list), i > k PROVE id < list[i].id
  <2>1. ~ (i <= k)
    BY <1>1, <1>2, <1>5
  <2> QED
    BY <1>1, <1>2, <1>3, <2>1
<1> QED
  BY <1>2, <1>4, <1>5 DEF k

\* Two sequences of intervals, one behind the other, and the middle of one.
LEMMA OneBehindOther ==
  ASSUME NEW S, NEW s \in Seq(S), NEW t \in Seq(S)
  PROVE  /\ s \o t \in Seq(S)
         /\ Len(s) \in Nat /\ Len(t) \in Nat /\ Len(s \o t) = Len(s) + Len(t)
         /\ \A j \in 1..Len(s) : (s \o t)[j] = s[j]
         /\ \A j \in 1..Len(t) : (s \o t)[Len(s) + j] = t[j]
OBVIOUS

LEMMA PartOf ==
  ASSUME NEW S, NEW s \in Seq(S), NEW a \in 1..(Len(s) + 1), NEW b \in 0..Len(s), a <= b + 1
  PROVE  /\ SubSeq(s, a, b) \in Seq(S)
         /\ Len(SubSeq(s, a, b)) = b - a + 1
         /\ \A j \in 1..(b - a + 1) : SubSeq(s, a, b)[j] = s[a + j - 1]
OBVIOUS

\* An interval put before position i, and one taken out.
LEMMA InsertedAt ==
  ASSUME NEW S, NEW s \in Seq(S), NEW i \in 1..(Len(s) + 1), NEW e \in S
  PROVE  /\ P!InsertAt(s, i, e) \in Seq(S)
         /\ Len(s) \in Nat /\ Len(P!InsertAt(s, i, e)) = Len(s) + 1
         /\ P!InsertAt(s, i, e)[i] = e
         /\ \A j \in 1..Len(s) : j < i => P!InsertAt(s, i, e)[j] = s[j]
         /\ \A j \in 1..Len(s) : j >= i => P!InsertAt(s, i, e)[j + 1] = s[j]
<1> DEFINE before == SubSeq(s, 1, i - 1)
           behind == SubSeq(s, i, Len(s))
           one == <<e>>
           front == before \o one
           all == front \o behind
<1>1. Len(s) \in Nat /\ i \in Nat
  OBVIOUS
<1>2. /\ before \in Seq(S) /\ Len(before) = i - 1
      /\ \A j \in 1..(i - 1) : before[j] = s[j]
  <2>1. /\ before \in Seq(S) /\ Len(before) = i - 1 - 1 + 1
        /\ \A j \in 1..(i - 1 - 1 + 1) : before[j] = s[1 + j - 1]
    BY <1>1, PartOf
  <2> HIDE DEF before
  <2> QED
    BY <1>1, <2>1
<1>3. /\ behind \in Seq(S) /\ Len(behind) = Len(s) - i + 1
      /\ \A j \in 1..(Len(s) - i + 1) : behind[j] = s[i + j - 1]
  BY <1>1, PartOf
<1>4. one \in Seq(S) /\ Len(one) = 1 /\ one[1] = e
  OBVIOUS
<1>5. P!InsertAt(s, i, e) = all
  BY DEF P!InsertAt
<1> HIDE DEF before, behind, one, front, all
<1>6. /\ front \in Seq(S) /\ Len(front) = i
      /\ \A j \in 1..(i - 1) : front[j] = s[j]
      /\ front[i] = e
  <2>1. before \in Seq(S) /\ one \in Seq(S)
    BY <1>2, <1>4
  <2>2. /\ before \o one \in Seq(S) /\ Len(before \o one) = Len(before) + Len(one)
        /\ \A j \in 1..Len(before) : (before \o one)[j] = before[j]
        /\ \A j \in 1..Len(one) : (before \o one)[Len(before) + j] = one[j]
    BY <2>1, OneBehindOther
  <2> QED
    BY <1>1, <1>2, <1>4, <2>2 DEF front
<1>7. /\ all \in Seq(S) /\ Len(all) = Len(s) + 1
      /\ \A j \in 1..i : all[j] = front[j]
      /\ \A j \in 1..(Len(s) - i + 1) : all[i + j] = behind[j]
  <2>1. front \in Seq(S) /\ behind \in Seq(S)
    BY <1>3, <1>6
  <2>2. /\ front \o behind \in Seq(S) /\ Len(front \o behind) = Len(front) + Len(behind)
        /\ \A j \in 1..Len(front) : (front \o behind)[j] = front[j]
        /\ \A j \in 1..Len(behind) : (front \o behind)[Len(front) + j] = behind[j]
    BY <2>1, OneBehindOther
  <2> QED
    BY <1>1, <1>3, <1>6, <2>2 DEF all
<1>8. \A j \in 1..Len(s) : j >= i => all[j + 1] = s[j]
  <2> SUFFICES ASSUME NEW j \in 1..Len(s), j >= i PROVE all[j + 1] = s[j]
    OBVIOUS
  <2>1. j - i + 1 \in 1..(Len(s) - i + 1) /\ i + (j - i + 1) = j + 1 /\ i + (j - i + 1) - 1 = j
    BY <1>1
  <2>2. all[i + (j - i + 1)] = behind[j - i + 1] /\ behind[j - i + 1] = s[i + (j - i + 1) - 1]
    BY <1>3, <1>7, <2>1
  <2> QED
    BY <2>1, <2>2
<1>9. all[i] = e
  BY <1>1, <1>6, <1>7
<1>10. ASSUME NEW j \in 1..Len(s), j < i PROVE all[j] = s[j]
  <2>1. j \in 1..i /\ j \in 1..(i - 1)
    BY <1>1, <1>10
  <2> QED
    BY <1>6, <1>7, <2>1
<1> QED
  BY <1>1, <1>5, <1>7, <1>8, <1>9, <1>10

LEMMA RemovedAt ==
  ASSUME NEW S, NEW s \in Seq(S), NEW i \in 1..Len(s)
  PROVE  /\ P!RemoveAt(s, i) \in Seq(S)
         /\ Len(s) \in Nat /\ Len(P!RemoveAt(s, i)) = Len(s) - 1
         /\ \A j \in 1..(Len(s) - 1) : P!RemoveAt(s, i)[j] = IF j < i THEN s[j] ELSE s[j + 1]
<1> DEFINE before == SubSeq(s, 1, i - 1)
           behind == SubSeq(s, i + 1, Len(s))
           all == before \o behind
<1>1. Len(s) \in Nat /\ i \in Nat
  OBVIOUS
<1>2. /\ before \in Seq(S) /\ Len(before) = i - 1
      /\ \A j \in 1..(i - 1) : before[j] = s[j]
  <2>1. /\ before \in Seq(S) /\ Len(before) = i - 1 - 1 + 1
        /\ \A j \in 1..(i - 1 - 1 + 1) : before[j] = s[1 + j - 1]
    BY <1>1, PartOf
  <2> HIDE DEF before
  <2> QED
    BY <1>1, <2>1
<1>3. /\ behind \in Seq(S) /\ Len(behind) = Len(s) - i
      /\ \A j \in 1..(Len(s) - i) : behind[j] = s[i + j]
  <2>1. /\ behind \in Seq(S) /\ Len(behind) = Len(s) - (i + 1) + 1
        /\ \A j \in 1..(Len(s) - (i + 1) + 1) : behind[j] = s[i + 1 + j - 1]
    BY <1>1, PartOf
  <2> HIDE DEF behind
  <2> QED
    BY <1>1, <2>1
<1>4. P!RemoveAt(s, i) = all
  BY DEF P!RemoveAt
<1> HIDE DEF before, behind, all
<1>5. /\ all \in Seq(S) /\ Len(all) = Len(s) - 1
      /\ \A j \in 1..(i - 1) : all[j] = s[j]
      /\ \A j \in 1..(Len(s) - i) : all[i - 1 + j] = s[i + j]
  <2>1. before \in Seq(S) /\ behind \in Seq(S)
    BY <1>2, <1>3
  <2>2. /\ before \o behind \in Seq(S) /\ Len(before \o behind) = Len(before) + Len(behind)
        /\ \A j \in 1..Len(before) : (before \o behind)[j] = before[j]
        /\ \A j \in 1..Len(behind) : (before \o behind)[Len(before) + j] = behind[j]
    BY <2>1, OneBehindOther
  <2>3. all \in Seq(S) /\ Len(all) = Len(s) - 1
    BY <1>1, <1>2, <1>3, <2>2 DEF all
  <2>4. \A j \in 1..(i - 1) : all[j] = s[j]
    BY <1>2, <2>2 DEF all
  <2>5. ASSUME NEW j \in 1..(Len(s) - i) PROVE all[i - 1 + j] = s[i + j]
    <3>1. (before \o behind)[i - 1 + j] = behind[j] /\ behind[j] = s[i + j]
      BY <1>2, <1>3, <2>2
    <3> QED
      BY <3>1 DEF all
  <2> QED
    BY <2>3, <2>4, <2>5
<1>6. ASSUME NEW j \in 1..(Len(s) - 1), ~ (j < i) PROVE all[j] = s[j + 1]
  <2>1. j - i + 1 \in 1..(Len(s) - i) /\ i - 1 + (j - i + 1) = j /\ i + (j - i + 1) = j + 1
    BY <1>1, <1>6
  <2> QED
    BY <1>5, <2>1
<1>7. \A j \in 1..(Len(s) - 1) : j < i => all[j] = s[j]
  BY <1>1, <1>5
<1> QED
  BY <1>1, <1>4, <1>5, <1>6, <1>7

\* An interval made of its first id and its length, or from another by a new length.
LEMMA Created ==
  ASSUME P!PaListAssumption, NEW a \in Nat, NEW len \in Nat, a + len < ListIdSpace
  PROVE  /\ P!CreateInterval(a, len) \in P!Interval
         /\ P!CreateInterval(a, len).id = a
         /\ P!End(P!CreateInterval(a, len)) = a + len
BY DEF P!CreateInterval, P!Interval, P!End, P!PacketIds, P!PaListAssumption

LEMMA Lengthened ==
  ASSUME NEW e \in P!Interval, NEW len
  PROVE  [e EXCEPT !.len = len] = P!CreateInterval(e.id, len)
BY DEF P!CreateInterval, P!Interval

\* An interval in the place of another, one put between others, and one taken out leave
\* the list in order, when what is new keeps it.
LEMMA Replaced ==
  ASSUME NEW list, ListSound(list), P!PaListAssumption, NEW m \in 1..Len(list),
         NEW e \in P!Interval, P!End(e) < ListIdSpace,
         \A i \in 1..Len(list) : i < m => P!End(list[i]) < e.id,
         \A i \in 1..Len(list) : i > m => P!End(e) < list[i].id
  PROVE  LET new == [list EXCEPT ![m] = e]
         IN  /\ ListSound(new) /\ Len(new) = Len(list)
             /\ \A x : x \in P!IdsIn(new) <=>
                         \/ x \in e.id..P!End(e)
                         \/ \E i \in 1..Len(list) : i # m /\ x \in list[i].id..P!End(list[i])
<1> DEFINE new == [list EXCEPT ![m] = e]
<1>1. list \in Seq(P!Interval) /\ Len(list) \in Nat
  BY DEF ListSound
<1>2. /\ new \in Seq(P!Interval) /\ Len(new) = Len(list)
      /\ new[m] = e
      /\ \A j \in 1..Len(list) : j # m => new[j] = list[j]
  BY <1>1
<1> HIDE DEF new
<1>3. \A j \in 1..Len(new) : P!End(new[j]) < ListIdSpace
  BY <1>2 DEF ListSound
<1>4. ASSUME NEW i \in 1..Len(new), NEW j \in 1..Len(new), i < j
      PROVE  P!End(new[i]) < new[j].id
  <2>1. i \in 1..Len(list) /\ j \in 1..Len(list)
    BY <1>2
  <2>2. CASE i = m
    <3>1. j # m /\ j > m
      BY <1>1, <1>4, <2>1, <2>2
    <3> QED
      BY <1>2, <2>1, <2>2, <3>1
  <2>3. CASE j = m
    <3>1. i # m /\ i < m
      BY <1>1, <1>4, <2>1, <2>3
    <3> QED
      BY <1>2, <2>1, <2>3, <3>1
  <2>4. CASE i # m /\ j # m
    BY <1>2, <1>4, <2>1, <2>4 DEF ListSound
  <2> QED
    BY <2>2, <2>3, <2>4
<1>5. ASSUME NEW x
      PROVE  x \in P!IdsIn(new) <=>
               \/ x \in e.id..P!End(e)
               \/ \E i \in 1..Len(list) : i # m /\ x \in list[i].id..P!End(list[i])
  <2>1. x \in P!IdsIn(new) <=> \E i \in 1..Len(list) : x \in new[i].id..P!End(new[i])
    <3>1. x \in P!IdsIn(new) <=> \E i \in 1..Len(new) : x \in new[i].id..P!End(new[i])
      BY <1>2, IdsOf
    <3> QED
      BY <1>2, <3>1
  <2> QED
    BY <1>2, <2>1, Zenon
<1>6. ListSound(new)
  BY <1>2, <1>3, <1>4 DEF ListSound
<1> QED
  BY <1>2, <1>5, <1>6 DEF new

LEMMA Inserted ==
  ASSUME NEW list, ListSound(list), P!PaListAssumption, NEW m \in 1..(Len(list) + 1),
         NEW e \in P!Interval, P!End(e) < ListIdSpace,
         \A i \in 1..Len(list) : i < m => P!End(list[i]) < e.id,
         \A i \in 1..Len(list) : i >= m => P!End(e) < list[i].id
  PROVE  LET new == P!InsertAt(list, m, e)
         IN  /\ ListSound(new)
             /\ \A x : x \in P!IdsIn(new) <=> x \in e.id..P!End(e) \/ x \in P!IdsIn(list)
<1> DEFINE new == P!InsertAt(list, m, e)
<1>1. list \in Seq(P!Interval) /\ Len(list) \in Nat /\ m \in Nat
  BY DEF ListSound
<1>2. /\ new \in Seq(P!Interval) /\ Len(new) = Len(list) + 1
      /\ new[m] = e
      /\ \A j \in 1..Len(list) : j < m => new[j] = list[j]
      /\ \A j \in 1..Len(list) : j >= m => new[j + 1] = list[j]
  <2>1. list \in Seq(P!Interval) /\ m \in 1..(Len(list) + 1) /\ e \in P!Interval
    BY <1>1
  <2>2. /\ new \in Seq(P!Interval) /\ Len(list) \in Nat /\ Len(new) = Len(list) + 1
        /\ new[m] = e
        /\ \A j \in 1..Len(list) : j < m => new[j] = list[j]
        /\ \A j \in 1..Len(list) : j >= m => new[j + 1] = list[j]
    BY <2>1, InsertedAt
  <2> QED
    BY <2>2
<1> HIDE DEF new
<1>3. ASSUME NEW j \in 1..Len(new)
      PROVE  \/ j = m /\ new[j] = e
             \/ j < m /\ j \in 1..Len(list) /\ new[j] = list[j]
             \/ j > m /\ j - 1 \in 1..Len(list) /\ j - 1 >= m /\ new[j] = list[j - 1]
  <2>1. CASE j = m
    BY <1>2, <2>1
  <2>2. CASE j < m
    <3>1. j \in 1..Len(list)
      BY <1>1, <1>2, <2>2
    <3> QED
      BY <1>2, <2>2, <3>1
  <2>3. CASE j > m
    <3>1. j - 1 \in 1..Len(list) /\ j - 1 >= m /\ j - 1 + 1 = j
      BY <1>1, <1>2, <2>3
    <3>2. new[j - 1 + 1] = list[j - 1]
      BY <1>2, <3>1
    <3> QED
      BY <2>3, <3>1, <3>2
  <2>4. j \in Nat
    BY <1>1, <1>2
  <2> QED
    BY <1>1, <2>1, <2>2, <2>3, <2>4
<1>4. \A j \in 1..Len(new) : P!End(new[j]) < ListIdSpace
  BY <1>3 DEF ListSound
<1>5. ASSUME NEW i \in 1..Len(new), NEW j \in 1..Len(new), i < j
      PROVE  P!End(new[i]) < new[j].id
  <2>1. i \in Nat /\ j \in Nat
    BY <1>1, <1>2
  <2>2. CASE i = m
    <3>1. j > m
      BY <1>1, <1>5, <2>1, <2>2
    <3>2. j # m /\ ~ (j < m)
      BY <1>1, <2>1, <3>1
    <3>3. j - 1 \in 1..Len(list) /\ j - 1 >= m /\ new[j] = list[j - 1]
      BY <1>3, <3>2
    <3> QED
      BY <1>2, <2>2, <3>3
  <2>3. CASE j = m
    <3>1. i # m /\ ~ (i > m) /\ i < m
      BY <1>1, <1>5, <2>1, <2>3
    <3>2. i \in 1..Len(list) /\ new[i] = list[i]
      BY <1>3, <3>1
    <3> QED
      BY <1>2, <2>3, <3>1, <3>2
  <2>4. CASE i # m /\ j # m
    <3> DEFINE a == IF i < m THEN i ELSE i - 1
               b == IF j < m THEN j ELSE j - 1
    <3>1. a \in 1..Len(list) /\ new[i] = list[a]
      BY <1>1, <1>3, <2>1, <2>4
    <3>2. b \in 1..Len(list) /\ new[j] = list[b]
      BY <1>1, <1>3, <2>1, <2>4
    <3>3. a < b
      BY <1>1, <1>5, <2>1, <2>4
    <3> HIDE DEF a, b
    <3> QED
      BY <3>1, <3>2, <3>3 DEF ListSound
  <2> QED
    BY <2>2, <2>3, <2>4
<1>6. ASSUME NEW x
      PROVE  x \in P!IdsIn(new) <=> x \in e.id..P!End(e) \/ x \in P!IdsIn(list)
  <2>1. x \in P!IdsIn(new) <=> \E i \in 1..Len(new) : x \in new[i].id..P!End(new[i])
    BY <1>2, IdsOf
  <2>2. x \in P!IdsIn(list) <=> \E i \in 1..Len(list) : x \in list[i].id..P!End(list[i])
    BY <1>1, IdsOf
  <2>3. x \in P!IdsIn(new) => x \in e.id..P!End(e) \/ x \in P!IdsIn(list)
    BY <1>3, <2>1, <2>2, Zenon
  <2>4. x \in e.id..P!End(e) => x \in P!IdsIn(new)
    <3>1. m \in 1..Len(new)
      BY <1>1, <1>2
    <3> QED
      BY <1>2, <2>1, <3>1, Zenon
  <2>5. ASSUME NEW i \in 1..Len(list), x \in list[i].id..P!End(list[i])
        PROVE  x \in P!IdsIn(new)
    <3>1. i \in 1..Len(new) /\ i + 1 \in 1..Len(new) /\ (i < m \/ i >= m)
      BY <1>1, <1>2
    <3> QED
      BY <1>2, <2>1, <2>5, <3>1, Zenon
  <2> QED
    BY <2>2, <2>3, <2>4, <2>5
<1>7. ListSound(new)
  BY <1>2, <1>4, <1>5 DEF ListSound
<1> QED
  BY <1>6, <1>7 DEF new

LEMMA Removed ==
  ASSUME NEW list, ListSound(list), P!PaListAssumption, NEW m \in 1..Len(list)
  PROVE  LET new == P!RemoveAt(list, m)
         IN  /\ ListSound(new) /\ Len(new) = Len(list) - 1
             /\ \A i \in 1..Len(new) : new[i] = IF i < m THEN list[i] ELSE list[i + 1]
<1> DEFINE new == P!RemoveAt(list, m)
<1>1. list \in Seq(P!Interval) /\ Len(list) \in Nat /\ m \in Nat
  BY DEF ListSound
<1>2. /\ new \in Seq(P!Interval) /\ Len(new) = Len(list) - 1
      /\ \A i \in 1..(Len(list) - 1) : new[i] = IF i < m THEN list[i] ELSE list[i + 1]
  BY <1>1, RemovedAt, Zenon
<1> HIDE DEF new
<1>3. \A i \in 1..Len(new) : new[i] = IF i < m THEN list[i] ELSE list[i + 1]
  BY <1>2
<1> DEFINE at(i) == IF i < m THEN i ELSE i + 1
<1>4. \A i \in 1..Len(new) : at(i) \in 1..Len(list) /\ new[i] = list[at(i)]
  BY <1>1, <1>2, <1>3
<1>5. \A i, j \in 1..Len(new) : i < j => at(i) < at(j)
  BY <1>1, <1>2
<1> HIDE DEF at
<1>6. \A j \in 1..Len(new) : P!End(new[j]) < ListIdSpace
  BY <1>4 DEF ListSound
<1>7. \A i, j \in 1..Len(new) : i < j => P!End(new[i]) < new[j].id
  BY <1>4, <1>5 DEF ListSound
<1> QED
  BY <1>2, <1>3, <1>6, <1>7 DEF ListSound, new

\* addId, for an id the list does not hold: its interval follows the one found, or one of
\* the two it touches grows, or both become one.
LEMMA Added ==
  ASSUME NEW list, ListSound(list), NEW id \in P!PacketIds, P!PaListAssumption,
         NEW k \in 0..Len(list),
         \A i \in 1..Len(list) : i <= k => P!End(list[i]) < id,
         \A i \in 1..Len(list) : i > k => id < list[i].id
  PROVE  LET new == P!AddId(list, k, id)
         IN  ListSound(new) /\ \A x : x \in P!IdsIn(new) <=> x = id \/ x \in P!IdsIn(list)
<1> DEFINE new == P!AddId(list, k, id)
           single == P!CreateInterval(id, 0)
           touchesNext == k + 1 <= Len(list) /\ list[k + 1].id - 1 = id
<1>1. /\ Len(list) \in Nat /\ k \in Nat
      /\ id \in Nat /\ id < ListIdSpace /\ ListIdSpace \in Nat
  BY DEF ListSound, P!PacketIds, P!PaListAssumption
<1>2. list \in Seq(P!Interval)
  BY DEF ListSound
<1>3. \A i \in 1..Len(list) :
         /\ list[i].id \in Nat /\ list[i].len \in Nat
         /\ P!End(list[i]) = list[i].id + list[i].len /\ P!End(list[i]) \in Nat
         /\ P!End(list[i]) < ListIdSpace /\ list[i].id < ListIdSpace
  BY <1>2, IntervalOf DEF ListSound
<1>4. \A i, j \in 1..Len(list) : i < j => P!End(list[i]) < list[j].id
  BY DEF ListSound
<1>5. \A x : x \in P!IdsIn(list) <=>
               \E i \in 1..Len(list) : x \in list[i].id..P!End(list[i])
  BY <1>2, IdsOf
<1>6. CASE k = 0 \/ (P!End(list[k]) # id - 1 /\ ~ touchesNext)
  <2>1. new = P!InsertAt(list, k + 1, single)
    BY <1>1, <1>6 DEF P!AddId
  <2>2. single \in P!Interval /\ single.id = id /\ P!End(single) = id
    BY <1>1 DEF P!CreateInterval, P!Interval, P!End, P!PacketIds
  <2> HIDE DEF new, single
  <2>3. /\ k + 1 \in 1..(Len(list) + 1)
        /\ P!End(single) < ListIdSpace
        /\ \A i \in 1..Len(list) : i < k + 1 => P!End(list[i]) < single.id
        /\ \A i \in 1..Len(list) : i >= k + 1 => P!End(single) < list[i].id
    BY <1>1, <2>2
  <2>4. /\ ListSound(new)
        /\ \A x : x \in P!IdsIn(new) <=> x \in single.id..P!End(single) \/ x \in P!IdsIn(list)
    BY <2>1, <2>2, <2>3, Inserted
  <2>5. \A x : x \in single.id..P!End(single) <=> x = id
    BY <1>1, <2>2
  <2> QED
    BY <2>4, <2>5 DEF new
<1>7. CASE k # 0 /\ P!End(list[k]) = id - 1 /\ ~ touchesNext
  <2> DEFINE grown == P!CreateInterval(list[k].id, list[k].len + 1)
  <2>1. k \in 1..Len(list)
    BY <1>1, <1>7
  <2>2. /\ list[k].id \in Nat /\ list[k].len \in Nat /\ list[k].id < ListIdSpace
        /\ list[k].id + list[k].len = id - 1
    BY <1>3, <1>7, <2>1
  <2>3. grown \in P!Interval /\ grown.id = list[k].id /\ P!End(grown) = id
    <3> DEFINE a == list[k].id
               l == list[k].len
    <3>1. a \in Nat /\ l \in Nat /\ a + l = id - 1
      BY <2>2
    <3> HIDE DEF a, l
    <3>2. l + 1 \in Nat /\ a + (l + 1) = id
      BY <1>1, <3>1
    <3> USE DEF a, l
    <3> QED
      BY <1>1, <2>2, <3>2, Created
  <2>4. [list[k] EXCEPT !.len = @ + 1] = grown
    <3>1. list[k] \in P!Interval
      BY <1>2, <2>1
    <3> QED
      BY <3>1, Lengthened
  <2>5. new = [list EXCEPT ![k] = grown]
    BY <1>1, <1>2, <1>7, <2>1, <2>4 DEF P!AddId
  <2> HIDE DEF new, grown
  <2>6. /\ P!End(grown) < ListIdSpace
        /\ \A i \in 1..Len(list) : i < k => P!End(list[i]) < grown.id
        /\ \A i \in 1..Len(list) : i > k => P!End(grown) < list[i].id
    BY <1>1, <1>4, <2>1, <2>3
  <2>7. /\ ListSound(new)
        /\ \A x : x \in P!IdsIn(new) <=>
                    \/ x \in grown.id..P!End(grown)
                    \/ \E i \in 1..Len(list) : i # k /\ x \in list[i].id..P!End(list[i])
    BY <2>1, <2>3, <2>5, <2>6, Replaced
  <2>8. \A x : x \in grown.id..P!End(grown) <=> x = id \/ x \in list[k].id..P!End(list[k])
    BY <1>1, <1>7, <2>2, <2>3
  <2> QED
    BY <1>5, <2>1, <2>7, <2>8, Zenon DEF new
<1>8. CASE k # 0 /\ P!End(list[k]) # id - 1 /\ touchesNext
  <2> DEFINE grown == P!CreateInterval(id, list[k + 1].len + 1)
  <2>1. k + 1 \in 1..Len(list) /\ k < k + 1
    BY <1>1, <1>8
  <2>2. /\ list[k + 1].len \in Nat /\ list[k + 1].id = id + 1
        /\ P!End(list[k + 1]) = id + 1 + list[k + 1].len /\ P!End(list[k + 1]) < ListIdSpace
    <3>1. list[k + 1].id \in Nat /\ list[k + 1].id - 1 = id
      BY <1>3, <1>8, <2>1
    <3>2. list[k + 1].id = id + 1
      BY <1>1, <3>1
    <3> QED
      BY <1>3, <2>1, <3>2
  <2>3. grown \in P!Interval /\ grown.id = id /\ P!End(grown) = P!End(list[k + 1])
    <3> DEFINE l == list[k + 1].len
    <3>1. l \in Nat /\ P!End(list[k + 1]) = id + 1 + l
      BY <2>2
    <3> HIDE DEF l
    <3>2. l + 1 \in Nat /\ id + (l + 1) = P!End(list[k + 1])
      BY <1>1, <3>1
    <3> USE DEF l
    <3> QED
      BY <1>1, <2>2, <3>2, Created
  <2>4. new = [list EXCEPT ![k + 1] = grown]
    BY <1>1, <1>8, <2>1 DEF P!AddId
  <2> HIDE DEF new, grown
  <2>5. /\ P!End(grown) < ListIdSpace
        /\ \A i \in 1..Len(list) : i < k + 1 => P!End(list[i]) < grown.id
        /\ \A i \in 1..Len(list) : i > k + 1 => P!End(grown) < list[i].id
    BY <1>1, <1>4, <2>1, <2>2, <2>3
  <2>6. /\ ListSound(new)
        /\ \A x : x \in P!IdsIn(new) <=>
                    \/ x \in grown.id..P!End(grown)
                    \/ \E i \in 1..Len(list) : i # k + 1 /\ x \in list[i].id..P!End(list[i])
    BY <2>1, <2>3, <2>4, <2>5, Replaced
  <2>7. \A x : x \in grown.id..P!End(grown) <=>
                 x = id \/ x \in list[k + 1].id..P!End(list[k + 1])
    BY <1>1, <2>2, <2>3
  <2>8. ASSUME NEW x PROVE x \in P!IdsIn(new) <=> x = id \/ x \in P!IdsIn(list)
    <3>1. x \in P!IdsIn(new) => x = id \/ x \in P!IdsIn(list)
      BY <1>5, <2>1, <2>6, <2>7
    <3>2. x = id => x \in P!IdsIn(new)
      BY <2>6, <2>7
    <3>3. ASSUME NEW i \in 1..Len(list), x \in list[i].id..P!End(list[i])
          PROVE  x \in P!IdsIn(new)
      BY <2>6, <2>7, <3>3
    <3> QED
      BY <1>5, <3>1, <3>2, <3>3
  <2> QED
    BY <2>6, <2>8 DEF new
<1>9. CASE k # 0 /\ P!End(list[k]) = id - 1 /\ touchesNext
  <2> DEFINE joined == P!CreateInterval(list[k].id, list[k].len + list[k + 1].len + 2)
             fewer == P!RemoveAt(list, k + 1)
  <2>1. /\ k \in 1..Len(list) /\ k + 1 \in 1..Len(list) /\ k < k + 1
        /\ k \in 1..(Len(list) - 1)
    BY <1>1, <1>9
  <2>2. /\ list[k].id \in Nat /\ list[k].len \in Nat /\ list[k].id < ListIdSpace
        /\ list[k].id + list[k].len = id - 1
        /\ list[k + 1].len \in Nat /\ list[k + 1].id = id + 1
        /\ P!End(list[k + 1]) = id + 1 + list[k + 1].len /\ P!End(list[k + 1]) < ListIdSpace
    BY <1>1, <1>3, <1>9, <2>1
  <2>3. joined \in P!Interval /\ joined.id = list[k].id /\ P!End(joined) = P!End(list[k + 1])
    <3> DEFINE a == list[k].id
               l == list[k].len
               m == list[k + 1].len
               end == P!End(list[k + 1])
    <3>1. /\ a \in Nat /\ l \in Nat /\ m \in Nat /\ a + l = id - 1
          /\ end = id + 1 + m
      BY <2>2
    <3> HIDE DEF a, l, m, end
    <3>2. l + m + 2 \in Nat /\ a + (l + m + 2) = end
      BY <1>1, <3>1
    <3>3. list[k].id = a /\ list[k].len + list[k + 1].len + 2 = l + m + 2
      BY DEF a, l, m
    <3>4. a \in Nat /\ a + (l + m + 2) < ListIdSpace
      BY <2>2, <3>1, <3>2 DEF end
    <3>5. joined = P!CreateInterval(a, l + m + 2)
      BY <3>3
    <3> HIDE DEF joined
    <3>6. joined \in P!Interval /\ joined.id = a /\ P!End(joined) = a + (l + m + 2)
      BY <1>1, <3>2, <3>4, <3>5, Created
    <3> QED
      BY <3>2, <3>3, <3>6 DEF end
  <2>4. [list[k] EXCEPT !.len = @ + list[k + 1].len + 2] = joined
    <3>1. list[k] \in P!Interval
      BY <1>2, <2>1
    <3> QED
      BY <3>1, Lengthened
  <2>5. new = P!RemoveAt([list EXCEPT ![k] = joined], k + 1)
    BY <1>1, <1>2, <1>9, <2>1, <2>4 DEF P!AddId
  <2> HIDE DEF new, joined, fewer
  <2>6. /\ ListSound(fewer) /\ Len(fewer) = Len(list) - 1
        /\ \A i \in 1..Len(fewer) : fewer[i] = IF i < k + 1 THEN list[i] ELSE list[i + 1]
    BY <2>1, Removed DEF fewer
  <2>7. /\ fewer \in Seq(P!Interval) /\ k \in 1..Len(fewer) /\ fewer[k] = list[k]
        /\ \A i \in 1..Len(fewer) : i < k => i \in 1..Len(list) /\ fewer[i] = list[i]
        /\ \A i \in 1..Len(fewer) :
              i > k => i + 1 \in 1..Len(list) /\ i + 1 > k + 1 /\ fewer[i] = list[i + 1]
    BY <1>1, <2>1, <2>6 DEF ListSound
  <2>8. new = [fewer EXCEPT ![k] = joined]
    <3> DEFINE both == [list EXCEPT ![k] = joined]
    <3>1. /\ both \in Seq(P!Interval) /\ Len(both) = Len(list) /\ both[k] = joined
          /\ \A i \in 1..Len(list) : i # k => both[i] = list[i]
      BY <1>2, <2>1, <2>3
    <3> HIDE DEF both
    <3>2. /\ P!RemoveAt(both, k + 1) \in Seq(P!Interval)
          /\ Len(P!RemoveAt(both, k + 1)) = Len(list) - 1
          /\ \A i \in 1..(Len(list) - 1) :
                P!RemoveAt(both, k + 1)[i] = IF i < k + 1 THEN both[i] ELSE both[i + 1]
      BY <2>1, <3>1, RemovedAt
    <3>3. new = P!RemoveAt(both, k + 1)
      BY <2>5 DEF both
    <3>4. ASSUME NEW i \in 1..(Len(list) - 1) PROVE new[i] = [fewer EXCEPT ![k] = joined][i]
      <4>1. i \in 1..Len(fewer) /\ i \in 1..Len(list) /\ i + 1 \in 1..Len(list) /\ i \in Nat
        BY <1>1, <2>6
      <4>2. CASE i = k
        BY <2>1, <2>7, <3>1, <3>2, <3>3, <4>1, <4>2
      <4>3. CASE i < k
        <5>1. i < k + 1 /\ i # k
          BY <1>1, <4>1, <4>3
        <5> QED
          BY <2>7, <3>1, <3>2, <3>3, <4>1, <4>3, <5>1
      <4>4. CASE i > k
        <5>1. ~ (i < k + 1) /\ i # k /\ i + 1 # k
          BY <1>1, <4>1, <4>4
        <5> QED
          BY <2>7, <3>1, <3>2, <3>3, <4>1, <4>4, <5>1
      <4> QED
        BY <1>1, <4>1, <4>2, <4>3, <4>4
    <3>5. /\ [fewer EXCEPT ![k] = joined] \in Seq(P!Interval)
          /\ Len([fewer EXCEPT ![k] = joined]) = Len(list) - 1
      BY <2>3, <2>6, <2>7
    <3>6. new \in Seq(P!Interval) /\ Len(new) = Len(list) - 1
      BY <3>2, <3>3
    <3> HIDE DEF both
    <3> QED
      BY <3>4, <3>5, <3>6, SeqEqual
  <2>9. /\ P!End(joined) < ListIdSpace
        /\ \A i \in 1..Len(fewer) : i < k => P!End(fewer[i]) < joined.id
        /\ \A i \in 1..Len(fewer) : i > k => P!End(joined) < fewer[i].id
    <3>1. P!End(joined) < ListIdSpace
      BY <2>2, <2>3
    <3>2. ASSUME NEW i \in 1..Len(fewer), i < k PROVE P!End(fewer[i]) < joined.id
      BY <1>4, <2>1, <2>3, <2>7, <3>2
    <3>3. ASSUME NEW i \in 1..Len(fewer), i > k PROVE P!End(joined) < fewer[i].id
      <4>1. i + 1 \in 1..Len(list) /\ k + 1 < i + 1 /\ fewer[i] = list[i + 1]
        BY <1>1, <2>6, <2>7, <3>3
      <4> QED
        BY <1>4, <2>1, <2>3, <4>1
    <3> QED
      BY <3>1, <3>2, <3>3
  <2>10. /\ ListSound(new)
         /\ \A x : x \in P!IdsIn(new) <=>
                     \/ x \in joined.id..P!End(joined)
                     \/ \E i \in 1..Len(fewer) : i # k /\ x \in fewer[i].id..P!End(fewer[i])
    BY <2>3, <2>6, <2>7, <2>8, <2>9, Replaced
  <2>11. \A x : x \in joined.id..P!End(joined) <=>
                  \/ x = id
                  \/ x \in list[k].id..P!End(list[k])
                  \/ x \in list[k + 1].id..P!End(list[k + 1])
    <3> DEFINE a == list[k].id
               b == P!End(list[k + 1])
               l == list[k].len
               m == list[k + 1].len
    <3>1. /\ P!End(list[k]) = id - 1 /\ list[k + 1].id = id + 1
          /\ joined.id = a /\ P!End(joined) = b
      BY <1>9, <2>2, <2>3
    <3>2. a \in Nat /\ l \in Nat /\ a + l = id - 1 /\ m \in Nat /\ b = id + 1 + m
      BY <2>2
    <3> HIDE DEF a, b, l, m
    <3>3. \A x : x \in a..b <=> x = id \/ x \in a..(id - 1) \/ x \in (id + 1)..b
      BY <1>1, <3>2
    <3> QED
      BY <3>1, <3>3 DEF a, b
  <2>12. ASSUME NEW x PROVE x \in P!IdsIn(new) <=> x = id \/ x \in P!IdsIn(list)
    <3>1. ASSUME NEW i \in 1..Len(fewer), i # k, x \in fewer[i].id..P!End(fewer[i])
          PROVE  x \in P!IdsIn(list)
      <4>1. i < k \/ i > k
        BY <1>1, <2>6, <3>1
      <4> QED
        BY <1>5, <2>7, <3>1, <4>1
    <3>2. x \in joined.id..P!End(joined) => x = id \/ x \in P!IdsIn(list)
      BY <1>5, <2>1, <2>11
    <3>3. ASSUME NEW i \in 1..Len(list), x \in list[i].id..P!End(list[i])
          PROVE  x \in P!IdsIn(new)
      <4>1. CASE i = k \/ i = k + 1
        BY <2>10, <2>11, <3>3, <4>1
      <4>2. CASE i < k
        <5>1. i \in 1..Len(fewer) /\ i # k
          BY <1>1, <2>6, <4>2
        <5> QED
          BY <2>7, <2>10, <3>3, <4>2, <5>1
      <4>3. CASE i > k + 1
        <5>1. i - 1 \in 1..Len(fewer) /\ i - 1 # k /\ i - 1 > k /\ i - 1 + 1 = i
          BY <1>1, <2>6, <4>3
        <5>2. fewer[i - 1] = list[i]
          BY <2>7, <5>1
        <5> QED
          BY <2>10, <3>3, <5>1, <5>2
      <4> QED
        BY <1>1, <4>1, <4>2, <4>3
    <3>4. x = id => x \in P!IdsIn(new)
      BY <2>10, <2>11
    <3> QED
      BY <1>5, <2>10, <3>1, <3>2, <3>3, <3>4
  <2> QED
    BY <2>10, <2>12 DEF new
<1> QED
  BY <1>6, <1>7, <1>8, <1>9

-------------------------------------------------------------------------------
\* PaList: the list is sound, holds the ids asked, and the answers count each once.
ListInv ==
  /\ ListSound(paList)
  /\ askedIds \subseteq P!PacketIds
  /\ P!IdsIn(paList) = askedIds
  /\ answers = [id \in P!PacketIds |-> IF id \in askedIds THEN 1 ELSE 0]

LEMMA InitList == P!ListInit => ListInv
BY DEF P!ListInit, ListInv, ListSound, P!IdsIn

LEMMA NextList ==
  ASSUME P!PaListAssumption, ListInv, P!ListNext
  PROVE  ListInv'
<1> PICK id \in P!PacketIds : P!CheckPacket(id)
  BY DEF P!ListNext
<1>1. /\ paList' = P!Noted(paList, id)
      /\ askedIds' = askedIds \cup {id}
      /\ answers' = [answers EXCEPT ![id] = IF P!IsNew(paList, id) THEN @ + 1 ELSE @]
  BY DEF P!CheckPacket
<1>2. P!IsNew(paList, id) <=> id \notin askedIds
  BY NewIds DEF ListInv
<1>3. ListSound(paList') /\ P!IdsIn(paList') = askedIds'
  <2>1. CASE id \in askedIds
    BY <1>1, <1>2, <2>1 DEF P!Noted, ListInv
  <2>2. CASE id \notin askedIds
    <3>1. paList' = P!AddId(paList, P!FindInterval(paList, id), id)
      BY <1>1, <1>2, <2>2 DEF P!Noted
    <3>2. /\ P!FindInterval(paList, id) \in 0..Len(paList)
          /\ \A i \in 1..Len(paList) : i <= P!FindInterval(paList, id) => P!End(paList[i]) < id
          /\ \A i \in 1..Len(paList) : i > P!FindInterval(paList, id) => id < paList[i].id
      BY <2>2, Around DEF ListInv
    <3>3. /\ ListSound(paList')
          /\ \A x : x \in P!IdsIn(paList') <=> x = id \/ x \in P!IdsIn(paList)
      BY <3>1, <3>2, Added DEF ListInv
    <3> QED
      BY <1>1, <3>3 DEF ListInv
  <2> QED
    BY <2>1, <2>2
<1>4. answers' = [i \in P!PacketIds |-> IF i \in askedIds' THEN 1 ELSE 0]
  BY <1>1, <1>2 DEF ListInv
<1> QED
  BY <1>1, <1>3, <1>4 DEF ListInv

LEMMA ListSeen == ListInv => P!ListTypeOK /\ P!SeenExactly
<1> SUFFICES ASSUME ListInv PROVE P!ListTypeOK /\ P!SeenExactly
  OBVIOUS
<1>1. Len(paList) \in Nat
  BY DEF ListInv, ListSound
<1> QED
  BY <1>1 DEF ListInv, ListSound, P!ListTypeOK, P!SeenExactly

\* While the list runs, its invariant holds.
ListKept == protocol = "palist" => ListInv

\* The list that keeps copies apart calls each packet new exactly once, in whatever order
\* ids come and come again, through all growing and merging of its intervals (addId and
\* checkPacket of PaList).
THEOREM EachPacketNewOnce == SpecAll => []SeenExactly
<1>1. InitAll => ListKept
  BY InitList DEF InitAll, ListKept
<1>2. ListKept /\ [NextAll]_<<protocol, chainVars, flowVars, listVars>> => ListKept'
  <2> SUFFICES ASSUME ListKept, [NextAll]_<<protocol, chainVars, flowVars, listVars>>,
                      protocol' = "palist"
               PROVE  ListInv'
    BY DEF ListKept
  <2>1. protocol = "palist" /\ ListInv
    BY DEF NextAll, ListKept
  <2>2. UNCHANGED listVars \/ P!ListNext
    BY <2>1 DEF NextAll
  <2>3. CASE UNCHANGED listVars
    BY <2>1, <2>3 DEF listVars, ListInv
  <2>4. CASE P!ListNext
    BY <2>1, <2>4, NextList, ListIdsAssumption
  <2> QED
    BY <2>2, <2>3, <2>4
<1>3. ListKept => SeenExactly
  BY ListSeen DEF ListKept, SeenExactly
<1> QED
  BY <1>1, <1>2, <1>3, PTL DEF SpecAll
===============================================================================
