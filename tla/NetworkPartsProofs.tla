-------------------------- MODULE NetworkPartsProofs --------------------------
(***************************************************************************)
(* Proofs about the parts of NetworkParts, each for any values of its      *)
(* constants that its assumption admits.                                   *)
(***************************************************************************)
EXTENDS NetworkParts, FiniteSetTheorems, SequenceTheorems, WellFoundedInduction, TLAPS

\* A nonempty set of naturals has a least element.
LEMMA LeastExists ==
  ASSUME NEW S \in SUBSET Nat, S # {}
  PROVE  \E x \in S : \A y \in S : x <= y
<1> DEFINE Less == {ss \in Nat \X Nat : ss[1] < ss[2]}
<1>1. IsWellFoundedOn(Less, Nat)
  BY NatLessThanWellFounded DEF OpToRel
<1>2. PICK x \in S : \A y \in S : ~ (<<y, x>> \in Less)
  BY <1>1, WFMin
<1>3. ASSUME NEW y \in S PROVE x <= y
  <2>1. x \in Nat /\ y \in Nat /\ <<y, x>> \notin Less
    BY <1>2
  <2>2. y < x => <<y, x>> \in Less
    BY <2>1
  <2> QED
    BY <2>1, <2>2
<1> QED
  BY <1>3
-------------------------------------------------------------------------------
(* LltcDataIdQueue, for any set of ids, any initial length and any horizon: its *)
(* structures agree, the capacity stays ahead of the queue, and therefore the   *)
(* queue implements a memory that never forgets.                                *)

\* What has to be known of a state to see that the next push does not evict.
IInv == TypeOK /\ Consistent /\ CapacityAhead

\* Init establishes the invariant: all three structures are empty.
LEMMA InitInv == Init => IInv
BY DataIdQueueAssumption
   DEF Init, IInv, TypeOK, Consistent, NoRepetition, SameIds, QueuedIds, CapacityAhead,
       DataIdQueueAssumption

\* Under the invariant push appends a new id and evicts nothing.
LEMMA PushAppends ==
  ASSUME IInv, NEW x \in Ids, Push(x)
  PROVE  /\ q' = Append(q, x)
         /\ set' = set \cup {x}
         /\ dataIdAddTimeMap' = With(dataIdAddTimeMap, x, now)
         /\ n' = n + 1
         /\ x \notin set
         /\ now' = now
<1>1. Len(q) # n
  BY DataIdQueueAssumption DEF IInv, TypeOK, CapacityAhead, DataIdQueueAssumption
<1> QED
  BY <1>1 DEF Push

\* Appending a new id keeps the invariant.
LEMMA PushInv ==
  ASSUME IInv, NEW x \in Ids, Push(x)
  PROVE  IInv'
<1>1. /\ q' = Append(q, x) /\ set' = set \cup {x} /\ n' = n + 1 /\ x \notin set /\ now' = now
      /\ dataIdAddTimeMap' = With(dataIdAddTimeMap, x, now)
  BY PushAppends
<1>2. q \in Seq(Ids) /\ n \in Nat /\ now \in 0..MaxTime /\ set \subseteq Ids
  BY DEF IInv, TypeOK
<1>3. /\ q' \in Seq(Ids) /\ Len(q') = Len(q) + 1 /\ q'[Len(q) + 1] = x
      /\ \A i \in 1..Len(q) : q'[i] = q[i]
  BY <1>1, <1>2
<1>4. QueuedIds' = QueuedIds \cup {x}
  BY <1>2, <1>3 DEF QueuedIds
<1>5. TypeOK'
  <2>1. DOMAIN dataIdAddTimeMap' = DOMAIN dataIdAddTimeMap \cup {x}
    BY <1>1 DEF With
  <2>2. \A y \in DOMAIN dataIdAddTimeMap' : dataIdAddTimeMap'[y] \in 0..MaxTime
    BY <1>1, <1>2, <2>1 DEF With, IInv, TypeOK
  <2> QED
    BY <1>1, <1>2, <1>3, <2>1, <2>2 DEF IInv, TypeOK
<1>6. NoRepetition'
  <2>1. \A i \in 1..Len(q) : q[i] # x
    BY <1>1 DEF IInv, Consistent, SameIds, QueuedIds
  <2> QED
    BY <1>2, <1>3, <2>1 DEF IInv, Consistent, NoRepetition
<1>7. SameIds'
  BY <1>1, <1>4 DEF With, IInv, Consistent, SameIds
<1>8. CapacityAhead'
  BY <1>1, <1>2, <1>3, DataIdQueueAssumption
     DEF IInv, CapacityAhead, DataIdQueueAssumption
<1> QED
  BY <1>5, <1>6, <1>7, <1>8 DEF IInv, Consistent

\* Taking the front out of all three structures keeps the invariant.
LEMMA PopInv ==
  ASSUME IInv, Pop
  PROVE  IInv'
<1>1. /\ q \in Seq(Ids) /\ q # <<>> /\ q' = Tail(q) /\ set' = set \ {Head(q)}
      /\ dataIdAddTimeMap' = Without(dataIdAddTimeMap, Head(q)) /\ n' = n - 1
      /\ now' = now /\ n \in Nat
  BY DEF Pop, IInv, TypeOK
<1>2. /\ Len(q) \in Nat /\ Len(q) > 0 /\ q' \in Seq(Ids) /\ Len(q') = Len(q) - 1
      /\ Head(q) = q[1] /\ \A i \in 1..Len(q') : q'[i] = q[i + 1]
  BY <1>1
<1>3. QueuedIds' = QueuedIds \ {Head(q)}
  <2>1. \A i \in 1..Len(q') : i + 1 \in 1..Len(q) /\ i + 1 # 1
    BY <1>2
  <2>2. \A i \in 1..Len(q) : i = 1 \/ (i - 1 \in 1..Len(q') /\ (i - 1) + 1 = i)
    BY <1>2
  <2>3. \A i \in 1..Len(q') : q'[i] # q[1] /\ q'[i] \in QueuedIds
    <3> TAKE i \in 1..Len(q')
    <3>1. 1 \in 1..Len(q)
      BY <1>2
    <3> QED
      BY <1>2, <2>1, <3>1 DEF IInv, Consistent, NoRepetition, QueuedIds
  <2>4. \A i \in 1..Len(q) : q[i] = q[1] \/ q[i] \in QueuedIds'
    <3> TAKE i \in 1..Len(q)
    <3>1. CASE i = 1
      BY <3>1
    <3>2. CASE i # 1
      <4>1. i - 1 \in 1..Len(q') /\ (i - 1) + 1 = i
        BY <2>2, <3>2
      <4>2. q'[i - 1] = q[i]
        BY <1>2, <4>1
      <4> QED
        BY <4>1, <4>2 DEF QueuedIds
    <3> QED
      BY <3>1, <3>2
  <2>5. QueuedIds' \subseteq QueuedIds \ {q[1]}
    BY <2>3 DEF QueuedIds
  <2>6. QueuedIds \ {q[1]} \subseteq QueuedIds'
    <3> SUFFICES ASSUME NEW y \in QueuedIds, y # q[1] PROVE y \in QueuedIds'
      OBVIOUS
    <3>1. PICK i \in 1..Len(q) : y = q[i]
      BY DEF QueuedIds
    <3> QED
      BY <2>4, <3>1
  <2> QED
    BY <1>2, <2>5, <2>6
<1>4. TypeOK'
  <2>1. DOMAIN dataIdAddTimeMap' = DOMAIN dataIdAddTimeMap \ {Head(q)}
    BY <1>1 DEF Without
  <2>2. \A y \in DOMAIN dataIdAddTimeMap' : dataIdAddTimeMap'[y] \in 0..MaxTime
    BY <1>1, <2>1 DEF Without, IInv, TypeOK
  <2>3. n' \in Nat
    BY <1>1, <1>2, DataIdQueueAssumption DEF IInv, CapacityAhead, DataIdQueueAssumption
  <2> QED
    BY <1>1, <1>2, <2>1, <2>2, <2>3 DEF IInv, TypeOK
<1>5. NoRepetition'
  <2> SUFFICES ASSUME NEW i \in 1..Len(q'), NEW j \in 1..Len(q'), q'[i] = q'[j]
               PROVE  i = j
    BY DEF NoRepetition
  <2>1. i + 1 \in 1..Len(q) /\ j + 1 \in 1..Len(q)
    BY <1>2
  <2>2. q[i + 1] = q[j + 1]
    BY <1>2
  <2>3. i + 1 = j + 1
    BY <2>1, <2>2 DEF IInv, Consistent, NoRepetition
  <2> QED
    BY <2>3
<1>6. SameIds'
  BY <1>1, <1>3 DEF Without, IInv, Consistent, SameIds
<1>7. CapacityAhead'
  BY <1>1, <1>2, DataIdQueueAssumption DEF IInv, CapacityAhead, DataIdQueueAssumption
<1> QED
  BY <1>4, <1>5, <1>6, <1>7 DEF IInv, Consistent

\* The passing of time changes nothing the invariant reads but now.
LEMMA TickInv ==
  ASSUME IInv, Tick
  PROVE  IInv'
BY DataIdQueueAssumption
   DEF Tick, IInv, TypeOK, Consistent, NoRepetition, SameIds, QueuedIds, CapacityAhead,
       DataIdQueueAssumption

\* No step changes the invariant.
LEMMA NextInv == IInv /\ [Next]_vars => IInv'
<1> SUFFICES ASSUME IInv, [Next]_vars PROVE IInv'
  OBVIOUS
<1>1. CASE \E x \in Ids : Push(x)
  BY <1>1, PushInv
<1>2. CASE Pop
  BY <1>2, PopInv
<1>3. CASE Tick
  BY <1>3, TickInv
<1>4. CASE UNCHANGED vars
  BY <1>4 DEF vars, IInv, TypeOK, Consistent, NoRepetition, SameIds, QueuedIds, CapacityAhead
<1> QED
  BY <1>1, <1>2, <1>3, <1>4 DEF Next

\* The inductive invariant holds throughout.
THEOREM Invariance == Spec => []IInv
BY InitInv, NextInv, PTL DEF Spec

\* contains, getDataIdAddTime and the queue agree on the ids held (lltc-common.cpp).
THEOREM StructuresAgree == Spec => []Consistent
<1>1. IInv => Consistent
  BY DEF IInv
<1> QED
  BY <1>1, Invariance, PTL

\* The queue never reaches its capacity: push never evicts (lltc-common.cpp:33).
THEOREM CapacityStaysAhead == Spec => []CapacityAhead
<1>1. IInv => CapacityAhead
  BY DEF IInv
<1> QED
  BY <1>1, Invariance, PTL

\* The queue implements a memory that forgets an id only when it is popped.
THEOREM ImplementsMemory == Spec => NeverForgets
<1>1. Init => Memory!Init
  BY DEF Init, Memory!Init
<1>2. IInv /\ [Next]_vars => [Memory!Next]_q
  <2> SUFFICES ASSUME IInv, [Next]_vars PROVE [Memory!Next]_q
    OBVIOUS
  <2>1. CASE \E x \in Ids : Push(x)
    <3>1. PICK x \in Ids : Push(x)
      BY <2>1
    <3>2. q' = Append(q, x) /\ x \notin Memory!Known
      BY <3>1, PushAppends
         DEF IInv, Consistent, SameIds, QueuedIds, Memory!Known
    <3> QED
      BY <3>2 DEF Memory!Next, Memory!Learn
  <2>2. CASE Pop
    BY <2>2 DEF Pop, Memory!Next, Memory!Forget
  <2>3. CASE Tick
    BY <2>3 DEF Tick
  <2>4. CASE UNCHANGED vars
    BY <2>4 DEF vars
  <2> QED
    BY <2>1, <2>2, <2>3, <2>4 DEF Next
<1> QED
  BY <1>1, <1>2, Invariance, PTL DEF Spec, NeverForgets, Memory!Spec

-------------------------------------------------------------------------------
(* OnOffTraffic, for any packet size, any rate, any times on and off and any   *)
(* limit: the invariant says how much of the next packet has passed at each    *)
(* moment, and how far that is from the time on.                               *)

Runs == {"none", "StartSending", "StopSending"}

LoadTypes ==
  /\ running \in BOOLEAN
  /\ sendAt \in Int
  /\ startStop \in [run : Runs, at : Int]
  /\ lastStartTime \in Nat /\ residualBits \in Nat /\ dataID \in Nat /\ onow \in Nat
  /\ onTime \in Nat /\ cuts \in Nat
  /\ lastOn \in Nat \cup {T!Never}

\* The ticks the load has used: those of the packets sent, of the bits kept.
Used == dataID * (PktBits * BitTicks) + residualBits * BitTicks

\* They differ from the time on by a tick for each packet and a bit for each cut.
Close(used, time) ==
  used <= time + dataID /\ time <= used + cuts * BitTicks

\* On: a packet is due, when what is missing of it has passed or a tick before.
WhileOn ==
  lastOn # T!Never =>
    /\ running
    /\ startStop.run = "StopSending"
    /\ sendAt <= lastStartTime + PktBits * BitTicks - residualBits * BitTicks
    /\ sendAt + 1 >= lastStartTime + PktBits * BitTicks - residualBits * BitTicks
    /\ lastOn <= onow /\ lastStartTime <= onow /\ onow <= sendAt
    /\ Close(Used + (onow - lastStartTime), onTime + onow - lastOn)

\* Off: what is kept of a packet is residualBits.
WhileOff ==
  lastOn = T!Never =>
    /\ sendAt = T!Never
    /\ startStop.run # "StopSending"
    /\ Close(Used, onTime)

\* After the last packet nothing starts again; it is not sent at time 0, the only
\* time an application is started.
AtTheEnd ==
  /\ ~ running => lastOn = T!Never /\ startStop.run = "none"
  /\ onow = 0 => residualBits = 0
  /\ MaxBytes # 0 => dataID <= MaxBytes
  /\ T!LimitReached(dataID) => ~ running /\ onow # 0

LoadInv ==
  /\ LoadTypes
  /\ residualBits <= PktBits
  /\ WhileOn
  /\ WhileOff
  /\ AtTheEnd

\* What is assumed of the constants, as far as the proof needs it.
LEMMA ConstantsInt ==
  ASSUME T!OnOffAssumption
  PROVE  /\ PktBits \in Nat /\ PktBits > 1 /\ BitTicks \in Nat /\ BitTicks > 0 /\ MaxBytes \in Nat
         /\ \A on \in OnTimes : on \in Nat
         /\ \A off \in OffTimes : off \in Nat
BY DEF T!OnOffAssumption

\* A packet takes at least two ticks, and one packet more takes that much more.
LEMMA OneMore ==
  ASSUME T!OnOffAssumption, NEW k \in Nat
  PROVE  /\ PktBits * BitTicks \in Nat /\ PktBits * BitTicks > 1
         /\ k * (PktBits * BitTicks) \in Nat
         /\ (k + 1) * (PktBits * BitTicks) = k * (PktBits * BitTicks) + PktBits * BitTicks
<1>1. PktBits \in Nat /\ PktBits > 1 /\ BitTicks \in Nat /\ BitTicks > 0
  BY ConstantsInt
<1>2. PktBits * BitTicks \in Nat /\ PktBits * BitTicks > 1
  BY <1>1
<1> QED
  BY <1>2

\* The ticks of a number of bits, of one bit more, of the bits of two numbers.
LEMMA TicksOfBits ==
  ASSUME T!OnOffAssumption, NEW a \in Nat, NEW b \in Nat
  PROVE  /\ a * BitTicks \in Nat
         /\ (a + 1) * BitTicks = a * BitTicks + BitTicks
         /\ (a + b) * BitTicks = a * BitTicks + b * BitTicks
         /\ a <= b => (b - a) * BitTicks = b * BitTicks - a * BitTicks
         /\ a <= b => a * BitTicks <= b * BitTicks
         /\ a * BitTicks <= b * BitTicks => a <= b
<1>1. BitTicks \in Nat /\ BitTicks > 0
  BY ConstantsInt
<1>2. /\ a * BitTicks \in Nat
      /\ (a + 1) * BitTicks = a * BitTicks + BitTicks
      /\ (a + b) * BitTicks = a * BitTicks + b * BitTicks
  BY <1>1
<1>3. a <= b => (b - a) * BitTicks = b * BitTicks - a * BitTicks
  BY <1>1
<1>4. ASSUME NEW lo \in Nat, NEW hi \in Nat, lo <= hi PROVE lo * BitTicks <= hi * BitTicks
  <2>1. (hi - lo) * BitTicks \in Nat /\ hi * BitTicks = lo * BitTicks + (hi - lo) * BitTicks
    BY <1>1, <1>4
  <2>2. lo * BitTicks \in Nat /\ hi * BitTicks \in Nat
    BY <1>1
  <2> QED
    BY <2>1, <2>2
<1>5. ASSUME a * BitTicks <= b * BitTicks, b < a PROVE FALSE
  <2>1. (b + 1) * BitTicks <= a * BitTicks
    BY <1>4, <1>5
  <2>2. (b + 1) * BitTicks = b * BitTicks + BitTicks /\ b * BitTicks \in Nat
    BY <1>1
  <2> QED
    BY <1>1, <1>2, <1>5, <2>1, <2>2
<1> QED
  BY <1>2, <1>3, <1>4, <1>5

\* Nothing has been sent and the application is off.
LEMMA InitLoad ==
  ASSUME T!OnOffAssumption, T!Init
  PROVE  LoadInv
<1>0. \A x \in Nat : 0 * x = 0
  OBVIOUS
<1>1. /\ PktBits \in Nat /\ PktBits > 0 /\ BitTicks \in Nat /\ MaxBytes \in Nat
      /\ 0 * (PktBits * BitTicks) = 0 /\ 0 * BitTicks = 0
  <2>1. PktBits \in Nat /\ PktBits > 0 /\ BitTicks \in Nat /\ MaxBytes \in Nat
    BY ConstantsInt
  <2>2. PktBits * BitTicks \in Nat
    BY OneMore
  <2> QED
    BY <1>0, <2>1, <2>2
<1>2. startStop \in [run : Runs, at : Int] /\ startStop.run = "none"
  BY DEF T!Init, Runs, T!NoEvent, T!Never
<1>3. LoadTypes
  <2>1. running \in BOOLEAN
    BY DEF T!Init
  <2> QED
    BY <1>2, <2>1 DEF T!Init, LoadTypes, T!Never
<1>4. residualBits <= PktBits /\ WhileOn /\ WhileOff
  BY <1>1, <1>2 DEF T!Init, WhileOn, WhileOff, Close, Used, T!Never
<1>5. AtTheEnd
  BY <1>1, <1>2 DEF T!Init, AtTheEnd, T!LimitReached
<1> QED
  BY <1>3, <1>4, <1>5 DEF LoadInv

\* When the application goes off, the whole bits that have passed are kept: what is lost
\* of a packet on its way is less than the bit the cut is counted for.
LEMMA BitsKept ==
  ASSUME T!OnOffAssumption, LoadInv,
         T!CancelEvents, T!TurnedOff, dataID' = dataID, startStop'.run # "StopSending"
  PROVE  /\ residualBits' \in Nat /\ residualBits' <= PktBits
         /\ cuts' \in Nat /\ sendAt' = T!Never
         /\ onTime' \in Nat /\ lastOn' = T!Never
         /\ WhileOn' /\ WhileOff'
         /\ onow = 0 => residualBits' = 0
<1>1. /\ residualBits \in Nat /\ dataID \in Nat /\ cuts \in Nat /\ onTime \in Nat
      /\ onow \in Nat /\ lastStartTime \in Nat /\ sendAt \in Int /\ residualBits <= PktBits
  BY DEF LoadInv, LoadTypes
<1>2. PktBits \in Nat /\ BitTicks \in Nat
  BY ConstantsInt
<1>3. sendAt' = T!Never
  BY DEF T!CancelEvents
<1>4. CASE lastOn = T!Never
  <2>1. /\ sendAt = T!Never /\ Close(Used, onTime)
    BY <1>4 DEF LoadInv, WhileOff
  <2>2. /\ residualBits' = residualBits /\ cuts' = cuts
        /\ onTime' = onTime /\ lastOn' = T!Never
    BY <1>4, <2>1 DEF T!CancelEvents, T!TurnedOff
  <2>3. (Close(Used, onTime))'
    BY <2>1, <2>2 DEF Close, Used
  <2>4. WhileOn' /\ WhileOff'
    BY <1>3, <2>2, <2>3 DEF WhileOn, WhileOff
  <2> QED
    BY <1>1, <1>3, <2>2, <2>4 DEF LoadInv, AtTheEnd
<1>5. CASE lastOn # T!Never
  <2> DEFINE since == onow - lastStartTime
             sentTicks == dataID * (PktBits * BitTicks)
             residual == residualBits * BitTicks
             pktTicks == PktBits * BitTicks
             lost == cuts * BitTicks
  <2>1. /\ sendAt <= lastStartTime + pktTicks - residual
        /\ lastOn \in Nat /\ lastOn <= onow /\ lastStartTime <= onow /\ onow <= sendAt
        /\ sentTicks + residual + since <= onTime + onow - lastOn + dataID
        /\ onTime + onow - lastOn <= sentTicks + residual + since + lost
    BY <1>5 DEF LoadInv, LoadTypes, WhileOn, Close, Used
  <2>2. since \in Nat
    BY <1>1, <2>1
  <2>3. sendAt # T!Never
    BY <1>1, <2>1 DEF T!Never
  <2>4. PICK k \in T!WholeBits(since) : residualBits' = residualBits + k
    BY <2>3 DEF T!CancelEvents
  <2>5. cuts' = cuts + 1 /\ onTime' = onTime + onow - lastOn /\ lastOn' = T!Never
    BY <1>5, <2>3 DEF T!CancelEvents, T!TurnedOff
  <2> DEFINE got == k * BitTicks
  <2>6. k \in Nat /\ got <= since /\ since <= (k + 1) * BitTicks
    BY <2>2, <2>4 DEF T!WholeBits
  <2>7. (k + 1) * BitTicks = got + BitTicks /\ got \in Nat
    BY <2>6, TicksOfBits
  <2>8. residualBits' \in Nat /\ residualBits' * BitTicks = residual + got
    BY <1>1, <2>4, <2>6, TicksOfBits
  <2>9. cuts' \in Nat /\ cuts' * BitTicks = lost + BitTicks
    BY <1>1, <2>5, TicksOfBits
  <2>10. sentTicks \in Nat /\ residual \in Nat /\ pktTicks \in Nat /\ lost \in Nat
    BY <1>1, OneMore, TicksOfBits
  <2>11. residual + got <= pktTicks
    <3> HIDE DEF got, residual, pktTicks
    <3> QED
      BY <1>1, <2>1, <2>2, <2>6, <2>7, <2>10
  <2>12. residualBits' <= PktBits
    BY <1>2, <2>8, <2>11, TicksOfBits
  <2>13. onow = 0 => residualBits' = 0
    <3>1. SUFFICES ASSUME onow = 0 PROVE residualBits' = 0
      OBVIOUS
    <3>2. residualBits = 0
      BY <3>1 DEF LoadInv, AtTheEnd
    <3>3. got <= 0 * BitTicks
      BY <1>1, <1>2, <2>1, <2>6, <3>1
    <3>4. k <= 0
      BY <2>6, <3>3, TicksOfBits
    <3> QED
      BY <2>4, <2>6, <3>2, <3>4
  <2>14. /\ sentTicks + (residual + got) <= onTime' + dataID
         /\ onTime' <= sentTicks + (residual + got) + (lost + BitTicks)
    <3> HIDE DEF got, residual, pktTicks, sentTicks, lost
    <3> QED
      BY <1>1, <1>2, <2>1, <2>2, <2>5, <2>6, <2>7, <2>10
  <2>15. (Close(Used, onTime))'
    BY <2>8, <2>9, <2>14 DEF Close, Used
  <2>16. WhileOn' /\ WhileOff'
    BY <1>3, <2>5, <2>15 DEF WhileOn, WhileOff
  <2>17. onTime' \in Nat
    BY <1>1, <2>1, <2>5
  <2> QED
    BY <1>3, <2>5, <2>8, <2>9, <2>12, <2>13, <2>16, <2>17
<1> QED
  BY <1>4, <1>5

\* An event at which the application goes on, and one at which it goes off.
LEMMA Events ==
  ASSUME T!OnOffAssumption, LoadInv
  PROVE  /\ T!ScheduleStartEvent =>
              startStop' \in [run : Runs, at : Int] /\ startStop'.run = "StartSending"
         /\ T!ScheduleStopEvent =>
              startStop' \in [run : Runs, at : Int] /\ startStop'.run = "StopSending"
BY ConstantsInt DEF LoadInv, LoadTypes, Runs, T!ScheduleStartEvent, T!ScheduleStopEvent

\* Only an application that was never on, or went off before any time gone, is started.
LEMMA StartApplicationInv ==
  ASSUME T!OnOffAssumption, LoadInv, T!StartApplication
  PROVE  LoadInv'
<1>1. /\ startStop' \in [run : Runs, at : Int] /\ startStop'.run = "StartSending"
      /\ running' = TRUE /\ ~ running /\ onow = 0 /\ lastOn = T!Never
      /\ UNCHANGED <<sendAt, lastStartTime, residualBits, dataID, onow, onTime, lastOn, cuts>>
  BY Events DEF T!StartApplication, LoadInv, AtTheEnd
<1>2. LoadTypes'
  BY <1>1 DEF LoadInv, LoadTypes
<1>3. WhileOn' /\ WhileOff'
  BY <1>1 DEF LoadInv, WhileOn, WhileOff, Close, Used
<1>4. AtTheEnd'
  BY <1>1 DEF LoadInv, AtTheEnd, T!LimitReached
<1> QED
  BY <1>1, <1>2, <1>3, <1>4 DEF LoadInv

\* What is missing of a packet is waited for, to the tick or a tick short.
LEMMA NextTx ==
  ASSUME T!OnOffAssumption, NEW kept \in Nat, kept <= PktBits, onow \in Nat,
         T!ScheduleNextTx(kept)
  PROVE  /\ sendAt' \in Nat /\ onow <= sendAt'
         /\ sendAt' <= onow + PktBits * BitTicks - kept * BitTicks
         /\ sendAt' + 1 >= onow + PktBits * BitTicks - kept * BitTicks
<1> DEFINE wait == (PktBits - kept) * BitTicks
<1>1. PktBits \in Nat /\ PktBits - kept \in Nat
  BY ConstantsInt
<1>2. wait \in Nat
  BY <1>1, TicksOfBits
<1>3. wait = PktBits * BitTicks - kept * BitTicks
  BY <1>1, TicksOfBits
<1>4. PktBits * BitTicks \in Nat /\ kept * BitTicks \in Nat
  BY <1>1, TicksOfBits
<1>5. PICK early \in {0, 1} : early <= wait /\ sendAt' = onow + wait - early
  BY DEF T!ScheduleNextTx
<1> HIDE DEF wait
<1> QED
  BY <1>2, <1>3, <1>4, <1>5

\* The application goes on with the bits it kept.
LEMMA StartSendingInv ==
  ASSUME T!OnOffAssumption, LoadInv, T!StartSending
  PROVE  LoadInv'
<1>1. /\ startStop' \in [run : Runs, at : Int] /\ startStop'.run = "StopSending"
      /\ startStop.run = "StartSending"
      /\ lastStartTime' = onow /\ lastOn' = onow /\ T!ScheduleNextTx(residualBits)
      /\ UNCHANGED <<running, residualBits, dataID, onow, onTime, cuts>>
  BY Events DEF T!StartSending
<1>2. lastOn = T!Never /\ running
  BY <1>1 DEF LoadInv, WhileOn, AtTheEnd
<1>3. /\ onow \in Nat /\ residualBits \in Nat /\ onTime \in Nat /\ dataID \in Nat /\ cuts \in Nat
      /\ residualBits <= PktBits
  BY DEF LoadInv, LoadTypes
<1>4. /\ sendAt' \in Nat /\ onow <= sendAt'
      /\ sendAt' <= onow + PktBits * BitTicks - residualBits * BitTicks
      /\ sendAt' + 1 >= onow + PktBits * BitTicks - residualBits * BitTicks
  BY <1>1, <1>3, NextTx
<1>5. LoadTypes'
  BY <1>1, <1>3, <1>4 DEF LoadInv, LoadTypes
<1>6. WhileOn'
  <2> DEFINE sentTicks == dataID * (PktBits * BitTicks)
             residual == residualBits * BitTicks
             lost == cuts * BitTicks
  <2>1. sentTicks + residual <= onTime + dataID /\ onTime <= sentTicks + residual + lost
    BY <1>2 DEF LoadInv, WhileOff, Close, Used
  <2>2. sentTicks \in Nat /\ residual \in Nat /\ lost \in Nat
    BY <1>3, OneMore, TicksOfBits
  <2>3. /\ sentTicks + residual + (onow - onow) <= onTime + onow - onow + dataID
        /\ onTime + onow - onow <= sentTicks + residual + (onow - onow) + lost
    <3> HIDE DEF sentTicks, residual, lost
    <3> QED
      BY <1>3, <2>1, <2>2
  <2>4. (Close(Used + (onow - lastStartTime), onTime + onow - lastOn))'
    BY <1>1, <2>3 DEF Close, Used
  <2>5. /\ running' /\ startStop'.run = "StopSending"
        /\ lastOn' <= onow' /\ lastStartTime' <= onow' /\ onow' <= sendAt'
    BY <1>1, <1>2, <1>3, <1>4
  <2> QED
    BY <1>1, <1>4, <2>4, <2>5 DEF WhileOn
<1>7. WhileOff'
  BY <1>1, <1>3 DEF WhileOff, T!Never
<1>8. AtTheEnd'
  BY <1>1, <1>2 DEF LoadInv, AtTheEnd, T!LimitReached
<1> QED
  BY <1>1, <1>3, <1>5, <1>6, <1>7, <1>8 DEF LoadInv

\* The time on is over.
LEMMA StopSendingInv ==
  ASSUME T!OnOffAssumption, LoadInv, T!StopSending
  PROVE  LoadInv'
<1>1. /\ startStop' \in [run : Runs, at : Int] /\ startStop'.run = "StartSending"
      /\ startStop.run = "StopSending"
      /\ T!CancelEvents /\ T!TurnedOff
      /\ UNCHANGED <<running, lastStartTime, dataID, onow>>
  BY Events DEF T!StopSending
<1>2. /\ residualBits' \in Nat /\ residualBits' <= PktBits /\ onTime' \in Nat
      /\ cuts' \in Nat /\ sendAt' = T!Never
      /\ lastOn' = T!Never /\ WhileOn' /\ WhileOff'
      /\ onow = 0 => residualBits' = 0
  BY <1>1, BitsKept
<1>3. LoadTypes'
  BY <1>1, <1>2 DEF LoadInv, LoadTypes, T!Never
<1>4. running
  BY <1>1 DEF LoadInv, AtTheEnd
<1>5. AtTheEnd'
  BY <1>1, <1>2, <1>4 DEF LoadInv, AtTheEnd, T!LimitReached
<1> QED
  BY <1>2, <1>3, <1>5 DEF LoadInv

\* The scenario stops the application.
LEMMA StopInv ==
  ASSUME T!OnOffAssumption, LoadInv, T!Stop
  PROVE  LoadInv'
<1>1. /\ startStop' \in [run : Runs, at : Int] /\ startStop'.run = "none"
      /\ running /\ running' = FALSE
      /\ T!CancelEvents /\ T!TurnedOff
      /\ UNCHANGED <<lastStartTime, dataID, onow>>
  BY DEF T!Stop, T!StopApplication, T!NoEvent, T!Never, Runs
<1>2. /\ residualBits' \in Nat /\ residualBits' <= PktBits /\ onTime' \in Nat
      /\ cuts' \in Nat /\ sendAt' = T!Never
      /\ lastOn' = T!Never /\ WhileOn' /\ WhileOff'
      /\ onow = 0 => residualBits' = 0
  BY <1>1, BitsKept
<1>3. LoadTypes'
  <2>1. running' \in BOOLEAN
    BY <1>1
  <2> QED
    BY <1>1, <1>2, <2>1 DEF LoadInv, LoadTypes, T!Never
<1>4. AtTheEnd'
  BY <1>1, <1>2 DEF LoadInv, AtTheEnd, T!LimitReached
<1> QED
  BY <1>2, <1>3, <1>4 DEF LoadInv

\* A packet is sent when its bits have passed: none are left over.  The last one also
\* ends the application.
LEMMA SendPacketInv ==
  ASSUME T!OnOffAssumption, LoadInv, T!SendPacket
  PROVE  LoadInv'
<1> DEFINE since == onow - lastStartTime
           time   == onTime + onow - lastOn
           sentTicks      == dataID * (PktBits * BitTicks)
           residual      == residualBits * BitTicks
           pktTicks      == PktBits * BitTicks
           lost      == cuts * BitTicks
<1>1. /\ sendAt = onow /\ dataID' = dataID + 1 /\ lastStartTime' = onow /\ onow' = onow
      /\ residualBits' = 0 /\ cuts' = cuts
  BY DEF T!SendPacket
<1>2. /\ onow \in Nat /\ residualBits \in Nat /\ onTime \in Nat /\ lastStartTime \in Nat
      /\ dataID \in Nat /\ cuts \in Nat /\ residualBits <= PktBits
  BY DEF LoadInv, LoadTypes
<1>3. /\ PktBits \in Nat /\ BitTicks \in Nat /\ MaxBytes \in Nat
      /\ pktTicks \in Nat /\ pktTicks > 1
      /\ sentTicks \in Nat /\ dataID' * pktTicks = sentTicks + pktTicks
      /\ residual \in Nat /\ lost \in Nat /\ 0 * BitTicks = 0
  <2>1. PktBits \in Nat /\ BitTicks \in Nat /\ MaxBytes \in Nat
    BY ConstantsInt
  <2>2. pktTicks \in Nat /\ pktTicks > 1 /\ sentTicks \in Nat /\ (dataID + 1) * pktTicks = sentTicks + pktTicks
    BY <1>2, OneMore
  <2>3. residual \in Nat /\ lost \in Nat
    BY <1>2, TicksOfBits
  <2>4. 0 * BitTicks = 0
    BY <2>1
  <2> QED
    BY <1>1, <2>1, <2>2, <2>3, <2>4
<1>4. lastOn # T!Never
  BY <1>1, <1>2 DEF LoadInv, WhileOff, T!Never
<1>5. /\ running /\ startStop.run = "StopSending"
      /\ onow <= lastStartTime + pktTicks - residual /\ onow + 1 >= lastStartTime + pktTicks - residual
      /\ lastOn \in Nat /\ lastOn <= onow /\ lastStartTime <= onow
      /\ sentTicks + residual + since <= time + dataID
      /\ time <= sentTicks + residual + since + lost
  BY <1>1, <1>4 DEF LoadInv, LoadTypes, WhileOn, Close, Used
<1>6. sentTicks + pktTicks <= time + (dataID + 1) /\ time <= sentTicks + pktTicks + lost /\ time \in Nat
  <2> HIDE DEF sentTicks, residual, pktTicks, lost
  <2> QED
    BY <1>2, <1>3, <1>5
<1>7. onow # 0
  <2>1. SUFFICES ASSUME onow = 0 PROVE FALSE
    OBVIOUS
  <2>2. residualBits = 0
    BY <2>1 DEF LoadInv, AtTheEnd
  <2>3. residual = 0
    BY <1>3, <2>2
  <2> HIDE DEF residual, pktTicks
  <2> QED
    BY <1>2, <1>3, <1>5, <2>1, <2>3
<1>8. MaxBytes # 0 => dataID < MaxBytes
  BY <1>2, <1>3, <1>5 DEF LoadInv, AtTheEnd, T!LimitReached
<1>9. CASE T!LimitReached(dataID + 1)
  <2>1. /\ running' = FALSE /\ sendAt' = T!Never /\ startStop' = T!NoEvent
        /\ onTime' = time /\ lastOn' = T!Never
    BY <1>4, <1>9 DEF T!SendPacket, T!TurnedOff
  <2>2. startStop' \in [run : Runs, at : Int] /\ startStop'.run = "none"
    BY <2>1 DEF T!NoEvent, T!Never, Runs
  <2>3. onTime' \in Nat
    BY <1>6, <2>1
  <2>4. LoadTypes'
    <3>1. running' \in BOOLEAN
      BY <2>1
    <3> QED
      BY <1>1, <1>2, <2>1, <2>2, <2>3, <3>1 DEF LoadTypes, T!Never
  <2>5. dataID' * pktTicks + residualBits' * BitTicks = sentTicks + pktTicks
    <3>1. residualBits' * BitTicks = 0
      BY <1>1, <1>3
    <3> HIDE DEF sentTicks, pktTicks
    <3> QED
      BY <1>3, <3>1
  <2>6. (Close(Used, onTime))'
    BY <1>1, <1>6, <2>1, <2>5 DEF Close, Used
  <2>7. WhileOn' /\ WhileOff'
    BY <2>1, <2>2, <2>6 DEF WhileOn, WhileOff
  <2>8. AtTheEnd'
    BY <1>1, <1>2, <1>3, <1>7, <1>8, <2>1, <2>2 DEF AtTheEnd
  <2> QED
    BY <1>1, <1>3, <2>4, <2>7, <2>8 DEF LoadInv
<1>10. CASE ~ T!LimitReached(dataID + 1)
  <2>1. T!ScheduleNextTx(0) /\ UNCHANGED <<running, startStop, onTime, lastOn>>
    BY <1>10 DEF T!SendPacket
  <2>2. /\ sendAt' \in Nat /\ onow <= sendAt'
        /\ sendAt' <= onow + pktTicks - 0 * BitTicks
        /\ sendAt' + 1 >= onow + pktTicks - 0 * BitTicks
    BY <1>2, <1>3, <2>1, NextTx
  <2>3. LoadTypes'
    BY <1>1, <1>2, <2>1, <2>2 DEF LoadInv, LoadTypes
  <2>4. WhileOn'
    <3>1. running' /\ startStop'.run = "StopSending"
      BY <1>5, <2>1
    <3>2. lastOn' <= onow' /\ lastStartTime' <= onow' /\ onow' <= sendAt'
      BY <1>1, <1>2, <1>5, <2>1, <2>2
    <3>3. dataID' * pktTicks + residualBits' * BitTicks + (onow - onow) = sentTicks + pktTicks
      <4>1. residualBits' * BitTicks = 0
        BY <1>1, <1>3
      <4> HIDE DEF sentTicks, pktTicks
      <4> QED
        BY <1>2, <1>3, <4>1
    <3>4. (Close(Used + (onow - lastStartTime), onTime + onow - lastOn))'
      BY <1>1, <1>6, <2>1, <3>3 DEF Close, Used
    <3> QED
      BY <1>1, <2>2, <3>1, <3>2, <3>4 DEF WhileOn
  <2>5. WhileOff'
    BY <1>4, <2>1 DEF WhileOff
  <2>6. AtTheEnd'
    BY <1>1, <1>2, <1>3, <1>5, <1>7, <1>8, <1>10, <2>1 DEF AtTheEnd, T!LimitReached
  <2> QED
    BY <1>1, <1>3, <2>3, <2>4, <2>5, <2>6 DEF LoadInv
<1> QED
  BY <1>9, <1>10

\* Time passes a packet that is due only when it has been sent.
LEMMA LoadTickInv ==
  ASSUME T!OnOffAssumption, LoadInv, T!Tick
  PROVE  LoadInv'
<1>1. /\ sendAt # onow /\ onow' = onow + 1
      /\ UNCHANGED <<running, sendAt, startStop, lastStartTime, residualBits, dataID, onTime, lastOn,
                     cuts>>
  BY DEF T!Tick
<1>2. /\ onow \in Nat /\ residualBits \in Nat /\ onTime \in Nat /\ lastStartTime \in Nat
      /\ dataID \in Nat /\ sendAt \in Int /\ cuts \in Nat
  BY DEF LoadInv, LoadTypes
<1>3. LoadTypes'
  BY <1>1, <1>2 DEF LoadInv, LoadTypes
<1>4. WhileOn'
  <2> SUFFICES ASSUME lastOn' # T!Never PROVE WhileOn'
    BY DEF WhileOn
  <2> DEFINE use == dataID * (PktBits * BitTicks) + residualBits * BitTicks
             lost == cuts * BitTicks
  <2>1. /\ running /\ startStop.run = "StopSending"
        /\ sendAt <= lastStartTime + PktBits * BitTicks - residualBits * BitTicks
        /\ sendAt + 1 >= lastStartTime + PktBits * BitTicks - residualBits * BitTicks
        /\ lastOn \in Nat /\ lastOn <= onow /\ lastStartTime <= onow /\ onow <= sendAt
        /\ use + (onow - lastStartTime) <= onTime + onow - lastOn + dataID
        /\ onTime + onow - lastOn <= use + (onow - lastStartTime) + lost
    BY <1>1 DEF LoadInv, LoadTypes, WhileOn, Close, Used
  <2>2. lastOn' <= onow' /\ lastStartTime' <= onow' /\ onow' <= sendAt'
    BY <1>1, <1>2, <2>1
  <2>3. use \in Nat /\ lost \in Nat
    <3>1. dataID * (PktBits * BitTicks) \in Nat
      BY <1>2, OneMore
    <3>2. residualBits * BitTicks \in Nat /\ cuts * BitTicks \in Nat
      BY <1>2, TicksOfBits
    <3> QED
      BY <3>1, <3>2
  <2>4. /\ use + ((onow + 1) - lastStartTime) <= onTime + (onow + 1) - lastOn + dataID
        /\ onTime + (onow + 1) - lastOn <= use + ((onow + 1) - lastStartTime) + lost
    <3> HIDE DEF use, lost
    <3> QED
      BY <1>2, <2>1, <2>3
  <2>5. (Close(Used + (onow - lastStartTime), onTime + onow - lastOn))'
    <3>1. (onTime + onow - lastOn)' = onTime + ((onow + 1) - lastOn)
      BY <1>1
    <3>2. (dataID * (PktBits * BitTicks) + residualBits * BitTicks + (onow - lastStartTime))'
            = use + ((onow + 1) - lastStartTime)
      BY <1>1
    <3>3. dataID' = dataID /\ cuts' * BitTicks = lost
      BY <1>1
    <3> HIDE DEF use, lost
    <3> QED
      BY <2>4, <3>1, <3>2, <3>3 DEF Close, Used
  <2> QED
    BY <1>1, <2>1, <2>2, <2>5 DEF WhileOn
<1>5. WhileOff'
  BY <1>1 DEF LoadInv, WhileOff, Close, Used
<1>6. AtTheEnd'
  BY <1>1, <1>2 DEF LoadInv, AtTheEnd, T!LimitReached
<1> QED
  BY <1>1, <1>3, <1>4, <1>5, <1>6 DEF LoadInv

\* The invariant says how much of the next packet has gone, no more than a packet.
LEMMA RateFromInv ==
  ASSUME T!OnOffAssumption, LoadInv
  PROVE  T!RateKept
<1> DEFINE since == onow - lastStartTime
           sentTicks      == dataID * (PktBits * BitTicks)
           residual      == residualBits * BitTicks
           pktTicks      == PktBits * BitTicks
           lost      == cuts * BitTicks
<1>1. /\ onow \in Nat /\ residualBits \in Nat /\ onTime \in Nat /\ lastStartTime \in Nat
      /\ dataID \in Nat /\ cuts \in Nat /\ sendAt \in Int /\ residualBits <= PktBits
  BY DEF LoadInv, LoadTypes
<1>2. PktBits \in Nat
  BY ConstantsInt
<1>3. /\ pktTicks \in Nat /\ sentTicks \in Nat /\ (dataID + 1) * pktTicks = sentTicks + pktTicks
      /\ residual \in Nat /\ lost \in Nat /\ residual <= pktTicks
  BY <1>1, <1>2, OneMore, TicksOfBits
<1>4. sentTicks <= T!TimeOn + dataID /\ T!TimeOn <= sentTicks + pktTicks + lost
  <2>1. CASE lastOn = T!Never
    <3>1. sentTicks + residual <= onTime + dataID /\ onTime <= sentTicks + residual + lost
      BY <2>1 DEF LoadInv, WhileOff, Close, Used
    <3>2. T!TimeOn = onTime
      BY <2>1 DEF T!TimeOn
    <3> HIDE DEF sentTicks, residual, pktTicks, lost
    <3> QED
      BY <1>1, <1>3, <3>1, <3>2
  <2>2. CASE lastOn # T!Never
    <3>1. /\ sendAt <= lastStartTime + pktTicks - residual
          /\ lastOn \in Nat /\ lastStartTime <= onow /\ onow <= sendAt
          /\ sentTicks + residual + since <= onTime + onow - lastOn + dataID
          /\ onTime + onow - lastOn <= sentTicks + residual + since + lost
      BY <2>2 DEF LoadInv, LoadTypes, WhileOn, Close, Used
    <3>2. T!TimeOn = onTime + onow - lastOn
      BY <2>2 DEF T!TimeOn
    <3> HIDE DEF sentTicks, residual, pktTicks, lost
    <3> QED
      BY <1>1, <1>3, <3>1, <3>2
  <2> QED
    BY <2>1, <2>2
<1>5. MaxBytes # 0 => dataID <= MaxBytes
  BY DEF LoadInv, AtTheEnd
<1> QED
  BY <1>3, <1>4, <1>5 DEF T!RateKept, T!PktTicks

\* It also says that nothing is due in the past and that the load is on when it is to stop.
LEMMA LoadTypesFromInv ==
  ASSUME T!OnOffAssumption, LoadInv
  PROVE  T!TypeOK
<1>1. PktBits \in Nat /\ onow \in Nat /\ residualBits \in Nat /\ residualBits <= PktBits
      /\ running \in BOOLEAN
  BY ConstantsInt DEF LoadInv, LoadTypes
<1>2. CASE lastOn = T!Never
  BY <1>1, <1>2 DEF LoadInv, WhileOff, T!TypeOK
<1>3. CASE lastOn # T!Never
  BY <1>1, <1>3 DEF LoadInv, WhileOn, T!TypeOK
<1> QED
  BY <1>2, <1>3

\* At every moment, for every packet size, rate, times and limit, the packets sent are
\* those the time on has room for, up to a tick for each packet and a bit for each time a
\* packet on its way was cut short (ScheduleNextTx and CancelEvents of OnOffApplication,
\* which drop what is not a whole tick, a whole bit).
THEOREM KeepsRate ==
  ASSUME T!OnOffAssumption
  PROVE  T!Spec => [](T!TypeOK /\ T!RateKept)
<1>1. T!Init => LoadInv
  BY InitLoad
<1>2. LoadInv /\ [T!Next]_T!vars => LoadInv'
  <2> SUFFICES ASSUME LoadInv, [T!Next]_T!vars PROVE LoadInv'
    OBVIOUS
  <2>1. CASE T!Next
    BY <2>1, StartApplicationInv, StartSendingInv, StopSendingInv, SendPacketInv, StopInv,
       LoadTickInv
       DEF T!Next
  <2>2. CASE UNCHANGED T!vars
    BY <2>2 DEF T!vars, LoadInv, LoadTypes, WhileOn, WhileOff, AtTheEnd, Close, Used, T!LimitReached
  <2> QED
    BY <2>1, <2>2
<1>3. LoadInv => T!TypeOK /\ T!RateKept
  BY LoadTypesFromInv, RateFromInv
<1> QED
  BY <1>1, <1>2, <1>3, PTL DEF T!Spec
-------------------------------------------------------------------------------
(* ResequenceQueue, for any stream, any capacity and any time to wait.          *)

LEMMA QueueConstants ==
  ASSUME R!ResequenceQueueAssumption
  PROVE  /\ MaxDataId \in Nat /\ size \in Nat /\ size > 0 /\ maxWaitTime \in Nat /\ maxWaitTime > 0
         /\ ArrivalTime \in Nat
BY DEF R!ResequenceQueueAssumption

\* How many of the ids are below d.
Below(ids, d) == {e \in ids : e < d}

LEMMA RanksOf ==
  ASSUME NEW ids, ids \subseteq Int, IsFiniteSet(ids)
  PROVE  /\ \A d \in ids : Cardinality(Below(ids, d)) \in 0..(Cardinality(ids) - 1)
         /\ \A d, e \in ids : Cardinality(Below(ids, d)) = Cardinality(Below(ids, e)) => d = e
         /\ \A k \in 0..(Cardinality(ids) - 1) : \E d \in ids : Cardinality(Below(ids, d)) = k
         /\ Cardinality(ids) \in Nat
<1> DEFINE z == Cardinality(ids) rank == [d \in ids |-> Cardinality(Below(ids, d))]
<1>1. z \in Nat
  BY FS_CardinalityType
<1>2. ASSUME NEW d \in ids
      PROVE  /\ IsFiniteSet(Below(ids, d)) /\ Cardinality(Below(ids, d)) \in Nat
             /\ Cardinality(Below(ids, d)) <= z - 1
  <2>1. Below(ids, d) \in SUBSET ids /\ d \notin Below(ids, d)
    BY DEF Below
  <2>2. IsFiniteSet(Below(ids, d)) /\ Cardinality(Below(ids, d)) <= z
    BY <2>1, FS_Subset
  <2>3. Cardinality(Below(ids, d)) # z
    BY <2>1, FS_Subset
  <2>4. Cardinality(Below(ids, d)) \in Nat
    BY <2>2, FS_CardinalityType
  <2> QED
    BY <1>1, <2>2, <2>3, <2>4
<1>3. ASSUME NEW d \in ids, NEW e \in ids, d < e
      PROVE  Cardinality(Below(ids, d)) < Cardinality(Below(ids, e))
  <2>3. d \in Int /\ e \in Int
    OBVIOUS
  <2>4. \A x \in ids : x < d => x < e
    <3> TAKE x \in ids
    <3>1. x \in Int
      OBVIOUS
    <3> QED
      BY <1>3, <2>3, <3>1
  <2>1. Below(ids, d) \in SUBSET Below(ids, e) /\ d \in Below(ids, e) /\ d \notin Below(ids, d)
    <3>1. Below(ids, d) \subseteq Below(ids, e)
      BY <2>4 DEF Below
    <3>2. d \in Below(ids, e)
      BY <1>3 DEF Below
    <3>3. d \notin Below(ids, d)
      <4>1. ~ (d < d)
        BY <2>3
      <4> QED
        BY <4>1 DEF Below
    <3> QED
      BY <3>1, <3>2, <3>3
  <2>2. /\ Cardinality(Below(ids, d)) <= Cardinality(Below(ids, e))
        /\ Cardinality(Below(ids, d)) # Cardinality(Below(ids, e))
    BY <1>2, <2>1, FS_Subset
  <2> QED
    BY <1>2, <2>2
<1>4. ASSUME NEW d \in ids, NEW e \in ids, Cardinality(Below(ids, d)) = Cardinality(Below(ids, e))
      PROVE  d = e
  <2>1. ~ (d < e) /\ ~ (e < d)
    BY <1>2, <1>3, <1>4
  <2> QED
    BY <2>1
<1>5. rank \in Injection(ids, 0..(z - 1))
  <2>1. rank \in [ids -> 0..(z - 1)]
    BY <1>1, <1>2
  <2>2. \A a, b \in ids : rank[a] = rank[b] => a = b
    BY <1>4
  <2> QED
    BY <2>1, <2>2 DEF Injection, IsInjective
<1> HIDE DEF z
<1>6. IsFiniteSet(0..(z - 1)) /\ Cardinality(0..(z - 1)) = z
  <2>1. 0 \in Int /\ z - 1 \in Int
    BY <1>1
  <2>2. /\ IsFiniteSet(0..(z - 1))
        /\ Cardinality(0..(z - 1)) = IF 0 > z - 1 THEN 0 ELSE (z - 1) - 0 + 1
    BY <2>1, FS_Interval
  <2> QED
    BY <1>1, <2>2
<1>7. rank \in Surjection(ids, 0..(z - 1))
  <2> HIDE DEF rank
  <2>1. Cardinality(ids) = Cardinality(0..(z - 1))
    BY <1>6 DEF z
  <2> QED
    BY <1>5, <1>6, <2>1, FS_Injection
<1>8. \A k \in 0..(z - 1) : \E d \in ids : Cardinality(Below(ids, d)) = k
  <2>1. \A k \in 0..(z - 1) : \E d \in ids : rank[d] = k
    <3> HIDE DEF rank
    <3> QED
      BY <1>7 DEF Surjection
  <2> QED
    BY <2>1
<1> QED
  BY <1>1, <1>2, <1>4, <1>8 DEF z

\* A set in ascending order: a sequence of its members, each once.
LEMMA AscendingIs ==
  ASSUME NEW ids, ids \subseteq Int, IsFiniteSet(ids), NEW s, s = R!Ascending(ids)
  PROVE  s \in Seq(ids) /\ Len(s) = Cardinality(ids) /\ Len(s) \in Nat /\ R!Range(s) = ids
<1> DEFINE z == Cardinality(ids)
<1>1. s = [k \in 1..z |-> CHOOSE d \in ids : Cardinality(Below(ids, d)) = k - 1]
  BY DEF R!Ascending, R!Cardinality, Cardinality, Below
<1>2. z \in Nat
  BY RanksOf
<1>3. \A k \in 1..z : s[k] \in ids /\ Cardinality(Below(ids, s[k])) = k - 1
  <2> TAKE k \in 1..z
  <2>1. k - 1 \in 0..(z - 1)
    BY <1>2
  <2>2. \E d \in ids : Cardinality(Below(ids, d)) = k - 1
    BY <2>1, RanksOf
  <2> QED
    BY <1>1, <2>2
<1>4. DOMAIN s = 1..z
  BY <1>1
<1>5. s \in Seq(ids) /\ Len(s) = z
  <2>1. s = [k \in 1..z |-> s[k]]
    BY <1>1
  <2> HIDE DEF z
  <2> QED
    BY <1>2, <1>3, <2>1, IsASeq
<1>6. \A d \in ids : \E k \in 1..z : s[k] = d
  <2> TAKE d \in ids
  <2> DEFINE k == Cardinality(Below(ids, d)) + 1
  <2>1. k \in 1..z /\ k - 1 = Cardinality(Below(ids, d))
    <3>1. Cardinality(Below(ids, d)) \in 0..(z - 1)
      BY RanksOf
    <3> QED
      BY <1>2, <3>1
  <2>2. s[k] \in ids /\ Cardinality(Below(ids, s[k])) = Cardinality(Below(ids, d))
    <3> HIDE DEF k
    <3> QED
      BY <1>3, <2>1
  <2>3. s[k] = d
    BY <2>2, RanksOf
  <2> QED
    BY <2>1, <2>3
<1> QED
  BY <1>2, <1>3, <1>4, <1>5, <1>6 DEF R!Range

LEMMA DataIdsAre ==
  ASSUME R!ResequenceQueueAssumption
  PROVE  /\ R!DataIds \subseteq Nat /\ IsFiniteSet(R!DataIds)
         /\ \A ids : ids \subseteq R!DataIds => IsFiniteSet(ids) /\ ids \subseteq Int /\ ids \subseteq Nat
<1>1. R!DataIds \subseteq Nat
  BY QueueConstants DEF R!DataIds
<1>2. IsFiniteSet(R!DataIds)
  BY QueueConstants, FS_Interval DEF R!DataIds
<1>3. ASSUME NEW ids, ids \subseteq R!DataIds
      PROVE  IsFiniteSet(ids) /\ ids \subseteq Int /\ ids \subseteq Nat
  <2>1. ids \in SUBSET R!DataIds
    BY <1>3
  <2>2. IsFiniteSet(ids)
    BY <1>2, <2>1, FS_Subset
  <2> QED
    BY <1>1, <1>3, <2>2
<1> QED
  BY <1>1, <1>2, <1>3

\* A nonempty set of ids has a greatest and a least one.
LEMMA Extremes ==
  ASSUME R!ResequenceQueueAssumption, NEW ids \in SUBSET R!DataIds, ids # {}
  PROVE  /\ R!Max(ids) \in ids
         /\ R!Min(ids) \in ids /\ \A d \in ids : R!Min(ids) <= d
<1>1. ids \in SUBSET Nat
  BY DataIdsAre
<1>2. \E x \in ids : \A y \in ids : x <= y
  BY <1>1, LeastExists
<1>3. R!Min(ids) \in ids /\ \A d \in ids : R!Min(ids) <= d
  BY <1>2 DEF R!Min
<1> DEFINE mirror == {MaxDataId - d : d \in ids}
<1>4. mirror \in SUBSET Nat /\ mirror # {}
  <2>1. \A d \in ids : MaxDataId - d \in Nat
    BY QueueConstants DEF R!DataIds
  <2> QED
    BY <2>1
<1>5. PICK w \in mirror : \A y \in mirror : w <= y
  <2> HIDE DEF mirror
  <2> QED
    BY <1>4, LeastExists
<1>6. PICK x \in ids : w = MaxDataId - x
  BY <1>5
<1>7. \A y \in ids : x >= y
  <2> TAKE y \in ids
  <2>1. MaxDataId - x <= MaxDataId - y
    BY <1>5, <1>6
  <2>2. x \in Nat /\ y \in Nat /\ MaxDataId \in Nat
    BY <1>1, QueueConstants
  <2> QED
    BY <2>1, <2>2
<1>8. R!Max(ids) \in ids
  BY <1>7 DEF R!Max
<1> QED
  BY <1>3, <1>8

-------------------------------------------------------------------------------
(* What the steps of a release keep.                                            *)

QueueStates ==
  [last : -1..MaxDataId, seq : SUBSET R!DataElement, time : SUBSET R!DataElement,
   sent : Seq(R!DataIds)]

\* What was passed on and what waits are apart, and nothing was passed on twice; the id
\* passed on last is among those passed on, and before the first nothing waits.
Apart(s) ==
  /\ s \in QueueStates
  /\ Len(s.sent) = Cardinality(R!Range(s.sent))
  /\ R!Range(s.sent) \cap R!IdsOf(s.seq) = {}
  /\ s.sent # <<>> => s.last # -1
  /\ s.last # -1 => s.last \in R!Range(s.sent)
  /\ s.last = -1 => s.seq = {}

All(s) == R!Range(s.sent) \cup R!IdsOf(s.seq)

\* From s to r, the ids in new were passed on, behind the earlier ones.
Grown(s, r, new) ==
  /\ Len(s.sent) <= Len(r.sent)
  /\ \A i \in 1..Len(s.sent) : r.sent[i] = s.sent[i]
  /\ \A i \in (Len(s.sent) + 1)..Len(r.sent) : r.sent[i] \in new
  /\ R!Range(r.sent) = R!Range(s.sent) \cup new

LEMMA StatesAre ==
  ASSUME R!ResequenceQueueAssumption, NEW s \in QueueStates
  PROVE  /\ s.last \in Int /\ s.seq \subseteq R!DataElement /\ s.time \subseteq R!DataElement
         /\ s.sent \in Seq(R!DataIds) /\ Len(s.sent) \in Nat
         /\ R!IdsOf(s.seq) \subseteq R!DataIds /\ IsFiniteSet(R!IdsOf(s.seq))
         /\ R!Range(s.sent) \subseteq R!DataIds /\ IsFiniteSet(R!Range(s.sent))
<1>1. /\ s.last \in -1..MaxDataId /\ s.seq \subseteq R!DataElement /\ s.time \subseteq R!DataElement
      /\ s.sent \in Seq(R!DataIds)
  BY DEF QueueStates
<1>2. Len(s.sent) \in Nat /\ DOMAIN s.sent = 1..Len(s.sent) /\ \A i \in 1..Len(s.sent) : s.sent[i] \in R!DataIds
  BY <1>1
<1>3. R!IdsOf(s.seq) \subseteq R!DataIds
  BY <1>1 DEF R!IdsOf, R!DataElement
<1>4. R!Range(s.sent) \subseteq R!DataIds
  BY <1>2 DEF R!Range
<1> QED
  BY <1>1, <1>2, <1>3, <1>4, DataIdsAre, QueueConstants

LEMMA GrownOn ==
  ASSUME R!ResequenceQueueAssumption,
         NEW s \in QueueStates, NEW r \in QueueStates, NEW p \in QueueStates,
         NEW new, NEW more, Grown(s, r, new), Grown(r, p, more)
  PROVE  Grown(s, p, new \cup more)
<1>1. Len(s.sent) \in Nat /\ Len(r.sent) \in Nat /\ Len(p.sent) \in Nat
  BY StatesAre
<1>2. Len(s.sent) <= Len(p.sent)
  BY <1>1 DEF Grown
<1>3. \A i \in 1..Len(s.sent) : p.sent[i] = s.sent[i]
  BY <1>1 DEF Grown
<1>4. ASSUME NEW i \in (Len(s.sent) + 1)..Len(p.sent) PROVE p.sent[i] \in new \cup more
  <2>1. CASE i <= Len(r.sent)
    <3>1. i \in (Len(s.sent) + 1)..Len(r.sent) /\ i \in 1..Len(r.sent)
      BY <1>1, <2>1
    <3> QED
      BY <3>1 DEF Grown
  <2>2. CASE i > Len(r.sent)
    <3>1. i \in (Len(r.sent) + 1)..Len(p.sent)
      BY <1>1, <2>2
    <3> QED
      BY <3>1 DEF Grown
  <2> QED
    BY <1>1, <2>1, <2>2
<1>5. R!Range(p.sent) = R!Range(s.sent) \cup (new \cup more)
  BY DEF Grown
<1> QED
  BY <1>2, <1>3, <1>4, <1>5 DEF Grown

Taken(s, r, ids, last) ==
  /\ r.last = last /\ r.time = s.time /\ r.seq \subseteq s.seq
  /\ R!IdsOf(r.seq) = R!IdsOf(s.seq) \ ids

\* What Take passes on leaves the queue and is nowhere else.
LEMMA TakeIs ==
  ASSUME R!ResequenceQueueAssumption, NEW s, Apart(s), NEW ids \in SUBSET R!IdsOf(s.seq), NEW last,
         last \in ids \/ (ids = {} /\ last = s.last), NEW r, r = R!Take(s, ids, last)
  PROVE  Apart(r) /\ All(r) = All(s) /\ Grown(s, r, ids) /\ Taken(s, r, ids, last)
<1> DEFINE asc == R!Ascending(ids)
<1>1. /\ s \in QueueStates /\ s.last \in Int /\ s.seq \subseteq R!DataElement
      /\ s.time \subseteq R!DataElement /\ s.sent \in Seq(R!DataIds) /\ Len(s.sent) \in Nat
      /\ R!IdsOf(s.seq) \subseteq R!DataIds
      /\ R!Range(s.sent) \subseteq R!DataIds /\ IsFiniteSet(R!Range(s.sent))
  BY StatesAre DEF Apart
<1>2. ids \subseteq R!DataIds /\ IsFiniteSet(ids) /\ ids \subseteq Int /\ ids \subseteq Nat
  BY <1>1, DataIdsAre
<1>3. asc \in Seq(ids) /\ Len(asc) = Cardinality(ids) /\ Len(asc) \in Nat /\ R!Range(asc) = ids
  BY <1>2, AscendingIs
<1>4. /\ r.last = last /\ r.time = s.time /\ r.seq = {e \in s.seq : e.id \notin ids}
      /\ r.sent = s.sent \o R!Ascending(ids)
      /\ r = [last |-> r.last, seq |-> r.seq, time |-> r.time, sent |-> r.sent]
  BY <1>1 DEF R!Take, QueueStates
<1> HIDE DEF asc
<1>5. r.sent = s.sent \o asc
  BY <1>4 DEF asc
<1>6. asc \in Seq(R!DataIds)
  <2>3. \A i \in 1..Len(asc) : asc[i] \in ids
    BY <1>3
  <2>1. \A i \in 1..Len(asc) : asc[i] \in R!DataIds
    BY <1>2, <2>3
  <2>2. asc = [i \in 1..Len(asc) |-> asc[i]]
    BY <1>3
  <2> QED
    BY <1>3, <2>1, <2>2, IsASeq
<1>7. /\ r.sent \in Seq(R!DataIds) /\ Len(r.sent) = Len(s.sent) + Len(asc)
      /\ \A i \in 1..Len(s.sent) : r.sent[i] = s.sent[i]
      /\ \A i \in (Len(s.sent) + 1)..Len(r.sent) : r.sent[i] = asc[i - Len(s.sent)]
  <2>1. r.sent \in Seq(R!DataIds) /\ Len(r.sent) = Len(s.sent) + Len(asc)
    BY <1>1, <1>5, <1>6
  <2>2. \A i \in 1..(Len(s.sent) + Len(asc)) :
          r.sent[i] = IF i <= Len(s.sent) THEN s.sent[i] ELSE asc[i - Len(s.sent)]
    BY <1>1, <1>5, <1>6, ConcatProperties
  <2>3. ASSUME NEW i \in 1..Len(s.sent) PROVE r.sent[i] = s.sent[i]
    BY <1>1, <1>3, <2>2
  <2>4. ASSUME NEW i \in (Len(s.sent) + 1)..Len(r.sent) PROVE r.sent[i] = asc[i - Len(s.sent)]
    <3>1. i \in 1..(Len(s.sent) + Len(asc)) /\ ~ (i <= Len(s.sent))
      BY <1>1, <1>3, <2>1
    <3> QED
      BY <2>2, <3>1
  <2> QED
    BY <2>1, <2>3, <2>4
<1>8. last \in -1..MaxDataId
  <2>1. CASE last \in ids
    BY <1>2, <2>1, QueueConstants DEF R!DataIds
  <2>2. CASE last = s.last
    BY <1>1, <2>2 DEF QueueStates
  <2> QED
    BY <2>1, <2>2
<1>9. r.seq \subseteq s.seq /\ \A f \in r.seq : f.id \notin ids
  BY <1>4
<1>10. r \in QueueStates
  BY <1>1, <1>4, <1>7, <1>8, <1>9 DEF QueueStates
<1>11. \A i \in 1..Len(asc) : asc[i] \in ids
  BY <1>3
<1>12. \A i \in (Len(s.sent) + 1)..Len(r.sent) : r.sent[i] \in ids
  <2> TAKE i \in (Len(s.sent) + 1)..Len(r.sent)
  <2>1. i - Len(s.sent) \in 1..Len(asc)
    BY <1>1, <1>3, <1>7
  <2> QED
    BY <1>7, <1>11, <2>1
<1>13. R!Range(r.sent) = R!Range(s.sent) \cup ids
  <2>1. \A e \in R!Range(r.sent) : e \in R!Range(s.sent) \cup ids
    <3> TAKE e \in R!Range(r.sent)
    <3>1. PICK i \in 1..Len(r.sent) : r.sent[i] = e
      BY <1>7 DEF R!Range
    <3>2. CASE i \in 1..Len(s.sent)
      BY <1>1, <1>7, <3>1, <3>2 DEF R!Range
    <3>3. CASE i \in (Len(s.sent) + 1)..Len(r.sent)
      BY <1>12, <3>1, <3>3
    <3> QED
      BY <1>1, <1>3, <1>7, <3>2, <3>3
  <2>2. \A e \in R!Range(s.sent) : e \in R!Range(r.sent)
    <3> TAKE e \in R!Range(s.sent)
    <3>1. PICK i \in 1..Len(s.sent) : s.sent[i] = e
      BY <1>1 DEF R!Range
    <3>2. i \in 1..Len(r.sent) /\ r.sent[i] = e
      BY <1>1, <1>3, <1>7, <3>1
    <3>3. DOMAIN r.sent = 1..Len(r.sent)
      BY <1>7
    <3> QED
      BY <3>2, <3>3 DEF R!Range
  <2>3. \A e \in ids : e \in R!Range(r.sent)
    <3> TAKE e \in ids
    <3>1. PICK i \in 1..Len(asc) : asc[i] = e
      BY <1>3 DEF R!Range
    <3>2. /\ i + Len(s.sent) \in (Len(s.sent) + 1)..Len(r.sent) /\ i + Len(s.sent) \in 1..Len(r.sent)
          /\ (i + Len(s.sent)) - Len(s.sent) = i
      BY <1>1, <1>3, <1>7
    <3>3. r.sent[i + Len(s.sent)] = e
      BY <1>7, <3>1, <3>2
    <3> QED
      BY <1>7, <3>2, <3>3 DEF R!Range
  <2> QED
    BY <2>1, <2>2, <2>3
<1>14. Grown(s, r, ids)
  BY <1>1, <1>3, <1>7, <1>12, <1>13 DEF Grown
<1>15. R!IdsOf(r.seq) = R!IdsOf(s.seq) \ ids
  <2>1. \A e : e \in R!IdsOf(r.seq) <=> \E f \in s.seq : f.id = e /\ f.id \notin ids
    BY <1>4 DEF R!IdsOf
  <2>2. \A e : e \in R!IdsOf(s.seq) <=> \E f \in s.seq : f.id = e
    BY DEF R!IdsOf
  <2> QED
    BY <2>1, <2>2
<1>16. All(r) = All(s)
  BY <1>13, <1>15 DEF All
<1>17. R!Range(r.sent) \cap R!IdsOf(r.seq) = {}
  BY <1>13, <1>15 DEF Apart
<1>18. Len(r.sent) = Cardinality(R!Range(r.sent))
  <2>1. R!Range(s.sent) \cap ids = {}
    BY DEF Apart
  <2>2. Cardinality(R!Range(s.sent) \cup ids)
          = Cardinality(R!Range(s.sent)) + Cardinality(ids) - Cardinality(R!Range(s.sent) \cap ids)
    BY <1>1, <1>2, FS_Union
  <2>3. Cardinality(R!Range(s.sent) \cap ids) = 0
    BY <2>1, FS_EmptySet
  <2>4. Cardinality(R!Range(s.sent)) = Len(s.sent)
    BY DEF Apart
  <2> QED
    BY <1>1, <1>3, <1>7, <1>13, <2>2, <2>3, <2>4
<1>19. r.sent # <<>> => r.last # -1
  <2>1. CASE last \in ids
    BY <1>2, <1>4, <2>1
  <2>2. CASE ids = {} /\ last = s.last
    <3>1. Len(asc) = 0
      BY <1>3, <2>2, FS_EmptySet
    <3>2. s.sent = <<>> => Len(r.sent) = 0
      BY <1>1, <1>7, <3>1
    <3>3. s.sent = <<>> => r.sent = <<>>
      BY <1>7, <3>2, EmptySeq
    <3> QED
      BY <1>4, <2>2, <3>3 DEF Apart
  <2> QED
    BY <2>1, <2>2
<1>20. r.last # -1 => r.last \in R!Range(r.sent)
  BY <1>4, <1>13 DEF Apart
<1>21. r.last = -1 => r.seq = {}
  <2>1. CASE last \in ids
    BY <1>2, <1>4, <2>1
  <2>2. CASE last = s.last
    BY <1>4, <2>2 DEF Apart
  <2> QED
    BY <2>1, <2>2
<1>22. Apart(r)
  BY <1>10, <1>17, <1>18, <1>19, <1>20, <1>21 DEF Apart
<1> QED
  BY <1>4, <1>9, <1>14, <1>15, <1>16, <1>22 DEF Taken

\* The steps of a release leave what is not passed on as it was.
Released(s, r, new) ==
  /\ new \subseteq R!IdsOf(s.seq)
  /\ r.seq \subseteq s.seq
  /\ \A e \in new, f \in r.seq : ~ (f.id < e)

\* The in-order run passes on the ids that follow the last one without a gap.
LEMMA RunIs ==
  ASSUME R!ResequenceQueueAssumption, NEW s, Apart(s), NEW run, run = R!InOrderRun(s)
  PROVE  /\ run \subseteq R!IdsOf(s.seq)
         /\ s.last + Cardinality(run) \in run \/ (run = {} /\ s.last + Cardinality(run) = s.last)
         /\ \A e \in run, m \in R!IdsOf(s.seq) : m > s.last
         /\ \A e \in run, m \in Int : s.last < m /\ m <= e => m \in run
<1>1. /\ s.last \in Int /\ R!IdsOf(s.seq) \subseteq R!DataIds
  BY StatesAre DEF Apart
<1>2. \A d : d \in run <=> /\ d \in R!IdsOf(s.seq)
                           /\ \A m \in R!IdsOf(s.seq) : m > s.last
                           /\ \A m \in (s.last + 1)..d : m \in R!IdsOf(s.seq)
  BY DEF R!InOrderRun
<1>3. run \subseteq R!IdsOf(s.seq)
  BY <1>2
<1>4. run \subseteq R!DataIds /\ run \subseteq Int /\ IsFiniteSet(run)
  BY <1>1, <1>3, DataIdsAre
<1>5. \A e \in run, m \in R!IdsOf(s.seq) : m > s.last
  BY <1>2
<1>6. ASSUME NEW e \in run, NEW m \in Int, s.last < m, m <= e PROVE m \in run
  <2>1. e \in Int
    BY <1>4
  <2>2. m \in (s.last + 1)..e
    BY <1>1, <1>6, <2>1
  <2>3. m \in R!IdsOf(s.seq)
    BY <1>2, <2>2
  <2>4. \A x \in (s.last + 1)..m : x \in (s.last + 1)..e
    BY <1>1, <1>6, <2>1
  <2>5. \A x \in (s.last + 1)..m : x \in R!IdsOf(s.seq)
    BY <1>2, <2>4
  <2> QED
    BY <1>2, <2>3, <2>5
<1>7. CASE run = {}
  <2>1. Cardinality(run) = 0
    BY <1>7, FS_EmptySet
  <2> QED
    BY <1>1, <1>3, <1>5, <1>7, <2>1
<1>8. ASSUME run # {} PROVE s.last + Cardinality(run) \in run
  <2> DEFINE z == Cardinality(run)
  <2>1. z \in Nat /\ z # 0
    BY <1>4, <1>8, FS_CardinalityType, FS_EmptySet
  <2> HIDE DEF z
  <2>2. SUFFICES ASSUME s.last + z \notin run PROVE FALSE
    BY DEF z
  <2>3. \A e \in run : e \in (s.last + 1)..(s.last + z - 1)
    <3> TAKE e \in run
    <3>1. e \in Int /\ e > s.last
      BY <1>3, <1>4, <1>5
    <3>2. s.last + z \in Int /\ s.last < s.last + z
      BY <1>1, <2>1
    <3>3. ~ (s.last + z <= e)
      BY <1>6, <2>2, <3>2
    <3> QED
      BY <1>1, <2>1, <3>1, <3>3
  <2>4. run \in SUBSET ((s.last + 1)..(s.last + z - 1))
    BY <2>3
  <2>5. /\ IsFiniteSet((s.last + 1)..(s.last + z - 1))
        /\ Cardinality((s.last + 1)..(s.last + z - 1)) = z - 1
    <3>1. s.last + 1 \in Int /\ s.last + z - 1 \in Int
      BY <1>1, <2>1
    <3>2. /\ IsFiniteSet((s.last + 1)..(s.last + z - 1))
          /\ Cardinality((s.last + 1)..(s.last + z - 1))
               = IF s.last + 1 > s.last + z - 1 THEN 0 ELSE (s.last + z - 1) - (s.last + 1) + 1
      BY <3>1, FS_Interval
    <3> QED
      BY <1>1, <2>1, <3>2
  <2>6. Cardinality(run) <= Cardinality((s.last + 1)..(s.last + z - 1))
    BY <2>4, <2>5, FS_Subset
  <2> QED
    BY <2>1, <2>5, <2>6 DEF z
<1> QED
  BY <1>3, <1>5, <1>6, <1>7, <1>8

LEMMA ReleasesInOrder ==
  ASSUME R!ResequenceQueueAssumption, NEW s, Apart(s), NEW r, r = R!ReleaseInOrder(s)
  PROVE  /\ Apart(r) /\ All(r) = All(s) /\ r.time = s.time
         /\ Grown(s, r, R!InOrderRun(s)) /\ Released(s, r, R!InOrderRun(s))
         /\ \A e \in R!InOrderRun(s), m \in Int : s.last < m /\ m <= e => m \in R!InOrderRun(s)
<1> DEFINE run == R!InOrderRun(s) last == s.last + Cardinality(run)
<1>1. r = R!Take(s, run, last)
  BY DEF R!ReleaseInOrder, R!Cardinality, Cardinality
<1>2. /\ run \subseteq R!IdsOf(s.seq)
      /\ last \in run \/ (run = {} /\ last = s.last)
      /\ \A e \in run, m \in R!IdsOf(s.seq) : m > s.last
      /\ \A e \in run, m \in Int : s.last < m /\ m <= e => m \in run
  BY RunIs
<1> HIDE DEF run, last
<1>3. run \in SUBSET R!IdsOf(s.seq)
  BY <1>2
<1>4. /\ Apart(r) /\ All(r) = All(s) /\ Grown(s, r, run)
      /\ r.time = s.time /\ r.seq \subseteq s.seq
      /\ \A f \in r.seq : f.id \notin run
  <2>1. last \in run \/ (run = {} /\ last = s.last)
    BY <1>2
  <2>2. Apart(s)
    OBVIOUS
  <2>3. Apart(r) /\ All(r) = All(s) /\ Grown(s, r, run) /\ Taken(s, r, run, last)
    BY <1>1, <1>3, <2>1, <2>2, TakeIs
  <2>4. r.time = s.time /\ r.seq \subseteq s.seq
    BY <2>3 DEF Taken
  <2>5. \A f \in r.seq : f.id \notin run
    BY <2>3 DEF Taken, R!IdsOf
  <2> QED
    BY <2>3, <2>4, <2>5
<1>5. ASSUME NEW e \in run, NEW f \in r.seq, f.id < e PROVE FALSE
  <2>1. f.id \in R!IdsOf(s.seq)
    BY <1>4 DEF R!IdsOf
  <2>2. f.id \in Int /\ e \in Int
    BY <1>3, <2>1, StatesAre, DataIdsAre DEF Apart
  <2>3. s.last < f.id /\ f.id <= e
    BY <1>2, <1>5, <2>1, <2>2, StatesAre DEF Apart
  <2>4. f.id \in run
    BY <1>2, <2>2, <2>3
  <2> QED
    BY <1>4, <2>4
<1>6. Released(s, r, run)
  BY <1>2, <1>4, <1>5 DEF Released
<1> QED
  BY <1>2, <1>4, <1>6 DEF run

\* The ageing passes on all up to the greatest aged id.
LEMMA ReleasesAged ==
  ASSUME R!ResequenceQueueAssumption, rnow \in R!Times, NEW s, Apart(s), NEW r, r = R!ReleaseAged(s)
  PROVE  \E due :
           /\ Apart(r) /\ All(r) = All(s) /\ Grown(s, r, due) /\ Released(s, r, due)
           /\ r.time = s.time \ R!Aged(s)
           /\ \A e \in due : \E x \in R!Aged(s) : e <= x.id
           /\ \A f \in r.seq, x \in R!Aged(s) : ~ (f.id <= x.id)
<1> DEFINE due == {d \in R!IdsOf(s.seq) : \E x \in R!Aged(s) : d <= x.id}
           last == IF due = {} THEN s.last ELSE R!Max(due)
           p == R!Take(s, due, last)
<1>1. r = [p EXCEPT !.time = @ \ R!Aged(s)]
  BY DEF R!ReleaseAged
<1>2. due \in SUBSET R!IdsOf(s.seq)
  OBVIOUS
<1>3. R!IdsOf(s.seq) \subseteq R!DataIds
  BY StatesAre DEF Apart
<1>4. last \in due \/ (due = {} /\ last = s.last)
  <2>1. due \in SUBSET R!DataIds
    BY <1>2, <1>3
  <2> HIDE DEF due
  <2> QED
    BY <2>1, Extremes
<1>5. Apart(p) /\ All(p) = All(s) /\ Grown(s, p, due) /\ Taken(s, p, due, last)
  <2>1. Apart(s)
    OBVIOUS
  <2>2. p = R!Take(s, due, last)
    OBVIOUS
  <2> HIDE DEF due, last, p
  <2> QED
    BY <1>2, <1>4, <2>1, <2>2, TakeIs
<1>6. \A e \in due : \E x \in R!Aged(s) : e <= x.id
  OBVIOUS
<1>7. \A e \in R!IdsOf(s.seq) : (\E x \in R!Aged(s) : e <= x.id) => e \in due
  OBVIOUS
<1> HIDE DEF due, last, p
<1>8. p \in QueueStates
  BY <1>5 DEF Apart
<1>9. /\ r.last = p.last /\ r.seq = p.seq /\ r.sent = p.sent
      /\ r.time = p.time \ R!Aged(s)
      /\ r = [last |-> r.last, seq |-> r.seq, time |-> r.time, sent |-> r.sent]
  BY <1>1, <1>8 DEF QueueStates
<1>10. r \in QueueStates
  BY <1>8, <1>9 DEF QueueStates
<1>11. Apart(r)
  BY <1>5, <1>9, <1>10 DEF Apart
<1>12. All(r) = All(s)
  BY <1>5, <1>9 DEF All
<1>13. Grown(s, r, due)
  BY <1>5, <1>9 DEF Grown
<1>14. r.time = s.time \ R!Aged(s) /\ r.seq \subseteq s.seq
  BY <1>5, <1>9 DEF Taken
<1>15. \A f \in r.seq : f.id \in R!IdsOf(s.seq) /\ f.id \notin due
  BY <1>5, <1>9 DEF Taken, R!IdsOf
<1>16. \A f \in r.seq, x \in R!Aged(s) : ~ (f.id <= x.id)
  BY <1>7, <1>15
<1>17. R!Aged(s) \subseteq s.time /\ s.time \subseteq R!DataElement
  BY StatesAre DEF Apart, R!Aged
<1>18. ASSUME NEW e \in due, NEW f \in r.seq, f.id < e PROVE FALSE
  <2>1. PICK x \in R!Aged(s) : e <= x.id
    BY <1>6
  <2>2. x.id \in Nat
    BY <1>17, DataIdsAre DEF R!DataElement
  <2>3. f.id \in Nat /\ e \in Nat
    BY <1>2, <1>3, <1>15, DataIdsAre
  <2>4. f.id <= x.id
    BY <1>18, <2>1, <2>2, <2>3
  <2> QED
    BY <1>16, <2>4
<1>19. Released(s, r, due)
  BY <1>2, <1>14, <1>18 DEF Released
<1> QED
  BY <1>6, <1>11, <1>12, <1>13, <1>14, <1>16, <1>19

\* Each id passed on follows the last without a gap, or one at or behind it has aged.
HasReason(s, aged, new) ==
  \A e \in new : \/ \A m \in Int : s.last < m /\ m <= e => m \in new
                 \/ \E x \in aged : e <= x.id

\* What is not aged stays in q_time; what is aged leaves it, with all that waits before
\* it, unless nothing waits any more.
AgedLeave(s, aged, r) ==
  /\ s.time \ aged \subseteq r.time /\ r.time \subseteq s.time
  /\ \/ r.seq = {}
     \/ r.time = s.time \ aged /\ \A f \in r.seq, x \in aged : ~ (f.id <= x.id)

LEMMA ReleaseIs ==
  ASSUME R!ResequenceQueueAssumption, rnow \in R!Times, NEW s, Apart(s), NEW r, r = R!ReleaseQueue(s)
  PROVE  \E new :
           /\ Apart(r) /\ All(r) = All(s) /\ Grown(s, r, new) /\ Released(s, r, new)
           /\ HasReason(s, R!Aged(s), new) /\ AgedLeave(s, R!Aged(s), r)
<1> DEFINE p == R!ReleaseInOrder(s) run == R!InOrderRun(s)
<1>1. /\ Apart(p) /\ All(p) = All(s) /\ p.time = s.time
      /\ Grown(s, p, run) /\ Released(s, p, run)
      /\ \A e \in run, m \in Int : s.last < m /\ m <= e => m \in run
  BY ReleasesInOrder
<1>2. r = IF p.seq = {} THEN p ELSE R!ReleaseAged(p)
  BY DEF R!ReleaseQueue
<1> HIDE DEF p, run
<1>3. R!Aged(p) = R!Aged(s)
  BY <1>1 DEF R!Aged
<1>4. CASE p.seq = {}
  <2>1. r = p
    BY <1>2, <1>4
  <2>2. HasReason(s, R!Aged(s), run)
    BY <1>1 DEF HasReason
  <2>3. AgedLeave(s, R!Aged(s), r)
    BY <1>1, <1>4, <2>1 DEF AgedLeave
  <2> QED
    BY <1>1, <2>1, <2>2, <2>3
<1>5. CASE p.seq # {}
  <2>1. r = R!ReleaseAged(p)
    BY <1>2, <1>5
  <2>2. PICK due :
          /\ Apart(r) /\ All(r) = All(p) /\ Grown(p, r, due) /\ Released(p, r, due)
          /\ r.time = p.time \ R!Aged(p)
          /\ \A e \in due : \E x \in R!Aged(p) : e <= x.id
          /\ \A f \in r.seq, x \in R!Aged(p) : ~ (f.id <= x.id)
    BY <1>1, <2>1, ReleasesAged
  <2> DEFINE new == run \cup due
  <2>3. All(r) = All(s)
    BY <1>1, <2>2
  <2>4. Grown(s, r, new)
    <3>1. s \in QueueStates /\ p \in QueueStates /\ r \in QueueStates
      BY <1>1, <2>2 DEF Apart
    <3> QED
      BY <1>1, <2>2, <3>1, GrownOn
  <2>5. Released(s, r, new)
    <3>1. r.seq \subseteq p.seq /\ p.seq \subseteq s.seq
      BY <1>1, <2>2 DEF Released
    <3>2. due \subseteq R!IdsOf(s.seq)
      BY <2>2, <3>1 DEF Released, R!IdsOf
    <3>3. \A e \in new, f \in r.seq : ~ (f.id < e)
      BY <1>1, <2>2, <3>1 DEF Released
    <3> QED
      BY <1>1, <3>1, <3>2, <3>3 DEF Released
  <2>6. HasReason(s, R!Aged(s), new)
    <3> SUFFICES ASSUME NEW e \in new
                 PROVE  \/ \A m \in Int : s.last < m /\ m <= e => m \in new
                        \/ \E x \in R!Aged(s) : e <= x.id
      BY DEF HasReason
    <3>1. CASE e \in run
      BY <1>1, <3>1
    <3>2. CASE e \in due
      BY <1>3, <2>2, <3>2
    <3> QED
      BY <3>1, <3>2
  <2>7. AgedLeave(s, R!Aged(s), r)
    BY <1>1, <1>3, <2>2 DEF AgedLeave
  <2> QED
    BY <2>2, <2>3, <2>4, <2>5, <2>6, <2>7
<1> QED
  BY <1>4, <1>5

\* A full queue gives up what waits first.
LEMMA RoomIsMade ==
  ASSUME R!ResequenceQueueAssumption, NEW s, Apart(s), NEW r, r = R!MakeRoom(s)
  PROVE  \E new :
           /\ Apart(r) /\ All(r) = All(s) /\ Grown(s, r, new) /\ Released(s, r, new)
           /\ r.time = s.time
           /\ Cardinality(s.seq) = size \/ (r = s /\ new = {})
           /\ r.last = -1 => s.last = -1
<1>1. /\ s \in QueueStates /\ R!IdsOf(s.seq) \subseteq R!DataIds /\ Len(s.sent) \in Nat
  BY StatesAre DEF Apart
<1>2. CASE Cardinality(s.seq) = size
  <2> DEFINE top == R!Min(R!IdsOf(s.seq)) ids == {top}
  <2>1. r = R!Take(s, ids, top)
    BY <1>2 DEF R!MakeRoom, R!Cardinality, Cardinality
  <2>2. R!IdsOf(s.seq) # {}
    <3>1. s.seq # {}
      BY <1>2, FS_EmptySet, QueueConstants
    <3> QED
      BY <3>1 DEF R!IdsOf
  <2>3. top \in R!IdsOf(s.seq) /\ \A d \in R!IdsOf(s.seq) : top <= d
    <3>1. R!IdsOf(s.seq) \in SUBSET R!DataIds
      BY <1>1
    <3> QED
      BY <2>2, <3>1, Extremes
  <2>4. ids \in SUBSET R!IdsOf(s.seq) /\ top \in ids
    BY <2>3
  <2>5. \A e \in ids : e = top
    OBVIOUS
  <2>6. Apart(s)
    OBVIOUS
  <2> HIDE DEF top, ids
  <2>7. Apart(r) /\ All(r) = All(s) /\ Grown(s, r, ids) /\ Taken(s, r, ids, top)
    BY <2>1, <2>4, <2>6, TakeIs
  <2>8. Released(s, r, ids)
    <3>1. r.seq \subseteq s.seq
      BY <2>7 DEF Taken
    <3>2. ASSUME NEW e \in ids, NEW f \in r.seq PROVE ~ (f.id < e)
      <4>1. f.id \in R!IdsOf(s.seq)
        BY <3>1 DEF R!IdsOf
      <4>2. f.id \in Nat /\ top \in Nat /\ top <= f.id
        BY <1>1, <2>3, <4>1, DataIdsAre
      <4> QED
        BY <2>5, <4>2
    <3> QED
      BY <2>4, <3>1, <3>2 DEF Released
  <2>9. r.last # -1
    BY <1>1, <2>3, <2>7, DataIdsAre DEF Taken
  <2> QED
    BY <1>2, <2>7, <2>8, <2>9 DEF Taken
<1>3. CASE Cardinality(s.seq) # size
  <2>1. r = s
    BY <1>3 DEF R!MakeRoom, R!Cardinality, Cardinality
  <2>2. Grown(s, s, {})
    BY <1>1 DEF Grown
  <2>3. Released(s, s, {})
    BY DEF Released
  <2> QED
    BY <2>1, <2>2, <2>3
<1> QED
  BY <1>2, <1>3

-------------------------------------------------------------------------------
(* The queue itself.                                                            *)

DueTime(e) == e.arriveTime + maxWaitTime

\* An event is queued for the time of e, which is not over, and e is not aged yet; or that
\* time has come, and of what waits before e nothing is as old as e.
Awaited(e, time, events2, t) == t <= DueTime(e) /\ e \in time /\ events2[DueTime(e)] > 0
Served(e, seq, t) == DueTime(e) <= t /\ \A f \in seq : f.id <= e.id => f.arriveTime >= DueTime(e)

InTime(es, t) == \A e \in es : e.arriveTime <= t /\ e.arriveTime <= ArrivalTime
Kept(es, seq, time, events2, t) ==
  \A e \in es : Awaited(e, time, events2, t) \/ Served(e, seq, t)

QueueInv ==
  /\ R!TypeOK
  /\ Apart(R!Queue) /\ arrived = All(R!Queue)
  /\ InTime(q_time, rnow) /\ InTime(promised, rnow)
  /\ Kept(promised, q_seq, q_time, tasks, rnow)

\* The formulas of NoOvertaking and NoEarlySkip.
OvertakesNone ==
  \A e \in R!NewlyPassed, f \in R!IdsOf(q_seq \cap q_seq') : f < e => R!Overtaken(f, passed)
SkipsNone ==
  \A e \in R!NewlyPassed :
    (passed # <<>> /\ ~ R!Overtaken(e, passed)
       /\ \E m \in 0..(e - 1) : m \notin R!Range(passed') /\ ~ R!Overtaken(m, passed))
    => \/ R!Cardinality(q_seq) = size
       \/ \E x \in q_time : x.id >= e /\ x.arriveTime + maxWaitTime <= rnow

LEMMA TimesAre ==
  ASSUME R!ResequenceQueueAssumption
  PROVE  /\ R!Times \subseteq Nat
         /\ \A e \in R!DataElement :
              /\ e.id \in R!DataIds /\ e.id \in Nat /\ e.arriveTime \in Nat /\ e.arriveTime \in R!Times
              /\ e = [id |-> e.id, arriveTime |-> e.arriveTime]
              /\ DueTime(e) \in Nat /\ (e.arriveTime <= ArrivalTime => DueTime(e) \in R!Times)
<1>1. R!Times \subseteq Nat
  BY QueueConstants DEF R!Times
<1>2. ASSUME NEW e \in R!DataElement
      PROVE  /\ e.id \in R!DataIds /\ e.id \in Nat /\ e.arriveTime \in Nat /\ e.arriveTime \in R!Times
             /\ e = [id |-> e.id, arriveTime |-> e.arriveTime]
             /\ DueTime(e) \in Nat /\ (e.arriveTime <= ArrivalTime => DueTime(e) \in R!Times)
  <2>1. e.id \in R!DataIds /\ e.arriveTime \in R!Times /\ e = [id |-> e.id, arriveTime |-> e.arriveTime]
    BY DEF R!DataElement
  <2>2. e.id \in Nat /\ e.arriveTime \in Nat
    BY <1>1, <2>1, DataIdsAre
  <2>3. DueTime(e) \in Nat
    BY <2>2, QueueConstants DEF DueTime
  <2>4. e.arriveTime <= ArrivalTime => DueTime(e) \in R!Times
    BY <2>2, QueueConstants DEF DueTime, R!Times
  <2> QED
    BY <2>1, <2>2, <2>3, <2>4
<1> QED
  BY <1>1, <1>2

LEMMA QueueIs ==
  ASSUME R!ResequenceQueueAssumption, QueueInv
  PROVE  /\ Apart(R!Queue) /\ R!Queue \in QueueStates
         /\ R!Queue.last = lastDataId /\ R!Queue.seq = q_seq /\ R!Queue.time = q_time
         /\ R!Queue.sent = passed
         /\ rnow \in R!Times /\ rnow \in Nat
BY TimesAre DEF QueueInv, Apart, R!Queue, R!TypeOK

LEMMA QueueStarts ==
  ASSUME R!ResequenceQueueAssumption, R!Init
  PROVE  QueueInv
<1>1. /\ lastDataId = -1 /\ q_seq = {} /\ q_time = {} /\ tasks = [t \in R!Times |-> 0] /\ rnow = 0
      /\ arrived = {} /\ passed = <<>> /\ promised = {}
  BY DEF R!Init
<1>2. R!TypeOK
  BY <1>1, QueueConstants DEF R!TypeOK, R!Times
<1>3. R!Queue \in QueueStates
  BY <1>1, QueueConstants DEF R!Queue, QueueStates
<1>4. R!Range(passed) = {} /\ R!IdsOf(q_seq) = {}
  BY <1>1 DEF R!Range, R!IdsOf
<1>5. Len(passed) = Cardinality({})
  BY <1>1, FS_EmptySet
<1>6. Apart(R!Queue) /\ arrived = All(R!Queue)
  BY <1>1, <1>3, <1>4, <1>5 DEF Apart, All, R!Queue
<1> QED
  BY <1>1, <1>2, <1>6 DEF QueueInv, InTime, Kept

\* A state of the queue after it was released: r, with what was passed on on the way.
LEMMA Becoming ==
  ASSUME R!ResequenceQueueAssumption, QueueInv, NEW r, Apart(r), R!Becomes(r)
  PROVE  /\ R!Queue' = r
         /\ lastDataId' = r.last /\ q_seq' = r.seq /\ q_time' = r.time /\ passed' = r.sent
         /\ lastDataId' \in -1..MaxDataId /\ q_seq' \subseteq R!DataElement
         /\ q_time' \subseteq R!DataElement /\ passed' \in Seq(R!DataIds)
<1>1. lastDataId' = r.last /\ q_seq' = r.seq /\ q_time' = r.time /\ passed' = r.sent
  BY DEF R!Becomes
<1>2. /\ r = [last |-> r.last, seq |-> r.seq, time |-> r.time, sent |-> r.sent]
      /\ r.last \in -1..MaxDataId /\ r.seq \subseteq R!DataElement /\ r.time \subseteq R!DataElement
      /\ r.sent \in Seq(R!DataIds)
  BY DEF Apart, QueueStates
<1>3. R!Queue' = r
  BY <1>1, <1>2 DEF R!Queue
<1> QED
  BY <1>1, <1>2, <1>3

LEMMA NewOnesAre ==
  ASSUME R!ResequenceQueueAssumption, QueueInv, NEW r, NEW new, Grown(R!Queue, r, new), passed' = r.sent
  PROVE  /\ \A e \in R!NewlyPassed : e \in new
         /\ R!Range(passed') = R!Range(passed) \cup new
<1>1. R!Queue.sent = passed
  BY QueueIs
<1> QED
  BY <1>1 DEF Grown, R!NewlyPassed

LEMMA OvertakenIs ==
  ASSUME R!ResequenceQueueAssumption, QueueInv, NEW f
  PROVE  (\E k \in R!Range(passed) : k > f) => R!Overtaken(f, passed)
<1>1. DOMAIN passed = 1..Len(passed)
  BY DEF QueueInv, R!TypeOK
<1> QED
  BY <1>1 DEF R!Overtaken, R!Range

\* An id without a gap before it: all between the last one and it were passed on too.
LEMMA NoGapBefore ==
  ASSUME R!ResequenceQueueAssumption, QueueInv, NEW new, NEW e \in Int,
         R!Range(passed') = R!Range(passed) \cup new, passed # <<>>,
         \A m \in Int : lastDataId < m /\ m <= e => m \in new,
         NEW m \in 0..(e - 1), m \notin R!Range(passed')
  PROVE  R!Overtaken(m, passed)
<1>1. lastDataId \in R!Range(passed) /\ lastDataId \in Int
  BY QueueIs DEF QueueInv, Apart, R!TypeOK
<1>2. m \in Int /\ m <= e
  OBVIOUS
<1>3. lastDataId # m
  BY <1>1
<1>4. ~ (lastDataId < m)
  BY <1>2
<1>5. lastDataId > m
  BY <1>1, <1>2, <1>3, <1>4
<1> QED
  BY <1>1, <1>5, OvertakenIs

\* What is served stays so while nothing older comes to wait.
LEMMA StaysServed ==
  ASSUME R!ResequenceQueueAssumption, NEW e \in R!DataElement, NEW seq, NEW seq2, NEW t \in Nat, NEW t2 \in Nat,
         t <= t2, Served(e, seq, t),
         \A f \in seq2 : f \in seq \/ (f \in R!DataElement /\ f.arriveTime >= t)
  PROVE  Served(e, seq2, t2)
<1>1. DueTime(e) \in Nat /\ DueTime(e) <= t /\ \A f \in seq : f.id <= e.id => f.arriveTime >= DueTime(e)
  BY TimesAre DEF Served
<1>2. ASSUME NEW f \in seq2, f.id <= e.id PROVE f.arriveTime >= DueTime(e)
  <2>1. CASE f \in seq
    BY <1>1, <1>2, <2>1
  <2>2. CASE f \in R!DataElement /\ f.arriveTime >= t
    <3>1. f.arriveTime \in Nat
      BY <2>2, TimesAre
    <3> QED
      BY <1>1, <2>2, <3>1
  <2> QED
    BY <2>1, <2>2
<1> QED
  BY <1>1, <1>2 DEF Served

\* A release serves what is due and leaves what is awaited.
LEMMA ReleaseServes ==
  ASSUME R!ResequenceQueueAssumption, rnow \in R!Times, NEW e \in R!DataElement,
         NEW s \in QueueStates, NEW r, AgedLeave(s, R!Aged(s), r), r.seq \subseteq s.seq,
         NEW events2, NEW events3,
         Awaited(e, s.time, events2, rnow) \/ Served(e, s.seq, rnow),
         events2[DueTime(e)] > 0 /\ rnow < DueTime(e) => events3[DueTime(e)] > 0
  PROVE  Awaited(e, r.time, events3, rnow) \/ Served(e, r.seq, rnow)
<1>1. DueTime(e) \in Nat /\ rnow \in Nat /\ e.arriveTime \in Nat /\ DueTime(e) = e.arriveTime + maxWaitTime
  BY TimesAre DEF DueTime
<1>2. CASE Awaited(e, s.time, events2, rnow) /\ rnow < DueTime(e)
  <2>1. e \notin R!Aged(s)
    BY <1>1, <1>2, QueueConstants DEF R!Aged
  <2>2. e \in r.time
    BY <1>2, <2>1 DEF AgedLeave, Awaited
  <2> QED
    BY <1>1, <1>2, <2>2 DEF Awaited
<1>3. CASE Awaited(e, s.time, events2, rnow) /\ rnow = DueTime(e)
  <2>1. e \in R!Aged(s)
    BY <1>1, <1>3, QueueConstants DEF R!Aged, Awaited
  <2>2. \A f \in r.seq : ~ (f.id <= e.id)
    BY <2>1 DEF AgedLeave
  <2> QED
    BY <1>1, <1>3, <2>2 DEF Served
<1>4. CASE Served(e, s.seq, rnow)
  <2>1. \A f \in r.seq : f \in s.seq
    OBVIOUS
  <2>2. Served(e, r.seq, rnow)
    BY <1>1, <1>4, <2>1, StaysServed
  <2> QED
    BY <2>2
<1> QED
  BY <1>1, <1>2, <1>3, <1>4 DEF Awaited

LEMMA InOrderPassesOn ==
  ASSUME R!ResequenceQueueAssumption, QueueInv, NEW d \in R!DataIds, R!ReceiveInOrder(d)
  PROVE  QueueInv' /\ OvertakesNone /\ SkipsNone
<1>1. /\ d \notin arrived /\ R!FollowsLast(d)
      /\ passed' = Append(passed, d) /\ lastDataId' = d /\ arrived' = arrived \cup {d}
      /\ q_seq' = q_seq /\ q_time' = q_time /\ tasks' = tasks /\ rnow' = rnow /\ promised' = promised
  BY DEF R!ReceiveInOrder
<1>2. /\ Apart(R!Queue) /\ R!Queue \in QueueStates
      /\ R!Queue.last = lastDataId /\ R!Queue.seq = q_seq /\ R!Queue.time = q_time
      /\ R!Queue.sent = passed
  BY QueueIs
<1>3. R!TypeOK /\ arrived = R!Range(passed) \cup R!IdsOf(q_seq)
  BY <1>2 DEF QueueInv, All
<1>4. /\ Len(passed) \in Nat /\ passed \in Seq(R!DataIds) /\ d \in Nat /\ lastDataId \in Int
      /\ R!Range(passed) \subseteq R!DataIds /\ IsFiniteSet(R!Range(passed))
      /\ R!IdsOf(q_seq) \subseteq R!DataIds
  BY <1>2, <1>3, StatesAre, DataIdsAre DEF R!TypeOK
<1>5. /\ passed' \in Seq(R!DataIds) /\ Len(passed') = Len(passed) + 1
      /\ \A i \in 1..Len(passed) : passed'[i] = passed[i]
      /\ passed'[Len(passed) + 1] = d
  BY <1>1, <1>4
<1>6. R!Range(passed') = R!Range(passed) \cup {d}
  <2>1. DOMAIN passed' = 1..Len(passed') /\ DOMAIN passed = 1..Len(passed)
    BY <1>4, <1>5
  <2>2. \A e \in R!Range(passed') : e \in R!Range(passed) \cup {d}
    <3> TAKE e \in R!Range(passed')
    <3>1. PICK i \in 1..Len(passed') : passed'[i] = e
      BY <2>1 DEF R!Range
    <3>2. CASE i \in 1..Len(passed)
      BY <1>5, <2>1, <3>1, <3>2 DEF R!Range
    <3>3. CASE i = Len(passed) + 1
      BY <1>5, <3>1, <3>3
    <3> QED
      BY <1>4, <1>5, <3>2, <3>3
  <2>3. \A e \in R!Range(passed) : e \in R!Range(passed')
    <3> TAKE e \in R!Range(passed)
    <3>1. PICK i \in 1..Len(passed) : passed[i] = e
      BY <2>1 DEF R!Range
    <3>2. i \in 1..Len(passed') /\ passed'[i] = e
      BY <1>4, <1>5, <3>1
    <3> QED
      BY <2>1, <3>2 DEF R!Range
  <2>4. d \in R!Range(passed')
    <3>1. Len(passed) + 1 \in 1..Len(passed')
      BY <1>4, <1>5
    <3> QED
      BY <1>5, <2>1, <3>1 DEF R!Range
  <2> QED
    BY <2>2, <2>3, <2>4
<1>7. /\ R!Queue' \in QueueStates /\ R!Queue'.last = d /\ R!Queue'.seq = q_seq
      /\ R!Queue'.time = q_time /\ R!Queue'.sent = passed'
  <2>1. d \in -1..MaxDataId
    BY <1>4, QueueConstants DEF R!DataIds
  <2> QED
    BY <1>1, <1>3, <1>5, <2>1 DEF R!TypeOK, R!Queue, QueueStates
<1>8. Apart(R!Queue')
  <2>1. Len(passed') = Cardinality(R!Range(passed'))
    <3>1. d \notin R!Range(passed)
      BY <1>1, <1>3
    <3>2. Cardinality(R!Range(passed) \cup {d}) = Cardinality(R!Range(passed)) + 1
      BY <1>4, <3>1, FS_AddElement
    <3> QED
      BY <1>2, <1>5, <1>6, <3>2 DEF Apart
  <2>2. R!Range(passed') \cap R!IdsOf(q_seq) = {}
    BY <1>1, <1>2, <1>3, <1>6 DEF Apart
  <2>3. d # -1 /\ d \in R!Range(passed')
    BY <1>4, <1>6
  <2> QED
    BY <1>7, <2>1, <2>2, <2>3 DEF Apart
<1>9. arrived' = All(R!Queue')
  BY <1>1, <1>3, <1>6, <1>7 DEF All
<1>10. R!TypeOK'
  <2>1. d \in -1..MaxDataId /\ arrived' \subseteq R!DataIds
    BY <1>1, <1>3, <1>4, QueueConstants DEF R!DataIds, R!TypeOK
  <2> QED
    BY <1>1, <1>3, <1>5, <2>1 DEF R!TypeOK
<1>11. QueueInv'
  BY <1>1, <1>8, <1>9, <1>10 DEF QueueInv, InTime, Kept
<1>12. \A e \in R!NewlyPassed : e = d
  BY <1>4, <1>5 DEF R!NewlyPassed
<1>13. OvertakesNone
  <2> SUFFICES ASSUME NEW f \in R!IdsOf(q_seq \cap q_seq'), f < d PROVE R!Overtaken(f, passed)
    BY <1>12 DEF OvertakesNone
  <2>1. f \in R!IdsOf(q_seq) /\ f \in Int
    BY <1>4, DataIdsAre DEF R!IdsOf
  <2>2. lastDataId # -1
    BY <1>2, <2>1 DEF Apart, R!IdsOf
  <2>3. d = lastDataId + 1 /\ lastDataId \in R!Range(passed)
    BY <1>1, <1>2, <2>2 DEF Apart, R!FollowsLast
  <2>4. f # lastDataId
    BY <1>2, <2>1, <2>3 DEF Apart
  <2>5. lastDataId > f
    BY <1>4, <2>1, <2>3, <2>4
  <2> QED
    BY <2>3, <2>5, OvertakenIs
<1>14. SkipsNone
  <2> SUFFICES ASSUME passed # <<>>, NEW m \in 0..(d - 1), m \notin R!Range(passed')
               PROVE  R!Overtaken(m, passed)
    BY <1>12 DEF SkipsNone
  <2>1. d = lastDataId + 1
    BY <1>1, <1>2 DEF Apart, R!FollowsLast
  <2>2. ASSUME NEW k \in Int, lastDataId < k, k <= d PROVE k \in {d}
    BY <1>4, <2>1, <2>2
  <2>3. d \in Int
    BY <1>4
  <2> QED
    BY <1>6, <2>2, <2>3, NoGapBefore
<1> QED
  BY <1>11, <1>13, <1>14

LEMMA DequeueReleases ==
  ASSUME R!ResequenceQueueAssumption, QueueInv, R!AutoDequeueTask
  PROVE  QueueInv' /\ OvertakesNone /\ SkipsNone
<1> DEFINE r == R!ReleaseQueue(R!Queue)
<1>1. /\ tasks[rnow] > 0 /\ tasks' = [tasks EXCEPT ![rnow] = @ - 1] /\ R!Becomes(r)
      /\ rnow' = rnow /\ arrived' = arrived /\ promised' = promised
  BY DEF R!AutoDequeueTask
<1>2. /\ Apart(R!Queue) /\ R!Queue \in QueueStates
      /\ R!Queue.last = lastDataId /\ R!Queue.seq = q_seq /\ R!Queue.time = q_time
      /\ R!Queue.sent = passed /\ rnow \in R!Times /\ rnow \in Nat
  BY QueueIs
<1>3. PICK new : /\ Apart(r) /\ All(r) = All(R!Queue) /\ Grown(R!Queue, r, new) /\ Released(R!Queue, r, new)
                 /\ HasReason(R!Queue, R!Aged(R!Queue), new)
                 /\ AgedLeave(R!Queue, R!Aged(R!Queue), r)
  BY <1>2, ReleaseIs
<1> HIDE DEF r
<1>4. /\ R!Queue' = r
      /\ lastDataId' = r.last /\ q_seq' = r.seq /\ q_time' = r.time /\ passed' = r.sent
      /\ lastDataId' \in -1..MaxDataId /\ q_seq' \subseteq R!DataElement
      /\ q_time' \subseteq R!DataElement /\ passed' \in Seq(R!DataIds)
  BY <1>1, <1>3, Becoming
<1>5. R!TypeOK
  BY DEF QueueInv
<1>6. R!TypeOK'
  <2>1. tasks[rnow] - 1 \in Nat
    BY <1>1, <1>2, <1>5 DEF R!TypeOK
  <2>2. tasks' \in [R!Times -> Nat]
    BY <1>1, <1>5, <2>1 DEF R!TypeOK
  <2> QED
    BY <1>1, <1>4, <1>5, <2>2 DEF R!TypeOK
<1>7. Apart(R!Queue') /\ arrived' = All(R!Queue')
  BY <1>1, <1>3, <1>4 DEF QueueInv
<1>8. InTime(q_time', rnow') /\ InTime(promised', rnow')
  BY <1>1, <1>2, <1>3, <1>4 DEF QueueInv, InTime, AgedLeave
<1>9. ASSUME NEW e \in promised
      PROVE  Awaited(e, r.time, tasks', rnow) \/ Served(e, r.seq, rnow)
  <2>1. e \in R!DataElement /\ e.arriveTime <= ArrivalTime
    BY <1>5 DEF R!TypeOK, QueueInv, InTime
  <2>2. Awaited(e, R!Queue.time, tasks, rnow) \/ Served(e, R!Queue.seq, rnow)
    BY <1>2 DEF QueueInv, Kept
  <2>3. ASSUME tasks[DueTime(e)] > 0, rnow < DueTime(e) PROVE tasks'[DueTime(e)] > 0
    <3>1. DueTime(e) \in R!Times /\ DueTime(e) # rnow
      BY <1>2, <2>1, <2>3, TimesAre
    <3> QED
      BY <1>1, <1>5, <2>3, <3>1 DEF R!TypeOK
  <2>4. r.seq \subseteq R!Queue.seq
    BY <1>3 DEF Released
  <2> QED
    BY <1>2, <1>3, <2>1, <2>2, <2>3, <2>4, ReleaseServes
<1>10. Kept(promised', q_seq', q_time', tasks', rnow')
  BY <1>1, <1>4, <1>9 DEF Kept
<1>11. QueueInv'
  BY <1>6, <1>7, <1>8, <1>10 DEF QueueInv
<1>12. /\ \A e \in R!NewlyPassed : e \in new
       /\ R!Range(passed') = R!Range(passed) \cup new
  BY <1>3, <1>4, NewOnesAre
<1>13. OvertakesNone
  <2> SUFFICES ASSUME NEW e \in R!NewlyPassed, NEW f \in R!IdsOf(q_seq \cap q_seq'), f < e
               PROVE  FALSE
    BY DEF OvertakesNone
  <2>1. PICK x \in q_seq' : f = x.id
    BY DEF R!IdsOf
  <2> QED
    BY <1>3, <1>4, <1>12, <2>1 DEF Released
<1>14. SkipsNone
  <2> SUFFICES ASSUME NEW e \in R!NewlyPassed, passed # <<>>, ~ R!Overtaken(e, passed),
                      NEW m \in 0..(e - 1), m \notin R!Range(passed'), ~ R!Overtaken(m, passed)
               PROVE  \E x \in q_time : x.id >= e /\ x.arriveTime + maxWaitTime <= rnow
    BY DEF SkipsNone
  <2>1. e \in new /\ e \in R!DataIds /\ e \in Nat /\ e \in Int
    BY <1>2, <1>3, <1>12, StatesAre, DataIdsAre DEF Released
  <2>2. CASE \A k \in Int : lastDataId < k /\ k <= e => k \in new
    BY <1>12, <2>1, <2>2, NoGapBefore
  <2>3. CASE \E x \in R!Aged(R!Queue) : e <= x.id
    <3>1. PICK x \in R!Aged(R!Queue) : e <= x.id
      BY <2>3
    <3>2. x \in q_time /\ x \in R!DataElement /\ x.arriveTime <= rnow - maxWaitTime
      BY <1>2, <1>5 DEF R!Aged, R!TypeOK
    <3>3. x.id >= e /\ x.arriveTime + maxWaitTime <= rnow
      BY <1>2, <2>1, <3>1, <3>2, TimesAre, QueueConstants
    <3> QED
      BY <3>2, <3>3
  <2> QED
    BY <1>2, <1>3, <2>1, <2>2, <2>3 DEF HasReason
<1> QED
  BY <1>11, <1>13, <1>14

LEMMA TimePasses ==
  ASSUME R!ResequenceQueueAssumption, QueueInv, R!Tick
  PROVE  QueueInv' /\ OvertakesNone /\ SkipsNone
<1>1. /\ tasks[rnow] = 0 /\ rnow < ArrivalTime + maxWaitTime /\ rnow' = rnow + 1
      /\ lastDataId' = lastDataId /\ q_seq' = q_seq /\ q_time' = q_time /\ tasks' = tasks
      /\ arrived' = arrived /\ passed' = passed /\ promised' = promised
  BY DEF R!Tick
<1>2. R!TypeOK /\ rnow \in R!Times /\ rnow \in Nat /\ passed \in Seq(R!DataIds)
  BY QueueIs DEF QueueInv, R!TypeOK
<1>3. R!TypeOK'
  <2>1. rnow' \in R!Times
    BY <1>1, <1>2, QueueConstants DEF R!Times
  <2> QED
    BY <1>1, <1>2, <2>1 DEF R!TypeOK
<1>4. R!Queue' = R!Queue
  BY <1>1 DEF R!Queue
<1>5. Apart(R!Queue') /\ arrived' = All(R!Queue')
  BY <1>1, <1>4 DEF QueueInv
<1>6. InTime(q_time', rnow') /\ InTime(promised', rnow')
  <2>1. \A e \in R!DataElement : e.arriveTime <= rnow => e.arriveTime <= rnow'
    BY <1>1, <1>2, TimesAre
  <2> QED
    BY <1>1, <1>2, <2>1 DEF QueueInv, InTime, R!TypeOK
<1>7. ASSUME NEW e \in promised
      PROVE  Awaited(e, q_time, tasks, rnow') \/ Served(e, q_seq, rnow')
  <2>1. e \in R!DataElement /\ DueTime(e) \in Nat
    BY <1>2, TimesAre DEF R!TypeOK
  <2>2. CASE Awaited(e, q_time, tasks, rnow)
    <3>1. DueTime(e) # rnow
      BY <1>1, <2>2 DEF Awaited
    <3>2. rnow' <= DueTime(e)
      BY <1>1, <1>2, <2>1, <2>2, <3>1 DEF Awaited
    <3> QED
      BY <2>2, <3>2 DEF Awaited
  <2>3. CASE Served(e, q_seq, rnow)
    BY <1>1, <1>2, <2>1, <2>3, StaysServed
  <2> QED
    BY <2>2, <2>3 DEF QueueInv, Kept
<1>8. QueueInv'
  BY <1>1, <1>3, <1>5, <1>6, <1>7 DEF QueueInv, Kept
<1>9. \A e \in R!NewlyPassed : FALSE
  <2>1. Len(passed) \in Nat
    BY <1>2
  <2> QED
    BY <1>1, <2>1 DEF R!NewlyPassed
<1> QED
  BY <1>8, <1>9 DEF OvertakesNone, SkipsNone

LEMMA OutOfOrderWaits ==
  ASSUME R!ResequenceQueueAssumption, QueueInv, NEW d \in R!DataIds, R!ReceiveOutOfOrder(d)
  PROVE  QueueInv' /\ OvertakesNone /\ SkipsNone
<1> DEFINE de == [id |-> d, arriveTime |-> rnow]
           s  == R!MakeRoom(R!Queue)
           w  == [s EXCEPT !.seq = @ \cup {de}, !.time = @ \cup {de}]
           r  == R!ReleaseQueue(w)
           oldest == {e \in r.time : \A f \in r.time : e.arriveTime <= f.arriveTime}
<1>1. /\ d \notin arrived /\ rnow <= ArrivalTime /\ ~ R!FollowsLast(d) /\ R!Becomes(r)
      /\ arrived' = arrived \cup {d} /\ rnow' = rnow
  BY DEF R!ReceiveOutOfOrder
<1>2. \/ r.seq = {} /\ tasks' = tasks /\ promised' = promised
      \/ /\ r.seq # {}
         /\ \E e \in oldest : /\ tasks' = [tasks EXCEPT ![e.arriveTime + maxWaitTime] = @ + 1]
                              /\ promised' = promised \cup {e}
  BY DEF R!ReceiveOutOfOrder
<1>3. \A e \in oldest : e \in r.time
  OBVIOUS
<1>4. /\ Apart(R!Queue) /\ R!Queue \in QueueStates
      /\ R!Queue.last = lastDataId /\ R!Queue.seq = q_seq /\ R!Queue.time = q_time
      /\ R!Queue.sent = passed /\ rnow \in R!Times /\ rnow \in Nat /\ R!TypeOK
  BY QueueIs DEF QueueInv
<1>5. de \in R!DataElement /\ de.id = d /\ de.arriveTime = rnow
  BY <1>4 DEF R!DataElement
<1>6. PICK first :
        /\ Apart(s) /\ All(s) = All(R!Queue) /\ Grown(R!Queue, s, first) /\ Released(R!Queue, s, first)
        /\ s.time = R!Queue.time
        /\ Cardinality(R!Queue.seq) = size \/ (s = R!Queue /\ first = {})
        /\ s.last = -1 => R!Queue.last = -1
  BY <1>4, RoomIsMade
<1> HIDE DEF oldest, s, de
<1>7. /\ w.last = s.last /\ w.seq = s.seq \cup {de} /\ w.time = s.time \cup {de} /\ w.sent = s.sent
      /\ w \in QueueStates
  <2>1. s \in QueueStates
    BY <1>6 DEF Apart
  <2> QED
    BY <1>5, <2>1 DEF QueueStates
<1> HIDE DEF w
<1>8. R!IdsOf(w.seq) = R!IdsOf(s.seq) \cup {d}
  <2>1. \A e : e \in R!IdsOf(w.seq) <=> \E f \in w.seq : f.id = e
    BY DEF R!IdsOf
  <2>2. \A e : e \in R!IdsOf(s.seq) <=> \E f \in s.seq : f.id = e
    BY DEF R!IdsOf
  <2> QED
    BY <1>5, <1>7, <2>1, <2>2
<1>9. All(w) = All(R!Queue) \cup {d}
  BY <1>6, <1>7, <1>8 DEF All
<1>10. Apart(w)
  <2>1. d \notin All(s)
    BY <1>1, <1>6 DEF QueueInv
  <2>2. s.last # -1
    BY <1>1, <1>4, <1>6 DEF R!FollowsLast
  <2> QED
    BY <1>6, <1>7, <1>8, <2>1, <2>2 DEF Apart, All
<1>11. PICK new :
         /\ Apart(r) /\ All(r) = All(w) /\ Grown(w, r, new) /\ Released(w, r, new)
         /\ HasReason(w, R!Aged(w), new) /\ AgedLeave(w, R!Aged(w), r)
  BY <1>4, <1>10, ReleaseIs
<1> HIDE DEF r
<1>12. /\ R!Queue' = r
       /\ lastDataId' = r.last /\ q_seq' = r.seq /\ q_time' = r.time /\ passed' = r.sent
       /\ lastDataId' \in -1..MaxDataId /\ q_seq' \subseteq R!DataElement
       /\ q_time' \subseteq R!DataElement /\ passed' \in Seq(R!DataIds)
  BY <1>1, <1>11, Becoming
<1>13. Grown(R!Queue, r, first \cup new)
  <2>1. Grown(R!Queue, w, first)
    BY <1>6, <1>7 DEF Grown
  <2>2. r \in QueueStates
    BY <1>11 DEF Apart
  <2> QED
    BY <1>4, <1>7, <1>11, <2>1, <2>2, GrownOn
<1>14. s.seq \subseteq q_seq /\ s.time = q_time
  BY <1>4, <1>6 DEF Released
<1>15. r.seq \subseteq w.seq /\ r.time \subseteq w.time
  BY <1>11 DEF Released, AgedLeave
<1>16. Apart(R!Queue') /\ arrived' = All(R!Queue')
  BY <1>1, <1>9, <1>11, <1>12 DEF QueueInv
<1>17. InTime(q_time', rnow')
  BY <1>1, <1>4, <1>5, <1>7, <1>12, <1>14, <1>15 DEF QueueInv, InTime
<1>18. ASSUME NEW e \in promised, NEW events2, 
              \A t \in R!Times : tasks[t] > 0 => events2[t] > 0
       PROVE  Awaited(e, r.time, events2, rnow) \/ Served(e, r.seq, rnow)
  <2>1. e \in R!DataElement /\ e.arriveTime <= ArrivalTime /\ DueTime(e) \in R!Times
    BY <1>4, TimesAre DEF R!TypeOK, QueueInv, InTime
  <2>2. Awaited(e, w.time, tasks, rnow) \/ Served(e, w.seq, rnow)
    <3>1. Awaited(e, q_time, tasks, rnow) \/ Served(e, q_seq, rnow)
      BY DEF QueueInv, Kept
    <3>2. Awaited(e, q_time, tasks, rnow) => Awaited(e, w.time, tasks, rnow)
      BY <1>7, <1>14 DEF Awaited
    <3>3. \A f \in w.seq : f \in q_seq \/ (f \in R!DataElement /\ f.arriveTime >= rnow)
      BY <1>4, <1>5, <1>7, <1>14
    <3>4. Served(e, q_seq, rnow) => Served(e, w.seq, rnow)
      BY <1>4, <2>1, <3>3, StaysServed
    <3> QED
      BY <3>1, <3>2, <3>4
  <2>3. tasks[DueTime(e)] > 0 /\ rnow < DueTime(e) => events2[DueTime(e)] > 0
    BY <1>18, <2>1
  <2> QED
    BY <1>4, <1>7, <1>11, <1>15, <2>1, <2>2, <2>3, ReleaseServes
<1>19. R!TypeOK' /\ InTime(promised', rnow') /\ Kept(promised', q_seq', q_time', tasks', rnow')
  <2>1. arrived' \subseteq R!DataIds
    BY <1>1, <1>4 DEF R!TypeOK
  <2>2. CASE r.seq = {} /\ tasks' = tasks /\ promised' = promised
    <3>1. R!TypeOK'
      BY <1>1, <1>4, <1>12, <2>1, <2>2 DEF R!TypeOK
    <3>2. InTime(promised', rnow')
      BY <1>1, <2>2 DEF QueueInv, InTime
    <3>3. \A e \in promised : Awaited(e, r.time, tasks, rnow) \/ Served(e, r.seq, rnow)
      BY <1>18
    <3>4. Kept(promised', q_seq', q_time', tasks', rnow')
      BY <1>1, <1>12, <2>2, <3>3 DEF Kept
    <3> QED
      BY <3>1, <3>2, <3>4
  <2>3. CASE r.seq # {} /\ \E e \in oldest :
                  /\ tasks' = [tasks EXCEPT ![e.arriveTime + maxWaitTime] = @ + 1]
                  /\ promised' = promised \cup {e}
    <3>1. PICK x \in oldest : /\ tasks' = [tasks EXCEPT ![DueTime(x)] = @ + 1]
                              /\ promised' = promised \cup {x}
      BY <2>3 DEF DueTime
    <3>2. x \in r.time /\ x \in R!DataElement /\ x.arriveTime <= rnow /\ x.arriveTime <= ArrivalTime
      BY <1>1, <1>3, <1>12, <1>17 DEF InTime
    <3>3. DueTime(x) \in R!Times /\ DueTime(x) \in Nat /\ DueTime(x) = x.arriveTime + maxWaitTime
          /\ x.arriveTime \in Nat
      BY <3>2, TimesAre DEF DueTime
    <3>4. tasks \in [R!Times -> Nat]
      BY <1>4 DEF R!TypeOK
    <3>5. tasks' \in [R!Times -> Nat] /\ tasks'[DueTime(x)] = tasks[DueTime(x)] + 1
          /\ \A t \in R!Times : t # DueTime(x) => tasks'[t] = tasks[t]
      BY <3>1, <3>3, <3>4
    <3>6. \A t \in R!Times : tasks[t] > 0 => tasks'[t] > 0
      BY <3>4, <3>5
    <3>7. R!TypeOK'
      BY <1>1, <1>4, <1>12, <2>1, <3>1, <3>2, <3>5 DEF R!TypeOK
    <3>8. InTime(promised', rnow')
      BY <1>1, <3>1, <3>2 DEF QueueInv, InTime
    <3>9. Awaited(x, r.time, tasks', rnow)
      <4>1. x \notin R!Aged(w)
        BY <1>11, <2>3, <3>2 DEF AgedLeave
      <4>2. x \in w.time
        BY <1>15, <3>2
      <4>3. ~ (x.arriveTime <= rnow - maxWaitTime)
        BY <4>1, <4>2 DEF R!Aged
      <4>4. rnow <= DueTime(x)
        BY <1>4, <3>3, <4>3, QueueConstants
      <4>5. tasks'[DueTime(x)] > 0
        BY <3>3, <3>4, <3>5
      <4> QED
        BY <3>2, <4>4, <4>5 DEF Awaited
    <3>10. \A e \in promised : Awaited(e, r.time, tasks', rnow) \/ Served(e, r.seq, rnow)
      BY <1>18, <3>6
    <3>11. Kept(promised', q_seq', q_time', tasks', rnow')
      BY <1>1, <1>12, <3>1, <3>9, <3>10 DEF Kept
    <3> QED
      BY <3>7, <3>8, <3>11
  <2> QED
    BY <1>2, <2>2, <2>3
<1>20. QueueInv'
  BY <1>16, <1>17, <1>19 DEF QueueInv
<1>21. /\ \A e \in R!NewlyPassed : e \in first \cup new
       /\ R!Range(passed') = R!Range(passed) \cup (first \cup new)
  BY <1>12, <1>13, NewOnesAre
<1>22. OvertakesNone
  <2> SUFFICES ASSUME NEW e \in R!NewlyPassed, NEW f \in R!IdsOf(q_seq \cap q_seq'), f < e
               PROVE  FALSE
    BY DEF OvertakesNone
  <2>1. PICK x \in q_seq \cap q_seq' : f = x.id
    BY DEF R!IdsOf
  <2>2. CASE e \in new
    BY <1>11, <1>12, <2>1, <2>2 DEF Released
  <2>3. CASE e \in first
    <3>1. CASE x \in s.seq
      BY <1>6, <2>1, <2>3, <3>1 DEF Released
    <3>2. CASE x = de
      <4>1. d \in R!IdsOf(q_seq)
        BY <1>5, <2>1, <3>2 DEF R!IdsOf
      <4> QED
        BY <1>1, <1>4, <4>1 DEF QueueInv, All
    <3> QED
      BY <1>7, <1>12, <1>15, <2>1, <3>1, <3>2
  <2> QED
    BY <1>21, <2>2, <2>3
<1>23. SkipsNone
  <2> SUFFICES ASSUME NEW e \in R!NewlyPassed, passed # <<>>, ~ R!Overtaken(e, passed),
                      NEW m \in 0..(e - 1), m \notin R!Range(passed'), ~ R!Overtaken(m, passed),
                      R!Cardinality(q_seq) # size
               PROVE  \E x \in q_time : x.id >= e /\ x.arriveTime + maxWaitTime <= rnow
    BY DEF SkipsNone
  <2>1. s = R!Queue /\ first = {}
    BY <1>4, <1>6 DEF R!Cardinality, Cardinality
  <2>2. e \in new /\ w.last = lastDataId /\ R!Range(passed') = R!Range(passed) \cup new
    BY <1>4, <1>7, <1>21, <2>1
  <2>3. e \in R!DataIds /\ e \in Nat /\ e \in Int
    BY <1>7, <1>11, <2>2, StatesAre, DataIdsAre DEF Released
  <2>4. CASE \A k \in Int : lastDataId < k /\ k <= e => k \in new
    BY <2>2, <2>3, <2>4, NoGapBefore
  <2>5. CASE \E x \in R!Aged(w) : e <= x.id
    <3>1. PICK x \in R!Aged(w) : e <= x.id
      BY <2>5
    <3>2. x \in w.time /\ x.arriveTime <= rnow - maxWaitTime
      BY DEF R!Aged
    <3>3. x # de
      BY <1>4, <1>5, <3>2, QueueConstants
    <3>4. x \in q_time /\ x \in R!DataElement
      BY <1>4, <1>7, <1>14, <3>2, <3>3 DEF R!TypeOK
    <3>5. x.id >= e /\ x.arriveTime + maxWaitTime <= rnow
      BY <1>4, <2>3, <3>1, <3>2, <3>4, TimesAre, QueueConstants
    <3> QED
      BY <3>4, <3>5
  <2> QED
    BY <1>11, <2>2, <2>4, <2>5 DEF HasReason
<1> QED
  BY <1>20, <1>22, <1>23

\* What the invariant says of the promises is what PromiseKept asks.
LEMMA QueueIsSound ==
  ASSUME R!ResequenceQueueAssumption, QueueInv
  PROVE  R!TypeOK /\ R!PassedOnce /\ R!PromiseKept
<1>1. R!TypeOK
  BY DEF QueueInv
<1>2. R!PassedOnce
  <2>1. R!Cardinality(R!Range(passed)) = Cardinality(R!Range(passed))
    BY DEF R!Cardinality, Cardinality
  <2> QED
    BY <2>1, QueueIs DEF QueueInv, R!PassedOnce, Apart, All
<1>3. ASSUME NEW e \in promised, NEW f \in q_seq,
             f.id <= e.id, f.arriveTime < e.arriveTime + maxWaitTime
      PROVE  rnow <= e.arriveTime + maxWaitTime
  <2>1. e \in R!DataElement /\ f \in R!DataElement
    BY <1>1 DEF R!TypeOK
  <2>2. DueTime(e) \in Nat /\ f.arriveTime \in Nat /\ DueTime(e) = e.arriveTime + maxWaitTime
    BY <2>1, TimesAre DEF DueTime
  <2>3. CASE Awaited(e, q_time, tasks, rnow)
    BY <2>2, <2>3 DEF Awaited
  <2>4. CASE Served(e, q_seq, rnow)
    BY <1>3, <2>2, <2>4 DEF Served
  <2> QED
    BY <2>3, <2>4 DEF QueueInv, Kept
<1> QED
  BY <1>1, <1>2, <1>3 DEF R!PromiseKept

LEMMA QueueStutters ==
  ASSUME R!ResequenceQueueAssumption, QueueInv, UNCHANGED R!vars
  PROVE  QueueInv'
<1>1. /\ lastDataId' = lastDataId /\ q_seq' = q_seq /\ q_time' = q_time /\ tasks' = tasks
      /\ rnow' = rnow /\ arrived' = arrived /\ passed' = passed /\ promised' = promised
  BY DEF R!vars
<1>2. R!Queue' = R!Queue
  BY <1>1 DEF R!Queue
<1>3. R!TypeOK'
  BY <1>1 DEF QueueInv, R!TypeOK
<1> QED
  BY <1>1, <1>2, <1>3 DEF QueueInv

\* The queue passes each capsule once, overtakes none, gives up no gap without a reason and
\* keeps what it promised: any stream, any capacity, any time to wait.
THEOREM QueueInOrder ==
  ASSUME R!ResequenceQueueAssumption
  PROVE  R!Spec => [](R!TypeOK /\ R!PassedOnce /\ R!PromiseKept) /\ R!NoOvertaking /\ R!NoEarlySkip
<1>1. R!Init => QueueInv
  BY QueueStarts
<1>2. QueueInv /\ R!Next => QueueInv' /\ OvertakesNone /\ SkipsNone
  BY InOrderPassesOn, OutOfOrderWaits, DequeueReleases, TimePasses DEF R!Next
<1>3. QueueInv /\ [R!Next]_(R!vars) => QueueInv'
  BY <1>2, QueueStutters
<1>4. QueueInv => R!TypeOK /\ R!PassedOnce /\ R!PromiseKept
  BY QueueIsSound
<1>5. QueueInv /\ [R!Next]_(R!vars) =>
        [\A e \in R!NewlyPassed, f \in R!IdsOf(q_seq \cap q_seq') : f < e => R!Overtaken(f, passed)]_(R!vars)
  BY <1>2 DEF OvertakesNone
<1>6. QueueInv /\ [R!Next]_(R!vars) =>
        [\A e \in R!NewlyPassed :
           (passed # <<>> /\ ~ R!Overtaken(e, passed)
              /\ \E m \in 0..(e - 1) : m \notin R!Range(passed') /\ ~ R!Overtaken(m, passed))
           => \/ R!Cardinality(q_seq) = size
              \/ \E x \in q_time : x.id >= e /\ x.arriveTime + maxWaitTime <= rnow]_(R!vars)
  BY <1>2 DEF SkipsNone
<1> QED
  BY <1>1, <1>3, <1>4, <1>5, <1>6, PTL DEF R!Spec, R!NoOvertaking, R!NoEarlySkip
-------------------------------------------------------------------------------
(* ActiveCheck, for any period, any factor and any time of silence.            *)
\* The member of a set a fold takes next, and what is left of the set.
Pick(s) == CHOOSE x \in s : TRUE
Rest(s) == s \ {Pick(s)}

\* A set loses one member to a fold.
LEMMA RestSmaller ==
  ASSUME NEW S, IsFiniteSet(S), NEW s \in SUBSET S, s # {}
  PROVE  /\ Pick(s) \in S /\ Rest(s) \in SUBSET S
         /\ Cardinality(s) \in Nat /\ Cardinality(Rest(s)) \in Nat
         /\ Cardinality(Rest(s)) = Cardinality(s) - 1
<1>1. Pick(s) \in s
  BY DEF Pick
<1>2. IsFiniteSet(s)
  BY FS_Subset
<1>3. /\ IsFiniteSet(s \ {Pick(s)})
      /\ Cardinality(s \ {Pick(s)}) = IF Pick(s) \in s THEN Cardinality(s) - 1 ELSE Cardinality(s)
  BY <1>2, FS_RemoveElement
<1>4. Cardinality(s) \in Nat /\ Cardinality(s \ {Pick(s)}) \in Nat
  BY <1>2, <1>3, FS_CardinalityType
<1> QED
  BY <1>1, <1>3, <1>4 DEF Rest

\* The values a fold gives, for sets of up to w members.
FoldsUpTo(op, base, S, U, w) ==
  {f \in [{s \in SUBSET S : Cardinality(s) <= w} -> U] :
     \A s \in DOMAIN f : f[s] = IF s = {} THEN base ELSE op[<<Pick(s), f[Rest(s)]>>]}

\* f folds op over the subsets of S, from base on.
IsFold(f, op, base, S, U) ==
  /\ f \in [SUBSET S -> U]
  /\ f = [s \in SUBSET S |-> IF s = {} THEN base ELSE op[<<Pick(s), f[Rest(s)]>>]]

\* There is a function that folds.
LEMMA FoldExists ==
  ASSUME NEW S, IsFiniteSet(S), NEW U, NEW base \in U, NEW op \in [S \X U -> U]
  PROVE  \E f : IsFold(f, op, base, S, U)
<1> DEFINE Bad == {w \in Nat : FoldsUpTo(op, base, S, U, w) = {}}
<1>0. \A s \in SUBSET S : Cardinality(s) \in Nat /\ (Cardinality(s) = 0 <=> s = {})
  BY FS_Subset, FS_CardinalityType, FS_EmptySet
<1>1. Bad = {}
  <2>1. SUFFICES ASSUME Bad # {} PROVE FALSE
    OBVIOUS
  <2>2. Bad \in SUBSET Nat
    OBVIOUS
  <2>3. PICK w \in Bad : \A m \in Bad : w <= m
    BY <2>1, <2>2, LeastExists
  <2>4. w # 0
    <3> DEFINE D == {s \in SUBSET S : Cardinality(s) <= 0}
    <3>1. D = {{}}
      BY <1>0
    <3>2. [s \in D |-> base] \in FoldsUpTo(op, base, S, U, 0)
      BY <3>1 DEF FoldsUpTo
    <3> QED
      BY <3>2
  <2>5. w \in Nat /\ w - 1 \in Nat /\ w - 1 \notin Bad
    BY <2>3, <2>4
  <2>6. PICK f \in FoldsUpTo(op, base, S, U, w - 1) : TRUE
    BY <2>5
  <2> DEFINE D == {s \in SUBSET S : Cardinality(s) <= w}
             D1 == {s \in SUBSET S : Cardinality(s) <= w - 1}
             h == [s \in D |-> IF s = {} THEN base ELSE op[<<Pick(s), f[Rest(s)]>>]]
  <2>7. ASSUME NEW s \in D, s # {} PROVE Pick(s) \in S /\ Rest(s) \in D1 /\ Rest(s) \in D
    BY <2>5, <2>7, RestSmaller
  <2>8. /\ f \in [D1 -> U]
        /\ \A s \in D1 : f[s] = IF s = {} THEN base ELSE op[<<Pick(s), f[Rest(s)]>>]
    BY <2>6 DEF FoldsUpTo
  <2>9. h \in [D -> U]
    BY <2>7, <2>8
  <2>10. \A s \in D1 : s \in D /\ h[s] = f[s]
    BY <1>0, <2>5, <2>8
  <2>11. ASSUME NEW s \in D
         PROVE  h[s] = IF s = {} THEN base ELSE op[<<Pick(s), h[Rest(s)]>>]
    BY <2>7, <2>10
  <2>12. h \in FoldsUpTo(op, base, S, U, w)
    BY <2>9, <2>11 DEF FoldsUpTo
  <2> QED
    BY <2>3, <2>12
<1>2. Cardinality(S) \in Nat
  BY <1>0
<1>3. PICK f \in FoldsUpTo(op, base, S, U, Cardinality(S)) : TRUE
  BY <1>1, <1>2
<1>4. \A s \in SUBSET S : Cardinality(s) <= Cardinality(S)
  BY FS_Subset
<1>5. {s \in SUBSET S : Cardinality(s) <= Cardinality(S)} = SUBSET S
  BY <1>4
<1>6. /\ f \in [SUBSET S -> U]
      /\ \A s \in SUBSET S : f[s] = IF s = {} THEN base ELSE op[<<Pick(s), f[Rest(s)]>>]
  BY <1>3, <1>5 DEF FoldsUpTo
<1> QED
  BY <1>6 DEF IsFold

-------------------------------------------------------------------------------
(* ActiveCheck, for any clock, period, factor and time.                         *)

\* The capsules of one second.
ArrivedIn(arr, s) == {t \in arr : A!Second(t) = s}
IsFirst(t, arr) == t \in arr /\ \A u \in arr : t <= u
IsLast(t, arr) == t \in arr /\ \A u \in arr : u <= t

\* The counts are those of the capsules, second by second.
CountsAre(arr, c, init, last) ==
  /\ \E t : IsFirst(t, arr) /\ init = A!Second(t)
  /\ \E t : IsLast(t, arr) /\ last = A!Second(t)
  /\ c \in Seq(Nat) /\ Len(c) = last - init + 1
  /\ \A k \in 1..Len(c) : c[k] = Cardinality(ArrivedIn(arr, init + k - 1))

CountsKept ==
  /\ tick \in Nat /\ arrivals \subseteq 0..tick
  /\ arrivals = {} => last_count_secs = A!None /\ counts = <<>> /\ init_secs = A!None
  /\ arrivals # {} => CountsAre(arrivals, counts, init_secs, last_count_secs)

\* At most one event is due, the one remembered.
EventsKept ==
  /\ waitCap \in Nat \cup {A!None} /\ events \subseteq Nat /\ events \subseteq {waitCap}
  /\ checks \subseteq 0..tick

ActiveInv == CountsKept /\ EventsKept /\ A!SilenceSuspected

LEMMA ActiveConstants ==
  ASSUME A!ActiveCheckAssumption
  PROVE  /\ TicksPerSec \in Nat /\ TicksPerSec > 0 /\ Period \in Nat /\ Period > 0 /\ Factor \in Nat
         /\ \A t \in Nat : A!Second(t) \in Nat
         /\ \A t, u \in Nat : t <= u => A!Second(t) <= A!Second(u)
<1>1. TicksPerSec \in Nat /\ TicksPerSec > 0 /\ Period \in Nat /\ Period > 0 /\ Factor \in Nat
  BY DEF A!ActiveCheckAssumption
<1>2. \A t \in Nat : A!Second(t) \in Nat
  BY <1>1 DEF A!Second
<1>3. \A t, u \in Nat : t <= u => A!Second(t) <= A!Second(u)
  BY <1>1 DEF A!Second
<1> QED
  BY <1>1, <1>2, <1>3

\* The capsules whose index g gives is in S.
Indexed(arr, g, S) == {t \in arr : g[t] \in S}
CountsIndexed(c, arr, g, len) ==
  \A k \in 1..len : c[k] \in Nat /\ c[k] = Cardinality(Indexed(arr, g, {k}))

\* What the code adds up is the number of capsules whose seconds are looked at.
LEMMA RecentAddUp ==
  ASSUME NEW arr, IsFiniteSet(arr), NEW g, NEW c, NEW len \in Nat, Len(c) = len,
         Period \in Nat, Period < len, 
         CountsIndexed(c, arr, g, len)
  PROVE  A!RecentTotal(c) = Cardinality(Indexed(arr, g, (len - Period)..(len - 1)))
<1> DEFINE S == (len - Period)..(len - 1)
           op == [p \in S \X Nat |-> p[2] + c[p[1]]]
           Has(s) == Indexed(arr, g, s)
<1>1. IsFiniteSet(S) /\ S \subseteq 1..len
  BY FS_Interval
<1>2. op \in [S \X Nat -> Nat]
  <2>1. ASSUME NEW p \in S \X Nat PROVE p[2] + c[p[1]] \in Nat
    <3>1. p[1] \in 1..len /\ p[2] \in Nat
      BY <1>1
    <3>2. \A k \in 1..len : c[k] \in Nat
      BY DEF CountsIndexed
    <3>3. c[p[1]] \in Nat
      BY <3>1, <3>2
    <3> QED
      BY <3>1, <3>3
  <2> QED
    BY <2>1
<1>3. A!RecentTotal(c) = A!FoldSet(LAMBDA k, sum : sum + c[k], 0, S)
  BY DEF A!RecentTotal
<1> HIDE DEF S
<1>4. PICK f : IsFold(f, op, 0, S, Nat)
  <2> HIDE DEF op
  <2> QED
    BY <1>1, <1>2, FoldExists
<1>5. ASSUME NEW x \in SUBSET S, x # {}
      PROVE  Pick(x) \in x /\ Pick(x) \in S /\ Rest(x) \in SUBSET S
  <2>1. Pick(x) \in x
    BY <1>5 DEF Pick
  <2> QED
    BY <2>1 DEF Rest
<1>6. ASSUME NEW x \in SUBSET S, x # {}
      PROVE  op[<<Pick(x), f[Rest(x)]>>] = f[Rest(x)] + c[Pick(x)]
  <2>1. Pick(x) \in S /\ f[Rest(x)] \in Nat
    BY <1>4, <1>5, <1>6 DEF IsFold
  <2> QED
    BY <2>1
<1>7. f = [x \in SUBSET S |-> IF x = {} THEN 0 ELSE f[Rest(x)] + c[Pick(x)]]
  <2> HIDE DEF op
  <2> QED
    BY <1>4, <1>6 DEF IsFold
<1>8. PICK h : /\ h = [x \in SUBSET S |-> IF x = {} THEN 0 ELSE h[Rest(x)] + c[Pick(x)]]
               /\ A!RecentTotal(c) = h[S]
  BY <1>3, <1>7 DEF A!FoldSet, A!MapThenFoldSet, Pick, Rest
<1> DEFINE Bad == {k \in Nat : \E x \in SUBSET S : Cardinality(x) = k /\ h[x] # Cardinality(Has(x))}
<1>9. Bad = {}
  <2>1. SUFFICES ASSUME Bad # {} PROVE FALSE
    OBVIOUS
  <2>2. Bad \in SUBSET Nat
    OBVIOUS
  <2>3. PICK k \in Bad : \A m \in Bad : k <= m
    BY <2>1, <2>2, LeastExists
  <2>4. PICK x \in SUBSET S : Cardinality(x) = k /\ h[x] # Cardinality(Has(x))
    BY <2>3
  <2>5. CASE x = {}
    <3>1. Has(x) = {}
      BY <2>5 DEF Indexed
    <3> QED
      BY <1>8, <2>4, <2>5, <3>1, FS_EmptySet
  <2>6. CASE x # {}
    <3>1. /\ Rest(x) \in SUBSET S /\ Cardinality(Rest(x)) \in Nat /\ Cardinality(Rest(x)) = k - 1
          /\ k \in Nat /\ Pick(x) \in S /\ Pick(x) \in x
      BY <1>1, <1>5, <2>4, <2>6, RestSmaller
    <3>2. k - 1 \notin Bad
      <4> HIDE DEF Bad
      <4> QED
        BY <2>3, <3>1
    <3>3. h[Rest(x)] = Cardinality(Has(Rest(x)))
      BY <3>1, <3>2
    <3> DEFINE One == Indexed(arr, g, {Pick(x)})
    <3>4. Has(x) = Has(Rest(x)) \cup One /\ Has(Rest(x)) \cap One = {}
      BY <3>1 DEF Rest, Indexed
    <3>5. IsFiniteSet(One) /\ IsFiniteSet(Has(Rest(x)))
      BY FS_Subset DEF Indexed
    <3>6. Cardinality(Has(x)) = Cardinality(Has(Rest(x))) + Cardinality(One)
      <4> HIDE DEF Has, One
      <4>1. /\ Cardinality(Has(Rest(x)) \cup One)
                 = Cardinality(Has(Rest(x))) + Cardinality(One) - Cardinality(Has(Rest(x)) \cap One)
            /\ Cardinality(Has(Rest(x))) \in Nat /\ Cardinality(One) \in Nat
        BY <3>5, FS_Union, FS_CardinalityType
      <4>2. Cardinality(Has(Rest(x)) \cap One) = 0
        BY <3>4, FS_EmptySet
      <4>3. Cardinality(Has(x)) = Cardinality(Has(Rest(x)) \cup One)
        BY <3>4
      <4> QED
        BY <4>1, <4>2, <4>3
    <3>7. c[Pick(x)] = Cardinality(One)
      BY <1>1, <3>1 DEF CountsIndexed
    <3>8. h[x] = h[Rest(x)] + c[Pick(x)]
      BY <1>8, <2>6
    <3> QED
      BY <2>4, <3>3, <3>6, <3>7, <3>8
  <2> QED
    BY <2>5, <2>6
<1>10. Cardinality(S) \in Nat
  BY <1>1, FS_CardinalityType
<1>11. h[S] = Cardinality(Has(S))
  BY <1>9, <1>10
<1> QED
  BY <1>8, <1>11 DEF S

\* The first and the last of the capsules.
LEMMA LastIs ==
  ASSUME NEW arr, arr \subseteq Nat, NEW t, IsLast(t, arr)
  PROVE  A!Max(arr) = t
<1>1. t \in arr /\ \A x \in arr : (\A y \in arr : x >= y) => x = t
  BY DEF IsLast
<1>2. \A y \in arr : t >= y
  BY DEF IsLast
<1> QED
  BY <1>1, <1>2 DEF A!Max

LEMMA FirstIs ==
  ASSUME NEW arr, arr \subseteq Nat, NEW t, IsFirst(t, arr)
  PROVE  A!Min(arr) = t
<1>1. t \in arr /\ \A x \in arr : (\A y \in arr : x <= y) => x = t
  BY DEF IsFirst
<1>2. \A y \in arr : t <= y
  BY DEF IsFirst
<1> QED
  BY <1>1, <1>2 DEF A!Min

\* What is watched, and what is counted, in terms of the counts.
LEMMA WatchedIs ==
  ASSUME A!ActiveCheckAssumption, NEW arr, NEW time \in Nat, arr \subseteq 0..time,
         NEW c, NEW init, NEW last, CountsAre(arr, c, init, last)
  PROVE  /\ A!Second(A!Max(arr)) >= A!Second(A!Min(arr)) + Period => Len(c) >= Period + 1
         /\ Len(c) >= Period + 1 =>
              /\ A!RecentTotal(c)
                   = Cardinality({t \in arr : A!Second(t) \in (A!Second(A!Max(arr)) - Period)
                                                                ..(A!Second(A!Max(arr)) - 1)})
              /\ A!RecentTotal(c) \in Nat
<1>1. arr \subseteq Nat /\ IsFiniteSet(arr)
  <2>1. IsFiniteSet(0..time) /\ arr \in SUBSET (0..time) /\ 0..time \subseteq Nat
    BY FS_Interval
  <2> QED
    BY <2>1, FS_Subset
<1>2. PICK a : IsFirst(a, arr) /\ init = A!Second(a)
  BY DEF CountsAre
<1>3. PICK b : IsLast(b, arr) /\ last = A!Second(b)
  BY DEF CountsAre
<1>4. A!Max(arr) = b /\ A!Min(arr) = a /\ a \in arr /\ b \in arr
  BY <1>1, <1>2, <1>3, LastIs, FirstIs DEF IsFirst, IsLast
<1>5. /\ init \in Nat /\ last \in Nat /\ Period \in Nat /\ Period > 0
      /\ \A t \in arr : A!Second(t) \in Nat
  BY <1>1, <1>2, <1>3, <1>4, ActiveConstants
<1> DEFINE g == [t \in arr |-> A!Second(t) - init + 1]
           len == Len(c)
<1>6. /\ c \in Seq(Nat) /\ len = last - init + 1 /\ len \in Nat
      /\ \A k \in 1..len : c[k] = Cardinality(ArrivedIn(arr, init + k - 1)) /\ c[k] \in Nat
  BY DEF CountsAre
<1>7. A!Second(A!Max(arr)) >= A!Second(A!Min(arr)) + Period => len >= Period + 1
  BY <1>2, <1>3, <1>4, <1>5, <1>6
<1>8. CountsIndexed(c, arr, g, len)
  <2> SUFFICES ASSUME NEW k \in 1..len
               PROVE  c[k] \in Nat /\ c[k] = Cardinality(Indexed(arr, g, {k}))
    BY DEF CountsIndexed
  <2>1. ASSUME NEW t \in arr PROVE g[t] = k <=> A!Second(t) = init + k - 1
    <3>1. A!Second(t) \in Nat /\ g[t] = A!Second(t) - init + 1 /\ k \in Nat
      BY <1>5, <1>6
    <3> HIDE DEF g, len
    <3> QED
      BY <1>5, <3>1
  <2>2. Indexed(arr, g, {k}) = ArrivedIn(arr, init + k - 1)
    <3> HIDE DEF g, len
    <3> QED
      BY <2>1 DEF ArrivedIn, Indexed
  <2> HIDE DEF g
  <2> QED
    BY <1>6, <2>2
<1>9. Indexed(arr, g, (len - Period)..(len - 1))
        = {t \in arr : A!Second(t) \in (A!Second(b) - Period)..(A!Second(b) - 1)}
  <2>1. ASSUME NEW t \in arr
        PROVE  g[t] \in (len - Period)..(len - 1)
                 <=> A!Second(t) \in (A!Second(b) - Period)..(A!Second(b) - 1)
    <3> DEFINE s == A!Second(t) r == A!Second(b)
    <3>1. s \in Nat /\ g[t] = s - init + 1
      BY <1>5
    <3>2. len = r - init + 1 /\ init \in Nat /\ r \in Nat /\ Period \in Nat
      BY <1>3, <1>5, <1>6
    <3> HIDE DEF g, len, s, r
    <3>3. g[t] \in (len - Period)..(len - 1) <=> s \in (r - Period)..(r - 1)
      BY <3>1, <3>2
    <3> QED
      BY <3>3 DEF s, r
  <2> HIDE DEF g, len
  <2> QED
    BY <2>1 DEF Indexed
<1>10. len >= Period + 1 => A!RecentTotal(c) = Cardinality(Indexed(arr, g, (len - Period)..(len - 1)))
  <2> SUFFICES ASSUME len >= Period + 1
               PROVE  A!RecentTotal(c) = Cardinality(Indexed(arr, g, (len - Period)..(len - 1)))
    OBVIOUS
  <2>1. len \in Nat /\ Period < len /\ Len(c) = len
    BY <1>5, <1>6
  <2> HIDE DEF g, len
  <2> QED
    BY <1>1, <1>5, <1>8, <2>1, RecentAddUp
<1>11. Cardinality(Indexed(arr, g, (len - Period)..(len - 1))) \in Nat
  <2>1. Indexed(arr, g, (len - Period)..(len - 1)) \in SUBSET arr
    BY DEF Indexed
  <2> QED
    BY <1>1, <2>1, FS_Subset, FS_CardinalityType
<1> QED
  BY <1>4, <1>7, <1>9, <1>10, <1>11

\* A capsule is counted in its second.
LEMMA CountInv ==
  ASSUME A!ActiveCheckAssumption, CountsKept, A!DoActiveLinkConnectivityCheck
  PROVE  CountsKept' /\ IsLast(tick, arrivals') /\ CountsAre(arrivals, counts, init_secs, last_count_secs)'
<1>1. /\ tick \notin arrivals /\ arrivals' = arrivals \cup {tick} /\ tick' = tick
      /\ counts' = A!CountCapsule
      /\ init_secs' = IF last_count_secs = A!None THEN A!Second(tick) ELSE init_secs
      /\ last_count_secs' = A!Second(tick)
  BY DEF A!DoActiveLinkConnectivityCheck
<1>2. /\ tick \in Nat /\ arrivals \subseteq 0..tick /\ A!Second(tick) \in Nat
      /\ \A t \in 0..tick : t \in Nat /\ t <= tick /\ A!Second(t) \in Nat /\ A!Second(t) <= A!Second(tick)
  <2>1. tick \in Nat /\ arrivals \subseteq 0..tick
    BY DEF CountsKept
  <2>2. \A t \in 0..tick : t \in Nat /\ t <= tick
    BY <2>1
  <2> QED
    BY <2>1, <2>2, ActiveConstants
<1>3. /\ IsLast(tick, arrivals') /\ arrivals' \subseteq 0..tick /\ arrivals' # {}
      /\ last_count_secs' = A!Second(tick)
  BY <1>1, <1>2 DEF IsLast
<1>4. \A s : IsFiniteSet(ArrivedIn(arrivals, s)) /\ ArrivedIn(arrivals, s) \subseteq arrivals
  <2>1. IsFiniteSet(0..tick)
    BY <1>2, FS_Interval
  <2>2. \A s : ArrivedIn(arrivals, s) \in SUBSET (0..tick)
    BY <1>2 DEF ArrivedIn
  <2>3. \A s : IsFiniteSet(ArrivedIn(arrivals, s))
    BY <2>1, <2>2, FS_Subset
  <2> QED
    BY <2>3 DEF ArrivedIn
<1>5. \A s : Cardinality(ArrivedIn(arrivals, s)) \in Nat
  BY <1>4, FS_CardinalityType
<1>6. Cardinality(ArrivedIn(arrivals', A!Second(tick)))
        = Cardinality(ArrivedIn(arrivals, A!Second(tick))) + 1
  <2>1. ArrivedIn(arrivals', A!Second(tick)) = ArrivedIn(arrivals, A!Second(tick)) \cup {tick}
    BY <1>1 DEF ArrivedIn
  <2>2. tick \notin ArrivedIn(arrivals, A!Second(tick))
    BY <1>1 DEF ArrivedIn
  <2> QED
    BY <1>4, <2>1, <2>2, FS_AddElement
<1>7. CASE arrivals = {}
  <2>1. last_count_secs = A!None /\ counts = <<>>
    BY <1>7 DEF CountsKept
  <2>2. A!CountCapsule = [k \in 1..1 |-> 1]
    BY <2>1 DEF A!CountCapsule
  <2>3. counts' \in Seq(Nat) /\ Len(counts') = 1 /\ counts'[1] = 1
    BY <1>1, <2>2
  <2>4. init_secs' = A!Second(tick) /\ arrivals' = {tick}
    BY <1>1, <1>7, <2>1
  <2>5. Cardinality(ArrivedIn(arrivals', A!Second(tick))) = 1
    <3>1. ArrivedIn(arrivals, A!Second(tick)) = {}
      BY <1>7 DEF ArrivedIn
    <3> QED
      BY <1>6, <3>1, FS_EmptySet
  <2>6. \A k \in 1..Len(counts') : counts'[k] = Cardinality(ArrivedIn(arrivals', init_secs' + k - 1))
    <3> TAKE k \in 1..Len(counts')
    <3>1. k = 1 /\ init_secs' + k - 1 = A!Second(tick)
      BY <1>2, <2>3, <2>4
    <3> QED
      BY <2>3, <2>5, <3>1
  <2>8. IsFirst(tick, arrivals')
    BY <1>2, <2>4 DEF IsFirst
  <2>9. Len(counts') = last_count_secs' - init_secs' + 1
    BY <1>1, <1>2, <2>3, <2>4
  <2>10. CountsAre(arrivals, counts, init_secs, last_count_secs)'
    BY <1>3, <2>3, <2>4, <2>6, <2>8, <2>9 DEF CountsAre
  <2> QED
    BY <1>1, <1>2, <1>3, <2>10 DEF CountsKept
<1>8. CASE arrivals # {}
  <2>0. CountsAre(arrivals, counts, init_secs, last_count_secs)
    BY <1>8 DEF CountsKept
  <2>1. PICK a : IsFirst(a, arrivals) /\ init_secs = A!Second(a)
    BY <2>0 DEF CountsAre
  <2>2. PICK b : IsLast(b, arrivals) /\ last_count_secs = A!Second(b)
    BY <2>0 DEF CountsAre
  <2>3. /\ counts \in Seq(Nat) /\ Len(counts) = last_count_secs - init_secs + 1 /\ Len(counts) \in Nat
        /\ \A k \in 1..Len(counts) : counts[k] = Cardinality(ArrivedIn(arrivals, init_secs + k - 1))
        /\ DOMAIN counts = 1..Len(counts)
    BY <2>0 DEF CountsAre
  <2>4. /\ init_secs \in Nat /\ last_count_secs \in Nat /\ init_secs <= last_count_secs
        /\ last_count_secs <= A!Second(tick) /\ last_count_secs # A!None
    <3>1. a \in 0..tick /\ b \in 0..tick /\ a \in Nat /\ b \in Nat /\ a <= b
      BY <1>2, <2>1, <2>2 DEF IsFirst, IsLast
    <3> QED
      BY <1>2, <2>1, <2>2, <3>1, ActiveConstants DEF A!None
  <2> DEFINE z == A!Second(tick) - init_secs + 1
             count(k) == IF k \in DOMAIN counts THEN counts[k] ELSE 0
  <2>5. counts' = [k \in 1..z |-> IF k = z THEN count(k) + 1 ELSE count(k)] /\ z \in Nat
    BY <1>1, <1>2, <2>4 DEF A!CountCapsule
  <2>6. init_secs' = init_secs /\ last_count_secs' = A!Second(tick)
    BY <1>1, <2>4
  <2>7. \A k \in 1..z : count(k) \in Nat /\ count(k) = Cardinality(ArrivedIn(arrivals, init_secs + k - 1))
    <3> TAKE k \in 1..z
    <3>1. CASE k \in 1..Len(counts)
      BY <1>5, <2>3, <3>1
    <3>2. CASE k \notin 1..Len(counts)
      <4>1. init_secs + k - 1 > last_count_secs
        BY <2>3, <2>4, <2>5, <3>2
      <4>2. \A t \in arrivals : A!Second(t) <= last_count_secs /\ A!Second(t) \in Nat
        <5>1. arrivals \subseteq Nat
          BY <1>2
        <5> QED
          BY <2>2, <5>1, ActiveConstants DEF IsLast
      <4>3. ArrivedIn(arrivals, init_secs + k - 1) = {}
        BY <2>4, <4>1, <4>2 DEF ArrivedIn
      <4> QED
        BY <2>3, <3>2, <4>3, FS_EmptySet
    <3> QED
      BY <3>1, <3>2
  <2> HIDE DEF z, count
  <2>8. Len(counts') = z /\ counts' \in Seq(Nat)
    BY <2>5, <2>7
  <2>9. \A k \in 1..Len(counts') : counts'[k] = Cardinality(ArrivedIn(arrivals', init_secs' + k - 1))
    <3> TAKE k \in 1..Len(counts')
    <3> DEFINE s == init_secs + k - 1
    <3>1. k \in 1..z /\ count(k) \in Nat /\ count(k) = Cardinality(ArrivedIn(arrivals, s))
      BY <2>7, <2>8
    <3>3. CASE k = z
      <4>1. s = A!Second(tick)
        BY <1>2, <2>4, <3>3 DEF z
      <4>2. counts'[k] = count(k) + 1
        BY <2>5, <3>1, <3>3
      <4> QED
        BY <1>6, <2>6, <3>1, <4>1, <4>2
    <3>4. CASE k # z
      <4>1. s # A!Second(tick)
        BY <1>2, <2>4, <2>5, <3>1, <3>4 DEF z
      <4>2. counts'[k] = count(k)
        BY <2>5, <3>1, <3>4
      <4>3. ArrivedIn(arrivals', s) = ArrivedIn(arrivals, s)
        BY <1>1, <4>1 DEF ArrivedIn
      <4> QED
        BY <2>6, <3>1, <4>2, <4>3
    <3> QED
      BY <3>3, <3>4
  <2>10. IsFirst(a, arrivals')
    BY <1>1, <1>2, <2>1 DEF IsFirst
  <2>11. Len(counts') = last_count_secs' - init_secs' + 1
    BY <2>6, <2>8 DEF z
  <2>12. CountsAre(arrivals, counts, init_secs, last_count_secs)'
    BY <1>3, <2>1, <2>6, <2>8, <2>9, <2>10, <2>11 DEF CountsAre
  <2> QED
    BY <1>1, <1>2, <1>3, <2>12 DEF CountsKept
<1> QED
  BY <1>7, <1>8

\* A test that is put off is put off to the time the counts make suspicious.
LEMMA CapsuleInv ==
  ASSUME A!ActiveCheckAssumption, ActiveInv, A!DoActiveLinkConnectivityCheck
  PROVE  ActiveInv'
<1>1. /\ CountsKept' /\ IsLast(tick, arrivals')
      /\ CountsAre(arrivals', counts', init_secs', last_count_secs')
  BY CountInv DEF ActiveInv
<1>2. /\ tick \in Nat /\ arrivals' \subseteq 0..tick /\ arrivals' \subseteq Nat
      /\ tick' = tick /\ checks' = checks
  BY <1>1 DEF ActiveInv, CountsKept, A!DoActiveLinkConnectivityCheck
<1> DEFINE total == A!RecentTotal(counts')
           due == tick + A!Timeout(total)
           recent == Cardinality({t \in arrivals' : A!Second(t) \in (A!Second(tick) - Period)
                                                                     ..(A!Second(tick) - 1)})
<1>0. Len(counts') \in Nat /\ Period \in Nat /\ Factor \in Nat
  BY <1>1, ActiveConstants DEF CountsAre
<1>3. \/ Len(counts') < Period + 1 /\ UNCHANGED <<waitCap, events>>
      \/ Len(counts') >= Period + 1 /\ total > 0 /\ A!Reschedule(due)
      \/ ~ (total > 0) /\ (A!Reschedule(tick) \/ (waitCap' = A!None /\ events' = events \ {waitCap}))
  BY <1>0 DEF A!DoActiveLinkConnectivityCheck
<1>4. A!Max(arrivals') = tick
  BY <1>1, <1>2, LastIs
<1>5. /\ A!LastCapsule' = tick /\ A!RecentArrivals' = recent
      /\ A!Watching' => recent > 0 /\ A!Second(A!Max(arrivals')) >= A!Second(A!Min(arrivals')) + Period
  <2>1. A!LastCapsule' = A!Max(arrivals')
    BY DEF A!LastCapsule
  <2>2. A!RecentArrivals' = recent
    BY <1>4, <2>1 DEF A!RecentArrivals, A!Cardinality, Cardinality
  <2> QED
    BY <1>4, <2>1, <2>2 DEF A!Watching
<1>6. /\ A!Watching' => Len(counts') >= Period + 1
      /\ Len(counts') >= Period + 1 => total = recent /\ total \in Nat
  BY <1>1, <1>2, <1>4, <1>5, WatchedIs
<1>7. Len(counts') \in Nat /\ Period \in Nat /\ Factor \in Nat
  BY <1>0
<1>8. EventsKept /\ A!SilenceSuspected
  BY DEF ActiveInv
<1> HIDE DEF total, recent
<1>9. EventsKept'
  <2>1. CASE Len(counts') < Period + 1 /\ UNCHANGED <<waitCap, events>>
    BY <1>2, <1>8, <2>1 DEF EventsKept
  <2>2. CASE Len(counts') >= Period + 1 /\ total > 0 /\ A!Reschedule(due)
    <3>2. A!Timeout(total) \in Nat
      BY <1>6, <1>7, <2>2 DEF A!Timeout
    <3>3. due \in Nat
      BY <1>2, <3>2
    <3> HIDE DEF due
    <3> QED
      BY <1>2, <1>8, <2>2, <3>3 DEF EventsKept, A!Reschedule
  <2>3. CASE ~ (total > 0) /\ (A!Reschedule(tick) \/ (waitCap' = A!None /\ events' = events \ {waitCap}))
    BY <1>2, <1>8, <2>3 DEF EventsKept, A!Reschedule
  <2> QED
    BY <1>3, <2>1, <2>2, <2>3
<1>10. A!SilenceSuspected'
  <2> SUFFICES ASSUME A!Watching' PROVE
        /\ events' \subseteq {tick + Factor \div recent}
        /\ events' # {}
    BY <1>5 DEF A!SilenceSuspected
  <2>1. total > 0 /\ A!Reschedule(due)
    BY <1>3, <1>5, <1>6, <1>7
  <2>2. due = tick + Factor \div recent
    BY <1>6 DEF A!Timeout
  <2> QED
    BY <1>8, <2>1, <2>2 DEF A!Reschedule, EventsKept
<1> QED
  BY <1>1, <1>9, <1>10 DEF ActiveInv

\* The simulator starts a test that is due.
LEMMA CheckInv ==
  ASSUME A!ActiveCheckAssumption, ActiveInv, A!CheckLinkConnectivityInActiveManner
  PROVE  ActiveInv'
<1>1. /\ tick \in events /\ events' = events \ {tick} /\ checks' = checks \cup {tick}
      /\ UNCHANGED <<tick, init_secs, last_count_secs, counts, waitCap, arrivals>>
  BY DEF A!CheckLinkConnectivityInActiveManner
<1>2. CountsKept /\ EventsKept /\ A!SilenceSuspected
  BY DEF ActiveInv
<1>3. CountsKept'
  BY <1>1, <1>2 DEF CountsKept
<1>4. EventsKept'
  BY <1>1, <1>2 DEF EventsKept, CountsKept
<1>5. A!Watching => tick >= A!LastCapsule
  <2> SUFFICES ASSUME arrivals # {} PROVE tick >= A!LastCapsule
    BY DEF A!Watching
  <2>1. PICK t : IsLast(t, arrivals)
    BY <1>2 DEF CountsKept, CountsAre
  <2>2. A!LastCapsule = t /\ t \in 0..tick /\ tick \in Nat
    <3>1. arrivals \subseteq Nat /\ arrivals \subseteq 0..tick /\ tick \in Nat
      BY <1>2 DEF CountsKept
    <3> QED
      BY <2>1, <3>1, LastIs DEF A!LastCapsule, IsLast
  <2> QED
    BY <2>2
<1>6. /\ A!Watching' = A!Watching /\ A!LastCapsule' = A!LastCapsule
      /\ A!RecentArrivals' = A!RecentArrivals
  BY <1>1 DEF A!Watching, A!LastCapsule, A!RecentArrivals
<1>7. A!SilenceSuspected'
  BY <1>1, <1>2, <1>5, <1>6 DEF A!SilenceSuspected
<1> QED
  BY <1>3, <1>4, <1>7 DEF ActiveInv

LEMMA SilenceInv ==
  ASSUME A!ActiveCheckAssumption, ActiveInv, [A!Next]_A!vars
  PROVE  ActiveInv'
<1>1. CASE A!DoActiveLinkConnectivityCheck
  BY <1>1, CapsuleInv
<1>2. CASE A!CheckLinkConnectivityInActiveManner
  BY <1>2, CheckInv
<1>3. CASE A!Tick \/ UNCHANGED A!vars
  <2>1. /\ tick' \in {tick, tick + 1}
        /\ UNCHANGED <<init_secs, last_count_secs, counts, waitCap, events, arrivals, checks>>
    BY <1>3 DEF A!Tick, A!vars
  <2>2. CountsKept /\ EventsKept /\ A!SilenceSuspected
    BY DEF ActiveInv
  <2>3. tick \in Nat /\ tick' \in Nat /\ 0..tick \subseteq 0..tick'
    <3>1. tick \in Nat
      BY <2>2 DEF CountsKept
    <3> QED
      BY <2>1, <3>1
  <2>4. CountsKept' /\ EventsKept'
    BY <2>1, <2>2, <2>3 DEF CountsKept, EventsKept
  <2>5. A!SilenceSuspected'
    BY <2>1, <2>2 DEF A!SilenceSuspected, A!Watching, A!LastCapsule, A!RecentArrivals
  <2> QED
    BY <2>4, <2>5 DEF ActiveInv
<1> QED
  BY <1>1, <1>2, <1>3 DEF A!Next

LEMMA ActiveTypes ==
  ASSUME A!ActiveCheckAssumption, ActiveInv
  PROVE  A!TypeOK
<1>1. CountsKept /\ EventsKept
  BY DEF ActiveInv
<1>2. CASE arrivals = {}
  BY <1>1, <1>2 DEF A!TypeOK, CountsKept, EventsKept
<1>3. CASE arrivals # {}
  <2>1. CountsAre(arrivals, counts, init_secs, last_count_secs) /\ arrivals \subseteq Nat
    BY <1>1, <1>3 DEF CountsKept
  <2>2. PICK a : IsFirst(a, arrivals) /\ init_secs = A!Second(a)
    BY <2>1 DEF CountsAre
  <2>3. PICK b : IsLast(b, arrivals) /\ last_count_secs = A!Second(b)
    BY <2>1 DEF CountsAre
  <2>4. init_secs \in Nat /\ last_count_secs \in Nat /\ init_secs <= last_count_secs
    BY <2>1, <2>2, <2>3, ActiveConstants DEF IsFirst, IsLast
  <2>5. counts \in Seq(Nat) /\ counts # <<>> /\ last_count_secs # A!None
    BY <2>1, <2>4 DEF CountsAre, A!None
  <2> QED
    BY <1>1, <2>4, <2>5 DEF A!TypeOK, CountsKept, EventsKept
<1> QED
  BY <1>2, <1>3

\* For any clock, period and confidence, a face that falls silent while it is watched is
\* tested, and only after the silence the counts make suspicious.
THEOREM SilenceIsSuspected ==
  ASSUME A!ActiveCheckAssumption
  PROVE  A!Spec => [](A!TypeOK /\ A!SilenceSuspected)
<1>1. A!Init => ActiveInv
  <2> SUFFICES ASSUME A!Init PROVE ActiveInv
    OBVIOUS
  <2>1. CountsKept /\ EventsKept
    BY DEF A!Init, CountsKept, EventsKept
  <2>2. A!SilenceSuspected
    BY DEF A!Init, A!SilenceSuspected, A!Watching
  <2> QED
    BY <2>1, <2>2 DEF ActiveInv
<1>2. ActiveInv /\ [A!Next]_A!vars => ActiveInv'
  BY SilenceInv
<1>3. ActiveInv => A!TypeOK /\ A!SilenceSuspected
  BY ActiveTypes DEF ActiveInv
<1> QED
  BY <1>1, <1>2, <1>3, PTL DEF A!Spec
-------------------------------------------------------------------------------
(* PitForwarder, for any faces, names, Data, set-ups and times.                *)

\* The fields of an entry of the table.
EntryFields(i, o, s, r, t) == [in |-> i, out |-> o, satisfied |-> s, freshness |-> r, timer |-> t]

OutRecord(k, expiry, nacked) == [nonce |-> k, expiry |-> expiry, nacked |-> nacked]
IsOutRecord(r) == r = OutRecord(r.nonce, r.expiry, r.nacked) /\ r.nonce \in Nonces

\* An entry: from whom the name is asked, whom it was sent to, and when it ends.  No two
\* neighbours asked with the same nonce; an Interest asked for is valid for a Lifetime.
IsEntry(e, time) ==
  /\ e = EntryFields(e.in, e.out, e.satisfied, e.freshness, e.timer)
  /\ DOMAIN e.in \subseteq Faces /\ DOMAIN e.out \subseteq Faces
  /\ \A f \in DOMAIN e.in : e.in[f] \in [nonce : Nonces, expiry : Nat]
  /\ \A f \in DOMAIN e.in : e.in[f].expiry <= time + Lifetime
  /\ \A u \in DOMAIN e.out : IsOutRecord(e.out[u])
  /\ \A f, g \in DOMAIN e.in : e.in[f].nonce = e.in[g].nonce => f = g

\* The types of the variables, but for the content store.
ForwarderTypes ==
  /\ config \in Configs
  /\ fnow \in Nat
  /\ DOMAIN pit \subseteq Names
  /\ \A x \in DOMAIN pit : IsEntry(pit[x], fnow)
  /\ \A x \in DOMAIN pit : pit[x].timer \in Nat /\ pit[x].timer >= fnow
  /\ deadNonces \subseteq Names \X Nonces
  /\ asked \in [Faces -> Nat] /\ answers \in [Faces -> Nat]
  /\ lastSent \in [Names -> [Faces -> [nonce : Nonces \cup {F!Never}, from : Faces]]]
  /\ streamed \in [Names -> Nat \cup {F!Never}]

\* The content store has one entry of a Data, and room.
StoreEntry == [data : Datas, freshUntil : Nat]
OneEach(table) == \A i, j \in 1..Len(table) : table[i].data = table[j].data => i = j
StoreSound == cs \in Seq(StoreEntry) /\ Len(cs) <= CsLimit /\ OneEach(cs)

\* The entry that stream Data kept is there until the time it was kept for is over.
StreamsKept ==
  \A x \in Names :
    streamed[x] # F!Never =>
      /\ config.mode # "plain"
      /\ \E d \in Datas \cap StreamDatas : x \in Matches[d]
      /\ fnow < streamed[x] + PitDuration =>
           x \in DOMAIN pit /\ pit[x].timer = streamed[x] + PitDuration

\* The names a neighbour waits for Data of.
WaitingFor(f) == {x \in DOMAIN pit : f \in DOMAIN pit[x].in}

\* Each Interest of a neighbour is answered or waits, but for those that were repeated.
AnswersOwed ==
  \A f \in Faces :
    IF config.mode = "plain" THEN answers[f] + Cardinality(WaitingFor(f)) <= asked[f]
    ELSE answers[f] = 0

\* The last Interest sent to a next hop is known as long as it is not answered: its nonce is
\* dead, or an out-record has it and no in-record but that of its sender.
SentKnown ==
  \A x \in Names, u \in Faces :
    lastSent[x][u].nonce # F!Never =>
      \/ <<x, lastSent[x][u].nonce>> \in deadNonces
      \/ /\ x \in DOMAIN pit /\ u \in DOMAIN pit[x].out
         /\ pit[x].out[u].nonce = lastSent[x][u].nonce
         /\ \A f \in DOMAIN pit[x].in :
              pit[x].in[f].nonce = lastSent[x][u].nonce => f = lastSent[x][u].from

ForwarderInv == ForwarderTypes /\ StoreSound /\ StreamsKept /\ AnswersOwed /\ SentKnown

\* The sizes of sets are those of the standard module.
LEMMA ForwarderSizes ==
  ASSUME NEW S
  PROVE  F!IsFiniteSet(S) <=> IsFiniteSet(S)
BY DEF F!IsFiniteSet, IsFiniteSet

\* What is assumed of the constants, as far as the proof needs it.
LEMMA ForwarderConstants ==
  ASSUME F!PitForwarderAssumption
  PROVE  /\ Up \in Faces /\ Down \in Faces
         /\ IsFiniteSet(Names) /\ Nonces \subseteq Nat /\ Datas \subseteq Nat
         /\ Callers \subseteq Faces
         /\ Matches \in [Datas -> SUBSET Names] /\ FreshnessPeriod \in [Datas -> Nat]
         /\ Lifetime \in Nat /\ PitDuration \in Nat /\ CsLimit \in Nat /\ ForwardTime \in Nat
         /\ \A c \in Configs : c.fib \in Seq(Faces) /\ c.names \subseteq Names
         /\ \A d \in StreamDatas, e \in Datas \ StreamDatas : Matches[d] \cap Matches[e] = {}
BY ForwarderSizes DEF F!PitForwarderAssumption

\* An entry as it is made.
LEMMA NewEntrySound ==
  ASSUME F!PitForwarderAssumption, NEW time \in Nat
  PROVE  IsEntry(F!NewEntry, time) /\ DOMAIN F!NewEntry.in = {} /\ DOMAIN F!NewEntry.out = {}
BY DEF F!NewEntry, IsEntry, EntryFields

\* Setting the timer.
LEMMA TimerSet ==
  ASSUME NEW e, NEW time, IsEntry(e, time), NEW dur, NEW t, t = F!SetExpiryTimer(e, dur)
  PROVE  /\ IsEntry(t, time) /\ t.in = e.in /\ t.out = e.out /\ t.satisfied = e.satisfied
         /\ t.timer = fnow + dur
<1>1. t = EntryFields(e.in, e.out, e.satisfied, e.freshness, fnow + dur)
  BY DEF F!SetExpiryTimer, IsEntry, EntryFields
<1> QED
  BY <1>1 DEF IsEntry, EntryFields

\* Satisfying an entry.
LEMMA SatisfiedSet ==
  ASSUME NEW e, NEW time, IsEntry(e, time), NEW d, NEW t, t = F!Satisfied(e, d)
  PROVE  /\ IsEntry(t, time) /\ t.in = e.in /\ t.out = e.out /\ t.satisfied
         /\ t.timer = e.timer
<1>1. t = EntryFields(e.in, e.out, TRUE, FreshnessPeriod[d], e.timer)
  BY DEF F!Satisfied, IsEntry, EntryFields
<1>2. t = EntryFields(t.in, t.out, t.satisfied, t.freshness, t.timer)
  BY <1>1 DEF EntryFields
<1> QED
  BY <1>1, <1>2 DEF IsEntry, EntryFields

\* An entry that keeps some of its in-records.
LEMMA InRecordsKept ==
  ASSUME NEW e, NEW time, IsEntry(e, time), NEW i, DOMAIN i \subseteq DOMAIN e.in,
         \A f \in DOMAIN i : i[f] = e.in[f]
  PROVE  IsEntry(EntryFields(i, e.out, e.satisfied, e.freshness, e.timer), time)
<1> DEFINE t == EntryFields(i, e.out, e.satisfied, e.freshness, e.timer)
<1>1. /\ t.in = i /\ t.out = e.out /\ t.satisfied = e.satisfied
      /\ t.timer = e.timer /\ t.freshness = e.freshness
  BY DEF EntryFields
<1>2. t = EntryFields(t.in, t.out, t.satisfied, t.freshness, t.timer)
  BY DEF EntryFields
<1> HIDE DEF t
<1>3. IsEntry(t, time)
  BY <1>1, <1>2 DEF IsEntry
<1> QED
  BY <1>3 DEF t

\* The in-records that sendData removes.
Removed(d, faces) == IF config.mode = "lltc" /\ d \in StreamDatas THEN {} ELSE faces

LEMMA SentData ==
  ASSUME NEW e, NEW time, IsEntry(e, time), NEW d, NEW faces, NEW t, t = F!SendData(e, d, faces)
  PROVE  /\ IsEntry(t, time) /\ t.out = e.out /\ t.satisfied = e.satisfied /\ t.timer = e.timer
         /\ DOMAIN t.in = DOMAIN e.in \ Removed(d, faces)
         /\ \A f \in DOMAIN t.in : t.in[f] = e.in[f]
<1>1. CASE config.mode = "lltc" /\ d \in StreamDatas
  BY <1>1 DEF F!SendData, Removed
<1>2. CASE ~ (config.mode = "lltc" /\ d \in StreamDatas)
  <2> DEFINE i == F!Without(e.in, faces)
  <2>1. t = EntryFields(i, e.out, e.satisfied, e.freshness, e.timer)
    BY <1>2 DEF F!SendData, IsEntry, EntryFields
  <2>2. DOMAIN i = DOMAIN e.in \ faces /\ \A f \in DOMAIN i : i[f] = e.in[f]
    BY DEF F!Without, F!Restrict
  <2> HIDE DEF i
  <2>3. /\ t.in = i /\ t.out = e.out /\ t.satisfied = e.satisfied /\ t.timer = e.timer
    BY <2>1 DEF EntryFields
  <2>4. IsEntry(t, time)
    BY <2>1, <2>2, InRecordsKept
  <2> QED
    BY <1>2, <2>2, <2>3, <2>4 DEF Removed
<1> QED
  BY <1>1, <1>2

\* An entry that loses out-records.
LEMMA OutRecordsGone ==
  ASSUME NEW e, NEW time, IsEntry(e, time), NEW faces, NEW t,
         t = EntryFields(e.in, F!Without(e.out, faces), e.satisfied, e.freshness, e.timer)
  PROVE  /\ IsEntry(t, time) /\ t.in = e.in /\ t.satisfied = e.satisfied /\ t.timer = e.timer
         /\ DOMAIN t.out = DOMAIN e.out \ faces
         /\ \A u \in DOMAIN t.out : t.out[u] = e.out[u]
<1>2. /\ t.out = F!Without(e.out, faces) /\ t.in = e.in /\ t.satisfied = e.satisfied
      /\ t.timer = e.timer /\ t.freshness = e.freshness
  BY DEF EntryFields
<1>3. DOMAIN t.out = DOMAIN e.out \ faces /\ \A u \in DOMAIN t.out : t.out[u] = e.out[u]
  BY <1>2 DEF F!Without, F!Restrict
<1>4. IsEntry(t, time)
  BY <1>2, <1>3 DEF IsEntry
<1> QED
  BY <1>2, <1>3, <1>4

\* The Interests sent out are recorded.
IsSentTo(t, e, faces, k) ==
  /\ t.in = e.in /\ t.satisfied = e.satisfied /\ t.timer = e.timer
  /\ DOMAIN t.out = DOMAIN e.out \cup faces
  /\ \A u \in faces : t.out[u].nonce = k
  /\ \A u \in DOMAIN e.out : u \notin faces => t.out[u].nonce = e.out[u].nonce

LEMMA SentOut ==
  ASSUME NEW e, NEW time, IsEntry(e, time), NEW faces, faces \subseteq Faces, NEW k \in Nonces,
         NEW t, t = F!Outgoing(e, faces, k)
  PROVE  IsEntry(t, time) /\ IsSentTo(t, e, faces, k)
<1> DEFINE new == OutRecord(k, fnow + Lifetime, FALSE)
           out == [u \in DOMAIN e.out \cup faces |-> IF u \in faces THEN new ELSE e.out[u]]
<1>1. t = EntryFields(e.in, out, e.satisfied, e.freshness, e.timer)
  BY DEF F!Outgoing, IsEntry, EntryFields, OutRecord
<1>2. /\ t.out = out /\ t.in = e.in /\ t.satisfied = e.satisfied
      /\ t.timer = e.timer /\ t.freshness = e.freshness
  BY <1>1 DEF EntryFields
<1>3. IsOutRecord(new) /\ new.nonce = k
  BY DEF IsOutRecord, OutRecord
<1> HIDE DEF new
<1>4. /\ DOMAIN t.out = DOMAIN e.out \cup faces
      /\ \A u \in DOMAIN t.out : IsOutRecord(t.out[u])
  BY <1>2, <1>3 DEF IsEntry
<1>5. /\ \A u \in faces : t.out[u].nonce = k
      /\ \A u \in DOMAIN e.out : u \notin faces => t.out[u].nonce = e.out[u].nonce
  BY <1>2, <1>3
<1>6. IsEntry(t, time)
  <2> HIDE DEF out
  <2> QED
    BY <1>1, <1>2, <1>4 DEF IsEntry
<1> QED
  BY <1>2, <1>4, <1>5, <1>6 DEF IsSentTo

\* A Nack marks an out-record.
LEMMA OutRecordNacked ==
  ASSUME NEW e, NEW time, IsEntry(e, time), NEW f \in DOMAIN e.out,
         NEW t, t = [e EXCEPT !.out[f].nacked = TRUE]
  PROVE  /\ IsEntry(t, time) /\ t.in = e.in /\ t.satisfied = e.satisfied /\ t.timer = e.timer
         /\ DOMAIN t.out = DOMAIN e.out
         /\ \A u \in DOMAIN t.out : t.out[u].nonce = e.out[u].nonce
<1> DEFINE out == [e.out EXCEPT ![f].nacked = TRUE]
<1>1. t = EntryFields(e.in, out, e.satisfied, e.freshness, e.timer)
  BY DEF IsEntry, EntryFields
<1>2. /\ t.out = out /\ t.in = e.in /\ t.satisfied = e.satisfied
      /\ t.timer = e.timer /\ t.freshness = e.freshness
  BY <1>1 DEF EntryFields
<1>3. /\ DOMAIN out = DOMAIN e.out
      /\ \A u \in DOMAIN out : u # f => out[u] = e.out[u]
      /\ out[f] = [e.out[f] EXCEPT !.nacked = TRUE]
  OBVIOUS
<1> HIDE DEF out
<1>4. IsOutRecord(out[f]) /\ out[f].nonce = e.out[f].nonce
  <2>1. IsOutRecord(e.out[f])
    BY DEF IsEntry
  <2>2. out[f] = OutRecord(e.out[f].nonce, e.out[f].expiry, TRUE)
    BY <1>3, <2>1 DEF IsOutRecord, OutRecord
  <2> QED
    BY <2>1, <2>2 DEF IsOutRecord, OutRecord
<1>5. \A u \in DOMAIN out : IsOutRecord(out[u]) /\ out[u].nonce = e.out[u].nonce
  BY <1>3, <1>4 DEF IsEntry
<1>6. IsEntry(t, time)
  BY <1>1, <1>2, <1>3, <1>5 DEF IsEntry
<1> QED
  BY <1>2, <1>3, <1>5, <1>6

\* A sequence without its element at i.
LEMMA RemovedAt ==
  ASSUME NEW S, NEW s \in Seq(S), NEW i \in 1..Len(s), NEW r, r = F!RemoveAt(s, i)
  PROVE  /\ r \in Seq(S) /\ Len(r) = Len(s) - 1
         /\ \A j \in 1..Len(r) : r[j] = IF j < i THEN s[j] ELSE s[j + 1]
<1> DEFINE a == SubSeq(s, 1, i - 1) b == SubSeq(s, i + 1, Len(s))
<1>1. r = a \o b
  BY DEF F!RemoveAt
<1>2. /\ a \in Seq(S) /\ Len(a) = i - 1 /\ \A j \in 1..(i - 1) : a[j] = s[j]
      /\ b \in Seq(S) /\ Len(b) = Len(s) - i /\ \A j \in 1..(Len(s) - i) : b[j] = s[j + i]
  BY SubSeqProperties
<1> HIDE DEF a, b
<1>3. r \in Seq(S) /\ Len(r) = Len(s) - 1
  <2>1. r \in Seq(S) /\ Len(r) = Len(a) + Len(b)
    BY <1>1, <1>2, ConcatProperties
  <2> QED
    BY <1>2, <2>1
<1>4. ASSUME NEW j \in 1..Len(r) PROVE r[j] = IF j < i THEN s[j] ELSE s[j + 1]
  <2>1. CASE j < i
    BY <1>1, <1>2, <1>3, <2>1
  <2>2. CASE ~ (j < i)
    <3>1. r[j] = b[j - (i - 1)] /\ j - (i - 1) \in 1..(Len(s) - i)
      BY <1>1, <1>2, <1>3, <2>2
    <3>2. b[j - (i - 1)] = s[(j - (i - 1)) + i]
      BY <1>2, <3>1
    <3> QED
      BY <2>2, <3>1, <3>2
  <2> QED
    BY <2>1, <2>2
<1> QED
  BY <1>3, <1>4

\* What is left of a table of different Data are different Data.
LEMMA RemovedOneEach ==
  ASSUME NEW s \in Seq(StoreEntry), OneEach(s), NEW i \in 1..Len(s), NEW r, r = F!RemoveAt(s, i)
  PROVE  /\ r \in Seq(StoreEntry) /\ Len(r) = Len(s) - 1 /\ OneEach(r)
         /\ \A j \in 1..Len(r) : r[j].data # s[i].data
<1>1. /\ r \in Seq(StoreEntry) /\ Len(r) = Len(s) - 1
      /\ \A j \in 1..Len(r) : r[j] = IF j < i THEN s[j] ELSE s[j + 1]
  BY RemovedAt
<1> DEFINE was(j) == IF j < i THEN j ELSE j + 1
<1>2. \A j \in 1..Len(r) : r[j] = s[was(j)] /\ was(j) \in 1..Len(s) /\ was(j) # i
  BY <1>1
<1>3. \A j, k \in 1..Len(r) : was(j) = was(k) => j = k
  BY <1>1
<1> HIDE DEF was
<1>4. OneEach(r)
  BY <1>2, <1>3 DEF OneEach
<1>5. \A j \in 1..Len(r) : r[j].data # s[i].data
  BY <1>2 DEF OneEach
<1> QED
  BY <1>1, <1>4, <1>5

\* A table of different Data with one more.
LEMMA AppendedOneEach ==
  ASSUME NEW s \in Seq(StoreEntry), OneEach(s), NEW c \in StoreEntry,
         \A j \in 1..Len(s) : s[j].data # c.data
  PROVE  Append(s, c) \in Seq(StoreEntry) /\ Len(Append(s, c)) = Len(s) + 1 /\ OneEach(Append(s, c))
<1> DEFINE t == Append(s, c)
<1>1. /\ t \in Seq(StoreEntry) /\ Len(t) = Len(s) + 1 /\ t[Len(s) + 1] = c
      /\ \A j \in 1..Len(s) : t[j] = s[j]
  OBVIOUS
<1> HIDE DEF t
<1>2. \A j \in 1..Len(t) : j \in 1..Len(s) \/ j = Len(s) + 1
  BY <1>1
<1>3. OneEach(t)
  BY <1>1, <1>2 DEF OneEach
<1> QED
  BY <1>1, <1>3 DEF t

\* What the store has besides an entry.
LEMMA ErasedSound ==
  ASSUME StoreSound, NEW d, NEW r, r = F!Erased(d)
  PROVE  /\ r \in Seq(StoreEntry) /\ OneEach(r) /\ Len(r) <= Len(cs)
         /\ \A j \in 1..Len(r) : r[j].data # d
         /\ (\E i \in DOMAIN cs : cs[i].data = d) =>
              /\ Len(r) = Len(cs) - 1
              /\ F!EntryOf(d) \in DOMAIN cs /\ cs[F!EntryOf(d)].data = d
<1>1. cs \in Seq(StoreEntry) /\ OneEach(cs) /\ Len(cs) \in Nat /\ DOMAIN cs = 1..Len(cs)
  BY DEF StoreSound
<1>2. CASE \E i \in DOMAIN cs : cs[i].data = d
  <2>1. F!EntryOf(d) \in DOMAIN cs /\ cs[F!EntryOf(d)].data = d
    BY <1>2 DEF F!EntryOf
  <2>2. r = F!RemoveAt(cs, F!EntryOf(d))
    BY <1>2 DEF F!Erased
  <2>3. /\ r \in Seq(StoreEntry) /\ Len(r) = Len(cs) - 1 /\ OneEach(r)
        /\ \A j \in 1..Len(r) : r[j].data # cs[F!EntryOf(d)].data
    BY <1>1, <2>1, <2>2, RemovedOneEach
  <2> QED
    BY <1>1, <2>1, <2>3
<1>3. CASE ~ \E i \in DOMAIN cs : cs[i].data = d
  <2>1. r = cs
    BY <1>3 DEF F!Erased
  <2>2. \A j \in 1..Len(r) : r[j].data # d
    BY <1>1, <1>3, <2>1
  <2>3. r \in Seq(StoreEntry) /\ OneEach(r) /\ Len(r) <= Len(cs)
    BY <1>1, <2>1
  <2> QED
    BY <1>3, <2>2, <2>3
<1> QED
  BY <1>2, <1>3

\* Inserting Data leaves one entry of it, within the limit.
LEMMA InsertSound ==
  ASSUME F!PitForwarderAssumption, StoreSound, fnow \in Nat, NEW d \in Datas, cs' = F!Insert(d)
  PROVE  StoreSound'
<1> DEFINE c == [data |-> d, freshUntil |-> fnow + FreshnessPeriod[d]]
           table == Append(F!Erased(d), c)
           first == F!Evicted(table)
<1>1. c \in StoreEntry /\ c.data = d /\ CsLimit \in Nat
  BY ForwarderConstants DEF StoreEntry
<1> HIDE DEF c
<1>2. table \in Seq(StoreEntry) /\ OneEach(table) /\ Len(table) <= CsLimit + 1 /\ Len(table) >= 1
  <2> DEFINE r == F!Erased(d)
  <2>1. /\ r \in Seq(StoreEntry) /\ OneEach(r) /\ Len(r) <= Len(cs)
        /\ \A j \in 1..Len(r) : r[j].data # d
    BY ErasedSound
  <2> HIDE DEF r
  <2>2. Append(r, c) \in Seq(StoreEntry) /\ Len(Append(r, c)) = Len(r) + 1 /\ OneEach(Append(r, c))
    BY <1>1, <2>1, AppendedOneEach
  <2>3. Len(r) \in Nat /\ Len(cs) \in Nat /\ Len(cs) <= CsLimit
    BY <2>1 DEF StoreSound
  <2> QED
    BY <1>1, <2>1, <2>2, <2>3 DEF r
<1>3. cs' = IF CsLimit = 0 THEN cs
            ELSE IF Len(table) > CsLimit THEN F!RemoveAt(table, first) ELSE table
  BY DEF F!Insert, c
<1> HIDE DEF table
<1>4. first \in 1..Len(table)
  <2> DEFINE stale == {i \in DOMAIN table : ~ F!IsFresh(table[i])}
  <2>1. CASE config.mode = "lltc" /\ stale # {}
    <3>1. stale \in SUBSET Nat /\ stale \subseteq 1..Len(table)
      BY <1>2
    <3>2. \E i \in stale : \A j \in stale : i <= j
      BY <2>1, <3>1, LeastExists
    <3>3. F!Min(stale) \in stale
      BY <3>2 DEF F!Min
    <3> QED
      BY <2>1, <3>1, <3>3 DEF F!Evicted
  <2>2. CASE ~ (config.mode = "lltc" /\ stale # {})
    BY <1>2, <2>2 DEF F!Evicted
  <2> QED
    BY <2>1, <2>2
<1> HIDE DEF first
<1>5. cs' \in Seq(StoreEntry) /\ OneEach(cs') /\ Len(cs') <= CsLimit
  <2>1. CASE CsLimit = 0
    BY <1>3, <2>1 DEF StoreSound
  <2>2. CASE CsLimit # 0 /\ Len(table) > CsLimit
    <3>1. cs' = F!RemoveAt(table, first)
      BY <1>3, <2>2
    <3>2. cs' \in Seq(StoreEntry) /\ Len(cs') = Len(table) - 1 /\ OneEach(cs')
      BY <1>2, <1>4, <3>1, RemovedOneEach
    <3> QED
      BY <1>1, <1>2, <3>2
  <2>3. CASE CsLimit # 0 /\ ~ (Len(table) > CsLimit)
    BY <1>1, <1>2, <1>3, <2>3
  <2> QED
    BY <2>1, <2>2, <2>3
<1> QED
  BY <1>5 DEF StoreSound

\* A look-up changes the order only.
LEMMA UsedSound ==
  ASSUME F!PitForwarderAssumption, StoreSound, NEW d, \E i \in DOMAIN cs : cs[i].data = d,
         cs' = F!Used(d)
  PROVE  StoreSound'
<1>1. CASE config.mode = "lltc"
  BY <1>1 DEF F!Used, StoreSound
<1>2. CASE config.mode # "lltc"
  <2> DEFINE r == F!Erased(d) c == cs[F!EntryOf(d)]
  <2>1. /\ r \in Seq(StoreEntry) /\ OneEach(r) /\ Len(r) = Len(cs) - 1
        /\ \A j \in 1..Len(r) : r[j].data # d
        /\ F!EntryOf(d) \in DOMAIN cs /\ c.data = d
    BY ErasedSound
  <2>2. c \in StoreEntry /\ Len(cs) \in Nat
    BY <2>1 DEF StoreSound
  <2>3. cs' = Append(r, c)
    BY <1>2 DEF F!Used
  <2> HIDE DEF r, c
  <2>4. cs' \in Seq(StoreEntry) /\ Len(cs') = Len(r) + 1 /\ OneEach(cs')
    BY <2>1, <2>2, <2>3, AppendedOneEach
  <2> QED
    BY <2>1, <2>2, <2>4 DEF StoreSound
<1> QED
  BY <1>1, <1>2

\* One entry of the table is replaced or made.
LEMMA TablePut ==
  ASSUME NEW x, NEW t, pit' = F!Put(pit, x, t)
  PROVE  /\ DOMAIN pit' = DOMAIN pit \cup {x} /\ pit'[x] = t
         /\ \A y \in DOMAIN pit : y # x => pit'[y] = pit[y]
BY DEF F!Put

\* The table stays one of entries.
LEMMA PutTypes ==
  ASSUME ForwarderTypes, NEW x \in Names, NEW t, IsEntry(t, fnow), t.timer \in Nat, t.timer >= fnow,
         pit' = F!Put(pit, x, t), fnow' = fnow
  PROVE  /\ DOMAIN pit' \subseteq Names
         /\ \A y \in DOMAIN pit' : IsEntry(pit'[y], fnow')
         /\ \A y \in DOMAIN pit' : pit'[y].timer \in Nat /\ pit'[y].timer >= fnow'
<1>1. /\ DOMAIN pit' = DOMAIN pit \cup {x} /\ pit'[x] = t
      /\ \A y \in DOMAIN pit : y # x => pit'[y] = pit[y]
  BY TablePut
<1> QED
  BY <1>1 DEF ForwarderTypes

\* A stream that loses its entry's promise, while the others keep theirs.
LEMMA PutStreams ==
  ASSUME ForwarderTypes, StreamsKept, NEW x \in Names, NEW t, pit' = F!Put(pit, x, t),
         streamed' = [streamed EXCEPT ![x] = F!Never], UNCHANGED <<config, fnow>>
  PROVE  /\ StreamsKept'
         /\ streamed' \in [Names -> Nat \cup {F!Never}]
<1>1. /\ DOMAIN pit' = DOMAIN pit \cup {x} /\ pit'[x] = t
      /\ \A y \in DOMAIN pit : y # x => pit'[y] = pit[y]
  BY TablePut
<1>2. /\ streamed' \in [Names -> Nat \cup {F!Never}] /\ streamed'[x] = F!Never
      /\ \A y \in Names : y # x => streamed'[y] = streamed[y]
  BY DEF ForwarderTypes
<1>3. StreamsKept'
  <2> SUFFICES ASSUME NEW y \in Names, streamed'[y] # F!Never
               PROVE  /\ config'.mode # "plain"
                      /\ \E d \in Datas \cap StreamDatas : y \in Matches[d]
                      /\ fnow' < streamed'[y] + PitDuration =>
                           y \in DOMAIN pit' /\ pit'[y].timer = streamed'[y] + PitDuration
    BY DEF StreamsKept
  <2>1. y # x /\ streamed'[y] = streamed[y]
    BY <1>2
  <2>2. fnow' = fnow /\ config' = config
    OBVIOUS
  <2>3. /\ config.mode # "plain"
        /\ \E d \in Datas \cap StreamDatas : y \in Matches[d]
        /\ fnow < streamed[y] + PitDuration =>
             y \in DOMAIN pit /\ pit[y].timer = streamed[y] + PitDuration
    BY <2>1 DEF StreamsKept
  <2> QED
    BY <1>1, <2>1, <2>2, <2>3
<1> QED
  BY <1>2, <1>3

\* How many names a neighbour waits for.
LEMMA Sizes ==
  ASSUME IsFiniteSet(Names), NEW B \in SUBSET Names, NEW D
  PROVE  /\ Cardinality(B) \in Nat
         /\ D \subseteq B => Cardinality(D) \in Nat /\ Cardinality(D) <= Cardinality(B)
         /\ \A x \in Names : D \subseteq B \cup {x} =>
               Cardinality(D) \in Nat /\ Cardinality(D) <= Cardinality(B) + 1
         /\ \A x \in B : D \subseteq B \ {x} =>
               Cardinality(D) \in Nat /\ Cardinality(D) + 1 <= Cardinality(B)
<1>1. IsFiniteSet(B) /\ Cardinality(B) \in Nat
  BY FS_Subset, FS_CardinalityType
<1>2. \A C1, D1 : IsFiniteSet(D1) /\ C1 \subseteq D1 =>
        Cardinality(C1) \in Nat /\ Cardinality(C1) <= Cardinality(D1)
  BY FS_Subset, FS_CardinalityType
<1>3. \A x : IsFiniteSet(B \cup {x}) /\ Cardinality(B \cup {x}) <= Cardinality(B) + 1
             /\ Cardinality(B \cup {x}) \in Nat
  BY <1>1, FS_AddElement, FS_CardinalityType
<1>4. \A x \in B : IsFiniteSet(B \ {x}) /\ Cardinality(B \ {x}) = Cardinality(B) - 1
                  /\ Cardinality(B \ {x}) \in Nat
  BY <1>1, FS_RemoveElement, FS_CardinalityType
<1>5. ASSUME NEW x \in Names, D \subseteq B \cup {x}
      PROVE  Cardinality(D) \in Nat /\ Cardinality(D) <= Cardinality(B) + 1
  <2>1. Cardinality(D) \in Nat /\ Cardinality(D) <= Cardinality(B \cup {x})
    BY <1>2, <1>3, <1>5
  <2>2. Cardinality(B \cup {x}) \in Nat /\ Cardinality(B \cup {x}) <= Cardinality(B) + 1
    BY <1>3
  <2> QED
    BY <1>1, <2>1, <2>2
<1>6. ASSUME NEW x \in B, D \subseteq B \ {x}
      PROVE  Cardinality(D) \in Nat /\ Cardinality(D) + 1 <= Cardinality(B)
  <2>1. Cardinality(D) \in Nat /\ Cardinality(D) <= Cardinality(B \ {x})
    BY <1>2, <1>4, <1>6
  <2> QED
    BY <1>1, <1>4, <2>1
<1> QED
  BY <1>1, <1>2, <1>5, <1>6

\* The entry an Interest finds or makes.
EntryFor(x) == IF x \in DOMAIN pit THEN pit[x] ELSE F!NewEntry

LEMMA EntryFound ==
  ASSUME F!PitForwarderAssumption, ForwarderTypes, NEW x \in Names
  PROVE  /\ IsEntry(EntryFor(x), fnow)
         /\ \A f \in DOMAIN EntryFor(x).in : x \in WaitingFor(f)
         /\ \A f \in Faces : WaitingFor(f) \in SUBSET Names /\ Cardinality(WaitingFor(f)) \in Nat
<1>1. IsEntry(EntryFor(x), fnow)
  BY NewEntrySound DEF ForwarderTypes, EntryFor
<1>2. \A f \in DOMAIN EntryFor(x).in : x \in WaitingFor(f)
  BY NewEntrySound DEF ForwarderTypes, EntryFor, WaitingFor
<1>3. ASSUME NEW f \in Faces PROVE WaitingFor(f) \in SUBSET Names /\ Cardinality(WaitingFor(f)) \in Nat
  <2>1. WaitingFor(f) \in SUBSET Names
    BY DEF WaitingFor, ForwarderTypes
  <2> QED
    BY <2>1, Sizes, ForwarderConstants
<1> QED
  BY <1>1, <1>2, <1>3

\* An Interest that loops is answered by a Nack.
LEMMA LoopInv ==
  ASSUME F!PitForwarderAssumption, ForwarderInv, NEW f \in Faces, F!OnInterestLoop(f),
         asked' = [asked EXCEPT ![f] = @ + 1], UNCHANGED <<config, fnow>>
  PROVE  ForwarderInv'
<1>1. /\ answers' = [g \in Faces |-> answers[g] + IF g \in {f} /\ ~ F!IsStreaming THEN 1 ELSE 0]
      /\ UNCHANGED <<pit, deadNonces, cs, lastSent, streamed>>
  BY DEF F!OnInterestLoop, F!Answered
<1>2. asked \in [Faces -> Nat] /\ answers \in [Faces -> Nat]
  BY DEF ForwarderInv, ForwarderTypes
<1>3. /\ asked' \in [Faces -> Nat] /\ answers' \in [Faces -> Nat] /\ asked'[f] = asked[f] + 1
      /\ \A g \in Faces : g # f => asked'[g] = asked[g] /\ answers'[g] = answers[g]
      /\ answers'[f] = answers[f] + IF ~ F!IsStreaming THEN 1 ELSE 0
  BY <1>1, <1>2
<1>4. AnswersOwed'
  <2>1. \A g \in Faces : Cardinality(WaitingFor(g)) \in Nat /\ WaitingFor(g)' = WaitingFor(g)
    <3> TAKE g \in Faces
    <3>1. WaitingFor(g)' = WaitingFor(g)
      BY <1>1 DEF WaitingFor
    <3>2. WaitingFor(g) \in SUBSET Names
      BY DEF WaitingFor, ForwarderInv, ForwarderTypes
    <3> QED
      BY <3>1, <3>2, Sizes, ForwarderConstants
  <2> SUFFICES ASSUME NEW g \in Faces
               PROVE  IF config.mode = "plain"
                      THEN answers'[g] + Cardinality(WaitingFor(g)) <= asked'[g]
                      ELSE answers'[g] = 0
    BY <2>1 DEF AnswersOwed
  <2>2. IF config.mode = "plain" THEN answers[g] + Cardinality(WaitingFor(g)) <= asked[g]
        ELSE answers[g] = 0
    BY DEF ForwarderInv, AnswersOwed
  <2>3. CASE g = f
    BY <1>2, <1>3, <2>1, <2>2, <2>3 DEF F!IsStreaming
  <2>4. CASE g # f
    BY <1>3, <2>2, <2>4
  <2> QED
    BY <2>3, <2>4
<1>5. ForwarderTypes' /\ StoreSound' /\ StreamsKept' /\ SentKnown'
  BY <1>1, <1>3 DEF ForwarderInv, ForwarderTypes, StoreSound, StreamsKept, SentKnown
<1> QED
  BY <1>4, <1>5 DEF ForwarderInv

\* The Data chosen from the store is in it.
LEMMA CachedData ==
  ASSUME F!PitForwarderAssumption, StoreSound, NEW x, F!Cached(x) # {}
  PROVE  \E i \in DOMAIN cs : cs[i].data = F!FirstByName(F!Cached(x))
<1>1. F!Cached(x) \in SUBSET Nat
  <2>1. \A i \in DOMAIN cs : cs[i].data \in Nat
    <3>1. \A i \in DOMAIN cs : cs[i] \in StoreEntry
      BY DEF StoreSound
    <3> QED
      BY <3>1, ForwarderConstants DEF StoreEntry
  <2> QED
    BY <2>1 DEF F!Cached
<1>2. \E d \in F!Cached(x) : \A e \in F!Cached(x) : d <= e
  BY <1>1, LeastExists
<1>3. F!Min(F!Cached(x)) \in F!Cached(x)
  BY <1>2 DEF F!Min
<1> QED
  BY <1>3 DEF F!FirstByName, F!Cached

\* Counting an Interest asked.
LEMMA AskedMore ==
  ASSUME ForwarderTypes, NEW f \in Faces, asked' = [asked EXCEPT ![f] = @ + 1]
  PROVE  /\ asked' \in [Faces -> Nat] /\ asked'[f] = asked[f] + 1
         /\ \A g \in Faces : g # f => asked'[g] = asked[g]
BY DEF ForwarderTypes

\* An Interest the store answers leaves an entry that nobody waits for.
LEMMA HitInv ==
  ASSUME F!PitForwarderAssumption, ForwarderInv, NEW f \in Faces, NEW x \in Names,
         EntryFor(x).in = <<>>, F!Cached(x) # {},
         F!OnContentStoreHit(f, x, EntryFor(x), F!FirstByName(F!Cached(x))),
         asked' = [asked EXCEPT ![f] = @ + 1], UNCHANGED <<config, fnow>>
  PROVE  ForwarderInv'
<1> DEFINE d == F!FirstByName(F!Cached(x))
           e == EntryFor(x)
           a == F!Satisfied(e, d)
           b == F!SendData(a, d, {f})
           t == F!SetExpiryTimer(b, 0)
<1>1. /\ cs' = F!Used(d) /\ pit' = F!Put(pit, x, t)
      /\ answers' = [g \in Faces |-> answers[g] + IF g \in {f} /\ ~ F!IsStreaming THEN 1 ELSE 0]
      /\ streamed' = [streamed EXCEPT ![x] = F!Never]
      /\ UNCHANGED <<deadNonces, lastSent>>
  BY DEF F!OnContentStoreHit, F!Answered
<1>2. /\ ForwarderTypes /\ StoreSound /\ StreamsKept /\ AnswersOwed /\ SentKnown
      /\ fnow \in Nat /\ asked \in [Faces -> Nat] /\ answers \in [Faces -> Nat]
  BY DEF ForwarderInv, ForwarderTypes
<1>3. IsEntry(e, fnow)
  BY <1>2, EntryFound
<1>4. IsEntry(a, fnow) /\ a.in = e.in /\ a.out = e.out
  <2> HIDE DEF d, e
  <2> QED
    BY <1>3, SatisfiedSet
<1>5. /\ IsEntry(b, fnow) /\ b.out = a.out /\ DOMAIN b.in = DOMAIN a.in \ Removed(d, {f})
      /\ \A g \in DOMAIN b.in : b.in[g] = a.in[g]
  <2>1. b = F!SendData(a, d, {f})
    OBVIOUS
  <2> HIDE DEF a, b, d
  <2> QED
    BY <1>4, <2>1, SentData
<1>6. IsEntry(t, fnow) /\ t.in = b.in /\ t.out = b.out /\ t.timer = fnow + 0
  <2> HIDE DEF b
  <2> QED
    BY <1>5, TimerSet
<1>7. DOMAIN e.in = {}
  <2>1. e.in = <<>>
    OBVIOUS
  <2> HIDE DEF e
  <2> QED
    BY <2>1
<1> HIDE DEF t, b, a, d, e
<1>7a. DOMAIN t.in = {} /\ t.out = e.out
  BY <1>4, <1>5, <1>6, <1>7
<1>8. /\ DOMAIN pit' = DOMAIN pit \cup {x} /\ pit'[x] = t
      /\ \A y \in DOMAIN pit : y # x => pit'[y] = pit[y]
  BY <1>1, TablePut
<1>9. /\ asked' \in [Faces -> Nat] /\ asked'[f] = asked[f] + 1
      /\ \A g \in Faces : g # f => asked'[g] = asked[g]
      /\ answers' \in [Faces -> Nat] /\ \A g \in Faces : g # f => answers'[g] = answers[g]
      /\ answers'[f] = answers[f] + IF ~ F!IsStreaming THEN 1 ELSE 0
  BY <1>1, <1>2, AskedMore
<1>10. StoreSound'
  BY <1>1, <1>2, CachedData, UsedSound DEF d
<1>11. StreamsKept' /\ streamed' \in [Names -> Nat \cup {F!Never}]
  BY <1>1, <1>2, PutStreams
<1>12. ForwarderTypes'
  <2>1. t.timer \in Nat /\ t.timer >= fnow
    BY <1>2, <1>6
  <2>2. /\ DOMAIN pit' \subseteq Names
        /\ \A y \in DOMAIN pit' : IsEntry(pit'[y], fnow')
        /\ \A y \in DOMAIN pit' : pit'[y].timer \in Nat /\ pit'[y].timer >= fnow'
    BY <1>1, <1>2, <1>6, <2>1, PutTypes
  <2> QED
    BY <1>1, <1>2, <1>9, <1>11, <2>2 DEF ForwarderTypes
<1>13. AnswersOwed'
  <2> SUFFICES ASSUME NEW g \in Faces
               PROVE  IF config.mode = "plain"
                      THEN answers'[g] + Cardinality(WaitingFor(g)') <= asked'[g]
                      ELSE answers'[g] = 0
    BY DEF AnswersOwed
  <2>1. WaitingFor(g)' \subseteq WaitingFor(g) /\ WaitingFor(g) \in SUBSET Names
    BY <1>2, <1>7a, <1>8 DEF WaitingFor, ForwarderTypes
  <2>2. /\ Cardinality(WaitingFor(g)) \in Nat /\ Cardinality(WaitingFor(g)') \in Nat
        /\ Cardinality(WaitingFor(g)') <= Cardinality(WaitingFor(g))
    BY <2>1, Sizes, ForwarderConstants
  <2>3. IF config.mode = "plain" THEN answers[g] + Cardinality(WaitingFor(g)) <= asked[g]
        ELSE answers[g] = 0
    BY <1>2 DEF AnswersOwed
  <2>4. CASE g = f
    BY <1>2, <1>9, <2>2, <2>3, <2>4 DEF F!IsStreaming
  <2>5. CASE g # f
    BY <1>2, <1>9, <2>2, <2>3, <2>5
  <2> QED
    BY <2>4, <2>5
<1>14. SentKnown'
  <2>1. lastSent' = lastSent /\ deadNonces' = deadNonces
    BY <1>1
  <2>2. \A y \in DOMAIN pit : pit'[y].out = pit[y].out /\ DOMAIN pit'[y].in \subseteq DOMAIN pit[y].in
                           /\ \A g \in DOMAIN pit'[y].in : pit'[y].in[g] = pit[y].in[g]
    BY <1>7a, <1>8 DEF e, EntryFor
  <2>3. DOMAIN pit \subseteq DOMAIN pit'
    BY <1>8
  <2> SUFFICES ASSUME NEW y \in Names, NEW u \in Faces, lastSent[y][u].nonce # F!Never,
                      <<y, lastSent[y][u].nonce>> \notin deadNonces
               PROVE  /\ y \in DOMAIN pit' /\ u \in DOMAIN pit'[y].out
                      /\ pit'[y].out[u].nonce = lastSent[y][u].nonce
                      /\ \A g \in DOMAIN pit'[y].in :
                           pit'[y].in[g].nonce = lastSent[y][u].nonce => g = lastSent[y][u].from
    BY <2>1 DEF SentKnown
  <2>4. /\ y \in DOMAIN pit /\ u \in DOMAIN pit[y].out
        /\ pit[y].out[u].nonce = lastSent[y][u].nonce
        /\ \A g \in DOMAIN pit[y].in :
             pit[y].in[g].nonce = lastSent[y][u].nonce => g = lastSent[y][u].from
    BY <1>2 DEF SentKnown
  <2> QED
    BY <2>2, <2>3, <2>4
<1> QED
  BY <1>10, <1>11, <1>12, <1>13, <1>14 DEF ForwarderInv

\* An Interest recorded in its entry: the neighbour's in-record is the last to expire.
Recorded(e, f, k) == [e EXCEPT !.in = F!Put(@, f, [nonce |-> k, expiry |-> fnow + Lifetime])]
LastExpiry(e) == F!Max({e.in[f].expiry : f \in DOMAIN e.in})

LEMMA InRecorded ==
  ASSUME F!PitForwarderAssumption, NEW e, fnow \in Nat, IsEntry(e, fnow), NEW f \in Faces,
         NEW k \in Nonces, ~ F!HasDuplicateNonce(e, k, f),
         NEW r, r = Recorded(e, f, k)
  PROVE  /\ IsEntry(r, fnow) /\ r.out = e.out /\ DOMAIN r.in = DOMAIN e.in \cup {f}
         /\ r.in[f].nonce = k /\ \A g \in DOMAIN e.in : g # f => r.in[g] = e.in[g]
         /\ LastExpiry(r) = fnow + Lifetime
<1> DEFINE new == [nonce |-> k, expiry |-> fnow + Lifetime]
           i == F!Put(e.in, f, new)
<1>1. r = EntryFields(i, e.out, e.satisfied, e.freshness, e.timer)
  BY DEF IsEntry, EntryFields, Recorded
<1>2. Lifetime \in Nat
  BY ForwarderConstants
<1>3. /\ new \in [nonce : Nonces, expiry : Nat] /\ new.nonce = k
      /\ new.expiry = fnow + Lifetime
  BY <1>2
<1> HIDE DEF new
<1>4. /\ DOMAIN i = DOMAIN e.in \cup {f} /\ i[f] = new
      /\ \A g \in DOMAIN e.in : g # f => i[g] = e.in[g]
  BY DEF F!Put
<1> HIDE DEF i
<1>5. /\ r.in = i /\ r.out = e.out /\ r.satisfied = e.satisfied
      /\ r.timer = e.timer /\ r.freshness = e.freshness
  BY <1>1 DEF EntryFields
<1>6. ASSUME NEW g \in DOMAIN i
      PROVE  /\ i[g] \in [nonce : Nonces, expiry : Nat] /\ i[g].expiry <= fnow + Lifetime
             /\ i[g].nonce = k => g = f
  <2>1. CASE g = f
    <3>1. i[g] = new
      BY <1>4, <2>1
    <3> QED
      BY <1>2, <1>3, <2>1, <3>1
  <2>2. CASE g # f
    <3>1. g \in DOMAIN e.in /\ i[g] = e.in[g]
      BY <1>4, <2>2
    <3>2. e.in[g] \in [nonce : Nonces, expiry : Nat] /\ e.in[g].expiry <= fnow + Lifetime
      BY <3>1 DEF IsEntry
    <3>3. e.in[g].nonce # k
      BY <2>2, <3>1 DEF F!HasDuplicateNonce, IsEntry
    <3> QED
      BY <3>1, <3>2, <3>3
  <2> QED
    BY <2>1, <2>2
<1>7. \A g, h \in DOMAIN i : i[g].nonce = i[h].nonce => g = h
  <2> SUFFICES ASSUME NEW g \in DOMAIN i, NEW h \in DOMAIN i, i[g].nonce = i[h].nonce
               PROVE  g = h
    OBVIOUS
  <2>1. CASE g = f \/ h = f
    BY <1>3, <1>4, <1>6, <2>1
  <2>2. CASE g # f /\ h # f
    <3>1. g \in DOMAIN e.in /\ i[g] = e.in[g] /\ h \in DOMAIN e.in /\ i[h] = e.in[h]
      BY <1>4, <2>2
    <3> QED
      BY <3>1 DEF IsEntry
  <2> QED
    BY <2>1, <2>2
<1>8. IsEntry(r, fnow)
  <2>1. DOMAIN r.in \subseteq Faces
    BY <1>4, <1>5 DEF IsEntry
  <2>2. r = EntryFields(r.in, r.out, r.satisfied, r.freshness, r.timer)
    BY <1>1, <1>5
  <2> QED
    BY <1>5, <1>6, <1>7, <2>1, <2>2 DEF IsEntry
<1>9. LastExpiry(r) = fnow + Lifetime
  <2> DEFINE D == {i[g].expiry : g \in DOMAIN i}
  <2>1. fnow + Lifetime \in D
    BY <1>3, <1>4
  <2>2. \A v \in D : v \in Nat /\ v <= fnow + Lifetime
    BY <1>6
  <2> HIDE DEF D
  <2>3. F!Max(D) \in D /\ \A v \in D : v <= F!Max(D)
    BY <2>1, <2>2 DEF F!Max
  <2>4. F!Max(D) = fnow + Lifetime
    BY <1>2, <2>1, <2>2, <2>3
  <2> QED
    BY <1>5, <2>4 DEF D, LastExpiry
<1> QED
  BY <1>3, <1>4, <1>5, <1>8, <1>9

\* Next hops are faces.
LEMMA NextHopsAreFaces ==
  ASSUME F!PitForwarderAssumption, config \in Configs, NEW x, NEW e
  PROVE  F!NextHops(x, e) \subseteq Faces
<1>1. config.fib \in Seq(Faces) /\ Up \in Faces
  BY ForwarderConstants
<1>2. F!StreamRoute \subseteq Faces
  BY <1>1 DEF F!StreamRoute, F!ToSet, F!Fib
<1>3. F!BestRoute(e) \subseteq Faces
  <2> DEFINE usable == {i \in DOMAIN F!Fib : F!CanForwardToLegacy(e, F!Fib[i])}
  <2>1. CASE usable = {}
    BY <2>1 DEF F!BestRoute
  <2>2. CASE usable # {}
    <3>1. usable \in SUBSET Nat /\ usable \subseteq DOMAIN config.fib
      BY <1>1 DEF F!Fib
    <3>2. \E i \in usable : \A j \in usable : i <= j
      BY <2>2, <3>1, LeastExists
    <3>3. F!Min(usable) \in usable
      BY <3>2 DEF F!Min
    <3>4. F!BestRoute(e) = {F!Fib[F!Min(usable)]}
      BY <2>2 DEF F!BestRoute
    <3>5. \A i \in DOMAIN config.fib : config.fib[i] \in Faces
      BY <1>1
    <3> HIDE DEF usable
    <3>6. F!Fib[F!Min(usable)] \in Faces
      BY <3>1, <3>3, <3>5 DEF F!Fib
    <3> QED
      BY <3>4, <3>6
  <2> QED
    BY <2>1, <2>2
<1> QED
  BY <1>2, <1>3 DEF F!NextHops

\* An Interest the store does not answer waits in its entry.
LEMMA MissInv ==
  ASSUME F!PitForwarderAssumption, ForwarderInv, NEW f \in Faces, NEW x \in Names, NEW k \in Nonces,
         ~ F!HasDuplicateNonce(EntryFor(x), k, f), F!OnContentStoreMiss(f, x, EntryFor(x), k),
         asked' = [asked EXCEPT ![f] = @ + 1], UNCHANGED <<config, fnow>>
  PROVE  ForwarderInv'
<1> DEFINE e == EntryFor(x)
           r == Recorded(e, f, k)
           t == F!SetExpiryTimer(r, LastExpiry(r) - fnow)
           faces == F!NextHops(x, t)
           sends == ~ F!HasPendingOutRecords(t)
           z == F!SetExpiryTimer(t, 0)
           o == F!Outgoing(t, faces, k)
           p == IF ~ sends THEN t ELSE IF faces = {} THEN z ELSE o
<1>1. /\ pit' = F!Put(pit, x, p)
      /\ lastSent' = IF sends
                     THEN [lastSent EXCEPT ![x] = [u \in Faces |->
                             IF u \in faces THEN [nonce |-> k, from |-> f] ELSE @[u]]]
                     ELSE lastSent
      /\ streamed' = [streamed EXCEPT ![x] = F!Never]
      /\ UNCHANGED <<deadNonces, cs, answers>>
  BY DEF F!OnContentStoreMiss, Recorded, LastExpiry
<1>2. /\ ForwarderTypes /\ StoreSound /\ StreamsKept /\ AnswersOwed /\ SentKnown
      /\ fnow \in Nat /\ asked \in [Faces -> Nat] /\ answers \in [Faces -> Nat]
      /\ config \in Configs /\ Lifetime \in Nat
      /\ lastSent \in [Names -> [Faces -> [nonce : Nonces \cup {F!Never}, from : Faces]]]
  BY ForwarderConstants DEF ForwarderInv, ForwarderTypes
<1>3. IsEntry(e, fnow) /\ ~ F!HasDuplicateNonce(e, k, f)
  BY <1>2, EntryFound
<1>4. /\ IsEntry(r, fnow) /\ r.out = e.out /\ DOMAIN r.in = DOMAIN e.in \cup {f}
      /\ r.in[f].nonce = k /\ \A g \in DOMAIN e.in : g # f => r.in[g] = e.in[g]
      /\ LastExpiry(r) = fnow + Lifetime
  <2>1. r = Recorded(e, f, k)
    OBVIOUS
  <2> HIDE DEF e, r
  <2> QED
    BY <1>2, <1>3, <2>1, InRecorded
<1>5. IsEntry(t, fnow) /\ t.in = r.in /\ t.out = e.out /\ t.timer = fnow + Lifetime
  <2>1. t = F!SetExpiryTimer(r, LastExpiry(r) - fnow)
    OBVIOUS
  <2> HIDE DEF t, r
  <2> DEFINE dur == LastExpiry(r) - fnow
  <2>2. dur = Lifetime
    BY <1>2, <1>4
  <2> HIDE DEF dur
  <2>3. t = F!SetExpiryTimer(r, dur)
    BY <2>1 DEF dur
  <2>4. IsEntry(t, fnow) /\ t.in = r.in /\ t.out = r.out /\ t.timer = fnow + dur
    BY <1>4, <2>3, TimerSet
  <2> QED
    BY <1>4, <2>2, <2>4
<1>6. faces \subseteq Faces
  BY <1>2, NextHopsAreFaces
<1>7. z = F!SetExpiryTimer(t, 0) /\ o = F!Outgoing(t, faces, k)
  OBVIOUS
<1> HIDE DEF e, r, t, faces, z, o, sends
<1>8. IsEntry(z, fnow) /\ z.in = t.in /\ z.out = t.out /\ z.timer = fnow + 0
  BY <1>5, <1>7, TimerSet
<1>9. /\ IsEntry(o, fnow) /\ o.in = t.in /\ o.timer = t.timer
      /\ DOMAIN o.out = DOMAIN t.out \cup faces
      /\ \A u \in faces : o.out[u].nonce = k
      /\ \A u \in DOMAIN t.out : u \notin faces => o.out[u].nonce = t.out[u].nonce
  <2>1. IsEntry(o, fnow) /\ IsSentTo(o, t, faces, k)
    BY <1>5, <1>6, <1>7, SentOut
  <2> QED
    BY <2>1 DEF IsSentTo
<1>10. /\ IsEntry(p, fnow) /\ p.in = r.in /\ p.timer \in Nat /\ p.timer >= fnow
       /\ DOMAIN e.out \subseteq DOMAIN p.out
       /\ \A u \in DOMAIN e.out : (sends => u \notin faces) => p.out[u].nonce = e.out[u].nonce
       /\ sends => \A u \in faces : u \in DOMAIN p.out /\ p.out[u].nonce = k
  <2>1. CASE ~ sends
    <3>1. p = t
      BY <2>1
    <3> HIDE DEF p
    <3> QED
      BY <1>2, <1>5, <2>1, <3>1
  <2>2. CASE sends /\ faces = {}
    <3>1. p = z
      BY <2>2
    <3> HIDE DEF p
    <3> QED
      BY <1>2, <1>5, <1>8, <2>2, <3>1
  <2>3. CASE sends /\ faces # {}
    <3>1. p = o
      BY <2>3
    <3> HIDE DEF p
    <3> QED
      BY <1>2, <1>5, <1>9, <2>3, <3>1
  <2> QED
    BY <2>1, <2>2, <2>3
<1> HIDE DEF p
<1>11. /\ DOMAIN pit' = DOMAIN pit \cup {x} /\ pit'[x] = p
       /\ \A y \in DOMAIN pit : y # x => pit'[y] = pit[y]
  BY <1>1, TablePut
<1>12. /\ asked' \in [Faces -> Nat] /\ asked'[f] = asked[f] + 1
       /\ \A g \in Faces : g # f => asked'[g] = asked[g]
  BY <1>2, AskedMore
<1>13. StreamsKept' /\ streamed' \in [Names -> Nat \cup {F!Never}]
  BY <1>1, <1>2, PutStreams
<1>14. /\ lastSent' \in [Names -> [Faces -> [nonce : Nonces \cup {F!Never}, from : Faces]]]
       /\ \A y \in Names : y # x => lastSent'[y] = lastSent[y]
       /\ \A u \in Faces : IF sends /\ u \in faces
                           THEN lastSent'[x][u] = [nonce |-> k, from |-> f]
                           ELSE lastSent'[x][u] = lastSent[x][u]
  <2>1. CASE ~ sends
    BY <1>1, <1>2, <2>1
  <2>2. CASE sends
    <3> DEFINE sendings == [nonce |-> k, from |-> f]
               row == [u \in Faces |-> IF u \in faces THEN sendings ELSE lastSent[x][u]]
    <3>1. sendings \in [nonce : Nonces \cup {F!Never}, from : Faces]
      OBVIOUS
    <3>2. lastSent' = [lastSent EXCEPT ![x] = row]
      BY <1>1, <2>2
    <3> HIDE DEF sendings
    <3>3. row \in [Faces -> [nonce : Nonces \cup {F!Never}, from : Faces]]
      BY <1>2, <3>1
    <3>4. \A u \in Faces : row[u] = IF u \in faces THEN sendings ELSE lastSent[x][u]
      OBVIOUS
    <3> HIDE DEF row
    <3>5. /\ lastSent' \in [Names -> [Faces -> [nonce : Nonces \cup {F!Never}, from : Faces]]]
          /\ lastSent'[x] = row
          /\ \A y \in Names : y # x => lastSent'[y] = lastSent[y]
      BY <1>2, <3>2, <3>3
    <3> QED
      BY <2>2, <3>4, <3>5 DEF sendings
  <2> QED
    BY <2>1, <2>2
<1>15. ForwarderTypes'
  <2>1. /\ DOMAIN pit' \subseteq Names
        /\ \A y \in DOMAIN pit' : IsEntry(pit'[y], fnow')
        /\ \A y \in DOMAIN pit' : pit'[y].timer \in Nat /\ pit'[y].timer >= fnow'
    BY <1>1, <1>2, <1>10, PutTypes
  <2> QED
    BY <1>1, <1>2, <1>12, <1>13, <1>14, <2>1 DEF ForwarderTypes
<1>16. StoreSound'
  BY <1>1, <1>2 DEF StoreSound
<1>17. AnswersOwed'
  <2> SUFFICES ASSUME NEW g \in Faces
               PROVE  IF config.mode = "plain"
                      THEN answers[g] + Cardinality(WaitingFor(g)') <= asked'[g]
                      ELSE answers[g] = 0
    BY <1>1 DEF AnswersOwed
  <2>1. WaitingFor(g) \in SUBSET Names
    BY <1>2 DEF WaitingFor, ForwarderTypes
  <2>2. IF config.mode = "plain" THEN answers[g] + Cardinality(WaitingFor(g)) <= asked[g]
        ELSE answers[g] = 0
    BY <1>2 DEF AnswersOwed
  <2>3. CASE g = f
    <3>1. WaitingFor(g)' \subseteq WaitingFor(g) \cup {x}
      BY <1>11 DEF WaitingFor
    <3>2. /\ Cardinality(WaitingFor(g)) \in Nat /\ Cardinality(WaitingFor(g)') \in Nat
          /\ Cardinality(WaitingFor(g)') <= Cardinality(WaitingFor(g)) + 1
      BY <2>1, <3>1, Sizes, ForwarderConstants
    <3> QED
      BY <1>2, <1>12, <2>2, <2>3, <3>2
  <2>4. CASE g # f
    <3>1. WaitingFor(g)' \subseteq WaitingFor(g)
      BY <1>4, <1>10, <1>11, <2>4, EntryFound, <1>2 DEF WaitingFor, e
    <3>2. /\ Cardinality(WaitingFor(g)) \in Nat /\ Cardinality(WaitingFor(g)') \in Nat
          /\ Cardinality(WaitingFor(g)') <= Cardinality(WaitingFor(g))
      BY <2>1, <3>1, Sizes, ForwarderConstants
    <3> QED
      BY <1>2, <1>12, <2>2, <2>4, <3>2
  <2> QED
    BY <2>3, <2>4
<1>18. SentKnown'
  <2>1. deadNonces' = deadNonces
    BY <1>1
  <2> SUFFICES ASSUME NEW y \in Names, NEW u \in Faces, lastSent'[y][u].nonce # F!Never,
                      <<y, lastSent'[y][u].nonce>> \notin deadNonces
               PROVE  /\ y \in DOMAIN pit' /\ u \in DOMAIN pit'[y].out
                      /\ pit'[y].out[u].nonce = lastSent'[y][u].nonce
                      /\ \A g \in DOMAIN pit'[y].in :
                           pit'[y].in[g].nonce = lastSent'[y][u].nonce => g = lastSent'[y][u].from
    BY <2>1 DEF SentKnown
  <2>2. CASE y # x
    <3>1. lastSent'[y] = lastSent[y]
      BY <1>14, <2>2
    <3>2. /\ y \in DOMAIN pit /\ u \in DOMAIN pit[y].out
          /\ pit[y].out[u].nonce = lastSent[y][u].nonce
          /\ \A g \in DOMAIN pit[y].in :
               pit[y].in[g].nonce = lastSent[y][u].nonce => g = lastSent[y][u].from
      BY <1>2, <3>1 DEF SentKnown
    <3>3. y \in DOMAIN pit' /\ pit'[y] = pit[y]
      BY <1>11, <2>2, <3>2
    <3> QED
      BY <3>1, <3>2, <3>3
  <2>3. CASE y = x /\ sends /\ u \in faces
    <3>1. lastSent'[x][u] = [nonce |-> k, from |-> f]
      BY <1>14, <2>3
    <3>2. lastSent'[x][u].nonce = k /\ lastSent'[x][u].from = f
      BY <3>1
    <3>3. pit'[y] = p /\ y \in DOMAIN pit' /\ u \in DOMAIN p.out /\ p.out[u].nonce = k
      BY <1>10, <1>11, <2>3
    <3>4. \A g \in DOMAIN p.in : p.in[g].nonce = k => g = f
      BY <1>4, <1>10 DEF IsEntry
    <3> QED
      BY <2>3, <3>2, <3>3, <3>4
  <2>4. CASE y = x /\ ~ (sends /\ u \in faces)
    <3>1. lastSent'[y][u] = lastSent[y][u]
      BY <1>14, <2>4
    <3>2. /\ y \in DOMAIN pit /\ u \in DOMAIN pit[y].out
          /\ pit[y].out[u].nonce = lastSent[y][u].nonce
          /\ \A g \in DOMAIN pit[y].in :
               pit[y].in[g].nonce = lastSent[y][u].nonce => g = lastSent[y][u].from
      BY <1>2, <3>1 DEF SentKnown
    <3>3. e = pit[y]
      BY <2>4, <3>2 DEF e, EntryFor
    <3>4. pit'[y] = p /\ y \in DOMAIN pit' /\ u \in DOMAIN p.out
          /\ p.out[u].nonce = lastSent[y][u].nonce
      BY <1>10, <1>11, <2>4, <3>2, <3>3
    <3>5. ASSUME NEW g \in DOMAIN p.in, p.in[g].nonce = lastSent[y][u].nonce
          PROVE  g = lastSent[y][u].from
      <4>1. CASE g = f
        <5>1. k = lastSent[y][u].nonce
          BY <1>4, <1>10, <3>5, <4>1
        <5>2. f \in DOMAIN e.in /\ e.in[f].nonce = k
          BY <1>3, <3>2, <3>3, <5>1 DEF F!HasDuplicateNonce
        <5> QED
          BY <3>2, <3>3, <4>1, <5>1, <5>2
      <4>2. CASE g # f
        <5>1. g \in DOMAIN e.in /\ p.in[g] = e.in[g]
          BY <1>4, <1>10, <3>5, <4>2
        <5> QED
          BY <3>2, <3>3, <3>5, <5>1
      <4> QED
        BY <4>1, <4>2
    <3> QED
      BY <3>1, <3>4, <3>5
  <2> QED
    BY <2>2, <2>3, <2>4
<1> QED
  BY <1>15, <1>16, <1>13, <1>17, <1>18 DEF ForwarderInv

\* An Interest, whatever becomes of it.
LEMMA InterestInv ==
  ASSUME F!PitForwarderAssumption, ForwarderInv, NEW f \in Callers, NEW x \in config.names,
         NEW k \in Nonces, F!OnIncomingInterest(f, x, k)
  PROVE  ForwarderInv'
<1> DEFINE e == EntryFor(x)
<1>1. f \in Faces /\ x \in Names
  BY ForwarderConstants DEF ForwarderInv, ForwarderTypes
<1>2. /\ asked' = [asked EXCEPT ![f] = @ + 1] /\ UNCHANGED <<config, fnow>>
      /\ IF <<x, k>> \in deadNonces \/ F!HasDuplicateNonce(e, k, f) THEN F!OnInterestLoop(f)
         ELSE IF e.in = <<>> /\ F!Cached(x) # {}
         THEN F!OnContentStoreHit(f, x, e, F!FirstByName(F!Cached(x)))
         ELSE F!OnContentStoreMiss(f, x, e, k)
  BY DEF F!OnIncomingInterest, EntryFor
<1>3. CASE F!OnInterestLoop(f)
  BY <1>1, <1>2, <1>3, LoopInv
<1>4. CASE /\ e.in = <<>> /\ F!Cached(x) # {}
           /\ F!OnContentStoreHit(f, x, e, F!FirstByName(F!Cached(x)))
  BY <1>1, <1>2, <1>4, HitInv
<1>5. CASE ~ F!HasDuplicateNonce(e, k, f) /\ F!OnContentStoreMiss(f, x, e, k)
  BY <1>1, <1>2, <1>5, MissInv
<1> QED
  BY <1>2, <1>3, <1>4, <1>5

\* A Nack may end an entry, but nobody is answered.
LEMMA NackInv ==
  ASSUME F!PitForwarderAssumption, ForwarderInv, NEW f \in Faces, NEW x \in DOMAIN pit,
         NEW k \in Nonces, F!OnIncomingNack(f, x, k)
  PROVE  ForwarderInv'
<1> DEFINE e == [pit[x] EXCEPT !.out[f].nacked = TRUE]
           z == F!SetExpiryTimer(e, 0)
           p == IF F!HasPendingOutRecords(e) THEN e ELSE z
<1>1. /\ pit' = F!Put(pit, x, p) /\ f \in DOMAIN pit[x].out
      /\ streamed' = [streamed EXCEPT ![x] = F!Never]
      /\ UNCHANGED <<config, deadNonces, cs, fnow, asked, answers, lastSent>>
  BY DEF F!OnIncomingNack
<1>2. /\ ForwarderTypes /\ StoreSound /\ StreamsKept /\ AnswersOwed /\ SentKnown
      /\ fnow \in Nat /\ x \in Names /\ IsEntry(pit[x], fnow)
      /\ pit[x].timer \in Nat /\ pit[x].timer >= fnow
  BY DEF ForwarderInv, ForwarderTypes
<1>3. /\ IsEntry(e, fnow) /\ e.in = pit[x].in /\ e.timer = pit[x].timer
      /\ DOMAIN e.out = DOMAIN pit[x].out
      /\ \A u \in DOMAIN e.out : e.out[u].nonce = pit[x].out[u].nonce
  BY <1>1, <1>2, OutRecordNacked
<1>4. z = F!SetExpiryTimer(e, 0)
  OBVIOUS
<1> HIDE DEF e, z
<1>5. IsEntry(z, fnow) /\ z.in = e.in /\ z.out = e.out /\ z.timer = fnow + 0
  BY <1>3, <1>4, TimerSet
<1>6. /\ IsEntry(p, fnow) /\ p.in = pit[x].in /\ p.timer \in Nat /\ p.timer >= fnow
      /\ DOMAIN p.out = DOMAIN pit[x].out
      /\ \A u \in DOMAIN p.out : p.out[u].nonce = pit[x].out[u].nonce
  <2>1. CASE p = e
    <3> HIDE DEF p
    <3> QED
      BY <1>2, <1>3, <2>1
  <2>2. CASE p = z
    <3> HIDE DEF p
    <3> QED
      BY <1>2, <1>3, <1>5, <2>2
  <2> QED
    BY <2>1, <2>2
<1> HIDE DEF p
<1>7. /\ DOMAIN pit' = DOMAIN pit /\ pit'[x] = p
      /\ \A y \in DOMAIN pit : y # x => pit'[y] = pit[y]
  BY <1>1, TablePut
<1>8. StreamsKept' /\ streamed' \in [Names -> Nat \cup {F!Never}]
  BY <1>1, <1>2, PutStreams
<1>9. ForwarderTypes'
  <2>1. /\ DOMAIN pit' \subseteq Names
        /\ \A y \in DOMAIN pit' : IsEntry(pit'[y], fnow')
        /\ \A y \in DOMAIN pit' : pit'[y].timer \in Nat /\ pit'[y].timer >= fnow'
    BY <1>1, <1>2, <1>6, PutTypes
  <2> QED
    BY <1>1, <1>2, <1>8, <2>1 DEF ForwarderTypes
<1>10. \A y \in DOMAIN pit : /\ pit'[y].in = pit[y].in /\ DOMAIN pit'[y].out = DOMAIN pit[y].out
                             /\ \A u \in DOMAIN pit[y].out : pit'[y].out[u].nonce = pit[y].out[u].nonce
  BY <1>6, <1>7
<1>11. AnswersOwed'
  <2>1. \A g \in Faces : WaitingFor(g)' = WaitingFor(g)
    BY <1>7, <1>10 DEF WaitingFor
  <2> QED
    BY <1>1, <1>2, <2>1 DEF AnswersOwed
<1>12. SentKnown'
  BY <1>1, <1>2, <1>7, <1>10 DEF SentKnown
<1>13. StoreSound'
  BY <1>1, <1>2 DEF StoreSound
<1> QED
  BY <1>8, <1>9, <1>11, <1>12, <1>13 DEF ForwarderInv

\* Stream Data keeps the entry it matches.
LEMMA StreamDataInv ==
  ASSUME F!PitForwarderAssumption, ForwarderInv, NEW x \in DOMAIN pit, NEW d \in Datas,
         x \in Matches[d], d \in StreamDatas, F!IsStreaming,
         NEW transient \in BOOLEAN, NEW went \in BOOLEAN, F!OnStreamData(x, d, transient, went),
         UNCHANGED <<config, fnow, asked>>
  PROVE  ForwarderInv'
<1> DEFINE b == IF went THEN F!SendData(pit[x], d, {Down}) ELSE pit[x]
           a == F!Satisfied(b, d)
           t == F!SetExpiryTimer(a, PitDuration)
<1>1. /\ cs' = cs \/ cs' = F!Insert(d)
      /\ pit' = F!Put(pit, x, t)
      /\ streamed' = [streamed EXCEPT ![x] = fnow]
      /\ lastSent' = [lastSent EXCEPT ![x] = [g \in Faces |-> F!Unsent]]
      /\ UNCHANGED <<deadNonces, answers>>
  BY DEF F!OnStreamData, F!StreamKept
<1>2. /\ ForwarderTypes /\ StoreSound /\ StreamsKept /\ AnswersOwed /\ SentKnown
      /\ fnow \in Nat /\ x \in Names /\ IsEntry(pit[x], fnow) /\ PitDuration \in Nat
  BY ForwarderConstants DEF ForwarderInv, ForwarderTypes
<1>3. IsEntry(b, fnow)
  <2> DEFINE s == F!SendData(pit[x], d, {Down})
  <2>1. s = F!SendData(pit[x], d, {Down})
    OBVIOUS
  <2> HIDE DEF s
  <2>2. IsEntry(s, fnow)
    BY <1>2, <2>1, SentData
  <2> QED
    BY <1>2, <2>2 DEF s
<1> HIDE DEF b
<1>4. IsEntry(a, fnow)
  BY <1>3, SatisfiedSet
<1> HIDE DEF a
<1>5. IsEntry(t, fnow) /\ t.timer = fnow + PitDuration
  BY <1>4, TimerSet
<1> HIDE DEF t
<1>6. t.timer \in Nat /\ t.timer >= fnow
  BY <1>2, <1>5
<1>7. /\ DOMAIN pit' = DOMAIN pit /\ pit'[x] = t
      /\ \A y \in DOMAIN pit : y # x => pit'[y] = pit[y]
  BY <1>1, TablePut
<1>8. /\ streamed' \in [Names -> Nat \cup {F!Never}] /\ streamed'[x] = fnow
      /\ \A y \in Names : y # x => streamed'[y] = streamed[y]
  BY <1>1, <1>2 DEF ForwarderTypes
<1>9. /\ lastSent' \in [Names -> [Faces -> [nonce : Nonces \cup {F!Never}, from : Faces]]]
      /\ \A u \in Faces : lastSent'[x][u].nonce = F!Never
      /\ \A y \in Names : y # x => lastSent'[y] = lastSent[y]
  <2> DEFINE row == [g \in Faces |-> F!Unsent]
  <2>1. row \in [Faces -> [nonce : Nonces \cup {F!Never}, from : Faces]]
    BY ForwarderConstants DEF F!Unsent
  <2>2. \A u \in Faces : row[u].nonce = F!Never
    BY DEF F!Unsent
  <2>3. lastSent' = [lastSent EXCEPT ![x] = row]
    BY <1>1
  <2> HIDE DEF row
  <2> QED
    BY <1>2, <2>1, <2>2, <2>3 DEF ForwarderTypes
<1>10. ForwarderTypes'
  <2>1. /\ DOMAIN pit' \subseteq Names
        /\ \A y \in DOMAIN pit' : IsEntry(pit'[y], fnow')
        /\ \A y \in DOMAIN pit' : pit'[y].timer \in Nat /\ pit'[y].timer >= fnow'
    BY <1>1, <1>2, <1>5, <1>6, PutTypes
  <2> QED
    BY <1>1, <1>2, <1>8, <1>9, <2>1 DEF ForwarderTypes
<1>11. StoreSound'
  <2>1. CASE cs' = cs
    BY <1>2, <2>1 DEF StoreSound
  <2>2. CASE cs' = F!Insert(d)
    BY <1>2, <2>2, InsertSound
  <2> QED
    BY <1>1, <2>1, <2>2
<1>12. StreamsKept'
  <2> SUFFICES ASSUME NEW y \in Names, streamed'[y] # F!Never
               PROVE  /\ config.mode # "plain"
                      /\ \E c \in Datas \cap StreamDatas : y \in Matches[c]
                      /\ fnow < streamed'[y] + PitDuration =>
                           y \in DOMAIN pit' /\ pit'[y].timer = streamed'[y] + PitDuration
    BY DEF StreamsKept
  <2>1. CASE y = x
    BY <1>5, <1>7, <1>8, <2>1 DEF F!IsStreaming
  <2>2. CASE y # x
    <3>1. streamed[y] = streamed'[y]
      BY <1>8, <2>2
    <3> QED
      BY <1>2, <1>7, <2>2, <3>1 DEF StreamsKept
  <2> QED
    BY <2>1, <2>2
<1>13. AnswersOwed'
  BY <1>1, <1>2 DEF AnswersOwed, F!IsStreaming
<1>14. SentKnown'
  <2> SUFFICES ASSUME NEW y \in Names, NEW u \in Faces, lastSent'[y][u].nonce # F!Never,
                      <<y, lastSent'[y][u].nonce>> \notin deadNonces
               PROVE  /\ y \in DOMAIN pit' /\ u \in DOMAIN pit'[y].out
                      /\ pit'[y].out[u].nonce = lastSent'[y][u].nonce
                      /\ \A g \in DOMAIN pit'[y].in :
                           pit'[y].in[g].nonce = lastSent'[y][u].nonce => g = lastSent'[y][u].from
    BY <1>1 DEF SentKnown
  <2>1. y # x /\ lastSent'[y] = lastSent[y]
    BY <1>9
  <2>2. /\ y \in DOMAIN pit /\ u \in DOMAIN pit[y].out
        /\ pit[y].out[u].nonce = lastSent[y][u].nonce
        /\ \A g \in DOMAIN pit[y].in :
             pit[y].in[g].nonce = lastSent[y][u].nonce => g = lastSent[y][u].from
    BY <1>2, <2>1 DEF SentKnown
  <2> QED
    BY <1>7, <2>1, <2>2
<1> QED
  BY <1>10, <1>11, <1>12, <1>13, <1>14 DEF ForwarderInv

\* The nonces of an entry.
LEMMA DeadNoncesSound ==
  ASSUME NEW e, NEW time, IsEntry(e, time), NEW x \in Names, NEW faces
  PROVE  F!DeadNonces(x, e, faces) \subseteq Names \X Nonces
BY DEF F!DeadNonces, IsEntry, IsOutRecord

\* An entry that Data answered: those who wait for it and are answered no longer wait.
IsAnswered(t, e, faces) ==
  /\ t.timer = fnow
  /\ DOMAIN t.in \subseteq DOMAIN e.in
  /\ config.mode = "plain" => DOMAIN t.in \cap faces = {}

LEMMA AnsweredSound ==
  ASSUME ForwarderTypes, NEW x \in DOMAIN pit, NEW f, NEW d, NEW S,
         NEW t, t = F!AnsweredEntry(x, f, d, F!Cardinality(S) = 1)
  PROVE  IsEntry(t, fnow) /\ IsAnswered(t, pit[x], F!PendingDownstreams(pit[x], f))
<1> DEFINE a == F!Satisfied(pit[x], d)
           z == F!SetExpiryTimer(a, 0)
           down == F!PendingDownstreams(pit[x], f)
           b == F!SendData(z, d, down)
           c == [z EXCEPT !.in = <<>>]
           s == IF F!Cardinality(S) = 1 THEN b ELSE c
<1>1. t = [s EXCEPT !.out = F!Without(@, {f})]
  BY DEF F!AnsweredEntry
<1>2. IsEntry(pit[x], fnow) /\ fnow \in Nat
  BY DEF ForwarderTypes
<1>3. IsEntry(a, fnow) /\ a.in = pit[x].in
  <2>1. a = F!Satisfied(pit[x], d)
    OBVIOUS
  <2> HIDE DEF a
  <2> QED
    BY <1>2, <2>1, SatisfiedSet
<1>4. z = F!SetExpiryTimer(a, 0)
  OBVIOUS
<1> HIDE DEF a
<1>5. IsEntry(z, fnow) /\ z.in = a.in /\ z.timer = fnow + 0
  <2> HIDE DEF z
  <2> QED
    BY <1>3, <1>4, TimerSet
<1>6. b = F!SendData(z, d, down)
  OBVIOUS
<1> HIDE DEF z, down
<1>7. /\ IsEntry(b, fnow) /\ b.timer = z.timer
      /\ DOMAIN b.in = DOMAIN z.in \ Removed(d, down)
  <2> HIDE DEF b
  <2> QED
    BY <1>5, <1>6, SentData
<1>8. IsEntry(c, fnow) /\ c.timer = z.timer /\ DOMAIN c.in = {}
  <2> DEFINE none == <<>>
  <2>1. c = EntryFields(none, z.out, z.satisfied, z.freshness, z.timer)
    BY <1>5 DEF IsEntry, EntryFields
  <2>2. DOMAIN none = {}
    OBVIOUS
  <2> HIDE DEF none
  <2>3. IsEntry(EntryFields(none, z.out, z.satisfied, z.freshness, z.timer), fnow)
    BY <1>5, <2>2, InRecordsKept
  <2>4. c.in = none /\ c.timer = z.timer
    BY <2>1 DEF EntryFields
  <2> QED
    BY <2>1, <2>2, <2>3, <2>4
<1> HIDE DEF b, c
<1>9. /\ IsEntry(s, fnow) /\ s.timer = fnow /\ DOMAIN s.in \subseteq DOMAIN pit[x].in
      /\ config.mode = "plain" => DOMAIN s.in \cap down = {}
  <2>1. CASE s = b
    <3> HIDE DEF s
    <3>1. config.mode = "plain" => Removed(d, down) = down
      BY DEF Removed
    <3> QED
      BY <1>2, <1>3, <1>5, <1>7, <2>1, <3>1
  <2>2. CASE s = c
    <3> HIDE DEF s
    <3> QED
      BY <1>2, <1>3, <1>5, <1>8, <2>2
  <2> QED
    BY <2>1, <2>2
<1> HIDE DEF s
<1>10. t = EntryFields(s.in, F!Without(s.out, {f}), s.satisfied, s.freshness, s.timer)
  BY <1>1, <1>9 DEF IsEntry, EntryFields
<1>11. IsEntry(t, fnow) /\ t.in = s.in /\ t.timer = s.timer
  BY <1>9, <1>10, OutRecordsGone
<1> QED
  BY <1>9, <1>11 DEF IsAnswered, down

\* Data that is not of a stream answers those who wait, once each.
LEMMA PlainDataInv ==
  ASSUME F!PitForwarderAssumption, ForwarderInv, NEW f \in Faces, NEW d \in Datas,
         ~ (F!IsStreaming /\ d \in StreamDatas),
         NEW matched, matched = {y \in DOMAIN pit : y \in Matches[d]},
         F!OnPlainData(f, d, matched), UNCHANGED <<config, fnow, asked>>
  PROVE  ForwarderInv'
<1> DEFINE answered == UNION {F!PendingDownstreams(pit[y], f) : y \in matched}
<1>1. /\ cs' = IF F!IsStreaming THEN cs ELSE F!Insert(d)
      /\ DOMAIN pit' = DOMAIN pit
      /\ \A y \in matched : pit'[y] = F!AnsweredEntry(y, f, d, F!Cardinality(matched) = 1)
      /\ \A y \in DOMAIN pit : y \notin matched => pit'[y] = pit[y]
      /\ deadNonces' = deadNonces \cup UNION {F!DeadNonces(y, F!Satisfied(pit[y], d), {f}) : y \in matched}
      /\ answers' = [g \in Faces |-> answers[g] + IF g \in answered /\ ~ F!IsStreaming THEN 1 ELSE 0]
      /\ lastSent' = [y \in Names |->
                        IF y \in matched THEN [u \in Faces |-> F!Unsent] ELSE lastSent[y]]
      /\ UNCHANGED streamed
  BY DEF F!OnPlainData, F!Answered
<1>2. /\ ForwarderTypes /\ StoreSound /\ StreamsKept /\ AnswersOwed /\ SentKnown
      /\ fnow \in Nat /\ DOMAIN pit \subseteq Names /\ matched \subseteq DOMAIN pit
      /\ asked \in [Faces -> Nat] /\ answers \in [Faces -> Nat]
      /\ IsFiniteSet(Names)
  BY ForwarderConstants DEF ForwarderInv, ForwarderTypes
<1>3. ASSUME NEW y \in matched
      PROVE  /\ IsEntry(pit'[y], fnow)
             /\ IsAnswered(pit'[y], pit[y], F!PendingDownstreams(pit[y], f))
  <2>1. pit'[y] = F!AnsweredEntry(y, f, d, F!Cardinality(matched) = 1) /\ y \in DOMAIN pit
    BY <1>1, <1>2
  <2> DEFINE t == pit'[y]
  <2>2. t = F!AnsweredEntry(y, f, d, F!Cardinality(matched) = 1)
    BY <2>1
  <2> HIDE DEF t
  <2>3. IsEntry(t, fnow) /\ IsAnswered(t, pit[y], F!PendingDownstreams(pit[y], f))
    BY <1>2, <2>1, <2>2, AnsweredSound
  <2> QED
    BY <2>3 DEF t
<1>4. /\ lastSent' \in [Names -> [Faces -> [nonce : Nonces \cup {F!Never}, from : Faces]]]
      /\ \A y \in matched : \A u \in Faces : lastSent'[y][u].nonce = F!Never
      /\ \A y \in Names : y \notin matched => lastSent'[y] = lastSent[y]
  <2> DEFINE row == [g \in Faces |-> F!Unsent]
  <2>1. row \in [Faces -> [nonce : Nonces \cup {F!Never}, from : Faces]]
    BY ForwarderConstants DEF F!Unsent
  <2>2. \A u \in Faces : row[u].nonce = F!Never
    BY DEF F!Unsent
  <2>3. lastSent' = [y \in Names |-> IF y \in matched THEN row ELSE lastSent[y]]
    BY <1>1
  <2> HIDE DEF row
  <2> QED
    BY <1>2, <2>1, <2>2, <2>3 DEF ForwarderTypes
<1>5. deadNonces' \subseteq Names \X Nonces /\ deadNonces \subseteq deadNonces'
  <2>1. ASSUME NEW y \in matched
        PROVE  F!DeadNonces(y, F!Satisfied(pit[y], d), {f}) \subseteq Names \X Nonces
    <3> DEFINE a == F!Satisfied(pit[y], d)
    <3>1. IsEntry(pit[y], fnow) /\ y \in Names
      BY <1>2 DEF ForwarderTypes
    <3>2. a = F!Satisfied(pit[y], d)
      OBVIOUS
    <3> HIDE DEF a
    <3>3. IsEntry(a, fnow)
      BY <3>1, <3>2, SatisfiedSet
    <3>4. F!DeadNonces(y, a, {f}) \subseteq Names \X Nonces
      BY <3>1, <3>3, DeadNoncesSound
    <3> QED
      BY <3>4 DEF a
  <2>2. deadNonces \subseteq Names \X Nonces
    BY <1>2 DEF ForwarderTypes
  <2> DEFINE Dead(y) == F!DeadNonces(y, F!Satisfied(pit[y], d), {f})
  <2>3. /\ deadNonces' = deadNonces \cup UNION {Dead(y) : y \in matched}
        /\ \A y \in matched : Dead(y) \subseteq Names \X Nonces
    BY <1>1, <2>1
  <2> HIDE DEF Dead
  <2> QED
    BY <2>2, <2>3
<1> HIDE DEF answered
<1>6. answers' \in [Faces -> Nat]
  BY <1>1, <1>2
<1>7. ForwarderTypes'
  <2>1. ASSUME NEW y \in DOMAIN pit'
        PROVE  IsEntry(pit'[y], fnow') /\ pit'[y].timer \in Nat /\ pit'[y].timer >= fnow'
    <3>1. CASE y \in matched
      BY <1>2, <1>3, <3>1 DEF IsAnswered
    <3>2. CASE y \notin matched
      BY <1>1, <1>2, <3>2 DEF ForwarderTypes
    <3> QED
      BY <3>1, <3>2
  <2> QED
    BY <1>1, <1>2, <1>4, <1>5, <1>6, <2>1 DEF ForwarderTypes
<1>8. StoreSound'
  <2>1. CASE cs' = cs
    BY <1>2, <2>1 DEF StoreSound
  <2>2. CASE cs' = F!Insert(d)
    BY <1>2, <2>2, InsertSound
  <2> QED
    BY <1>1, <2>1, <2>2
<1>9. StreamsKept'
  <2> SUFFICES ASSUME NEW y \in Names, streamed[y] # F!Never
               PROVE  /\ config.mode # "plain"
                      /\ \E c \in Datas \cap StreamDatas : y \in Matches[c]
                      /\ fnow < streamed[y] + PitDuration =>
                           y \in DOMAIN pit' /\ pit'[y].timer = streamed[y] + PitDuration
    BY <1>1 DEF StreamsKept
  <2>1. /\ config.mode # "plain"
        /\ \E c \in Datas \cap StreamDatas : y \in Matches[c]
        /\ fnow < streamed[y] + PitDuration =>
             y \in DOMAIN pit /\ pit[y].timer = streamed[y] + PitDuration
    BY <1>2 DEF StreamsKept
  <2>2. y \notin matched
    <3>1. d \in Datas \ StreamDatas
      BY <2>1 DEF F!IsStreaming
    <3>2. PICK c \in Datas \cap StreamDatas : y \in Matches[c]
      BY <2>1
    <3>3. Matches[c] \cap Matches[d] = {}
      BY <3>1, <3>2, ForwarderConstants
    <3> QED
      BY <3>2, <3>3
  <2> QED
    BY <1>1, <2>1, <2>2
<1>10. AnswersOwed'
  <2> SUFFICES ASSUME NEW g \in Faces
               PROVE  IF config.mode = "plain"
                      THEN answers'[g] + Cardinality(WaitingFor(g)') <= asked[g]
                      ELSE answers'[g] = 0
    BY DEF AnswersOwed
  <2>1. IF config.mode = "plain" THEN answers[g] + Cardinality(WaitingFor(g)) <= asked[g]
        ELSE answers[g] = 0
    BY <1>2 DEF AnswersOwed
  <2>2. WaitingFor(g) \in SUBSET Names /\ WaitingFor(g)' \subseteq WaitingFor(g)
    BY <1>1, <1>2, <1>3 DEF WaitingFor, IsAnswered
  <2>3. CASE config.mode # "plain"
    BY <1>1, <1>2, <2>1, <2>3 DEF F!IsStreaming
  <2>4. CASE config.mode = "plain" /\ g \in answered
    <3>1. PICK y \in matched : g \in F!PendingDownstreams(pit[y], f)
      BY <2>4 DEF answered
    <3>2. y \in WaitingFor(g) /\ y \notin WaitingFor(g)'
      BY <1>2, <1>3, <2>4, <3>1 DEF WaitingFor, IsAnswered, F!PendingDownstreams
    <3>3. WaitingFor(g)' \subseteq WaitingFor(g) \ {y}
      BY <2>2, <3>2
    <3>4. /\ Cardinality(WaitingFor(g)) \in Nat /\ Cardinality(WaitingFor(g)') \in Nat
          /\ Cardinality(WaitingFor(g)') + 1 <= Cardinality(WaitingFor(g))
      BY <1>2, <2>2, <3>2, <3>3, Sizes
    <3>5. answers'[g] = answers[g] + 1
      BY <1>1, <2>4 DEF F!IsStreaming
    <3> QED
      BY <1>2, <2>1, <2>4, <3>4, <3>5
  <2>5. CASE config.mode = "plain" /\ g \notin answered
    <3>1. /\ Cardinality(WaitingFor(g)) \in Nat /\ Cardinality(WaitingFor(g)') \in Nat
          /\ Cardinality(WaitingFor(g)') <= Cardinality(WaitingFor(g))
      BY <1>2, <2>2, Sizes
    <3>2. answers'[g] = answers[g]
      BY <1>1, <1>2, <2>5
    <3> QED
      BY <1>2, <2>1, <2>5, <3>1, <3>2
  <2> QED
    BY <2>3, <2>4, <2>5
<1>11. SentKnown'
  <2> SUFFICES ASSUME NEW y \in Names, NEW u \in Faces, lastSent'[y][u].nonce # F!Never,
                      <<y, lastSent'[y][u].nonce>> \notin deadNonces'
               PROVE  /\ y \in DOMAIN pit' /\ u \in DOMAIN pit'[y].out
                      /\ pit'[y].out[u].nonce = lastSent'[y][u].nonce
                      /\ \A g \in DOMAIN pit'[y].in :
                           pit'[y].in[g].nonce = lastSent'[y][u].nonce => g = lastSent'[y][u].from
    BY DEF SentKnown
  <2>1. y \notin matched /\ lastSent'[y] = lastSent[y]
    BY <1>4
  <2>2. /\ y \in DOMAIN pit /\ u \in DOMAIN pit[y].out
        /\ pit[y].out[u].nonce = lastSent[y][u].nonce
        /\ \A g \in DOMAIN pit[y].in :
             pit[y].in[g].nonce = lastSent[y][u].nonce => g = lastSent[y][u].from
    BY <1>2, <1>5, <2>1 DEF SentKnown
  <2> QED
    BY <1>1, <2>1, <2>2
<1> QED
  BY <1>7, <1>8, <1>9, <1>10, <1>11 DEF ForwarderInv

\* Data that somebody waits for.
LEMMA DataInv ==
  ASSUME F!PitForwarderAssumption, ForwarderInv, NEW f \in Faces, NEW d \in Datas,
         NEW transient \in BOOLEAN, NEW went \in BOOLEAN, F!OnIncomingData(f, d, transient, went)
  PROVE  ForwarderInv'
<1> DEFINE matched == {y \in DOMAIN pit : y \in Matches[d]}
<1>1. /\ UNCHANGED <<config, fnow, asked>>
      /\ F!IsStreaming /\ d \in StreamDatas => \E y \in matched : F!OnStreamData(y, d, transient, went)
      /\ ~ (F!IsStreaming /\ d \in StreamDatas) => F!OnPlainData(f, d, matched)
  BY DEF F!OnIncomingData
<1>2. CASE F!IsStreaming /\ d \in StreamDatas
  <2>1. PICK y \in matched : F!OnStreamData(y, d, transient, went)
    BY <1>1, <1>2
  <2> QED
    BY <1>1, <1>2, <2>1, StreamDataInv
<1>3. CASE ~ (F!IsStreaming /\ d \in StreamDatas)
  BY <1>1, <1>3, PlainDataInv
<1> QED
  BY <1>2, <1>3

\* An entry that ends: what was sent for it is answered or its nonces are dead.
LEMMA FinalizeInv ==
  ASSUME F!PitForwarderAssumption, ForwarderInv, NEW x \in DOMAIN pit, F!OnInterestFinalize(x)
  PROVE  ForwarderInv'
<1>1. /\ pit[x].timer = fnow
      /\ deadNonces' = deadNonces \cup F!DeadNonces(x, pit[x], Faces)
      /\ lastSent' = IF pit[x].satisfied THEN [lastSent EXCEPT ![x] = [g \in Faces |-> F!Unsent]]
                     ELSE lastSent
      /\ UNCHANGED <<config, cs, fnow, asked, answers, streamed>>
  BY DEF F!OnInterestFinalize
<1>2. DOMAIN pit' = DOMAIN pit \ {x} /\ \A y \in DOMAIN pit : y # x => pit'[y] = pit[y]
  BY DEF F!OnInterestFinalize, F!Without, F!Restrict
<1>3. /\ ForwarderTypes /\ StoreSound /\ StreamsKept /\ AnswersOwed /\ SentKnown
      /\ fnow \in Nat /\ x \in Names /\ IsEntry(pit[x], fnow) /\ IsFiniteSet(Names)
      /\ asked \in [Faces -> Nat] /\ answers \in [Faces -> Nat]
  BY ForwarderConstants DEF ForwarderInv, ForwarderTypes
<1>4. deadNonces' \subseteq Names \X Nonces /\ deadNonces \subseteq deadNonces'
  BY <1>1, <1>3, DeadNoncesSound DEF ForwarderTypes
<1>5. /\ lastSent' \in [Names -> [Faces -> [nonce : Nonces \cup {F!Never}, from : Faces]]]
      /\ pit[x].satisfied => \A u \in Faces : lastSent'[x][u].nonce = F!Never
      /\ ~ pit[x].satisfied => lastSent' = lastSent
      /\ \A y \in Names : y # x => lastSent'[y] = lastSent[y]
  <2> DEFINE row == [g \in Faces |-> F!Unsent]
  <2>1. row \in [Faces -> [nonce : Nonces \cup {F!Never}, from : Faces]]
    BY ForwarderConstants DEF F!Unsent
  <2>2. \A u \in Faces : row[u].nonce = F!Never
    BY DEF F!Unsent
  <2>3. lastSent' = IF pit[x].satisfied THEN [lastSent EXCEPT ![x] = row] ELSE lastSent
    BY <1>1
  <2> HIDE DEF row
  <2> QED
    BY <1>3, <2>1, <2>2, <2>3 DEF ForwarderTypes
<1>6. ForwarderTypes'
  BY <1>1, <1>2, <1>3, <1>4, <1>5 DEF ForwarderTypes
<1>7. StoreSound'
  BY <1>1, <1>3 DEF StoreSound
<1>8. StreamsKept'
  <2> SUFFICES ASSUME NEW y \in Names, streamed[y] # F!Never
               PROVE  /\ config.mode # "plain"
                      /\ \E c \in Datas \cap StreamDatas : y \in Matches[c]
                      /\ fnow < streamed[y] + PitDuration =>
                           y \in DOMAIN pit' /\ pit'[y].timer = streamed[y] + PitDuration
    BY <1>1 DEF StreamsKept
  <2>1. /\ config.mode # "plain"
        /\ \E c \in Datas \cap StreamDatas : y \in Matches[c]
        /\ fnow < streamed[y] + PitDuration =>
             y \in DOMAIN pit /\ pit[y].timer = streamed[y] + PitDuration
    BY <1>3 DEF StreamsKept
  <2>2. CASE fnow < streamed[y] + PitDuration
    <3>1. y \in DOMAIN pit /\ pit[y].timer = streamed[y] + PitDuration
      BY <2>1, <2>2
    <3>2. y # x
      BY <1>1, <1>3, <2>2, <3>1
    <3> QED
      BY <1>2, <2>1, <3>1, <3>2
  <2> QED
    BY <2>1, <2>2
<1>9. AnswersOwed'
  <2> SUFFICES ASSUME NEW g \in Faces
               PROVE  IF config.mode = "plain"
                      THEN answers[g] + Cardinality(WaitingFor(g)') <= asked[g]
                      ELSE answers[g] = 0
    BY <1>1 DEF AnswersOwed
  <2>1. IF config.mode = "plain" THEN answers[g] + Cardinality(WaitingFor(g)) <= asked[g]
        ELSE answers[g] = 0
    BY <1>3 DEF AnswersOwed
  <2>2. WaitingFor(g) \in SUBSET Names /\ WaitingFor(g)' \subseteq WaitingFor(g)
    BY <1>2, <1>3 DEF WaitingFor, ForwarderTypes
  <2>3. /\ Cardinality(WaitingFor(g)) \in Nat /\ Cardinality(WaitingFor(g)') \in Nat
        /\ Cardinality(WaitingFor(g)') <= Cardinality(WaitingFor(g))
    BY <1>3, <2>2, Sizes
  <2> QED
    BY <1>3, <2>1, <2>3
<1>10. SentKnown'
  <2> SUFFICES ASSUME NEW y \in Names, NEW u \in Faces, lastSent'[y][u].nonce # F!Never,
                      <<y, lastSent'[y][u].nonce>> \notin deadNonces'
               PROVE  /\ y \in DOMAIN pit' /\ u \in DOMAIN pit'[y].out
                      /\ pit'[y].out[u].nonce = lastSent'[y][u].nonce
                      /\ \A g \in DOMAIN pit'[y].in :
                           pit'[y].in[g].nonce = lastSent'[y][u].nonce => g = lastSent'[y][u].from
    BY DEF SentKnown
  <2>1. lastSent'[y] = lastSent[y] /\ (y = x => ~ pit[x].satisfied)
    BY <1>5
  <2>2. /\ y \in DOMAIN pit /\ u \in DOMAIN pit[y].out
        /\ pit[y].out[u].nonce = lastSent[y][u].nonce
        /\ \A g \in DOMAIN pit[y].in :
             pit[y].in[g].nonce = lastSent[y][u].nonce => g = lastSent[y][u].from
    BY <1>3, <1>4, <2>1 DEF SentKnown
  <2>3. y # x
    <3> SUFFICES ASSUME y = x PROVE FALSE
      OBVIOUS
    <3>1. <<x, pit[x].out[u].nonce>> \in F!DeadNonces(x, pit[x], Faces)
      BY <2>1, <2>2 DEF F!DeadNonces
    <3> QED
      BY <1>1, <2>1, <2>2, <3>1
  <2> QED
    BY <1>2, <2>1, <2>2, <2>3
<1> QED
  BY <1>6, <1>7, <1>8, <1>9, <1>10 DEF ForwarderInv

\* Time passes up to the next timer.
LEMMA ForwarderTickInv ==
  ASSUME F!PitForwarderAssumption, ForwarderInv, F!Tick
  PROVE  ForwarderInv'
<1>1. /\ \A y \in DOMAIN pit : pit[y].timer # fnow
      /\ fnow' = fnow + 1
      /\ UNCHANGED <<config, pit, deadNonces, cs, asked, answers, lastSent, streamed>>
  BY DEF F!Tick
<1>2. /\ ForwarderTypes /\ StoreSound /\ StreamsKept /\ AnswersOwed /\ SentKnown
      /\ fnow \in Nat /\ Lifetime \in Nat /\ PitDuration \in Nat
  BY ForwarderConstants DEF ForwarderInv, ForwarderTypes
<1>3. ASSUME NEW y \in DOMAIN pit
      PROVE  IsEntry(pit[y], fnow + 1) /\ pit[y].timer \in Nat /\ pit[y].timer >= fnow + 1
  <2>1. IsEntry(pit[y], fnow) /\ pit[y].timer \in Nat /\ pit[y].timer >= fnow
    BY <1>2 DEF ForwarderTypes
  <2>2. \A g \in DOMAIN pit[y].in : pit[y].in[g].expiry <= (fnow + 1) + Lifetime
    <3> TAKE g \in DOMAIN pit[y].in
    <3>1. pit[y].in[g] \in [nonce : Nonces, expiry : Nat] /\ pit[y].in[g].expiry <= fnow + Lifetime
      BY <2>1 DEF IsEntry
    <3> QED
      BY <1>2, <3>1
  <2> QED
    BY <1>1, <1>2, <2>1, <2>2 DEF IsEntry
<1>4. ForwarderTypes'
  BY <1>1, <1>2, <1>3 DEF ForwarderTypes
<1>5. StoreSound' /\ SentKnown' /\ AnswersOwed'
  <2>1. \A g \in Faces : WaitingFor(g)' = WaitingFor(g)
    BY <1>1 DEF WaitingFor
  <2> QED
    BY <1>1, <1>2, <2>1 DEF StoreSound, SentKnown, AnswersOwed
<1>6. StreamsKept'
  <2> SUFFICES ASSUME NEW y \in Names, streamed[y] # F!Never
               PROVE  /\ config.mode # "plain"
                      /\ \E c \in Datas \cap StreamDatas : y \in Matches[c]
                      /\ fnow + 1 < streamed[y] + PitDuration =>
                           y \in DOMAIN pit /\ pit[y].timer = streamed[y] + PitDuration
    BY <1>1 DEF StreamsKept
  <2>1. streamed[y] \in Nat
    BY <1>2 DEF ForwarderTypes
  <2>2. fnow + 1 < streamed[y] + PitDuration => fnow < streamed[y] + PitDuration
    BY <1>2, <2>1
  <2> QED
    BY <1>2, <2>2 DEF StreamsKept
<1> QED
  BY <1>4, <1>5, <1>6 DEF ForwarderInv

\* At the beginning nothing is asked.
LEMMA ForwarderStarts ==
  ASSUME F!PitForwarderAssumption, F!Init
  PROVE  ForwarderInv
<1>1. /\ config \in Configs /\ pit = <<>> /\ deadNonces = {} /\ cs = <<>> /\ fnow = 0
      /\ asked = [g \in Faces |-> 0] /\ answers = [g \in Faces |-> 0]
      /\ lastSent = [y \in Names |-> [g \in Faces |-> F!Unsent]]
      /\ streamed = [y \in Names |-> F!Never]
  BY DEF F!Init
<1>2. DOMAIN pit = {}
  BY <1>1
<1>3. lastSent \in [Names -> [Faces -> [nonce : Nonces \cup {F!Never}, from : Faces]]]
  BY <1>1, ForwarderConstants DEF F!Unsent
<1>4. ForwarderTypes
  BY <1>1, <1>2, <1>3 DEF ForwarderTypes
<1>5. StoreSound
  BY <1>1, ForwarderConstants DEF StoreSound, OneEach
<1>6. StreamsKept
  BY <1>1 DEF StreamsKept
<1>7. AnswersOwed
  <2> SUFFICES ASSUME NEW g \in Faces
               PROVE  answers[g] = 0 /\ answers[g] + Cardinality(WaitingFor(g)) <= asked[g]
    BY DEF AnswersOwed
  <2>1. WaitingFor(g) = {}
    BY <1>2 DEF WaitingFor
  <2>2. Cardinality(WaitingFor(g)) = 0
    BY <2>1, FS_EmptySet
  <2> QED
    BY <1>1, <2>2
<1>8. SentKnown
  BY <1>1 DEF SentKnown, F!Unsent
<1> QED
  BY <1>4, <1>5, <1>6, <1>7, <1>8 DEF ForwarderInv

LEMMA ForwarderNextInv ==
  ASSUME F!PitForwarderAssumption, ForwarderInv, [F!Next]_(F!forwarderVars)
  PROVE  ForwarderInv'
<1>1. CASE UNCHANGED F!forwarderVars
  <2>1. UNCHANGED <<config, pit, deadNonces, cs, fnow, asked, answers, lastSent, streamed>>
    BY <1>1 DEF F!forwarderVars
  <2>2. \A g \in Faces : WaitingFor(g)' = WaitingFor(g)
    BY <2>1 DEF WaitingFor
  <2> QED
    BY <2>1, <2>2
       DEF ForwarderInv, ForwarderTypes, StoreSound, StreamsKept, AnswersOwed, SentKnown
<1>2. CASE \E f \in Callers, x \in config.names, k \in Nonces : F!OnIncomingInterest(f, x, k)
  BY <1>2, InterestInv
<1>3. CASE \E f \in Faces, x \in DOMAIN pit, k \in Nonces : F!OnIncomingNack(f, x, k)
  BY <1>3, NackInv
<1>4. CASE \E x \in DOMAIN pit : F!OnInterestFinalize(x)
  BY <1>4, FinalizeInv
<1>5. CASE \E f \in Faces, d \in Datas, transient, went \in BOOLEAN :
              F!OnIncomingData(f, d, transient, went)
  BY <1>5, DataInv
<1>6. CASE F!Tick
  BY <1>6, ForwarderTickInv
<1> QED
  BY <1>1, <1>2, <1>3, <1>4, <1>5, <1>6 DEF F!Next

\* An Interest that is sent again to where the last one with its nonce went comes from the
\* neighbour it came from.
NotLooped(x, u, v) ==
  LET new == lastSent'[x][u]
  IN  new # lastSent[x][u] /\ new # F!Unsent /\ new.nonce = lastSent[x][v].nonce
        => new.from = lastSent[x][v].from

LEMMA InterestNotLooped ==
  ASSUME F!PitForwarderAssumption, ForwarderInv, NEW f \in Callers, NEW y \in config.names,
         NEW k \in Nonces, F!OnIncomingInterest(f, y, k),
         NEW x \in Names, NEW u \in Faces, NEW v \in Faces
  PROVE  NotLooped(x, u, v)
<1> SUFFICES ASSUME lastSent'[x][u] # lastSent[x][u],
                    lastSent'[x][u].nonce = lastSent[x][v].nonce
             PROVE  lastSent'[x][u].from = lastSent[x][v].from
  BY DEF NotLooped
<1> DEFINE e == EntryFor(y)
<1>1. f \in Faces /\ y \in Names /\ Nonces \subseteq Nat
  BY ForwarderConstants DEF ForwarderInv, ForwarderTypes
<1>2. IF <<y, k>> \in deadNonces \/ F!HasDuplicateNonce(e, k, f) THEN F!OnInterestLoop(f)
      ELSE IF e.in = <<>> /\ F!Cached(y) # {}
      THEN F!OnContentStoreHit(f, y, e, F!FirstByName(F!Cached(y)))
      ELSE F!OnContentStoreMiss(f, y, e, k)
  BY DEF F!OnIncomingInterest, EntryFor
<1>3. /\ <<y, k>> \notin deadNonces /\ ~ F!HasDuplicateNonce(e, k, f)
      /\ F!OnContentStoreMiss(f, y, e, k)
  BY <1>2 DEF F!OnInterestLoop, F!OnContentStoreHit
<1>4. PICK faces : \/ lastSent' = lastSent
                   \/ lastSent' = [lastSent EXCEPT ![y] = [w \in Faces |->
                             IF w \in faces THEN [nonce |-> k, from |-> f] ELSE @[w]]]
  <2> DEFINE r == Recorded(e, f, k)
             t == F!SetExpiryTimer(r, LastExpiry(r) - fnow)
             faces == F!NextHops(y, t)
             sends == ~ F!HasPendingOutRecords(t)
  <2>1. lastSent' = IF sends
                    THEN [lastSent EXCEPT ![y] = [w \in Faces |->
                            IF w \in faces THEN [nonce |-> k, from |-> f] ELSE @[w]]]
                    ELSE lastSent
    BY <1>3 DEF F!OnContentStoreMiss, Recorded, LastExpiry
  <2> HIDE DEF r, t, faces, sends, e
  <2> QED
    BY <2>1
<1>5. lastSent \in [Names -> [Faces -> [nonce : Nonces \cup {F!Never}, from : Faces]]]
  BY DEF ForwarderInv, ForwarderTypes
<1>6. x = y /\ lastSent'[x][u] = [nonce |-> k, from |-> f]
  <2> DEFINE new == [nonce |-> k, from |-> f]
             row == [w \in Faces |-> IF w \in faces THEN new ELSE lastSent[y][w]]
  <2>1. lastSent' = [lastSent EXCEPT ![y] = row]
    BY <1>4
  <2>2. row[u] = new \/ row[u] = lastSent[y][u]
    OBVIOUS
  <2> HIDE DEF row, new
  <2>3. lastSent'[x] = IF x = y THEN row ELSE lastSent[x]
    BY <1>1, <1>5, <2>1
  <2>4. x = y
    BY <2>3
  <2>5. lastSent'[x][u] = row[u]
    BY <2>3, <2>4
  <2> QED
    BY <2>2, <2>4, <2>5 DEF new
<1>7. lastSent'[x][u].nonce = k /\ lastSent'[x][u].from = f
  BY <1>6
<1>8. lastSent[y][v].nonce = k /\ k # F!Never
  BY <1>1, <1>6, <1>7 DEF F!Never
<1>9. /\ y \in DOMAIN pit /\ v \in DOMAIN pit[y].out
      /\ pit[y].out[v].nonce = k
      /\ \A g \in DOMAIN pit[y].in : pit[y].in[g].nonce = k => g = lastSent[y][v].from
  BY <1>1, <1>3, <1>8 DEF ForwarderInv, SentKnown
<1>10. f \in DOMAIN pit[y].in /\ pit[y].in[f].nonce = k
  BY <1>3, <1>9 DEF F!HasDuplicateNonce, EntryFor
<1> QED
  BY <1>6, <1>7, <1>9, <1>10

LEMMA ForwarderNextNotLooped ==
  ASSUME F!PitForwarderAssumption, ForwarderInv, [F!Next]_(F!forwarderVars),
         NEW x \in Names, NEW u \in Faces, NEW v \in Faces
  PROVE  NotLooped(x, u, v)
<1>1. lastSent \in [Names -> [Faces -> [nonce : Nonces \cup {F!Never}, from : Faces]]]
  BY DEF ForwarderInv, ForwarderTypes
<1>2. CASE UNCHANGED lastSent
  BY <1>2 DEF NotLooped
<1>3. CASE \E f \in Callers, y \in config.names, k \in Nonces : F!OnIncomingInterest(f, y, k)
  BY <1>3, InterestNotLooped
<1> DEFINE row == [g \in Faces |-> F!Unsent]
<1>4. CASE \A y \in Names : lastSent'[y] = row \/ lastSent'[y] = lastSent[y]
  <2>1. row[u] = F!Unsent
    OBVIOUS
  <2> HIDE DEF row
  <2> QED
    BY <1>4, <2>1 DEF NotLooped
<1>5. CASE \E y \in DOMAIN pit : F!OnInterestFinalize(y)
  <2>1. PICK y \in DOMAIN pit : F!OnInterestFinalize(y)
    BY <1>5
  <2>2. lastSent' = lastSent \/ lastSent' = [lastSent EXCEPT ![y] = row]
    BY <2>1 DEF F!OnInterestFinalize
  <2> HIDE DEF row
  <2>3. \A z \in Names : lastSent'[z] = row \/ lastSent'[z] = lastSent[z]
    BY <1>1, <2>2
  <2> QED
    BY <1>4, <2>3 DEF row
<1>6. CASE \E f \in Faces, d \in Datas, transient, went \in BOOLEAN :
              F!OnIncomingData(f, d, transient, went)
  <2>1. PICK f \in Faces, d \in Datas, transient \in BOOLEAN, went \in BOOLEAN :
               F!OnIncomingData(f, d, transient, went)
    BY <1>6
  <2> DEFINE matched == {y \in DOMAIN pit : y \in Matches[d]}
  <2>2. \/ \E y \in matched : F!OnStreamData(y, d, transient, went)
        \/ F!OnPlainData(f, d, matched)
    BY <2>1 DEF F!OnIncomingData
  <2>3. \/ \E y \in matched : lastSent' = [lastSent EXCEPT ![y] = row]
        \/ lastSent' = [y \in Names |-> IF y \in matched THEN row ELSE lastSent[y]]
    BY <2>2 DEF F!OnStreamData, F!OnPlainData
  <2> HIDE DEF row, matched
  <2>4. \A z \in Names : lastSent'[z] = row \/ lastSent'[z] = lastSent[z]
    BY <1>1, <2>3
  <2> QED
    BY <1>4, <2>4 DEF row
<1> QED
  BY <1>2, <1>3, <1>5, <1>6 DEF F!Next, F!forwarderVars, F!OnIncomingNack, F!Tick

\* For any faces, names, Data, set-ups and times: the variables keep their types, in the
\* plain set-up no neighbour gets more Data and Nacks than it sent Interests, and an entry
\* stays for PitDuration after stream Data (the pipelines of forwarder.cpp).
THEOREM ForwarderSettles ==
  ASSUME F!PitForwarderAssumption
  PROVE  F!Init /\ [][F!Next]_(F!forwarderVars) =>
           /\ [](F!TypeOK /\ F!OneAnswerPerInterest /\ F!StreamStaysOpen)
           /\ F!LoopsStopped
<1>1. F!Init => ForwarderInv
  BY ForwarderStarts
<1>2. ForwarderInv /\ [F!Next]_(F!forwarderVars) => ForwarderInv'
  BY ForwarderNextInv
<1>3. ForwarderInv => F!TypeOK /\ F!OneAnswerPerInterest /\ F!StreamStaysOpen
  <2> SUFFICES ASSUME ForwarderInv PROVE F!TypeOK /\ F!OneAnswerPerInterest /\ F!StreamStaysOpen
    OBVIOUS
  <2>1. F!TypeOK
    <3>1. \A x \in DOMAIN pit : /\ DOMAIN pit[x].in \subseteq Faces /\ DOMAIN pit[x].out \subseteq Faces
                               /\ pit[x].timer >= fnow
      BY DEF ForwarderInv, ForwarderTypes, IsEntry
    <3>2. Len(cs) <= CsLimit /\ \A i, j \in DOMAIN cs : cs[i].data = cs[j].data => i = j
      BY DEF ForwarderInv, StoreSound, OneEach
    <3> QED
      BY <3>1, <3>2 DEF F!TypeOK, ForwarderInv, ForwarderTypes
  <2>2. F!OneAnswerPerInterest
    <3> SUFFICES ASSUME NEW f \in Faces PROVE answers[f] <= asked[f]
      BY DEF F!OneAnswerPerInterest
    <3>1. asked[f] \in Nat /\ answers[f] \in Nat /\ WaitingFor(f) \in SUBSET Names
      BY DEF ForwarderInv, ForwarderTypes, WaitingFor
    <3>2. Cardinality(WaitingFor(f)) \in Nat
      BY <3>1, Sizes, ForwarderConstants
    <3>3. IF config.mode = "plain" THEN answers[f] + Cardinality(WaitingFor(f)) <= asked[f]
          ELSE answers[f] = 0
      BY DEF ForwarderInv, AnswersOwed
    <3> QED
      BY <3>1, <3>2, <3>3
  <2>3. F!StreamStaysOpen
    BY DEF ForwarderInv, StreamsKept, F!StreamStaysOpen
  <2> QED
    BY <2>1, <2>2, <2>3
<1>4. ForwarderInv /\ [F!Next]_(F!forwarderVars) =>
        [F!NoLoop]_lastSent
  BY ForwarderNextNotLooped DEF NotLooped, F!NoLoop
<1> QED
  BY <1>1, <1>2, <1>3, <1>4, PTL DEF F!LoopsStopped
-------------------------------------------------------------------------------
(* NdnFace, for any programs of calls.                                         *)

\* What may be posted: the calls, and what the face posts itself.
FaceOp == [op : N!Calls \cup {"pause", "unregisterCommand"}, id : Nat,
           name : NamesOfApp \cup {N!Command}, flag : BOOLEAN]
FaceCommand == FaceOp \cup {N!None}

\* Calls that make something new, known by their own id.
MakesNew(o) == o.op \in {"express", "register"}
NewOps(s) == {s[a] : a \in {b \in DOMAIN s : MakesNew(s[b])}}

IdsUpTo(s, k) == \A a \in 1..Len(s) : s[a].id <= k
NewOnce(s) ==
  \A a, b \in 1..Len(s) : MakesNew(s[a]) /\ MakesNew(s[b]) /\ s[a].id = s[b].id => a = b

QueueOfCalls ==
  /\ program \in Programs /\ calls \in 0..Len(program)
  /\ posted \in Seq(FaceOp)
  /\ IdsUpTo(posted, calls) /\ NewOnce(posted)

PendingFields(o, x, c, k, t) == [origin |-> o, name |-> x, command |-> c, notNacked |-> k, expiry |-> t]
IsPending(e, time) ==
  /\ e = PendingFields(e.origin, e.name, e.command, e.notNacked, e.expiry)
  /\ e.origin \in {"app", "forwarder"} /\ e.command \in FaceCommand /\ e.notNacked \in Int
  /\ e.expiry \in time..time + Lifetime

\* What became of the Interests: those pending or dropped have no outcome, all others one,
\* and the Nacks still awaited are counted.
LedgerKept ==
  /\ DOMAIN given = DOMAIN outcomes /\ DOMAIN nacks = DOMAIN outcomes
  /\ DOMAIN pending \subseteq DOMAIN outcomes /\ dropped \subseteq DOMAIN outcomes \ DOMAIN pending
  /\ \A i \in DOMAIN pending : IsPending(pending[i], anow) /\ pending[i].notNacked + nacks[i] = given[i]
  /\ \A i \in DOMAIN outcomes :
       /\ given[i] \in Nat /\ nacks[i] \in Nat
       /\ i \in DOMAIN pending \cup dropped => outcomes[i] = <<>>
       /\ i \notin DOMAIN pending \cup dropped =>
            \/ outcomes[i] \in {<<"data">>, <<"timeout">>}
            \/ outcomes[i] = <<"nack">> /\ nacks[i] >= given[i]

\* Ids are used once: those of calls yet to run are not in the ledger.
IdsFresh ==
  /\ nextId \in Nat /\ nextId > Len(program)
  /\ DOMAIN outcomes \subseteq (1..calls) \cup ((Len(program) + 1)..(nextId - 1))
  /\ \A o \in NewOps(posted) : o.id \in 1..calls /\ (o.op = "express" => o.id \notin DOMAIN outcomes)

\* The commands under way that register.
Registering == {i \in DOMAIN pending : pending[i].command.op = "register"}
CallsToRegister == {o \in NewOps(posted) : o.op = "register"}

\* A registration is made once, and has its filter until an unregistration begins.
RegistrationsKept ==
  /\ IsFiniteSet(filters) /\ \A f \in filters : f.id \in Nat /\ f.id < nextId
  /\ DOMAIN prefixes \subseteq 1..calls /\ leaving \subseteq 1..calls
  /\ \A r \in DOMAIN prefixes : prefixes[r] = 0 \/ prefixes[r] \in (Len(program) + 1)..(nextId - 1)
  /\ \A r, t \in DOMAIN prefixes : prefixes[r] = prefixes[t] /\ prefixes[r] # 0 => r = t
  /\ \A r \in DOMAIN prefixes :
       prefixes[r] # 0 => ((\E f \in filters : f.id = prefixes[r]) <=> r \notin leaving)
  /\ \A o \in CallsToRegister :
       /\ o.id \notin DOMAIN prefixes \cup leaving
       /\ \A i \in Registering : pending[i].command.id # o.id
  /\ \A i \in Registering :
       /\ pending[i].command.id \in 1..calls
       /\ pending[i].command.id \notin DOMAIN prefixes \cup leaving
       /\ \A j \in Registering : pending[i].command.id = pending[j].command.id => i = j

\* What the transport has to be there for.
Reachable ==
  /\ anow \in Nat /\ connected \in BOOLEAN /\ receiving \in BOOLEAN
  /\ ~ closed => (DOMAIN prefixes # {} \/ (\E i \in DOMAIN pending : pending[i].origin = "app") =>
                    connected /\ receiving)

FaceInv == QueueOfCalls /\ LedgerKept /\ IdsFresh /\ RegistrationsKept /\ Reachable

\* What is assumed of the programs.
LEMMA FaceConstants ==
  ASSUME N!NdnFaceAssumption
  PROVE  /\ Lifetime \in Nat
         /\ \A p \in Programs : p \in Seq(FaceOp) /\ Len(p) \in Nat
         /\ \A p \in Programs : \A i \in 1..Len(p) :
              /\ p[i] \in FaceOp /\ p[i].id <= i
              /\ MakesNew(p[i]) => p[i].id = i
              /\ p[i].op # "pause" /\ p[i].op # "unregisterCommand"
<1> DEFINE CallOp == [op : N!Calls, id : Nat, name : NamesOfApp, flag : BOOLEAN]
<1>1. Lifetime \in Nat /\ Programs \subseteq Seq(CallOp)
  BY DEF N!NdnFaceAssumption
<1>2. CallOp \subseteq FaceOp
  BY DEF FaceOp
<1> HIDE DEF CallOp
<1>3. \A p \in Programs : p \in Seq(CallOp)
  BY <1>1
<1> USE DEF CallOp
<1>4. ASSUME NEW p \in Programs PROVE p \in Seq(FaceOp) /\ Len(p) \in Nat
  <2>1. p \in Seq(CallOp)
    BY <1>3
  <2> HIDE DEF CallOp
  <2>2. \A i \in 1..Len(p) : p[i] \in CallOp
    BY <2>1
  <2>3. p = [i \in 1..Len(p) |-> p[i]] /\ Len(p) \in Nat
    BY <2>1
  <2> QED
    BY <1>2, <2>2, <2>3, IsASeq
<1>5. ASSUME NEW p \in Programs, NEW i \in 1..Len(p)
      PROVE  /\ p[i] \in FaceOp /\ p[i].id <= i
             /\ MakesNew(p[i]) => p[i].id = i
             /\ p[i].op # "pause" /\ p[i].op # "unregisterCommand"
  <2>1. p \in Seq(CallOp) /\ i \in DOMAIN p
    <3>1. p \in Seq(CallOp)
      BY <1>3
    <3> HIDE DEF CallOp
    <3> QED
      BY <3>1
  <2>2. p[i] \in CallOp
    <3> HIDE DEF CallOp
    <3> QED
      BY <2>1
  <2>3. IF p[i].op \in {"express", "setFilter", "register"} THEN p[i].id = i ELSE p[i].id \in 0..i
    BY <2>1 DEF N!NdnFaceAssumption
  <2>4. i \in Nat
    BY <1>4
  <2> QED
    BY <1>2, <2>2, <2>3, <2>4 DEF MakesNew, N!Calls
<1> QED
  BY <1>1, <1>4, <1>5

\* Two queues, one behind the other.
LEMMA OpsJoined ==
  ASSUME NEW s \in Seq(FaceOp), NEW t \in Seq(FaceOp), NEW r, r = s \o t
  PROVE  /\ r \in Seq(FaceOp)
         /\ NewOps(r) = NewOps(s) \cup NewOps(t)
         /\ \A k : IdsUpTo(s, k) /\ IdsUpTo(t, k) => IdsUpTo(r, k)
         /\ NewOnce(s) /\ NewOnce(t) /\ (\A o \in NewOps(s), p \in NewOps(t) : o.id # p.id)
              => NewOnce(r)
<1>1. /\ r \in Seq(FaceOp) /\ Len(r) = Len(s) + Len(t) /\ Len(s) \in Nat /\ Len(t) \in Nat
      /\ \A a \in 1..Len(s) : a \in 1..Len(r) /\ r[a] = s[a]
      /\ \A a \in 1..Len(t) : Len(s) + a \in 1..Len(r) /\ r[Len(s) + a] = t[a]
  OBVIOUS
<1>2. \A a \in 1..Len(r) : a \in 1..Len(s) \/ (a - Len(s) \in 1..Len(t) /\ r[a] = t[a - Len(s)])
  BY <1>1
<1>3. DOMAIN r = 1..Len(r) /\ DOMAIN s = 1..Len(s) /\ DOMAIN t = 1..Len(t)
  BY <1>1
<1>4. NewOps(r) = NewOps(s) \cup NewOps(t)
  <2>1. NewOps(r) \subseteq NewOps(s) \cup NewOps(t)
    <3> SUFFICES ASSUME NEW a \in 1..Len(r), MakesNew(r[a]) PROVE r[a] \in NewOps(s) \cup NewOps(t)
      BY <1>3 DEF NewOps
    <3>1. CASE a \in 1..Len(s)
      BY <1>1, <1>3, <3>1 DEF NewOps
    <3>2. CASE a - Len(s) \in 1..Len(t) /\ r[a] = t[a - Len(s)]
      BY <1>3, <3>2 DEF NewOps
    <3> QED
      BY <1>2, <3>1, <3>2
  <2>2. NewOps(s) \subseteq NewOps(r) /\ NewOps(t) \subseteq NewOps(r)
    BY <1>1, <1>3 DEF NewOps
  <2> QED
    BY <2>1, <2>2
<1>5. \A k : IdsUpTo(s, k) /\ IdsUpTo(t, k) => IdsUpTo(r, k)
  BY <1>1, <1>2 DEF IdsUpTo
<1>6. ASSUME NewOnce(s), NewOnce(t), \A o \in NewOps(s), p \in NewOps(t) : o.id # p.id,
             NEW a \in 1..Len(r), NEW b \in 1..Len(r), MakesNew(r[a]), MakesNew(r[b]),
             r[a].id = r[b].id
      PROVE  a = b
  <2>1. CASE a \in 1..Len(s) /\ b \in 1..Len(s)
    BY <1>1, <1>6, <2>1 DEF NewOnce
  <2>2. CASE a \in 1..Len(s) /\ b - Len(s) \in 1..Len(t) /\ r[b] = t[b - Len(s)]
    <3>1. r[a] \in NewOps(s) /\ r[b] \in NewOps(t)
      BY <1>1, <1>3, <1>6, <2>2 DEF NewOps
    <3> QED
      BY <1>6, <3>1
  <2>3. CASE b \in 1..Len(s) /\ a - Len(s) \in 1..Len(t) /\ r[a] = t[a - Len(s)]
    <3>1. r[b] \in NewOps(s) /\ r[a] \in NewOps(t)
      BY <1>1, <1>3, <1>6, <2>3 DEF NewOps
    <3> QED
      BY <1>6, <3>1
  <2>4. CASE /\ a - Len(s) \in 1..Len(t) /\ r[a] = t[a - Len(s)]
             /\ b - Len(s) \in 1..Len(t) /\ r[b] = t[b - Len(s)]
    <3>1. a - Len(s) = b - Len(s)
      BY <1>6, <2>4 DEF NewOnce
    <3> QED
      BY <1>1, <3>1
  <2> QED
    BY <1>2, <2>1, <2>2, <2>3, <2>4
<1>7. NewOnce(s) /\ NewOnce(t) /\ (\A o \in NewOps(s), p \in NewOps(t) : o.id # p.id) => NewOnce(r)
  BY <1>6 DEF NewOnce
<1> QED
  BY <1>1, <1>4, <1>5, <1>7

\* A queue whose first call has run.
LEMMA OpsTail ==
  ASSUME NEW s \in Seq(FaceOp), s # <<>>, NewOnce(s)
  PROVE  /\ Tail(s) \in Seq(FaceOp) /\ Head(s) \in FaceOp /\ NewOnce(Tail(s))
         /\ \A k : IdsUpTo(s, k) => IdsUpTo(Tail(s), k) /\ Head(s).id <= k
         /\ NewOps(Tail(s)) = NewOps(s) \ {Head(s)}
         /\ MakesNew(Head(s)) => Head(s) \in NewOps(s)
         /\ MakesNew(Head(s)) => \A o \in NewOps(Tail(s)) : o.id # Head(s).id
<1> DEFINE t == Tail(s) h == Head(s)
<1>1. /\ t \in Seq(FaceOp) /\ h \in FaceOp /\ h = s[1] /\ Len(s) \in Nat /\ Len(s) >= 1
      /\ Len(t) = Len(s) - 1
      /\ \A a \in 1..Len(t) : t[a] = s[a + 1] /\ a + 1 \in 1..Len(s)
  OBVIOUS
<1> HIDE DEF t, h
<1>2. \A a \in 1..Len(s) : a = 1 \/ (a - 1 \in 1..Len(t) /\ s[a] = t[a - 1])
  <2> TAKE a \in 1..Len(s)
  <2>1. a # 1 => a - 1 \in 1..Len(t) /\ (a - 1) + 1 = a
    BY <1>1
  <2> QED
    BY <1>1, <2>1
<1>3. DOMAIN s = 1..Len(s) /\ DOMAIN t = 1..Len(t) /\ 1 \in 1..Len(s)
  BY <1>1
<1>4. NewOnce(t)
  <2> SUFFICES ASSUME NEW a \in 1..Len(t), NEW b \in 1..Len(t), MakesNew(t[a]), MakesNew(t[b]),
                      t[a].id = t[b].id
               PROVE  a = b
    BY DEF NewOnce
  <2>1. a + 1 = b + 1
    BY <1>1 DEF NewOnce
  <2> QED
    BY <1>1, <2>1
<1>5. MakesNew(h) => h \in NewOps(s)
  BY <1>1, <1>3 DEF NewOps
<1>6. ASSUME MakesNew(h), NEW a \in 1..Len(t), MakesNew(t[a]) PROVE t[a].id # h.id
  <2> SUFFICES ASSUME t[a].id = h.id PROVE FALSE
    OBVIOUS
  <2>1. a + 1 = 1
    BY <1>1, <1>3, <1>6 DEF NewOnce
  <2> QED
    BY <1>1, <2>1
<1>7. NewOps(t) = NewOps(s) \ {h}
  <2>1. ASSUME NEW a \in 1..Len(t), MakesNew(t[a]) PROVE t[a] \in NewOps(s) \ {h}
    <3>1. t[a] \in NewOps(s)
      BY <1>1, <1>3, <2>1 DEF NewOps
    <3> QED
      BY <1>6, <2>1, <3>1
  <2>2. ASSUME NEW a \in 1..Len(s), MakesNew(s[a]), s[a] # h PROVE s[a] \in NewOps(t)
    BY <1>1, <1>2, <1>3, <2>2 DEF NewOps
  <2> QED
    BY <1>3, <2>1, <2>2 DEF NewOps
<1>8. MakesNew(h) => \A o \in NewOps(t) : o.id # h.id
  BY <1>3, <1>6 DEF NewOps
<1>9. \A k : IdsUpTo(s, k) => IdsUpTo(t, k) /\ h.id <= k
  BY <1>1, <1>3 DEF IdsUpTo
<1> QED
  BY <1>1, <1>4, <1>5, <1>7, <1>8, <1>9 DEF t, h

\* What the face posts itself makes nothing new.
Quiet(s) == s \in Seq(FaceOp) /\ NewOps(s) = {} /\ IdsUpTo(s, calls)

LEMMA QuietOnce ==
  ASSUME NEW s \in Seq(FaceOp), NewOps(s) = {}
  PROVE  NewOnce(s)
<1>1. DOMAIN s = 1..Len(s)
  OBVIOUS
<1> QED
  BY <1>1 DEF NewOnce, NewOps

LEMMA QuietOne ==
  ASSUME NEW o \in FaceOp, ~ MakesNew(o), o.id <= calls
  PROVE  Quiet(<<o>>)
<1> DEFINE s == <<o>>
<1>1. s \in Seq(FaceOp) /\ Len(s) = 1 /\ s[1] = o /\ DOMAIN s = 1..1
  OBVIOUS
<1> HIDE DEF s
<1>2. NewOps(s) = {} /\ IdsUpTo(s, calls)
  BY <1>1 DEF NewOps, IdsUpTo
<1> QED
  BY <1>1, <1>2 DEF Quiet, s

LEMMA OpsAssociate ==
  ASSUME NEW s \in Seq(FaceOp), NEW t \in Seq(FaceOp), NEW r \in Seq(FaceOp)
  PROVE  (s \o t) \o r = s \o (t \o r)
OBVIOUS

LEMMA QuietNone == Quiet(<<>>)
BY DEF Quiet, NewOps, IdsUpTo

LEMMA QuietJoined ==
  ASSUME NEW s, NEW t, Quiet(s), Quiet(t), NEW r, r = s \o t
  PROVE  Quiet(r)
<1>1. /\ s \in Seq(FaceOp) /\ NewOps(s) = {} /\ IdsUpTo(s, calls)
      /\ t \in Seq(FaceOp) /\ NewOps(t) = {} /\ IdsUpTo(t, calls)
  BY DEF Quiet
<1>2. /\ r \in Seq(FaceOp) /\ NewOps(r) = NewOps(s) \cup NewOps(t)
      /\ IdsUpTo(s, calls) /\ IdsUpTo(t, calls) => IdsUpTo(r, calls)
  BY <1>1, OpsJoined
<1> QED
  BY <1>1, <1>2 DEF Quiet

LEMMA QuietEmpty ==
  ASSUME calls \in Nat, NEW a, NEW b
  PROVE  Quiet(N!OnEmpty(a, b))
<1> DEFINE o == N!Op("pause", 0, N!Command, FALSE)
<1>1. o \in FaceOp /\ ~ MakesNew(o) /\ o.id = 0
  BY DEF N!Op, FaceOp, MakesNew
<1> HIDE DEF o
<1>2. Quiet(<<o>>)
  BY <1>1, QuietOne
<1> QED
  BY <1>2, QuietNone DEF N!OnEmpty, o

\* The first call has run and posted no call.
LEMMA QueueRuns ==
  ASSUME QueueOfCalls, posted # <<>>, NEW s, Quiet(s), posted' = Tail(posted) \o s,
         UNCHANGED <<program, calls>>
  PROVE  /\ QueueOfCalls' /\ NewOps(posted)' = NewOps(posted) \ {Head(posted)}
         /\ Head(posted) \in FaceOp /\ Head(posted).id <= calls
         /\ MakesNew(Head(posted)) => Head(posted) \in NewOps(posted)
         /\ MakesNew(Head(posted)) => \A o \in NewOps(posted)' : o.id # Head(posted).id
<1>1. posted \in Seq(FaceOp) /\ IdsUpTo(posted, calls) /\ NewOnce(posted)
  BY DEF QueueOfCalls
<1> DEFINE t == Tail(posted) h == Head(posted)
<1>2. /\ t \in Seq(FaceOp) /\ h \in FaceOp /\ NewOnce(t) /\ IdsUpTo(t, calls) /\ h.id <= calls
      /\ NewOps(t) = NewOps(posted) \ {h} /\ (MakesNew(h) => h \in NewOps(posted))
      /\ MakesNew(h) => \A o \in NewOps(t) : o.id # h.id
  BY <1>1, OpsTail
<1> HIDE DEF t, h
<1>3. s \in Seq(FaceOp) /\ NewOps(s) = {} /\ IdsUpTo(s, calls) /\ NewOnce(s)
  BY QuietOnce DEF Quiet
<1>4. posted' = t \o s
  BY DEF t
<1> DEFINE r == posted'
<1>5. r = t \o s
  BY <1>4
<1> HIDE DEF r
<1>6. r \in Seq(FaceOp) /\ NewOps(r) = NewOps(t) \cup NewOps(s) /\ IdsUpTo(r, calls) /\ NewOnce(r)
  BY <1>2, <1>3, <1>5, OpsJoined
<1>7. QueueOfCalls'
  BY <1>6 DEF QueueOfCalls, r, IdsUpTo, NewOnce, MakesNew
<1>8. NewOps(posted)' = NewOps(r)
  BY DEF NewOps, MakesNew, r
<1> QED
  BY <1>2, <1>3, <1>6, <1>7, <1>8 DEF h

\* More is posted, but no call.
LEMMA QueueGrows ==
  ASSUME QueueOfCalls, NEW s, Quiet(s), posted' = posted \o s, UNCHANGED <<program, calls>>
  PROVE  QueueOfCalls' /\ NewOps(posted)' = NewOps(posted)
<1>1. posted \in Seq(FaceOp) /\ IdsUpTo(posted, calls) /\ NewOnce(posted)
  BY DEF QueueOfCalls
<1>3. s \in Seq(FaceOp) /\ NewOps(s) = {} /\ IdsUpTo(s, calls) /\ NewOnce(s)
  BY QuietOnce DEF Quiet
<1> DEFINE r == posted'
<1>5. r = posted \o s
  OBVIOUS
<1> HIDE DEF r
<1>6. r \in Seq(FaceOp) /\ NewOps(r) = NewOps(posted) \cup NewOps(s) /\ IdsUpTo(r, calls) /\ NewOnce(r)
  BY <1>1, <1>3, <1>5, OpsJoined
<1>7. QueueOfCalls'
  BY <1>6 DEF QueueOfCalls, r, IdsUpTo, NewOnce, MakesNew
<1>8. NewOps(posted)' = NewOps(r)
  BY DEF NewOps, MakesNew, r
<1> QED
  BY <1>3, <1>6, <1>7, <1>8

\* The application makes its next call.
LEMMA QueueCalled ==
  ASSUME N!NdnFaceAssumption, QueueOfCalls, calls < Len(program),
         posted' = Append(posted, program[calls + 1]), calls' = calls + 1, program' = program
  PROVE  /\ QueueOfCalls'
         /\ \A o \in NewOps(posted)' : o \in NewOps(posted) \/ o.id = calls + 1
         /\ \A o \in NewOps(posted) : o.id <= calls
<1>1. /\ posted \in Seq(FaceOp) /\ IdsUpTo(posted, calls) /\ NewOnce(posted)
      /\ program \in Programs /\ calls \in Nat /\ Len(program) \in Nat
  BY FaceConstants DEF QueueOfCalls
<1> DEFINE c == program[calls + 1] s == <<c>>
<1>2. c \in FaceOp /\ c.id <= calls + 1 /\ (MakesNew(c) => c.id = calls + 1) /\ c.id \in Nat
  <2>1. calls + 1 \in 1..Len(program)
    BY <1>1
  <2>2. c \in FaceOp /\ c.id <= calls + 1 /\ (MakesNew(c) => c.id = calls + 1)
    BY <1>1, <2>1, FaceConstants
  <2> QED
    BY <2>2 DEF FaceOp
<1> HIDE DEF c
<1>3. s \in Seq(FaceOp) /\ Len(s) = 1 /\ s[1] = c /\ DOMAIN s = 1..1
  BY <1>2
<1> DEFINE r == posted'
<1>4. r = posted \o s
  BY <1>1, <1>2 DEF c
<1> HIDE DEF s, r
<1>5. NewOps(s) \subseteq {c} /\ IdsUpTo(s, calls + 1) /\ NewOnce(s)
      /\ \A o \in NewOps(s) : o.id = calls + 1
  BY <1>2, <1>3 DEF NewOps, IdsUpTo, NewOnce
<1>6. /\ \A a \in 1..Len(posted) : posted[a] \in FaceOp /\ posted[a].id <= calls
      /\ DOMAIN posted = 1..Len(posted)
  BY <1>1 DEF IdsUpTo
<1>7. \A a \in 1..Len(posted) : posted[a].id \in Nat
  BY <1>6 DEF FaceOp
<1>8. IdsUpTo(posted, calls + 1) /\ \A o \in NewOps(posted) : o.id <= calls /\ o.id \in Nat
  BY <1>1, <1>6, <1>7 DEF IdsUpTo, NewOps
<1>9. \A o \in NewOps(posted), p \in NewOps(s) : o.id # p.id
  BY <1>1, <1>5, <1>8
<1>10. /\ r \in Seq(FaceOp) /\ NewOps(r) = NewOps(posted) \cup NewOps(s) /\ IdsUpTo(r, calls + 1)
       /\ NewOnce(r)
  BY <1>1, <1>3, <1>4, <1>5, <1>8, <1>9, OpsJoined
<1>11. QueueOfCalls'
  BY <1>1, <1>10 DEF QueueOfCalls, r, IdsUpTo, NewOnce, MakesNew
<1>12. NewOps(posted)' = NewOps(r)
  BY DEF NewOps, MakesNew, r
<1> QED
  BY <1>5, <1>8, <1>10, <1>11, <1>12

\* Entries taken from the table.
LEMMA TakenFrom ==
  ASSUME NEW U, NEW S, pending' = N!Without(U, S)
  PROVE  DOMAIN pending' = DOMAIN U \ S /\ \A i \in DOMAIN pending' : pending'[i] = U[i]
BY DEF N!Without, N!Restrict

\* How many handlers an Interest is given to.
LEMMA HandlersCounted ==
  ASSUME IsFiniteSet(filters), NEW origin, NEW x
  PROVE  N!NotNacked(origin, x) \in Nat
<1> DEFINE S == N!Handlers(origin, x)
<1>1. S \subseteq filters
  BY DEF N!Handlers
<1> HIDE DEF S
<1>2. Cardinality(S) \in Nat
  BY <1>1, FS_Subset, FS_CardinalityType
<1>3. N!Cardinality(S) = Cardinality(S)
  BY DEF N!Cardinality, Cardinality
<1> QED
  BY <1>2, <1>3 DEF N!NotNacked, S

\* An Interest with an id not used yet is put in the table.
LEMMA LedgerPend ==
  ASSUME N!NdnFaceAssumption, LedgerKept, IsFiniteSet(filters), anow \in Nat,
         NEW i, i \notin DOMAIN outcomes, NEW origin \in {"app", "forwarder"}, NEW x,
         NEW c \in FaceCommand, N!Pend(i, origin, x, c), anow' = anow
  PROVE  /\ LedgerKept'
         /\ DOMAIN outcomes' = DOMAIN outcomes \cup {i}
         /\ DOMAIN pending' = DOMAIN pending \cup {i} /\ i \notin DOMAIN pending
         /\ \A j \in DOMAIN pending : pending'[j] = pending[j]
         /\ pending'[i].command = c /\ pending'[i].origin = origin
<1> DEFINE k == N!NotNacked(origin, x)
           e == PendingFields(origin, x, c, k, anow + Lifetime)
<1>1. k \in Nat /\ Lifetime \in Nat
  BY HandlersCounted, FaceConstants
<1>2. /\ DOMAIN pending' = DOMAIN pending \cup {i} /\ pending'[i] = e
      /\ \A j \in DOMAIN pending : j # i => pending'[j] = pending[j]
      /\ DOMAIN given' = DOMAIN given \cup {i} /\ given'[i] = k
      /\ \A j \in DOMAIN given : j # i => given'[j] = given[j]
      /\ DOMAIN nacks' = DOMAIN nacks \cup {i} /\ nacks'[i] = 0
      /\ \A j \in DOMAIN nacks : j # i => nacks'[j] = nacks[j]
      /\ DOMAIN outcomes' = DOMAIN outcomes \cup {i} /\ outcomes'[i] = <<>>
      /\ \A j \in DOMAIN outcomes : j # i => outcomes'[j] = outcomes[j]
      /\ dropped' = dropped
  BY DEF N!Pend, N!Put, N!NotNacked, PendingFields
<1> HIDE DEF k
<1>3. e.command = c /\ e.origin = origin /\ e.notNacked = k /\ IsPending(e, anow)
  BY <1>1 DEF PendingFields, IsPending
<1> HIDE DEF e
<1>4. /\ DOMAIN given = DOMAIN outcomes /\ DOMAIN nacks = DOMAIN outcomes
      /\ DOMAIN pending \subseteq DOMAIN outcomes /\ dropped \subseteq DOMAIN outcomes \ DOMAIN pending
      /\ \A j \in DOMAIN pending : IsPending(pending[j], anow) /\ pending[j].notNacked + nacks[j] = given[j]
  BY DEF LedgerKept
<1>6. \A j \in DOMAIN pending' : IsPending(pending'[j], anow') /\ pending'[j].notNacked + nacks'[j] = given'[j]
  <2> TAKE j \in DOMAIN pending'
  <2>1. CASE j = i
    BY <1>1, <1>2, <1>3, <2>1
  <2>2. CASE j # i
    BY <1>2, <1>4, <2>2
  <2> QED
    BY <2>1, <2>2
<1>7. \A j \in DOMAIN outcomes' :
       /\ given'[j] \in Nat /\ nacks'[j] \in Nat
       /\ j \in DOMAIN pending' \cup dropped' => outcomes'[j] = <<>>
       /\ j \notin DOMAIN pending' \cup dropped' =>
            \/ outcomes'[j] \in {<<"data">>, <<"timeout">>}
            \/ outcomes'[j] = <<"nack">> /\ nacks'[j] >= given'[j]
  <2> TAKE j \in DOMAIN outcomes'
  <2>1. CASE j = i
    BY <1>1, <1>2, <2>1
  <2>2. CASE j # i
    <3>1. /\ j \in DOMAIN outcomes /\ outcomes'[j] = outcomes[j] /\ given'[j] = given[j]
          /\ nacks'[j] = nacks[j] /\ (j \in DOMAIN pending' <=> j \in DOMAIN pending)
          /\ dropped' = dropped
      BY <1>2, <1>4, <2>2
    <3> QED
      BY <3>1 DEF LedgerKept
  <2> QED
    BY <2>1, <2>2
<1>8. LedgerKept'
  BY <1>2, <1>4, <1>6, <1>7 DEF LedgerKept
<1> QED
  BY <1>2, <1>3, <1>4, <1>8

\* Interests that are dropped get no outcome.
LEMMA LedgerDrop ==
  ASSUME LedgerKept, NEW S, DOMAIN pending' = DOMAIN pending \ S,
         \A i \in DOMAIN pending' : pending'[i] = pending[i],
         dropped' = dropped \cup (S \cap DOMAIN pending),
         UNCHANGED <<outcomes, given, nacks, anow>>
  PROVE  LedgerKept'
<1>3. DOMAIN pending' \cup dropped' = DOMAIN pending \cup dropped
  OBVIOUS
<1> QED
  BY <1>3 DEF LedgerKept

\* Interests that are settled have one outcome.
LEMMA LedgerSettle ==
  ASSUME LedgerKept, NEW S, S \subseteq DOMAIN pending, pending' = N!Without(pending, S),
         NEW o \in {"data", "timeout"}, N!Settle(S, o), UNCHANGED <<given, nacks, dropped, anow>>
  PROVE  LedgerKept' /\ DOMAIN outcomes' = DOMAIN outcomes
<1>1. DOMAIN pending' = DOMAIN pending \ S /\ \A i \in DOMAIN pending' : pending'[i] = pending[i]
  BY TakenFrom
<1>3. /\ DOMAIN outcomes' = DOMAIN outcomes
      /\ \A i \in DOMAIN outcomes : i \notin S => outcomes'[i] = outcomes[i]
      /\ \A i \in DOMAIN outcomes : i \in S => outcomes'[i] = Append(outcomes[i], o)
  BY DEF N!Settle
<1>4. Append(<<>>, o) \in {<<"data">>, <<"timeout">>}
  OBVIOUS
<1>5. \A i \in DOMAIN outcomes :
       /\ i \in DOMAIN pending' \cup dropped' => outcomes'[i] = <<>>
       /\ i \notin DOMAIN pending' \cup dropped' =>
            \/ outcomes'[i] \in {<<"data">>, <<"timeout">>}
            \/ outcomes'[i] = <<"nack">> /\ nacks'[i] >= given'[i]
  <2> TAKE i \in DOMAIN outcomes
  <2>1. CASE i \in S
    <3>1. outcomes[i] = <<>> /\ i \notin DOMAIN pending' \cup dropped'
      BY <1>1, <2>1 DEF LedgerKept
    <3> QED
      BY <1>3, <1>4, <2>1, <3>1
  <2>2. CASE i \notin S
    <3>1. outcomes'[i] = outcomes[i] /\ (i \in DOMAIN pending' <=> i \in DOMAIN pending)
      BY <1>1, <1>3, <2>2
    <3> QED
      BY <3>1 DEF LedgerKept
  <2> QED
    BY <2>1, <2>2
<1> QED
  BY <1>1, <1>3, <1>5 DEF LedgerKept

\* A Nack is counted, and settles those that have all theirs.
LEMMA LedgerNack ==
  ASSUME LedgerKept, NEW x, pending' = N!Without(N!OneLess(x), N!Nacked(x)),
         N!CountNack(x), N!Settle(N!Nacked(x), "nack"), UNCHANGED <<given, dropped, anow>>
  PROVE  /\ LedgerKept' /\ DOMAIN outcomes' = DOMAIN outcomes
         /\ DOMAIN pending' \subseteq DOMAIN pending
         /\ \A i \in DOMAIN pending' : /\ pending'[i].command = pending[i].command
                                      /\ pending'[i].origin = pending[i].origin
<1> DEFINE M == N!MatchedBy(x) S == N!Nacked(x)
<1>1. /\ M \subseteq DOMAIN pending
      /\ S = {i \in M : pending[i].notNacked <= 1}
  BY DEF N!MatchedBy, N!Nacked
<1>2. /\ DOMAIN pending' = DOMAIN pending \ S
      /\ \A i \in DOMAIN pending' : i \notin M => pending'[i] = pending[i]
      /\ \A i \in DOMAIN pending' : i \in M => pending'[i] = [pending[i] EXCEPT !.notNacked = @ - 1]
  <2> DEFINE U == N!OneLess(x)
  <2>1. /\ DOMAIN U = DOMAIN pending
        /\ \A i \in DOMAIN pending : i \notin M => U[i] = pending[i]
        /\ \A i \in DOMAIN pending : i \in M => U[i] = [pending[i] EXCEPT !.notNacked = @ - 1]
    BY DEF N!OneLess
  <2>2. pending' = N!Without(U, S)
    OBVIOUS
  <2> HIDE DEF U, S, M
  <2>3. DOMAIN pending' = DOMAIN U \ S /\ \A i \in DOMAIN pending' : pending'[i] = U[i]
    BY <2>2, TakenFrom
  <2> QED
    BY <2>1, <2>3
<1>3. /\ DOMAIN nacks' = DOMAIN nacks
      /\ \A i \in DOMAIN nacks : nacks'[i] = nacks[i] + IF i \in M THEN 1 ELSE 0
  BY DEF N!CountNack
<1>4. /\ DOMAIN outcomes' = DOMAIN outcomes
      /\ \A i \in DOMAIN outcomes : i \notin S => outcomes'[i] = outcomes[i]
      /\ \A i \in DOMAIN outcomes : i \in S => outcomes'[i] = Append(outcomes[i], "nack")
  BY DEF N!Settle
<1> HIDE DEF M, S
<1>6. ASSUME NEW i \in M, i \notin S
      PROVE  /\ IsPending(pending'[i], anow) /\ pending'[i].notNacked = pending[i].notNacked - 1
             /\ pending'[i].command = pending[i].command /\ pending'[i].origin = pending[i].origin
  <2> DEFINE e == pending[i]
  <2>1. IsPending(e, anow)
    BY <1>1 DEF LedgerKept
  <2>2. pending'[i] = [e EXCEPT !.notNacked = @ - 1]
    BY <1>1, <1>2, <1>6
  <2> DEFINE t == pending'[i]
  <2> HIDE DEF e
  <2>3. t = PendingFields(e.origin, e.name, e.command, e.notNacked - 1, e.expiry)
    BY <2>1, <2>2 DEF IsPending, PendingFields
  <2> HIDE DEF t
  <2>4. /\ t.origin = e.origin /\ t.name = e.name /\ t.command = e.command
        /\ t.notNacked = e.notNacked - 1 /\ t.expiry = e.expiry
    BY <2>3 DEF PendingFields
  <2>5. IsPending(t, anow)
    BY <2>1, <2>3, <2>4 DEF IsPending
  <2> QED
    BY <2>4, <2>5 DEF t, e
<1>7. /\ DOMAIN given = DOMAIN outcomes /\ DOMAIN nacks = DOMAIN outcomes
      /\ DOMAIN pending \subseteq DOMAIN outcomes /\ dropped \subseteq DOMAIN outcomes \ DOMAIN pending
      /\ \A j \in DOMAIN pending : IsPending(pending[j], anow) /\ pending[j].notNacked + nacks[j] = given[j]
      /\ \A j \in DOMAIN outcomes : given[j] \in Nat /\ nacks[j] \in Nat
      /\ \A j \in DOMAIN pending : pending[j].notNacked \in Int
  BY DEF LedgerKept, IsPending
<1>8. \A i \in DOMAIN pending' : /\ IsPending(pending'[i], anow')
                                /\ pending'[i].notNacked + nacks'[i] = given'[i]
                                /\ pending'[i].command = pending[i].command
                                /\ pending'[i].origin = pending[i].origin
  <2> TAKE i \in DOMAIN pending'
  <2>1. CASE i \in M
    BY <1>2, <1>3, <1>6, <1>7, <2>1
  <2>2. CASE i \notin M
    BY <1>2, <1>3, <1>7, <2>2
  <2> QED
    BY <2>1, <2>2
<1>9. Append(<<>>, "nack") = <<"nack">>
  OBVIOUS
<1>10. \A i \in DOMAIN outcomes :
       /\ nacks'[i] \in Nat
       /\ i \in DOMAIN pending' \cup dropped' => outcomes'[i] = <<>>
       /\ i \notin DOMAIN pending' \cup dropped' =>
            \/ outcomes'[i] \in {<<"data">>, <<"timeout">>}
            \/ outcomes'[i] = <<"nack">> /\ nacks'[i] >= given'[i]
  <2> TAKE i \in DOMAIN outcomes
  <2>1. nacks'[i] \in Nat
    BY <1>3, <1>7
  <2>2. CASE i \in S
    <3>1. i \in M /\ i \in DOMAIN pending /\ pending[i].notNacked <= 1
      BY <1>1, <2>2
    <3>2. outcomes[i] = <<>> /\ i \notin DOMAIN pending' \cup dropped'
      BY <1>2, <2>2, <3>1 DEF LedgerKept
    <3>3. nacks'[i] = nacks[i] + 1
      BY <1>3, <1>7, <3>1
    <3>4. nacks'[i] >= given'[i]
      BY <1>7, <3>1, <3>3
    <3> QED
      BY <1>4, <1>9, <2>1, <2>2, <3>2, <3>4
  <2>3. CASE i \notin S
    <3>1. /\ outcomes'[i] = outcomes[i] /\ (i \in DOMAIN pending' <=> i \in DOMAIN pending)
          /\ (i \notin DOMAIN pending => nacks'[i] = nacks[i])
      BY <1>1, <1>2, <1>3, <1>4, <1>7, <2>3
    <3> QED
      BY <2>1, <3>1 DEF LedgerKept
  <2> QED
    BY <2>2, <2>3
<1>11. DOMAIN pending' \subseteq DOMAIN pending /\ dropped' \subseteq DOMAIN outcomes \ DOMAIN pending'
  BY <1>2, <1>7
<1> QED
  BY <1>3, <1>4, <1>7, <1>8, <1>10, <1>11 DEF LedgerKept

\* The first call has run and posted nothing.
LEMMA QueueRan ==
  ASSUME QueueOfCalls, posted # <<>>, posted' = Tail(posted), UNCHANGED <<program, calls>>
  PROVE  /\ QueueOfCalls' /\ NewOps(posted)' = NewOps(posted) \ {Head(posted)}
         /\ Head(posted) \in FaceOp /\ Head(posted).id <= calls
         /\ MakesNew(Head(posted)) => Head(posted) \in NewOps(posted)
         /\ MakesNew(Head(posted)) => \A o \in NewOps(posted)' : o.id # Head(posted).id
<1>1. Tail(posted) \in Seq(FaceOp)
  BY OpsTail DEF QueueOfCalls
<1>2. Tail(posted) \o <<>> = Tail(posted)
  BY <1>1
<1>3. posted' = Tail(posted) \o <<>>
  BY <1>2
<1> QED
  BY <1>3, QuietNone, QueueRuns

\* What keeps ids fresh: no call more, and no Interest that was not counted.
LEMMA MoreIds ==
  ASSUME NEW a \in Nat, NEW b \in Nat, NEW c \in Nat, c >= b
  PROVE  \A i : i \in (a + 1)..(b - 1) => i \in (a + 1)..(c - 1)
OBVIOUS

LEMMA IdsStayFresh ==
  ASSUME IdsFresh, Len(program) \in Nat, nextId' \in Nat, nextId' >= nextId, UNCHANGED <<program, calls>>,
         NewOps(posted)' \subseteq NewOps(posted), DOMAIN outcomes' = DOMAIN outcomes
  PROVE  IdsFresh'
<1>1. \A i : i \in (Len(program) + 1)..(nextId - 1) => i \in (Len(program) + 1)..(nextId' - 1)
  BY MoreIds DEF IdsFresh
<1> QED
  BY <1>1 DEF IdsFresh

\* What keeps registrations: none is made or given up, and no command to register is sent.
LEMMA RegistrationsStay ==
  ASSUME RegistrationsKept, Len(program) \in Nat, nextId \in Nat, nextId' \in Nat, nextId' >= nextId,
         UNCHANGED <<program, calls, filters, prefixes, leaving>>,
         NewOps(posted)' \subseteq NewOps(posted),
         \A i \in DOMAIN pending' :
            pending'[i].command.op = "register" =>
              i \in DOMAIN pending /\ pending'[i].command = pending[i].command
  PROVE  RegistrationsKept'
<1>1. /\ Registering' \subseteq Registering
      /\ \A i \in Registering' : pending'[i].command = pending[i].command
  BY DEF Registering
<1>2. CallsToRegister' \subseteq CallsToRegister
  BY DEF CallsToRegister
<1>3. \A i : i \in (Len(program) + 1)..(nextId - 1) => i \in (Len(program) + 1)..(nextId' - 1)
  BY MoreIds
<1>4. \A f \in filters : f.id < nextId'
  BY DEF RegistrationsKept
<1> QED
  BY <1>1, <1>2, <1>3, <1>4 DEF RegistrationsKept

\* What keeps the transport: nothing more needs it.
LEMMA StaysReachable ==
  ASSUME Reachable, UNCHANGED <<anow, connected, receiving, closed, prefixes>>,
         \A i \in DOMAIN pending' : pending'[i].origin = "app" =>
            i \in DOMAIN pending /\ pending[i].origin = "app"
  PROVE  Reachable'
BY DEF Reachable

\* Interests taken from the table.
LEMMA FewerPending ==
  ASSUME NEW S, pending' = N!Without(pending, S)
  PROVE  /\ DOMAIN pending' = DOMAIN pending \ S /\ \A i \in DOMAIN pending' : pending'[i] = pending[i]
         /\ \A i \in DOMAIN pending' :
              pending'[i].command.op = "register" =>
                i \in DOMAIN pending /\ pending'[i].command = pending[i].command
         /\ \A i \in DOMAIN pending' : pending'[i].origin = "app" =>
              i \in DOMAIN pending /\ pending[i].origin = "app"
<1>1. DOMAIN pending' = DOMAIN pending \ S /\ \A i \in DOMAIN pending' : pending'[i] = pending[i]
  BY TakenFrom
<1> QED
  BY <1>1

LEMMA CallInv ==
  ASSUME N!NdnFaceAssumption, FaceInv, N!Call
  PROVE  FaceInv'
<1>1. /\ calls < Len(program) /\ posted' = Append(posted, program[calls + 1]) /\ calls' = calls + 1
      /\ UNCHANGED <<program, pending, filters, prefixes, connected, receiving, anow, nextId, nPackets,
                     outcomes, given, nacks, dropped, leaving, closed>>
  BY DEF N!Call, N!ledger
<1>2. /\ QueueOfCalls' /\ \A o \in NewOps(posted)' : o \in NewOps(posted) \/ o.id = calls + 1
      /\ \A o \in NewOps(posted) : o.id <= calls
  BY <1>1, QueueCalled DEF FaceInv
<1>3. calls \in Nat /\ Len(program) \in Nat
  BY FaceConstants DEF FaceInv, QueueOfCalls
<1>4. LedgerKept' /\ Reachable'
  BY <1>1 DEF FaceInv, LedgerKept, Reachable
<1>5. IdsFresh'
  <2>1. \A o \in NewOps(posted)' : o.id \in 1..calls' /\ (o.op = "express" => o.id \notin DOMAIN outcomes)
    <3> TAKE o \in NewOps(posted)'
    <3>1. CASE o \in NewOps(posted)
      BY <1>1, <1>3, <3>1 DEF FaceInv, IdsFresh
    <3>2. CASE o.id = calls + 1
      BY <1>1, <1>3, <3>2 DEF FaceInv, IdsFresh
    <3> QED
      BY <1>2, <3>1, <3>2
  <2>2. 1..calls \subseteq 1..calls'
    BY <1>1, <1>3
  <2> QED
    BY <1>1, <2>1, <2>2 DEF FaceInv, IdsFresh
<1>6. RegistrationsKept'
  <2>1. 1..calls \subseteq 1..calls' /\ calls + 1 \notin 1..calls
    BY <1>1, <1>3
  <2>2. Registering' = Registering /\ \A i \in Registering : pending'[i] = pending[i]
    BY <1>1 DEF Registering
  <2>3. \A o \in CallsToRegister' : o \in CallsToRegister \/ o.id = calls + 1
    BY <1>2 DEF CallsToRegister
  <2>4. \A o \in CallsToRegister' :
          /\ o.id \notin DOMAIN prefixes \cup leaving
          /\ \A i \in Registering : pending[i].command.id # o.id
    <3> TAKE o \in CallsToRegister'
    <3>1. CASE o \in CallsToRegister
      BY <3>1 DEF FaceInv, RegistrationsKept
    <3>2. CASE o.id = calls + 1
      <4>1. DOMAIN prefixes \cup leaving \subseteq 1..calls
        BY DEF FaceInv, RegistrationsKept
      <4>2. \A i \in Registering : pending[i].command.id \in 1..calls
        BY DEF FaceInv, RegistrationsKept
      <4> QED
        BY <2>1, <3>2, <4>1, <4>2
    <3> QED
      BY <2>3, <3>1, <3>2
  <2> QED
    BY <1>1, <2>1, <2>2, <2>4 DEF FaceInv, RegistrationsKept
<1> QED
  BY <1>2, <1>4, <1>5, <1>6 DEF FaceInv

LEMMA ExpressInv ==
  ASSUME N!NdnFaceAssumption, FaceInv, N!Express, UNCHANGED <<program, calls>>
  PROVE  FaceInv'
<1> DEFINE this == Head(posted)
<1>1. /\ posted # <<>> /\ this.op = "express" /\ N!Pend(this.id, "app", this.name, N!None)
      /\ posted' = Tail(posted) /\ connected' = TRUE /\ receiving' = TRUE
      /\ UNCHANGED <<filters, prefixes, anow, nextId, nPackets, leaving, closed>>
  BY DEF N!Express, N!Running, N!This, N!Connected
<1>2. /\ QueueOfCalls' /\ NewOps(posted)' = NewOps(posted) \ {this}
      /\ MakesNew(this) => this \in NewOps(posted)
      /\ MakesNew(this) => \A o \in NewOps(posted)' : o.id # this.id
  BY <1>1, QueueRan DEF FaceInv
<1>3. MakesNew(this)
  BY <1>1 DEF MakesNew
<1> HIDE DEF this
<1>4. this.id \notin DOMAIN outcomes /\ this.id \in 1..calls
  BY <1>1, <1>2, <1>3 DEF FaceInv, IdsFresh
<1>5. /\ LedgerKept' /\ DOMAIN outcomes' = DOMAIN outcomes \cup {this.id}
      /\ DOMAIN pending' = DOMAIN pending \cup {this.id}
      /\ \A j \in DOMAIN pending : pending'[j] = pending[j]
      /\ pending'[this.id].command = N!None
  <2>1. N!None \in FaceCommand /\ IsFiniteSet(filters) /\ anow \in Nat /\ LedgerKept
    BY DEF FaceCommand, FaceInv, RegistrationsKept, Reachable
  <2> HIDE DEF FaceInv
  <2> QED
    BY <1>1, <1>4, <2>1, LedgerPend
<1>6. IdsFresh'
  BY <1>1, <1>2, <1>3, <1>4, <1>5 DEF FaceInv, IdsFresh
<1>7. RegistrationsKept'
  <2>1. \A i \in DOMAIN pending' :
            pending'[i].command.op = "register" =>
              i \in DOMAIN pending /\ pending'[i].command = pending[i].command
    BY <1>5 DEF N!None
  <2>2. nextId \in Nat /\ Len(program) \in Nat
    BY FaceConstants DEF FaceInv, IdsFresh, QueueOfCalls
  <2> QED
    BY <1>1, <1>2, <2>1, <2>2, RegistrationsStay DEF FaceInv
<1>8. Reachable'
  BY <1>1 DEF FaceInv, Reachable
<1> QED
  BY <1>2, <1>5, <1>6, <1>7, <1>8 DEF FaceInv

LEMMA RemovePendingInv ==
  ASSUME N!NdnFaceAssumption, FaceInv, N!RemovePendingInterests, UNCHANGED <<program, calls>>
  PROVE  FaceInv'
<1> DEFINE gone == IF N!This.op = "cancel" THEN {N!This.id} ELSE DOMAIN pending
           quiet == N!OnEmpty(pending, pending')
<1>1. /\ posted # <<>> /\ pending' = N!Without(pending, gone) /\ posted' = Tail(posted) \o quiet
      /\ dropped' = dropped \cup (gone \cap DOMAIN pending)
      /\ UNCHANGED <<filters, prefixes, connected, receiving, anow, nextId, nPackets, outcomes, given,
                 nacks, leaving, closed>>
  BY DEF N!RemovePendingInterests, N!Running
<1> HIDE DEF gone
<1>2. /\ DOMAIN pending' = DOMAIN pending \ gone /\ \A i \in DOMAIN pending' : pending'[i] = pending[i]
      /\ \A i \in DOMAIN pending' :
            pending'[i].command.op = "register" =>
              i \in DOMAIN pending /\ pending'[i].command = pending[i].command
      /\ \A i \in DOMAIN pending' : pending'[i].origin = "app" =>
            i \in DOMAIN pending /\ pending[i].origin = "app"
  BY <1>1, FewerPending
<1>3. Quiet(quiet) /\ nextId \in Nat /\ Len(program) \in Nat
  BY QuietEmpty, FaceConstants DEF FaceInv, QueueOfCalls, IdsFresh
<1> HIDE DEF quiet
<1>4. QueueOfCalls' /\ NewOps(posted)' \subseteq NewOps(posted)
  BY <1>1, <1>3, QueueRuns DEF FaceInv
<1>5. LedgerKept'
  BY <1>1, <1>2, LedgerDrop DEF FaceInv
<1>6. IdsFresh' /\ RegistrationsKept' /\ Reachable'
  BY <1>1, <1>2, <1>3, <1>4, IdsStayFresh, RegistrationsStay, StaysReachable DEF FaceInv
<1> QED
  BY <1>4, <1>5, <1>6 DEF FaceInv

\* Facts used in each step.
LEMMA FaceFacts ==
  ASSUME N!NdnFaceAssumption, FaceInv
  PROVE  /\ nextId \in Nat /\ Len(program) \in Nat /\ calls \in Nat /\ anow \in Nat
         /\ IsFiniteSet(filters) /\ \A a, b : Quiet(N!OnEmpty(a, b))
         /\ QueueOfCalls /\ LedgerKept /\ IdsFresh /\ RegistrationsKept /\ Reachable
BY QuietEmpty, FaceConstants DEF FaceInv, QueueOfCalls, IdsFresh, RegistrationsKept, Reachable

\* Data or a timeout settle Interests.
LEMMA SettledInv ==
  ASSUME N!NdnFaceAssumption, FaceInv, NEW S, S \subseteq DOMAIN pending,
         pending' = N!Without(pending, S), NEW o \in {"data", "timeout"}, N!Settle(S, o),
         QueueOfCalls', NewOps(posted)' \subseteq NewOps(posted),
         UNCHANGED <<program, calls, filters, prefixes, anow, nextId, given, nacks, dropped, leaving,
                     closed>>,
         UNCHANGED <<connected, receiving>> \/ (connected' = TRUE /\ receiving' = TRUE)
  PROVE  FaceInv'
<1>1. /\ nextId \in Nat /\ Len(program) \in Nat
      /\ LedgerKept /\ IdsFresh /\ RegistrationsKept /\ Reachable
  BY FaceFacts
<1>2. /\ DOMAIN pending' = DOMAIN pending \ S /\ \A i \in DOMAIN pending' : pending'[i] = pending[i]
      /\ \A i \in DOMAIN pending' :
            pending'[i].command.op = "register" =>
              i \in DOMAIN pending /\ pending'[i].command = pending[i].command
      /\ \A i \in DOMAIN pending' : pending'[i].origin = "app" =>
            i \in DOMAIN pending /\ pending[i].origin = "app"
  BY FewerPending
<1>3. LedgerKept' /\ DOMAIN outcomes' = DOMAIN outcomes
  BY <1>1, LedgerSettle
<1>4. IdsFresh'
  BY <1>1, <1>3, IdsStayFresh
<1>5. RegistrationsKept'
  BY <1>1, <1>2, RegistrationsStay
<1>6. Reachable'
  BY <1>1, <1>2 DEF Reachable
<1> QED
  BY <1>3, <1>4, <1>5, <1>6 DEF FaceInv

\* A Nack settles Interests or counts for them.
LEMMA NackedInv ==
  ASSUME N!NdnFaceAssumption, FaceInv, NEW x,
         pending' = N!Without(N!OneLess(x), N!Nacked(x)), N!CountNack(x),
         N!Settle(N!Nacked(x), "nack"),
         QueueOfCalls', NewOps(posted)' \subseteq NewOps(posted),
         UNCHANGED <<program, calls, filters, prefixes, anow, nextId, given, dropped, leaving, closed>>,
         UNCHANGED <<connected, receiving>> \/ (connected' = TRUE /\ receiving' = TRUE)
  PROVE  FaceInv'
<1>1. /\ nextId \in Nat /\ Len(program) \in Nat
      /\ LedgerKept /\ IdsFresh /\ RegistrationsKept /\ Reachable
  BY FaceFacts
<1>2. /\ LedgerKept' /\ DOMAIN outcomes' = DOMAIN outcomes
      /\ DOMAIN pending' \subseteq DOMAIN pending
      /\ \A i \in DOMAIN pending' : /\ pending'[i].command = pending[i].command
                                   /\ pending'[i].origin = pending[i].origin
  BY <1>1, LedgerNack
<1>4. IdsFresh'
  BY <1>1, <1>2, IdsStayFresh
<1>5. RegistrationsKept'
  BY <1>1, <1>2, RegistrationsStay
<1>6. Reachable'
  BY <1>1, <1>2 DEF Reachable
<1> QED
  BY <1>2, <1>4, <1>5, <1>6 DEF FaceInv

LEMMA PutDataInv ==
  ASSUME N!NdnFaceAssumption, FaceInv, N!AsyncPutData, UNCHANGED <<program, calls>>
  PROVE  FaceInv'
<1> DEFINE x == N!This.name
           quiet == N!OnEmpty(pending, pending')
<1>1. /\ posted # <<>> /\ pending' = N!Without(pending, N!MatchedBy(x)) /\ posted' = Tail(posted) \o quiet
      /\ N!Settle(N!MatchedBy(x), "data") /\ N!MatchedBy(x) \subseteq DOMAIN pending
      /\ UNCHANGED <<connected, receiving>> \/ (connected' = TRUE /\ receiving' = TRUE)
      /\ UNCHANGED <<filters, prefixes, anow, nextId, nPackets, given, nacks, dropped, leaving, closed>>
  BY DEF N!AsyncPutData, N!Running, N!Satisfied, N!Connected, N!MatchedBy
<1>2. Quiet(quiet) /\ QueueOfCalls
  BY FaceFacts
<1> HIDE DEF x, quiet
<1>3. QueueOfCalls' /\ NewOps(posted)' \subseteq NewOps(posted)
  BY <1>1, <1>2, QueueRuns
<1> QED
  BY <1>1, <1>3, SettledInv

LEMMA PutNackInv ==
  ASSUME N!NdnFaceAssumption, FaceInv, N!AsyncPutNack, UNCHANGED <<program, calls>>
  PROVE  FaceInv'
<1> DEFINE x == N!This.name
           quiet == N!OnEmpty(pending, pending')
<1>1. /\ posted # <<>> /\ pending' = N!Without(N!OneLess(x), N!Nacked(x)) /\ posted' = Tail(posted) \o quiet
      /\ N!CountNack(x) /\ N!Settle(N!Nacked(x), "nack")
      /\ UNCHANGED <<connected, receiving>> \/ (connected' = TRUE /\ receiving' = TRUE)
      /\ UNCHANGED <<filters, prefixes, anow, nextId, nPackets, given, dropped, leaving, closed>>
  BY DEF N!AsyncPutNack, N!Running, N!Connected
<1>2. Quiet(quiet) /\ QueueOfCalls
  BY FaceFacts
<1> HIDE DEF x, quiet
<1>3. QueueOfCalls' /\ NewOps(posted)' \subseteq NewOps(posted)
  BY <1>1, <1>2, QueueRuns
<1> QED
  BY <1>1, <1>3, NackedInv

LEMMA ReceiveDataInv ==
  ASSUME N!NdnFaceAssumption, FaceInv, N!ReceiveData, UNCHANGED <<program, calls>>
  PROVE  FaceInv'
<1> DEFINE quiet == N!OnEmpty(pending, pending')
<1>1. PICK x \in NamesOfApp : pending' = N!Without(pending, N!MatchedBy(x)) /\ N!Settle(N!MatchedBy(x), "data")
  BY DEF N!ReceiveData, N!Satisfied
<1>2. /\ posted' = posted \o quiet /\ N!MatchedBy(x) \subseteq DOMAIN pending
      /\ UNCHANGED <<filters, prefixes, connected, receiving, anow, nextId, given, nacks, dropped,
                 leaving, closed>>
  BY DEF N!ReceiveData, N!MatchedBy
<1>3. Quiet(quiet) /\ QueueOfCalls
  BY FaceFacts
<1> HIDE DEF quiet
<1>4. QueueOfCalls' /\ NewOps(posted)' \subseteq NewOps(posted)
  BY <1>2, <1>3, QueueGrows
<1> QED
  BY <1>1, <1>2, <1>4, SettledInv

LEMMA ReceiveNackInv ==
  ASSUME N!NdnFaceAssumption, FaceInv, N!ReceiveNack, UNCHANGED <<program, calls>>
  PROVE  FaceInv'
<1> DEFINE quiet == N!OnEmpty(pending, pending')
<1>1. PICK x \in NamesOfApp : /\ pending' = N!Without(N!OneLess(x), N!Nacked(x))
                              /\ N!CountNack(x) /\ N!Settle(N!Nacked(x), "nack")
  BY DEF N!ReceiveNack
<1>2. /\ posted' = posted \o quiet
      /\ UNCHANGED <<filters, prefixes, connected, receiving, anow, nextId, given, dropped,
                 leaving, closed>>
  BY DEF N!ReceiveNack
<1>3. Quiet(quiet) /\ QueueOfCalls
  BY FaceFacts
<1> HIDE DEF quiet
<1>4. QueueOfCalls' /\ NewOps(posted)' \subseteq NewOps(posted)
  BY <1>2, <1>3, QueueGrows
<1> QED
  BY <1>1, <1>2, <1>4, NackedInv

LEMMA FaceTimeoutInv ==
  ASSUME N!NdnFaceAssumption, FaceInv, N!Timeout, UNCHANGED <<program, calls>>
  PROVE  FaceInv'
<1> DEFINE quiet == N!OnEmpty(pending, pending')
<1>1. PICK i \in DOMAIN pending :
        /\ pending' = N!Without(pending, {i}) /\ N!Settle({i}, "timeout")
        /\ posted' = posted \o quiet
        /\ UNCHANGED <<filters, prefixes, connected, receiving, anow, nextId, nPackets, given, nacks,
                     dropped, leaving, closed>>
  BY DEF N!Timeout
<1>3. Quiet(quiet) /\ QueueOfCalls
  BY FaceFacts
<1> HIDE DEF quiet
<1>4. QueueOfCalls' /\ NewOps(posted)' \subseteq NewOps(posted)
  BY <1>1, <1>3, QueueGrows
<1> QED
  BY <1>1, <1>4, SettledInv

LEMMA ReceiveInterestInv ==
  ASSUME N!NdnFaceAssumption, FaceInv, N!ReceiveInterest, UNCHANGED <<program, calls>>
  PROVE  FaceInv'
<1>1. PICK x \in NamesOfApp : N!Pend(nextId, "forwarder", x, N!None)
  BY DEF N!ReceiveInterest
<1>2. /\ nextId' = nextId + 1
      /\ UNCHANGED <<posted, filters, prefixes, connected, receiving, anow, leaving, closed>>
  BY DEF N!ReceiveInterest
<1>3. /\ nextId \in Nat /\ Len(program) \in Nat /\ calls \in Nat /\ anow \in Nat /\ IsFiniteSet(filters)
      /\ QueueOfCalls /\ LedgerKept /\ IdsFresh /\ RegistrationsKept /\ Reachable
  BY FaceFacts
<1>4. QueueOfCalls' /\ NewOps(posted)' = NewOps(posted)
  BY <1>2, <1>3 DEF QueueOfCalls, NewOps
<1>5. nextId \notin DOMAIN outcomes
  BY <1>3 DEF IdsFresh, QueueOfCalls
<1>6. /\ LedgerKept' /\ DOMAIN outcomes' = DOMAIN outcomes \cup {nextId}
      /\ DOMAIN pending' = DOMAIN pending \cup {nextId}
      /\ \A j \in DOMAIN pending : pending'[j] = pending[j]
      /\ pending'[nextId].command = N!None /\ pending'[nextId].origin = "forwarder"
  <2>1. N!None \in FaceCommand
    BY DEF FaceCommand
  <2> QED
    BY <1>1, <1>2, <1>3, <1>5, <2>1, LedgerPend
<1>7. IdsFresh'
  <2>1. \A i : i \in (Len(program) + 1)..(nextId - 1) => i \in (Len(program) + 1)..(nextId' - 1)
    BY <1>2, <1>3, MoreIds
  <2>2. \A o \in NewOps(posted) : o.id # nextId
    BY <1>3 DEF IdsFresh, QueueOfCalls
  <2>3. nextId \in (Len(program) + 1)..(nextId' - 1)
    BY <1>2, <1>3 DEF IdsFresh
  <2> QED
    BY <1>2, <1>3, <1>4, <1>6, <2>1, <2>2, <2>3 DEF IdsFresh
<1>8. RegistrationsKept'
  <2>1. \A i \in DOMAIN pending' :
            pending'[i].command.op = "register" =>
              i \in DOMAIN pending /\ pending'[i].command = pending[i].command
    BY <1>6 DEF N!None
  <2> QED
    BY <1>2, <1>3, <1>4, <2>1, RegistrationsStay
<1>9. Reachable'
  BY <1>2, <1>3, <1>6 DEF Reachable
<1> QED
  BY <1>4, <1>6, <1>7, <1>8, <1>9 DEF FaceInv

LEMMA SetFilterInv ==
  ASSUME N!NdnFaceAssumption, FaceInv, N!SetFilter, UNCHANGED <<program, calls>>
  PROVE  FaceInv'
<1> DEFINE this == Head(posted)
           made == [id |-> this.id, name |-> this.name, loopback |-> this.flag]
<1>1. /\ posted # <<>> /\ posted' = Tail(posted)
      /\ filters' = {f \in filters : f.id # this.id} \/ filters' = filters \cup {made}
      /\ UNCHANGED <<pending, prefixes, connected, receiving, anow, nextId, nPackets, outcomes, given,
                     nacks, dropped, leaving, closed>>
  BY DEF N!SetFilter, N!Running, N!This, N!ledger
<1>2. /\ nextId \in Nat /\ Len(program) \in Nat /\ calls \in Nat /\ calls <= Len(program)
      /\ QueueOfCalls /\ LedgerKept /\ IdsFresh /\ RegistrationsKept /\ Reachable
  BY FaceFacts DEF QueueOfCalls
<1>3. /\ QueueOfCalls' /\ NewOps(posted)' \subseteq NewOps(posted)
      /\ this \in FaceOp /\ this.id <= calls
  BY <1>1, <1>2, QueueRan
<1>4. this.id \in Nat /\ made.id = this.id
  BY <1>3 DEF FaceOp
<1> HIDE DEF this, made
<1>5. LedgerKept' /\ Reachable'
  BY <1>1, <1>2 DEF LedgerKept, Reachable
<1>6. IdsFresh'
  BY <1>1, <1>2, <1>3, IdsStayFresh
<1>7. this.id < nextId /\ \A r \in DOMAIN prefixes : prefixes[r] # 0 => prefixes[r] # this.id
  <2>1. this.id <= Len(program) /\ Len(program) < nextId
    BY <1>2, <1>3, <1>4 DEF IdsFresh
  <2>2. \A r \in DOMAIN prefixes : prefixes[r] = 0 \/ prefixes[r] \in (Len(program) + 1)..(nextId - 1)
    BY <1>2 DEF RegistrationsKept
  <2> QED
    BY <1>2, <1>4, <2>1, <2>2
<1>8. IsFiniteSet(filters')
  <2>1. {f \in filters : f.id # this.id} \subseteq filters
    OBVIOUS
  <2> QED
    BY <1>1, <1>2, <2>1, FS_Subset, FS_AddElement DEF RegistrationsKept
<1>9. \A f \in filters' : f.id \in Nat /\ f.id < nextId
  BY <1>1, <1>2, <1>4, <1>7 DEF RegistrationsKept
<1>10. \A r \in DOMAIN prefixes : prefixes[r] # 0 =>
         ((\E f \in filters' : f.id = prefixes[r]) <=> (\E f \in filters : f.id = prefixes[r]))
  BY <1>1, <1>4, <1>7
<1>11. RegistrationsKept'
  <2>1. Registering' = Registering /\ CallsToRegister' \subseteq CallsToRegister
    BY <1>1, <1>3 DEF Registering, CallsToRegister
  <2> QED
    BY <1>1, <1>2, <1>8, <1>9, <1>10, <2>1 DEF RegistrationsKept
<1> QED
  BY <1>3, <1>5, <1>6, <1>11 DEF FaceInv

LEMMA UnregisterInv ==
  ASSUME N!NdnFaceAssumption, FaceInv, N!AsyncUnregisterPrefix, UNCHANGED <<program, calls>>
  PROVE  FaceInv'
<1> DEFINE this == Head(posted)
           command == [this EXCEPT !.op = "unregisterCommand"]
<1>1. /\ posted # <<>>
      /\ UNCHANGED <<pending, prefixes, connected, receiving, anow, nextId, nPackets, outcomes, given,
                     nacks, dropped, closed>>
      /\ \/ posted' = Tail(posted) /\ UNCHANGED <<filters, leaving>>
         \/ /\ this.id \in DOMAIN prefixes
            /\ filters' = {f \in filters : f.id # prefixes[this.id]}
            /\ leaving' = leaving \cup {this.id}
            /\ posted' = Append(Tail(posted), command)
  BY DEF N!AsyncUnregisterPrefix, N!Running, N!This, N!ledger
<1>2. /\ nextId \in Nat /\ Len(program) \in Nat /\ calls \in Nat /\ calls <= Len(program)
      /\ QueueOfCalls /\ LedgerKept /\ IdsFresh /\ RegistrationsKept /\ Reachable
  BY FaceFacts DEF QueueOfCalls
<1>3. this \in FaceOp /\ this.id <= calls /\ Tail(posted) \in Seq(FaceOp)
  BY <1>1, <1>2, OpsTail DEF QueueOfCalls
<1>4. command \in FaceOp /\ ~ MakesNew(command) /\ command.id = this.id
  BY <1>3 DEF FaceOp, MakesNew
<1> HIDE DEF this, command
<1>5. Quiet(<<command>>) /\ Quiet(<<>>)
  BY <1>3, <1>4, QuietOne, QuietNone
<1>6. QueueOfCalls' /\ NewOps(posted)' \subseteq NewOps(posted)
  <2>1. CASE posted' = Tail(posted)
    BY <1>1, <1>2, <2>1, QueueRan
  <2>2. CASE posted' = Append(Tail(posted), command)
    <3>1. posted' = Tail(posted) \o <<command>>
      BY <1>3, <1>4, <2>2
    <3> QED
      BY <1>1, <1>2, <1>5, <3>1, QueueRuns
  <2> QED
    BY <1>1, <2>1, <2>2
<1>7. LedgerKept' /\ Reachable'
  BY <1>1, <1>2 DEF LedgerKept, Reachable
<1>8. IdsFresh'
  BY <1>1, <1>2, <1>6, IdsStayFresh
<1>9. RegistrationsKept'
  <2>1. Registering' = Registering /\ CallsToRegister' \subseteq CallsToRegister
    BY <1>1, <1>6 DEF Registering, CallsToRegister
  <2>2. CASE UNCHANGED <<filters, leaving>>
    BY <1>1, <1>2, <2>1, <2>2 DEF RegistrationsKept
  <2>3. CASE /\ this.id \in DOMAIN prefixes
             /\ filters' = {f \in filters : f.id # prefixes[this.id]}
             /\ leaving' = leaving \cup {this.id}
    <3>1. filters' \subseteq filters /\ IsFiniteSet(filters')
      BY <1>2, <2>3, FS_Subset DEF RegistrationsKept
    <3>2. leaving' \subseteq 1..calls
      BY <1>2, <2>3 DEF RegistrationsKept
    <3>3. ASSUME NEW r \in DOMAIN prefixes, prefixes[r] # 0
          PROVE  (\E f \in filters' : f.id = prefixes[r]) <=> r \notin leaving'
      <4>1. CASE r = this.id
        BY <2>3, <4>1
      <4>2. CASE r # this.id
        <5>1. prefixes[r] # prefixes[this.id]
          BY <1>2, <2>3, <3>3, <4>2 DEF RegistrationsKept
        <5>2. (\E f \in filters' : f.id = prefixes[r]) <=> (\E f \in filters : f.id = prefixes[r])
          BY <2>3, <5>1
        <5>3. r \notin leaving' <=> r \notin leaving
          BY <2>3, <4>2
        <5>4. (\E f \in filters : f.id = prefixes[r]) <=> r \notin leaving
          BY <1>2, <3>3 DEF RegistrationsKept
        <5> QED
          BY <5>2, <5>3, <5>4
      <4> QED
        BY <4>1, <4>2
    <3>4. DOMAIN prefixes \cup leaving' = DOMAIN prefixes \cup leaving
      BY <2>3
    <3>5. \A r \in DOMAIN prefixes : prefixes[r] # 0 =>
            ((\E f \in filters' : f.id = prefixes[r]) <=> r \notin leaving')
      BY <3>3
    <3> QED
      BY <1>1, <1>2, <2>1, <3>1, <3>2, <3>4, <3>5 DEF RegistrationsKept
  <2> QED
    BY <1>1, <2>2, <2>3
<1> QED
  BY <1>6, <1>7, <1>8, <1>9 DEF FaceInv

LEMMA StartCommandInv ==
  ASSUME N!NdnFaceAssumption, FaceInv, N!StartCommand, UNCHANGED <<program, calls>>
  PROVE  FaceInv'
<1> DEFINE this == Head(posted)
<1>1. /\ posted # <<>> /\ posted' = Tail(posted) /\ this.op \in {"register", "unregisterCommand"}
      /\ N!Pend(nextId, "app", N!Command, this) /\ nextId' = nextId + 1
      /\ connected' = TRUE /\ receiving' = TRUE
      /\ UNCHANGED <<filters, prefixes, anow, nPackets, leaving, closed>>
  BY DEF N!StartCommand, N!Running, N!This, N!Connected
<1>2. /\ nextId \in Nat /\ Len(program) \in Nat /\ calls \in Nat /\ calls <= Len(program) /\ anow \in Nat
      /\ QueueOfCalls /\ LedgerKept /\ IdsFresh /\ RegistrationsKept /\ Reachable /\ IsFiniteSet(filters)
  BY FaceFacts DEF QueueOfCalls
<1>3. /\ QueueOfCalls' /\ NewOps(posted)' \subseteq NewOps(posted)
      /\ this \in FaceOp /\ this.id <= calls
      /\ MakesNew(this) => this \in NewOps(posted)
      /\ MakesNew(this) => \A o \in NewOps(posted)' : o.id # this.id
  BY <1>1, <1>2, QueueRan
<1> HIDE DEF this
<1>5. nextId \notin DOMAIN outcomes
  BY <1>2 DEF IdsFresh, QueueOfCalls
<1>6. /\ LedgerKept' /\ DOMAIN outcomes' = DOMAIN outcomes \cup {nextId}
      /\ DOMAIN pending' = DOMAIN pending \cup {nextId} /\ nextId \notin DOMAIN pending
      /\ \A j \in DOMAIN pending : pending'[j] = pending[j]
      /\ pending'[nextId].command = this /\ pending'[nextId].origin = "app"
  <2>1. this \in FaceCommand
    BY <1>3 DEF FaceCommand
  <2> QED
    BY <1>1, <1>2, <1>5, <2>1, LedgerPend
<1>7. IdsFresh'
  <2>1. \A i : i \in (Len(program) + 1)..(nextId - 1) => i \in (Len(program) + 1)..(nextId' - 1)
    BY <1>1, <1>2, MoreIds
  <2>2. \A o \in NewOps(posted) : o.id # nextId
    BY <1>2 DEF IdsFresh, QueueOfCalls
  <2>3. nextId \in (Len(program) + 1)..(nextId' - 1)
    BY <1>1, <1>2 DEF IdsFresh
  <2> QED
    BY <1>1, <1>2, <1>3, <1>6, <2>1, <2>2, <2>3 DEF IdsFresh
<1>8. RegistrationsKept'
  <2>1. CASE this.op # "register"
    <3>1. \A i \in DOMAIN pending' :
              pending'[i].command.op = "register" =>
                i \in DOMAIN pending /\ pending'[i].command = pending[i].command
      BY <1>6, <2>1
    <3> QED
      BY <1>1, <1>2, <1>3, <3>1, RegistrationsStay
  <2>2. CASE this.op = "register"
    <3>1. this \in NewOps(posted) /\ this \in CallsToRegister
      BY <1>3, <2>2 DEF MakesNew, CallsToRegister
    <3>2. \A o \in CallsToRegister' : o \in CallsToRegister /\ o.id # this.id
      BY <1>3, <2>2 DEF MakesNew, CallsToRegister
    <3>3. Registering' = Registering \cup {nextId} /\ nextId \notin Registering
      BY <1>6, <2>2 DEF Registering
    <3>4. /\ \A i \in Registering : pending'[i].command = pending[i].command
          /\ pending'[nextId].command = this
      BY <1>6 DEF Registering
    <3>5. this.id \in 1..calls /\ this.id \notin DOMAIN prefixes \cup leaving
          /\ \A i \in Registering : pending[i].command.id # this.id
      BY <1>2, <3>1 DEF IdsFresh, RegistrationsKept
    <3>6. \A i : i \in (Len(program) + 1)..(nextId - 1) => i \in (Len(program) + 1)..(nextId' - 1)
      BY <1>1, <1>2, MoreIds
    <3>7. \A f \in filters : f.id \in Nat /\ f.id < nextId'
      BY <1>1, <1>2 DEF RegistrationsKept
    <3>8. \A o \in CallsToRegister' :
            /\ o.id \notin DOMAIN prefixes \cup leaving
            /\ \A i \in Registering' : pending'[i].command.id # o.id
      BY <1>2, <3>2, <3>3, <3>4 DEF RegistrationsKept
    <3>9. \A i \in Registering' :
            /\ pending'[i].command.id \in 1..calls
            /\ pending'[i].command.id \notin DOMAIN prefixes \cup leaving
            /\ \A j \in Registering' : pending'[i].command.id = pending'[j].command.id => i = j
      BY <1>2, <3>3, <3>4, <3>5 DEF RegistrationsKept
    <3>10. \A r \in DOMAIN prefixes :
             prefixes[r] = 0 \/ prefixes[r] \in (Len(program) + 1)..(nextId' - 1)
      BY <1>2, <3>6 DEF RegistrationsKept
    <3> QED
      BY <1>1, <1>2, <3>7, <3>8, <3>9, <3>10 DEF RegistrationsKept
  <2> QED
    BY <2>1, <2>2
<1>9. Reachable'
  BY <1>1, <1>2 DEF Reachable
<1> QED
  BY <1>3, <1>6, <1>7, <1>8, <1>9 DEF FaceInv

LEMMA TransportInv ==
  ASSUME N!NdnFaceAssumption, FaceInv, N!Transport, UNCHANGED <<program, calls>>
  PROVE  FaceInv'
<1>1. /\ posted # <<>> /\ posted' = Tail(posted)
      /\ \/ connected' = TRUE /\ UNCHANGED receiving
         \/ receiving' = (receiving /\ ~ N!MayPause) /\ UNCHANGED connected
      /\ UNCHANGED <<pending, filters, prefixes, anow, nextId, nPackets, outcomes, given, nacks, dropped,
                     leaving, closed>>
  BY DEF N!Transport, N!Running, N!ledger
<1>2. /\ nextId \in Nat /\ Len(program) \in Nat
      /\ QueueOfCalls /\ LedgerKept /\ IdsFresh /\ RegistrationsKept /\ Reachable
  BY FaceFacts
<1>3. QueueOfCalls' /\ NewOps(posted)' \subseteq NewOps(posted)
  BY <1>1, <1>2, QueueRan
<1>4. LedgerKept' /\ IdsFresh' /\ RegistrationsKept'
  <2>1. LedgerKept'
    BY <1>1, <1>2 DEF LedgerKept
  <2>2. IdsFresh'
    BY <1>1, <1>2, <1>3, IdsStayFresh
  <2>3. RegistrationsKept'
    BY <1>1, <1>2, <1>3, RegistrationsStay
  <2> QED
    BY <2>1, <2>2, <2>3
<1>5. Reachable'
  <2>1. N!MayPause => DOMAIN pending = {} /\ DOMAIN prefixes = {}
    BY DEF N!MayPause
  <2>2. connected' \in BOOLEAN /\ receiving' \in BOOLEAN
    BY <1>1, <1>2 DEF Reachable
  <2>3. (receiving => receiving') \/ N!MayPause
    BY <1>1, <1>2 DEF Reachable
  <2>4. connected => connected'
    BY <1>1, <1>2 DEF Reachable
  <2> QED
    BY <1>1, <1>2, <2>1, <2>2, <2>3, <2>4 DEF Reachable
<1> QED
  BY <1>3, <1>4, <1>5 DEF FaceInv

LEMMA ShutdownInv ==
  ASSUME N!NdnFaceAssumption, FaceInv, N!AsyncShutdown, UNCHANGED <<program, calls>>
  PROVE  FaceInv'
<1> DEFINE a == N!OnEmpty(pending, <<>>) b == N!OnEmpty(prefixes, <<>>) s == a \o b
<1>1. /\ posted # <<>> /\ pending' = <<>> /\ prefixes' = <<>> /\ posted' = (Tail(posted) \o a) \o b
      /\ connected' = FALSE /\ receiving' = FALSE
      /\ dropped' = dropped \cup DOMAIN pending
      /\ closed' = TRUE
      /\ UNCHANGED <<filters, anow, nextId, nPackets, outcomes, given, nacks, leaving>>
  BY DEF N!AsyncShutdown, N!Running
<1>2. /\ nextId \in Nat /\ Len(program) \in Nat /\ calls \in Nat
      /\ QueueOfCalls /\ LedgerKept /\ IdsFresh /\ RegistrationsKept /\ Reachable
      /\ Quiet(a) /\ Quiet(b)
  BY FaceFacts
<1>3. Tail(posted) \in Seq(FaceOp)
  BY <1>1, <1>2, OpsTail DEF QueueOfCalls
<1> HIDE DEF a, b
<1>4. posted' = Tail(posted) \o s /\ Quiet(s)
  <2>1. a \in Seq(FaceOp) /\ b \in Seq(FaceOp)
    BY <1>2 DEF Quiet
  <2>2. posted' = Tail(posted) \o s
    BY <1>1, <1>3, <2>1, OpsAssociate
  <2> QED
    BY <1>2, <2>2, QuietJoined
<1> HIDE DEF s
<1>5. QueueOfCalls' /\ NewOps(posted)' \subseteq NewOps(posted)
  BY <1>1, <1>2, <1>4, QueueRuns
<1>6. DOMAIN pending' = {} /\ DOMAIN prefixes' = {}
  BY <1>1
<1>7. LedgerKept'
  <2>1. dropped' = dropped \cup (DOMAIN pending \cap DOMAIN pending)
    BY <1>1
  <2>2. DOMAIN pending' = DOMAIN pending \ DOMAIN pending
    BY <1>6
  <2> QED
    BY <1>1, <1>2, <1>6, <2>1, <2>2, LedgerDrop
<1>8. IdsFresh'
  BY <1>1, <1>2, <1>5, IdsStayFresh
<1>9. RegistrationsKept'
  <2>1. Registering' = {} /\ CallsToRegister' \subseteq CallsToRegister
    BY <1>5, <1>6 DEF Registering, CallsToRegister
  <2> QED
    BY <1>1, <1>2, <1>6, <2>1 DEF RegistrationsKept
<1>10. Reachable'
  BY <1>1, <1>2 DEF Reachable
<1> QED
  BY <1>5, <1>7, <1>8, <1>9, <1>10 DEF FaceInv

\* The forwarder answers a command, and with it a registration may begin or end.
LEMMA ReceiveAnswerInv ==
  ASSUME N!NdnFaceAssumption, FaceInv, N!ReceiveAnswer, UNCHANGED <<program, calls>>
  PROVE  FaceInv'
<1> DEFINE a == N!OnEmpty(prefixes, prefixes') b == N!OnEmpty(pending, pending') s == a \o b
<1>1. PICK i \in N!MatchedBy(N!Command) :
        /\ pending' = N!Without(pending, {i}) /\ N!Settle({i}, "data")
        /\ N!Succeed(pending[i].command) \/ UNCHANGED <<filters, prefixes, nextId>>
  BY DEF N!ReceiveAnswer
<1>2. /\ posted' = (posted \o a) \o b /\ i \in DOMAIN pending
      /\ UNCHANGED <<connected, receiving, anow, given, nacks, dropped, leaving, closed>>
  BY DEF N!ReceiveAnswer, N!MatchedBy
<1>3. /\ nextId \in Nat /\ Len(program) \in Nat /\ calls \in Nat /\ calls <= Len(program)
      /\ QueueOfCalls /\ LedgerKept /\ IdsFresh /\ RegistrationsKept /\ Reachable
      /\ Quiet(a) /\ Quiet(b) /\ posted \in Seq(FaceOp)
  BY FaceFacts DEF QueueOfCalls
<1> HIDE DEF a, b
<1>4. posted' = posted \o s /\ Quiet(s)
  <2>1. a \in Seq(FaceOp) /\ b \in Seq(FaceOp)
    BY <1>3 DEF Quiet
  <2>2. posted' = posted \o s
    BY <1>2, <1>3, <2>1, OpsAssociate
  <2> QED
    BY <1>3, <2>2, QuietJoined
<1> HIDE DEF s
<1>5. QueueOfCalls' /\ NewOps(posted)' = NewOps(posted)
  BY <1>3, <1>4, QueueGrows
<1>6. CASE UNCHANGED <<filters, prefixes, nextId>>
  BY <1>1, <1>2, <1>5, <1>6, SettledInv
<1>7. CASE N!Succeed(pending[i].command)
  <2> DEFINE c == pending[i].command
  <2>1. /\ DOMAIN pending' = DOMAIN pending \ {i}
        /\ \A j \in DOMAIN pending' : pending'[j] = pending[j]
    BY <1>1, FewerPending
  <2>2. LedgerKept' /\ DOMAIN outcomes' = DOMAIN outcomes
    <3>1. {i} \subseteq DOMAIN pending
      BY <1>2
    <3> QED
      BY <1>1, <1>2, <1>3, <3>1, LedgerSettle
  <2>3. Registering' = Registering \ {i} /\ \A j \in Registering' : pending'[j] = pending[j]
    BY <2>1 DEF Registering
  <2>4. CallsToRegister' = CallsToRegister
    BY <1>5 DEF CallsToRegister
  <2>5. c \in FaceCommand /\ c.id \in Nat
    <3>1. c \in FaceCommand
      BY <1>2, <1>3 DEF LedgerKept, IsPending
    <3> QED
      BY <3>1 DEF FaceCommand, FaceOp, N!None
  <2>6. CASE c.op = "register"
    <3> DEFINE made == [id |-> nextId, name |-> c.name, loopback |-> TRUE]
    <3>1. /\ filters' = IF c.flag THEN filters \cup {made} ELSE filters
          /\ prefixes' = N!Put(prefixes, c.id, IF c.flag THEN nextId ELSE 0)
          /\ nextId' = nextId + 1
      BY <1>7, <2>6 DEF N!Succeed
    <3>2. /\ DOMAIN prefixes' = DOMAIN prefixes \cup {c.id}
          /\ prefixes'[c.id] = IF c.flag THEN nextId ELSE 0
          /\ \A r \in DOMAIN prefixes : r # c.id => prefixes'[r] = prefixes[r]
      BY <3>1 DEF N!Put
    <3>3. made.id = nextId
      OBVIOUS
    <3>4. i \in Registering
      BY <1>2, <2>6 DEF Registering
    <3> HIDE DEF made, c
    <3>5. /\ c.id \in 1..calls /\ c.id \notin DOMAIN prefixes \cup leaving
          /\ \A o \in CallsToRegister : c.id # o.id
          /\ \A j \in Registering : j # i => pending[j].command.id # c.id
      BY <1>3, <3>4 DEF RegistrationsKept, c
    <3>6. \A j : j \in (Len(program) + 1)..(nextId - 1) => j \in (Len(program) + 1)..(nextId' - 1)
      BY <1>3, <3>1, MoreIds
    <3>7. nextId \in (Len(program) + 1)..(nextId' - 1) /\ nextId' \in Nat /\ nextId # 0
      BY <1>3, <3>1 DEF IdsFresh
    <3>8. IdsFresh'
      BY <1>3, <1>5, <2>2, <3>1, <3>7, IdsStayFresh
    <3>9. IsFiniteSet(filters') /\ \A f \in filters' : f.id \in Nat /\ f.id < nextId'
      <4>1. IsFiniteSet(filters) /\ \A f \in filters : f.id \in Nat /\ f.id < nextId
        BY <1>3 DEF RegistrationsKept
      <4> QED
        BY <1>3, <3>1, <3>3, <4>1, FS_AddElement
    <3>10. \A r \in DOMAIN prefixes' :
             prefixes'[r] = 0 \/ prefixes'[r] \in (Len(program) + 1)..(nextId' - 1)
      <4> TAKE r \in DOMAIN prefixes'
      <4>1. CASE r = c.id
        BY <3>2, <3>7, <4>1
      <4>2. CASE r # c.id
        BY <1>3, <3>2, <3>6, <4>2 DEF RegistrationsKept
      <4> QED
        BY <4>1, <4>2
    <3>11. \A r \in DOMAIN prefixes : prefixes'[r] = prefixes[r] /\ prefixes[r] # nextId
      <4> TAKE r \in DOMAIN prefixes
      <4>1. prefixes[r] = 0 \/ prefixes[r] \in (Len(program) + 1)..(nextId - 1)
        BY <1>3 DEF RegistrationsKept
      <4>2. r # c.id
        BY <3>5
      <4> QED
        BY <1>3, <3>2, <3>7, <4>1, <4>2
    <3>12. \A r, t \in DOMAIN prefixes' : prefixes'[r] = prefixes'[t] /\ prefixes'[r] # 0 => r = t
      <4> SUFFICES ASSUME NEW r \in DOMAIN prefixes', NEW t \in DOMAIN prefixes',
                          prefixes'[r] = prefixes'[t], prefixes'[r] # 0
                   PROVE  r = t
        OBVIOUS
      <4>1. CASE r \in DOMAIN prefixes /\ t \in DOMAIN prefixes
        BY <1>3, <3>11, <4>1 DEF RegistrationsKept
      <4>2. CASE r = c.id /\ t \in DOMAIN prefixes
        BY <3>2, <3>11, <4>2
      <4>3. CASE r \in DOMAIN prefixes /\ t = c.id
        BY <3>2, <3>11, <4>3
      <4> QED
        BY <3>2, <4>1, <4>2, <4>3
    <3>13. \A r \in DOMAIN prefixes' :
             prefixes'[r] # 0 => ((\E f \in filters' : f.id = prefixes'[r]) <=> r \notin leaving)
      <4> TAKE r \in DOMAIN prefixes'
      <4>1. CASE r = c.id
        <5>1. prefixes'[r] # 0 => made \in filters' /\ prefixes'[r] = nextId
          BY <3>1, <3>2, <4>1
        <5> QED
          BY <3>3, <3>5, <4>1, <5>1
      <4>2. CASE r \in DOMAIN prefixes
        <5>1. prefixes'[r] = prefixes[r] /\ prefixes[r] # nextId
          BY <3>11, <4>2
        <5>2. (\E f \in filters' : f.id = prefixes[r]) <=> (\E f \in filters : f.id = prefixes[r])
          BY <3>1, <3>3, <5>1
        <5>3. prefixes[r] # 0 => ((\E f \in filters : f.id = prefixes[r]) <=> r \notin leaving)
          BY <1>3, <4>2 DEF RegistrationsKept
        <5> QED
          BY <5>1, <5>2, <5>3
      <4> QED
        BY <3>2, <4>1, <4>2
    <3>14. \A o \in CallsToRegister' :
            /\ o.id \notin DOMAIN prefixes' \cup leaving
            /\ \A j \in Registering' : pending'[j].command.id # o.id
      BY <1>3, <2>3, <2>4, <3>2, <3>5 DEF RegistrationsKept
    <3>15. \A j \in Registering' :
            /\ pending'[j].command.id \in 1..calls
            /\ pending'[j].command.id \notin DOMAIN prefixes' \cup leaving
            /\ \A k \in Registering' : pending'[j].command.id = pending'[k].command.id => j = k
      BY <1>3, <2>3, <3>2, <3>5 DEF RegistrationsKept
    <3>16. DOMAIN prefixes' \subseteq 1..calls
      BY <1>3, <3>2, <3>5 DEF RegistrationsKept
    <3>17. RegistrationsKept'
      BY <1>2, <1>3, <3>9, <3>10, <3>12, <3>13, <3>14, <3>15, <3>16 DEF RegistrationsKept
    <3>18. Reachable'
      <4>1. ~ closed => connected /\ receiving
        <5>1. \A o \in FaceCommand : o.op = "register" => TRUE
          OBVIOUS
        <5> QED
          BY DEF N!ReceiveAnswer, N!Receive
      <4> QED
        BY <1>2, <1>3, <4>1 DEF Reachable
    <3> QED
      BY <1>5, <2>2, <3>8, <3>17, <3>18 DEF FaceInv
  <2>7. CASE c.op # "register"
    <3>1. prefixes' = N!Without(prefixes, {c.id}) /\ UNCHANGED <<filters, nextId>>
      BY <1>7, <2>7 DEF N!Succeed
    <3>2. /\ DOMAIN prefixes' \subseteq DOMAIN prefixes
          /\ \A r \in DOMAIN prefixes' : prefixes'[r] = prefixes[r]
      BY <3>1 DEF N!Without, N!Restrict
    <3>3. IdsFresh'
      BY <1>3, <1>5, <2>2, <3>1, IdsStayFresh
    <3>4. RegistrationsKept'
      <4>1. \A r \in DOMAIN prefixes' :
              prefixes'[r] # 0 => ((\E f \in filters' : f.id = prefixes'[r]) <=> r \notin leaving')
        <5> TAKE r \in DOMAIN prefixes'
        <5>1. r \in DOMAIN prefixes /\ prefixes'[r] = prefixes[r]
          BY <3>2
        <5>2. prefixes[r] # 0 => ((\E f \in filters : f.id = prefixes[r]) <=> r \notin leaving)
          BY <1>3, <5>1 DEF RegistrationsKept
        <5>3. filters' = filters /\ leaving' = leaving
          BY <1>2, <3>1
        <5> QED
          BY <5>1, <5>2, <5>3
      <4>2. /\ IsFiniteSet(filters') /\ \A f \in filters' : f.id \in Nat /\ f.id < nextId'
            /\ DOMAIN prefixes' \subseteq 1..calls' /\ leaving' \subseteq 1..calls'
            /\ \A r \in DOMAIN prefixes' :
                  prefixes'[r] = 0 \/ prefixes'[r] \in (Len(program)' + 1)..(nextId' - 1)
        BY <1>2, <1>3, <3>1, <3>2 DEF RegistrationsKept
      <4>3. \A r, t \in DOMAIN prefixes' : prefixes'[r] = prefixes'[t] /\ prefixes'[r] # 0 => r = t
        BY <1>3, <3>2 DEF RegistrationsKept
      <4>4. \A o \in CallsToRegister' :
              /\ o.id \notin DOMAIN prefixes' \cup leaving'
              /\ \A j \in Registering' : pending'[j].command.id # o.id
        BY <1>2, <1>3, <2>3, <2>4, <3>2 DEF RegistrationsKept
      <4>5. \A j \in Registering' :
              /\ pending'[j].command.id \in 1..calls'
              /\ pending'[j].command.id \notin DOMAIN prefixes' \cup leaving'
              /\ \A k \in Registering' : pending'[j].command.id = pending'[k].command.id => j = k
        <5>1. \A j \in Registering' : j \in Registering /\ pending'[j].command = pending[j].command
          BY <2>3
        <5>2. DOMAIN prefixes' \cup leaving' \subseteq DOMAIN prefixes \cup leaving /\ calls' = calls
          BY <1>2, <3>2
        <5>3. \A j \in Registering :
              /\ pending[j].command.id \in 1..calls
              /\ pending[j].command.id \notin DOMAIN prefixes \cup leaving
              /\ \A k \in Registering : pending[j].command.id = pending[k].command.id => j = k
          BY <1>3 DEF RegistrationsKept
        <5> HIDE DEF c
        <5> QED
          BY <5>1, <5>2, <5>3
      <4> QED
        BY <4>1, <4>2, <4>3, <4>4, <4>5 DEF RegistrationsKept
    <3>5. Reachable'
      BY <1>2, <1>3, <2>1, <3>2 DEF Reachable
    <3> QED
      BY <1>5, <2>2, <3>3, <3>4, <3>5 DEF FaceInv
  <2> QED
    BY <2>6, <2>7
<1> QED
  BY <1>1, <1>6, <1>7

LEMMA FaceTickInv ==
  ASSUME N!NdnFaceAssumption, FaceInv, N!Tick, UNCHANGED <<program, calls>>
  PROVE  FaceInv'
<1>1. /\ \A i \in DOMAIN pending : anow < pending[i].expiry
      /\ anow' = anow + 1
      /\ UNCHANGED <<posted, pending, filters, prefixes, connected, receiving, nextId, nPackets,
                     outcomes, given, nacks, dropped, leaving, closed>>
  BY DEF N!Tick, N!ledger
<1>2. anow \in Nat /\ QueueOfCalls /\ LedgerKept /\ IdsFresh /\ RegistrationsKept /\ Reachable
  BY FaceFacts
<1>3. \A i \in DOMAIN pending : IsPending(pending[i], anow + 1)
  <2> TAKE i \in DOMAIN pending
  <2> DEFINE e == pending[i]
  <2>1. IsPending(e, anow) /\ anow < e.expiry /\ Lifetime \in Nat
    BY <1>1, <1>2, FaceConstants DEF LedgerKept
  <2> HIDE DEF e
  <2>2. e.expiry \in (anow + 1)..(anow + 1 + Lifetime)
    BY <1>2, <2>1 DEF IsPending
  <2>3. IsPending(e, anow + 1)
    BY <2>1, <2>2 DEF IsPending
  <2> QED
    BY <2>3 DEF e
<1>4. LedgerKept'
  BY <1>1, <1>2, <1>3 DEF LedgerKept
<1>5. QueueOfCalls' /\ IdsFresh' /\ Reachable'
  BY <1>1, <1>2 DEF QueueOfCalls, IdsFresh, Reachable, NewOps
<1>6. RegistrationsKept'
  <2>1. Registering' = Registering /\ CallsToRegister' = CallsToRegister
    BY <1>1 DEF Registering, CallsToRegister, NewOps
  <2> QED
    BY <1>1, <1>2, <2>1 DEF RegistrationsKept
<1> QED
  BY <1>4, <1>5, <1>6 DEF FaceInv

LEMMA FaceInitInv ==
  ASSUME N!NdnFaceAssumption, N!Init
  PROVE  FaceInv
<1>1. /\ program \in Programs /\ calls = 0 /\ posted = <<>> /\ pending = <<>> /\ filters = {}
      /\ prefixes = <<>> /\ connected = FALSE /\ receiving = FALSE /\ anow = 0
      /\ nextId = Len(program) + 1 /\ outcomes = <<>> /\ given = <<>> /\ nacks = <<>>
      /\ dropped = {} /\ leaving = {} /\ closed = FALSE /\ Len(program) \in Nat
  BY FaceConstants DEF N!Init
<1>2. NewOps(posted) = {} /\ DOMAIN pending = {} /\ DOMAIN prefixes = {} /\ DOMAIN outcomes = {}
      /\ DOMAIN given = {} /\ DOMAIN nacks = {}
  BY <1>1 DEF NewOps
<1>3. QueueOfCalls
  BY <1>1 DEF QueueOfCalls, IdsUpTo, NewOnce
<1>4. LedgerKept
  BY <1>1, <1>2 DEF LedgerKept
<1>5. IdsFresh
  BY <1>1, <1>2 DEF IdsFresh
<1>6. RegistrationsKept
  <2>1. Registering = {} /\ CallsToRegister = {}
    BY <1>2 DEF Registering, CallsToRegister
  <2>2. IsFiniteSet({})
    BY FS_EmptySet
  <2> QED
    BY <1>1, <1>2, <2>1, <2>2 DEF RegistrationsKept
<1>7. Reachable
  BY <1>1, <1>2 DEF Reachable
<1> QED
  BY <1>3, <1>4, <1>5, <1>6, <1>7 DEF FaceInv

LEMMA FaceStep ==
  ASSUME N!NdnFaceAssumption, FaceInv, [N!Next]_(N!faceVars)
  PROVE  FaceInv'
<1>1. CASE UNCHANGED N!faceVars
  <2>1. UNCHANGED <<program, calls, posted, pending, filters, prefixes, connected, receiving, anow,
                    nextId, outcomes, given, nacks, dropped, leaving, closed>>
    BY <1>1 DEF N!faceVars
  <2>2. QueueOfCalls /\ LedgerKept /\ IdsFresh /\ RegistrationsKept /\ Reachable
    BY DEF FaceInv
  <2>3. Registering' = Registering /\ CallsToRegister' = CallsToRegister
    BY <2>1 DEF Registering, CallsToRegister, NewOps
  <2>4. RegistrationsKept'
    BY <2>1, <2>2, <2>3 DEF RegistrationsKept
  <2>5. QueueOfCalls' /\ LedgerKept' /\ IdsFresh' /\ Reachable'
    BY <2>1, <2>2 DEF QueueOfCalls, LedgerKept, IdsFresh, Reachable, NewOps
  <2> QED
    BY <2>4, <2>5 DEF FaceInv
<1>2. CASE N!Call
  BY <1>2, CallInv
<1>3. CASE /\ \/ N!Express \/ N!RemovePendingInterests \/ N!AsyncPutData \/ N!AsyncPutNack \/ N!SetFilter
              \/ N!AsyncUnregisterPrefix \/ N!StartCommand \/ N!Transport \/ N!AsyncShutdown
              \/ N!ReceiveInterest \/ N!ReceiveData \/ N!ReceiveNack \/ N!ReceiveAnswer \/ N!Timeout
              \/ N!Tick
           /\ UNCHANGED <<program, calls>>
  BY <1>3, ExpressInv, RemovePendingInv, PutDataInv, PutNackInv, SetFilterInv, UnregisterInv,
     StartCommandInv, TransportInv, ShutdownInv, ReceiveInterestInv, ReceiveDataInv, ReceiveNackInv,
     ReceiveAnswerInv, FaceTimeoutInv, FaceTickInv
<1> QED
  BY <1>1, <1>2, <1>3 DEF N!Next

\* What the invariant shows.
LEMMA FaceShown ==
  ASSUME N!NdnFaceAssumption, FaceInv
  PROVE  N!TypeOK /\ N!OneOutcome /\ N!HandlersKept
<1>1. /\ nextId \in Nat /\ Len(program) \in Nat /\ calls \in Nat /\ calls \in 0..Len(program)
      /\ LedgerKept /\ IdsFresh /\ RegistrationsKept /\ Reachable
  BY FaceFacts DEF QueueOfCalls
<1>2. N!TypeOK
  <2>1. DOMAIN pending \subseteq 1..nextId - 1
    <3>1. DOMAIN pending \subseteq (1..calls) \cup ((Len(program) + 1)..(nextId - 1))
      BY <1>1 DEF LedgerKept, IdsFresh
    <3>2. nextId > Len(program)
      BY <1>1 DEF IdsFresh
    <3> QED
      BY <1>1, <3>1, <3>2
  <2>2. \A i \in DOMAIN pending : pending[i].origin \in {"app", "forwarder"}
                               /\ pending[i].expiry \in anow..anow + Lifetime
    BY <1>1 DEF LedgerKept, IsPending
  <2> QED
    BY <1>1, <2>1, <2>2 DEF N!TypeOK, LedgerKept, Reachable
<1>3. N!OneOutcome
  <2> SUFFICES ASSUME NEW i \in DOMAIN outcomes
               PROVE  /\ Len(outcomes[i]) = IF i \in DOMAIN pending \cup dropped THEN 0 ELSE 1
                      /\ outcomes[i] = <<"nack">> => nacks[i] >= given[i]
    BY DEF N!OneOutcome
  <2>1. Len(<<"data">>) = 1 /\ Len(<<"timeout">>) = 1 /\ Len(<<"nack">>) = 1 /\ Len(<<>>) = 0
        /\ <<"data">>[1] = "data" /\ <<"timeout">>[1] = "timeout" /\ <<"nack">>[1] = "nack"
    OBVIOUS
  <2>2. /\ i \in DOMAIN pending \cup dropped => outcomes[i] = <<>>
        /\ i \notin DOMAIN pending \cup dropped =>
            \/ outcomes[i] \in {<<"data">>, <<"timeout">>}
            \/ outcomes[i] = <<"nack">> /\ nacks[i] >= given[i]
    BY <1>1 DEF LedgerKept
  <2>3. CASE i \in DOMAIN pending \cup dropped
    <3>1. <<>> # <<"nack">>
      BY <2>1
    <3> QED
      BY <2>1, <2>2, <2>3, <3>1
  <2>4. CASE i \notin DOMAIN pending \cup dropped
    <3>1. <<"data">> # <<"nack">> /\ <<"timeout">> # <<"nack">>
      BY <2>1
    <3> QED
      BY <2>1, <2>2, <2>4, <3>1
  <2> QED
    BY <2>3, <2>4
<1>4. N!HandlersKept
  <2> SUFFICES ASSUME ~ closed PROVE
         /\ \A r \in DOMAIN prefixes : prefixes[r] # 0 =>
              ((\E f \in filters : f.id = prefixes[r]) <=> r \notin leaving)
         /\ DOMAIN prefixes # {} \/ N!Of("app", DOMAIN pending) # {} => connected /\ receiving
    BY DEF N!HandlersKept
  <2>1. N!Of("app", DOMAIN pending) # {} => \E i \in DOMAIN pending : pending[i].origin = "app"
    BY DEF N!Of
  <2> QED
    BY <1>1, <2>1 DEF RegistrationsKept, Reachable
<1> QED
  BY <1>2, <1>3, <1>4

\* Whatever an application calls and whatever comes in between, each Interest has one outcome
\* and registrations have their filters.
THEOREM FaceSettles ==
  ASSUME N!NdnFaceAssumption
  PROVE  N!Init /\ [][N!Next]_(N!faceVars) => [](N!TypeOK /\ N!OneOutcome /\ N!HandlersKept)
<1>1. N!Init => FaceInv
  BY FaceInitInv
<1>2. FaceInv /\ [N!Next]_(N!faceVars) => FaceInv'
  BY FaceStep
<1>3. FaceInv => N!TypeOK /\ N!OneOutcome /\ N!HandlersKept
  BY FaceShown
<1> QED
  BY <1>1, <1>2, <1>3, PTL
-------------------------------------------------------------------------------
(* Applications, for any PMUs and PDCs, any prefixes that begin one another and *)
(* any times.                                                                   *)

\* What the network may hold.
AppPackets ==
  {P!Interest(d, m) : d \in Pdcs, m \in Pmus} \cup {P!Control(d, m) : d \in Pdcs, m \in Pmus}
    \cup {P!Capsule(m, d, id) : m \in Pmus, d \in Pdcs, id \in Nat \cup {P!Never}}

AppTypes ==
  /\ kind \in P!Kinds
  /\ pnow \in 0..AppTime
  /\ nextDataId \in [Pmus -> 0..MaxCapsules]
  /\ streamAt \in [Pmus -> [Pdcs -> 0..(AppTime + Piat) \cup {P!Never}]]
  /\ interestAt \in [Pdcs -> Int]
  /\ lastCapsule \in [Pmus -> [Pdcs -> [id : Nat \cup {P!Never}, at : Int]]]
  /\ net \subseteq AppPackets
  /\ IsFiniteSet(net) /\ Cardinality(net) <= MaxInFlight

\* An Interest is on its way, or a stream goes on, only after the one time the PDC sends
\* its Interests; a stream has not begun while its Interest is on its way.
AskedOnce ==
  \A d \in Pdcs, m \in Pmus :
    IF kind = "ndn" THEN streamAt[m][d] = P!Never
    ELSE /\ P!Interest(d, m) \in net => interestAt[d] = P!Never /\ streamAt[m][d] = P!Never
         /\ interestAt[d] # P!Never => streamAt[m][d] = P!Never

\* A capsule is due a Piat after the last one, and follows it unless others got ids.
StreamsDue ==
  \A m \in Pmus, d \in Pdcs :
    streamAt[m][d] # P!Never =>
      /\ streamAt[m][d] = lastCapsule[m][d].at + Piat
      /\ (\A e \in Pdcs \ {d} : streamAt[m][e] = P!Never) =>
           nextDataId[m] = lastCapsule[m][d].id + 1

\* Ids are given out in order.
IdsBehind == \A m \in Pmus, d \in Pdcs : lastCapsule[m][d].id < nextDataId[m]

AppsInv == AppTypes /\ AskedOnce /\ StreamsDue /\ IdsBehind /\ P!IdsUsedOnce /\ P!QueuesApart

\* The sizes of sets are those of the standard module.
LEMMA AppSizes ==
  ASSUME NEW S
  PROVE  (P!IsFiniteSet(S) <=> IsFiniteSet(S)) /\ P!Cardinality(S) = Cardinality(S)
BY DEF P!IsFiniteSet, IsFiniteSet, P!Cardinality, Cardinality

\* What is assumed of the constants, as far as the proof needs it.
LEMMA AppConstants ==
  ASSUME P!ApplicationsAssumption
  PROVE  /\ Piat \in Nat /\ Piat > 0 /\ OneSecond \in Nat /\ OneSecond > 0 /\ ControlTime \in Nat
         /\ MaxCapsules \in Nat /\ MaxInFlight \in Nat /\ AppTime \in Nat
         /\ IsFiniteSet(Pmus) /\ Subscriptions \in [Pdcs -> SUBSET Pmus]
BY AppSizes DEF P!ApplicationsAssumption

\* The prefix of one PMU with what a capsule adds parses with that of no other.
LEMMA ParsesOnce ==
  ASSUME P!ApplicationsAssumption, NEW a \in Pmus, NEW b \in Pmus,
         P!ParseDataUri(Prefix[a] \o <<"/Capsule/">>, b)
  PROVE  a = b
<1> DEFINE X == Prefix[a] Y == Prefix[b] Pieces == STRING \cup {"/Capsule/"}
           uri == X \o <<"/Capsule/">>
<1>1. /\ X \in Seq(Pieces) /\ Y \in Seq(Pieces) /\ "/Capsule/" \in Pieces
      /\ \A i \in 1..Len(X) : X[i] # "/Capsule/"
  <2>1. X \in Seq(STRING) /\ Y \in Seq(STRING) /\ \A i \in DOMAIN X : X[i] # "/Capsule/"
    BY DEF P!ApplicationsAssumption, P!Range
  <2> HIDE DEF X, Y
  <2>2. X \in Seq(Pieces) /\ Y \in Seq(Pieces)
    BY <2>1, SeqMonotonic
  <2> QED
    BY <2>1, <2>2
<1>2. SubSeq(uri, 1, Len(Y)) = Y /\ Len(uri) > Len(Y) /\ uri[Len(Y) + 1] = "/Capsule/"
  BY DEF P!ParseDataUri, P!Begins
<1>3. X = Y => a = b
  BY DEF P!ApplicationsAssumption
<1> HIDE DEF X, Y, Pieces
<1>4. /\ Len(uri) = Len(X) + 1 /\ Len(X) \in Nat /\ Len(Y) \in Nat
      /\ \A i \in 1..Len(X) : uri[i] = X[i]
      /\ uri \in Seq(Pieces)
  BY <1>1
<1> HIDE DEF uri
<1>5. Len(Y) = Len(X)
  BY <1>1, <1>2, <1>4
<1>6. SubSeq(Y, 1, Len(Y)) = SubSeq(uri, 1, Len(Y))
  BY <1>1, <1>2
<1>7. \A i \in 1..Len(Y) : Y[i] = uri[i]
  <2> TAKE i \in 1..Len(Y)
  <2>1. SubSeq(Y, 1, Len(Y))[i] = Y[i] /\ SubSeq(uri, 1, Len(Y))[i] = uri[i]
    BY <1>1, <1>4, <1>5
  <2> QED
    BY <2>1, <1>6
<1>8. X = Y
  BY <1>1, <1>4, <1>5, <1>7, SeqEqual
<1> QED
  BY <1>3, <1>8

\* What is sent is taken into the network as long as there is room.
LEMMA SentAway ==
  ASSUME P!ApplicationsAssumption, AppTypes, NEW left, left \subseteq net,
         NEW packets, packets \subseteq AppPackets, IsFiniteSet(packets), P!Sends(left, packets)
  PROVE  /\ net' \subseteq left \cup packets
         /\ net' \subseteq AppPackets
         /\ IsFiniteSet(net') /\ Cardinality(net') <= MaxInFlight
<1>1. PICK kept \in SUBSET packets : Cardinality(left \cup kept) <= MaxInFlight /\ net' = left \cup kept
  BY AppSizes DEF P!Sends
<1>2. IsFiniteSet(left) /\ IsFiniteSet(kept)
  BY <1>1, FS_Subset DEF AppTypes
<1>3. IsFiniteSet(left \cup kept)
  BY <1>2, FS_Union
<1> QED
  BY <1>1, <1>3 DEF AppTypes

\* Packets that are taken out leave room.
LEMMA TakenOut ==
  ASSUME P!ApplicationsAssumption, AppTypes, NEW p \in net
  PROVE  IsFiniteSet(net \ {p}) /\ Cardinality(net \ {p}) <= MaxInFlight
<1>1. IsFiniteSet(net \ {p}) /\ Cardinality(net \ {p}) = Cardinality(net) - 1 /\ Cardinality(net) \in Nat
  BY FS_RemoveElement, FS_CardinalityType DEF AppTypes
<1> QED
  BY <1>1, AppConstants DEF AppTypes

\* The fields of packets, by which those of different types differ.
LEMMA PacketFields ==
  /\ \A d, m : /\ P!Interest(d, m).type = "Interest"
               /\ P!Interest(d, m).pdc = d /\ P!Interest(d, m).pmu = m
  /\ \A d, m : P!Control(d, m).type = "Control"
  /\ \A d, m, id : /\ P!Capsule(m, d, id).type = "Data"
                   /\ P!Capsule(m, d, id).pdc = d /\ P!Capsule(m, d, id).pmu = m
BY DEF P!Interest, P!Control, P!Capsule

\* The subscriptions of a PDC are packets the network takes.
LEMMA AskedPackets ==
  ASSUME P!ApplicationsAssumption, NEW d \in Pdcs
  PROVE  /\ {P!Interest(d, m) : m \in Subscriptions[d]} \subseteq AppPackets
         /\ IsFiniteSet({P!Interest(d, m) : m \in Subscriptions[d]})
         /\ {P!Control(d, m) : m \in Subscriptions[d]} \subseteq AppPackets
         /\ IsFiniteSet({P!Control(d, m) : m \in Subscriptions[d]})
<1>1. Subscriptions[d] \subseteq Pmus /\ IsFiniteSet(Subscriptions[d])
  BY AppConstants, FS_Subset
<1>2. \A S, U : \A f \in Surjection(S, U) : IsFiniteSet(S) => IsFiniteSet(U)
  BY FS_Surjection
<1>3. IsFiniteSet({P!Interest(d, m) : m \in Subscriptions[d]})
  <2> DEFINE f == [m \in Subscriptions[d] |-> P!Interest(d, m)]
             U == {P!Interest(d, m) : m \in Subscriptions[d]}
  <2>1. f \in Surjection(Subscriptions[d], U)
    BY DEF Surjection
  <2> HIDE DEF f, U
  <2>2. IsFiniteSet(U)
    BY <1>1, <1>2, <2>1
  <2> QED
    BY <2>2 DEF U
<1>4. IsFiniteSet({P!Control(d, m) : m \in Subscriptions[d]})
  <2> DEFINE f == [m \in Subscriptions[d] |-> P!Control(d, m)]
             U == {P!Control(d, m) : m \in Subscriptions[d]}
  <2>1. f \in Surjection(Subscriptions[d], U)
    BY DEF Surjection
  <2> HIDE DEF f, U
  <2>2. IsFiniteSet(U)
    BY <1>1, <1>2, <2>1
  <2> QED
    BY <2>2 DEF U
<1> QED
  BY <1>1, <1>3, <1>4 DEF AppPackets

\* Nothing has been sent.
LEMMA InitApps ==
  ASSUME P!ApplicationsAssumption, P!Init
  PROVE  AppsInv
<1>1. IsFiniteSet({}) /\ Cardinality({}) = 0
  BY FS_EmptySet
<1>2. AppTypes
  BY <1>1, AppConstants DEF P!Init, AppTypes, P!Never, AppPackets
<1>3. AskedOnce /\ StreamsDue /\ P!QueuesApart
  BY DEF P!Init, AskedOnce, StreamsDue, P!QueuesApart, P!NoArrival
<1>4. IdsBehind /\ P!IdsUsedOnce
  BY AppConstants DEF P!Init, IdsBehind, P!IdsUsedOnce, P!Never
<1> QED
  BY <1>2, <1>3, <1>4 DEF AppsInv

\* What packets there are depends on the kind of the applications only.
LEMMA SamePackets ==
  ASSUME kind' = kind
  PROVE  AppPackets' = AppPackets
BY DEF AppPackets, P!Interest, P!Control, P!Capsule

\* All Interests of a PDC are sent at once, and never again.
LEMMA SendInterestInv ==
  ASSUME P!ApplicationsAssumption, AppsInv, NEW d \in Pdcs, P!SendInterest(d)
  PROVE  AppsInv'
<1>1. /\ kind # "ndn" /\ interestAt[d] = pnow
      /\ interestAt' = [interestAt EXCEPT ![d] = P!Never]
      /\ P!Sends(net, {P!Interest(d, m) : m \in Subscriptions[d]})
      /\ UNCHANGED <<kind, pnow, nextDataId, streamAt, controlAt, lastCapsule, arrival>>
  BY DEF P!SendInterest
<1>2. /\ net' \subseteq net \cup {P!Interest(d, m) : m \in Subscriptions[d]}
      /\ net' \subseteq AppPackets /\ IsFiniteSet(net') /\ Cardinality(net') <= MaxInFlight
  BY <1>1, SentAway, AskedPackets DEF AppsInv
<1>3. AppTypes'
  BY <1>1, <1>2, SamePackets DEF AppsInv, AppTypes, P!Never
<1>4. AskedOnce'
  <2>1. interestAt \in [Pdcs -> Int] /\ interestAt[d] # P!Never
    BY <1>1, AppConstants DEF AppsInv, AppTypes, P!Never
  <2>2. \A e \in Pdcs, m \in Pmus :
          P!Interest(e, m) \in net' => e = d \/ P!Interest(e, m) \in net
    BY <1>2, PacketFields
  <2>3. \A e \in Pdcs, m \in Pmus :
          /\ P!Interest(e, m) \in net' => interestAt'[e] = P!Never /\ streamAt'[m][e] = P!Never
          /\ interestAt'[e] # P!Never => streamAt'[m][e] = P!Never
    BY <1>1, <2>1, <2>2 DEF AppsInv, AskedOnce
  <2> QED
    BY <1>1, <2>3 DEF AskedOnce, P!Interest
<1> QED
  BY <1>1, <1>3, <1>4 DEF AppsInv, StreamsDue, IdsBehind, P!IdsUsedOnce, P!QueuesApart

\* The PDC of the NDN kind asks again, but its PMUs send no streams.
LEMMA SendInterestAgainInv ==
  ASSUME P!ApplicationsAssumption, AppsInv, NEW d \in Pdcs, P!SendInterestAgain(d)
  PROVE  AppsInv'
<1>1. /\ kind = "ndn"
      /\ interestAt' = [interestAt EXCEPT ![d] = pnow + OneSecond]
      /\ P!Sends(net, {P!Interest(d, m) : m \in Subscriptions[d]})
      /\ UNCHANGED <<kind, pnow, nextDataId, streamAt, controlAt, lastCapsule, arrival>>
  BY DEF P!SendInterestAgain
<1>2. net' \subseteq AppPackets /\ IsFiniteSet(net') /\ Cardinality(net') <= MaxInFlight
  BY <1>1, SentAway, AskedPackets DEF AppsInv
<1>3. AppTypes'
  <2>1. pnow + OneSecond \in Int
    BY AppConstants DEF AppsInv, AppTypes
  <2> QED
    BY <1>1, <1>2, <2>1, SamePackets DEF AppsInv, AppTypes
<1>4. AskedOnce'
  BY <1>1 DEF AppsInv, AskedOnce
<1> QED
  BY <1>1, <1>3, <1>4 DEF AppsInv, StreamsDue, IdsBehind, P!IdsUsedOnce, P!QueuesApart

\* Control messages begin no stream.
LEMMA SendControlInv ==
  ASSUME P!ApplicationsAssumption, AppsInv, NEW d \in Pdcs, P!SendUpSideControlMessage(d)
  PROVE  AppsInv'
<1>1. /\ P!Sends(net, {P!Control(d, m) : m \in Subscriptions[d]})
      /\ UNCHANGED <<kind, pnow, nextDataId, streamAt, interestAt, lastCapsule, arrival>>
  BY DEF P!SendUpSideControlMessage
<1>2. /\ net' \subseteq net \cup {P!Control(d, m) : m \in Subscriptions[d]}
      /\ net' \subseteq AppPackets /\ IsFiniteSet(net') /\ Cardinality(net') <= MaxInFlight
  BY <1>1, SentAway, AskedPackets DEF AppsInv
<1>3. AppTypes'
  BY <1>1, <1>2, SamePackets DEF AppsInv, AppTypes
<1>4. AskedOnce'
  <2>1. \A e \in Pdcs, m \in Pmus : P!Interest(e, m) \in net' => P!Interest(e, m) \in net
    BY <1>2, PacketFields
  <2> QED
    BY <1>1, <2>1 DEF AppsInv, AskedOnce, P!Interest
<1> QED
  BY <1>1, <1>3, <1>4 DEF AppsInv, StreamsDue, IdsBehind, P!IdsUsedOnce, P!QueuesApart

\* A capsule takes the next id of its PMU, is sent when it was due, and makes the next due.
LEMMA SendDataInv ==
  ASSUME P!ApplicationsAssumption, AppsInv, NEW m \in Pmus, NEW d \in Pdcs,
         NEW left, left \subseteq net, P!SendData(m, d, left), kind # "ndn",
         P!Interest(d, m) \notin left, interestAt[d] = P!Never, nextDataId[m] < MaxCapsules,
         UNCHANGED <<kind, pnow, interestAt, arrival>>
  PROVE  AppsInv'
<1>1. /\ P!Sends(left, {P!Capsule(m, d, nextDataId[m])})
      /\ lastCapsule' = [lastCapsule EXCEPT ![m][d] = [id |-> nextDataId[m], at |-> pnow]]
      /\ nextDataId' = [nextDataId EXCEPT ![m] = @ + 1]
      /\ streamAt' = [streamAt EXCEPT ![m][d] = pnow + Piat]
  BY DEF P!SendData
<1>2. /\ MaxCapsules \in Nat /\ AppTime \in Nat /\ Piat \in Nat /\ pnow \in 0..AppTime
      /\ nextDataId \in [Pmus -> 0..MaxCapsules]
      /\ streamAt \in [Pmus -> [Pdcs -> 0..(AppTime + Piat) \cup {P!Never}]]
      /\ lastCapsule \in [Pmus -> [Pdcs -> [id : Nat \cup {P!Never}, at : Int]]]
  BY AppConstants DEF AppsInv, AppTypes
<1>3. /\ {P!Capsule(m, d, nextDataId[m])} \subseteq AppPackets
      /\ IsFiniteSet({P!Capsule(m, d, nextDataId[m])})
  <2>1. nextDataId[m] \in Nat
    BY <1>2
  <2>2. P!Capsule(m, d, nextDataId[m]) \in AppPackets
    BY <2>1 DEF AppPackets
  <2> QED
    BY <2>2, FS_Singleton
<1>4. /\ net' \subseteq left \cup {P!Capsule(m, d, nextDataId[m])}
      /\ net' \subseteq AppPackets /\ IsFiniteSet(net') /\ Cardinality(net') <= MaxInFlight
  BY <1>1, <1>3, SentAway DEF AppsInv
<1>5. /\ lastCapsule'[m][d].id = nextDataId[m] /\ lastCapsule'[m][d].at = pnow
      /\ streamAt'[m][d] = pnow + Piat /\ nextDataId'[m] = nextDataId[m] + 1
      /\ \A a \in Pmus : a # m => nextDataId'[a] = nextDataId[a]
      /\ \A a \in Pmus, e \in Pdcs : a # m \/ e # d =>
            lastCapsule'[a][e] = lastCapsule[a][e] /\ streamAt'[a][e] = streamAt[a][e]
  BY <1>1, <1>2
<1>6. AppTypes'
  <2>1. nextDataId' \in [Pmus -> 0..MaxCapsules]
    BY <1>1, <1>2
  <2>2. streamAt' \in [Pmus -> [Pdcs -> 0..(AppTime + Piat) \cup {P!Never}]]
    BY <1>1, <1>2
  <2>3. lastCapsule' \in [Pmus -> [Pdcs -> [id : Nat \cup {P!Never}, at : Int]]]
    <3>1. [id |-> nextDataId[m], at |-> pnow] \in [id : Nat \cup {P!Never}, at : Int]
      BY <1>2
    <3> QED
      BY <1>1, <1>2, <3>1
  <2> QED
    BY <1>4, <2>1, <2>2, <2>3, SamePackets DEF AppsInv, AppTypes
<1>7. AskedOnce'
  <2>1. \A e \in Pdcs, a \in Pmus :
          P!Interest(e, a) \in net' => P!Interest(e, a) \in net /\ (a # m \/ e # d)
    BY <1>4, PacketFields
  <2>2. \A e \in Pdcs, a \in Pmus :
          /\ P!Interest(e, a) \in net' => interestAt'[e] = P!Never /\ streamAt'[a][e] = P!Never
          /\ interestAt'[e] # P!Never => streamAt'[a][e] = P!Never
    BY <1>5, <2>1 DEF AppsInv, AskedOnce
  <2> QED
    BY <2>2 DEF AskedOnce, P!Interest
<1>8. StreamsDue'
  <2> SUFFICES ASSUME NEW a \in Pmus, NEW e \in Pdcs, streamAt'[a][e] # P!Never
               PROVE  /\ streamAt'[a][e] = lastCapsule'[a][e].at + Piat
                      /\ (\A f \in Pdcs \ {e} : streamAt'[a][f] = P!Never) =>
                           nextDataId'[a] = lastCapsule'[a][e].id + 1
    BY DEF StreamsDue
  <2>1. CASE a = m /\ e = d
    BY <1>5, <2>1
  <2>2. CASE a = m /\ e # d
    <3>1. streamAt'[m][d] # P!Never
      BY <1>2, <1>5 DEF P!Never
    <3> QED
      BY <1>5, <2>2, <3>1 DEF AppsInv, StreamsDue
  <2>3. CASE a # m
    BY <1>5, <2>3 DEF AppsInv, StreamsDue
  <2> QED
    BY <2>1, <2>2, <2>3
<1>9. IdsBehind' /\ P!IdsUsedOnce'
  <2>1. \A a \in Pmus, e \in Pdcs :
          /\ nextDataId[a] \in Nat /\ lastCapsule[a][e].id \in Nat \cup {P!Never}
          /\ lastCapsule[a][e].id < nextDataId[a]
    BY <1>2 DEF AppsInv, IdsBehind
  <2>2. IdsBehind'
    <3> SUFFICES ASSUME NEW a \in Pmus, NEW e \in Pdcs
                 PROVE  lastCapsule'[a][e].id < nextDataId'[a]
      BY DEF IdsBehind
    <3>1. CASE a = m /\ e = d
      BY <1>5, <2>1, <3>1
    <3>2. CASE a = m /\ e # d
      BY <1>5, <2>1, <3>2 DEF P!Never
    <3>3. CASE a # m
      BY <1>5, <2>1, <3>3
    <3> QED
      BY <3>1, <3>2, <3>3
  <2>3. P!IdsUsedOnce'
    <3> SUFFICES ASSUME NEW a \in Pmus, NEW e \in Pdcs, NEW f \in Pdcs, e # f,
                        lastCapsule'[a][e].id # P!Never
                 PROVE  lastCapsule'[a][e].id # lastCapsule'[a][f].id
      BY DEF P!IdsUsedOnce
    <3>1. CASE a = m /\ e = d
      BY <1>5, <2>1, <3>1
    <3>2. CASE a = m /\ f = d
      BY <1>5, <2>1, <3>2
    <3>3. CASE a # m \/ (e # d /\ f # d)
      BY <1>5, <3>3 DEF AppsInv, P!IdsUsedOnce
    <3> QED
      BY <3>1, <3>2, <3>3
  <2> QED
    BY <2>2, <2>3
<1> QED
  BY <1>6, <1>7, <1>8, <1>9 DEF AppsInv, P!QueuesApart

\* The one Interest of a PDC begins the stream.
LEMMA OnInterestInv ==
  ASSUME P!ApplicationsAssumption, AppsInv, NEW p \in net, P!OnInterest(p)
  PROVE  AppsInv' /\ p.pmu \in Pmus /\ p.pdc \in Pdcs /\ streamAt[p.pmu][p.pdc] = P!Never
<1>1. /\ kind # "ndn" /\ p.type = "Interest" /\ nextDataId[p.pmu] < MaxCapsules
      /\ P!SendData(p.pmu, p.pdc, net \ {p})
      /\ UNCHANGED <<kind, pnow, interestAt, controlAt, arrival>>
  BY DEF P!OnInterest
<1>2. p \in AppPackets
  BY DEF AppsInv, AppTypes
<1>3. PICK d \in Pdcs, m \in Pmus : p = P!Interest(d, m)
  <2>1. CASE p \in {P!Control(d, m) : d \in Pdcs, m \in Pmus}
    BY <1>1, <2>1, PacketFields
  <2>2. CASE p \in {P!Capsule(m, d, id) : m \in Pmus, d \in Pdcs, id \in Nat \cup {P!Never}}
    BY <1>1, <2>2, PacketFields
  <2> QED
    BY <1>2, <2>1, <2>2 DEF AppPackets
<1>4. p.pmu = m /\ p.pdc = d
  BY <1>3, PacketFields
<1>5. interestAt[d] = P!Never /\ streamAt[m][d] = P!Never
  BY <1>1, <1>3 DEF AppsInv, AskedOnce
<1>6. P!Interest(d, m) \notin net \ {p} /\ net \ {p} \subseteq net
  BY <1>3
<1>7. AppsInv'
  BY <1>1, <1>4, <1>5, <1>6, SendDataInv
<1> QED
  BY <1>4, <1>5, <1>7

\* A stream that goes on has begun.
LEMMA ContinueInv ==
  ASSUME P!ApplicationsAssumption, AppsInv, NEW m \in Pmus, NEW d \in Pdcs, P!Continue(m, d)
  PROVE  AppsInv' /\ streamAt[m][d] # P!Never
<1>1. /\ streamAt[m][d] = pnow /\ nextDataId[m] < MaxCapsules /\ P!SendData(m, d, net)
      /\ UNCHANGED <<kind, pnow, interestAt, controlAt, arrival>>
  BY DEF P!Continue
<1>2. streamAt[m][d] # P!Never
  BY <1>1 DEF AppsInv, AppTypes, P!Never
<1>3. kind # "ndn" /\ P!Interest(d, m) \notin net /\ interestAt[d] = P!Never
  BY <1>2 DEF AppsInv, AskedOnce
<1> QED
  BY <1>1, <1>2, <1>3, SendDataInv

\* The PMU of the NDN kind answers with one Data.
LEMMA AnswerInterestInv ==
  ASSUME P!ApplicationsAssumption, AppsInv, NEW p \in net, P!AnswerInterest(p)
  PROVE  AppsInv'
<1>1. /\ kind = "ndn" /\ p.type = "Interest"
      /\ P!Sends(net \ {p}, {P!Capsule(p.pmu, p.pdc, P!Never)})
      /\ UNCHANGED <<kind, pnow, nextDataId, streamAt, interestAt, controlAt, lastCapsule, arrival>>
  BY DEF P!AnswerInterest
<1>2. PICK d \in Pdcs, m \in Pmus : p = P!Interest(d, m)
  <2>1. p \in AppPackets
    BY DEF AppsInv, AppTypes
  <2>2. CASE p \in {P!Control(d, m) : d \in Pdcs, m \in Pmus}
    BY <1>1, <2>2, PacketFields
  <2>3. CASE p \in {P!Capsule(m, d, id) : m \in Pmus, d \in Pdcs, id \in Nat \cup {P!Never}}
    BY <1>1, <2>3, PacketFields
  <2> QED
    BY <2>1, <2>2, <2>3 DEF AppPackets
<1>3. P!Capsule(p.pmu, p.pdc, P!Never) \in AppPackets
  BY <1>2, PacketFields DEF AppPackets
<1>4. net' \subseteq AppPackets /\ IsFiniteSet(net') /\ Cardinality(net') <= MaxInFlight
  <2>1. net \ {p} \subseteq net /\ IsFiniteSet({P!Capsule(p.pmu, p.pdc, P!Never)})
    BY FS_Singleton
  <2> QED
    BY <1>1, <1>3, <2>1, SentAway DEF AppsInv
<1>5. AppTypes'
  BY <1>1, <1>4, SamePackets DEF AppsInv, AppTypes
<1>6. AskedOnce'
  BY <1>1 DEF AppsInv, AskedOnce
<1> QED
  BY <1>1, <1>5, <1>6 DEF AppsInv, StreamsDue, IdsBehind, P!IdsUsedOnce, P!QueuesApart

\* Taking a packet out begins no stream.
LEMMA TakenInv ==
  ASSUME P!ApplicationsAssumption, AppsInv, NEW p \in net, net' = net \ {p},
         UNCHANGED <<kind, pnow, nextDataId, streamAt, interestAt, lastCapsule>>,
         P!QueuesApart'
  PROVE  AppsInv'
<1>1. AppTypes'
  BY TakenOut, SamePackets DEF AppsInv, AppTypes
<1>2. AskedOnce'
  BY DEF AppsInv, AskedOnce, P!Interest
<1> QED
  BY <1>1, <1>2 DEF AppsInv, StreamsDue, IdsBehind, P!IdsUsedOnce

\* A capsule is queued for the PMU that sent it: its name parses with no other prefix.
LEMMA OnDataInv ==
  ASSUME P!ApplicationsAssumption, AppsInv, NEW p \in net, P!OnData(p)
  PROVE  AppsInv'
<1> DEFINE fits == {m \in Subscriptions[p.pdc] : P!ParseDataUri(p.uri, m)}
<1>1. /\ kind = "lltc" /\ p.type = "Data" /\ net' = net \ {p}
      /\ UNCHANGED <<kind, pnow, nextDataId, streamAt, interestAt, controlAt, lastCapsule>>
      /\ \/ UNCHANGED arrival
         \/ \E m \in fits : arrival' = [pdc |-> {p.pdc}, queue |-> {m}, from |-> {p.pmu}]
  BY DEF P!OnData
<1>2. PICK a \in Pmus, d \in Pdcs, id \in Nat \cup {P!Never} : p = P!Capsule(a, d, id)
  <2>1. p \in AppPackets
    BY DEF AppsInv, AppTypes
  <2>2. CASE p \in {P!Control(d, m) : d \in Pdcs, m \in Pmus}
    BY <1>1, <2>2, PacketFields
  <2>3. CASE p \in {P!Interest(d, m) : d \in Pdcs, m \in Pmus}
    BY <1>1, <2>3, PacketFields
  <2> QED
    BY <2>1, <2>2, <2>3 DEF AppPackets
<1>3. p.pmu = a /\ p.pdc = d /\ p.uri = Prefix[a] \o <<"/Capsule/">>
  BY <1>1, <1>2 DEF P!Capsule
<1>4. \A m \in fits : m = a
  <2> TAKE m \in fits
  <2>1. m \in Pmus /\ P!ParseDataUri(Prefix[a] \o <<"/Capsule/">>, m)
    BY <1>3, AppConstants
  <2> QED
    BY <2>1, ParsesOnce
<1>5. P!QueuesApart'
  <2>1. CASE UNCHANGED arrival
    BY <2>1 DEF AppsInv, P!QueuesApart
  <2>2. CASE \E m \in fits : arrival' = [pdc |-> {p.pdc}, queue |-> {m}, from |-> {p.pmu}]
    BY <1>3, <1>4, <2>2 DEF P!QueuesApart
  <2> QED
    BY <1>1, <2>1, <2>2
<1> QED
  BY <1>1, <1>5, TakenInv

\* The clock moves on when nothing is due.
LEMMA AppTickInv ==
  ASSUME P!ApplicationsAssumption, AppsInv, P!Tick
  PROVE  AppsInv'
<1>1. /\ pnow < AppTime /\ pnow' = pnow + 1
      /\ UNCHANGED <<kind, nextDataId, streamAt, interestAt, controlAt, net, lastCapsule, arrival>>
  BY DEF P!Tick
<1>2. AppTypes'
  BY <1>1, AppConstants, SamePackets DEF AppsInv, AppTypes
<1> QED
  BY <1>1, <1>2 DEF AppsInv, AskedOnce, P!Interest, StreamsDue, IdsBehind, P!IdsUsedOnce, P!QueuesApart

\* What a step may do to a stream that has begun.
Paced(m, d) ==
  streamAt[m][d] # P!Never =>
    /\ streamAt'[m][d] # P!Never
    /\ lastCapsule'[m][d] # lastCapsule[m][d] =>
         /\ lastCapsule'[m][d].at = lastCapsule[m][d].at + Piat
         /\ (\A e \in Pdcs \ {d} : streamAt[m][e] = P!Never) =>
              lastCapsule'[m][d].id = lastCapsule[m][d].id + 1

\* What is sent for a stream is sent when it was due.
LEMMA SendDataPaced ==
  ASSUME P!ApplicationsAssumption, AppsInv, NEW m \in Pmus, NEW d \in Pdcs,
         NEW left, P!SendData(m, d, left), streamAt[m][d] \in {P!Never, pnow},
         NEW a \in Pmus, NEW e \in Pdcs
  PROVE  Paced(a, e)
<1>1. /\ lastCapsule' = [lastCapsule EXCEPT ![m][d] = [id |-> nextDataId[m], at |-> pnow]]
      /\ streamAt' = [streamAt EXCEPT ![m][d] = pnow + Piat]
  BY DEF P!SendData
<1>2. /\ Piat \in Nat /\ pnow \in Nat
      /\ streamAt \in [Pmus -> [Pdcs -> 0..(AppTime + Piat) \cup {P!Never}]]
      /\ lastCapsule \in [Pmus -> [Pdcs -> [id : Nat \cup {P!Never}, at : Int]]]
  BY AppConstants DEF AppsInv, AppTypes
<1>3. /\ lastCapsule'[m][d].id = nextDataId[m] /\ lastCapsule'[m][d].at = pnow
      /\ streamAt'[m][d] = pnow + Piat
      /\ a # m \/ e # d =>
            lastCapsule'[a][e] = lastCapsule[a][e] /\ streamAt'[a][e] = streamAt[a][e]
  BY <1>1, <1>2
<1>4. streamAt'[m][d] # P!Never
  BY <1>2, <1>3 DEF P!Never
<1>5. CASE a = m /\ e = d
  BY <1>3, <1>4, <1>5 DEF Paced, AppsInv, StreamsDue
<1>6. CASE a # m \/ e # d
  BY <1>3, <1>6 DEF Paced
<1> QED
  BY <1>5, <1>6

\* Each step keeps the invariant.
LEMMA AppsNextInv ==
  ASSUME P!ApplicationsAssumption, AppsInv, [P!Next]_P!vars
  PROVE  AppsInv'
<1>1. CASE \E d \in Pdcs : P!SendInterest(d) \/ P!SendInterestAgain(d) \/ P!SendUpSideControlMessage(d)
  BY <1>1, SendInterestInv, SendInterestAgainInv, SendControlInv
<1>2. CASE \E p \in net : P!OnInterest(p) \/ P!AnswerInterest(p) \/ P!OnData(p) \/ P!LogData(p)
                         \/ P!OnControl(p)
  <2>1. PICK p \in net : P!OnInterest(p) \/ P!AnswerInterest(p) \/ P!OnData(p) \/ P!LogData(p)
                          \/ P!OnControl(p)
    BY <1>2
  <2>2. CASE P!LogData(p) \/ P!OnControl(p)
    BY <2>2, TakenInv DEF P!LogData, P!OnControl, AppsInv, P!QueuesApart
  <2> QED
    BY <2>1, <2>2, OnInterestInv, AnswerInterestInv, OnDataInv
<1>3. CASE \E m \in Pmus, d \in Pdcs : P!Continue(m, d)
  BY <1>3, ContinueInv
<1>4. CASE P!Tick
  BY <1>4, AppTickInv
<1>5. CASE UNCHANGED P!vars
  BY <1>5, SamePackets DEF P!vars, AppsInv, AppTypes, AskedOnce, P!Interest, StreamsDue, IdsBehind,
     P!IdsUsedOnce, P!QueuesApart
<1> QED
  BY <1>1, <1>2, <1>3, <1>4, <1>5 DEF P!Next

\* Each step keeps the pace of each stream.
LEMMA AppsNextPaced ==
  ASSUME P!ApplicationsAssumption, AppsInv, [P!Next]_P!vars, NEW m \in Pmus, NEW d \in Pdcs
  PROVE  Paced(m, d)
<1>1. CASE UNCHANGED <<streamAt, lastCapsule>>
  BY <1>1 DEF Paced
<1>2. CASE \E p \in net : P!OnInterest(p)
  <2>1. PICK p \in net : P!OnInterest(p)
    BY <1>2
  <2>2. p.pmu \in Pmus /\ p.pdc \in Pdcs /\ streamAt[p.pmu][p.pdc] = P!Never
    BY <2>1, OnInterestInv
  <2>3. P!SendData(p.pmu, p.pdc, net \ {p})
    BY <2>1 DEF P!OnInterest
  <2> QED
    BY <2>2, <2>3, SendDataPaced
<1>3. CASE \E a \in Pmus, e \in Pdcs : P!Continue(a, e)
  BY <1>3, SendDataPaced DEF P!Continue
<1> QED
  BY <1>1, <1>2, <1>3
     DEF P!Next, P!vars, P!SendInterest, P!SendInterestAgain, P!SendUpSideControlMessage,
         P!AnswerInterest, P!OnData, P!LogData, P!OnControl, P!Tick

\* For any PMUs and PDCs and any times, each capsule is queued with those of its PMU, no id
\* is used for two streams, and each stream sends a capsule a Piat after the last for ever
\* (OnData and parseDataUri of lltc-pdc.cpp, SendData of lltc-pmu.cpp and generic-pmu.cpp).
THEOREM StreamsKeepPace ==
  ASSUME P!ApplicationsAssumption
  PROVE  P!Spec => [](P!QueuesApart /\ P!IdsUsedOnce /\ P!TypeOK) /\ P!StreamsPaced
<1>1. P!Init => AppsInv
  BY InitApps
<1>2. AppsInv /\ [P!Next]_P!vars => AppsInv'
  BY AppsNextInv
<1>3. AppsInv => P!QueuesApart /\ P!IdsUsedOnce /\ P!TypeOK
  BY AppSizes DEF AppsInv, AppTypes, P!TypeOK
<1>4. AppsInv /\ [P!Next]_P!vars =>
        [\A m \in Pmus, d \in Pdcs :
           streamAt[m][d] # P!Never =>
             /\ streamAt'[m][d] # P!Never
             /\ lastCapsule'[m][d] # lastCapsule[m][d] =>
                  /\ lastCapsule'[m][d].at = lastCapsule[m][d].at + Piat
                  /\ (\A e \in Pdcs \ {d} : streamAt[m][e] = P!Never) =>
                       lastCapsule'[m][d].id = lastCapsule[m][d].id + 1]_P!vars
  BY AppsNextPaced DEF Paced
<1> QED
  BY <1>1, <1>2, <1>3, <1>4, PTL DEF P!Spec, P!StreamsPaced
===============================================================================
