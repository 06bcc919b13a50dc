--------------------------- MODULE ResequenceQueue ----------------------------
(***************************************************************************)
(* LltcResequenceQueue, the queue in which the receiving application (PDC) *)
(* puts the capsules of one stream back in order: a capsule that follows   *)
(* the last one passed on goes straight through, any other waits until the *)
(* gap before it is filled, until a capsule at or behind it has waited     *)
(* maxWaitTime, or until the queue is full.                                *)
(*                                                                         *)
(* Time is a counter; the simulator runs every event due before the clock  *)
(* moves on.  A capsule arrives at most once: the last router delivers it  *)
(* once (DeliveredOnce of RetransControl).                                 *)
(***************************************************************************)
EXTENDS Integers, Sequences, FiniteSets, FiniteSetsExt

CONSTANTS
  MaxDataId,    \* the stream carries the ids 0..MaxDataId
  size,         \* capacity of q_seq
  maxWaitTime,  \* nResequenceRangeInPackets * piat
  MaxTime       \* bound on the time capsules arrive at

VARIABLES
  lastDataId,   \* the id passed on last, -1 before the first
  q_seq,        \* the waiting capsules, a priority queue by id
  q_time,       \* the capsules queued and not yet aged, a queue by arrival
  tasks,        \* time -> number of autoDequeueTask events queued for it
  now,          \* Simulator::Now()
  arrived,      \* ids received
  passed,       \* ids passed on to the application, in order
  promised      \* the capsules an autoDequeueTask was scheduled for

vars == <<lastDataId, q_seq, q_time, tasks, now, arrived, passed, promised>>

ResequenceQueueAssumption ==
  /\ MaxDataId \in Nat
  /\ size \in Nat \ {0}
  /\ maxWaitTime \in Nat \ {0}
  /\ MaxTime \in Nat

DataIds == 0..MaxDataId
Times == 0..(MaxTime + maxWaitTime)
DataElement == [id : DataIds, arriveTime : Times]

IdsOf(es) == {e.id : e \in es}
Ascending(ids) ==
  [k \in 1..Cardinality(ids) |-> CHOOSE d \in ids : Cardinality({e \in ids : e < d}) = k - 1]

Init ==
  /\ lastDataId = -1
  /\ q_seq = {}
  /\ q_time = {}
  /\ tasks = [t \in Times |-> 0]
  /\ now = 0
  /\ arrived = {}
  /\ passed = <<>>
  /\ promised = {}

-------------------------------------------------------------------------------
(* A record s of the fields a release works on: last, seq, time, and sent, *)
(* the ids passed on so far.                                               *)

\* The ids that follow lastDataId without a gap, from the top of q_seq on.
InOrderRun(s) ==
  LET ids == IdsOf(s.seq) IN
    {d \in ids : (\A m \in ids : m > s.last) /\ (s.last + 1)..d \subseteq ids}

Take(s, ids, last) ==
  [s EXCEPT !.seq = {e \in @ : e.id \notin ids}, !.last = last, !.sent = @ \o Ascending(ids)]

ReleaseInOrder(s) ==
  LET run == InOrderRun(s) IN Take(s, run, s.last + Cardinality(run))

Aged(s) == {e \in s.time : e.arriveTime <= now - maxWaitTime}

\* Everything up to the greatest aged id is passed on, gaps or not.
ReleaseAged(s) ==
  LET due == {d \in IdsOf(s.seq) : \E e \in Aged(s) : d <= e.id}
  IN  [Take(s, due, IF due = {} THEN s.last ELSE Max(due)) EXCEPT !.time = @ \ Aged(s)]

\* The ageing loop is not reached when the first loop empties the queue.
ReleaseQueue(s) ==
  LET r == ReleaseInOrder(s) IN IF r.seq = {} THEN r ELSE ReleaseAged(r)

\* Mutant: the top is passed on and stays.
MakeRoomWithoutPop(s) ==
  IF Cardinality(s.seq) = size
  THEN LET top == Min(IdsOf(s.seq)) IN [Take(s, {top}, top) EXCEPT !.seq = s.seq]
  ELSE s

\* A full queue gives its top up, whatever gap is before it and whatever arrives.
MakeRoom(s) ==
  IF Cardinality(s.seq) = size
  THEN LET top == Min(IdsOf(s.seq)) IN Take(s, {top}, top)
  ELSE s

Queue == [last |-> lastDataId, seq |-> q_seq, time |-> q_time, sent |-> passed]

Becomes(s) ==
  /\ lastDataId' = s.last
  /\ q_seq' = s.seq
  /\ q_time' = s.time
  /\ passed' = s.sent

-------------------------------------------------------------------------------
FollowsLast(d) == lastDataId = -1 \/ d = lastDataId + 1

\* receiveData of a capsule in order: it is passed on, the queue is not looked at.
ReceiveInOrder(d) ==
  /\ d \notin arrived
  /\ now <= MaxTime
  /\ FollowsLast(d)
  /\ passed' = Append(passed, d)
  /\ lastDataId' = d
  /\ arrived' = arrived \cup {d}
  /\ UNCHANGED <<q_seq, q_time, tasks, now, promised>>

\* receiveData of any other capsule.  The event scheduled is never stored in
\* curAutoDequeueTaskEvent, so that no queued event is ever removed.  (Of capsules
\* queued at the same moment any may stand for the front: they age together.)
ReceiveOutOfOrder(d) ==
  LET de == [id |-> d, arriveTime |-> now]
      s  == MakeRoom(Queue)
      r  == ReleaseQueue([s EXCEPT !.seq = @ \cup {de}, !.time = @ \cup {de}])
      oldest == {e \in r.time : \A f \in r.time : e.arriveTime <= f.arriveTime}
  IN  /\ d \notin arrived
      /\ now <= MaxTime
      /\ ~ FollowsLast(d)
      /\ Becomes(r)
      /\ arrived' = arrived \cup {d}
      /\ IF r.seq = {}
         THEN UNCHANGED <<tasks, promised>>
         ELSE \E e \in oldest :
                /\ tasks' = [tasks EXCEPT ![e.arriveTime + maxWaitTime] = @ + 1]
                /\ promised' = promised \cup {e}
      /\ UNCHANGED now

\* autoDequeueTask: one of the events queued for now runs.  It schedules no other.
AutoDequeueTask ==
  /\ tasks[now] > 0
  /\ tasks' = [tasks EXCEPT ![now] = @ - 1]
  /\ Becomes(ReleaseQueue(Queue))
  /\ UNCHANGED <<now, arrived, promised>>

\* The clock moves on when no event is left for this time.
Tick ==
  /\ tasks[now] = 0
  /\ now < MaxTime + maxWaitTime
  /\ now' = now + 1
  /\ UNCHANGED <<lastDataId, q_seq, q_time, tasks, arrived, passed, promised>>

Next ==
  \/ \E d \in DataIds : ReceiveInOrder(d) \/ ReceiveOutOfOrder(d)
  \/ AutoDequeueTask
  \/ Tick

Spec == Init /\ [][Next]_vars

-------------------------------------------------------------------------------
TypeOK ==
  /\ lastDataId \in -1..MaxDataId
  /\ q_seq \subseteq DataElement
  /\ q_time \subseteq DataElement
  /\ tasks \in [Times -> Nat]
  /\ now \in Times
  /\ arrived \subseteq DataIds
  /\ passed \in Seq(DataIds)
  /\ promised \subseteq DataElement

\* The application gets every capsule that arrived and is not waiting, exactly
\* once: eviction, the in-order run, ageing and the fast path neither drop nor
\* repeat one.
PassedOnce ==
  /\ arrived = Range(passed) \cup IdsOf(q_seq)
  /\ Range(passed) \cap IdsOf(q_seq) = {}
  /\ Len(passed) = Cardinality(Range(passed))

NewlyPassed == {passed'[i] : i \in (Len(passed) + 1)..Len(passed')}
Overtaken(f, ps) == \E i \in 1..Len(ps) : ps[i] > f

\* No capsule is overtaken while it waits: one that was queued in front of all
\* that was passed on leaves before any greater one.
NoOvertaking ==
  [][\A e \in NewlyPassed, f \in IdsOf(q_seq \cap q_seq') :
        f < e => Overtaken(f, passed)]_vars

\* A gap is given up only for a reason: a capsule beyond it has waited
\* maxWaitTime, or the queue was full.
NoEarlySkip ==
  [][\A e \in NewlyPassed :
        (passed # <<>> /\ ~ Overtaken(e, passed)
           /\ \E m \in 0..(e - 1) : m \notin Range(passed') /\ ~ Overtaken(m, passed))
        => \/ Cardinality(q_seq) = size
           \/ \E x \in q_time : x.id >= e /\ x.arriveTime + maxWaitTime <= now]_vars

\* The capsule an event was scheduled for, and all that waited before it, are
\* passed on when its time is over, even if it left early and is only in q_time.
PromiseKept ==
  \A e \in promised, f \in q_seq :
    f.id <= e.id /\ f.arriveTime < e.arriveTime + maxWaitTime
      => now <= e.arriveTime + maxWaitTime
===============================================================================
