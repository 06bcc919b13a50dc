----------------------------- MODULE DataIdQueue ------------------------------
(***************************************************************************)
(* LltcDataIdQueue, the class behind transmittedDataIds: a queue of ids, a *)
(* set of the same ids for the lookup, the time each was added, and a      *)
(* capacity n.  push counts the capacity up with every id it adds and down *)
(* with every id it evicts, so n is not the constant its name suggests.    *)
(*                                                                         *)
(* The router tests contains before it delivers a capsule: an id evicted   *)
(* would be delivered a second time.                                       *)
(***************************************************************************)
EXTENDS Integers, Sequences

CONSTANTS
  Ids,       \* the data ids pushed
  InitLen,   \* what setLen was given: queueSizeForTransmittedDataIds
  MaxTime    \* bound on the simulation time

VARIABLES
  q,                 \* the ids, oldest first
  set,               \* the ids
  dataIdAddTimeMap,  \* id -> the time it was pushed at
  n,                 \* the capacity
  now                \* the simulation time

vars == <<q, set, dataIdAddTimeMap, n, now>>

\* A capacity of 0 would make the first push read the front of an empty queue.
DataIdQueueAssumption ==
  /\ InitLen \in Nat \ {0}
  /\ MaxTime \in Nat
ASSUME DataIdQueueAssumption

QueuedIds == {q[i] : i \in 1..Len(q)}

Without(f, x) == [y \in DOMAIN f \ {x} |-> f[y]]
With(f, x, v) == [y \in DOMAIN f \cup {x} |-> IF y = x THEN v ELSE f[y]]

\* Mutant: setLen is not called, the constructor leaves n as it is.
InitWithoutLen ==
  /\ q = <<>>
  /\ set = {}
  /\ dataIdAddTimeMap = <<>>
  /\ n \in {-1, InitLen}
  /\ now = 0

Init ==
  /\ q = <<>>
  /\ set = {}
  /\ dataIdAddTimeMap = <<>>
  /\ n = InitLen
  /\ now = 0

-------------------------------------------------------------------------------
\* Mutant: push does not count the capacity up.
PushKeepingCapacity(x) ==
  /\ x \notin set
  /\ LET full == Len(q) = n IN
       /\ q' = Append(IF full THEN Tail(q) ELSE q, x)
       /\ set' = (IF full THEN set \ {Head(q)} ELSE set) \cup {x}
       /\ dataIdAddTimeMap' =
            With(IF full THEN Without(dataIdAddTimeMap, Head(q)) ELSE dataIdAddTimeMap, x, now)
  /\ UNCHANGED <<n, now>>

\* push: nothing for an id the set holds; else evict the front when the queue is
\* as long as the capacity, and append.  (The code's --n and ++n cancel out.)
Push(x) ==
  /\ x \notin set
  /\ LET full == Len(q) = n IN
       /\ q' = Append(IF full THEN Tail(q) ELSE q, x)
       /\ set' = (IF full THEN set \ {Head(q)} ELSE set) \cup {x}
       /\ dataIdAddTimeMap' =
            With(IF full THEN Without(dataIdAddTimeMap, Head(q)) ELSE dataIdAddTimeMap, x, now)
       /\ n' = IF full THEN n ELSE n + 1
  /\ UNCHANGED now

\* Mutant: pop leaves the id in the set.
PopKeepingSet ==
  /\ q # <<>>
  /\ q' = Tail(q)
  /\ dataIdAddTimeMap' = Without(dataIdAddTimeMap, Head(q))
  /\ n' = n - 1
  /\ UNCHANGED <<set, now>>

\* pop has no caller in the program; its front() needs an id to be there.
Pop ==
  /\ q # <<>>
  /\ q' = Tail(q)
  /\ set' = set \ {Head(q)}
  /\ dataIdAddTimeMap' = Without(dataIdAddTimeMap, Head(q))
  /\ n' = n - 1
  /\ UNCHANGED now

Tick == now < MaxTime /\ now' = now + 1 /\ UNCHANGED <<q, set, dataIdAddTimeMap, n>>

Next == (\E x \in Ids : Push(x)) \/ Pop \/ Tick

Spec == Init /\ [][Next]_vars

-------------------------------------------------------------------------------
TypeOK ==
  /\ q \in Seq(Ids)
  /\ set \subseteq Ids
  /\ DOMAIN dataIdAddTimeMap \subseteq Ids
  /\ \A x \in DOMAIN dataIdAddTimeMap : dataIdAddTimeMap[x] \in 0..MaxTime
  /\ n \in Nat
  /\ now \in 0..MaxTime

\* The three structures hold the same ids and no id is queued twice: what
\* contains answers, what getDataIdAddTime answers and what front names agree.
NoRepetition == \A i, j \in 1..Len(q) : q[i] = q[j] => i = j
SameIds == set = QueuedIds /\ DOMAIN dataIdAddTimeMap = set
Consistent == NoRepetition /\ SameIds

\* The capacity runs ahead of the queue by InitLen, so that no push ever evicts.
CapacityAhead == n = InitLen + Len(q)

\* No transmitted id is ever forgotten but by pop, which nothing calls: the
\* queue implements an unbounded memory, the set transmittedDataIds of LltcRouter.
Memory == INSTANCE IdMemory WITH known <- q
NeverForgets == Memory!Spec
===============================================================================
