------------------------------ MODULE ActiveCheck ------------------------------
(***************************************************************************)
(* doActiveLinkConnectivityCheck for one face: capsules received are       *)
(* counted second by second, the recent throughput gives the time after    *)
(* which silence is suspicious, and each capsule puts off the test of the  *)
(* link that would follow.                                                 *)
(***************************************************************************)
EXTENDS Integers, Sequences, FiniteSets, FiniteSetsExt

CONSTANTS
  TicksPerSec, \* the clock is finer than the seconds the code counts in
  Period,      \* LLTC_ENABLE_FAILOVER_ACTIVE_CHECK_THROUGHPUT_PERIOD_SECS
  Factor,      \* Period * -log(1 - confidence ratio), in ticks
  MaxTime      \* bound: no capsule comes later

VARIABLES
  now,
  init_secs,        \* second of the first capsule
  last_count_secs,  \* second of the last capsule, -1 before the first
  counts,           \* num_received_Capsules_in_recent_secs
  waitCap,          \* waitCapForActiveFailoverEvents: time of the latest event, or None
  events,           \* times at which the simulator is to run the link test
  arrivals,         \* history: ticks at which a capsule came
  checks            \* history: ticks at which a link test began

vars == <<now, init_secs, last_count_secs, counts, waitCap, events, arrivals, checks>>

ActiveCheckAssumption ==
  /\ TicksPerSec \in Nat \ {0}
  /\ Period \in Nat \ {0}
  /\ Factor \in Nat
  /\ MaxTime \in Nat

None == -1
Second(t) == t \div TicksPerSec

Init ==
  /\ now = 0
  /\ init_secs = None
  /\ last_count_secs = None
  /\ counts = <<>>
  /\ waitCap = None
  /\ events = {}
  /\ arrivals = {}
  /\ checks = {}

-------------------------------------------------------------------------------
\* Mutant: seconds without a capsule are left out.
CountCapsuleNoGaps ==
  IF last_count_secs = Second(now) THEN [counts EXCEPT ![Len(counts)] = @ + 1]
  ELSE Append(counts, 1)

\* The first capsule starts the list; seconds without a capsule count 0.
CountCapsule ==
  LET n == IF last_count_secs = None THEN 1 ELSE Second(now) - init_secs + 1
      count(k) == IF k \in DOMAIN counts THEN counts[k] ELSE 0
  IN  [k \in 1..n |-> IF k = n THEN count(k) + 1 ELSE count(k)]

\* Capsules in the Period full seconds before the running one.
RecentTotal(c) == FoldSet(LAMBDA k, sum : sum + c[k], 0, (Len(c) - Period)..(Len(c) - 1))

Timeout(total) == Factor \div total

\* The pending event is removed and one is scheduled for the new timeout.
Reschedule(at) ==
  /\ waitCap' = at
  /\ events' = (events \ {waitCap}) \cup {at}

(***************************************************************************)
(* A capsule came from the face.  Without a capsule in the whole period    *)
(* the code divides by zero and schedules at infinity, which no integer    *)
(* time holds: the event runs at once or never.                            *)
(***************************************************************************)
DoActiveLinkConnectivityCheck ==
  /\ now < MaxTime
  /\ now \notin arrivals
  /\ arrivals' = arrivals \cup {now}
  /\ counts' = CountCapsule
  /\ init_secs' = IF last_count_secs = None THEN Second(now) ELSE init_secs
  /\ last_count_secs' = Second(now)
  /\ IF Len(counts') < Period + 1 THEN UNCHANGED <<waitCap, events>>
     ELSE IF RecentTotal(counts') > 0 THEN Reschedule(now + Timeout(RecentTotal(counts')))
     ELSE \/ Reschedule(now)
          \/ /\ waitCap' = None
             /\ events' = events \ {waitCap}
  /\ UNCHANGED <<now, checks>>

\* checkLinkConnectivityInActiveManner; the map keeps the event that has run.
CheckLinkConnectivityInActiveManner ==
  /\ now \in events
  /\ events' = events \ {now}
  /\ checks' = checks \cup {now}
  /\ UNCHANGED <<now, init_secs, last_count_secs, counts, waitCap, arrivals>>

Tick ==
  /\ now \notin events
  /\ now < MaxTime \/ events # {}
  /\ now' = now + 1
  /\ UNCHANGED <<init_secs, last_count_secs, counts, waitCap, events, arrivals, checks>>

Next == DoActiveLinkConnectivityCheck \/ CheckLinkConnectivityInActiveManner \/ Tick

Spec == Init /\ [][Next]_vars

-------------------------------------------------------------------------------
TypeOK ==
  /\ now \in Nat
  /\ init_secs \in Nat \cup {None}
  /\ last_count_secs \in Nat \cup {None}
  /\ counts \in Seq(Nat)
  /\ counts = <<>> <=> last_count_secs = None
  /\ waitCap \in Nat \cup {None}
  /\ events \subseteq Nat
  /\ arrivals \subseteq 0..now
  /\ checks \subseteq 0..now

\* Capsules that came in the period before the second of the last capsule.
LastCapsule == Max(arrivals)
RecentArrivals ==
  Cardinality({t \in arrivals : Second(t) \in (Second(LastCapsule) - Period)..(Second(LastCapsule) - 1)})

\* Once a whole period has been counted, and unless the period before was silent.
Watching ==
  /\ arrivals # {}
  /\ Second(LastCapsule) >= Second(Min(arrivals)) + Period
  /\ RecentArrivals > 0

\* The link is tested only once it has been silent for as long as the throughput
\* before the last capsule makes suspicious: every other event was put off.  And
\* silence is never overlooked: as long as the link is watched, a test is due or has
\* begun since the last capsule.
SilenceSuspected ==
  Watching =>
    /\ events \subseteq {LastCapsule + Factor \div RecentArrivals}
    /\ events # {} \/ \E t \in checks : t >= LastCapsule
===============================================================================
