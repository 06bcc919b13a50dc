------------------------- MODULE RetransControlProofs -------------------------
(***************************************************************************)
(* Proofs about RetransControl for every horizon, every set of paths, every *)
(* request budget and every report: the router keeps its types, delivers a  *)
(* capsule downstream exactly once, can always stop what it has queued, and *)
(* detects losses without a gap; at the first hop of a subgraph it asks for *)
(* a capsule in one way only.                                               *)
(*                                                                          *)
(* A handler is a composition of the operators of LltcRouter.  First part:  *)
(* most operators are silent, they neither mark a capsule as transmitted    *)
(* nor send one; silence composes, and a handler that is not silent does    *)
(* both for the same capsule.  Second part: each operator leaves most       *)
(* tables alone (the Same... frames) and keeps the others sound; the        *)
(* handlers follow operator by operator.                                    *)
(***************************************************************************)
EXTENDS RetransControl, FiniteSetTheorems, TLAPS

\* From s to r no capsule is marked transmitted and none is sent.
Silent(s, r) ==
  /\ r \in CapsuleForwardingStates
  /\ r.transmittedDataIds = s.transmittedDataIds
  /\ \A e \in DataIds : CapsulesIn(r.out, e) <=> CapsulesIn(s.out, e)
  /\ Renamings(r.out) = Renamings(s.out)

\* From s to r exactly the capsules newly marked transmitted are sent, each
\* under its id or under an earlier one of the set names.
Handled(s, r, names) ==
  /\ r \in CapsuleForwardingStates
  /\ s.transmittedDataIds \subseteq r.transmittedDataIds
  /\ \A e \in DataIds :
        CapsulesIn(r.out, e) <=> e \in r.transmittedDataIds \ s.transmittedDataIds
  /\ \A x \in Renamings(r.out) :
        x[1] \in names /\ x[2] \in r.transmittedDataIds /\ x[1] < x[2]

-------------------------------------------------------------------------------
\* A nonempty set of bounded naturals has a least element.
LEMMA LeastExists ==
  ASSUME NEW n \in Nat, NEW T \in SUBSET (0..n), T # {}
  PROVE  \E x \in T : \A y \in T : x <= y
<1> DEFINE S        == 0..n
           R        == StrictSubsetOrdering(S)
           Below(x) == {y \in T : y <= x}
           F        == {Below(x) : x \in T}
<1>1. IsFiniteSet(S)
  BY FS_Interval
<1>2. IsWellFoundedOn(R, SUBSET S)
  BY <1>1, FS_StrictSubsetOrderingWellFounded, FS_FiniteSubsetsOfFinite
<1>3. F \subseteq SUBSET S /\ F # {}
  OBVIOUS
<1> HIDE DEF F, S, R
<1>4. PICK A \in F : \A B \in F : ~(<<B, A>> \in R)
  BY <1>2, <1>3, WFMin
<1>5. PICK x \in T : A = Below(x)
  BY <1>4 DEF F
<1>6. ASSUME NEW y \in T, y < x PROVE FALSE
  <2>1. Below(y) \in F /\ Below(x) \in F
    BY DEF F
  <2>2. x \in Int /\ y \in Int /\ \A z \in T : z \in Int
    OBVIOUS
  <2>3. x \in Below(x) /\ x \notin Below(y)
    BY <1>6, <2>2
  <2>4. \A z \in T : z <= y => z <= x
    BY <1>6, <2>2
  <2>5. Below(y) \subseteq Below(x)
    BY <2>4
  <2>6. Below(y) # Below(x)
    BY <2>3
  <2> HIDE DEF Below
  <2>7. <<Below(y), Below(x)>> \in R
    BY <2>1, <2>5, <2>6, <1>3 DEF R, StrictSubsetOrdering
  <2> QED BY <2>1, <2>7, <1>4, <1>5
<1> QED BY <1>6

\* A nonempty set of naturals has a least element.
LEMMA LeastNaturalExists ==
  ASSUME NEW T \in SUBSET Nat, T # {}
  PROVE  \E x \in T : \A y \in T : x <= y
<1>1. PICK n \in T : TRUE
  OBVIOUS
<1> DEFINE U == T \cap (0..n)
<1>2. n \in Nat /\ U \in SUBSET (0..n) /\ U # {}
  BY <1>1
<1> HIDE DEF U
<1>3. PICK x \in U : \A y \in U : x <= y
  BY <1>2, LeastExists
<1>4. ASSUME NEW y \in T PROVE x <= y
  <2>1. y \in Nat /\ x \in 0..n
    BY <1>2
  <2>2. CASE y <= n
    BY <1>3, <2>1, <2>2 DEF U
  <2>3. CASE y > n
    BY <1>2, <2>1, <2>3
  <2> QED BY <1>2, <2>1, <2>2, <2>3
<1> QED BY <1>3, <1>4 DEF U

\* The same for the greatest element.
LEMMA GreatestExists ==
  ASSUME NEW n \in Nat, NEW T \in SUBSET (0..n), T # {}
  PROVE  \E x \in T : \A y \in T : y <= x
<1> DEFINE U == {u \in 0..n : n - u \in T}
<1>1. U # {}
  <2>1. PICK t \in T : TRUE
    OBVIOUS
  <2>2. n - t \in 0..n /\ n - (n - t) = t
    OBVIOUS
  <2> QED BY <2>1, <2>2
<1>2. PICK u \in U : \A v \in U : u <= v
  BY <1>1, LeastExists
<1>3. ASSUME NEW y \in T PROVE y <= n - u
  <2>1. n - y \in U
    OBVIOUS
  <2> QED BY <1>2, <2>1
<1> QED BY <1>2, <1>3

\* computeNextDataId always finds an id, and that id can be awaited.
LEMMA ComputeNextDataIdType ==
  ASSUME NEW s \in CapsuleForwardingStates, NEW cur \in DataIds, MaxDataId \in Nat
  PROVE  ComputeNextDataId(s, cur) \in WaitIds
<1> DEFINE T == {n \in 0..(MaxDataId + 1) : n > cur /\ n \notin Skipped(s)}
<1>1. Skipped(s) \subseteq DataIds
  BY DEF Skipped, CapsuleForwardingStates
<1>2. MaxDataId + 1 \in T
  BY <1>1 DEF DataIds
<1>3. PICK n \in T : \A m \in T : n <= m
  <2>1. T \in SUBSET (0..(MaxDataId + 1)) /\ T # {} /\ MaxDataId + 1 \in Nat
    BY <1>2
  <2> QED BY <2>1, LeastExists
<1>4. \A m \in (cur + 1)..(n - 1) : m \in Skipped(s)
  BY <1>3 DEF DataIds
<1>5. n \in (cur + 1)..(MaxDataId + 1)
  BY DEF DataIds
<1> HIDE DEF T
<1> QED BY <1>3, <1>4, <1>5 DEF ComputeNextDataId, WaitIds, DataIds, T

-------------------------------------------------------------------------------
\* Every message is well typed and only the two kinds of capsule count as one.
LEMMA MessageTypes ==
  ASSUME RetransControlAssumption
  PROVE  /\ \A d \in DataIds, p \in DownPaths :
               Capsule(d, p) \in Messages /\ \A n \in DataIds : CapsuleOnRSP(n, d, p) \in Messages
         /\ \A d \in WaitIds, p \in UpPaths : RequestS(d, p) \in Messages
         /\ \A b \in Nat, ids \in SUBSET DataIds, p \in UpPaths :
               RequestM(b, ids, p) \in Messages
         /\ \A u \in ReportUIDs \cup {NewUID}, ids \in SUBSET WaitIds,
              p \in DownPaths \cup {RsgId} : Report(u, ids, p) \in Messages
         /\ \A p \in UpPaths : LinkTest(p) \in Messages
  BY DEF Messages, Capsule, CapsuleOnRSP, RequestS, RequestM, Report, LinkTest

\* Doing nothing is silent.
LEMMA SilentReflexive ==
  ASSUME NEW s \in CapsuleForwardingStates
  PROVE  Silent(s, s)
  BY DEF Silent

\* Silent steps compose.
LEMMA SilentTransitive ==
  ASSUME NEW s, NEW r, NEW t, Silent(s, r), Silent(r, t)
  PROVE  Silent(s, t)
  BY DEF Silent

\* Messages that are not capsules carry none and rename none.
LEMMA OthersCarryNothing ==
  ASSUME NEW O, NEW M, \A m \in M : m.type \notin {"Capsule", "CapsuleOnRSP"}
  PROVE  /\ \A e : CapsulesIn(O \cup M, e) <=> CapsulesIn(O, e)
         /\ Renamings(O \cup M) = Renamings(O)
<1>1. \A e : CapsulesIn(O \cup M, e) <=> CapsulesIn(O, e)
  BY DEF CapsulesIn, Carries
<1>2. {n \in O \cup M : n.type = "CapsuleOnRSP" /\ n.id # n.of} =
        {n \in O : n.type = "CapsuleOnRSP" /\ n.id # n.of}
  OBVIOUS
<1> QED BY <1>1, <1>2 DEF Renamings

\* Sending anything but capsules is silent.
LEMMA SendSilent ==
  ASSUME NEW s \in CapsuleForwardingStates, NEW M \in SUBSET Messages,
         \A m \in M : m.type \notin {"Capsule", "CapsuleOnRSP"}
  PROVE  Silent(s, [s EXCEPT !.out = @ \cup M])
  BY OthersCarryNothing DEF Silent, CapsuleForwardingStates

\* A report carries no capsule, sent or not for want of a FIB entry.
LEMMA SendReportSilent ==
  ASSUME RetransControlAssumption,
         NEW s \in CapsuleForwardingStates, NEW ids \in SUBSET WaitIds, NEW rsg,
         NEW path \in DownPaths \cup {RsgId}
  PROVE  Silent(s, SendReport(s, ids, rsg, path))
<1> DEFINE M == {Report(NewUID, ids, path)}
<1>1. M \in SUBSET Messages
  BY MessageTypes
<1>2. \A m \in M : m.type \notin {"Capsule", "CapsuleOnRSP"}
  BY DEF Report
<1> HIDE DEF M
<1>3. Silent(s, [s EXCEPT !.out = @ \cup M])
  BY <1>1, <1>2, SendSilent
<1> QED BY <1>3, SilentReflexive DEF SendReport, M

\* Starting a wait is silent.
LEMMA WaitForNextCapsuleSilent ==
  ASSUME NEW s \in CapsuleForwardingStates, NEW d \in WaitIds
  PROVE  Silent(s, WaitForNextCapsule(s, d))
  BY DEF Silent, WaitForNextCapsule, CapsuleForwardingStates

\* Ending waits is silent.
LEMMA CleanWaitForNextEventSilent ==
  ASSUME NEW s \in CapsuleForwardingStates, NEW ids
  PROVE  Silent(s, CleanWaitForNextEvent(s, ids))
  BY DEF Silent, CleanWaitForNextEvent, CapsuleForwardingStates

\* Ending RequestS chains is silent.
LEMMA CleanRetranInSingleEventsSilent ==
  ASSUME NEW s \in CapsuleForwardingStates, NEW ids
  PROVE  Silent(s, CleanRetranInSingleEvents(s, ids))
  BY DEF Silent, CleanRetranInSingleEvents, CapsuleForwardingStates

\* A round of a RequestS chain spends one of its requests, or tests links.
LEMMA RequestSRoundSilent ==
  ASSUME RetransControlAssumption,
         NEW s \in CapsuleForwardingStates, NEW d \in WaitIds,
         NEW paths \in SUBSET UpPaths, NEW rest \in 0..NumRetransRequests
  PROVE  Silent(s, RequestSRound(s, d, paths, rest))
<1> DEFINE tests   == {LinkTest(p) : p \in paths}
           asks    == {RequestS(d, p) : p \in paths}
           entries == {<<d, p>> : p \in paths}
           timers  == {[id |-> d, path |-> p, rest |-> rest - 1] : p \in paths}
<1>1. tests \in SUBSET Messages /\ asks \in SUBSET Messages
  BY MessageTypes
<1>2. \A m \in tests \cup asks : m.type \notin {"Capsule", "CapsuleOnRSP"}
  BY DEF LinkTest, RequestS
<1>3. entries \subseteq Chains
  BY DEF Chains
<1>4. rest # 0 => timers \subseteq SingleEvents
  BY DEF SingleEvents, RetransControlAssumption
<1> HIDE DEF tests, asks, entries, timers
<1>5. CASE rest = 0
  <2>1. RequestSRound(s, d, paths, rest) = [s EXCEPT !.out = @ \cup tests]
    BY <1>5 DEF RequestSRound, tests
  <2> QED BY <2>1, <1>1, <1>2, SendSilent
<1>6. CASE rest # 0
  <2>1. RequestSRound(s, d, paths, rest) =
          [s EXCEPT !.out = @ \cup asks, !.retransInSingleEvents = @ \cup entries,
                    !.singleTimers = @ \cup timers]
    BY <1>6 DEF RequestSRound, asks, entries, timers
  <2>2. s.out \cup asks \in SUBSET Messages
    BY <1>1 DEF CapsuleForwardingStates
  <2>3. s.retransInSingleEvents \cup entries \in SUBSET Chains
    BY <1>3 DEF CapsuleForwardingStates
  <2>4. s.singleTimers \cup timers \in SUBSET SingleEvents
    BY <1>4, <1>6 DEF CapsuleForwardingStates
  <2>5. RequestSRound(s, d, paths, rest) \in CapsuleForwardingStates
    <3> DEFINE s1 == [s EXCEPT !.out = @ \cup asks]
               s2 == [s1 EXCEPT !.retransInSingleEvents = @ \cup entries]
               s3 == [s2 EXCEPT !.singleTimers = @ \cup timers]
    <3>1. s1 \in CapsuleForwardingStates
      BY <2>2 DEF CapsuleForwardingStates
    <3>2. s1.retransInSingleEvents = s.retransInSingleEvents /\ s1.singleTimers = s.singleTimers
      BY DEF CapsuleForwardingStates
    <3>3. s2 \in CapsuleForwardingStates
      <4> HIDE DEF s1
      <4> QED BY <2>3, <3>1, <3>2 DEF CapsuleForwardingStates
    <3>4. s2.singleTimers = s.singleTimers
      <4> HIDE DEF s1
      <4> QED BY <3>1, <3>2 DEF CapsuleForwardingStates
    <3>5. s3 \in CapsuleForwardingStates
      <4> HIDE DEF s1, s2
      <4> QED BY <2>4, <3>3, <3>4 DEF CapsuleForwardingStates
    <3>6. RequestSRound(s, d, paths, rest) = s3
      BY <2>1 DEF CapsuleForwardingStates
    <3> HIDE DEF s1, s2, s3
    <3> QED BY <3>5, <3>6
  <2>6. /\ \A e \in DataIds : CapsulesIn(s.out \cup asks, e) <=> CapsulesIn(s.out, e)
        /\ Renamings(s.out \cup asks) = Renamings(s.out)
    BY <1>2, OthersCarryNothing
  <2>7. /\ RequestSRound(s, d, paths, rest).out = s.out \cup asks
        /\ RequestSRound(s, d, paths, rest).transmittedDataIds = s.transmittedDataIds
    BY <2>1 DEF CapsuleForwardingStates
  <2> QED BY <2>5, <2>6, <2>7 DEF Silent
<1> QED BY <1>5, <1>6

\* A batch stays a batch when ids leave it.
LEMMA WithoutType ==
  ASSUME NEW b \in Batches, NEW ids
  PROVE  Without(b, ids) \in Batches
  BY DEF Without, Batches

\* A round of a batch asks, gives up or drops the batch.
LEMMA RequestMRoundSilent ==
  ASSUME RetransControlAssumption,
         NEW s \in CapsuleForwardingStates, NEW rbi \in Nat,
         NEW rest \in 0..NumRetransRequests
  PROVE  Silent(s, RequestMRound(s, rbi, rest))
<1> DEFINE batch == {b \in s.retransInBatchEvents : b.rbi = rbi}
           ids   == UNION {b.ids : b \in batch}
           asks  == {RequestM(rbi, ids, p) : p \in UpPaths}
           timer == [rbi |-> rbi, rest |-> rest - 1]
<1>1. ids \in SUBSET DataIds
  BY DEF CapsuleForwardingStates, Batches
<1> HIDE DEF ids
<1>2. asks \in SUBSET Messages
  BY <1>1, MessageTypes
<1>3. \A m \in asks : m.type \notin {"Capsule", "CapsuleOnRSP"}
  BY DEF RequestM
<1> HIDE DEF asks
<1>4. rest # 0 => timer \in BatchEvents
  BY DEF BatchEvents, RetransControlAssumption
<1> HIDE DEF timer, batch
<1>5. Silent(s, [s EXCEPT !.retransInBatchEvents = @ \ batch])
  BY DEF Silent, CapsuleForwardingStates
<1>6. rest # 0 => Silent(s, [s EXCEPT !.out = @ \cup asks, !.batchTimers = @ \cup {timer}])
  <2>1. /\ \A e \in DataIds : CapsulesIn(s.out \cup asks, e) <=> CapsulesIn(s.out, e)
        /\ Renamings(s.out \cup asks) = Renamings(s.out)
    BY <1>3, OthersCarryNothing
  <2> QED BY <1>2, <1>4, <2>1 DEF Silent, CapsuleForwardingStates
<1> QED BY <1>5, <1>6, SilentReflexive DEF RequestMRound, batch, ids, asks, timer

\* Opening a batch is silent.
LEMMA BroadcastRequestMSilent ==
  ASSUME RetransControlAssumption,
         NEW s \in CapsuleForwardingStates, NEW ids \in SUBSET DataIds
  PROVE  Silent(s, BroadcastRequestM(s, ids))
<1> DEFINE rbi == s.curRetransInBatchID
           t   == [s EXCEPT !.curRetransInBatchID = @ + 1,
                            !.retransInBatchEvents = @ \cup {[rbi |-> rbi, ids |-> ids]}]
<1>1. rbi \in Nat
  BY DEF CapsuleForwardingStates
<1>2. Silent(s, t)
  <2>1. [rbi |-> rbi, ids |-> ids] \in Batches
    BY <1>1 DEF Batches
  <2>2. s.retransInBatchEvents \cup {[rbi |-> rbi, ids |-> ids]} \in SUBSET Batches
    BY <2>1 DEF CapsuleForwardingStates
  <2>3. s.curRetransInBatchID + 1 \in Nat
    BY <1>1
  <2> QED BY <2>2, <2>3 DEF Silent, CapsuleForwardingStates
<1> HIDE DEF t
<1>3. t \in CapsuleForwardingStates
  BY <1>2 DEF Silent
<1>4. Silent(t, RequestMRound(t, rbi, NumRetransRequests))
  BY <1>1, <1>3, RequestMRoundSilent DEF RetransControlAssumption
<1> QED BY <1>2, <1>4, SilentTransitive DEF BroadcastRequestM, t

\* Taking an id out of one batch is silent.
LEMMA CleanRetranMEventsOfBatchSilent ==
  ASSUME NEW s \in CapsuleForwardingStates, NEW rbi \in Nat, NEW d \in DataIds
  PROVE  Silent(s, CleanRetranMEventsOfBatch(s, rbi, d))
<1> DEFINE empty   == {b \in s.retransInBatchEvents : b.rbi = rbi /\ b.ids = {}}
           timers  == {t \in s.batchTimers : t.rbi # rbi}
           batches == {IF b.rbi = rbi THEN Without(b, {d}) ELSE b : b \in s.retransInBatchEvents}
<1>1. batches \subseteq Batches
  BY WithoutType DEF CapsuleForwardingStates
<1>2. timers \subseteq s.batchTimers
  OBVIOUS
<1> HIDE DEF empty, timers, batches
<1>3. Silent(s, [s EXCEPT !.retransInBatchEvents = @ \ empty, !.batchTimers = timers])
  BY <1>2 DEF Silent, CapsuleForwardingStates
<1>4. Silent(s, [s EXCEPT !.retransInBatchEvents = batches])
  BY <1>1 DEF Silent, CapsuleForwardingStates
<1> QED BY <1>3, <1>4 DEF CleanRetranMEventsOfBatch, empty, timers, batches

\* Taking ids out of every batch is silent.
LEMMA CleanRetranMEventsSilent ==
  ASSUME NEW s \in CapsuleForwardingStates, NEW ids
  PROVE  Silent(s, CleanRetranMEvents(s, ids))
<1> DEFINE left   == {Without(b, ids) : b \in s.retransInBatchEvents}
           live   == {b \in left : b.ids # {}}
           dead   == {b.rbi : b \in left \ live}
           timers == {t \in s.batchTimers : t.rbi \notin dead}
<1>1. live \subseteq Batches
  BY WithoutType DEF CapsuleForwardingStates
<1>2. timers \subseteq s.batchTimers
  OBVIOUS
<1>3. CleanRetranMEvents(s, ids) =
        [s EXCEPT !.retransInBatchEvents = live, !.batchTimers = timers]
  BY DEF CleanRetranMEvents
<1> HIDE DEF live, timers
<1>4. Silent(s, [s EXCEPT !.retransInBatchEvents = live, !.batchTimers = timers])
  BY <1>1, <1>2 DEF Silent, CapsuleForwardingStates
<1> QED BY <1>3, <1>4

\* The first of several records, by the event id, is one of them.
LEMMA OldestExists ==
  ASSUME NEW W \in SUBSET ReportWaits, W # {}
  PROVE  (CHOOSE w \in W : \A v \in W : w.eventID <= v.eventID) \in W
<1> DEFINE T == {w.eventID : w \in W}
<1>1. T \in SUBSET Nat /\ T # {}
  BY DEF ReportWaits
<1>2. PICK x \in T : \A y \in T : x <= y
  BY <1>1, LeastNaturalExists
<1>3. PICK w \in W : w.eventID = x
  OBVIOUS
<1>4. \A v \in W : w.eventID <= v.eventID
  BY <1>2, <1>3
<1> QED BY <1>4

\* Taking an id out of a pending report is silent.
LEMMA CleanWaitForRequestMEventsSilent ==
  ASSUME RetransControlAssumption, NEW s \in CapsuleForwardingStates, NEW d
  PROVE  Silent(s, CleanWaitForRequestMEvents(s, d))
<1> DEFINE holding == {w \in s.WaitForRetransInBatchEvents : w.listed /\ d \in w.ids}
           first   == CHOOSE w \in holding : \A v \in holding : w.eventID <= v.eventID
           rest    == [eventID |-> first.eventID, ids |-> first.ids \ {d}, listed |-> FALSE]
           left    == (s.WaitForRetransInBatchEvents \ {first})
                         \cup (IF rest.ids = {} THEN {} ELSE {rest})
<1>1. CASE holding = {}
  BY <1>1, SilentReflexive DEF CleanWaitForRequestMEvents
<1>2. CASE holding # {}
  <2>1. first \in ReportWaits
    <3>1. holding \in SUBSET ReportWaits
      BY DEF CapsuleForwardingStates
    <3> HIDE DEF holding
    <3>2. first \in holding
      BY <1>2, <3>1, OldestExists
    <3> QED BY <3>1, <3>2
  <2> HIDE DEF first
  <2>2. rest \in ReportWaits
    BY <2>1 DEF ReportWaits
  <2> HIDE DEF rest
  <2>3. left \in SUBSET ReportWaits
    BY <2>2 DEF CapsuleForwardingStates
  <2>4. CleanWaitForRequestMEvents(s, d) = [s EXCEPT !.WaitForRetransInBatchEvents = left]
    BY <1>2 DEF CleanWaitForRequestMEvents, first, rest
  <2> HIDE DEF left
  <2>5. Silent(s, [s EXCEPT !.WaitForRetransInBatchEvents = left])
    BY <2>3 DEF Silent, CapsuleForwardingStates
  <2> QED BY <2>4, <2>5
<1> QED BY <1>1, <1>2

\* Noting a report is silent.
LEMMA ScheduleWaitToRequestMSilent ==
  ASSUME NEW s \in CapsuleForwardingStates, NEW ids \in SUBSET DataIds,
         NEW known \in BOOLEAN
  PROVE  Silent(s, ScheduleWaitToRequestM(s, ids, known))
<1> DEFINE w == [eventID |-> s.curWaitForRetransInBatchEventID, ids |-> ids, listed |-> TRUE]
           t == [s EXCEPT !.curWaitForRetransInBatchEventID = @ + 1,
                          !.WaitForRetransInBatchEvents = @ \cup {w}]
<1>1. w \in ReportWaits
  BY DEF CapsuleForwardingStates, ReportWaits
<1> HIDE DEF w
<1>2. Silent(s, t)
  <2>1. s.WaitForRetransInBatchEvents \cup {w} \in SUBSET ReportWaits
    BY <1>1 DEF CapsuleForwardingStates
  <2>2. s.curWaitForRetransInBatchEventID + 1 \in Nat
    BY DEF CapsuleForwardingStates
  <2> QED BY <2>1, <2>2 DEF Silent, CapsuleForwardingStates
<1> QED BY <1>2, SilentReflexive DEF ScheduleWaitToRequestM, w

\* Discovering a gap opens a batch and reports, and sends no capsule.
LEMMA DiscoverLostCapsulesSilent ==
  ASSUME RetransControlAssumption,
         NEW s \in CapsuleForwardingStates, NEW d \in DataIds
  PROVE  Silent(s, DiscoverLostCapsules(s, d))
<1> DEFINE new == NewLostDataIds(s, d)
           b   == BroadcastRequestM(s, new)
<1>1. new \in SUBSET DataIds
  BY DEF NewLostDataIds, DataIds, CapsuleForwardingStates, RetransControlAssumption
<1>2. new \in SUBSET WaitIds
  BY <1>1 DEF DataIds, WaitIds, RetransControlAssumption
<1> HIDE DEF new
<1>3. Silent(s, b)
  BY <1>1, BroadcastRequestMSilent
<1> HIDE DEF b
<1>4. b \in CapsuleForwardingStates /\ s.preferredDownPathId \in DownPaths
  BY <1>3 DEF Silent, CapsuleForwardingStates
<1>5. Silent(b, SendReport(b, new, RsgId, s.preferredDownPathId))
  BY <1>2, <1>4, SendReportSilent
<1>6. Silent(s, SendReport(b, new, RsgId, s.preferredDownPathId))
  BY <1>3, <1>5, SilentTransitive
<1> QED BY <1>6, SilentReflexive DEF DiscoverLostCapsules, new, b

\* Caching a retransmitted capsule is silent.
LEMMA InsertInCsSilent ==
  ASSUME NEW s \in CapsuleForwardingStates, NEW d \in DataIds
  PROVE  Silent(s, InsertInCs(s, d))
  BY DEF Silent, InsertInCs, CapsuleForwardingStates

\* Moving lastDataId to a retransmitted capsule is silent.
LEMMA AdvanceToRetransmittedSilent ==
  ASSUME RetransControlAssumption,
         NEW s \in CapsuleForwardingStates, NEW d \in DataIds
  PROVE  Silent(s, AdvanceToRetransmitted(s, d))
<1> DEFINE t == [s EXCEPT !.lastDataId = d]
           n == ComputeNextDataId(t, d)
<1>1. Silent(s, t)
  BY DEF Silent, CapsuleForwardingStates
<1> HIDE DEF t
<1>2. t \in CapsuleForwardingStates
  BY <1>1 DEF Silent
<1>3. n \in WaitIds
  BY <1>2, ComputeNextDataIdType DEF RetransControlAssumption
<1> HIDE DEF n
<1>4. Silent(s, WaitForNextCapsule(t, n))
  BY <1>1, <1>2, <1>3, WaitForNextCapsuleSilent, SilentTransitive
<1> QED BY <1>4, SilentReflexive DEF AdvanceToRetransmitted, t, n

-------------------------------------------------------------------------------
(***************************************************************************)
(* Handlers.  A capsule that arrives for the first time is recorded, some  *)
(* silent steps follow, it is delivered, some more silent steps follow.    *)
(***************************************************************************)
\* What recording a capsule changes.
LEMMA RecordTransmittedEffect ==
  ASSUME NEW s \in CapsuleForwardingStates, NEW d \in DataIds
  PROVE  /\ RecordTransmitted(s, d) \in CapsuleForwardingStates
         /\ RecordTransmitted(s, d).transmittedDataIds = s.transmittedDataIds \cup {d}
         /\ RecordTransmitted(s, d).out = s.out
  BY DEF RecordTransmitted, CapsuleForwardingStates

\* Delivery sends one more capsule, as Capsule or as CapsuleOnRSP, and only
\* a CapsuleOnRSP may have the id of another capsule.
LEMMA DeliverCapsuleEffect ==
  ASSUME RetransControlAssumption,
         NEW s \in CapsuleForwardingStates, NEW d \in DataIds, NEW n \in DataIds
  PROVE  /\ DeliverCapsule(s, d, n) \in CapsuleForwardingStates
         /\ DeliverCapsule(s, d, n).transmittedDataIds = s.transmittedDataIds
         /\ \A e \in DataIds :
               CapsulesIn(DeliverCapsule(s, d, n).out, e) <=> (CapsulesIn(s.out, e) \/ e = d)
         /\ \A x \in Renamings(DeliverCapsule(s, d, n).out) :
               x \in Renamings(s.out) \/ (n # d /\ x = <<n, d>>)
<1> DEFINE m == IF s.isDownPathInRspState
                THEN CapsuleOnRSP(n, d, s.preferredDownPathId)
                ELSE Capsule(d, s.preferredDownPathId)
<1>1. m \in Messages
  BY MessageTypes DEF CapsuleForwardingStates
<1>2. \A e : Carries(m, e) <=> e = d
  BY DEF Capsule, CapsuleOnRSP, Carries
<1>3. m.type = "CapsuleOnRSP" => m.id = n /\ m.of = d
  BY DEF Capsule, CapsuleOnRSP
<1>4. DeliverCapsule(s, d, n) = [s EXCEPT !.out = @ \cup {m}]
  BY DEF DeliverCapsule
<1> HIDE DEF m
<1>5. s.out \cup {m} \in SUBSET Messages
  BY <1>1 DEF CapsuleForwardingStates
<1>6. /\ DeliverCapsule(s, d, n) \in CapsuleForwardingStates
      /\ DeliverCapsule(s, d, n).transmittedDataIds = s.transmittedDataIds
      /\ DeliverCapsule(s, d, n).out = s.out \cup {m}
  BY <1>4, <1>5 DEF CapsuleForwardingStates
<1>7. \A e \in DataIds : CapsulesIn(s.out \cup {m}, e) <=> (CapsulesIn(s.out, e) \/ e = d)
  BY <1>2 DEF CapsulesIn
<1>8. ASSUME NEW x \in Renamings(s.out \cup {m})
      PROVE  x \in Renamings(s.out) \/ (n # d /\ x = <<n, d>>)
  <2>1. PICK k \in s.out \cup {m} :
          k.type = "CapsuleOnRSP" /\ k.id # k.of /\ x = <<k.id, k.of>>
    BY <1>8 DEF Renamings
  <2>2. CASE k \in s.out
    BY <2>1, <2>2 DEF Renamings
  <2>3. CASE k = m
    BY <1>3, <2>1, <2>3
  <2> QED BY <2>1, <2>2, <2>3
<1> QED BY <1>6, <1>7, <1>8

\* A handler that does nothing, or only silent things, on an empty outbox.
LEMMA SilentHandled ==
  ASSUME NEW s \in CapsuleForwardingStates, s.out = {}, NEW r, Silent(s, r), NEW names
  PROVE  Handled(s, r, names)
<1>1. Renamings(s.out) = {} /\ \A e : ~ CapsulesIn(s.out, e)
  BY DEF Renamings, CapsulesIn
<1> QED BY <1>1 DEF Silent, Handled

\* A handler that records a capsule and delivers it.
LEMMA ReceiptHandled ==
  ASSUME RetransControlAssumption,
         NEW s \in CapsuleForwardingStates, s.out = {},
         NEW d \in DataIds, d \notin s.transmittedDataIds,
         NEW n \in DataIds, n <= d, NEW names, n # d => n \in names,
         NEW r, Silent(RecordTransmitted(s, d), r),
         NEW t, Silent(DeliverCapsule(r, d, n), t)
  PROVE  Handled(s, t, names)
<1>1. /\ r \in CapsuleForwardingStates
      /\ r.transmittedDataIds = s.transmittedDataIds \cup {d}
      /\ \A e \in DataIds : ~ CapsulesIn(r.out, e)
      /\ Renamings(r.out) = {}
  BY RecordTransmittedEffect DEF Silent, CapsulesIn, Renamings
<1> DEFINE sent == DeliverCapsule(r, d, n)
<1>2. /\ t.transmittedDataIds = r.transmittedDataIds
      /\ \A e \in DataIds : CapsulesIn(t.out, e) <=> e = d
      /\ \A x \in Renamings(t.out) : n # d /\ x = <<n, d>>
  <2>1. /\ sent.transmittedDataIds = r.transmittedDataIds
        /\ \A e \in DataIds : CapsulesIn(sent.out, e) <=> e = d
        /\ \A x \in Renamings(sent.out) : n # d /\ x = <<n, d>>
    <3>1. /\ sent.transmittedDataIds = r.transmittedDataIds
          /\ \A e \in DataIds : CapsulesIn(sent.out, e) <=> (CapsulesIn(r.out, e) \/ e = d)
          /\ \A x \in Renamings(sent.out) :
                x \in Renamings(r.out) \/ (n # d /\ x = <<n, d>>)
      <4>1. r \in CapsuleForwardingStates
        BY <1>1
      <4> QED BY <4>1, DeliverCapsuleEffect, ZenonT(60)
    <3> HIDE DEF sent
    <3> QED BY <1>1, <3>1
  <2>2. Silent(sent, t)
    OBVIOUS
  <2> HIDE DEF sent
  <2> QED BY <2>1, <2>2 DEF Silent
<1>3. t \in CapsuleForwardingStates
  BY DEF Silent
<1>4. n # d => n < d
  BY DEF DataIds
<1> QED BY <1>1, <1>2, <1>3, <1>4 DEF Handled

\* onReceiveCapsule delivers what it records.
LEMMA OnReceiveCapsuleHandled ==
  ASSUME RetransControlAssumption,
         NEW s \in CapsuleForwardingStates, s.out = {}, NEW d \in DataIds
  PROVE  Handled(s, OnReceiveCapsule(s, d), {})
<1> DEFINE r1 == RecordTransmitted(s, d)
           g  == DiscoverLostCapsules(r1, d)
           a  == [r1 EXCEPT !.lostDataIdsFromPrevRouters = @ \ {d}]
           b  == [g EXCEPT !.lastDataId = IF d > @ THEN d ELSE @]
           r2 == IF d \in r1.lostDataIdsFromPrevRouters THEN a ELSE b
           w  == CleanWaitForNextEvent(r2, {d})
           r3 == CleanRetranInSingleEvents(w, {d})
           c  == CleanWaitForRequestMEvents(r3, d)
           r4 == DeliverCapsule(c, d, d)
           n  == ComputeNextDataId(r4, d)
           r5 == WaitForNextCapsule(r4, n)
<1>1. CASE d \in s.transmittedDataIds
  BY <1>1, SilentReflexive, SilentHandled DEF OnReceiveCapsule
<1>2. CASE d \notin s.transmittedDataIds
  <2>0. d <= d
    BY DEF DataIds
  <2>1. r1 \in CapsuleForwardingStates
    BY RecordTransmittedEffect
  <2> HIDE DEF r1
  <2>2. Silent(r1, a)
    BY <2>1 DEF Silent, CapsuleForwardingStates
  <2>3. Silent(r1, g)
    BY <2>1, DiscoverLostCapsulesSilent
  <2> HIDE DEF g
  <2>4. g \in CapsuleForwardingStates
    BY <2>3 DEF Silent
  <2>5. Silent(g, b)
    BY <2>4 DEF Silent, CapsuleForwardingStates
  <2> HIDE DEF a, b
  <2>6. Silent(r1, r2)
    BY <2>2, <2>3, <2>5, SilentTransitive
  <2> HIDE DEF r2
  <2>7. Silent(r2, w)
    BY <2>6, CleanWaitForNextEventSilent DEF Silent
  <2> HIDE DEF w
  <2>8. Silent(w, r3)
    BY <2>7, CleanRetranInSingleEventsSilent DEF Silent
  <2> HIDE DEF r3
  <2>9. Silent(r3, c)
    BY <2>8, CleanWaitForRequestMEventsSilent DEF Silent
  <2> HIDE DEF c
  <2>10. Silent(r1, c)
    BY <2>6, <2>7, <2>8, <2>9, SilentTransitive
  <2>11. r4 \in CapsuleForwardingStates
    BY <2>9, DeliverCapsuleEffect DEF Silent
  <2> HIDE DEF r4
  <2>12. n \in WaitIds
    BY <2>11, ComputeNextDataIdType DEF RetransControlAssumption
  <2> HIDE DEF n
  <2>13. Silent(r4, r5) /\ Silent(r4, r4)
    BY <2>11, <2>12, WaitForNextCapsuleSilent, SilentReflexive
  <2> HIDE DEF r5
  <2>14. Handled(s, r4, {}) /\ Handled(s, r5, {})
    BY <1>2, <2>0, <2>10, <2>13, ReceiptHandled DEF r1, r4
  <2>15. OnReceiveCapsule(s, d) = IF d = r4.lastDataId THEN r5 ELSE r4
    BY <1>2 DEF OnReceiveCapsule, r1, g, a, b, r2, w, r3, c, r4, n, r5
  <2> QED BY <2>14, <2>15
<1> QED BY <1>1, <1>2

\* A Miss delivers nothing.
LEMMA OnRetranSMissHandled ==
  ASSUME RetransControlAssumption, NEW s \in CapsuleForwardingStates, s.out = {}
  PROVE  Handled(s, OnRetranSMiss(s), {})
<1> DEFINE r == CleanRetranInSingleEvents(s, {0})
<1>1. Silent(s, r)
  BY CleanRetranInSingleEventsSilent
<1> HIDE DEF r
<1>2. 0 \in WaitIds
  BY DEF WaitIds, RetransControlAssumption
<1>3. Silent(s, WaitForNextCapsule(r, 0))
  BY <1>1, <1>2, WaitForNextCapsuleSilent, SilentTransitive DEF Silent
<1>4. Handled(s, r, {}) /\ Handled(s, WaitForNextCapsule(r, 0), {})
  BY <1>1, <1>3, SilentHandled
<1> QED BY <1>4 DEF OnRetranSMiss, r

\* onReceiveRetranS delivers what it records.
LEMMA OnReceiveRetranSHandled ==
  ASSUME RetransControlAssumption,
         NEW s \in CapsuleForwardingStates, s.out = {},
         NEW d \in DataIds, NEW asked \in WaitIds, asked <= d
  PROVE  Handled(s, OnReceiveRetranS(s, d, asked), {asked})
<1> DEFINE r1 == RecordTransmitted(s, d)
           r2 == [r1 EXCEPT !.waitForNextDataEvents = @ \cup {d}]
           r3 == CleanWaitForNextEvent(r2, {asked})
           a  == CleanRetranInSingleEvents(r3, {asked})
           r4 == InsertInCs(a, d)
           r5 == DeliverCapsule(r4, d, asked)
           r6 == AdvanceToRetransmitted(r5, d)
<1>1. CASE d \in s.transmittedDataIds
  BY <1>1, SilentReflexive, SilentHandled DEF OnReceiveRetranS
<1>2. CASE d \notin s.transmittedDataIds
  <2>0. asked \in DataIds
    BY DEF WaitIds, DataIds, RetransControlAssumption
  <2>1. r1 \in CapsuleForwardingStates
    BY RecordTransmittedEffect
  <2> HIDE DEF r1
  <2>2. r1.waitForNextDataEvents \cup {d} \in SUBSET WaitIds
    BY <2>1 DEF DataIds, WaitIds, CapsuleForwardingStates, RetransControlAssumption
  <2>3. Silent(r1, r2)
    BY <2>1, <2>2 DEF Silent, CapsuleForwardingStates
  <2> HIDE DEF r2
  <2>4. Silent(r2, r3)
    BY <2>3, CleanWaitForNextEventSilent DEF Silent
  <2> HIDE DEF r3
  <2>5. Silent(r3, a)
    BY <2>4, CleanRetranInSingleEventsSilent DEF Silent
  <2> HIDE DEF a
  <2>6. Silent(a, r4)
    BY <2>5, InsertInCsSilent DEF Silent
  <2> HIDE DEF r4
  <2>7. Silent(r1, r4)
    BY <2>3, <2>4, <2>5, <2>6, SilentTransitive
  <2>8. r5 \in CapsuleForwardingStates
    BY <2>6, <2>0, DeliverCapsuleEffect DEF Silent
  <2> HIDE DEF r5
  <2>9. Silent(r5, r6)
    BY <2>8, AdvanceToRetransmittedSilent
  <2> HIDE DEF r6
  <2>10. Handled(s, r6, {asked})
    BY <1>2, <2>7, <2>9, <2>0, ReceiptHandled DEF r1, r5
  <2>11. OnReceiveRetranS(s, d, asked) = r6
    BY <1>2 DEF OnReceiveRetranS, r1, r2, r3, a, r4, r5, r6
  <2> QED BY <2>10, <2>11
<1> QED BY <1>1, <1>2

\* onReceiveRetranM delivers what it records.
LEMMA OnReceiveRetranMHandled ==
  ASSUME RetransControlAssumption,
         NEW s \in CapsuleForwardingStates, s.out = {},
         NEW rbi \in Nat, NEW d \in DataIds
  PROVE  Handled(s, OnReceiveRetranM(s, rbi, d), {})
<1> DEFINE r1 == RecordTransmitted(s, d)
           r2 == CleanRetranMEventsOfBatch(r1, rbi, d)
           r3 == InsertInCs(r2, d)
           r4 == DeliverCapsule(r3, d, d)
           r5 == AdvanceToRetransmitted(r4, d)
<1>1. CASE d \in s.transmittedDataIds
  BY <1>1, SilentReflexive, SilentHandled DEF OnReceiveRetranM
<1>2. CASE d \notin s.transmittedDataIds
  <2>0. d <= d
    BY DEF DataIds
  <2>1. r1 \in CapsuleForwardingStates
    BY RecordTransmittedEffect
  <2> HIDE DEF r1
  <2>2. Silent(r1, r2)
    BY <2>1, CleanRetranMEventsOfBatchSilent
  <2> HIDE DEF r2
  <2>3. Silent(r2, r3)
    BY <2>2, InsertInCsSilent DEF Silent
  <2> HIDE DEF r3
  <2>4. Silent(r1, r3)
    BY <2>2, <2>3, SilentTransitive
  <2>5. r4 \in CapsuleForwardingStates
    BY <2>3, DeliverCapsuleEffect DEF Silent
  <2> HIDE DEF r4
  <2>6. Silent(r4, r5)
    BY <2>5, AdvanceToRetransmittedSilent
  <2> HIDE DEF r5
  <2>7. Handled(s, r5, {})
    BY <1>2, <2>0, <2>4, <2>6, ReceiptHandled DEF r1, r4
  <2>8. OnReceiveRetranM(s, rbi, d) = r5
    BY <1>2 DEF OnReceiveRetranM, r1, r2, r3, r4, r5
  <2> QED BY <2>7, <2>8
<1> QED BY <1>1, <1>2

\* A report delivers nothing, whichever tables it touches.
LEMMA OnReceiveReportHandled ==
  ASSUME RetransControlAssumption,
         NEW s \in CapsuleForwardingStates, s.out = {},
         NEW uid \in ReportUIDs, NEW ids \in SUBSET DataIds, NEW known \in BOOLEAN
  PROVE  Handled(s, OnReceiveReport(s, uid, ids, known), {})
<1> DEFINE r1   == [s EXCEPT !.recentDataRetransReportUIDs = @ \cup {uid}]
           r2   == ScheduleWaitToRequestM(r1, ids \ s.lostDataIdsFromPrevRouters, known)
           lost == s.lostDataIdsFromPrevRouters \cup ids
           held == lost \cap s.waitForNextDataEvents
           max  == CHOOSE m \in held : \A h \in held : h <= m
           a    == [r2 EXCEPT !.lostDataIdsFromPrevRouters = lost]
           b    == CleanWaitForNextEvent(a, held)
           r3   == CleanRetranInSingleEvents(b, held)
           r4   == CleanRetranMEvents(r3, lost)
           n    == ComputeNextDataId(r4, max)
           c    == WaitForNextCapsule(r4, n)
           r5   == IF held = {} THEN r4 ELSE c
           msg  == Report(uid, ids, s.preferredDownPathId)
           t    == [r5 EXCEPT !.out = @ \cup {msg}]
<1>1. lost \in SUBSET DataIds /\ held \in SUBSET DataIds
  BY DEF CapsuleForwardingStates
<1>2. held # {} => max \in DataIds
  <2>1. SUFFICES ASSUME held # {} PROVE max \in held
    BY <1>1
  <2>2. held \in SUBSET (0..MaxDataId) /\ MaxDataId \in Nat
    BY <1>1 DEF DataIds, RetransControlAssumption
  <2> HIDE DEF held
  <2>3. \E m \in held : \A h \in held : h <= m
    BY <2>1, <2>2, GreatestExists
  <2> QED BY <2>3
<1>3. Silent(s, r1)
  BY DEF Silent, CapsuleForwardingStates
<1> HIDE DEF lost, held, max, r1
<1>4. Silent(r1, r2)
  <2>1. r1 \in CapsuleForwardingStates
    BY <1>3 DEF Silent
  <2>2. ids \ s.lostDataIdsFromPrevRouters \in SUBSET DataIds
    OBVIOUS
  <2> QED BY <2>1, <2>2, ScheduleWaitToRequestMSilent
<1> HIDE DEF r2
<1>5. Silent(r2, a)
  BY <1>1, <1>4 DEF Silent, CapsuleForwardingStates
<1> HIDE DEF a
<1>6. Silent(a, b)
  BY <1>5, CleanWaitForNextEventSilent DEF Silent
<1> HIDE DEF b
<1>7. Silent(b, r3)
  BY <1>6, CleanRetranInSingleEventsSilent DEF Silent
<1> HIDE DEF r3
<1>8. Silent(r3, r4)
  BY <1>7, CleanRetranMEventsSilent DEF Silent
<1> HIDE DEF r4
<1>9. r4 \in CapsuleForwardingStates
  BY <1>8 DEF Silent
<1>10. held # {} => n \in WaitIds
  BY <1>2, <1>9, ComputeNextDataIdType DEF RetransControlAssumption
<1> HIDE DEF n
<1>11. held # {} => Silent(r4, c)
  BY <1>9, <1>10, WaitForNextCapsuleSilent
<1> HIDE DEF c
<1>12. Silent(s, r4)
  BY <1>3, <1>4, <1>5, <1>6, <1>7, <1>8, SilentTransitive
<1>13. Silent(s, r5)
  BY <1>11, <1>12, SilentTransitive
<1> HIDE DEF r5
<1>14. Silent(r5, t)
  <2>1. ids \in SUBSET WaitIds
    BY DEF DataIds, WaitIds, RetransControlAssumption
  <2>2. s.preferredDownPathId \in DownPaths
    BY DEF CapsuleForwardingStates
  <2>3. {msg} \in SUBSET Messages
    BY <2>1, <2>2, MessageTypes
  <2>4. \A m \in {msg} : m.type \notin {"Capsule", "CapsuleOnRSP"}
    BY DEF Report
  <2> HIDE DEF msg
  <2>5. r5 \in CapsuleForwardingStates
    BY <1>13 DEF Silent
  <2> QED BY <2>3, <2>4, <2>5, SendSilent
<1>15. Silent(s, t)
  BY <1>13, <1>14, SilentTransitive
<1> HIDE DEF t
<1>16. Handled(s, s, {}) /\ Handled(s, r5, {}) /\ Handled(s, t, {})
  BY <1>13, <1>15, SilentReflexive, SilentHandled
<1>17. OnReceiveReport(s, uid, ids, known) \in {s, r5, t}
  BY DEF OnReceiveReport, r1, r2, lost, held, max, a, b, r3, r4, n, c, r5, t, msg
<1> QED BY <1>16, <1>17

\* An expired wait delivers nothing.
LEMMA WaitTimeoutHandled ==
  ASSUME RetransControlAssumption,
         NEW s \in CapsuleForwardingStates, s.out = {}, NEW d \in DataIds
  PROVE  Handled(s, WaitForNextCapsuleDelayedTask(s, d), {})
<1> DEFINE f == [s EXCEPT !.waitTimers = @ \ {d},
                          !.waitForNextDataEvents = @ \cup {d}]
           r == SendReport(f, {d}, s.preferredDownPathId, RsgId)
           t == RequestSRound(r, d, UpPaths, NumRetransRequests)
<1>1. d \in WaitIds
  BY DEF DataIds, WaitIds, RetransControlAssumption
<1>2. Silent(s, f)
  <2>1. s.waitForNextDataEvents \cup {d} \in SUBSET WaitIds
    BY <1>1 DEF CapsuleForwardingStates
  <2> QED BY <2>1 DEF Silent, CapsuleForwardingStates
<1> HIDE DEF f
<1>3. Silent(f, r)
  BY <1>1, <1>2, SendReportSilent DEF Silent
<1> HIDE DEF r
<1>4. Silent(r, t)
  <2>1. NumRetransRequests \in 0..NumRetransRequests /\ UpPaths \in SUBSET UpPaths
    BY DEF RetransControlAssumption
  <2> QED BY <1>1, <1>3, <2>1, RequestSRoundSilent DEF Silent
<1> HIDE DEF t
<1>5. Handled(s, t, {})
  BY <1>2, <1>3, <1>4, SilentTransitive, SilentHandled
<1> QED BY <1>5 DEF WaitForNextCapsuleDelayedTask, f, r, t

\* An expired RequestS delivers nothing.
LEMMA SingleTimeoutHandled ==
  ASSUME RetransControlAssumption,
         NEW s \in CapsuleForwardingStates, s.out = {}, NEW e \in s.singleTimers
  PROVE  Handled(s, RetransSingleTimeout(s, e), {})
<1> DEFINE f == [s EXCEPT !.singleTimers = @ \ {e}]
           t == RequestSRound(f, e.id, {e.path}, e.rest)
<1>1. e.id \in WaitIds /\ {e.path} \in SUBSET UpPaths /\ e.rest \in 0..NumRetransRequests
  BY DEF CapsuleForwardingStates, SingleEvents
<1>2. Silent(s, f)
  BY DEF Silent, CapsuleForwardingStates
<1> HIDE DEF f
<1>3. Silent(f, t)
  BY <1>1, <1>2, RequestSRoundSilent DEF Silent
<1> HIDE DEF t
<1>4. Handled(s, t, {})
  BY <1>2, <1>3, SilentTransitive, SilentHandled
<1> QED BY <1>4 DEF RetransSingleTimeout, f, t

\* An expired RequestM delivers nothing.
LEMMA BatchTimeoutHandled ==
  ASSUME RetransControlAssumption,
         NEW s \in CapsuleForwardingStates, s.out = {}, NEW e \in s.batchTimers
  PROVE  Handled(s, RetransBatchTimeout(s, e), {})
<1> DEFINE f == [s EXCEPT !.batchTimers = @ \ {e}]
           t == RequestMRound(f, e.rbi, e.rest)
<1>1. e.rbi \in Nat /\ e.rest \in 0..NumRetransRequests
  BY DEF CapsuleForwardingStates, BatchEvents
<1>2. Silent(s, f)
  BY DEF Silent, CapsuleForwardingStates
<1> HIDE DEF f
<1>3. Silent(f, t)
  BY <1>1, <1>2, RequestMRoundSilent DEF Silent
<1> HIDE DEF t
<1>4. Handled(s, t, {})
  BY <1>2, <1>3, SilentTransitive, SilentHandled
<1> QED BY <1>4 DEF RetransBatchTimeout, f, t

\* An expired report delivers nothing.
LEMMA ReportTimeoutHandled ==
  ASSUME RetransControlAssumption,
         NEW s \in CapsuleForwardingStates, s.out = {},
         NEW w \in s.WaitForRetransInBatchEvents
  PROVE  Handled(s, WaitToRequestM(s, w), {})
<1> DEFINE f       == [s EXCEPT !.WaitForRetransInBatchEvents = @ \ {w}]
           missing == w.ids \ s.transmittedDataIds
           t       == BroadcastRequestM(f, missing)
<1>1. missing \in SUBSET DataIds
  BY DEF CapsuleForwardingStates, ReportWaits
<1>2. Silent(s, f)
  BY DEF Silent, CapsuleForwardingStates
<1> HIDE DEF f, missing
<1>3. Silent(f, t)
  BY <1>1, <1>2, BroadcastRequestMSilent DEF Silent
<1> HIDE DEF t
<1>4. Handled(s, f, {}) /\ Handled(s, t, {})
  BY <1>2, <1>3, SilentTransitive, SilentHandled
<1> QED BY <1>4 DEF WaitToRequestM, f, missing, t

-------------------------------------------------------------------------------
(***************************************************************************)
(* The invariant.  It is inductive as it stands: what a step needs to know *)
(* about the record is its type and that the outbox is empty.              *)
(***************************************************************************)
Inv == TypeOK /\ DeliveredOnce

\* Committing what a handler left preserves the invariant.
LEMMA CommitPreserves ==
  ASSUME RetransControlAssumption, Inv, NEW r, NEW names, Handled(ds, r, names), Commit(r),
         \A n \in names : \E q \in requested : q.type = "RequestS" /\ q.id = n,
         overlooked' \subseteq DataIds
  PROVE  Inv'
<1>1. r \in CapsuleForwardingStates /\ ds \in CapsuleForwardingStates
  BY DEF Inv, TypeOK, Handled
<1>2. ds' \in CapsuleForwardingStates /\ ds'.out = {}
  BY <1>1 DEF Commit, CapsuleForwardingStates
<1>3. ds'.transmittedDataIds = r.transmittedDataIds
  BY <1>1 DEF Commit, CapsuleForwardingStates
<1>4. r.out \subseteq Messages
  BY <1>1 DEF CapsuleForwardingStates
<1>5. requested' \subseteq Messages
  BY <1>4 DEF Commit, Inv, TypeOK
<1>6. reported' \subseteq WaitIds
  <2>1. \A m \in Messages : m.type = "Report" => m.ids \subseteq WaitIds
    BY DEF Messages
  <2> QED BY <1>4, <2>1 DEF Commit, Inv, TypeOK
<1>7. delivered' \in [DataIds -> Nat]
  BY DEF Commit, Inv, TypeOK
<1>8. ASSUME NEW d \in DataIds
      PROVE  delivered'[d] = (IF d \in ds'.transmittedDataIds THEN 1 ELSE 0)
  <2>1. delivered[d] = (IF d \in ds.transmittedDataIds THEN 1 ELSE 0)
    BY DEF Inv, DeliveredOnce
  <2>2. delivered'[d] = IF CapsulesIn(r.out, d) THEN delivered[d] + 1 ELSE delivered[d]
    BY DEF Commit
  <2>3. /\ CapsulesIn(r.out, d) <=> d \in r.transmittedDataIds \ ds.transmittedDataIds
        /\ ds.transmittedDataIds \subseteq r.transmittedDataIds
    BY DEF Handled
  <2> QED BY <1>3, <2>1, <2>2, <2>3
<1>9. Renamings(r.out) \subseteq DataIds \X DataIds
  <2>1. \A m \in Messages : m.type = "CapsuleOnRSP" => m.id \in DataIds /\ m.of \in DataIds
    BY DEF Messages
  <2> QED BY <1>4, <2>1 DEF Renamings
<1>10. renamed' \subseteq DataIds \X DataIds
  BY <1>9 DEF Commit, Inv, TypeOK
<1>11. requested \subseteq requested'
  BY DEF Commit
<1>12. ASSUME NEW x \in renamed'
       PROVE  /\ x[1] < x[2] /\ x[2] \in ds'.transmittedDataIds
              /\ \E q \in requested' : q.type = "RequestS" /\ q.id = x[1]
  <2>1. CASE x \in renamed
    BY <1>3, <1>11, <2>1 DEF Inv, DeliveredOnce, Handled
  <2>2. CASE x \in Renamings(r.out)
    BY <1>3, <1>11, <2>2 DEF Handled
  <2> QED BY <2>1, <2>2 DEF Commit
<1> QED BY <1>2, <1>5, <1>6, <1>7, <1>8, <1>10, <1>12 DEF Inv, TypeOK, DeliveredOnce

\* The ids a handler can leave behind are ids of the stream.
LEMMA UnaccountedType ==
  ASSUME RetransControlAssumption, NEW r \in CapsuleForwardingStates
  PROVE  Unaccounted(r) \subseteq DataIds
  BY DEF Unaccounted, DataIds, CapsuleForwardingStates, RetransControlAssumption

\* A fresh router satisfies the invariant.
LEMMA InitInv == ASSUME RetransControlAssumption, Init PROVE Inv
<1>1. PICK st \in DownStates : ds = NewCapsuleForwardingStates(st[1], st[2])
  BY DEF Init
<1>2. st[1] \in DownPaths /\ st[2] \in BOOLEAN
  BY DEF RetransControlAssumption
<1>3. ds \in CapsuleForwardingStates
  BY <1>1, <1>2 DEF NewCapsuleForwardingStates, CapsuleForwardingStates, DataIds, WaitIds,
     RetransControlAssumption
<1>4. ds.out = {} /\ ds.transmittedDataIds = {}
  BY <1>1 DEF NewCapsuleForwardingStates
<1> QED BY <1>3, <1>4 DEF Inv, TypeOK, DeliveredOnce, Init

\* Every step preserves the invariant.
LEMMA NextInv == ASSUME RetransControlAssumption, Inv, [Next]_vars PROVE Inv'
<1> USE DEF Inv
<1>1. ds \in CapsuleForwardingStates /\ ds.out = {}
  BY DEF TypeOK
<1>2. \A m \in requested :
        /\ m.type = "RequestS" => m.id \in WaitIds
        /\ m.type = "RequestM" => m.rbi \in Nat
  BY DEF TypeOK, Messages
<1>3. \A r, names : Handled(ds, r, names) => Unaccounted(r) \subseteq DataIds
  BY UnaccountedType DEF Handled
<1>4. overlooked \subseteq DataIds
  BY DEF TypeOK
<1>5. ASSUME NEW d \in DataIds, ReceiveCapsule(d) PROVE Inv'
  <2> DEFINE s == InsertInCs(ds, d)
             r == OnReceiveCapsule(s, d)
  <2>1. /\ s \in CapsuleForwardingStates
        /\ s.out = {}
        /\ s.transmittedDataIds = ds.transmittedDataIds
    BY <1>1 DEF InsertInCs, CapsuleForwardingStates
  <2>2. Commit(r) /\ overlooked' = overlooked
    BY <1>5 DEF ReceiveCapsule
  <2> HIDE DEF s
  <2>3. Handled(s, r, {})
    BY <2>1, OnReceiveCapsuleHandled
  <2> HIDE DEF r
  <2>4. Handled(ds, r, {})
    BY <2>1, <2>3 DEF Handled
  <2> QED BY <1>4, <2>2, <2>4, CommitPreserves
<1>6. ASSUME NEW d \in DataIds, ReceiveCapsuleOnRsp(d) PROVE Inv'
  BY <1>1, <1>4, <1>6, OnReceiveCapsuleHandled, CommitPreserves DEF ReceiveCapsuleOnRsp
<1>7. ASSUME NEW q \in requested, NEW d \in DataIds, ReceiveRetranS(q, d) PROVE Inv'
  <2>1. Handled(ds, OnReceiveRetranS(ds, d, q.id), {q.id})
    BY <1>1, <1>2, <1>7, OnReceiveRetranSHandled DEF ReceiveRetranS
  <2>3. \A n \in {q.id} : \E p \in requested : p.type = "RequestS" /\ p.id = n
    BY <1>7 DEF ReceiveRetranS
  <2>2. /\ Commit(OnReceiveRetranS(ds, d, q.id))
        /\ overlooked' = overlooked \cup Unaccounted(OnReceiveRetranS(ds, d, q.id))
    BY <1>7 DEF ReceiveRetranS
  <2>4. overlooked' \subseteq DataIds
    BY <1>3, <1>4, <2>1, <2>2
  <2> QED BY <2>1, <2>2, <2>3, <2>4, CommitPreserves
<1>8. ASSUME NEW q \in requested, ReceiveRetranSMiss(q) PROVE Inv'
  BY <1>1, <1>4, <1>8, OnRetranSMissHandled, CommitPreserves DEF ReceiveRetranSMiss
<1>9. ASSUME NEW q \in requested, NEW d \in DataIds, ReceiveRetranM(q, d) PROVE Inv'
  <2>1. Handled(ds, OnReceiveRetranM(ds, q.rbi, d), {})
    BY <1>1, <1>2, <1>9, OnReceiveRetranMHandled DEF ReceiveRetranM
  <2>2. /\ Commit(OnReceiveRetranM(ds, q.rbi, d))
        /\ overlooked' = overlooked \cup Unaccounted(OnReceiveRetranM(ds, q.rbi, d))
    BY <1>9 DEF ReceiveRetranM
  <2> QED BY <1>3, <1>4, <2>1, <2>2, CommitPreserves
<1>10. ASSUME NEW uid \in ReportUIDs, NEW ids \in SUBSET DataIds \ {{}},
              NEW known \in KnownSource, ReceiveReport(uid, ids, known)
       PROVE  Inv'
  <2>1. known \in BOOLEAN
    BY DEF RetransControlAssumption
  <2>2. Handled(ds, OnReceiveReport(ds, uid, ids, known), {})
    BY <1>1, <2>1, OnReceiveReportHandled
  <2> QED BY <1>4, <1>10, <2>2, CommitPreserves DEF ReceiveReport
<1>11. ASSUME NEW st \in DownStates, SwitchDownPath(st) PROVE Inv'
  <2>1. st[1] \in DownPaths /\ st[2] \in BOOLEAN
    BY DEF RetransControlAssumption
  <2>2. /\ ds' \in CapsuleForwardingStates
        /\ ds'.out = ds.out
        /\ ds'.transmittedDataIds = ds.transmittedDataIds
    BY <1>1, <1>11, <2>1 DEF SwitchDownPath, CapsuleForwardingStates
  <2> QED BY <1>11, <2>2 DEF SwitchDownPath, TypeOK, DeliveredOnce
<1>12. ASSUME NEW d \in DataIds, WaitTimeout(d) PROVE Inv'
  BY <1>1, <1>4, <1>12, WaitTimeoutHandled, CommitPreserves DEF WaitTimeout
<1>13. ASSUME NEW t \in ds.singleTimers, SingleTimeout(t) PROVE Inv'
  BY <1>1, <1>4, <1>13, SingleTimeoutHandled, CommitPreserves DEF SingleTimeout
<1>14. ASSUME NEW t \in ds.batchTimers, BatchTimeout(t) PROVE Inv'
  BY <1>1, <1>4, <1>14, BatchTimeoutHandled, CommitPreserves DEF BatchTimeout
<1>15. ASSUME NEW w \in ds.WaitForRetransInBatchEvents, ReportTimeout(w) PROVE Inv'
  BY <1>1, <1>4, <1>15, ReportTimeoutHandled, CommitPreserves DEF ReportTimeout
<1>16. CASE UNCHANGED vars
  BY <1>16 DEF vars, TypeOK, DeliveredOnce
<1> QED
  BY <1>5, <1>6, <1>7, <1>8, <1>9, <1>10, <1>11, <1>12, <1>13, <1>14, <1>15, <1>16
  DEF Next, Timers, Deliveries

\* The router always satisfies the invariant.
THEOREM Invariance == Spec => []Inv
<1>1. Init => Inv
  BY RetransControlAssumption, InitInv
<1>2. Inv /\ [Next]_vars => Inv'
  BY RetransControlAssumption, NextInv
<1> QED BY <1>1, <1>2, PTL DEF Spec

\* The record and the history variables of the router keep their types under
\* every handler, timer and switch of path, and no message stays in the outbox.
THEOREM TypeCorrect == Spec => []TypeOK
  BY Invariance, PTL DEF Inv

\* Each capsule is delivered downstream exactly once, by the first of its
\* copies to arrive: original, over a redundant sub-path, RetranS or RetranM
\* (checkAndRecordRetransmittedDataId before every deliverCapsule).  The id it
\* is sent under is its own, or, only on a redundant sub-path and only for an
\* answer to a RequestS, the earlier id this router had asked for.
THEOREM DeliversOnce == Spec => []DeliveredOnce
  BY Invariance, PTL DEF Inv

-------------------------------------------------------------------------------
(***************************************************************************)
(* Which tables an operator leaves alone, and what it does to the others.  *)
(***************************************************************************)
SameIds(s, r) ==
  /\ r.lastDataId = s.lastDataId
  /\ r.transmittedDataIds = s.transmittedDataIds
  /\ r.lostDataIdsFromPrevRouters = s.lostDataIdsFromPrevRouters
SameWaits(s, r) ==
  /\ r.waitForNextDataEvents = s.waitForNextDataEvents
  /\ r.waitTimers = s.waitTimers
SameChains(s, r) ==
  /\ r.retransInSingleEvents = s.retransInSingleEvents
  /\ r.singleTimers = s.singleTimers
SameBatches(s, r) ==
  /\ r.retransInBatchEvents = s.retransInBatchEvents
  /\ r.batchTimers = s.batchTimers
  /\ r.curRetransInBatchID = s.curRetransInBatchID
SameReports(s, r) == r.WaitForRetransInBatchEvents = s.WaitForRetransInBatchEvents

SameTables(s, r) ==
  /\ SameIds(s, r)
  /\ SameWaits(s, r)
  /\ SameChains(s, r)
  /\ SameBatches(s, r)
  /\ SameReports(s, r)

\* Caching and sending touch no table.
LEMMA InsertInCsEffect ==
  ASSUME NEW s \in CapsuleForwardingStates, NEW d
  PROVE  SameTables(s, InsertInCs(s, d))
  BY DEF SameTables, SameIds, SameWaits, SameChains, SameBatches, SameReports, InsertInCs,
         CapsuleForwardingStates

LEMMA SendEffect ==
  ASSUME NEW s \in CapsuleForwardingStates, NEW M
  PROVE  SameTables(s, [s EXCEPT !.out = M])
  BY DEF SameTables, SameIds, SameWaits, SameChains, SameBatches, SameReports,
         CapsuleForwardingStates

LEMMA SendReportEffect ==
  ASSUME NEW s \in CapsuleForwardingStates, NEW ids, NEW rsg, NEW path
  PROVE  SameTables(s, SendReport(s, ids, rsg, path))
<1>1. SameTables(s, s)
  BY DEF SameTables, SameIds, SameWaits, SameChains, SameBatches, SameReports
<1> QED
  BY <1>1, SendEffect DEF SendReport

LEMMA DeliverCapsuleTables ==
  ASSUME NEW s \in CapsuleForwardingStates, NEW d, NEW n
  PROVE  SameTables(s, DeliverCapsule(s, d, n))
  BY SendEffect DEF DeliverCapsule

\* Recording a capsule.
LEMMA RecordTransmittedTables ==
  ASSUME NEW s \in CapsuleForwardingStates, NEW d \in DataIds
  PROVE  /\ SameWaits(s, RecordTransmitted(s, d))
         /\ SameChains(s, RecordTransmitted(s, d))
         /\ SameBatches(s, RecordTransmitted(s, d))
         /\ SameReports(s, RecordTransmitted(s, d))
         /\ RecordTransmitted(s, d).lastDataId = s.lastDataId
         /\ RecordTransmitted(s, d).lostDataIdsFromPrevRouters = s.lostDataIdsFromPrevRouters
  BY DEF SameWaits, SameChains, SameBatches, SameReports, RecordTransmitted,
         CapsuleForwardingStates

\* Starting a wait.
LEMMA WaitForNextCapsuleEffect ==
  ASSUME NEW s \in CapsuleForwardingStates, NEW d
  PROVE  LET r == WaitForNextCapsule(s, d)
         IN  /\ SameIds(s, r) /\ SameChains(s, r) /\ SameBatches(s, r) /\ SameReports(s, r)
             /\ r.waitForNextDataEvents = s.waitForNextDataEvents \cup {d}
             /\ r.waitTimers = IF d \in s.waitForNextDataEvents THEN s.waitTimers
                               ELSE s.waitTimers \cup {d}
  BY DEF WaitForNextCapsule, SameIds, SameChains, SameBatches, SameReports,
         CapsuleForwardingStates

\* Ending the waits and the RequestS chains of some ids.
EndWaits(s, ids) == CleanRetranInSingleEvents(CleanWaitForNextEvent(s, ids), ids)

LEMMA CleanRetranInSingleEventsEffect ==
  ASSUME NEW s \in CapsuleForwardingStates, NEW ids
  PROVE  LET r == CleanRetranInSingleEvents(s, ids)
         IN  /\ SameIds(s, r) /\ SameWaits(s, r) /\ SameBatches(s, r) /\ SameReports(s, r)
             /\ r.retransInSingleEvents = {e \in s.retransInSingleEvents : e[1] \notin ids}
             /\ r.singleTimers = {t \in s.singleTimers : t.id \notin ids}
  BY DEF CleanRetranInSingleEvents, SameIds, SameWaits, SameBatches, SameReports,
         CapsuleForwardingStates

LEMMA CleanWaitForNextEventEffect ==
  ASSUME NEW s \in CapsuleForwardingStates, NEW ids
  PROVE  LET r == CleanWaitForNextEvent(s, ids)
         IN  /\ SameIds(s, r) /\ SameChains(s, r) /\ SameBatches(s, r) /\ SameReports(s, r)
             /\ r.waitForNextDataEvents = s.waitForNextDataEvents \ ids
             /\ r.waitTimers = s.waitTimers \ ids
  BY DEF CleanWaitForNextEvent, SameIds, SameChains, SameBatches, SameReports,
         CapsuleForwardingStates

LEMMA EndWaitsEffect ==
  ASSUME NEW s \in CapsuleForwardingStates, NEW ids
  PROVE  LET r == EndWaits(s, ids)
         IN  /\ SameIds(s, r) /\ SameBatches(s, r) /\ SameReports(s, r)
             /\ r \in CapsuleForwardingStates
             /\ r.waitForNextDataEvents = s.waitForNextDataEvents \ ids
             /\ r.waitTimers = s.waitTimers \ ids
             /\ r.retransInSingleEvents = {e \in s.retransInSingleEvents : e[1] \notin ids}
             /\ r.singleTimers = {t \in s.singleTimers : t.id \notin ids}
<1> DEFINE c == CleanWaitForNextEvent(s, ids)
<1>1. c \in CapsuleForwardingStates
  BY CleanWaitForNextEventSilent DEF Silent
<1>2. /\ SameIds(s, c) /\ SameChains(s, c) /\ SameBatches(s, c) /\ SameReports(s, c)
      /\ c.waitForNextDataEvents = s.waitForNextDataEvents \ ids
      /\ c.waitTimers = s.waitTimers \ ids
  BY CleanWaitForNextEventEffect
<1> HIDE DEF c
<1> DEFINE r == CleanRetranInSingleEvents(c, ids)
<1>3. r \in CapsuleForwardingStates
  BY <1>1, CleanRetranInSingleEventsSilent DEF Silent
<1>4. /\ SameIds(c, r) /\ SameWaits(c, r) /\ SameBatches(c, r) /\ SameReports(c, r)
      /\ r.retransInSingleEvents = {e \in c.retransInSingleEvents : e[1] \notin ids}
      /\ r.singleTimers = {t \in c.singleTimers : t.id \notin ids}
  BY <1>1, CleanRetranInSingleEventsEffect
<1>5. EndWaits(s, ids) = r
  BY DEF EndWaits, c
<1> HIDE DEF r
<1> QED
  BY <1>2, <1>3, <1>4, <1>5 DEF SameIds, SameWaits, SameChains, SameBatches, SameReports

\* A round of a chain.
LEMMA RequestSRoundEffect ==
  ASSUME NEW s \in CapsuleForwardingStates, NEW d, NEW paths, NEW rest
  PROVE  LET r == RequestSRound(s, d, paths, rest)
         IN  /\ SameIds(s, r) /\ SameWaits(s, r) /\ SameBatches(s, r) /\ SameReports(s, r)
             /\ rest = 0 => SameChains(s, r)
             /\ rest # 0 =>
                  /\ r.retransInSingleEvents =
                       s.retransInSingleEvents \cup {<<d, p>> : p \in paths}
                  /\ r.singleTimers =
                       s.singleTimers \cup {[id |-> d, path |-> p, rest |-> rest - 1] : p \in paths}
<1> DEFINE tests   == {LinkTest(p) : p \in paths}
           asks    == {RequestS(d, p) : p \in paths}
           entries == {<<d, p>> : p \in paths}
           timers  == {[id |-> d, path |-> p, rest |-> rest - 1] : p \in paths}
<1>1. RequestSRound(s, d, paths, rest) =
        IF rest = 0 THEN [s EXCEPT !.out = @ \cup tests]
        ELSE [s EXCEPT !.out = @ \cup asks, !.retransInSingleEvents = @ \cup entries,
                       !.singleTimers = @ \cup timers]
  BY DEF RequestSRound
<1> HIDE DEF tests, asks
<1>2. /\ entries = {<<d, p>> : p \in paths}
      /\ timers  = {[id |-> d, path |-> p, rest |-> rest - 1] : p \in paths}
  OBVIOUS
<1> HIDE DEF entries, timers
<1> QED
  BY <1>1, <1>2 DEF SameIds, SameWaits, SameChains, SameBatches, SameReports,
     CapsuleForwardingStates

\* The ids of the batches with a number.
IdsOf(s, rbi) == UNION {b.ids : b \in {c \in s.retransInBatchEvents : c.rbi = rbi}}

\* A round of a batch: nothing is left to ask for, or it is asked for once more.
LEMMA RequestMRoundEffect ==
  ASSUME NEW s \in CapsuleForwardingStates, NEW rbi, NEW rest
  PROVE  LET r == RequestMRound(s, rbi, rest)
         IN  /\ SameIds(s, r) /\ SameWaits(s, r) /\ SameChains(s, r) /\ SameReports(s, r)
             /\ r.curRetransInBatchID = s.curRetransInBatchID
             /\ \/ SameBatches(s, r)
                \/ /\ IdsOf(s, rbi) = {}
                   /\ r.retransInBatchEvents = {b \in s.retransInBatchEvents : b.rbi # rbi}
                   /\ r.batchTimers = s.batchTimers
                \/ /\ IdsOf(s, rbi) # {}
                   /\ r.retransInBatchEvents = s.retransInBatchEvents
                   /\ r.batchTimers = s.batchTimers \cup {[rbi |-> rbi, rest |-> rest - 1]}
<1> DEFINE batch == {b \in s.retransInBatchEvents : b.rbi = rbi}
           ids   == UNION {b.ids : b \in batch}
           asks  == {RequestM(rbi, ids, p) : p \in UpPaths}
           timer == [rbi |-> rbi, rest |-> rest - 1]
<1>1. ids = IdsOf(s, rbi)
  BY DEF IdsOf
<1>2. RequestMRound(s, rbi, rest) =
        IF rest = 0 THEN s
        ELSE IF ids = {} THEN [s EXCEPT !.retransInBatchEvents = @ \ batch]
        ELSE IF UpPaths = {} THEN s
        ELSE [s EXCEPT !.out = @ \cup asks, !.batchTimers = @ \cup {timer}]
  BY DEF RequestMRound
<1>3. s.retransInBatchEvents \ batch = {b \in s.retransInBatchEvents : b.rbi # rbi}
  OBVIOUS
<1>4. timer = [rbi |-> rbi, rest |-> rest - 1]
  OBVIOUS
<1> HIDE DEF ids, asks, timer, batch
<1> DEFINE r == RequestMRound(s, rbi, rest)
<1>5. CASE r = s
  BY <1>5 DEF SameIds, SameWaits, SameChains, SameBatches, SameReports
<1>6. CASE ids = {} /\ r = [s EXCEPT !.retransInBatchEvents = @ \ batch]
  BY <1>1, <1>3, <1>6 DEF SameIds, SameWaits, SameChains, SameBatches, SameReports,
     CapsuleForwardingStates
<1>7. CASE ids # {} /\ r = [s EXCEPT !.out = @ \cup asks, !.batchTimers = @ \cup {timer}]
  BY <1>1, <1>4, <1>7 DEF SameIds, SameWaits, SameChains, SameBatches, SameReports,
     CapsuleForwardingStates
<1>8. \/ r = s
      \/ ids = {} /\ r = [s EXCEPT !.retransInBatchEvents = @ \ batch]
      \/ ids # {} /\ r = [s EXCEPT !.out = @ \cup asks, !.batchTimers = @ \cup {timer}]
  BY <1>2
<1> HIDE DEF r
<1>9. r = RequestMRound(s, rbi, rest)
  BY DEF r
<1> QED
  BY <1>5, <1>6, <1>7, <1>8, <1>9

\* Opening a batch: it stands under a new number, with a round queued or none.
LEMMA BroadcastRequestMEffect ==
  ASSUME RetransControlAssumption, NEW s \in CapsuleForwardingStates,
         NEW ids \in SUBSET DataIds, ids # {}
  PROVE  LET r   == BroadcastRequestM(s, ids)
             rbi == s.curRetransInBatchID
         IN  /\ SameIds(s, r) /\ SameWaits(s, r) /\ SameChains(s, r) /\ SameReports(s, r)
             /\ r.curRetransInBatchID = rbi + 1
             /\ r.retransInBatchEvents = s.retransInBatchEvents \cup {[rbi |-> rbi, ids |-> ids]}
             /\ \/ r.batchTimers = s.batchTimers
                \/ \E rest : r.batchTimers = s.batchTimers \cup {[rbi |-> rbi, rest |-> rest]}
<1> DEFINE rbi == s.curRetransInBatchID
           new == [rbi |-> rbi, ids |-> ids]
           t   == [s EXCEPT !.curRetransInBatchID = @ + 1,
                            !.retransInBatchEvents = @ \cup {new}]
           n   == NumRetransRequests
           r   == RequestMRound(t, rbi, n)
<1>1. rbi \in Nat
  BY DEF CapsuleForwardingStates
<1>2. new \in Batches /\ new.rbi = rbi /\ new.ids = ids
  BY <1>1 DEF Batches
<1>3. new = [rbi |-> rbi, ids |-> ids]
  OBVIOUS
<1>4. r = BroadcastRequestM(s, ids)
  BY DEF BroadcastRequestM
<1> HIDE DEF new
<1>5. t \in CapsuleForwardingStates
  <2>1. s.retransInBatchEvents \cup {new} \in SUBSET Batches
    BY <1>2 DEF CapsuleForwardingStates
  <2>2. s.curRetransInBatchID + 1 \in Nat
    BY <1>1
  <2> QED
    BY <2>1, <2>2 DEF CapsuleForwardingStates
<1>6. /\ SameIds(s, t) /\ SameWaits(s, t) /\ SameChains(s, t) /\ SameReports(s, t)
      /\ t.curRetransInBatchID = rbi + 1
      /\ t.retransInBatchEvents = s.retransInBatchEvents \cup {new}
      /\ t.batchTimers = s.batchTimers
  BY DEF SameIds, SameWaits, SameChains, SameReports, CapsuleForwardingStates
<1> HIDE DEF rbi, t, n
<1>7. IdsOf(t, rbi) # {}
  <2>1. new \in {c \in t.retransInBatchEvents : c.rbi = rbi}
    BY <1>2, <1>6
  <2>2. PICK i \in new.ids : TRUE
    BY <1>2
  <2>3. i \in IdsOf(t, rbi)
    BY <2>1, <2>2 DEF IdsOf
  <2> QED
    BY <2>3
<1>8. /\ SameIds(t, r) /\ SameWaits(t, r) /\ SameChains(t, r) /\ SameReports(t, r)
      /\ r.curRetransInBatchID = t.curRetransInBatchID
      /\ \/ SameBatches(t, r)
         \/ /\ r.retransInBatchEvents = t.retransInBatchEvents
            /\ r.batchTimers = t.batchTimers \cup {[rbi |-> rbi, rest |-> n - 1]}
  BY <1>5, <1>7, RequestMRoundEffect
<1> HIDE DEF r
<1>9. /\ SameIds(s, r) /\ SameWaits(s, r) /\ SameChains(s, r) /\ SameReports(s, r)
      /\ r.curRetransInBatchID = rbi + 1
      /\ r.retransInBatchEvents = s.retransInBatchEvents \cup {new}
  BY <1>6, <1>8 DEF SameIds, SameWaits, SameChains, SameReports, SameBatches
<1>10. \/ r.batchTimers = s.batchTimers
       \/ r.batchTimers = s.batchTimers \cup {[rbi |-> rbi, rest |-> n - 1]}
  BY <1>6, <1>8 DEF SameBatches
<1> QED
  BY <1>3, <1>4, <1>9, <1>10 DEF rbi

\* A batch after an id has left the batches with number rbi.
LeftBy(b, rbi, d) == IF b.rbi = rbi THEN Without(b, {d}) ELSE b

\* An id leaves the batches with a number, or an empty one of them goes with its rounds.
LEMMA CleanRetranMEventsOfBatchEffect ==
  ASSUME NEW s \in CapsuleForwardingStates, NEW rbi, NEW d
  PROVE  LET r == CleanRetranMEventsOfBatch(s, rbi, d)
         IN  /\ SameIds(s, r) /\ SameWaits(s, r) /\ SameChains(s, r) /\ SameReports(s, r)
             /\ r.curRetransInBatchID = s.curRetransInBatchID
             /\ \/ /\ r.retransInBatchEvents =
                        {b \in s.retransInBatchEvents : b.rbi # rbi \/ b.ids # {}}
                   /\ r.batchTimers = {t \in s.batchTimers : t.rbi # rbi}
                \/ /\ r.retransInBatchEvents = {LeftBy(b, rbi, d) : b \in s.retransInBatchEvents}
                   /\ r.batchTimers = s.batchTimers
<1> DEFINE empty   == {b \in s.retransInBatchEvents : b.rbi = rbi /\ b.ids = {}}
           timers  == {t \in s.batchTimers : t.rbi # rbi}
           batches == {IF b.rbi = rbi THEN Without(b, {d}) ELSE b : b \in s.retransInBatchEvents}
           r       == CleanRetranMEventsOfBatch(s, rbi, d)
<1>1. r = IF empty # {}
          THEN [s EXCEPT !.retransInBatchEvents = @ \ empty, !.batchTimers = timers]
          ELSE [s EXCEPT !.retransInBatchEvents = batches]
  BY DEF CleanRetranMEventsOfBatch
<1>2. s.retransInBatchEvents \ empty = {b \in s.retransInBatchEvents : b.rbi # rbi \/ b.ids # {}}
  OBVIOUS
<1>3. /\ timers = {t \in s.batchTimers : t.rbi # rbi}
      /\ batches = {LeftBy(b, rbi, d) : b \in s.retransInBatchEvents}
  BY DEF LeftBy
<1>4. r = CleanRetranMEventsOfBatch(s, rbi, d)
  OBVIOUS
<1> HIDE DEF empty, timers, batches, r
<1>5. /\ SameIds(s, r) /\ SameWaits(s, r) /\ SameChains(s, r) /\ SameReports(s, r)
      /\ r.curRetransInBatchID = s.curRetransInBatchID
      /\ \/ /\ r.retransInBatchEvents = s.retransInBatchEvents \ empty
            /\ r.batchTimers = timers
         \/ /\ r.retransInBatchEvents = batches
            /\ r.batchTimers = s.batchTimers
  BY <1>1 DEF SameIds, SameWaits, SameChains, SameReports, CapsuleForwardingStates
<1> QED
  BY <1>2, <1>3, <1>4, <1>5

\* Ids leave every batch, and the batches left empty go with their rounds.
LEMMA CleanRetranMEventsEffect ==
  ASSUME NEW s \in CapsuleForwardingStates, NEW ids
  PROVE  LET r == CleanRetranMEvents(s, ids)
         IN  /\ SameIds(s, r) /\ SameWaits(s, r) /\ SameChains(s, r) /\ SameReports(s, r)
             /\ r.curRetransInBatchID = s.curRetransInBatchID
             /\ r.retransInBatchEvents =
                  {b \in {Without(c, ids) : c \in s.retransInBatchEvents} : b.ids # {}}
             /\ r.batchTimers \subseteq s.batchTimers
             /\ \A t \in r.batchTimers : \A c \in s.retransInBatchEvents :
                   c.rbi = t.rbi => Without(c, ids) \in r.retransInBatchEvents
<1> DEFINE left   == {Without(b, ids) : b \in s.retransInBatchEvents}
           live   == {b \in left : b.ids # {}}
           dead   == {b.rbi : b \in left \ live}
           timers == {t \in s.batchTimers : t.rbi \notin dead}
           r      == CleanRetranMEvents(s, ids)
<1>1. r = [s EXCEPT !.retransInBatchEvents = live, !.batchTimers = timers]
  BY DEF CleanRetranMEvents
<1>2. timers \subseteq s.batchTimers
  OBVIOUS
<1>3. ASSUME NEW t \in timers, NEW c \in s.retransInBatchEvents, c.rbi = t.rbi
      PROVE  Without(c, ids) \in live
  <2>1. Without(c, ids) \in left /\ Without(c, ids).rbi = t.rbi
    BY <1>3 DEF Without
  <2> HIDE DEF left
  <2> QED
    BY <2>1
<1>4. live = {b \in {Without(c, ids) : c \in s.retransInBatchEvents} : b.ids # {}}
  OBVIOUS
<1>5. r = CleanRetranMEvents(s, ids)
  OBVIOUS
<1> HIDE DEF live, timers, r
<1>6. /\ SameIds(s, r) /\ SameWaits(s, r) /\ SameChains(s, r) /\ SameReports(s, r)
      /\ r.curRetransInBatchID = s.curRetransInBatchID
      /\ r.retransInBatchEvents = live
      /\ r.batchTimers = timers
  BY <1>1 DEF SameIds, SameWaits, SameChains, SameReports, CapsuleForwardingStates
<1> QED
  BY <1>2, <1>3, <1>4, <1>5, <1>6

\* The pending reports lose ids, none is added.
ReportsShrink(s, r) ==
  /\ \A w \in r.WaitForRetransInBatchEvents :
        \E v \in s.WaitForRetransInBatchEvents : w.ids \subseteq v.ids
  /\ \A w, x \in r.WaitForRetransInBatchEvents : w # x =>
        \E v, y \in s.WaitForRetransInBatchEvents :
           v # y /\ w.ids \subseteq v.ids /\ x.ids \subseteq y.ids

\* An id leaves the first pending report that names it.
LEMMA CleanWaitForRequestMEventsEffect ==
  ASSUME NEW s \in CapsuleForwardingStates, NEW d
  PROVE  LET r == CleanWaitForRequestMEvents(s, d)
         IN  /\ SameIds(s, r) /\ SameWaits(s, r) /\ SameChains(s, r) /\ SameBatches(s, r)
             /\ ReportsShrink(s, r)
<1> DEFINE holding == {w \in s.WaitForRetransInBatchEvents : w.listed /\ d \in w.ids}
           first   == CHOOSE w \in holding : \A v \in holding : w.eventID <= v.eventID
           rest    == [eventID |-> first.eventID, ids |-> first.ids \ {d}, listed |-> FALSE]
           left    == (s.WaitForRetransInBatchEvents \ {first})
                         \cup (IF rest.ids = {} THEN {} ELSE {rest})
           r       == CleanWaitForRequestMEvents(s, d)
<1>1. CASE holding = {}
  <2>1. r = s
    BY <1>1 DEF CleanWaitForRequestMEvents
  <2> HIDE DEF r
  <2>2. SameIds(s, r) /\ SameWaits(s, r) /\ SameChains(s, r) /\ SameBatches(s, r)
    BY <2>1 DEF SameIds, SameWaits, SameChains, SameBatches
  <2>3. ReportsShrink(s, r)
    BY <2>1 DEF ReportsShrink
  <2> QED
    BY <2>2, <2>3 DEF r
<1>2. CASE holding # {}
  <2>1. first \in s.WaitForRetransInBatchEvents
    <3>1. holding \in SUBSET ReportWaits /\ holding \subseteq s.WaitForRetransInBatchEvents
      BY DEF CapsuleForwardingStates
    <3> HIDE DEF holding
    <3>2. first \in holding
      BY <1>2, <3>1, OldestExists
    <3> QED
      BY <3>1, <3>2
  <2>2. r = [s EXCEPT !.WaitForRetransInBatchEvents = left]
    BY <1>2 DEF CleanWaitForRequestMEvents
  <2>3. r = CleanWaitForRequestMEvents(s, d)
    OBVIOUS
  <2> HIDE DEF first, r
  <2>4. rest.ids \subseteq first.ids
    OBVIOUS
  <2> HIDE DEF rest
  <2>5. /\ left \subseteq (s.WaitForRetransInBatchEvents \ {first}) \cup {rest}
    OBVIOUS
  <2> HIDE DEF left
  <2>6. /\ SameIds(s, r) /\ SameWaits(s, r) /\ SameChains(s, r) /\ SameBatches(s, r)
        /\ r.WaitForRetransInBatchEvents = left
    BY <2>2 DEF SameIds, SameWaits, SameChains, SameBatches, CapsuleForwardingStates
  <2>7. ReportsShrink(s, r)
    <3>1. ASSUME NEW w \in left
          PROVE  \E v \in s.WaitForRetransInBatchEvents : w.ids \subseteq v.ids
      BY <2>1, <2>4, <2>5
    <3>2. ASSUME NEW w \in left, NEW x \in left, w # x
          PROVE  \E v, y \in s.WaitForRetransInBatchEvents :
                    v # y /\ w.ids \subseteq v.ids /\ x.ids \subseteq y.ids
      <4>1. CASE w = rest
        <5>1. x \in s.WaitForRetransInBatchEvents \ {first}
          BY <2>5, <3>2, <4>1
        <5> QED
          BY <2>1, <2>4, <4>1, <5>1
      <4>2. CASE x = rest
        <5>1. w \in s.WaitForRetransInBatchEvents \ {first}
          BY <2>5, <3>2, <4>2
        <5> QED
          BY <2>1, <2>4, <4>2, <5>1
      <4>3. CASE w # rest /\ x # rest
        BY <2>5, <3>2, <4>3
      <4> QED
        BY <4>1, <4>2, <4>3
    <3> QED
      BY <2>6, <3>1, <3>2 DEF ReportsShrink
  <2> QED
    BY <2>3, <2>6, <2>7
<1> QED
  BY <1>1, <1>2

\* A report is noted, if its source is known.
LEMMA ScheduleWaitToRequestMEffect ==
  ASSUME NEW s \in CapsuleForwardingStates, NEW ids, NEW known
  PROVE  LET r == ScheduleWaitToRequestM(s, ids, known)
         IN  /\ SameIds(s, r) /\ SameWaits(s, r) /\ SameChains(s, r) /\ SameBatches(s, r)
             /\ \/ SameReports(s, r)
                \/ \E w : /\ w.ids = ids
                          /\ r.WaitForRetransInBatchEvents = s.WaitForRetransInBatchEvents \cup {w}
<1> DEFINE w == [eventID |-> s.curWaitForRetransInBatchEventID, ids |-> ids, listed |-> TRUE]
           t == [s EXCEPT !.curWaitForRetransInBatchEventID = @ + 1,
                          !.WaitForRetransInBatchEvents = @ \cup {w}]
<1>1. w.ids = ids
  OBVIOUS
<1>2. ScheduleWaitToRequestM(s, ids, known) \in {s, t}
  BY DEF ScheduleWaitToRequestM
<1> HIDE DEF w
<1>3. /\ SameIds(s, t) /\ SameWaits(s, t) /\ SameChains(s, t) /\ SameBatches(s, t)
      /\ t.WaitForRetransInBatchEvents = s.WaitForRetransInBatchEvents \cup {w}
  BY DEF SameIds, SameWaits, SameChains, SameBatches, CapsuleForwardingStates
<1>4. SameIds(s, s) /\ SameWaits(s, s) /\ SameChains(s, s) /\ SameBatches(s, s) /\ SameReports(s, s)
  BY DEF SameIds, SameWaits, SameChains, SameBatches, SameReports
<1> HIDE DEF t
<1> QED
  BY <1>1, <1>2, <1>3, <1>4

-------------------------------------------------------------------------------
(***************************************************************************)
(* What the tables of a router always satisfy, between two handlers and,   *)
(* but for the parts noted, inside one.                                    *)
(***************************************************************************)
\* SingleChain of a record, with the queued waits known to the table.
ChainsListed(s) ==
  /\ s.waitTimers \subseteq s.waitForNextDataEvents
  /\ \A t \in s.singleTimers :
       /\ <<t.id, t.path>> \in s.retransInSingleEvents
       /\ t.id \in s.waitForNextDataEvents \ s.waitTimers
       /\ \A u \in s.singleTimers : u.id = t.id /\ u.path = t.path => u = t

\* BatchTracked of a record, with the numbers of the batches used up.
RoundsListed(s) ==
  /\ \A b \in s.retransInBatchEvents : b.rbi < s.curRetransInBatchID
  /\ \A t \in s.batchTimers :
       /\ \E b \in s.retransInBatchEvents : b.rbi = t.rbi
       /\ \A u \in s.batchTimers : u.rbi = t.rbi => u = t

\* A pending report names ids reported lost, and an id is in one pending report or in one
\* batch only, those transmitted aside; batches ask for ids the router has passed.
Booked(s) ==
  /\ \A w \in s.WaitForRetransInBatchEvents : w.ids \subseteq Skipped(s)
  /\ \A v, w \in s.WaitForRetransInBatchEvents :
        v # w => v.ids \cap w.ids \subseteq s.transmittedDataIds
  /\ \A w \in s.WaitForRetransInBatchEvents, b \in s.retransInBatchEvents :
        w.ids \cap b.ids \subseteq s.transmittedDataIds
  /\ \A b \in s.retransInBatchEvents : \A i \in b.ids : i <= s.lastDataId \/ i \in Skipped(s)
  /\ \A a, b \in s.retransInBatchEvents : a # b => a.ids \cap b.ids = {}

\* Where no report comes, no awaited id is in a batch.
Exclusive(s) ==
  ReportUIDs = {} =>
    /\ s.WaitForRetransInBatchEvents = {}
    /\ s.lostDataIdsFromPrevRouters = {}
    /\ \A b \in s.retransInBatchEvents : \A i \in b.ids :
         /\ i \in 1..s.lastDataId
         /\ i \notin s.waitTimers
         /\ \A t \in s.singleTimers : t.id # i

Sound(s) == ChainsListed(s) /\ RoundsListed(s) /\ Booked(s) /\ Exclusive(s)

\* n is the first id after cur that is neither transmitted nor reported lost.
IsNext(s, cur, n) ==
  /\ n \in (cur + 1)..(MaxDataId + 1)
  /\ n \notin Skipped(s)
  /\ \A m \in (cur + 1)..(n - 1) : m \in Skipped(s)

\* Behind the last id only the next one is awaited, and it is.
Ahead(s) ==
  /\ \A w \in s.waitForNextDataEvents : w > s.lastDataId => IsNext(s, s.lastDataId, w)
  /\ s.lastDataId > 0 => ComputeNextDataId(s, s.lastDataId) \in s.waitForNextDataEvents

\* From s to r no id gets out of sight.
NoGap(s, r) == Unaccounted(r) \subseteq Unaccounted(s)

LEMMA NoGapReflexive ==
  ASSUME NEW s
  PROVE  NoGap(s, s)
  BY DEF NoGap

LEMMA NoGapTransitive ==
  ASSUME NEW s, NEW r, NEW t, NoGap(s, r), NoGap(r, t)
  PROVE  NoGap(s, t)
  BY DEF NoGap

\* What computeNextDataId finds.
LEMMA NextFound ==
  ASSUME RetransControlAssumption, NEW s \in CapsuleForwardingStates, NEW cur \in DataIds
  PROVE  IsNext(s, cur, ComputeNextDataId(s, cur))
<1> DEFINE T == {n \in 0..(MaxDataId + 1) : n > cur /\ n \notin Skipped(s)}
<1>0. MaxDataId \in Nat
  BY DEF RetransControlAssumption
<1>1. Skipped(s) \subseteq DataIds
  BY DEF Skipped, CapsuleForwardingStates
<1>2. MaxDataId + 1 \in T
  BY <1>0, <1>1 DEF DataIds
<1>3. PICK n \in T : \A m \in T : n <= m
  <2>1. T \in SUBSET (0..(MaxDataId + 1)) /\ T # {} /\ MaxDataId + 1 \in Nat
    BY <1>0, <1>2
  <2> QED BY <2>1, LeastExists
<1>4. \A m \in (cur + 1)..(n - 1) : m \in Skipped(s)
  BY <1>0, <1>3 DEF DataIds
<1>5. n \in (cur + 1)..(MaxDataId + 1) /\ n \notin Skipped(s)
  BY <1>0 DEF DataIds
<1> HIDE DEF T
<1> QED BY <1>4, <1>5 DEF ComputeNextDataId, IsNext

\* It is the only one.
LEMMA NextUnique ==
  ASSUME RetransControlAssumption, NEW s, NEW cur \in DataIds, NEW a, NEW b,
         IsNext(s, cur, a), IsNext(s, cur, b)
  PROVE  a = b
<1>1. MaxDataId \in Nat /\ cur \in Nat /\ a \in Int /\ b \in Int
  BY DEF IsNext, DataIds, RetransControlAssumption
<1>2. ~ a < b
  BY <1>1 DEF IsNext
<1>3. ~ b < a
  BY <1>1 DEF IsNext
<1> QED
  BY <1>1, <1>2, <1>3

LEMMA NextIs ==
  ASSUME RetransControlAssumption, NEW s \in CapsuleForwardingStates, NEW cur \in DataIds, NEW n,
         IsNext(s, cur, n)
  PROVE  ComputeNextDataId(s, cur) = n
  BY NextFound, NextUnique

-------------------------------------------------------------------------------
(***************************************************************************)
(* Each operator keeps the tables sound.                                   *)
(***************************************************************************)
LEMMA SameTablesSound ==
  ASSUME NEW s, NEW r, SameTables(s, r)
  PROVE  /\ Sound(s) => Sound(r)
         /\ NoGap(s, r)
<1> USE DEF SameTables, SameIds, SameWaits, SameChains, SameBatches, SameReports
<1>1. Skipped(r) = Skipped(s)
  BY DEF Skipped
<1>2. ChainsListed(s) => ChainsListed(r)
  BY DEF ChainsListed
<1>3. RoundsListed(s) => RoundsListed(r)
  BY DEF RoundsListed
<1>4. Booked(s) => Booked(r)
  BY <1>1 DEF Booked
<1>5. Exclusive(s) => Exclusive(r)
  BY DEF Exclusive
<1>6. NoGap(s, r)
  BY DEF NoGap, Unaccounted, Accounted
<1> QED
  BY <1>2, <1>3, <1>4, <1>5, <1>6 DEF Sound

\* Reports may shrink, transmitted ids, skipped ids and lastDataId grow.
LEMMA ShrinkBooked ==
  ASSUME NEW s \in CapsuleForwardingStates, NEW r \in CapsuleForwardingStates, Booked(s),
         ReportsShrink(s, r),
         s.transmittedDataIds \subseteq r.transmittedDataIds,
         Skipped(s) \subseteq Skipped(r),
         s.lastDataId <= r.lastDataId,
         \A b \in r.retransInBatchEvents : \E c \in s.retransInBatchEvents : b.ids \subseteq c.ids,
         \A a, b \in r.retransInBatchEvents : a # b =>
            \E c, e \in s.retransInBatchEvents : c # e /\ a.ids \subseteq c.ids /\ b.ids \subseteq e.ids
  PROVE  Booked(r)
<1>1. \A w \in r.WaitForRetransInBatchEvents : w.ids \subseteq Skipped(r)
  BY DEF Booked, ReportsShrink
<1>2. \A v, w \in r.WaitForRetransInBatchEvents :
         v # w => v.ids \cap w.ids \subseteq r.transmittedDataIds
  <2> SUFFICES ASSUME NEW v \in r.WaitForRetransInBatchEvents,
                      NEW w \in r.WaitForRetransInBatchEvents, v # w
               PROVE  v.ids \cap w.ids \subseteq r.transmittedDataIds
    OBVIOUS
  <2>1. PICK x, y \in s.WaitForRetransInBatchEvents :
           x # y /\ v.ids \subseteq x.ids /\ w.ids \subseteq y.ids
    BY DEF ReportsShrink
  <2>2. x.ids \cap y.ids \subseteq s.transmittedDataIds
    BY <2>1 DEF Booked
  <2> QED
    BY <2>1, <2>2
<1>3. \A w \in r.WaitForRetransInBatchEvents, b \in r.retransInBatchEvents :
         w.ids \cap b.ids \subseteq r.transmittedDataIds
  <2> SUFFICES ASSUME NEW w \in r.WaitForRetransInBatchEvents, NEW b \in r.retransInBatchEvents
               PROVE  w.ids \cap b.ids \subseteq r.transmittedDataIds
    OBVIOUS
  <2>1. PICK x \in s.WaitForRetransInBatchEvents : w.ids \subseteq x.ids
    BY DEF ReportsShrink
  <2>2. PICK c \in s.retransInBatchEvents : b.ids \subseteq c.ids
    OBVIOUS
  <2>3. x.ids \cap c.ids \subseteq s.transmittedDataIds
    BY DEF Booked
  <2> QED
    BY <2>1, <2>2, <2>3
<1>4. \A b \in r.retransInBatchEvents : \A i \in b.ids : i <= r.lastDataId \/ i \in Skipped(r)
  <2> SUFFICES ASSUME NEW b \in r.retransInBatchEvents, NEW i \in b.ids
               PROVE  i <= r.lastDataId \/ i \in Skipped(r)
    OBVIOUS
  <2>1. i \in Int /\ s.lastDataId \in Int /\ r.lastDataId \in Int
    BY DEF CapsuleForwardingStates, Batches, DataIds
  <2>2. PICK c \in s.retransInBatchEvents : b.ids \subseteq c.ids
    OBVIOUS
  <2>3. i <= s.lastDataId \/ i \in Skipped(s)
    BY <2>2 DEF Booked
  <2> QED
    BY <2>1, <2>3
<1>5. \A a, b \in r.retransInBatchEvents : a # b => a.ids \cap b.ids = {}
  <2> SUFFICES ASSUME NEW a \in r.retransInBatchEvents, NEW b \in r.retransInBatchEvents, a # b
               PROVE  a.ids \cap b.ids = {}
    OBVIOUS
  <2>1. PICK c, e \in s.retransInBatchEvents :
           c # e /\ a.ids \subseteq c.ids /\ b.ids \subseteq e.ids
    OBVIOUS
  <2>2. c.ids \cap e.ids = {}
    BY <2>1 DEF Booked
  <2> QED
    BY <2>1, <2>2
<1> QED
  BY <1>1, <1>2, <1>3, <1>4, <1>5 DEF Booked

LEMMA ReportsSame ==
  ASSUME NEW s, NEW r, SameReports(s, r)
  PROVE  ReportsShrink(s, r)
  BY DEF SameReports, ReportsShrink

\* A capsule is recorded: less is missing than before.
LEMMA RecordTransmittedSound ==
  ASSUME NEW s \in CapsuleForwardingStates, NEW d \in DataIds, Sound(s)
  PROVE  Sound(RecordTransmitted(s, d)) /\ NoGap(s, RecordTransmitted(s, d))
<1> DEFINE r == RecordTransmitted(s, d)
<1>1. /\ r \in CapsuleForwardingStates
      /\ r.transmittedDataIds = s.transmittedDataIds \cup {d}
      /\ SameWaits(s, r) /\ SameChains(s, r) /\ SameBatches(s, r) /\ SameReports(s, r)
      /\ r.lastDataId = s.lastDataId
      /\ r.lostDataIdsFromPrevRouters = s.lostDataIdsFromPrevRouters
  BY RecordTransmittedEffect, RecordTransmittedTables
<1> HIDE DEF r
<1>2. ChainsListed(r)
  BY <1>1 DEF Sound, ChainsListed, SameWaits, SameChains
<1>3. RoundsListed(r)
  BY <1>1 DEF Sound, RoundsListed, SameBatches
<1>4. Booked(r)
  <2>1. Skipped(s) \subseteq Skipped(r)
    BY <1>1 DEF Skipped
  <2>2. s.lastDataId <= r.lastDataId
    BY <1>1 DEF CapsuleForwardingStates, DataIds
  <2>3. r.retransInBatchEvents = s.retransInBatchEvents
    BY <1>1 DEF SameBatches
  <2>4. ReportsShrink(s, r)
    BY <1>1, ReportsSame
  <2> QED
    BY <1>1, <2>1, <2>2, <2>3, <2>4, ShrinkBooked DEF Sound
<1>5. Exclusive(r)
  BY <1>1 DEF Sound, Exclusive, SameWaits, SameChains, SameBatches, SameReports
<1>6. NoGap(s, r)
  BY <1>1 DEF NoGap, Unaccounted, Accounted, SameWaits, SameBatches
<1> QED
  BY <1>2, <1>3, <1>4, <1>5, <1>6 DEF Sound, r

\* Only waits and chains change: the books stay.
LEMMA SameBooks ==
  ASSUME NEW s, NEW r, SameIds(s, r), SameBatches(s, r), SameReports(s, r)
  PROVE  /\ Skipped(r) = Skipped(s)
         /\ RoundsListed(s) => RoundsListed(r)
         /\ Booked(s) => Booked(r)
<1> USE DEF SameIds, SameBatches, SameReports
<1>1. Skipped(r) = Skipped(s)
  BY DEF Skipped
<1>2. RoundsListed(s) => RoundsListed(r)
  BY DEF RoundsListed
<1>3. Booked(s) => Booked(r)
  BY <1>1 DEF Booked
<1> QED
  BY <1>1, <1>2, <1>3

\* A wait starts, of an id that no chain is for: chains wait for ids of the table.
LEMMA WaitForNextCapsuleSound ==
  ASSUME NEW s \in CapsuleForwardingStates, NEW d, Sound(s),
         ReportUIDs = {} => \A b \in s.retransInBatchEvents : d \notin b.ids
  PROVE  Sound(WaitForNextCapsule(s, d)) /\ NoGap(s, WaitForNextCapsule(s, d))
<1> DEFINE r == WaitForNextCapsule(s, d)
<1>1. /\ SameIds(s, r) /\ SameChains(s, r) /\ SameBatches(s, r) /\ SameReports(s, r)
      /\ r.waitForNextDataEvents = s.waitForNextDataEvents \cup {d}
      /\ r.waitTimers = IF d \in s.waitForNextDataEvents THEN s.waitTimers
                        ELSE s.waitTimers \cup {d}
  BY WaitForNextCapsuleEffect
<1> HIDE DEF r
<1>2. ChainsListed(r)
  BY <1>1 DEF Sound, ChainsListed, SameChains
<1>3. RoundsListed(r) /\ Booked(r)
  BY <1>1, SameBooks DEF Sound
<1>4. Exclusive(r)
  BY <1>1 DEF Sound, Exclusive, SameChains, SameBatches, SameReports, SameIds
<1>5. NoGap(s, r)
  BY <1>1 DEF NoGap, Unaccounted, Accounted, SameBatches, SameIds
<1> QED
  BY <1>2, <1>3, <1>4, <1>5 DEF Sound, r

\* The waits and chains of ids end together.
LEMMA EndWaitsSound ==
  ASSUME NEW s \in CapsuleForwardingStates, NEW ids
  PROVE  /\ ChainsListed(s) => ChainsListed(EndWaits(s, ids))
         /\ Sound(s) => Sound(EndWaits(s, ids))
         /\ ids \subseteq Skipped(s) => NoGap(s, EndWaits(s, ids))
<1> DEFINE r == EndWaits(s, ids)
<1>1. /\ SameIds(s, r) /\ SameBatches(s, r) /\ SameReports(s, r)
      /\ r.waitForNextDataEvents = s.waitForNextDataEvents \ ids
      /\ r.waitTimers = s.waitTimers \ ids
      /\ r.retransInSingleEvents = {e \in s.retransInSingleEvents : e[1] \notin ids}
      /\ r.singleTimers = {t \in s.singleTimers : t.id \notin ids}
  BY EndWaitsEffect
<1> HIDE DEF r
<1>2. ChainsListed(s) => ChainsListed(r)
  BY <1>1 DEF ChainsListed
<1>3. RoundsListed(s) /\ Booked(s) => RoundsListed(r) /\ Booked(r)
  BY <1>1, SameBooks
<1>4. Exclusive(s) => Exclusive(r)
  BY <1>1 DEF Exclusive, SameBatches, SameReports, SameIds
<1>5. ids \subseteq Skipped(s) => NoGap(s, r)
  BY <1>1 DEF NoGap, Unaccounted, Accounted, Skipped, SameBatches, SameIds
<1> QED
  BY <1>2, <1>3, <1>4, <1>5 DEF Sound, r

\* Chains end, their waits stay.
LEMMA CleanRetranInSingleEventsSound ==
  ASSUME NEW s \in CapsuleForwardingStates, NEW ids, Sound(s)
  PROVE  /\ Sound(CleanRetranInSingleEvents(s, ids))
         /\ NoGap(s, CleanRetranInSingleEvents(s, ids))
<1> DEFINE r == CleanRetranInSingleEvents(s, ids)
<1>1. /\ SameIds(s, r) /\ SameWaits(s, r) /\ SameBatches(s, r) /\ SameReports(s, r)
      /\ r.retransInSingleEvents = {e \in s.retransInSingleEvents : e[1] \notin ids}
      /\ r.singleTimers = {t \in s.singleTimers : t.id \notin ids}
  BY CleanRetranInSingleEventsEffect
<1> HIDE DEF r
<1>2. ChainsListed(r)
  BY <1>1 DEF Sound, ChainsListed, SameWaits
<1>3. RoundsListed(r) /\ Booked(r)
  BY <1>1, SameBooks DEF Sound
<1>4. Exclusive(r)
  BY <1>1 DEF Sound, Exclusive, SameWaits, SameBatches, SameReports, SameIds
<1>5. NoGap(s, r)
  BY <1>1 DEF NoGap, Unaccounted, Accounted, SameWaits, SameBatches, SameIds
<1> QED
  BY <1>2, <1>3, <1>4, <1>5 DEF Sound, r

\* A round of chains of an id starts where its wait has ended and no chain of it is queued.
LEMMA RequestSRoundSound ==
  ASSUME NEW s \in CapsuleForwardingStates, NEW d, NEW paths, NEW rest, Sound(s),
         d \in s.waitForNextDataEvents \ s.waitTimers,
         \A t \in s.singleTimers : t.id = d => t.path \notin paths,
         ReportUIDs = {} => \A b \in s.retransInBatchEvents : d \notin b.ids
  PROVE  /\ Sound(RequestSRound(s, d, paths, rest))
         /\ NoGap(s, RequestSRound(s, d, paths, rest))
<1> DEFINE new     == {[id |-> d, path |-> p, rest |-> rest - 1] : p \in paths}
           entries == {<<d, p>> : p \in paths}
           r       == RequestSRound(s, d, paths, rest)
<1>1. /\ SameIds(s, r) /\ SameWaits(s, r) /\ SameBatches(s, r) /\ SameReports(s, r)
      /\ \/ SameChains(s, r)
         \/ /\ r.retransInSingleEvents = s.retransInSingleEvents \cup entries
            /\ r.singleTimers = s.singleTimers \cup new
  BY RequestSRoundEffect
<1> HIDE DEF r
<1>2. \A t \in new : t.id = d /\ t.path \in paths /\ t.rest = rest - 1 /\ <<d, t.path>> \in entries
  OBVIOUS
<1>3. \A t, u \in new : t.path = u.path => t = u
  OBVIOUS
<1> HIDE DEF new, entries
<1>4. ChainsListed(r)
  <2>1. CASE SameChains(s, r)
    BY <1>1, <2>1 DEF Sound, ChainsListed, SameWaits, SameChains
  <2>2. CASE /\ r.retransInSingleEvents = s.retransInSingleEvents \cup entries
             /\ r.singleTimers = s.singleTimers \cup new
    <3> SUFFICES ASSUME NEW t \in r.singleTimers
                 PROVE  /\ <<t.id, t.path>> \in r.retransInSingleEvents
                        /\ t.id \in r.waitForNextDataEvents \ r.waitTimers
                        /\ \A u \in r.singleTimers : u.id = t.id /\ u.path = t.path => u = t
      BY <1>1 DEF Sound, ChainsListed, SameWaits
    <3>1. CASE t \in new
      BY <1>1, <1>2, <1>3, <2>2, <3>1 DEF SameWaits
    <3>2. CASE t \in s.singleTimers
      BY <1>1, <1>2, <2>2, <3>2 DEF Sound, ChainsListed, SameWaits
    <3> QED
      BY <2>2, <3>1, <3>2
  <2> QED
    BY <1>1, <2>1, <2>2
<1>5. RoundsListed(r) /\ Booked(r)
  BY <1>1, SameBooks DEF Sound
<1>6. Exclusive(r)
  <2> SUFFICES ASSUME ReportUIDs = {} PROVE Exclusive(r)
    BY DEF Exclusive
  <2>1. r.WaitForRetransInBatchEvents = {} /\ r.lostDataIdsFromPrevRouters = {}
    BY <1>1 DEF Sound, Exclusive, SameReports, SameIds
  <2>2. ASSUME NEW b \in r.retransInBatchEvents, NEW i \in b.ids
        PROVE  /\ i \in 1..r.lastDataId
               /\ i \notin r.waitTimers
               /\ \A t \in r.singleTimers : t.id # i
    <3>1. b \in s.retransInBatchEvents
      BY <1>1, <2>2 DEF SameBatches
    <3>2. i \in 1..r.lastDataId /\ i \notin r.waitTimers /\ \A t \in s.singleTimers : t.id # i
      BY <1>1, <3>1 DEF Sound, Exclusive, SameIds, SameWaits
    <3>3. i # d
      BY <3>1
    <3>4. \A t \in r.singleTimers : t \in s.singleTimers \/ t \in new
      BY <1>1 DEF SameChains
    <3> QED
      BY <1>2, <3>2, <3>3, <3>4
  <2> QED
    BY <2>1, <2>2 DEF Exclusive
<1>7. NoGap(s, r)
  BY <1>1 DEF NoGap, Unaccounted, Accounted, SameWaits, SameBatches, SameIds
<1> QED
  BY <1>4, <1>5, <1>6, <1>7 DEF Sound, r

\* Pending reports lose an id.
LEMMA CleanWaitForRequestMEventsSound ==
  ASSUME RetransControlAssumption,
         NEW s \in CapsuleForwardingStates, NEW d, Sound(s)
  PROVE  /\ Sound(CleanWaitForRequestMEvents(s, d))
         /\ NoGap(s, CleanWaitForRequestMEvents(s, d))
<1> DEFINE r == CleanWaitForRequestMEvents(s, d)
<1>1. /\ SameIds(s, r) /\ SameWaits(s, r) /\ SameChains(s, r) /\ SameBatches(s, r)
      /\ ReportsShrink(s, r)
      /\ r \in CapsuleForwardingStates
  BY CleanWaitForRequestMEventsEffect, CleanWaitForRequestMEventsSilent DEF Silent
<1> HIDE DEF r
<1>2. ChainsListed(r)
  BY <1>1 DEF Sound, ChainsListed, SameWaits, SameChains
<1>3. RoundsListed(r)
  BY <1>1 DEF Sound, RoundsListed, SameBatches
<1>4. Booked(r)
  <2>1. Skipped(s) \subseteq Skipped(r) /\ s.transmittedDataIds \subseteq r.transmittedDataIds
    BY <1>1 DEF Skipped, SameIds
  <2>2. s.lastDataId <= r.lastDataId
    BY <1>1 DEF CapsuleForwardingStates, DataIds, SameIds
  <2>3. r.retransInBatchEvents = s.retransInBatchEvents
    BY <1>1 DEF SameBatches
  <2> QED
    BY <1>1, <2>1, <2>2, <2>3, ShrinkBooked DEF Sound
<1>5. Exclusive(r)
  BY <1>1 DEF Sound, Exclusive, ReportsShrink, SameWaits, SameChains, SameBatches, SameIds
<1>6. NoGap(s, r)
  BY <1>1 DEF NoGap, Unaccounted, Accounted, SameWaits, SameBatches, SameIds
<1> QED
  BY <1>2, <1>3, <1>4, <1>5, <1>6 DEF Sound, r

-------------------------------------------------------------------------------
(***************************************************************************)
(* Batches are opened for ids that no batch and no pending report has, and *)
(* under a new number.                                                     *)
(***************************************************************************)
LEMMA NewBatchRounds ==
  ASSUME NEW s \in CapsuleForwardingStates, NEW r, NEW ids, RoundsListed(s),
         r.curRetransInBatchID = s.curRetransInBatchID + 1,
         r.retransInBatchEvents =
           s.retransInBatchEvents \cup {[rbi |-> s.curRetransInBatchID, ids |-> ids]},
         \/ r.batchTimers = s.batchTimers
         \/ \E rest : r.batchTimers =
                        s.batchTimers \cup {[rbi |-> s.curRetransInBatchID, rest |-> rest]}
  PROVE  RoundsListed(r)
<1> DEFINE rbi == s.curRetransInBatchID
           new == [rbi |-> rbi, ids |-> ids]
<1>1. rbi \in Nat /\ \A b \in s.retransInBatchEvents : b.rbi \in Nat
  BY DEF CapsuleForwardingStates, Batches
<1>2. new.rbi = rbi
  OBVIOUS
<1>3. /\ r.curRetransInBatchID = rbi + 1
      /\ r.retransInBatchEvents = s.retransInBatchEvents \cup {new}
  OBVIOUS
<1>4. \A t \in s.batchTimers : t.rbi # rbi
  BY <1>1 DEF RoundsListed
<1>5. PICK timer : /\ timer.rbi = rbi
                   /\ r.batchTimers \subseteq s.batchTimers \cup {timer}
  <2>1. CASE r.batchTimers = s.batchTimers
    BY <1>2, <2>1
  <2>2. CASE r.batchTimers # s.batchTimers
    <3>1. PICK rest : r.batchTimers = s.batchTimers \cup {[rbi |-> rbi, rest |-> rest]}
      BY <2>2
    <3>2. [rbi |-> rbi, rest |-> rest].rbi = rbi
      OBVIOUS
    <3> QED
      BY <3>1, <3>2
  <2> QED
    BY <2>1, <2>2
<1> HIDE DEF rbi, new
<1>6. \A b \in r.retransInBatchEvents : b.rbi < r.curRetransInBatchID
  <2>1. \A b \in s.retransInBatchEvents : b.rbi < rbi
    BY DEF RoundsListed, rbi
  <2> QED
    BY <1>1, <1>2, <1>3, <2>1
<1>7. ASSUME NEW t \in r.batchTimers
      PROVE  /\ \E b \in r.retransInBatchEvents : b.rbi = t.rbi
             /\ \A u \in r.batchTimers : u.rbi = t.rbi => u = t
  <2>1. CASE t = timer
    BY <1>2, <1>3, <1>4, <1>5, <2>1
  <2>2. CASE t \in s.batchTimers
    BY <1>3, <1>4, <1>5, <2>2 DEF RoundsListed
  <2> QED
    BY <1>5, <2>1, <2>2
<1> QED
  BY <1>6, <1>7 DEF RoundsListed

LEMMA NewBatchBooked ==
  ASSUME NEW s \in CapsuleForwardingStates, NEW r \in CapsuleForwardingStates, Booked(s),
         NEW new, r.retransInBatchEvents = s.retransInBatchEvents \cup {new},
         r.transmittedDataIds = s.transmittedDataIds,
         r.lostDataIdsFromPrevRouters = s.lostDataIdsFromPrevRouters,
         s.lastDataId <= r.lastDataId,
         r.WaitForRetransInBatchEvents \subseteq s.WaitForRetransInBatchEvents,
         \A w \in r.WaitForRetransInBatchEvents : w.ids \cap new.ids \subseteq s.transmittedDataIds,
         \A b \in s.retransInBatchEvents : b.ids \cap new.ids = {},
         \A i \in new.ids : i <= r.lastDataId \/ i \in Skipped(s)
  PROVE  Booked(r)
<1>1. Skipped(r) = Skipped(s)
  BY DEF Skipped
<1>2. \A b \in r.retransInBatchEvents : \A i \in b.ids : i <= r.lastDataId \/ i \in Skipped(r)
  <2> SUFFICES ASSUME NEW b \in r.retransInBatchEvents, NEW i \in b.ids
               PROVE  i <= r.lastDataId \/ i \in Skipped(r)
    OBVIOUS
  <2>1. i \in Int /\ s.lastDataId \in Int /\ r.lastDataId \in Int
    BY DEF CapsuleForwardingStates, Batches, DataIds
  <2>2. CASE b = new
    BY <1>1, <2>2
  <2>3. CASE b \in s.retransInBatchEvents
    BY <1>1, <2>1, <2>3 DEF Booked
  <2> QED
    BY <2>2, <2>3
<1>3. /\ \A w \in r.WaitForRetransInBatchEvents : w.ids \subseteq Skipped(r)
      /\ \A v, w \in r.WaitForRetransInBatchEvents :
            v # w => v.ids \cap w.ids \subseteq r.transmittedDataIds
  BY <1>1 DEF Booked
<1>4. \A w \in r.WaitForRetransInBatchEvents, b \in r.retransInBatchEvents :
         w.ids \cap b.ids \subseteq r.transmittedDataIds
  BY DEF Booked
<1>5. \A a, b \in r.retransInBatchEvents : a # b => a.ids \cap b.ids = {}
  BY DEF Booked
<1> QED
  BY <1>2, <1>3, <1>4, <1>5 DEF Booked

\* A gap becomes a batch, and lastDataId moves behind it.
Advanced(s, d) ==
  [DiscoverLostCapsules(s, d) EXCEPT !.lastDataId = IF d > @ THEN d ELSE @]

LEMMA DiscoverLostCapsulesEffect ==
  ASSUME RetransControlAssumption,
         NEW s \in CapsuleForwardingStates, NEW d \in DataIds
  PROVE  LET r   == Advanced(s, d)
             new == NewLostDataIds(s, d)
             rbi == s.curRetransInBatchID
         IN  /\ r \in CapsuleForwardingStates
             /\ r.transmittedDataIds = s.transmittedDataIds
             /\ r.lostDataIdsFromPrevRouters = s.lostDataIdsFromPrevRouters
             /\ r.lastDataId = IF d > s.lastDataId THEN d ELSE s.lastDataId
             /\ SameWaits(s, r) /\ SameChains(s, r) /\ SameReports(s, r)
             /\ \/ new = {} /\ SameBatches(s, r)
                \/ /\ new # {}
                   /\ r.curRetransInBatchID = rbi + 1
                   /\ r.retransInBatchEvents =
                        s.retransInBatchEvents \cup {[rbi |-> rbi, ids |-> new]}
                   /\ \/ r.batchTimers = s.batchTimers
                      \/ \E rest : r.batchTimers =
                                     s.batchTimers \cup {[rbi |-> rbi, rest |-> rest]}
<1> DEFINE new == NewLostDataIds(s, d)
           b   == BroadcastRequestM(s, new)
           c   == SendReport(b, new, RsgId, s.preferredDownPathId)
           g   == DiscoverLostCapsules(s, d)
           r   == Advanced(s, d)
<1>1. new \in SUBSET DataIds
  BY DEF NewLostDataIds, DataIds, CapsuleForwardingStates, RetransControlAssumption
<1>2. g = IF new = {} THEN s ELSE c
  BY DEF DiscoverLostCapsules
<1>3. g \in CapsuleForwardingStates /\ g.transmittedDataIds = s.transmittedDataIds
  BY DiscoverLostCapsulesSilent DEF Silent
<1>4. r = [g EXCEPT !.lastDataId = IF d > g.lastDataId THEN d ELSE g.lastDataId]
  BY DEF Advanced
<1>5. r = Advanced(s, d)
  OBVIOUS
<1>6. new = NewLostDataIds(s, d)
  OBVIOUS
<1> HIDE DEF new, g, r
<1>7. /\ r \in CapsuleForwardingStates
      /\ r.transmittedDataIds = s.transmittedDataIds
      /\ r.lostDataIdsFromPrevRouters = g.lostDataIdsFromPrevRouters
      /\ r.lastDataId = IF d > g.lastDataId THEN d ELSE g.lastDataId
      /\ SameWaits(g, r) /\ SameChains(g, r) /\ SameReports(g, r) /\ SameBatches(g, r)
  BY <1>3, <1>4 DEF SameWaits, SameChains, SameReports, SameBatches, CapsuleForwardingStates
<1>8. CASE new = {}
  BY <1>2, <1>5, <1>6, <1>7, <1>8
<1>9. CASE new # {}
  <2>1. /\ SameIds(s, b) /\ SameWaits(s, b) /\ SameChains(s, b) /\ SameReports(s, b)
        /\ b.curRetransInBatchID = s.curRetransInBatchID + 1
        /\ b.retransInBatchEvents =
             s.retransInBatchEvents \cup {[rbi |-> s.curRetransInBatchID, ids |-> new]}
        /\ \/ b.batchTimers = s.batchTimers
           \/ \E rest : b.batchTimers =
                 s.batchTimers \cup {[rbi |-> s.curRetransInBatchID, rest |-> rest]}
    BY <1>1, <1>9, BroadcastRequestMEffect
  <2>2. b \in CapsuleForwardingStates
    BY <1>1, BroadcastRequestMSilent DEF Silent
  <2> HIDE DEF b
  <2>3. SameTables(b, g)
    BY <1>2, <1>9, <2>2, SendReportEffect
  <2>4. /\ SameIds(s, g) /\ SameWaits(s, g) /\ SameChains(s, g) /\ SameReports(s, g)
        /\ g.curRetransInBatchID = s.curRetransInBatchID + 1
        /\ g.retransInBatchEvents =
             s.retransInBatchEvents \cup {[rbi |-> s.curRetransInBatchID, ids |-> new]}
        /\ g.batchTimers = b.batchTimers
    BY <2>1, <2>3 DEF SameTables, SameIds, SameWaits, SameChains, SameReports, SameBatches
  <2>5. /\ r.lostDataIdsFromPrevRouters = s.lostDataIdsFromPrevRouters
        /\ r.lastDataId = IF d > s.lastDataId THEN d ELSE s.lastDataId
        /\ SameWaits(s, r) /\ SameChains(s, r) /\ SameReports(s, r)
        /\ r.curRetransInBatchID = s.curRetransInBatchID + 1
        /\ r.retransInBatchEvents =
             s.retransInBatchEvents \cup {[rbi |-> s.curRetransInBatchID, ids |-> new]}
        /\ r.batchTimers = b.batchTimers
    BY <1>7, <2>4 DEF SameIds, SameWaits, SameChains, SameReports, SameBatches
  <2>6. \/ r.batchTimers = s.batchTimers
        \/ \E rest : r.batchTimers =
                 s.batchTimers \cup {[rbi |-> s.curRetransInBatchID, rest |-> rest]}
    BY <2>1, <2>5
  <2> QED
    BY <1>5, <1>6, <1>7, <1>9, <2>5, <2>6
<1> QED
  BY <1>8, <1>9

\* Every id between lastDataId and a new capsule is accounted for, in one batch at most.
LEMMA AdvancedSound ==
  ASSUME RetransControlAssumption,
         NEW s \in CapsuleForwardingStates, NEW d \in DataIds, Sound(s),
         d \in s.transmittedDataIds, d \notin s.lostDataIdsFromPrevRouters
  PROVE  Sound(Advanced(s, d)) /\ NoGap(s, Advanced(s, d))
<1> DEFINE r   == Advanced(s, d)
           ids == NewLostDataIds(s, d)
           rbi == s.curRetransInBatchID
           new == [rbi |-> rbi, ids |-> ids]
<1>1. /\ r \in CapsuleForwardingStates
      /\ r.transmittedDataIds = s.transmittedDataIds
      /\ r.lostDataIdsFromPrevRouters = s.lostDataIdsFromPrevRouters
      /\ r.lastDataId = IF d > s.lastDataId THEN d ELSE s.lastDataId
      /\ SameWaits(s, r) /\ SameChains(s, r) /\ SameReports(s, r)
      /\ \/ ids = {} /\ SameBatches(s, r)
         \/ /\ ids # {}
            /\ r.curRetransInBatchID = rbi + 1
            /\ r.retransInBatchEvents = s.retransInBatchEvents \cup {new}
            /\ \/ r.batchTimers = s.batchTimers
               \/ \E rest : r.batchTimers = s.batchTimers \cup {[rbi |-> rbi, rest |-> rest]}
  BY DiscoverLostCapsulesEffect
<1>2. s.lastDataId \in Nat /\ d \in Nat /\ s.lastDataId <= r.lastDataId /\ d <= r.lastDataId
      /\ r.lastDataId \in Nat
  BY <1>1 DEF CapsuleForwardingStates, DataIds, RetransControlAssumption
<1>3. \A i : i \in ids <=> /\ i \in (s.lastDataId + 1)..(d - 1)
                           /\ i \notin Skipped(s)
                           /\ i \notin s.waitForNextDataEvents
  BY DEF NewLostDataIds, Skipped
<1>4. Skipped(r) = Skipped(s)
  BY <1>1 DEF Skipped
<1>5. new.ids = ids
  OBVIOUS
<1> HIDE DEF r, ids
<1>6. ChainsListed(r)
  BY <1>1 DEF Sound, ChainsListed, SameWaits, SameChains
<1>7. RoundsListed(r)
  <2>1. CASE SameBatches(s, r)
    BY <2>1 DEF Sound, RoundsListed, SameBatches
  <2>2. CASE ~ SameBatches(s, r)
    BY <1>1, <2>2, NewBatchRounds DEF Sound
  <2> QED
    BY <2>1, <2>2
<1>8. \A b \in s.retransInBatchEvents : b.ids \cap ids = {}
  <2> SUFFICES ASSUME NEW b \in s.retransInBatchEvents, NEW i \in b.ids, i \in ids
               PROVE  FALSE
    OBVIOUS
  <2>1. i <= s.lastDataId \/ i \in Skipped(s)
    BY DEF Sound, Booked
  <2> QED
    BY <1>2, <1>3, <2>1
<1>9. Booked(r)
  <2>1. CASE SameBatches(s, r)
    <3>1. /\ ReportsShrink(s, r)
          /\ r.retransInBatchEvents = s.retransInBatchEvents
      BY <1>1, <2>1, ReportsSame DEF SameBatches
    <3> QED
      BY <1>1, <1>2, <1>4, <3>1, ShrinkBooked DEF Sound
  <2>2. CASE ~ SameBatches(s, r)
    <3>1. r.retransInBatchEvents = s.retransInBatchEvents \cup {new}
      BY <1>1, <2>2
    <3>2. r.WaitForRetransInBatchEvents = s.WaitForRetransInBatchEvents
      BY <1>1 DEF SameReports
    <3>3. \A w \in r.WaitForRetransInBatchEvents : w.ids \cap new.ids \subseteq s.transmittedDataIds
      <4>1. \A w \in s.WaitForRetransInBatchEvents : w.ids \subseteq Skipped(s)
        BY DEF Sound, Booked
      <4> QED
        BY <1>3, <1>5, <3>2, <4>1
    <3>4. \A i \in new.ids : i <= r.lastDataId \/ i \in Skipped(s)
      BY <1>2, <1>3, <1>5
    <3> HIDE DEF new
    <3> QED
      BY <1>1, <1>2, <1>5, <1>8, <3>1, <3>2, <3>3, <3>4, NewBatchBooked DEF Sound
  <2> QED
    BY <2>1, <2>2
<1>10. Exclusive(r)
  <2> SUFFICES ASSUME ReportUIDs = {} PROVE Exclusive(r)
    BY DEF Exclusive
  <2>1. r.WaitForRetransInBatchEvents = {} /\ r.lostDataIdsFromPrevRouters = {}
    BY <1>1 DEF Sound, Exclusive, SameReports
  <2>2. ASSUME NEW b \in r.retransInBatchEvents, NEW i \in b.ids
        PROVE  /\ i \in 1..r.lastDataId
               /\ i \notin r.waitTimers
               /\ \A t \in r.singleTimers : t.id # i
    <3>1. CASE b \in s.retransInBatchEvents
      <4>1. /\ i \in 1..s.lastDataId
            /\ i \notin s.waitTimers
            /\ \A t \in s.singleTimers : t.id # i
        BY <2>2, <3>1 DEF Sound, Exclusive
      <4> QED
        BY <1>1, <1>2, <4>1 DEF SameWaits, SameChains
    <3>2. CASE b \notin s.retransInBatchEvents
      <4>1. i \in ids
        BY <1>1, <1>5, <2>2, <3>2 DEF SameBatches
      <4>2. i \in 1..r.lastDataId
        BY <1>2, <1>3, <4>1
      <4>3. i \notin s.waitForNextDataEvents
        BY <1>3, <4>1
      <4>4. i \notin s.waitTimers /\ \A t \in s.singleTimers : t.id # i
        BY <4>3 DEF Sound, ChainsListed
      <4> QED
        BY <1>1, <4>2, <4>4 DEF SameWaits, SameChains
    <3> QED
      BY <3>1, <3>2
  <2> QED
    BY <2>1, <2>2 DEF Exclusive
<1>11. NoGap(s, r)
  <2> SUFFICES ASSUME NEW i \in Unaccounted(r) PROVE i \in Unaccounted(s)
    BY DEF NoGap
  <2>1. /\ i \in 1..r.lastDataId
        /\ i \notin Skipped(s)
        /\ i \notin s.waitForNextDataEvents
        /\ \A b \in r.retransInBatchEvents : i \notin b.ids
    BY <1>1, <1>4 DEF Unaccounted, Accounted, Skipped, SameWaits
  <2>2. \A b \in s.retransInBatchEvents : b \in r.retransInBatchEvents
    BY <1>1 DEF SameBatches
  <2>3. i \notin ids
    <3>1. CASE ids = {}
      BY <3>1
    <3>2. CASE ids # {}
      BY <1>1, <1>5, <2>1, <3>2
    <3> QED
      BY <3>1, <3>2
  <2>4. i # d
    BY <2>1 DEF Skipped
  <2>5. i \in 1..s.lastDataId
    BY <1>1, <1>2, <1>3, <2>1, <2>3, <2>4
  <2> QED
    BY <2>1, <2>2, <2>5 DEF Unaccounted, Accounted, Skipped
<1> QED
  BY <1>6, <1>7, <1>9, <1>10, <1>11 DEF Sound, r

\* A round of a batch ends: the next one starts, or the batch is left or dropped.
LEMMA BatchTimeoutSound ==
  ASSUME RetransControlAssumption,
         NEW s \in CapsuleForwardingStates, NEW t \in s.batchTimers, Sound(s)
  PROVE  /\ Sound(RetransBatchTimeout(s, t))
         /\ NoGap(s, RetransBatchTimeout(s, t))
         /\ SameIds(s, RetransBatchTimeout(s, t)) /\ SameWaits(s, RetransBatchTimeout(s, t))
<1> DEFINE f == [s EXCEPT !.batchTimers = @ \ {t}]
           r == RequestMRound(f, t.rbi, t.rest)
<1>1. t.rbi \in Nat /\ t.rest \in 0..NumRetransRequests
  BY DEF CapsuleForwardingStates, BatchEvents
<1>2. f \in CapsuleForwardingStates
  BY DEF CapsuleForwardingStates
<1>3. /\ SameIds(s, f) /\ SameWaits(s, f) /\ SameChains(s, f) /\ SameReports(s, f)
      /\ f.curRetransInBatchID = s.curRetransInBatchID
      /\ f.retransInBatchEvents = s.retransInBatchEvents
      /\ f.batchTimers = s.batchTimers \ {t}
  BY DEF SameIds, SameWaits, SameChains, SameReports, CapsuleForwardingStates
<1>4. r = RetransBatchTimeout(s, t)
  BY DEF RetransBatchTimeout
<1> HIDE DEF f
<1>5. r \in CapsuleForwardingStates
  BY <1>1, <1>2, RequestMRoundSilent DEF Silent
<1>6. /\ SameIds(f, r) /\ SameWaits(f, r) /\ SameChains(f, r) /\ SameReports(f, r)
      /\ r.curRetransInBatchID = f.curRetransInBatchID
      /\ \/ SameBatches(f, r)
         \/ /\ IdsOf(f, t.rbi) = {}
            /\ r.retransInBatchEvents = {b \in f.retransInBatchEvents : b.rbi # t.rbi}
            /\ r.batchTimers = f.batchTimers
         \/ /\ r.retransInBatchEvents = f.retransInBatchEvents
            /\ r.batchTimers = f.batchTimers \cup {[rbi |-> t.rbi, rest |-> t.rest - 1]}
  BY <1>2, RequestMRoundEffect
<1> HIDE DEF r
<1>7. /\ SameIds(s, r) /\ SameWaits(s, r) /\ SameChains(s, r) /\ SameReports(s, r)
      /\ r.curRetransInBatchID = s.curRetransInBatchID
  BY <1>3, <1>6 DEF SameIds, SameWaits, SameChains, SameReports
<1>8. r.retransInBatchEvents \subseteq s.retransInBatchEvents
  BY <1>3, <1>6 DEF SameBatches
<1>9. ChainsListed(r)
  BY <1>7 DEF Sound, ChainsListed, SameWaits, SameChains
<1>10. \A u \in s.batchTimers \ {t} : u.rbi # t.rbi
  BY DEF Sound, RoundsListed
<1>11. RoundsListed(r)
  <2>1. \A b \in r.retransInBatchEvents : b.rbi < r.curRetransInBatchID
    BY <1>7, <1>8 DEF Sound, RoundsListed
  <2>2. \A u \in s.batchTimers \ {t} : \E b \in r.retransInBatchEvents : b.rbi = u.rbi
    BY <1>3, <1>6, <1>10 DEF Sound, RoundsListed, SameBatches
  <2>3. CASE r.batchTimers = s.batchTimers \ {t}
    BY <2>1, <2>2, <2>3 DEF Sound, RoundsListed
  <2>4. CASE r.batchTimers # s.batchTimers \ {t}
    <3> DEFINE n == [rbi |-> t.rbi, rest |-> t.rest - 1]
    <3>1. /\ r.retransInBatchEvents = s.retransInBatchEvents
          /\ r.batchTimers = (s.batchTimers \ {t}) \cup {n}
      BY <1>3, <1>6, <2>4 DEF SameBatches
    <3>2. n.rbi = t.rbi
      OBVIOUS
    <3> HIDE DEF n
    <3>3. \E b \in r.retransInBatchEvents : b.rbi = n.rbi
      BY <3>1, <3>2 DEF Sound, RoundsListed
    <3>4. \A u, v \in s.batchTimers \ {t} : u.rbi = v.rbi => u = v
      BY DEF Sound, RoundsListed
    <3> QED
      BY <1>10, <2>1, <2>2, <3>1, <3>2, <3>3, <3>4 DEF RoundsListed
  <2> QED
    BY <2>3, <2>4
<1>12. Booked(r)
  <2>1. Skipped(s) = Skipped(r)
    BY <1>7 DEF Skipped, SameIds
  <2>2. s.lastDataId <= r.lastDataId /\ s.transmittedDataIds \subseteq r.transmittedDataIds
    BY <1>7 DEF SameIds, CapsuleForwardingStates, DataIds
  <2>3. ReportsShrink(s, r)
    BY <1>7, ReportsSame
  <2> QED
    BY <1>5, <1>8, <2>1, <2>2, <2>3, ShrinkBooked DEF Sound
<1>13. Exclusive(r)
  BY <1>7, <1>8 DEF Sound, Exclusive, SameIds, SameWaits, SameChains, SameReports
<1>14. NoGap(s, r)
  <2> SUFFICES ASSUME NEW i \in Unaccounted(r) PROVE i \in Unaccounted(s)
    BY DEF NoGap
  <2>1. \A b \in r.retransInBatchEvents : i \notin b.ids
    BY DEF Unaccounted, Accounted
  <2>2. \A b \in s.retransInBatchEvents : i \notin b.ids
    <3> SUFFICES ASSUME NEW b \in s.retransInBatchEvents PROVE i \notin b.ids
      OBVIOUS
    <3>1. CASE b \in r.retransInBatchEvents
      BY <2>1, <3>1
    <3>2. CASE b \notin r.retransInBatchEvents
      <4>1. IdsOf(f, t.rbi) = {} /\ b \in f.retransInBatchEvents /\ b.rbi = t.rbi
        BY <1>3, <1>6, <3>2 DEF SameBatches
      <4> QED
        BY <4>1 DEF IdsOf
    <3> QED
      BY <3>1, <3>2
  <2> QED
    BY <1>7, <2>2 DEF Unaccounted, Accounted, SameIds, SameWaits
<1> QED
  BY <1>4, <1>7, <1>9, <1>11, <1>12, <1>13, <1>14 DEF Sound

\* A pending report's time is over: a batch is opened for what is still missing of it.
LEMMA ReportTimeoutSound ==
  ASSUME RetransControlAssumption,
         NEW s \in CapsuleForwardingStates, NEW w \in s.WaitForRetransInBatchEvents, Sound(s)
  PROVE  /\ Sound(WaitToRequestM(s, w))
         /\ NoGap(s, WaitToRequestM(s, w))
         /\ SameIds(s, WaitToRequestM(s, w)) /\ SameWaits(s, WaitToRequestM(s, w))
<1> DEFINE f   == [s EXCEPT !.WaitForRetransInBatchEvents = @ \ {w}]
           ids == w.ids \ s.transmittedDataIds
           b   == BroadcastRequestM(f, ids)
           r   == WaitToRequestM(s, w)
           new == [rbi |-> s.curRetransInBatchID, ids |-> ids]
<1>1. ids \in SUBSET DataIds
  BY DEF CapsuleForwardingStates, ReportWaits
<1>2. f \in CapsuleForwardingStates
  BY DEF CapsuleForwardingStates
<1>3. /\ SameIds(s, f) /\ SameWaits(s, f) /\ SameChains(s, f) /\ SameBatches(s, f)
      /\ f.WaitForRetransInBatchEvents = s.WaitForRetransInBatchEvents \ {w}
  BY DEF SameIds, SameWaits, SameChains, SameBatches, CapsuleForwardingStates
<1>4. r = IF ids = {} THEN f ELSE b
  BY DEF WaitToRequestM
<1>5. r = WaitToRequestM(s, w) /\ new.ids = ids
  OBVIOUS
<1>6. ids \subseteq w.ids /\ ids \cap s.transmittedDataIds = {}
  OBVIOUS
<1> HIDE DEF f, ids
<1>7. b \in CapsuleForwardingStates
  BY <1>1, <1>2, BroadcastRequestMSilent DEF Silent
<1>8. ids # {} =>
        /\ SameIds(f, b) /\ SameWaits(f, b) /\ SameChains(f, b) /\ SameReports(f, b)
        /\ b.curRetransInBatchID = f.curRetransInBatchID + 1
        /\ b.retransInBatchEvents =
             f.retransInBatchEvents \cup {[rbi |-> f.curRetransInBatchID, ids |-> ids]}
        /\ \/ b.batchTimers = f.batchTimers
           \/ \E rest : b.batchTimers =
                          f.batchTimers \cup {[rbi |-> f.curRetransInBatchID, rest |-> rest]}
  BY <1>1, <1>2, BroadcastRequestMEffect
<1> HIDE DEF b, r
<1>9. r \in CapsuleForwardingStates
  BY <1>2, <1>4, <1>7
<1>10. /\ SameIds(s, r) /\ SameWaits(s, r) /\ SameChains(s, r)
       /\ r.WaitForRetransInBatchEvents = s.WaitForRetransInBatchEvents \ {w}
  BY <1>3, <1>4, <1>8 DEF SameIds, SameWaits, SameChains, SameReports
<1>11. CASE ids = {}
  <2>1. SameBatches(s, r)
    BY <1>3, <1>4, <1>11
  <2>2. ChainsListed(r) /\ RoundsListed(r)
    BY <1>10, <2>1 DEF Sound, ChainsListed, RoundsListed, SameWaits, SameChains, SameBatches
  <2>3. Booked(r)
    <3>1. Skipped(s) = Skipped(r)
      BY <1>10 DEF Skipped, SameIds
    <3> QED
      BY <1>10, <2>1, <3>1 DEF Sound, Booked, SameIds, SameBatches
  <2>4. Exclusive(r)
    BY <1>10, <2>1 DEF Sound, Exclusive, SameIds, SameWaits, SameChains, SameBatches
  <2>5. NoGap(s, r)
    BY <1>10, <2>1 DEF NoGap, Unaccounted, Accounted, SameIds, SameWaits, SameBatches
  <2> QED
    BY <1>5, <1>10, <2>2, <2>3, <2>4, <2>5 DEF Sound
<1>12. CASE ids # {}
  <2>1. /\ r.curRetransInBatchID = s.curRetransInBatchID + 1
        /\ r.retransInBatchEvents = s.retransInBatchEvents \cup {new}
        /\ \/ r.batchTimers = s.batchTimers
           \/ \E rest : r.batchTimers =
                          s.batchTimers \cup {[rbi |-> s.curRetransInBatchID, rest |-> rest]}
    BY <1>3, <1>4, <1>8, <1>12 DEF SameBatches
  <2>2. ChainsListed(r)
    BY <1>10 DEF Sound, ChainsListed, SameWaits, SameChains
  <2>3. RoundsListed(r)
    BY <2>1, NewBatchRounds DEF Sound
  <2> HIDE DEF new
  <2>4. Booked(r)
    <3>1. s.lastDataId <= r.lastDataId
      BY <1>10 DEF SameIds, CapsuleForwardingStates, DataIds
    <3>2. \A v \in r.WaitForRetransInBatchEvents : v.ids \cap new.ids \subseteq s.transmittedDataIds
      <4> SUFFICES ASSUME NEW v \in s.WaitForRetransInBatchEvents, v # w
                   PROVE  v.ids \cap new.ids \subseteq s.transmittedDataIds
        BY <1>10
      <4>1. v.ids \cap w.ids \subseteq s.transmittedDataIds
        BY DEF Sound, Booked
      <4> QED
        BY <1>5, <1>6, <4>1
    <3>3. \A c \in s.retransInBatchEvents : c.ids \cap new.ids = {}
      <4> SUFFICES ASSUME NEW c \in s.retransInBatchEvents
                   PROVE  c.ids \cap new.ids = {}
        OBVIOUS
      <4>1. w.ids \cap c.ids \subseteq s.transmittedDataIds
        BY DEF Sound, Booked
      <4> QED
        BY <1>5, <1>6, <4>1
    <3>4. \A i \in new.ids : i \in Skipped(s)
      BY <1>5, <1>6 DEF Sound, Booked
    <3>5. /\ r.transmittedDataIds = s.transmittedDataIds
          /\ r.lostDataIdsFromPrevRouters = s.lostDataIdsFromPrevRouters
          /\ r.WaitForRetransInBatchEvents \subseteq s.WaitForRetransInBatchEvents
      BY <1>10 DEF SameIds
    <3> QED
      BY <1>9, <2>1, <3>1, <3>2, <3>3, <3>4, <3>5, NewBatchBooked DEF Sound
  <2>5. Exclusive(r)
    BY DEF Sound, Exclusive
  <2>6. NoGap(s, r)
    <3>1. s.retransInBatchEvents \subseteq r.retransInBatchEvents
      BY <2>1
    <3> QED
      BY <1>10, <3>1 DEF NoGap, Unaccounted, Accounted, SameIds, SameWaits
  <2> QED
    BY <1>5, <1>10, <2>2, <2>3, <2>4, <2>5, <2>6 DEF Sound
<1> QED
  BY <1>11, <1>12

\* A capsule leaves the batch it was asked for with.
LEMMA CleanRetranMEventsOfBatchSound ==
  ASSUME RetransControlAssumption,
         NEW s \in CapsuleForwardingStates, NEW rbi \in Nat, NEW d \in DataIds, Sound(s)
  PROVE  Sound(CleanRetranMEventsOfBatch(s, rbi, d))
<1> DEFINE r == CleanRetranMEventsOfBatch(s, rbi, d)
<1>1. r \in CapsuleForwardingStates
  BY CleanRetranMEventsOfBatchSilent DEF Silent
<1>2. /\ SameIds(s, r) /\ SameWaits(s, r) /\ SameChains(s, r) /\ SameReports(s, r)
      /\ r.curRetransInBatchID = s.curRetransInBatchID
      /\ \/ /\ r.retransInBatchEvents = {b \in s.retransInBatchEvents : b.rbi # rbi \/ b.ids # {}}
            /\ r.batchTimers = {t \in s.batchTimers : t.rbi # rbi}
         \/ /\ r.retransInBatchEvents = {LeftBy(b, rbi, d) : b \in s.retransInBatchEvents}
            /\ r.batchTimers = s.batchTimers
  BY CleanRetranMEventsOfBatchEffect
<1>3. \A b : LeftBy(b, rbi, d).rbi = b.rbi /\ LeftBy(b, rbi, d).ids \subseteq b.ids
  BY DEF LeftBy, Without
<1>4. ChainsListed(r)
  BY <1>2 DEF Sound, ChainsListed, SameWaits, SameChains
<1> HIDE DEF r
<1>5. \/ /\ r.retransInBatchEvents \subseteq s.retransInBatchEvents
         /\ r.batchTimers = {t \in s.batchTimers : t.rbi # rbi}
         /\ \A b \in s.retransInBatchEvents : b.rbi # rbi => b \in r.retransInBatchEvents
      \/ /\ r.retransInBatchEvents = {LeftBy(b, rbi, d) : b \in s.retransInBatchEvents}
         /\ r.batchTimers = s.batchTimers
  BY <1>2
<1>6. RoundsListed(r)
  <2>1. \A b \in r.retransInBatchEvents : b.rbi < r.curRetransInBatchID
    BY <1>2, <1>3, <1>5 DEF Sound, RoundsListed
  <2>2. r.batchTimers \subseteq s.batchTimers
    BY <1>5
  <2>3. \A t \in r.batchTimers : \E b \in r.retransInBatchEvents : b.rbi = t.rbi
    BY <1>3, <1>5 DEF Sound, RoundsListed
  <2> QED
    BY <2>1, <2>2, <2>3 DEF Sound, RoundsListed
<1>7. \A b \in r.retransInBatchEvents : \E c \in s.retransInBatchEvents : b.ids \subseteq c.ids
  BY <1>3, <1>5
<1>8. \A a, b \in r.retransInBatchEvents : a # b =>
         \E c, e \in s.retransInBatchEvents : c # e /\ a.ids \subseteq c.ids /\ b.ids \subseteq e.ids
  <2> SUFFICES ASSUME NEW a \in r.retransInBatchEvents, NEW b \in r.retransInBatchEvents, a # b
               PROVE  \E c, e \in s.retransInBatchEvents :
                         c # e /\ a.ids \subseteq c.ids /\ b.ids \subseteq e.ids
    OBVIOUS
  <2>1. CASE r.retransInBatchEvents \subseteq s.retransInBatchEvents
    BY <2>1
  <2>2. CASE r.retransInBatchEvents = {LeftBy(c, rbi, d) : c \in s.retransInBatchEvents}
    <3>1. PICK c \in s.retransInBatchEvents : a = LeftBy(c, rbi, d)
      BY <2>2
    <3>2. PICK e \in s.retransInBatchEvents : b = LeftBy(e, rbi, d)
      BY <2>2
    <3> QED
      BY <1>3, <3>1, <3>2
  <2> QED
    BY <1>5, <2>1, <2>2
<1>9. Booked(r)
  <2>1. Skipped(s) = Skipped(r)
    BY <1>2 DEF Skipped, SameIds
  <2>2. s.lastDataId <= r.lastDataId /\ s.transmittedDataIds \subseteq r.transmittedDataIds
    BY <1>2 DEF SameIds, CapsuleForwardingStates, DataIds
  <2>3. ReportsShrink(s, r)
    BY <1>2, ReportsSame
  <2> QED
    BY <1>1, <1>7, <1>8, <2>1, <2>2, <2>3, ShrinkBooked DEF Sound
<1>10. Exclusive(r)
  <2> SUFFICES ASSUME ReportUIDs = {} PROVE Exclusive(r)
    BY DEF Exclusive
  <2>1. \A b \in r.retransInBatchEvents : \A i \in b.ids :
          /\ i \in 1..s.lastDataId
          /\ i \notin s.waitTimers
          /\ \A t \in s.singleTimers : t.id # i
    BY <1>7 DEF Sound, Exclusive
  <2> QED
    BY <1>2, <2>1 DEF Sound, Exclusive, SameIds, SameWaits, SameChains, SameReports
<1> QED
  BY <1>4, <1>6, <1>9, <1>10 DEF Sound, r

-------------------------------------------------------------------------------
(***************************************************************************)
(* Detection goes on: the handler either leaves lastDataId where it is and *)
(* the next awaited id awaited, or moves it and awaits the next one.       *)
(***************************************************************************)
LEMMA AheadStays ==
  ASSUME RetransControlAssumption,
         NEW s \in CapsuleForwardingStates, NEW r \in CapsuleForwardingStates, Ahead(s),
         r.lastDataId = s.lastDataId, Skipped(s) \subseteq Skipped(r),
         \A w \in r.waitForNextDataEvents : w > s.lastDataId =>
            w \in s.waitForNextDataEvents \/ IsNext(r, s.lastDataId, w),
         \A w \in s.waitForNextDataEvents : w > s.lastDataId /\ w \notin Skipped(s) =>
            w \in r.waitForNextDataEvents /\ w \notin Skipped(r)
  PROVE  Ahead(r)
<1> DEFINE last == s.lastDataId
<1>1. last \in DataIds /\ last \in Nat /\ MaxDataId \in Nat
  BY DEF CapsuleForwardingStates, DataIds, RetransControlAssumption
<1>2. \A w \in s.waitForNextDataEvents : IsNext(s, last, w) => IsNext(r, last, w)
  BY <1>1 DEF IsNext
<1>3. \A w \in s.waitForNextDataEvents : w > last => IsNext(s, last, w)
  BY DEF Ahead
<1>4. \A w \in r.waitForNextDataEvents : w > last => IsNext(r, last, w)
  BY <1>2, <1>3
<1>5. ASSUME last > 0 PROVE ComputeNextDataId(r, last) \in r.waitForNextDataEvents
  <2> DEFINE k == ComputeNextDataId(s, last)
  <2>1. k \in s.waitForNextDataEvents
    BY <1>5 DEF Ahead
  <2>2. IsNext(s, last, k)
    BY <1>1, NextFound
  <2> HIDE DEF k
  <2>3. k > last /\ k \notin Skipped(s)
    BY <1>1, <2>2 DEF IsNext
  <2>4. k \in r.waitForNextDataEvents
    BY <2>1, <2>3
  <2>5. IsNext(r, last, k)
    BY <1>2, <2>1, <2>2
  <2>6. ComputeNextDataId(r, last) = k
    BY <1>1, <2>5, NextIs
  <2> QED
    BY <2>4, <2>6
<1> QED
  BY <1>4, <1>5 DEF Ahead

LEMMA AheadMoves ==
  ASSUME RetransControlAssumption,
         NEW s \in CapsuleForwardingStates, NEW r \in CapsuleForwardingStates, Ahead(s),
         NEW d \in DataIds, r.lastDataId = d, s.lastDataId <= d,
         Skipped(s) \subseteq Skipped(r), Skipped(r) \subseteq Skipped(s) \cup {d},
         ComputeNextDataId(r, d) \in r.waitForNextDataEvents,
         \A w \in r.waitForNextDataEvents : w > d =>
            w \in s.waitForNextDataEvents \/ w = ComputeNextDataId(r, d)
  PROVE  Ahead(r)
<1>1. s.lastDataId \in Nat /\ d \in Nat /\ MaxDataId \in Nat
  BY DEF CapsuleForwardingStates, DataIds, RetransControlAssumption
<1>2. IsNext(r, d, ComputeNextDataId(r, d))
  BY NextFound
<1>3. ASSUME NEW w \in s.waitForNextDataEvents, w > d PROVE IsNext(r, d, w)
  <2>1. w \in Int
    BY DEF CapsuleForwardingStates, WaitIds
  <2>2. IsNext(s, s.lastDataId, w)
    BY <1>1, <1>3, <2>1 DEF Ahead
  <2> QED
    BY <1>1, <1>3, <2>1, <2>2 DEF IsNext
<1> QED
  BY <1>2, <1>3 DEF Ahead

\* What only touches other tables.
LEMMA AheadSame ==
  ASSUME RetransControlAssumption,
         NEW s \in CapsuleForwardingStates, NEW r \in CapsuleForwardingStates, Ahead(s),
         SameIds(s, r), r.waitForNextDataEvents = s.waitForNextDataEvents
  PROVE  Ahead(r)
<1>1. Skipped(r) = Skipped(s) /\ r.lastDataId = s.lastDataId
  BY DEF SameIds, Skipped
<1> QED
  BY <1>1, AheadStays

-------------------------------------------------------------------------------
(***************************************************************************)
(* The handlers and the timers.                                            *)
(***************************************************************************)
LEMMA OnRetranSMissSound ==
  ASSUME RetransControlAssumption,
         NEW s \in CapsuleForwardingStates, Sound(s), Ahead(s)
  PROVE  Sound(OnRetranSMiss(s)) /\ Ahead(OnRetranSMiss(s)) /\ NoGap(s, OnRetranSMiss(s))
<1> DEFINE r == CleanRetranInSingleEvents(s, {0})
           t == WaitForNextCapsule(r, 0)
           q == OnRetranSMiss(s)
<1>1. r \in CapsuleForwardingStates
  BY CleanRetranInSingleEventsSilent DEF Silent
<1>2. Sound(r) /\ NoGap(s, r)
  BY CleanRetranInSingleEventsSound
<1>3. SameIds(s, r) /\ SameWaits(s, r)
  BY CleanRetranInSingleEventsEffect
<1>4. q = r \/ q = t
  BY DEF OnRetranSMiss
<1>5. q = OnRetranSMiss(s)
  OBVIOUS
<1> HIDE DEF r, q
<1>6. 0 \in WaitIds
  BY DEF WaitIds, RetransControlAssumption
<1>7. t \in CapsuleForwardingStates
  BY <1>1, <1>6, WaitForNextCapsuleSilent DEF Silent
<1>8. ReportUIDs = {} => \A b \in r.retransInBatchEvents : 0 \notin b.ids
  BY <1>2 DEF Sound, Exclusive
<1>9. Sound(t) /\ NoGap(r, t)
  BY <1>1, <1>2, <1>8, WaitForNextCapsuleSound
<1>10. SameIds(r, t) /\ t.waitForNextDataEvents = r.waitForNextDataEvents \cup {0}
  BY <1>1, WaitForNextCapsuleEffect
<1> HIDE DEF t
<1>11. Ahead(r)
  BY <1>1, <1>3, AheadSame DEF SameWaits
<1>12. Ahead(t)
  <2>1. Skipped(t) = Skipped(r) /\ t.lastDataId = r.lastDataId
    BY <1>10 DEF SameIds, Skipped
  <2>2. ~ 0 > r.lastDataId
    BY <1>1 DEF CapsuleForwardingStates, DataIds
  <2>3. \A w \in t.waitForNextDataEvents : w > r.lastDataId => w \in r.waitForNextDataEvents
    BY <1>10, <2>2
  <2>4. r.waitForNextDataEvents \subseteq t.waitForNextDataEvents
    BY <1>10
  <2> QED
    BY <1>1, <1>7, <1>11, <2>1, <2>3, <2>4, AheadStays
<1> QED
  BY <1>2, <1>4, <1>5, <1>9, <1>11, <1>12, NoGapTransitive

\* The wait of an id expires: reported, asked for, still awaited.
LEMMA WaitTimeoutSound ==
  ASSUME RetransControlAssumption,
         NEW s \in CapsuleForwardingStates, NEW d \in DataIds, d \in s.waitTimers,
         Sound(s), Ahead(s)
  PROVE  /\ Sound(WaitForNextCapsuleDelayedTask(s, d))
         /\ Ahead(WaitForNextCapsuleDelayedTask(s, d))
         /\ NoGap(s, WaitForNextCapsuleDelayedTask(s, d))
<1> DEFINE f == [s EXCEPT !.waitTimers = @ \ {d},
                          !.waitForNextDataEvents = @ \cup {d}]
           r == SendReport(f, {d}, s.preferredDownPathId, RsgId)
           t == RequestSRound(r, d, UpPaths, NumRetransRequests)
<1>1. d \in s.waitForNextDataEvents /\ d \in WaitIds
  BY DEF Sound, ChainsListed, DataIds, WaitIds, RetransControlAssumption
<1>2. f \in CapsuleForwardingStates
  <2>1. s.waitForNextDataEvents \cup {d} \in SUBSET WaitIds
    BY <1>1 DEF CapsuleForwardingStates
  <2> QED BY <2>1 DEF CapsuleForwardingStates
<1>3. /\ SameIds(s, f) /\ SameChains(s, f) /\ SameBatches(s, f) /\ SameReports(s, f)
      /\ f.waitForNextDataEvents = s.waitForNextDataEvents \cup {d}
      /\ f.waitTimers = s.waitTimers \ {d}
  BY DEF SameIds, SameChains, SameBatches, SameReports, CapsuleForwardingStates
<1>4. t = WaitForNextCapsuleDelayedTask(s, d)
  BY DEF WaitForNextCapsuleDelayedTask
<1> HIDE DEF f
<1>5. r \in CapsuleForwardingStates
  BY <1>1, <1>2, SendReportSilent DEF Silent
<1>6. SameTables(f, r)
  BY <1>2, SendReportEffect
<1> HIDE DEF r
<1>7. t \in CapsuleForwardingStates
  <2>1. NumRetransRequests \in 0..NumRetransRequests /\ UpPaths \in SUBSET UpPaths
    BY DEF RetransControlAssumption
  <2> QED
    BY <1>1, <1>5, <2>1, RequestSRoundSilent DEF Silent
<1>8. Sound(f)
  <2>1. ChainsListed(f)
    BY <1>1, <1>3 DEF Sound, ChainsListed, SameChains
  <2>2. RoundsListed(f) /\ Booked(f)
    BY <1>3, SameBooks DEF Sound
  <2>3. Exclusive(f)
    BY <1>3 DEF Sound, Exclusive, SameIds, SameChains, SameBatches, SameReports
  <2> QED
    BY <2>1, <2>2, <2>3 DEF Sound
<1>9. NoGap(s, f)
  BY <1>3 DEF NoGap, Unaccounted, Accounted, SameIds, SameBatches
<1>10. Sound(r) /\ NoGap(f, r)
  BY <1>6, <1>8, SameTablesSound
<1>11. /\ d \in r.waitForNextDataEvents \ r.waitTimers
       /\ \A u \in r.singleTimers : u.id # d
       /\ ReportUIDs = {} => \A b \in r.retransInBatchEvents : d \notin b.ids
  <2>1. /\ r.waitForNextDataEvents = f.waitForNextDataEvents /\ r.waitTimers = f.waitTimers
        /\ r.singleTimers = s.singleTimers
        /\ r.retransInBatchEvents = s.retransInBatchEvents
    BY <1>3, <1>6 DEF SameTables, SameWaits, SameChains, SameBatches
  <2>2. d \in r.waitForNextDataEvents \ r.waitTimers
    BY <1>3, <2>1
  <2>3. \A u \in s.singleTimers : u.id # d
    BY DEF Sound, ChainsListed
  <2>4. ReportUIDs = {} => \A b \in s.retransInBatchEvents : d \notin b.ids
    BY DEF Sound, Exclusive
  <2> QED
    BY <2>1, <2>2, <2>3, <2>4
<1>12. Sound(t) /\ NoGap(r, t)
  BY <1>5, <1>10, <1>11, RequestSRoundSound
<1>13. SameIds(r, t) /\ SameWaits(r, t)
  BY <1>5, RequestSRoundEffect
<1> HIDE DEF t
<1>14. SameIds(s, t) /\ t.waitForNextDataEvents = s.waitForNextDataEvents
  BY <1>1, <1>3, <1>6, <1>13 DEF SameTables, SameIds, SameWaits
<1>15. Ahead(t)
  BY <1>7, <1>14, AheadSame
<1> QED
  BY <1>4, <1>9, <1>10, <1>12, <1>15, NoGapTransitive

\* A chain's request expires: it goes on, alone on its path, or ends.
LEMMA SingleTimeoutSound ==
  ASSUME RetransControlAssumption,
         NEW s \in CapsuleForwardingStates, NEW e \in s.singleTimers, Sound(s), Ahead(s)
  PROVE  /\ Sound(RetransSingleTimeout(s, e))
         /\ Ahead(RetransSingleTimeout(s, e))
         /\ NoGap(s, RetransSingleTimeout(s, e))
<1> DEFINE f == [s EXCEPT !.singleTimers = @ \ {e}]
           t == RequestSRound(f, e.id, {e.path}, e.rest)
<1>1. e.id \in WaitIds /\ {e.path} \in SUBSET UpPaths /\ e.rest \in 0..NumRetransRequests
  BY DEF CapsuleForwardingStates, SingleEvents
<1>2. f \in CapsuleForwardingStates
  BY DEF CapsuleForwardingStates
<1>3. /\ SameIds(s, f) /\ SameWaits(s, f) /\ SameBatches(s, f) /\ SameReports(s, f)
      /\ f.retransInSingleEvents = s.retransInSingleEvents
      /\ f.singleTimers = s.singleTimers \ {e}
  BY DEF SameIds, SameWaits, SameBatches, SameReports, CapsuleForwardingStates
<1>4. t = RetransSingleTimeout(s, e)
  BY DEF RetransSingleTimeout
<1> HIDE DEF f
<1>5. t \in CapsuleForwardingStates
  BY <1>1, <1>2, RequestSRoundSilent DEF Silent
<1>6. Sound(f)
  <2>1. ChainsListed(f)
    BY <1>3 DEF Sound, ChainsListed, SameWaits
  <2>2. RoundsListed(f) /\ Booked(f)
    BY <1>3, SameBooks DEF Sound
  <2>3. Exclusive(f)
    BY <1>3 DEF Sound, Exclusive, SameIds, SameWaits, SameBatches, SameReports
  <2> QED
    BY <2>1, <2>2, <2>3 DEF Sound
<1>7. NoGap(s, f)
  BY <1>3 DEF NoGap, Unaccounted, Accounted, SameIds, SameWaits, SameBatches
<1>8. /\ e.id \in f.waitForNextDataEvents \ f.waitTimers
      /\ \A u \in f.singleTimers : u.id = e.id => u.path \notin {e.path}
      /\ ReportUIDs = {} => \A b \in f.retransInBatchEvents : e.id \notin b.ids
  <2>1. e.id \in f.waitForNextDataEvents \ f.waitTimers
    BY <1>3 DEF Sound, ChainsListed, SameWaits
  <2>2. \A u \in f.singleTimers : u.id = e.id => u.path \notin {e.path}
    BY <1>3 DEF Sound, ChainsListed
  <2>3. ReportUIDs = {} => \A b \in f.retransInBatchEvents : e.id \notin b.ids
    BY <1>3 DEF Sound, Exclusive, SameBatches
  <2> QED
    BY <2>1, <2>2, <2>3
<1>9. Sound(t) /\ NoGap(f, t)
  BY <1>2, <1>6, <1>8, RequestSRoundSound
<1>10. SameIds(f, t) /\ SameWaits(f, t)
  BY <1>2, RequestSRoundEffect
<1> HIDE DEF t
<1>11. Ahead(t)
  <2>1. SameIds(s, t) /\ t.waitForNextDataEvents = s.waitForNextDataEvents
    BY <1>3, <1>10 DEF SameIds, SameWaits
  <2> QED
    BY <1>5, <2>1, AheadSame
<1> QED
  BY <1>4, <1>7, <1>9, <1>11, NoGapTransitive

\* The answer's id is behind lastDataId, or lastDataId moves to it.
LEMMA AdvanceSound ==
  ASSUME RetransControlAssumption,
         NEW s \in CapsuleForwardingStates, NEW d \in DataIds, Sound(s)
  PROVE  LET r == AdvanceToRetransmitted(s, d)
         IN  /\ Sound(r)
             /\ r.transmittedDataIds = s.transmittedDataIds
             /\ r.lostDataIdsFromPrevRouters = s.lostDataIdsFromPrevRouters
             /\ d <= s.lastDataId =>
                  /\ r.lastDataId = s.lastDataId
                  /\ r.waitForNextDataEvents = s.waitForNextDataEvents
             /\ ~ d <= s.lastDataId =>
                  /\ r.lastDataId = d
                  /\ r.waitForNextDataEvents =
                       s.waitForNextDataEvents \cup {ComputeNextDataId(r, d)}
<1> DEFINE t == [s EXCEPT !.lastDataId = d]
           n == ComputeNextDataId(t, d)
           u == WaitForNextCapsule(t, n)
           r == AdvanceToRetransmitted(s, d)
<1>1. s.lastDataId \in Nat /\ d \in Nat
  BY DEF CapsuleForwardingStates, DataIds
<1>2. r = IF d <= s.lastDataId THEN s ELSE u
  BY DEF AdvanceToRetransmitted
<1>3. r = AdvanceToRetransmitted(s, d)
  OBVIOUS
<1> HIDE DEF r
<1>4. CASE d <= s.lastDataId
  BY <1>2, <1>3, <1>4
<1>5. CASE ~ d <= s.lastDataId
  <2>1. /\ t \in CapsuleForwardingStates
        /\ t.lastDataId = d
        /\ t.transmittedDataIds = s.transmittedDataIds
        /\ t.lostDataIdsFromPrevRouters = s.lostDataIdsFromPrevRouters
        /\ SameWaits(s, t) /\ SameChains(s, t) /\ SameBatches(s, t) /\ SameReports(s, t)
    BY DEF SameWaits, SameChains, SameBatches, SameReports, CapsuleForwardingStates
  <2> HIDE DEF t
  <2>2. Sound(t)
    <3>1. ChainsListed(t) /\ RoundsListed(t)
      BY <2>1 DEF Sound, ChainsListed, RoundsListed, SameWaits, SameChains, SameBatches
    <3>2. Booked(t)
      <4>1. Skipped(s) \subseteq Skipped(t) /\ s.transmittedDataIds \subseteq t.transmittedDataIds
        BY <2>1 DEF Skipped
      <4>2. s.lastDataId <= t.lastDataId
        BY <1>1, <1>5, <2>1
      <4>3. ReportsShrink(s, t) /\ t.retransInBatchEvents = s.retransInBatchEvents
        BY <2>1, ReportsSame DEF SameBatches
      <4> QED
        BY <2>1, <4>1, <4>2, <4>3, ShrinkBooked DEF Sound
    <3>3. Exclusive(t)
      <4> SUFFICES ASSUME ReportUIDs = {} PROVE Exclusive(t)
        BY DEF Exclusive
      <4>1. \A b \in s.retransInBatchEvents : \A i \in b.ids :
              /\ i \in 1..s.lastDataId
              /\ i \notin s.waitTimers
              /\ \A e \in s.singleTimers : e.id # i
        BY DEF Sound, Exclusive
      <4>2. \A b \in s.retransInBatchEvents : \A i \in b.ids : i \in 1..t.lastDataId
        BY <1>1, <1>5, <2>1, <4>1
      <4> QED
        BY <2>1, <4>1, <4>2 DEF Sound, Exclusive, SameWaits, SameChains, SameBatches, SameReports
    <3> QED
      BY <3>1, <3>2, <3>3 DEF Sound
  <2>3. IsNext(t, d, n)
    BY <2>1, NextFound
  <2>4. ReportUIDs = {} => \A b \in t.retransInBatchEvents : n \notin b.ids
    <3>1. n > d /\ n \in Int
      BY <1>1, <2>3 DEF IsNext
    <3>2. ReportUIDs = {} => \A b \in t.retransInBatchEvents : \A i \in b.ids : i \in 1..d
      BY <2>1, <2>2 DEF Sound, Exclusive
    <3> QED
      BY <1>1, <3>1, <3>2
  <2>5. Sound(u)
    BY <2>1, <2>2, <2>4, WaitForNextCapsuleSound
  <2>6. SameIds(t, u) /\ u.waitForNextDataEvents = t.waitForNextDataEvents \cup {n}
    BY <2>1, WaitForNextCapsuleEffect
  <2>7. r = u
    BY <1>2, <1>5
  <2> HIDE DEF u
  <2>8. /\ u.transmittedDataIds = t.transmittedDataIds
        /\ u.lostDataIdsFromPrevRouters = t.lostDataIdsFromPrevRouters
        /\ u.lastDataId = d
    BY <2>1, <2>6 DEF SameIds
  <2>9. ComputeNextDataId(u, d) = n
    BY <2>8 DEF ComputeNextDataId, Skipped
  <2> HIDE DEF n
  <2>10. u.waitForNextDataEvents = s.waitForNextDataEvents \cup {ComputeNextDataId(u, d)}
    BY <2>1, <2>6, <2>9 DEF SameWaits
  <2> QED
    BY <1>3, <1>5, <2>1, <2>5, <2>7, <2>8, <2>10
<1> QED
  BY <1>4, <1>5

\* An answer to a RequestM.
LEMMA OnReceiveRetranMSound ==
  ASSUME RetransControlAssumption,
         NEW s \in CapsuleForwardingStates, NEW rbi \in Nat, NEW d \in DataIds, s.out = {},
         Sound(s), Ahead(s)
  PROVE  Sound(OnReceiveRetranM(s, rbi, d)) /\ Ahead(OnReceiveRetranM(s, rbi, d))
<1> DEFINE r1 == RecordTransmitted(s, d)
           r2 == CleanRetranMEventsOfBatch(r1, rbi, d)
           r3 == InsertInCs(r2, d)
           r4 == DeliverCapsule(r3, d, d)
           r5 == AdvanceToRetransmitted(r4, d)
           q  == OnReceiveRetranM(s, rbi, d)
<1>1. CASE d \in s.transmittedDataIds
  BY <1>1 DEF OnReceiveRetranM
<1>2. CASE d \notin s.transmittedDataIds
  <2>1. q = r5
    BY <1>2 DEF OnReceiveRetranM
  <2>2. q \in CapsuleForwardingStates
    BY OnReceiveRetranMHandled DEF Handled
  <2>3. q = OnReceiveRetranM(s, rbi, d)
    OBVIOUS
  <2> HIDE DEF q
  <2>4. /\ r1 \in CapsuleForwardingStates
        /\ r1.transmittedDataIds = s.transmittedDataIds \cup {d}
        /\ r1.lostDataIdsFromPrevRouters = s.lostDataIdsFromPrevRouters
        /\ r1.lastDataId = s.lastDataId
        /\ SameWaits(s, r1)
        /\ Sound(r1)
    BY RecordTransmittedEffect, RecordTransmittedTables, RecordTransmittedSound
  <2> HIDE DEF r1
  <2>5. /\ r2 \in CapsuleForwardingStates
        /\ SameIds(r1, r2) /\ SameWaits(r1, r2)
        /\ Sound(r2)
    <3>1. r2 \in CapsuleForwardingStates
      BY <2>4, CleanRetranMEventsOfBatchSilent DEF Silent
    <3>2. SameIds(r1, r2) /\ SameWaits(r1, r2)
      BY <2>4, CleanRetranMEventsOfBatchEffect
    <3>3. Sound(r2)
      BY <2>4, CleanRetranMEventsOfBatchSound
    <3> QED
      BY <3>1, <3>2, <3>3
  <2> HIDE DEF r2
  <2>6. r3 \in CapsuleForwardingStates /\ SameTables(r2, r3)
    BY <2>5, InsertInCsSilent, InsertInCsEffect DEF Silent
  <2> HIDE DEF r3
  <2>7. r4 \in CapsuleForwardingStates /\ SameTables(r3, r4)
    BY <2>6, DeliverCapsuleEffect, DeliverCapsuleTables
  <2> HIDE DEF r4
  <2>8. Sound(r4)
    BY <2>5, <2>6, <2>7, SameTablesSound
  <2>9. /\ r4.transmittedDataIds = s.transmittedDataIds \cup {d}
        /\ r4.lostDataIdsFromPrevRouters = s.lostDataIdsFromPrevRouters
        /\ r4.lastDataId = s.lastDataId
        /\ r4.waitForNextDataEvents = s.waitForNextDataEvents
    BY <2>4, <2>5, <2>6, <2>7 DEF SameTables, SameIds, SameWaits
  <2>10. /\ Sound(r5)
         /\ r5.transmittedDataIds = r4.transmittedDataIds
         /\ r5.lostDataIdsFromPrevRouters = r4.lostDataIdsFromPrevRouters
         /\ d <= r4.lastDataId =>
              /\ r5.lastDataId = r4.lastDataId
              /\ r5.waitForNextDataEvents = r4.waitForNextDataEvents
         /\ ~ d <= r4.lastDataId =>
              /\ r5.lastDataId = d
              /\ r5.waitForNextDataEvents =
                   r4.waitForNextDataEvents \cup {ComputeNextDataId(r5, d)}
    BY <2>7, <2>8, AdvanceSound
  <2> HIDE DEF r5
  <2>11. Skipped(q) = Skipped(s) \cup {d}
    BY <2>1, <2>9, <2>10 DEF Skipped
  <2>12. s.lastDataId \in Nat /\ d \in Nat
    BY DEF CapsuleForwardingStates, DataIds
  <2>13. CASE d <= s.lastDataId
    <3>1. q.lastDataId = s.lastDataId /\ q.waitForNextDataEvents = s.waitForNextDataEvents
      BY <2>1, <2>9, <2>10, <2>13
    <3>2. \A w \in s.waitForNextDataEvents : w > s.lastDataId => w # d
      BY <2>12, <2>13
    <3>3. Ahead(q)
      BY <2>2, <2>11, <3>1, <3>2, AheadStays
    <3> QED
      BY <2>1, <2>3, <2>10, <3>3
  <2>14. CASE ~ d <= s.lastDataId
    <3>1. /\ q.lastDataId = d
          /\ q.waitForNextDataEvents = s.waitForNextDataEvents \cup {ComputeNextDataId(q, d)}
      BY <2>1, <2>9, <2>10, <2>14
    <3>2. s.lastDataId <= d
      BY <2>12, <2>14
    <3>3. Ahead(q)
      BY <2>2, <2>11, <3>1, <3>2, AheadMoves
    <3> QED
      BY <2>1, <2>3, <2>10, <3>3
  <2> QED
    BY <2>13, <2>14
<1> QED
  BY <1>1, <1>2

\* An answer to a RequestS is for the asked id or one after it.
LEMMA OnReceiveRetranSSound ==
  ASSUME RetransControlAssumption,
         NEW s \in CapsuleForwardingStates, NEW d \in DataIds, NEW asked \in WaitIds, s.out = {},
         asked <= d, Sound(s), Ahead(s)
  PROVE  Sound(OnReceiveRetranS(s, d, asked)) /\ Ahead(OnReceiveRetranS(s, d, asked))
<1> DEFINE r1 == RecordTransmitted(s, d)
           r2 == [r1 EXCEPT !.waitForNextDataEvents = @ \cup {d}]
           a  == EndWaits(r2, {asked})
           r3 == InsertInCs(a, d)
           r4 == DeliverCapsule(r3, d, asked)
           r5 == AdvanceToRetransmitted(r4, d)
           q  == OnReceiveRetranS(s, d, asked)
<1>1. CASE d \in s.transmittedDataIds
  BY <1>1 DEF OnReceiveRetranS
<1>2. CASE d \notin s.transmittedDataIds
  <2>1. q = r5
    BY <1>2 DEF OnReceiveRetranS, EndWaits
  <2>2. q \in CapsuleForwardingStates
    BY OnReceiveRetranSHandled DEF Handled
  <2>3. q = OnReceiveRetranS(s, d, asked)
    OBVIOUS
  <2> HIDE DEF q
  <2>4. /\ r1 \in CapsuleForwardingStates
        /\ r1.transmittedDataIds = s.transmittedDataIds \cup {d}
        /\ r1.lostDataIdsFromPrevRouters = s.lostDataIdsFromPrevRouters
        /\ r1.lastDataId = s.lastDataId
        /\ SameWaits(s, r1)
        /\ Sound(r1)
    BY RecordTransmittedEffect, RecordTransmittedTables, RecordTransmittedSound
  <2> HIDE DEF r1
  <2>5. /\ r2 \in CapsuleForwardingStates
        /\ SameIds(r1, r2) /\ SameChains(r1, r2) /\ SameBatches(r1, r2) /\ SameReports(r1, r2)
        /\ r2.waitForNextDataEvents = r1.waitForNextDataEvents \cup {d}
        /\ r2.waitTimers = r1.waitTimers
    <3>1. r1.waitForNextDataEvents \cup {d} \in SUBSET WaitIds
      BY <2>4 DEF DataIds, WaitIds, CapsuleForwardingStates, RetransControlAssumption
    <3> QED
      BY <2>4, <3>1 DEF SameIds, SameChains, SameBatches, SameReports, CapsuleForwardingStates
  <2> HIDE DEF r2
  <2>6. Sound(r2)
    <3>1. ChainsListed(r2)
      BY <2>4, <2>5 DEF Sound, ChainsListed, SameChains
    <3>2. RoundsListed(r2) /\ Booked(r2)
      BY <2>4, <2>5, SameBooks DEF Sound
    <3>3. Exclusive(r2)
      BY <2>4, <2>5 DEF Sound, Exclusive, SameIds, SameChains, SameBatches, SameReports
    <3> QED
      BY <3>1, <3>2, <3>3 DEF Sound
  <2>7. /\ a \in CapsuleForwardingStates
        /\ SameIds(r2, a)
        /\ a.waitForNextDataEvents = r2.waitForNextDataEvents \ {asked}
        /\ Sound(a)
    BY <2>5, <2>6, EndWaitsEffect, EndWaitsSound
  <2> HIDE DEF a
  <2>8. r3 \in CapsuleForwardingStates /\ SameTables(a, r3)
    BY <2>7, InsertInCsSilent, InsertInCsEffect DEF Silent
  <2> HIDE DEF r3
  <2>9. r4 \in CapsuleForwardingStates /\ SameTables(r3, r4)
    <3>1. asked \in DataIds
      BY DEF WaitIds, DataIds, RetransControlAssumption
    <3> QED
      BY <2>8, <3>1, DeliverCapsuleEffect, DeliverCapsuleTables
  <2> HIDE DEF r4
  <2>10. Sound(r4)
    BY <2>7, <2>8, <2>9, SameTablesSound
  <2>11. /\ r4.transmittedDataIds = s.transmittedDataIds \cup {d}
         /\ r4.lostDataIdsFromPrevRouters = s.lostDataIdsFromPrevRouters
         /\ r4.lastDataId = s.lastDataId
         /\ r4.waitForNextDataEvents = (s.waitForNextDataEvents \cup {d}) \ {asked}
    BY <2>4, <2>5, <2>7, <2>8, <2>9 DEF SameTables, SameIds, SameWaits
  <2>12. /\ Sound(r5)
         /\ r5.transmittedDataIds = r4.transmittedDataIds
         /\ r5.lostDataIdsFromPrevRouters = r4.lostDataIdsFromPrevRouters
         /\ d <= r4.lastDataId =>
              /\ r5.lastDataId = r4.lastDataId
              /\ r5.waitForNextDataEvents = r4.waitForNextDataEvents
         /\ ~ d <= r4.lastDataId =>
              /\ r5.lastDataId = d
              /\ r5.waitForNextDataEvents =
                   r4.waitForNextDataEvents \cup {ComputeNextDataId(r5, d)}
    BY <2>9, <2>10, AdvanceSound
  <2> HIDE DEF r5
  <2>13. Skipped(q) = Skipped(s) \cup {d}
    BY <2>1, <2>11, <2>12 DEF Skipped
  <2>14. s.lastDataId \in Nat /\ d \in Nat /\ asked \in Nat
    BY DEF CapsuleForwardingStates, DataIds, WaitIds
  <2>15. CASE d <= s.lastDataId
    <3>1. /\ q.lastDataId = s.lastDataId
          /\ q.waitForNextDataEvents = (s.waitForNextDataEvents \cup {d}) \ {asked}
      BY <2>1, <2>11, <2>12, <2>15
    <3>2. \A w \in s.waitForNextDataEvents : w > s.lastDataId => w # d /\ w # asked
      BY <2>14, <2>15
    <3>3. ~ d > s.lastDataId
      BY <2>14, <2>15
    <3>4. /\ \A w \in q.waitForNextDataEvents : w > s.lastDataId => w \in s.waitForNextDataEvents
          /\ \A w \in s.waitForNextDataEvents : w > s.lastDataId /\ w \notin Skipped(s) =>
                w \in q.waitForNextDataEvents /\ w \notin Skipped(q)
      BY <2>13, <3>1, <3>2, <3>3
    <3>5. Ahead(q)
      BY <2>2, <2>13, <3>1, <3>4, AheadStays
    <3> QED
      BY <2>1, <2>3, <2>12, <3>5
  <2>16. CASE ~ d <= s.lastDataId
    <3>1. /\ q.lastDataId = d
          /\ q.waitForNextDataEvents =
               ((s.waitForNextDataEvents \cup {d}) \ {asked}) \cup {ComputeNextDataId(q, d)}
      BY <2>1, <2>11, <2>12, <2>16
    <3>2. s.lastDataId <= d /\ ~ d > d
      BY <2>14, <2>16
    <3>3. \A w \in q.waitForNextDataEvents : w > d =>
             w \in s.waitForNextDataEvents \/ w = ComputeNextDataId(q, d)
      BY <3>1, <3>2
    <3>4. Ahead(q)
      BY <2>2, <2>13, <3>1, <3>2, <3>3, AheadMoves
    <3> QED
      BY <2>1, <2>3, <2>12, <3>4
  <2> QED
    BY <2>15, <2>16
<1> QED
  BY <1>1, <1>2

\* A reported capsule came after all: it is transmitted, no longer lost.
LEMMA RecoveredSound ==
  ASSUME NEW s \in CapsuleForwardingStates, NEW d \in DataIds, Sound(s),
         d \in s.transmittedDataIds
  PROVE  LET r == [s EXCEPT !.lostDataIdsFromPrevRouters = @ \ {d}]
         IN  /\ r \in CapsuleForwardingStates
             /\ Sound(r) /\ NoGap(s, r)
             /\ r.transmittedDataIds = s.transmittedDataIds
             /\ r.lostDataIdsFromPrevRouters = s.lostDataIdsFromPrevRouters \ {d}
             /\ r.lastDataId = s.lastDataId
             /\ SameWaits(s, r)
<1> DEFINE r == [s EXCEPT !.lostDataIdsFromPrevRouters = @ \ {d}]
<1>1. /\ r \in CapsuleForwardingStates
      /\ r.transmittedDataIds = s.transmittedDataIds
      /\ r.lostDataIdsFromPrevRouters = s.lostDataIdsFromPrevRouters \ {d}
      /\ r.lastDataId = s.lastDataId
      /\ SameWaits(s, r) /\ SameChains(s, r) /\ SameBatches(s, r) /\ SameReports(s, r)
  BY DEF SameWaits, SameChains, SameBatches, SameReports, CapsuleForwardingStates
<1> HIDE DEF r
<1>2. Skipped(r) = Skipped(s)
  BY <1>1 DEF Skipped
<1>3. ChainsListed(r) /\ RoundsListed(r)
  BY <1>1 DEF Sound, ChainsListed, RoundsListed, SameWaits, SameChains, SameBatches
<1>4. Booked(r)
  BY <1>1, <1>2 DEF Sound, Booked, SameBatches, SameReports
<1>5. Exclusive(r)
  BY <1>1 DEF Sound, Exclusive, SameWaits, SameChains, SameBatches, SameReports
<1>6. NoGap(s, r)
  <2>1. \A i : i \in Skipped(s) => i \in Skipped(r)
    BY <1>2
  <2> QED
    BY <1>1, <2>1 DEF NoGap, Unaccounted, Accounted, Skipped, SameWaits, SameBatches
<1> QED
  BY <1>1, <1>3, <1>4, <1>5, <1>6 DEF Sound, r

\* A capsule of the stream, in whatever order.
LEMMA OnReceiveCapsuleSound ==
  ASSUME RetransControlAssumption,
         NEW s \in CapsuleForwardingStates, NEW d \in DataIds, s.out = {},
         Sound(s), Ahead(s)
  PROVE  /\ Sound(OnReceiveCapsule(s, d))
         /\ Ahead(OnReceiveCapsule(s, d))
         /\ NoGap(s, OnReceiveCapsule(s, d))
<1> DEFINE r1 == RecordTransmitted(s, d)
           a  == [r1 EXCEPT !.lostDataIdsFromPrevRouters = @ \ {d}]
           b  == Advanced(r1, d)
           r2 == IF d \in r1.lostDataIdsFromPrevRouters THEN a ELSE b
           r3 == EndWaits(r2, {d})
           c  == CleanWaitForRequestMEvents(r3, d)
           r4 == DeliverCapsule(c, d, d)
           n  == ComputeNextDataId(r4, d)
           r5 == WaitForNextCapsule(r4, n)
           q  == OnReceiveCapsule(s, d)
<1>1. CASE d \in s.transmittedDataIds
  BY <1>1, NoGapReflexive DEF OnReceiveCapsule
<1>2. CASE d \notin s.transmittedDataIds
  <2>1. q = IF d = r4.lastDataId THEN r5 ELSE r4
    BY <1>2 DEF OnReceiveCapsule, EndWaits, Advanced
  <2>2. q = OnReceiveCapsule(s, d)
    OBVIOUS
  <2>3. q \in CapsuleForwardingStates
    BY OnReceiveCapsuleHandled DEF Handled
  <2> HIDE DEF q
  <2>4. s.lastDataId \in Nat /\ d \in Nat
    BY DEF CapsuleForwardingStates, DataIds
  <2>5. /\ r1 \in CapsuleForwardingStates
        /\ r1.transmittedDataIds = s.transmittedDataIds \cup {d}
        /\ r1.lostDataIdsFromPrevRouters = s.lostDataIdsFromPrevRouters
        /\ r1.lastDataId = s.lastDataId
        /\ SameWaits(s, r1)
        /\ Sound(r1) /\ NoGap(s, r1)
    BY RecordTransmittedEffect, RecordTransmittedTables, RecordTransmittedSound
  <2> HIDE DEF r1
  <2>6. d \in r1.transmittedDataIds
    BY <2>5
  <2>7. d \in s.lostDataIdsFromPrevRouters =>
          /\ r2 \in CapsuleForwardingStates
          /\ Sound(r2) /\ NoGap(r1, r2)
          /\ r2.transmittedDataIds = r1.transmittedDataIds
          /\ r2.lostDataIdsFromPrevRouters = r1.lostDataIdsFromPrevRouters \ {d}
          /\ r2.lastDataId = r1.lastDataId
          /\ SameWaits(r1, r2)
    BY <2>5, <2>6, RecoveredSound
  <2>8. d \notin s.lostDataIdsFromPrevRouters =>
          /\ r2 \in CapsuleForwardingStates
          /\ Sound(r2) /\ NoGap(r1, r2)
          /\ r2.transmittedDataIds = r1.transmittedDataIds
          /\ r2.lostDataIdsFromPrevRouters = r1.lostDataIdsFromPrevRouters
          /\ r2.lastDataId = IF d > r1.lastDataId THEN d ELSE r1.lastDataId
          /\ SameWaits(r1, r2)
    <3> SUFFICES ASSUME d \notin s.lostDataIdsFromPrevRouters
                 PROVE  /\ b \in CapsuleForwardingStates
                        /\ Sound(b) /\ NoGap(r1, b)
                        /\ b.transmittedDataIds = r1.transmittedDataIds
                        /\ b.lostDataIdsFromPrevRouters = r1.lostDataIdsFromPrevRouters
                        /\ b.lastDataId = IF d > r1.lastDataId THEN d ELSE r1.lastDataId
                        /\ SameWaits(r1, b)
      BY <2>5
    <3>1. d \notin r1.lostDataIdsFromPrevRouters
      BY <2>5
    <3>2. Sound(b) /\ NoGap(r1, b)
      BY <2>5, <2>6, <3>1, AdvancedSound
    <3>3. /\ b \in CapsuleForwardingStates
          /\ b.transmittedDataIds = r1.transmittedDataIds
          /\ b.lostDataIdsFromPrevRouters = r1.lostDataIdsFromPrevRouters
          /\ b.lastDataId = IF d > r1.lastDataId THEN d ELSE r1.lastDataId
          /\ SameWaits(r1, b)
      BY <2>5, DiscoverLostCapsulesEffect
    <3> QED
      BY <3>2, <3>3
  <2> HIDE DEF r2
  <2>9. /\ r2 \in CapsuleForwardingStates
        /\ Sound(r2) /\ NoGap(s, r2)
        /\ Skipped(r2) = Skipped(s) \cup {d}
        /\ SameWaits(s, r2)
        /\ \/ r2.lastDataId = s.lastDataId /\ (d <= s.lastDataId \/ d \in Skipped(s))
           \/ r2.lastDataId = d /\ s.lastDataId <= d
    <3>1. CASE d \in s.lostDataIdsFromPrevRouters
      <4>1. r2 \in CapsuleForwardingStates /\ Sound(r2) /\ NoGap(s, r2) /\ SameWaits(s, r2)
        BY <2>5, <2>7, <3>1, NoGapTransitive DEF SameWaits
      <4>2. Skipped(r2) = Skipped(s) \cup {d}
        BY <2>5, <2>7, <3>1 DEF Skipped
      <4>3. r2.lastDataId = s.lastDataId /\ d \in Skipped(s)
        BY <2>5, <2>7, <3>1 DEF Skipped
      <4> QED
        BY <4>1, <4>2, <4>3
    <3>2. CASE d \notin s.lostDataIdsFromPrevRouters
      <4>1. r2 \in CapsuleForwardingStates /\ Sound(r2) /\ NoGap(s, r2) /\ SameWaits(s, r2)
        BY <2>5, <2>8, <3>2, NoGapTransitive DEF SameWaits
      <4>2. Skipped(r2) = Skipped(s) \cup {d}
        BY <2>5, <2>8, <3>2 DEF Skipped
      <4>3. r2.lastDataId = IF d > s.lastDataId THEN d ELSE s.lastDataId
        BY <2>5, <2>8, <3>2
      <4>4. \/ r2.lastDataId = s.lastDataId /\ d <= s.lastDataId
            \/ r2.lastDataId = d /\ s.lastDataId <= d
        BY <2>4, <4>3
      <4> QED
        BY <4>1, <4>2, <4>4
    <3> QED
      BY <3>1, <3>2
  <2>10. /\ r3 \in CapsuleForwardingStates
         /\ SameIds(r2, r3)
         /\ r3.waitForNextDataEvents = r2.waitForNextDataEvents \ {d}
         /\ Sound(r3) /\ NoGap(r2, r3)
    <3>1. {d} \subseteq Skipped(r2)
      BY <2>9
    <3> QED
      BY <2>9, <3>1, EndWaitsEffect, EndWaitsSound
  <2> HIDE DEF r3
  <2>11. /\ c \in CapsuleForwardingStates
         /\ SameIds(r3, c) /\ SameWaits(r3, c)
         /\ Sound(c) /\ NoGap(r3, c)
    <3>1. c \in CapsuleForwardingStates
      BY <2>10, CleanWaitForRequestMEventsSilent DEF Silent
    <3>2. SameIds(r3, c) /\ SameWaits(r3, c)
      BY <2>10, CleanWaitForRequestMEventsEffect
    <3>3. Sound(c) /\ NoGap(r3, c)
      BY <2>10, CleanWaitForRequestMEventsSound
    <3> QED
      BY <3>1, <3>2, <3>3
  <2> HIDE DEF c
  <2>12. r4 \in CapsuleForwardingStates /\ SameTables(c, r4)
    BY <2>11, DeliverCapsuleEffect, DeliverCapsuleTables
  <2> HIDE DEF r4
  <2>13. /\ Sound(r4) /\ NoGap(s, r4)
    BY <2>9, <2>10, <2>11, <2>12, SameTablesSound, NoGapTransitive
  <2>14. /\ Skipped(r4) = Skipped(s) \cup {d}
         /\ r4.lastDataId = r2.lastDataId
         /\ r4.waitForNextDataEvents = s.waitForNextDataEvents \ {d}
    <3>1. SameIds(r2, r4)
      BY <2>10, <2>11, <2>12 DEF SameTables, SameIds
    <3>2. Skipped(r4) = Skipped(r2) /\ r4.lastDataId = r2.lastDataId
      BY <3>1 DEF SameIds, Skipped
    <3>3. r4.waitForNextDataEvents = s.waitForNextDataEvents \ {d}
      BY <2>9, <2>10, <2>11, <2>12 DEF SameTables, SameWaits
    <3> QED
      BY <2>9, <3>2, <3>3
  <2>15. CASE d = r4.lastDataId
    <3>1. IsNext(r4, d, n)
      BY <2>12, NextFound
    <3>2. ReportUIDs = {} => \A e \in r4.retransInBatchEvents : n \notin e.ids
      <4>1. n > d /\ n \in Int
        BY <2>4, <3>1 DEF IsNext
      <4>2. ReportUIDs = {} => \A e \in r4.retransInBatchEvents : \A i \in e.ids : i \in 1..d
        BY <2>13, <2>15 DEF Sound, Exclusive
      <4> QED
        BY <2>4, <4>1, <4>2
    <3>3. Sound(r5) /\ NoGap(r4, r5)
      BY <2>12, <2>13, <3>2, WaitForNextCapsuleSound
    <3>4. SameIds(r4, r5) /\ r5.waitForNextDataEvents = r4.waitForNextDataEvents \cup {n}
      BY <2>12, WaitForNextCapsuleEffect
    <3>5. q = r5
      BY <2>1, <2>15
    <3> HIDE DEF r5
    <3>6. Skipped(q) = Skipped(r4) /\ q.lastDataId = d
      BY <2>15, <3>4, <3>5 DEF SameIds, Skipped
    <3>7. ComputeNextDataId(q, d) = n
      BY <3>6 DEF ComputeNextDataId
    <3> HIDE DEF n
    <3>8. /\ ComputeNextDataId(q, d) \in q.waitForNextDataEvents
          /\ \A w \in q.waitForNextDataEvents :
                w \in s.waitForNextDataEvents \/ w = ComputeNextDataId(q, d)
      BY <2>14, <3>4, <3>5, <3>7
    <3>9. s.lastDataId <= d
      BY <2>4, <2>9, <2>14, <2>15
    <3>10. Ahead(q)
      BY <2>3, <2>14, <3>6, <3>8, <3>9, AheadMoves
    <3> QED
      BY <2>2, <2>13, <3>3, <3>5, <3>10, NoGapTransitive
  <2>16. CASE d # r4.lastDataId
    <3>1. q = r4
      BY <2>1, <2>16
    <3>2. q.lastDataId = s.lastDataId /\ (d <= s.lastDataId \/ d \in Skipped(s))
      BY <2>9, <2>14, <2>16, <3>1
    <3>3. \A w \in s.waitForNextDataEvents : w > s.lastDataId /\ w \notin Skipped(s) =>
             w \in q.waitForNextDataEvents /\ w \notin Skipped(q)
      <4> SUFFICES ASSUME NEW w \in s.waitForNextDataEvents, w > s.lastDataId, w \notin Skipped(s)
                   PROVE  w # d
        BY <2>14, <3>1
      <4> QED
        BY <2>4, <3>2
    <3>4. Ahead(q)
      BY <2>3, <2>14, <3>1, <3>2, <3>3, AheadStays
    <3> QED
      BY <2>2, <2>13, <3>1, <3>4
  <2> QED
    BY <2>15, <2>16
<1> QED
  BY <1>1, <1>2

\* What a report leaves: its ids are lost, no batch asks for them, none of them is awaited.
LEMMA ReportedSound ==
  ASSUME RetransControlAssumption,
         NEW s \in CapsuleForwardingStates, NEW ids \in SUBSET DataIds, Sound(s),
         NEW r \in CapsuleForwardingStates, NEW held,
         held = (s.lostDataIdsFromPrevRouters \cup ids) \cap s.waitForNextDataEvents,
         r.transmittedDataIds = s.transmittedDataIds,
         r.lastDataId = s.lastDataId,
         r.lostDataIdsFromPrevRouters = s.lostDataIdsFromPrevRouters \cup ids,
         r.waitForNextDataEvents = s.waitForNextDataEvents \ held,
         r.retransInBatchEvents =
           {b \in {Without(c, s.lostDataIdsFromPrevRouters \cup ids) : c \in s.retransInBatchEvents} :
              b.ids # {}},
         \/ SameReports(s, r)
         \/ \E w : /\ w.ids = ids \ s.lostDataIdsFromPrevRouters
                   /\ r.WaitForRetransInBatchEvents = s.WaitForRetransInBatchEvents \cup {w}
  PROVE  Booked(r) /\ NoGap(s, r)
<1> DEFINE lost == s.lostDataIdsFromPrevRouters \cup ids
<1>1. Skipped(r) = Skipped(s) \cup ids /\ lost \subseteq Skipped(r)
  BY DEF Skipped
<1>2. \A b \in r.retransInBatchEvents : \E c \in s.retransInBatchEvents : b = Without(c, lost)
  OBVIOUS
<1>3. \A c : Without(c, lost).ids = c.ids \ lost
  BY DEF Without
<1>4. \A c \in s.retransInBatchEvents : c.ids \ lost # {} => Without(c, lost) \in r.retransInBatchEvents
  BY <1>3
<1>5. PICK new : \A w \in r.WaitForRetransInBatchEvents :
                    \/ w \in s.WaitForRetransInBatchEvents
                    \/ w = new /\ w.ids = ids \ s.lostDataIdsFromPrevRouters
  BY DEF SameReports
<1>6. \A w \in s.WaitForRetransInBatchEvents : w.ids \subseteq Skipped(s)
  BY DEF Sound, Booked
<1>7. \A w \in r.WaitForRetransInBatchEvents : w.ids \subseteq Skipped(r)
  BY <1>1, <1>5, <1>6
<1>8. ASSUME NEW v \in r.WaitForRetransInBatchEvents, NEW w \in r.WaitForRetransInBatchEvents,
             v # w
      PROVE  v.ids \cap w.ids \subseteq r.transmittedDataIds
  <2>1. CASE v \in s.WaitForRetransInBatchEvents /\ w \in s.WaitForRetransInBatchEvents
    BY <1>8, <2>1 DEF Sound, Booked
  <2>2. CASE v \in s.WaitForRetransInBatchEvents /\ w.ids = ids \ s.lostDataIdsFromPrevRouters
    BY <1>6, <2>2 DEF Skipped
  <2>3. CASE w \in s.WaitForRetransInBatchEvents /\ v.ids = ids \ s.lostDataIdsFromPrevRouters
    BY <1>6, <2>3 DEF Skipped
  <2> QED
    BY <1>5, <1>8, <2>1, <2>2, <2>3
<1>9. ASSUME NEW w \in r.WaitForRetransInBatchEvents, NEW b \in r.retransInBatchEvents
      PROVE  w.ids \cap b.ids \subseteq r.transmittedDataIds
  <2>1. PICK c \in s.retransInBatchEvents : b = Without(c, lost)
    BY <1>2
  <2>2. b.ids = c.ids \ lost
    BY <1>3, <2>1
  <2>3. CASE w \in s.WaitForRetransInBatchEvents
    <3>1. w.ids \cap c.ids \subseteq s.transmittedDataIds
      BY <2>3 DEF Sound, Booked
    <3> QED
      BY <2>2, <3>1
  <2>4. CASE w.ids \subseteq lost
    BY <2>2, <2>4
  <2> QED
    BY <1>5, <2>3, <2>4
<1>10. ASSUME NEW b \in r.retransInBatchEvents, NEW i \in b.ids
       PROVE  i <= r.lastDataId \/ i \in Skipped(r)
  <2>1. PICK c \in s.retransInBatchEvents : b = Without(c, lost)
    BY <1>2
  <2>2. b.ids = c.ids \ lost
    BY <1>3, <2>1
  <2>3. i \in c.ids
    BY <2>2
  <2>4. i <= s.lastDataId \/ i \in Skipped(s)
    BY <2>3 DEF Sound, Booked
  <2> QED
    BY <1>1, <2>4
<1>11. ASSUME NEW a \in r.retransInBatchEvents, NEW b \in r.retransInBatchEvents, a # b
       PROVE  a.ids \cap b.ids = {}
  <2>1. PICK c \in s.retransInBatchEvents : a = Without(c, lost)
    BY <1>2
  <2>2. PICK e \in s.retransInBatchEvents : b = Without(e, lost)
    BY <1>2
  <2>3. c # e
    BY <1>11, <2>1, <2>2
  <2>4. c.ids \cap e.ids = {}
    BY <2>3 DEF Sound, Booked
  <2>5. a.ids = c.ids \ lost
    BY <1>3, <2>1
  <2>6. b.ids = e.ids \ lost
    BY <1>3, <2>2
  <2> QED
    BY <2>4, <2>5, <2>6
<1>12. Booked(r)
  BY <1>7, <1>8, <1>9, <1>10, <1>11 DEF Booked
<1>13. NoGap(s, r)
  <2> SUFFICES ASSUME NEW i \in Unaccounted(r) PROVE i \in Unaccounted(s)
    BY DEF NoGap
  <2>1. /\ i \in 1..s.lastDataId
        /\ i \notin s.transmittedDataIds /\ i \notin lost
        /\ i \notin s.waitForNextDataEvents \ held
        /\ \A b \in r.retransInBatchEvents : i \notin b.ids
    BY DEF Unaccounted, Accounted
  <2>2. i \notin s.waitForNextDataEvents
    BY <2>1
  <2>3. \A c \in s.retransInBatchEvents : i \notin c.ids
    <3> SUFFICES ASSUME NEW c \in s.retransInBatchEvents, i \in c.ids PROVE FALSE
      OBVIOUS
    <3>1. i \in c.ids \ lost
      BY <2>1
    <3>2. Without(c, lost) \in r.retransInBatchEvents /\ i \in Without(c, lost).ids
      BY <1>3, <1>4, <3>1
    <3> QED
      BY <2>1, <3>2
  <2> QED
    BY <2>1, <2>2, <2>3 DEF Unaccounted, Accounted
<1> QED
  BY <1>12, <1>13

\* What a report leaves of the detection, the next id awaited or not yet again.
LEMMA ReportedAhead ==
  ASSUME RetransControlAssumption,
         NEW s \in CapsuleForwardingStates, NEW ids \in SUBSET DataIds, Ahead(s),
         NEW r \in CapsuleForwardingStates, NEW held, NEW max,
         held = (s.lostDataIdsFromPrevRouters \cup ids) \cap s.waitForNextDataEvents,
         r.lastDataId = s.lastDataId,
         Skipped(r) = Skipped(s) \cup ids,
         held # {} => max \in held /\ max \in DataIds /\ \A h \in held : h <= max,
         r.waitForNextDataEvents =
            (s.waitForNextDataEvents \ held)
              \cup (IF held = {} THEN {} ELSE {ComputeNextDataId(r, max)})
  PROVE  Ahead(r)
<1> DEFINE last == s.lastDataId
           n    == ComputeNextDataId(r, max)
<1>1. last \in DataIds /\ last \in Nat /\ MaxDataId \in Nat
  BY DEF CapsuleForwardingStates, DataIds, RetransControlAssumption
<1>2. held \subseteq s.waitForNextDataEvents /\ held \subseteq Skipped(r)
  BY DEF Skipped
<1>3. \A w \in s.waitForNextDataEvents : w \in ids => w \in held
  OBVIOUS
<1>4. CASE held = {}
  <2>1. r.waitForNextDataEvents = s.waitForNextDataEvents
    BY <1>4
  <2>2. \A w \in s.waitForNextDataEvents : w \notin Skipped(s) => w \notin Skipped(r)
    BY <1>3, <1>4
  <2> QED
    BY <2>1, <2>2, AheadStays
<1>5. CASE held # {}
  <2>1. max \in held /\ max \in Nat /\ max \in DataIds
    BY <1>5 DEF DataIds
  <2>2. IsNext(r, max, n)
    BY <2>1, NextFound
  <2>3. n > max /\ n \in Int /\ n \in r.waitForNextDataEvents
    BY <1>5, <2>1, <2>2 DEF IsNext
  <2>4. \A w \in r.waitForNextDataEvents : w \in s.waitForNextDataEvents \ held \/ w = n
    BY <1>5
  <2> HIDE DEF n
  <2>5. \A w \in s.waitForNextDataEvents \ held : w \in r.waitForNextDataEvents
    OBVIOUS
  <2>6. CASE max <= last
    <3>1. n > last => IsNext(r, last, n)
      BY <1>1, <2>1, <2>2, <2>3, <2>6 DEF IsNext
    <3>2. \A w \in s.waitForNextDataEvents : w > last => w \notin held
      <4>1. SUFFICES ASSUME NEW w \in s.waitForNextDataEvents, w > last, w \in held PROVE FALSE
        OBVIOUS
      <4>2. w \in Int
        BY <1>1 DEF CapsuleForwardingStates, WaitIds
      <4>3. w <= max
        BY <1>5, <4>1
      <4> QED
        BY <1>1, <2>1, <2>6, <4>1, <4>2, <4>3
    <3>3. \A w \in r.waitForNextDataEvents : w > last =>
             w \in s.waitForNextDataEvents \/ IsNext(r, last, w)
      BY <2>4, <3>1
    <3>4. \A w \in s.waitForNextDataEvents : w > last /\ w \notin Skipped(s) =>
             w \in r.waitForNextDataEvents /\ w \notin Skipped(r)
      BY <1>3, <2>5, <3>2
    <3> QED
      BY <3>3, <3>4, AheadStays
  <2>7. CASE max > last
    <3>1. IsNext(s, last, max)
      BY <1>2, <2>1, <2>7 DEF Ahead
    <3>2. IsNext(r, last, n)
      <4>1. n \in (last + 1)..(MaxDataId + 1) /\ n \notin Skipped(r)
        BY <1>1, <2>1, <2>2, <2>7 DEF IsNext
      <4>2. ASSUME NEW m \in (last + 1)..(n - 1) PROVE m \in Skipped(r)
        <5>1. CASE m < max
          BY <1>1, <2>1, <3>1, <5>1 DEF IsNext
        <5>2. CASE m = max
          BY <1>2, <2>1, <5>2
        <5>3. CASE m > max
          BY <1>1, <2>1, <2>2, <2>3, <5>3 DEF IsNext
        <5> QED
          BY <1>1, <2>1, <5>1, <5>2, <5>3
      <4> QED
        BY <4>1, <4>2 DEF IsNext
    <3>3. \A w \in s.waitForNextDataEvents : w > last => w = max
      <4> SUFFICES ASSUME NEW w \in s.waitForNextDataEvents, w > last PROVE w = max
        OBVIOUS
      <4>1. IsNext(s, last, w)
        BY DEF Ahead
      <4> QED
        BY <1>1, <3>1, <4>1, NextUnique
    <3>4. \A w \in r.waitForNextDataEvents : w > last => IsNext(r, last, w)
      BY <2>1, <2>4, <3>2, <3>3
    <3>5. ComputeNextDataId(r, last) = n
      BY <1>1, <3>2, NextIs
    <3> QED
      BY <2>3, <3>4, <3>5 DEF Ahead
  <2> QED
    BY <1>1, <2>1, <2>6, <2>7
<1> QED
  BY <1>4, <1>5

\* onReceiveReport keeps the tables sound, whatever ids it names.
LEMMA OnReceiveReportSound ==
  ASSUME RetransControlAssumption,
         NEW s \in CapsuleForwardingStates, s.out = {},
         NEW uid \in ReportUIDs, NEW ids \in SUBSET DataIds, NEW known \in BOOLEAN,
         Sound(s), Ahead(s)
  PROVE  /\ Sound(OnReceiveReport(s, uid, ids, known))
         /\ Ahead(OnReceiveReport(s, uid, ids, known))
         /\ NoGap(s, OnReceiveReport(s, uid, ids, known))
<1> DEFINE r1   == [s EXCEPT !.recentDataRetransReportUIDs = @ \cup {uid}]
           r2   == ScheduleWaitToRequestM(r1, ids \ s.lostDataIdsFromPrevRouters, known)
           lost == s.lostDataIdsFromPrevRouters \cup ids
           held == lost \cap s.waitForNextDataEvents
           max  == CHOOSE m \in held : \A h \in held : h <= m
           a    == [r2 EXCEPT !.lostDataIdsFromPrevRouters = lost]
           r3   == EndWaits(a, held)
           r4   == CleanRetranMEvents(r3, lost)
           n    == ComputeNextDataId(r4, max)
           c    == WaitForNextCapsule(r4, n)
           r5   == IF held = {} THEN r4 ELSE c
           msg  == Report(uid, ids, s.preferredDownPathId)
           t    == [r5 EXCEPT !.out = @ \cup {msg}]
<1>1. lost \in SUBSET DataIds /\ held \in SUBSET DataIds
  BY DEF CapsuleForwardingStates
<1>2. held # {} => max \in held /\ max \in DataIds /\ \A h \in held : h <= max
  <2>1. SUFFICES ASSUME held # {} PROVE max \in held /\ \A h \in held : h <= max
    BY <1>1
  <2>2. held \in SUBSET (0..MaxDataId) /\ MaxDataId \in Nat
    BY <1>1 DEF DataIds, RetransControlAssumption
  <2> HIDE DEF held
  <2>3. \E m \in held : \A h \in held : h <= m
    BY <2>1, <2>2, GreatestExists
  <2> QED BY <2>3
<1>3. r1 \in CapsuleForwardingStates /\ SameTables(s, r1)
  BY DEF CapsuleForwardingStates, SameTables, SameIds, SameWaits, SameChains, SameBatches,
         SameReports
<1>4. lost = s.lostDataIdsFromPrevRouters \cup ids /\ held = lost \cap s.waitForNextDataEvents
  OBVIOUS
<1> HIDE DEF lost, held, max, r1
<1>5. /\ r2 \in CapsuleForwardingStates
      /\ SameIds(r1, r2) /\ SameWaits(r1, r2) /\ SameChains(r1, r2) /\ SameBatches(r1, r2)
      /\ \/ SameReports(r1, r2)
         \/ \E w : /\ w.ids = ids \ s.lostDataIdsFromPrevRouters
                   /\ r2.WaitForRetransInBatchEvents = r1.WaitForRetransInBatchEvents \cup {w}
  <2> DEFINE fresh == ids \ s.lostDataIdsFromPrevRouters
             q     == ScheduleWaitToRequestM(r1, fresh, known)
  <2>1. fresh \in SUBSET DataIds
    OBVIOUS
  <2>2. q = r2
    OBVIOUS
  <2> HIDE DEF fresh, r2
  <2>3. q \in CapsuleForwardingStates
    BY <1>3, <2>1, ScheduleWaitToRequestMSilent DEF Silent
  <2>4. /\ SameIds(r1, q) /\ SameWaits(r1, q) /\ SameChains(r1, q) /\ SameBatches(r1, q)
        /\ \/ SameReports(r1, q)
           \/ \E w : /\ w.ids = fresh
                     /\ q.WaitForRetransInBatchEvents = r1.WaitForRetransInBatchEvents \cup {w}
    BY <1>3, ScheduleWaitToRequestMEffect
  <2> QED
    BY <2>2, <2>3, <2>4 DEF fresh
<1> HIDE DEF r2
<1>6. a \in CapsuleForwardingStates
  BY <1>1, <1>5 DEF CapsuleForwardingStates
<1>7. /\ a.lostDataIdsFromPrevRouters = lost
      /\ a.lastDataId = r2.lastDataId /\ a.transmittedDataIds = r2.transmittedDataIds
      /\ SameWaits(r2, a) /\ SameChains(r2, a) /\ SameBatches(r2, a) /\ SameReports(r2, a)
  BY <1>5 DEF CapsuleForwardingStates, SameWaits, SameChains, SameBatches, SameReports
<1> HIDE DEF a
<1>8. /\ SameIds(a, r3) /\ SameBatches(a, r3) /\ SameReports(a, r3)
      /\ r3 \in CapsuleForwardingStates
      /\ r3.waitForNextDataEvents = a.waitForNextDataEvents \ held
  BY <1>6, EndWaitsEffect
<1>9. ChainsListed(a) => ChainsListed(r3)
  BY <1>6, EndWaitsSound
<1> HIDE DEF r3
<1>10. r4 \in CapsuleForwardingStates
  BY <1>8, CleanRetranMEventsSilent DEF Silent
<1>11. /\ SameIds(r3, r4) /\ SameWaits(r3, r4) /\ SameChains(r3, r4) /\ SameReports(r3, r4)
       /\ r4.curRetransInBatchID = r3.curRetransInBatchID
       /\ r4.retransInBatchEvents =
            {b \in {Without(e, lost) : e \in r3.retransInBatchEvents} : b.ids # {}}
       /\ r4.batchTimers \subseteq r3.batchTimers
       /\ \A u \in r4.batchTimers : \A e \in r3.retransInBatchEvents :
             e.rbi = u.rbi => Without(e, lost) \in r4.retransInBatchEvents
  BY <1>8, CleanRetranMEventsEffect
<1> HIDE DEF r4
<1>12. /\ r3.retransInBatchEvents = s.retransInBatchEvents
       /\ r3.batchTimers = s.batchTimers
       /\ r3.curRetransInBatchID = s.curRetransInBatchID
  BY <1>3, <1>5, <1>7, <1>8 DEF SameTables, SameBatches
<1>13. /\ r4.lastDataId = s.lastDataId
       /\ r4.transmittedDataIds = s.transmittedDataIds
       /\ r4.lostDataIdsFromPrevRouters = lost
  BY <1>3, <1>5, <1>7, <1>8, <1>11 DEF SameTables, SameIds
<1>14. r4.waitForNextDataEvents = s.waitForNextDataEvents \ held
  BY <1>3, <1>5, <1>7, <1>8, <1>11 DEF SameTables, SameWaits
<1>15. ChainsListed(r4)
  <2>1. SameWaits(s, a) /\ SameChains(s, a)
    BY <1>3, <1>5, <1>7 DEF SameTables, SameWaits, SameChains
  <2>2. ChainsListed(a)
    BY <2>1 DEF Sound, ChainsListed, SameWaits, SameChains
  <2> QED
    BY <1>9, <1>11, <2>2 DEF ChainsListed, SameWaits, SameChains
<1>16. RoundsListed(r4)
  <2>1. \A e : Without(e, lost).rbi = e.rbi
    BY DEF Without
  <2>2. ASSUME NEW b \in r4.retransInBatchEvents PROVE b.rbi < r4.curRetransInBatchID
    <3>1. PICK e \in s.retransInBatchEvents : b = Without(e, lost)
      BY <1>11, <1>12
    <3>2. b.rbi = e.rbi
      BY <2>1, <3>1
    <3>3. e.rbi < s.curRetransInBatchID
      BY DEF Sound, RoundsListed
    <3> QED
      BY <1>11, <1>12, <3>2, <3>3
  <2>3. ASSUME NEW u \in r4.batchTimers
        PROVE  /\ \E b \in r4.retransInBatchEvents : b.rbi = u.rbi
               /\ \A v \in r4.batchTimers : v.rbi = u.rbi => v = u
    <3>1. u \in s.batchTimers /\ r4.batchTimers \subseteq s.batchTimers
      BY <1>11, <1>12
    <3>2. PICK e \in s.retransInBatchEvents : e.rbi = u.rbi
      BY <3>1 DEF Sound, RoundsListed
    <3>3. Without(e, lost) \in r4.retransInBatchEvents
      BY <1>11, <1>12, <3>2
    <3>4. Without(e, lost).rbi = u.rbi
      BY <2>1, <3>2
    <3>5. \A v \in s.batchTimers : v.rbi = u.rbi => v = u
      BY <3>1 DEF Sound, RoundsListed
    <3> QED
      BY <3>1, <3>3, <3>4, <3>5
  <2> QED
    BY <2>2, <2>3 DEF RoundsListed
<1>17. Booked(r4) /\ NoGap(s, r4)
  <2>1. \/ SameReports(s, r4)
        \/ \E w : /\ w.ids = ids \ s.lostDataIdsFromPrevRouters
                  /\ r4.WaitForRetransInBatchEvents = s.WaitForRetransInBatchEvents \cup {w}
    BY <1>3, <1>5, <1>7, <1>8, <1>11 DEF SameTables, SameReports
  <2>2. r4.retransInBatchEvents =
          {b \in {Without(e, lost) : e \in s.retransInBatchEvents} : b.ids # {}}
    BY <1>11, <1>12
  <2>3. /\ held = (s.lostDataIdsFromPrevRouters \cup ids) \cap s.waitForNextDataEvents
        /\ r4.lostDataIdsFromPrevRouters = s.lostDataIdsFromPrevRouters \cup ids
        /\ r4.retransInBatchEvents =
             {b \in {Without(e, s.lostDataIdsFromPrevRouters \cup ids) : e \in s.retransInBatchEvents} :
                b.ids # {}}
    BY <1>4, <1>13, <2>2
  <2> HIDE DEF n, c, r5, msg, t
  <2> QED
    BY <1>10, <1>13, <1>14, <2>1, <2>3, ReportedSound
<1>18. Sound(r4)
  BY <1>15, <1>16, <1>17 DEF Sound, Exclusive
<1>19. Sound(c) /\ NoGap(r4, c)
  BY <1>10, <1>18, WaitForNextCapsuleSound
<1>20. SameIds(r4, c) /\ c.waitForNextDataEvents = r4.waitForNextDataEvents \cup {n}
  BY <1>10, WaitForNextCapsuleEffect
<1>21. held # {} => n \in WaitIds
  BY <1>2, <1>10, ComputeNextDataIdType DEF RetransControlAssumption
<1>22. held # {} => c \in CapsuleForwardingStates
  BY <1>10, <1>21, WaitForNextCapsuleSilent DEF Silent
<1>23. held # {} => ComputeNextDataId(c, max) = n
  <2>1. SUFFICES ASSUME held # {} PROVE ComputeNextDataId(c, max) = n
    OBVIOUS
  <2>2. IsNext(r4, max, n)
    BY <1>2, <1>10, <2>1, NextFound
  <2>3. Skipped(c) = Skipped(r4)
    BY <1>20 DEF Skipped, SameIds
  <2> HIDE DEF n, c
  <2>4. IsNext(c, max, n)
    BY <2>2, <2>3 DEF IsNext
  <2> QED
    BY <1>2, <1>22, <2>1, <2>4, NextIs
<1> HIDE DEF n, c
<1>24. r5 \in CapsuleForwardingStates
  BY <1>10, <1>22
<1>25. Sound(r5) /\ NoGap(s, r5)
  BY <1>17, <1>18, <1>19, NoGapTransitive
<1>26. r5.lastDataId = s.lastDataId /\ Skipped(r5) = Skipped(s) \cup ids
  BY <1>4, <1>13, <1>20 DEF SameIds, Skipped
<1>27. r5.waitForNextDataEvents =
         (s.waitForNextDataEvents \ held)
           \cup (IF held = {} THEN {} ELSE {ComputeNextDataId(r5, max)})
  BY <1>14, <1>20, <1>23
<1> HIDE DEF r5
<1>28. Ahead(r5)
  BY <1>2, <1>4, <1>24, <1>26, <1>27, ReportedAhead
<1>29. SameTables(r5, t)
  BY <1>24, SendEffect
<1>30. t \in CapsuleForwardingStates
  <2>1. ids \in SUBSET WaitIds
    BY DEF DataIds, WaitIds, RetransControlAssumption
  <2>2. s.preferredDownPathId \in DownPaths
    BY DEF CapsuleForwardingStates
  <2>3. {msg} \in SUBSET Messages
    BY <2>1, <2>2, MessageTypes
  <2> HIDE DEF msg
  <2> QED BY <1>24, <2>3 DEF CapsuleForwardingStates
<1> HIDE DEF t
<1>31. Sound(t) /\ NoGap(s, t)
  BY <1>25, <1>29, SameTablesSound, NoGapTransitive
<1>32. Ahead(t)
  BY <1>24, <1>28, <1>29, <1>30, AheadSame DEF SameTables, SameWaits
<1>33. NoGap(s, s)
  BY NoGapReflexive
<1>34. OnReceiveReport(s, uid, ids, known) \in {s, r5, t}
  BY DEF OnReceiveReport, r1, r2, lost, held, max, a, r3, r4, n, c, r5, t, msg, EndWaits
<1> QED BY <1>25, <1>28, <1>31, <1>32, <1>33, <1>34

-------------------------------------------------------------------------------
(***************************************************************************)
(* The invariant of the tables, and its theorems.                          *)
(***************************************************************************)
TablesInv == Sound(ds) /\ Ahead(ds) /\ NoSilentGap

\* Committing what a handler left keeps the tables sound.
LEMMA CommitTables ==
  ASSUME RetransControlAssumption, NEW r \in CapsuleForwardingStates, Commit(r),
         Sound(r), Ahead(r), Unaccounted(r) \subseteq overlooked'
  PROVE  TablesInv'
<1> DEFINE t == [r EXCEPT !.out = {}]
<1>1. t \in CapsuleForwardingStates /\ SameTables(r, t)
  BY SendEffect DEF CapsuleForwardingStates
<1>2. ds' = t
  BY DEF Commit
<1> HIDE DEF t
<1>3. Sound(t) /\ NoGap(r, t)
  BY <1>1, SameTablesSound
<1>4. Ahead(t)
  BY <1>1, AheadSame DEF SameTables, SameWaits
<1>5. Sound(ds') /\ Ahead(ds') /\ NoGap(r, ds')
  BY <1>2, <1>3, <1>4
<1>6. Unaccounted(ds') \subseteq overlooked'
  BY <1>5 DEF NoGap
<1>7. (Sound(ds))' /\ (Ahead(ds))' /\ NoSilentGap'
  BY <1>5, <1>6 DEF NoSilentGap
<1> QED
  BY <1>7 DEF TablesInv

\* Committing what a handler left without a gap of its own.
LEMMA CommitGapless ==
  ASSUME RetransControlAssumption, TablesInv, NEW r, NEW names, Handled(ds, r, names), Commit(r),
         Sound(r), Ahead(r), NoGap(ds, r), UNCHANGED overlooked
  PROVE  TablesInv'
<1>1. Unaccounted(r) \subseteq overlooked'
  BY DEF TablesInv, NoSilentGap, NoGap
<1>2. r \in CapsuleForwardingStates
  BY DEF Handled
<1> QED
  BY <1>1, <1>2, CommitTables

\* A fresh router has empty tables.
LEMMA InitTables == ASSUME RetransControlAssumption, Init PROVE TablesInv
<1>1. PICK st \in DownStates : ds = NewCapsuleForwardingStates(st[1], st[2])
  BY DEF Init
<1>2. /\ ds.lastDataId = 0
      /\ ds.waitForNextDataEvents = {} /\ ds.waitTimers = {}
      /\ ds.singleTimers = {}
      /\ ds.retransInBatchEvents = {} /\ ds.batchTimers = {}
      /\ ds.WaitForRetransInBatchEvents = {}
      /\ ds.lostDataIdsFromPrevRouters = {}
  BY <1>1 DEF NewCapsuleForwardingStates
<1>3. ChainsListed(ds) /\ RoundsListed(ds) /\ Booked(ds) /\ Exclusive(ds)
  BY <1>2 DEF ChainsListed, RoundsListed, Booked, Exclusive
<1>4. Ahead(ds)
  BY <1>2 DEF Ahead
<1>5. Unaccounted(ds) = {}
  BY <1>2 DEF Unaccounted
<1> QED
  BY <1>3, <1>4, <1>5 DEF TablesInv, Sound, NoSilentGap

\* Every step keeps the tables sound.
LEMMA NextTables == ASSUME RetransControlAssumption, Inv, TablesInv, [Next]_vars PROVE TablesInv'
<1>1. ds \in CapsuleForwardingStates /\ ds.out = {}
  BY DEF Inv, TypeOK
<1>2. \A m \in requested :
        /\ m.type = "RequestS" => m.id \in WaitIds
        /\ m.type = "RequestM" => m.rbi \in Nat
  BY DEF Inv, TypeOK, Messages
<1>3. Sound(ds) /\ Ahead(ds)
  BY DEF TablesInv
<1>4. ASSUME NEW d \in DataIds, ReceiveCapsule(d) PROVE TablesInv'
  <2> DEFINE s == InsertInCs(ds, d)
             r == OnReceiveCapsule(s, d)
  <2>1. /\ s \in CapsuleForwardingStates
        /\ s.out = {}
        /\ s.transmittedDataIds = ds.transmittedDataIds
    BY <1>1 DEF InsertInCs, CapsuleForwardingStates
  <2>2. SameTables(ds, s)
    BY <1>1, InsertInCsEffect
  <2>3. Commit(r) /\ UNCHANGED overlooked
    BY <1>4 DEF ReceiveCapsule
  <2> HIDE DEF s
  <2>4. Sound(s) /\ NoGap(ds, s)
    BY <1>3, <2>2, SameTablesSound
  <2>5. Ahead(s)
    BY <1>1, <1>3, <2>1, <2>2, AheadSame DEF SameTables, SameWaits
  <2>6. Handled(s, r, {})
    BY <2>1, OnReceiveCapsuleHandled
  <2>7. Sound(r) /\ Ahead(r) /\ NoGap(s, r)
    BY <2>1, <2>4, <2>5, OnReceiveCapsuleSound
  <2> HIDE DEF r
  <2>8. Handled(ds, r, {})
    BY <2>1, <2>6 DEF Handled
  <2>9. NoGap(ds, r)
    BY <2>4, <2>7, NoGapTransitive
  <2> QED BY <2>3, <2>7, <2>8, <2>9, CommitGapless
<1>5. ASSUME NEW d \in DataIds, ReceiveCapsuleOnRsp(d) PROVE TablesInv'
  <2> DEFINE r == OnReceiveCapsule(ds, d)
  <2>1. Handled(ds, r, {})
    BY <1>1, OnReceiveCapsuleHandled
  <2>2. Sound(r) /\ Ahead(r) /\ NoGap(ds, r)
    BY <1>1, <1>3, OnReceiveCapsuleSound
  <2>3. Commit(r) /\ UNCHANGED overlooked
    BY <1>5 DEF ReceiveCapsuleOnRsp
  <2> HIDE DEF r
  <2> QED BY <2>1, <2>2, <2>3, CommitGapless
<1>6. ASSUME NEW q \in requested, NEW d \in DataIds, ReceiveRetranS(q, d) PROVE TablesInv'
  <2> DEFINE r == OnReceiveRetranS(ds, d, q.id)
  <2>1. q.id \in WaitIds /\ q.id <= d
    BY <1>2, <1>6 DEF ReceiveRetranS
  <2>2. Handled(ds, r, {q.id})
    BY <1>1, <2>1, OnReceiveRetranSHandled
  <2>3. Sound(r) /\ Ahead(r)
    BY <1>1, <1>3, <2>1, OnReceiveRetranSSound
  <2>4. Commit(r) /\ overlooked' = overlooked \cup Unaccounted(r)
    BY <1>6 DEF ReceiveRetranS
  <2> HIDE DEF r
  <2> QED BY <2>2, <2>3, <2>4, CommitTables DEF Handled
<1>7. ASSUME NEW q \in requested, ReceiveRetranSMiss(q) PROVE TablesInv'
  <2> DEFINE r == OnRetranSMiss(ds)
  <2>1. Handled(ds, r, {})
    BY <1>1, OnRetranSMissHandled
  <2>2. Sound(r) /\ Ahead(r) /\ NoGap(ds, r)
    BY <1>1, <1>3, OnRetranSMissSound
  <2>3. Commit(r) /\ UNCHANGED overlooked
    BY <1>7 DEF ReceiveRetranSMiss
  <2> HIDE DEF r
  <2> QED BY <2>1, <2>2, <2>3, CommitGapless
<1>8. ASSUME NEW q \in requested, NEW d \in DataIds, ReceiveRetranM(q, d) PROVE TablesInv'
  <2> DEFINE r == OnReceiveRetranM(ds, q.rbi, d)
  <2>1. q.rbi \in Nat
    BY <1>2, <1>8 DEF ReceiveRetranM
  <2>2. Handled(ds, r, {})
    BY <1>1, <2>1, OnReceiveRetranMHandled
  <2>3. Sound(r) /\ Ahead(r)
    BY <1>1, <1>3, <2>1, OnReceiveRetranMSound
  <2>4. Commit(r) /\ overlooked' = overlooked \cup Unaccounted(r)
    BY <1>8 DEF ReceiveRetranM
  <2> HIDE DEF r
  <2> QED BY <2>2, <2>3, <2>4, CommitTables DEF Handled
<1>9. ASSUME NEW uid \in ReportUIDs, NEW ids \in SUBSET DataIds \ {{}},
             NEW known \in KnownSource, ReceiveReport(uid, ids, known)
      PROVE  TablesInv'
  <2> DEFINE r == OnReceiveReport(ds, uid, ids, known)
  <2>1. known \in BOOLEAN
    BY DEF RetransControlAssumption
  <2>2. Handled(ds, r, {})
    BY <1>1, <2>1, OnReceiveReportHandled
  <2>3. Sound(r) /\ Ahead(r) /\ NoGap(ds, r)
    BY <1>1, <1>3, <2>1, OnReceiveReportSound
  <2>4. Commit(r) /\ UNCHANGED overlooked
    BY <1>9 DEF ReceiveReport
  <2> HIDE DEF r
  <2> QED BY <2>2, <2>3, <2>4, CommitGapless
<1>10. ASSUME NEW st \in DownStates, SwitchDownPath(st) PROVE TablesInv'
  <2> DEFINE r == [ds EXCEPT !.preferredDownPathId = st[1], !.isDownPathInRspState = st[2]]
  <2>1. st[1] \in DownPaths /\ st[2] \in BOOLEAN
    BY DEF RetransControlAssumption
  <2>2. r \in CapsuleForwardingStates /\ SameTables(ds, r)
    BY <1>1, <2>1 DEF CapsuleForwardingStates, SameTables, SameIds, SameWaits, SameChains,
                      SameBatches, SameReports
  <2>3. ds' = r /\ overlooked' = overlooked
    BY <1>10 DEF SwitchDownPath
  <2> HIDE DEF r
  <2>4. Sound(r) /\ NoGap(ds, r)
    BY <1>3, <2>2, SameTablesSound
  <2>5. Ahead(r)
    BY <1>1, <1>3, <2>2, AheadSame DEF SameTables, SameWaits
  <2>6. Unaccounted(r) \subseteq overlooked
    BY <2>4 DEF TablesInv, NoSilentGap, NoGap
  <2>7. Sound(ds') /\ Ahead(ds') /\ Unaccounted(ds') \subseteq overlooked'
    BY <2>3, <2>4, <2>5, <2>6
  <2> QED BY <2>7 DEF TablesInv, NoSilentGap
<1>11. ASSUME NEW d \in DataIds, WaitTimeout(d) PROVE TablesInv'
  <2> DEFINE r == WaitForNextCapsuleDelayedTask(ds, d)
  <2>1. Handled(ds, r, {})
    BY <1>1, WaitTimeoutHandled
  <2>2. Sound(r) /\ Ahead(r) /\ NoGap(ds, r)
    BY <1>1, <1>3, <1>11, WaitTimeoutSound DEF WaitTimeout
  <2>3. Commit(r) /\ UNCHANGED overlooked
    BY <1>11 DEF WaitTimeout
  <2> HIDE DEF r
  <2> QED BY <2>1, <2>2, <2>3, CommitGapless
<1>12. ASSUME NEW t \in ds.singleTimers, SingleTimeout(t) PROVE TablesInv'
  <2> DEFINE r == RetransSingleTimeout(ds, t)
  <2>1. Handled(ds, r, {})
    BY <1>1, SingleTimeoutHandled
  <2>2. Sound(r) /\ Ahead(r) /\ NoGap(ds, r)
    BY <1>1, <1>3, SingleTimeoutSound
  <2>3. Commit(r) /\ UNCHANGED overlooked
    BY <1>12 DEF SingleTimeout
  <2> HIDE DEF r
  <2> QED BY <2>1, <2>2, <2>3, CommitGapless
<1>13. ASSUME NEW t \in ds.batchTimers, BatchTimeout(t) PROVE TablesInv'
  <2> DEFINE r == RetransBatchTimeout(ds, t)
  <2>1. Handled(ds, r, {})
    BY <1>1, BatchTimeoutHandled
  <2>2. Sound(r) /\ NoGap(ds, r) /\ SameIds(ds, r) /\ SameWaits(ds, r)
    BY <1>1, <1>3, BatchTimeoutSound
  <2>3. Commit(r) /\ UNCHANGED overlooked
    BY <1>13 DEF BatchTimeout
  <2> HIDE DEF r
  <2>4. Ahead(r)
    BY <1>1, <1>3, <2>1, <2>2, AheadSame DEF Handled, SameWaits
  <2> QED BY <2>1, <2>2, <2>3, <2>4, CommitGapless
<1>14. ASSUME NEW w \in ds.WaitForRetransInBatchEvents, ReportTimeout(w) PROVE TablesInv'
  <2> DEFINE r == WaitToRequestM(ds, w)
  <2>1. Handled(ds, r, {})
    BY <1>1, ReportTimeoutHandled
  <2>2. Sound(r) /\ NoGap(ds, r) /\ SameIds(ds, r) /\ SameWaits(ds, r)
    BY <1>1, <1>3, ReportTimeoutSound
  <2>3. Commit(r) /\ UNCHANGED overlooked
    BY <1>14 DEF ReportTimeout
  <2> HIDE DEF r
  <2>4. Ahead(r)
    BY <1>1, <1>3, <2>1, <2>2, AheadSame DEF Handled, SameWaits
  <2> QED BY <2>1, <2>2, <2>3, <2>4, CommitGapless
<1>15. CASE UNCHANGED vars
  <2>1. ds' = ds /\ overlooked' = overlooked
    BY <1>15 DEF vars
  <2>2. Sound(ds') /\ Ahead(ds') /\ Unaccounted(ds') \subseteq overlooked'
    BY <2>1 DEF TablesInv, NoSilentGap
  <2> QED BY <2>2 DEF TablesInv, NoSilentGap
<1> QED
  BY <1>4, <1>5, <1>6, <1>7, <1>8, <1>9, <1>10, <1>11, <1>12, <1>13, <1>14, <1>15
  DEF Next, Timers, Deliveries

\* The tables are sound after any mix of capsules, answers, reports and timers.
THEOREM TablesInvariance == Spec => []TablesInv
<1>1. Init => TablesInv
  BY RetransControlAssumption, InitTables
<1>2. Inv /\ TablesInv /\ [Next]_vars => TablesInv'
  BY RetransControlAssumption, NextTables
<1> QED BY <1>1, <1>2, Invariance, PTL DEF Spec

\* A queued RequestS chain or RequestM round can always be found and stopped: it
\* has its table entry and is the only one of its capsule and path, or of its
\* batch (retransInSingleEvents and retransInBatchEvents beside the event queue).
THEOREM TracksRequests == Spec => []RequestsTracked
<1>1. TablesInv => RequestsTracked
  <2>1. ChainsListed(ds) => SingleChain
    BY DEF ChainsListed, SingleChain
  <2>2. RoundsListed(ds) => BatchTracked
    BY DEF RoundsListed, BatchTracked
  <2> QED BY <2>1, <2>2 DEF TablesInv, Sound, RequestsTracked
<1> QED BY <1>1, TablesInvariance, PTL

\* Losses are detected soundly however reports, answers and timers mix: no
\* capsule is skipped unless an answer jumped over it, none is in two batches,
\* and the next one is awaited (lastDataId, the gap of discoverLostCapsules,
\* computeNextDataId and waitForNextCapsule).
THEOREM DetectsSoundly == Spec => []DetectionSound
<1>1. TablesInv => DetectionSound
  <2>1. Booked(ds) => BatchesDisjoint
    BY DEF Booked, BatchesDisjoint
  <2>2. Ahead(ds) => NextAwaited
    BY DEF Ahead, NextAwaited
  <2> QED BY <2>1, <2>2 DEF TablesInv, Sound, DetectionSound
<1> QED BY <1>1, TablesInvariance, PTL

\* At the first hop of a subgraph, where no upstream router reports losses, a
\* capsule is never asked for by a RequestS chain and by a batch at once.
THEOREM FirstHopExclusive == ReportUIDs = {} => (Spec => []ExclusiveRetransmission)
<1>1. ReportUIDs = {} /\ TablesInv => ExclusiveRetransmission
  <2> SUFFICES ASSUME ReportUIDs = {}, TablesInv,
                      NEW t \in ds.singleTimers, NEW u \in ds.batchTimers,
                      NEW b \in ds.retransInBatchEvents, b.rbi = u.rbi, t.id \in b.ids
               PROVE  FALSE
    BY DEF ExclusiveRetransmission
  <2> QED BY DEF TablesInv, Sound, Exclusive
<1>2. SUFFICES ASSUME ReportUIDs = {} PROVE Spec => []ExclusiveRetransmission
  OBVIOUS
<1>3. TablesInv => ExclusiveRetransmission
  BY <1>1, <1>2
<1> QED BY <1>3, TablesInvariance, PTL
===============================================================================
