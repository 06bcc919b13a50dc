--------------------------- MODULE DrtpChainProofs ----------------------------
(***************************************************************************)
(* The chain of DRTP routers implements StreamDelivery, for every length,   *)
(* every number of capsules, requests and losses and every RSG: Delivers.   *)
(*                                                                          *)
(* First the handlers of one router: most operators of LltcRouter are quiet, *)
(* they neither mark a capsule as transmitted, nor put one into the store,   *)
(* nor send one; a handler that is not quiet does so for the capsule it was  *)
(* given, and only if the router had not transmitted it.  Then the chain:    *)
(* what is under way or in a store was published, and what the subscriber    *)
(* got is marked at the last router.                                         *)
(***************************************************************************)
EXTENDS DrtpChain, FiniteSetTheorems, TLAPS

-------------------------------------------------------------------------------
(* Finite sets and sequences.  *)

\* The values of a function on a finite set.
LEMMA ValuesFinite ==
  ASSUME NEW S, IsFiniteSet(S), NEW f
  PROVE  IsFiniteSet({f[x] : x \in S})
<1> DEFINE T == {f[x] : x \in S}
           g == [x \in S |-> f[x]]
<1>1. g \in Surjection(S, T)
  BY DEF Surjection
<1> HIDE DEF g, T
<1> QED
  BY <1>1, FS_Surjection DEF T

-------------------------------------------------------------------------------
(* One router: the operators that neither mark, store nor send a capsule.  *)

Carries == {"Capsule", "RetranS", "RetranM"}

\* A message without a capsule.
Plain(m) == "type" \in DOMAIN m /\ m.type \notin Carries

\* A record with the fields the chain depends on.
IsState(s) == {"transmittedDataIds", "localCs", "out"} \subseteq DOMAIN s

\* From s to t no capsule is marked, stored or sent.
Quiet(s, t) ==
  /\ IsState(t)
  /\ t.transmittedDataIds = s.transmittedDataIds
  /\ t.localCs = s.localCs
  /\ s.out \subseteq t.out
  /\ IsFiniteSet(t.out \ s.out)
  /\ \A m \in t.out \ s.out : Plain(m)

\* Doing nothing is quiet.
LEMMA QuietReflexive ==
  ASSUME NEW s, IsState(s)
  PROVE  Quiet(s, s)
<1>1. s.out \ s.out = {}
  OBVIOUS
<1> QED
  BY <1>1, FS_EmptySet DEF Quiet

\* A change of other fields.
LEMMA QuietOthers ==
  ASSUME NEW s, NEW t, IsState(t), t.transmittedDataIds = s.transmittedDataIds,
         t.localCs = s.localCs, t.out = s.out
  PROVE  Quiet(s, t)
<1>1. t.out \ s.out = {}
  OBVIOUS
<1> QED
  BY <1>1, FS_EmptySet DEF Quiet

\* Messages without a capsule are handed over.
LEMMA QuietSends ==
  ASSUME NEW s, NEW t, NEW M, IsState(t), t.transmittedDataIds = s.transmittedDataIds,
         t.localCs = s.localCs, t.out = s.out \cup M, IsFiniteSet(M), \A m \in M : Plain(m)
  PROVE  Quiet(s, t)
<1>1. t.out \ s.out \subseteq M
  OBVIOUS
<1>2. IsFiniteSet(t.out \ s.out)
  BY <1>1, FS_Subset
<1> QED
  BY <1>1, <1>2 DEF Quiet

\* Quiet steps compose.
LEMMA QuietTransitive ==
  ASSUME NEW s, NEW t, NEW u, Quiet(s, t), Quiet(t, u)
  PROVE  Quiet(s, u)
<1>1. u.out \ s.out \subseteq (t.out \ s.out) \cup (u.out \ t.out)
  OBVIOUS
<1>2. IsFiniteSet((t.out \ s.out) \cup (u.out \ t.out))
  BY FS_Union DEF Quiet
<1>3. IsFiniteSet(u.out \ s.out)
  BY <1>1, <1>2, FS_Subset
<1> QED
  BY <1>1, <1>3 DEF Quiet

\* A report carries no capsule, sent or not for want of a FIB entry.
LEMMA SendReportQuiet ==
  ASSUME NEW r, NEW s, IsState(s), NEW ids, NEW path1, NEW path2
  PROVE  Quiet(s, Router(r)!SendReport(s, ids, path1, path2))
<1> DEFINE m == Router(r)!Report(NewUID, ids, path2)
           t == [s EXCEPT !.out = @ \cup {m}]
<1>1. Plain(m)
  BY DEF Plain, Carries, Router!Report
<1>2. IsFiniteSet({m})
  BY FS_Singleton
<1>3. Quiet(s, t)
  <2> HIDE DEF m
  <2>1. /\ IsState(t) /\ t.transmittedDataIds = s.transmittedDataIds
        /\ t.localCs = s.localCs /\ t.out = s.out \cup {m}
    BY DEF IsState
  <2> HIDE DEF t
  <2> QED
    BY <1>1, <1>2, <2>1, QuietSends
<1>4. Router(r)!SendReport(s, ids, path1, path2) \in {t, s}
  BY DEF Router!SendReport
<1> QED
  BY <1>3, <1>4, QuietReflexive

\* A wait begins.
LEMMA WaitForNextCapsuleQuiet ==
  ASSUME NEW r, NEW s, IsState(s), NEW d
  PROVE  Quiet(s, Router(r)!WaitForNextCapsule(s, d))
<1> DEFINE t == Router(r)!WaitForNextCapsule(s, d)
<1>1. /\ IsState(t) /\ t.transmittedDataIds = s.transmittedDataIds
      /\ t.localCs = s.localCs /\ t.out = s.out
  BY DEF IsState, Router!WaitForNextCapsule
<1> HIDE DEF t
<1> QED
  BY <1>1, QuietOthers DEF t

\* Waits end.
LEMMA CleanWaitForNextEventQuiet ==
  ASSUME NEW r, NEW s, IsState(s), NEW ids
  PROVE  Quiet(s, Router(r)!CleanWaitForNextEvent(s, ids))
<1> DEFINE t == Router(r)!CleanWaitForNextEvent(s, ids)
<1>1. /\ IsState(t) /\ t.transmittedDataIds = s.transmittedDataIds
      /\ t.localCs = s.localCs /\ t.out = s.out
  BY DEF IsState, Router!CleanWaitForNextEvent
<1> HIDE DEF t
<1> QED
  BY <1>1, QuietOthers DEF t

\* Chains of RequestS end.
LEMMA CleanRetranInSingleEventsQuiet ==
  ASSUME NEW r, NEW s, IsState(s), NEW ids
  PROVE  Quiet(s, Router(r)!CleanRetranInSingleEvents(s, ids))
<1> DEFINE t == Router(r)!CleanRetranInSingleEvents(s, ids)
<1>1. /\ IsState(t) /\ t.transmittedDataIds = s.transmittedDataIds
      /\ t.localCs = s.localCs /\ t.out = s.out
  BY DEF IsState, Router!CleanRetranInSingleEvents
<1> HIDE DEF t
<1> QED
  BY <1>1, QuietOthers DEF t

\* A round of a RequestS chain asks or tests links.
LEMMA RequestSRoundQuiet ==
  ASSUME NEW r, NEW s, IsState(s), NEW d, NEW paths, IsFiniteSet(paths), NEW rest
  PROVE  Quiet(s, Router(r)!RequestSRound(s, d, paths, rest))
<1> DEFINE t     == Router(r)!RequestSRound(s, d, paths, rest)
           tests == {Router(r)!LinkTest(p) : p \in paths}
           asks  == {Router(r)!RequestS(d, p) : p \in paths}
<1>1. IsFiniteSet(tests) /\ IsFiniteSet(asks)
  <2> DEFINE f == [p \in paths |-> Router(r)!LinkTest(p)]
             g == [p \in paths |-> Router(r)!RequestS(d, p)]
  <2>1. tests = {f[p] : p \in paths} /\ asks = {g[p] : p \in paths}
    OBVIOUS
  <2> HIDE DEF f, g, tests, asks
  <2> QED
    BY <2>1, ValuesFinite
<1>2. \A m \in tests \cup asks : Plain(m)
  BY DEF Plain, Carries, Router!LinkTest, Router!RequestS
<1>3. /\ IsState(t) /\ t.transmittedDataIds = s.transmittedDataIds
      /\ t.localCs = s.localCs /\ (t.out = s.out \cup tests \/ t.out = s.out \cup asks)
  BY DEF IsState, Router!RequestSRound
<1> HIDE DEF t, tests, asks
<1> QED
  BY <1>1, <1>2, <1>3, QuietSends DEF t

\* A round of a batch asks, gives up or drops the batch.
LEMMA RequestMRoundQuiet ==
  ASSUME NEW r, NEW s, IsState(s), NEW rbi, NEW rest
  PROVE  Quiet(s, Router(r)!RequestMRound(s, rbi, rest))
<1> DEFINE t    == Router(r)!RequestMRound(s, rbi, rest)
           ways == IF HasFaceUp(r) THEN {Primary} ELSE {}
           ids  == UNION {b.ids : b \in {b \in s.retransInBatchEvents : b.rbi = rbi}}
           asks == {Router(r)!RequestM(rbi, ids, p) : p \in ways}
<1>1. IsFiniteSet(asks)
  <2>1. IsFiniteSet(ways)
    BY FS_Singleton, FS_EmptySet
  <2> HIDE DEF ways, ids
  <2> DEFINE f == [p \in ways |-> Router(r)!RequestM(rbi, ids, p)]
  <2>2. asks = {f[p] : p \in ways}
    OBVIOUS
  <2> HIDE DEF f, asks
  <2> QED
    BY <2>1, <2>2, ValuesFinite
<1>2. \A m \in asks : Plain(m)
  BY DEF Plain, Carries, Router!RequestM
<1>3. /\ IsState(t) /\ t.transmittedDataIds = s.transmittedDataIds
      /\ t.localCs = s.localCs /\ (t.out = s.out \/ t.out = s.out \cup asks)
  BY DEF IsState, Router!RequestMRound
<1> HIDE DEF t, asks
<1> QED
  BY <1>1, <1>2, <1>3, QuietSends, QuietOthers DEF t

\* A batch is opened.
LEMMA BroadcastRequestMQuiet ==
  ASSUME NEW r, NEW s, IsState(s), NEW ids
  PROVE  Quiet(s, Router(r)!BroadcastRequestM(s, ids))
<1> DEFINE t == [s EXCEPT !.curRetransInBatchID = @ + 1,
                          !.retransInBatchEvents =
                             @ \cup {[rbi |-> s.curRetransInBatchID, ids |-> ids]}]
<1>1. /\ IsState(t) /\ t.transmittedDataIds = s.transmittedDataIds
      /\ t.localCs = s.localCs /\ t.out = s.out
  BY DEF IsState
<1>2. Router(r)!BroadcastRequestM(s, ids) =
        Router(r)!RequestMRound(t, s.curRetransInBatchID, NumRetransRequests)
  BY DEF Router!BroadcastRequestM
<1> HIDE DEF t
<1> QED
  BY <1>1, <1>2, QuietOthers, QuietTransitive, RequestMRoundQuiet

\* An id leaves one batch.
LEMMA CleanRetranMEventsOfBatchQuiet ==
  ASSUME NEW r, NEW s, IsState(s), NEW rbi, NEW d
  PROVE  Quiet(s, Router(r)!CleanRetranMEventsOfBatch(s, rbi, d))
<1> DEFINE t == Router(r)!CleanRetranMEventsOfBatch(s, rbi, d)
<1>1. /\ IsState(t) /\ t.transmittedDataIds = s.transmittedDataIds
      /\ t.localCs = s.localCs /\ t.out = s.out
  BY DEF IsState, Router!CleanRetranMEventsOfBatch
<1> HIDE DEF t
<1> QED
  BY <1>1, QuietOthers DEF t

\* Ids leave every batch.
LEMMA CleanRetranMEventsQuiet ==
  ASSUME NEW r, NEW s, IsState(s), NEW ids
  PROVE  Quiet(s, Router(r)!CleanRetranMEvents(s, ids))
<1> DEFINE t == Router(r)!CleanRetranMEvents(s, ids)
<1>1. /\ IsState(t) /\ t.transmittedDataIds = s.transmittedDataIds
      /\ t.localCs = s.localCs /\ t.out = s.out
  BY DEF IsState, Router!CleanRetranMEvents
<1> HIDE DEF t
<1> QED
  BY <1>1, QuietOthers DEF t

\* An id leaves the waits for other routers.
LEMMA CleanWaitForRequestMEventsQuiet ==
  ASSUME NEW r, NEW s, IsState(s), NEW d
  PROVE  Quiet(s, Router(r)!CleanWaitForRequestMEvents(s, d))
<1> DEFINE t == Router(r)!CleanWaitForRequestMEvents(s, d)
<1>1. /\ IsState(t) /\ t.transmittedDataIds = s.transmittedDataIds
      /\ t.localCs = s.localCs /\ t.out = s.out
  BY DEF IsState, Router!CleanWaitForRequestMEvents
<1> HIDE DEF t
<1> QED
  BY <1>1, QuietOthers DEF t

\* A wait for another router begins.
LEMMA ScheduleWaitToRequestMQuiet ==
  ASSUME NEW r, NEW s, IsState(s), NEW ids, NEW b
  PROVE  Quiet(s, Router(r)!ScheduleWaitToRequestM(s, ids, b))
<1> DEFINE t == Router(r)!ScheduleWaitToRequestM(s, ids, b)
<1>1. /\ IsState(t) /\ t.transmittedDataIds = s.transmittedDataIds
      /\ t.localCs = s.localCs /\ t.out = s.out
  BY DEF IsState, Router!ScheduleWaitToRequestM
<1> HIDE DEF t
<1> QED
  BY <1>1, QuietOthers DEF t

\* A gap is asked for and reported.
LEMMA DiscoverLostCapsulesQuiet ==
  ASSUME NEW r, NEW s, IsState(s), NEW d
  PROVE  Quiet(s, Router(r)!DiscoverLostCapsules(s, d))
<1> DEFINE new == Router(r)!NewLostDataIds(s, d)
           t   == Router(r)!BroadcastRequestM(s, new)
<1>1. Quiet(s, t) /\ IsState(t)
  BY BroadcastRequestMQuiet DEF Quiet
<1>2. \/ Router(r)!DiscoverLostCapsules(s, d) = s
      \/ Router(r)!DiscoverLostCapsules(s, d) =
           Router(r)!SendReport(t, new, rsg, s.preferredDownPathId)
  BY DEF Router!DiscoverLostCapsules
<1> HIDE DEF t, new
<1> QED
  BY <1>1, <1>2, QuietReflexive, QuietTransitive, SendReportQuiet

\* The next capsule after a retransmitted one is waited for.
LEMMA AdvanceToRetransmittedQuiet ==
  ASSUME NEW r, NEW s, IsState(s), NEW d
  PROVE  Quiet(s, Router(r)!AdvanceToRetransmitted(s, d))
<1> DEFINE t == [s EXCEPT !.lastDataId = d]
           n == Router(r)!ComputeNextDataId(t, d)
<1>1. /\ IsState(t) /\ t.transmittedDataIds = s.transmittedDataIds
      /\ t.localCs = s.localCs /\ t.out = s.out
  BY DEF IsState
<1>2. \/ Router(r)!AdvanceToRetransmitted(s, d) = s
      \/ Router(r)!AdvanceToRetransmitted(s, d) = Router(r)!WaitForNextCapsule(t, n)
  BY DEF Router!AdvanceToRetransmitted
<1> HIDE DEF t, n
<1> QED
  BY <1>1, <1>2, QuietOthers, QuietReflexive, QuietTransitive, WaitForNextCapsuleQuiet

\* A report is passed on, and what it reports is waited for no more.
LEMMA OnReceiveReportQuiet ==
  ASSUME NEW r, NEW s, IsState(s), NEW uid, NEW ids, NEW b
  PROVE  Quiet(s, Router(r)!OnReceiveReport(s, uid, ids, b))
<1> DEFINE r1   == [s EXCEPT !.recentDataRetransReportUIDs = @ \cup {uid}]
           r2   == Router(r)!ScheduleWaitToRequestM(r1, ids \ s.lostDataIdsFromPrevRouters, b)
           lost == s.lostDataIdsFromPrevRouters \cup ids
           held == lost \cap s.waitForNextDataEvents
           max  == CHOOSE m \in held : \A h \in held : h <= m
           r2a  == [r2 EXCEPT !.lostDataIdsFromPrevRouters = lost]
           r2b  == Router(r)!CleanWaitForNextEvent(r2a, held)
           r3   == Router(r)!CleanRetranInSingleEvents(r2b, held)
           r4   == Router(r)!CleanRetranMEvents(r3, lost)
           n    == Router(r)!ComputeNextDataId(r4, max)
           r5   == IF held = {} THEN r4 ELSE Router(r)!WaitForNextCapsule(r4, n)
           m    == Router(r)!Report(uid, ids, s.preferredDownPathId)
           r6   == [r5 EXCEPT !.out = @ \cup {m}]
<1>1. \/ Router(r)!OnReceiveReport(s, uid, ids, b) = s
      \/ Router(r)!OnReceiveReport(s, uid, ids, b) = r5
      \/ Router(r)!OnReceiveReport(s, uid, ids, b) = r6
  BY DEF Router!OnReceiveReport
<1>2. Quiet(s, r1) /\ IsState(r1)
  <2>1. /\ IsState(r1) /\ r1.transmittedDataIds = s.transmittedDataIds
        /\ r1.localCs = s.localCs /\ r1.out = s.out
    BY DEF IsState
  <2> HIDE DEF r1
  <2> QED
    BY <2>1, QuietOthers
<1> HIDE DEF r1, lost, held
<1>3. Quiet(s, r2) /\ IsState(r2)
  <2>1. Quiet(r1, r2)
    BY <1>2, ScheduleWaitToRequestMQuiet
  <2> HIDE DEF r2
  <2> QED
    BY <2>1, <1>2, QuietTransitive DEF Quiet
<1> HIDE DEF r2
<1>4. Quiet(s, r2a) /\ IsState(r2a)
  <2>1. /\ IsState(r2a) /\ r2a.transmittedDataIds = r2.transmittedDataIds
        /\ r2a.localCs = r2.localCs /\ r2a.out = r2.out
    BY <1>3 DEF IsState
  <2> HIDE DEF r2a
  <2> QED
    BY <2>1, <1>3, QuietOthers, QuietTransitive
<1> HIDE DEF r2a
<1>5. Quiet(s, r2b) /\ IsState(r2b)
  <2>1. Quiet(r2a, r2b)
    BY <1>4, CleanWaitForNextEventQuiet
  <2> HIDE DEF r2b
  <2> QED
    BY <2>1, <1>4, QuietTransitive DEF Quiet
<1> HIDE DEF r2b
<1>6. Quiet(s, r3) /\ IsState(r3)
  <2>1. Quiet(r2b, r3)
    BY <1>5, CleanRetranInSingleEventsQuiet
  <2> HIDE DEF r3
  <2> QED
    BY <2>1, <1>5, QuietTransitive DEF Quiet
<1> HIDE DEF r3
<1>7. Quiet(s, r4) /\ IsState(r4)
  <2>1. Quiet(r3, r4)
    BY <1>6, CleanRetranMEventsQuiet
  <2> HIDE DEF r4
  <2> QED
    BY <2>1, <1>6, QuietTransitive DEF Quiet
<1> HIDE DEF r4, n
<1>8. Quiet(s, r5) /\ IsState(r5)
  <2>1. Quiet(r4, Router(r)!WaitForNextCapsule(r4, n))
    BY <1>7, WaitForNextCapsuleQuiet
  <2>2. Quiet(r4, r5)
    BY <2>1, <1>7, QuietReflexive
  <2> HIDE DEF r5
  <2> QED
    BY <2>2, <1>7, QuietTransitive DEF Quiet
<1> HIDE DEF r5
<1>9. Quiet(s, r6)
  <2>1. Plain(m)
    BY DEF Plain, Carries, Router!Report
  <2> HIDE DEF m
  <2>2. /\ IsState(r6) /\ r6.transmittedDataIds = r5.transmittedDataIds
        /\ r6.localCs = r5.localCs /\ r6.out = r5.out \cup {m}
    BY <1>8 DEF IsState
  <2>3. IsFiniteSet({m})
    BY FS_Singleton
  <2> HIDE DEF r6
  <2>4. Quiet(r5, r6)
    BY <2>1, <2>2, <2>3, QuietSends
  <2> QED
    BY <2>4, <1>8, QuietTransitive
<1> HIDE DEF r6
<1> QED
  BY <1>1, <1>8, <1>9, QuietReflexive

\* A Miss brings no capsule.
LEMMA OnRetranSMissQuiet ==
  ASSUME NEW r, NEW s, IsState(s)
  PROVE  Quiet(s, Router(r)!OnRetranSMiss(s))
<1> DEFINE t == Router(r)!CleanRetranInSingleEvents(s, {0})
<1>1. Quiet(s, t) /\ IsState(t)
  <2>1. Quiet(s, t)
    BY CleanRetranInSingleEventsQuiet
  <2> HIDE DEF t
  <2> QED
    BY <2>1 DEF Quiet
<1>2. \/ Router(r)!OnRetranSMiss(s) = t
      \/ Router(r)!OnRetranSMiss(s) = Router(r)!WaitForNextCapsule(t, 0)
  BY DEF Router!OnRetranSMiss
<1> HIDE DEF t
<1> QED
  BY <1>1, <1>2, QuietTransitive, WaitForNextCapsuleQuiet

\* The awaited capsule is late: a report and requests.
LEMMA WaitForNextCapsuleDelayedTaskQuiet ==
  ASSUME NEW r, NEW s, IsState(s), NEW d
  PROVE  Quiet(s, Router(r)!WaitForNextCapsuleDelayedTask(s, d))
<1> DEFINE ways    == IF HasFaceUp(r) THEN {Primary} ELSE {}
           fired == [s EXCEPT !.waitTimers = @ \ {d}, !.waitForNextDataEvents = @ \cup {d}]
           t     == Router(r)!SendReport(fired, {d}, s.preferredDownPathId, rsg)
<1>1. IsFiniteSet(ways)
  BY FS_Singleton, FS_EmptySet
<1>2. Router(r)!WaitForNextCapsuleDelayedTask(s, d) =
        Router(r)!RequestSRound(t, d, ways, NumRetransRequests)
  BY DEF Router!WaitForNextCapsuleDelayedTask
<1> HIDE DEF ways
<1>3. Quiet(s, fired) /\ IsState(fired)
  <2>1. /\ IsState(fired) /\ fired.transmittedDataIds = s.transmittedDataIds
        /\ fired.localCs = s.localCs /\ fired.out = s.out
    BY DEF IsState
  <2> HIDE DEF fired
  <2> QED
    BY <2>1, QuietOthers
<1> HIDE DEF fired
<1>4. Quiet(s, t) /\ IsState(t)
  <2>1. Quiet(fired, t)
    BY <1>3, SendReportQuiet
  <2> HIDE DEF t
  <2> QED
    BY <2>1, <1>3, QuietTransitive DEF Quiet
<1> HIDE DEF t
<1> QED
  BY <1>1, <1>2, <1>4, RequestSRoundQuiet, QuietTransitive

\* A RequestS is late.
LEMMA RetransSingleTimeoutQuiet ==
  ASSUME NEW r, NEW s, IsState(s), NEW t
  PROVE  Quiet(s, Router(r)!RetransSingleTimeout(s, t))
<1> DEFINE u == [s EXCEPT !.singleTimers = @ \ {t}]
<1>1. /\ IsState(u) /\ u.transmittedDataIds = s.transmittedDataIds
      /\ u.localCs = s.localCs /\ u.out = s.out
  BY DEF IsState
<1>2. Router(r)!RetransSingleTimeout(s, t) = Router(r)!RequestSRound(u, t.id, {t.path}, t.rest)
  BY DEF Router!RetransSingleTimeout
<1>3. IsFiniteSet({t.path})
  BY FS_Singleton
<1> HIDE DEF u
<1> QED
  BY <1>1, <1>2, <1>3, QuietOthers, QuietTransitive, RequestSRoundQuiet

\* A RequestM is late.
LEMMA RetransBatchTimeoutQuiet ==
  ASSUME NEW r, NEW s, IsState(s), NEW t
  PROVE  Quiet(s, Router(r)!RetransBatchTimeout(s, t))
<1> DEFINE u == [s EXCEPT !.batchTimers = @ \ {t}]
<1>1. /\ IsState(u) /\ u.transmittedDataIds = s.transmittedDataIds
      /\ u.localCs = s.localCs /\ u.out = s.out
  BY DEF IsState
<1>2. Router(r)!RetransBatchTimeout(s, t) = Router(r)!RequestMRound(u, t.rbi, t.rest)
  BY DEF Router!RetransBatchTimeout
<1> HIDE DEF u
<1> QED
  BY <1>1, <1>2, QuietOthers, QuietTransitive, RequestMRoundQuiet

\* Another router did not get what it reported.
LEMMA WaitToRequestMQuiet ==
  ASSUME NEW r, NEW s, IsState(s), NEW w
  PROVE  Quiet(s, Router(r)!WaitToRequestM(s, w))
<1> DEFINE u == [s EXCEPT !.WaitForRetransInBatchEvents = @ \ {w}]
           missing == w.ids \ s.transmittedDataIds
<1>1. /\ IsState(u) /\ u.transmittedDataIds = s.transmittedDataIds
      /\ u.localCs = s.localCs /\ u.out = s.out
  BY DEF IsState
<1>2. \/ Router(r)!WaitToRequestM(s, w) = u
      \/ Router(r)!WaitToRequestM(s, w) = Router(r)!BroadcastRequestM(u, missing)
  BY DEF Router!WaitToRequestM
<1> HIDE DEF u, missing
<1> QED
  BY <1>1, <1>2, QuietOthers, QuietTransitive, BroadcastRequestMQuiet

-------------------------------------------------------------------------------
(* The handlers that take a capsule.  *)

\* From s to t the capsule d, not marked before, is marked and may be stored and sent.
Carried(s, t, d) ==
  /\ IsState(t)
  /\ d \notin s.transmittedDataIds
  /\ t.transmittedDataIds = s.transmittedDataIds \cup {d}
  /\ t.localCs \subseteq s.localCs \cup {d}
  /\ s.out \subseteq t.out
  /\ IsFiniteSet(t.out \ s.out)
  /\ \A m \in t.out \ s.out :
       Plain(m) \/ ("type" \in DOMAIN m /\ m.type = "Capsule" /\ m.id = d)

\* The capsule is marked, quiet steps follow, it is stored or not and sent on, and quiet
\* steps follow.
LEMMA CarriedOn ==
  ASSUME NEW r, NEW s, IsState(s), NEW d, d \notin s.transmittedDataIds,
         NEW q, Quiet(Router(r)!RecordTransmitted(s, d), q),
         NEW p, p = q \/ p = Router(r)!InsertInCs(q, d),
         NEW n, NEW t, Quiet(Router(r)!DeliverCapsule(p, d, n), t)
  PROVE  Carried(s, t, d)
<1> DEFINE s1 == Router(r)!RecordTransmitted(s, d)
           m  == IF p.isDownPathInRspState
                 THEN Router(r)!CapsuleOnRSP(n, d, p.preferredDownPathId)
                 ELSE Router(r)!Capsule(d, p.preferredDownPathId)
           u  == Router(r)!DeliverCapsule(p, d, n)
<1>1. /\ s1.transmittedDataIds = s.transmittedDataIds \cup {d}
      /\ s1.localCs = s.localCs /\ s1.out = s.out
  BY DEF IsState, Router!RecordTransmitted
<1>2. /\ IsState(p) /\ p.transmittedDataIds = q.transmittedDataIds
      /\ p.localCs \subseteq q.localCs \cup {d} /\ p.out = q.out
  BY DEF Quiet, IsState, Router!InsertInCs
<1>3. Plain(m) \/ ("type" \in DOMAIN m /\ m.type = "Capsule" /\ m.id = d)
  BY DEF Plain, Carries, Router!CapsuleOnRSP, Router!Capsule
<1>4. u = [p EXCEPT !.out = @ \cup {m}]
  BY Zenon DEF Router!DeliverCapsule
<1> HIDE DEF m
<1>5. /\ IsState(u) /\ u.transmittedDataIds = p.transmittedDataIds
      /\ u.localCs = p.localCs /\ u.out = p.out \cup {m}
  <2> HIDE DEF u
  <2> QED
    BY <1>2, <1>4 DEF IsState
<1>6. Quiet(s1, q) /\ Quiet(u, t)
  OBVIOUS
<1> HIDE DEF s1, u
<1>7. t.out \ s.out \subseteq (q.out \ s1.out) \cup {m} \cup (t.out \ u.out)
  BY <1>1, <1>2, <1>5
<1>8. IsFiniteSet((q.out \ s1.out) \cup {m} \cup (t.out \ u.out))
  <2>1. IsFiniteSet(q.out \ s1.out) /\ IsFiniteSet(t.out \ u.out) /\ IsFiniteSet({m})
    BY <1>6, FS_Singleton DEF Quiet
  <2>2. IsFiniteSet((q.out \ s1.out) \cup {m})
    BY <2>1, FS_Union
  <2> QED
    BY <2>1, <2>2, FS_Union
<1>9. IsFiniteSet(t.out \ s.out)
  BY <1>7, <1>8, FS_Subset
<1>10. s.out \subseteq t.out
  BY <1>1, <1>2, <1>5, <1>6 DEF Quiet
<1>11. \A x \in t.out \ s.out :
         Plain(x) \/ ("type" \in DOMAIN x /\ x.type = "Capsule" /\ x.id = d)
  BY <1>3, <1>6, <1>7 DEF Quiet
<1>12. /\ IsState(t) /\ t.transmittedDataIds = s.transmittedDataIds \cup {d}
       /\ t.localCs \subseteq s.localCs \cup {d}
  BY <1>1, <1>2, <1>5, <1>6 DEF Quiet
<1> QED
  BY <1>9, <1>10, <1>11, <1>12 DEF Carried

\* A capsule from the router before: handled unless it was transmitted before.
LEMMA OnReceiveCapsuleCarries ==
  ASSUME NEW r, NEW s, IsState(s), NEW d
  PROVE  \/ Router(r)!OnReceiveCapsule(s, d) = s
         \/ Carried(s, Router(r)!OnReceiveCapsule(s, d), d)
<1> DEFINE r1  == Router(r)!RecordTransmitted(s, d)
           r2a == [r1 EXCEPT !.lostDataIdsFromPrevRouters = @ \ {d}]
           r2b == Router(r)!DiscoverLostCapsules(r1, d)
           r2c == [r2b EXCEPT !.lastDataId = IF d > @ THEN d ELSE @]
           r2  == IF d \in r1.lostDataIdsFromPrevRouters THEN r2a ELSE r2c
           r2w == Router(r)!CleanWaitForNextEvent(r2, {d})
           r3  == Router(r)!CleanRetranInSingleEvents(r2w, {d})
           q   == Router(r)!CleanWaitForRequestMEvents(r3, d)
           r4  == Router(r)!DeliverCapsule(q, d, d)
           n   == Router(r)!ComputeNextDataId(r4, d)
           t   == Router(r)!WaitForNextCapsule(r4, n)
<1>1. \/ Router(r)!OnReceiveCapsule(s, d) = s
      \/ d \notin s.transmittedDataIds /\ Router(r)!OnReceiveCapsule(s, d) \in {t, r4}
  BY DEF Router!OnReceiveCapsule
<1>2. IsState(r1)
  BY DEF IsState, Router!RecordTransmitted
<1> HIDE DEF r1
<1>3. Quiet(r1, r2) /\ IsState(r2)
  <2>1. Quiet(r1, r2a)
    <3>1. /\ IsState(r2a) /\ r2a.transmittedDataIds = r1.transmittedDataIds
          /\ r2a.localCs = r1.localCs /\ r2a.out = r1.out
      BY <1>2 DEF IsState
    <3> HIDE DEF r2a
    <3> QED
      BY <3>1, QuietOthers
  <2>2. Quiet(r1, r2b)
    BY <1>2, DiscoverLostCapsulesQuiet
  <2> HIDE DEF r2b
  <2>3. Quiet(r2b, r2c)
    <3>1. /\ IsState(r2c) /\ r2c.transmittedDataIds = r2b.transmittedDataIds
          /\ r2c.localCs = r2b.localCs /\ r2c.out = r2b.out
      BY <2>2 DEF IsState, Quiet
    <3> HIDE DEF r2c
    <3> QED
      BY <3>1, QuietOthers
  <2> HIDE DEF r2a, r2c
  <2>4. Quiet(r1, r2c)
    BY <2>2, <2>3, QuietTransitive
  <2>5. Quiet(r1, r2)
    BY <2>1, <2>4
  <2> HIDE DEF r2
  <2> QED
    BY <2>5 DEF Quiet
<1> HIDE DEF r2
<1>4. Quiet(r1, r2w) /\ IsState(r2w)
  <2>1. Quiet(r2, r2w)
    BY <1>3, CleanWaitForNextEventQuiet
  <2> HIDE DEF r2w
  <2> QED
    BY <2>1, <1>3, QuietTransitive DEF Quiet
<1> HIDE DEF r2w
<1>5. Quiet(r1, r3) /\ IsState(r3)
  <2>1. Quiet(r2w, r3)
    BY <1>4, CleanRetranInSingleEventsQuiet
  <2> HIDE DEF r3
  <2> QED
    BY <2>1, <1>4, QuietTransitive DEF Quiet
<1> HIDE DEF r3
<1>6. Quiet(r1, q) /\ IsState(q)
  <2>1. Quiet(r3, q)
    BY <1>5, CleanWaitForRequestMEventsQuiet
  <2> HIDE DEF q
  <2> QED
    BY <2>1, <1>5, QuietTransitive DEF Quiet
<1> HIDE DEF q
<1>7. IsState(r4)
  BY <1>6 DEF IsState, Router!DeliverCapsule
<1>8. Quiet(r4, r4) /\ Quiet(r4, t)
  <2> HIDE DEF r4, n
  <2> QED
    BY <1>7, QuietReflexive, WaitForNextCapsuleQuiet
<1>9. ASSUME d \notin s.transmittedDataIds, NEW u, Quiet(r4, u) PROVE Carried(s, u, d)
  BY <1>6, <1>9, CarriedOn DEF r1
<1> HIDE DEF r4, t
<1> QED
  BY <1>1, <1>8, <1>9

\* An answer to a RequestS, the same.
LEMMA OnReceiveRetranSCarries ==
  ASSUME NEW r, NEW s, IsState(s), NEW d, NEW requested
  PROVE  \/ Router(r)!OnReceiveRetranS(s, d, requested) = s
         \/ Carried(s, Router(r)!OnReceiveRetranS(s, d, requested), d)
<1> DEFINE r1 == Router(r)!RecordTransmitted(s, d)
           r2 == [r1 EXCEPT !.waitForNextDataEvents = @ \cup {d}]
           r3 == Router(r)!CleanWaitForNextEvent(r2, {requested})
           q  == Router(r)!CleanRetranInSingleEvents(r3, {requested})
           p  == Router(r)!InsertInCs(q, d)
           u  == Router(r)!DeliverCapsule(p, d, requested)
           t  == Router(r)!AdvanceToRetransmitted(u, d)
<1>1. \/ Router(r)!OnReceiveRetranS(s, d, requested) = s
      \/ d \notin s.transmittedDataIds /\ Router(r)!OnReceiveRetranS(s, d, requested) = t
  BY DEF Router!OnReceiveRetranS
<1>2. IsState(r1)
  BY DEF IsState, Router!RecordTransmitted
<1> HIDE DEF r1
<1>3. Quiet(r1, r2) /\ IsState(r2)
  <2>1. /\ IsState(r2) /\ r2.transmittedDataIds = r1.transmittedDataIds
        /\ r2.localCs = r1.localCs /\ r2.out = r1.out
    BY <1>2 DEF IsState
  <2> HIDE DEF r2
  <2> QED
    BY <2>1, QuietOthers
<1> HIDE DEF r2
<1>4. Quiet(r1, r3) /\ IsState(r3)
  <2>1. Quiet(r2, r3)
    BY <1>3, CleanWaitForNextEventQuiet
  <2> HIDE DEF r3
  <2> QED
    BY <2>1, <1>3, QuietTransitive DEF Quiet
<1> HIDE DEF r3
<1>5. Quiet(r1, q) /\ IsState(q)
  <2>1. Quiet(r3, q)
    BY <1>4, CleanRetranInSingleEventsQuiet
  <2> HIDE DEF q
  <2> QED
    BY <2>1, <1>4, QuietTransitive DEF Quiet
<1> HIDE DEF q
<1>6. IsState(u)
  BY <1>5 DEF IsState, Router!InsertInCs, Router!DeliverCapsule
<1>7. Quiet(u, t)
  <2> HIDE DEF u
  <2> QED
    BY <1>6, AdvanceToRetransmittedQuiet
<1> HIDE DEF t
<1>8. d \notin s.transmittedDataIds => Carried(s, t, d)
  BY <1>5, <1>7, CarriedOn DEF r1
<1> QED
  BY <1>1, <1>8

\* An answer to a RequestM, the same.
LEMMA OnReceiveRetranMCarries ==
  ASSUME NEW r, NEW s, IsState(s), NEW rbi, NEW d
  PROVE  \/ Router(r)!OnReceiveRetranM(s, rbi, d) = s
         \/ Carried(s, Router(r)!OnReceiveRetranM(s, rbi, d), d)
<1> DEFINE r1 == Router(r)!RecordTransmitted(s, d)
           q  == Router(r)!CleanRetranMEventsOfBatch(r1, rbi, d)
           p  == Router(r)!InsertInCs(q, d)
           u  == Router(r)!DeliverCapsule(p, d, d)
           t  == Router(r)!AdvanceToRetransmitted(u, d)
<1>1. \/ Router(r)!OnReceiveRetranM(s, rbi, d) = s
      \/ d \notin s.transmittedDataIds /\ Router(r)!OnReceiveRetranM(s, rbi, d) = t
  BY DEF Router!OnReceiveRetranM
<1>2. IsState(r1)
  BY DEF IsState, Router!RecordTransmitted
<1> HIDE DEF r1
<1>3. Quiet(r1, q) /\ IsState(q)
  <2>1. Quiet(r1, q)
    BY <1>2, CleanRetranMEventsOfBatchQuiet
  <2> HIDE DEF q
  <2> QED
    BY <2>1 DEF Quiet
<1> HIDE DEF q
<1>4. IsState(u)
  BY <1>3 DEF IsState, Router!InsertInCs, Router!DeliverCapsule
<1>5. Quiet(u, t)
  <2> HIDE DEF u
  <2> QED
    BY <1>4, AdvanceToRetransmittedQuiet
<1> HIDE DEF t
<1>6. d \notin s.transmittedDataIds => Carried(s, t, d)
  BY <1>3, <1>5, CarriedOn DEF r1
<1> QED
  BY <1>1, <1>6

-------------------------------------------------------------------------------
(* Messages on the hops.  *)

\* The cardinality of SequencesExt is that of FiniteSets.
LEMMA SetSizes ==
  ASSUME NEW S
  PROVE  SX!Cardinality(S) = Cardinality(S)
BY DEF SX!Cardinality, Cardinality, SX!IsFiniteSet, IsFiniteSet

\* A finite set as a sequence.
LEMMA SetToSeqIs ==
  ASSUME NEW S, IsFiniteSet(S)
  PROVE  SX!SetToSeq(S) \in [1..Cardinality(S) -> S] /\ Cardinality(S) \in Nat
<1>1. Cardinality(S) \in Nat /\ ExistsBijection(1..Cardinality(S), S)
  BY FS_CardinalityType
<1>2. PICK f \in [1..Cardinality(S) -> S] : SX!IsInjective(f)
  <2>1. PICK f : f \in Bijection(1..Cardinality(S), S)
    BY <1>1 DEF ExistsBijection
  <2>2. f \in [1..Cardinality(S) -> S] /\ SX!IsInjective(f)
    BY <2>1 DEF Bijection, Injection, IsInjective, SX!IsInjective
  <2> QED
    BY <2>2
<1>3. SX!SetToSeq(S) = CHOOSE g \in [1..Cardinality(S) -> S] : SX!IsInjective(g)
  BY SetSizes, Zenon DEF SX!SetToSeq
<1> QED
  BY <1>1, <1>2, <1>3

\* Its elements are those of the set.
LEMMA SetToSeqType ==
  ASSUME NEW S, IsFiniteSet(S)
  PROVE  SX!SetToSeq(S) \in Seq(S)
BY SetToSeqIs

\* No element and one.
LEMMA SetToSeqSmall ==
  ASSUME NEW d
  PROVE  SX!SetToSeq({}) = <<>> /\ SX!SetToSeq({d}) = <<d>>
<1>1. SX!SetToSeq({}) = <<>>
  <2>1. SX!SetToSeq({}) \in [1..0 -> {}]
    BY SetToSeqIs, FS_EmptySet
  <2> HIDE DEF SX!SetToSeq
  <2> QED
    BY <2>1
<1>2. SX!SetToSeq({d}) = <<d>>
  <2>1. SX!SetToSeq({d}) \in [1..1 -> {d}]
    BY SetToSeqIs, FS_Singleton
  <2> QED
    BY <2>1
<1> QED
  BY <1>1, <1>2

\* A message that may be on a hop when n capsules are published.
Good(m, n) ==
  /\ m.type \in Carries \cup {"Report", "Miss"}
  /\ m.type \in Carries => m.id \in 0..(n - 1)

GoodSeq(s, n) ==
  /\ s \in Seq({s[i] : i \in 1..Len(s)})
  /\ \A i \in 1..Len(s) : Good(s[i], n)

GoodLinks(q, n) == DOMAIN q = Hops /\ \A h \in Hops : GoodSeq(q[h], n)

\* A sequence over a set of good messages is one.
LEMMA GoodSeqOf ==
  ASSUME NEW S, NEW s \in Seq(S), NEW n, \A m \in S : Good(m, n)
  PROVE  GoodSeq(s, n)
<1>1. \A i \in 1..Len(s) : s[i] \in S
  OBVIOUS
<1>2. s \in Seq({s[i] : i \in 1..Len(s)})
  OBVIOUS
<1> QED
  BY <1>1, <1>2 DEF GoodSeq

\* No message and one.
LEMMA GoodSeqFew ==
  ASSUME NEW n
  PROVE  GoodSeq(<<>>, n) /\ \A m : Good(m, n) => GoodSeq(<<m>>, n)
BY DEF GoodSeq

\* Good messages behind good messages.
LEMMA GoodSeqBehind ==
  ASSUME NEW n, NEW s, NEW t, GoodSeq(s, n), GoodSeq(t, n)
  PROVE  GoodSeq(s \o t, n)
<1> DEFINE S == {s[i] : i \in 1..Len(s)}
           T == {t[i] : i \in 1..Len(t)}
<1>1. s \in Seq(S) /\ t \in Seq(T)
  BY DEF GoodSeq
<1>2. \A m \in S \cup T : Good(m, n)
  BY DEF GoodSeq
<1> HIDE DEF S, T
<1>3. s \in Seq(S \cup T) /\ t \in Seq(S \cup T)
  BY <1>1
<1>4. s \o t \in Seq(S \cup T)
  BY <1>3
<1> QED
  BY <1>2, <1>4, GoodSeqOf

\* The first message is good, and those behind it are.
LEMMA GoodSeqTaken ==
  ASSUME NEW n, NEW s, GoodSeq(s, n), s # <<>>
  PROVE  GoodSeq(Tail(s), n) /\ Good(Head(s), n)
<1> DEFINE S == {s[i] : i \in 1..Len(s)}
<1>1. s \in Seq(S) /\ \A m \in S : Good(m, n)
  BY DEF GoodSeq
<1> HIDE DEF S
<1>2. Tail(s) \in Seq(S) /\ Head(s) \in S
  BY <1>1
<1> QED
  BY <1>1, <1>2, GoodSeqOf

\* What is good stays good when one more capsule is published.
LEMMA GoodLinksLater ==
  ASSUME NEW n \in Nat, NEW q, GoodLinks(q, n)
  PROVE  GoodLinks(q, n + 1)
<1>1. \A m : Good(m, n) => Good(m, n + 1)
  BY DEF Good
<1> QED
  BY <1>1 DEF GoodLinks, GoodSeq

\* Good messages are sent.
LEMMA SendDownGood ==
  ASSUME NEW n, NEW q, GoodLinks(q, n), NEW r, NEW msgs, GoodSeq(msgs, n)
  PROVE  GoodLinks(SendDown(q, r, msgs), n)
<1>1. CASE r \in Hops
  <2>1. GoodSeq(q[r] \o msgs, n)
    BY <1>1, GoodSeqBehind DEF GoodLinks
  <2>2. SendDown(q, r, msgs) = [q EXCEPT ![r] = q[r] \o msgs]
    BY <1>1 DEF SendDown, HasFaceDown
  <2> QED
    BY <2>1, <2>2 DEF GoodLinks
<1>2. CASE r \notin Hops
  BY <1>2 DEF SendDown, HasFaceDown
<1> QED
  BY <1>1, <1>2

\* A message is taken or lost.
LEMMA TakenGood ==
  ASSUME NEW n, NEW q, GoodLinks(q, n), NEW h \in Hops, q[h] # <<>>
  PROVE  GoodLinks(Taken(q, h), n) /\ Good(Head(q[h]), n)
<1>1. GoodSeq(Tail(q[h]), n) /\ Good(Head(q[h]), n)
  BY GoodSeqTaken DEF GoodLinks
<1>2. Taken(q, h) = [q EXCEPT ![h] = Tail(q[h])]
  BY DEF Taken
<1> QED
  BY <1>1, <1>2 DEF GoodLinks

-------------------------------------------------------------------------------
(* The chain.  *)

\* What is stored or under way was published; what the subscriber got is marked at the
\* last router.
IInv ==
  /\ next \in 0..(MaxDataId + 1)
  /\ DOMAIN router = Routers
  /\ \A r \in Routers :
       /\ IsState(router[r])
       /\ router[r].out = {}
       /\ router[r].localCs \subseteq 0..(next - 1)
  /\ GoodLinks(down, next)
  /\ app \in Seq(router[Last].transmittedDataIds)

\* The last capsule and the length of the path.
LEMMA Bounds == ASSUME DrtpChainAssumption PROVE MaxDataId \in Nat /\ Last > 1
BY DEF DrtpChainAssumption

\* Ids below a bound are below a later one.
LEMMA LaterIds ==
  ASSUME NEW n \in Int, NEW k \in Int, n <= k
  PROVE  0..(n - 1) \subseteq 0..(k - 1)
OBVIOUS

\* A handler made t of s, and of the capsules D, none of them marked, marked and sent ones.
Result(s, t, D, n) ==
  /\ IsState(t)
  /\ D \cap s.transmittedDataIds = {}
  /\ t.transmittedDataIds = s.transmittedDataIds \cup D
  /\ t.localCs \subseteq 0..(n - 1)
  /\ IsFiniteSet(t.out)
  /\ \A m \in t.out :
       /\ "type" \in DOMAIN m
       /\ m.type \in Carries => m.type = "Capsule" /\ m.id \in D

\* A quiet handler has marked and sent no capsule.
LEMMA QuietResult ==
  ASSUME NEW s, NEW t, NEW n, s.out = {}, s.localCs \subseteq 0..(n - 1), Quiet(s, t)
  PROVE  Result(s, t, {}, n)
<1>1. t.out \ s.out = t.out
  OBVIOUS
<1> QED
  BY <1>1 DEF Quiet, Result, Plain

\* One that is not has marked and sent one, published before.
LEMMA CarriedResult ==
  ASSUME NEW s, NEW t, NEW n, NEW d, s.out = {}, s.localCs \subseteq 0..(n - 1),
         d \in 0..(n - 1), Carried(s, t, d)
  PROVE  Result(s, t, {d}, n)
<1>1. t.out \ s.out = t.out
  OBVIOUS
<1> QED
  BY <1>1 DEF Carried, Result, Plain

\* A capsule is put into the store before it is handled.
LEMMA CapsuleResult ==
  ASSUME NEW r, NEW s, NEW n, NEW d, IsState(s), s.out = {}, s.localCs \subseteq 0..(n - 1),
         d \in 0..(n - 1)
  PROVE  LET t == Router(r)!OnReceiveCapsule(Router(r)!InsertInCs(s, d), d)
         IN  Result(s, t, {}, n) \/ Result(s, t, {d}, n)
<1> DEFINE s1 == Router(r)!InsertInCs(s, d)
           t  == Router(r)!OnReceiveCapsule(s1, d)
<1>1. /\ IsState(s1) /\ s1.transmittedDataIds = s.transmittedDataIds
      /\ s1.localCs \subseteq 0..(n - 1) /\ s1.out = {}
  BY DEF IsState, Router!InsertInCs
<1> HIDE DEF s1
<1>2. t = s1 \/ Carried(s1, t, d)
  BY <1>1, OnReceiveCapsuleCarries
<1> HIDE DEF t
<1>3. Result(s1, t, {}, n) \/ Result(s1, t, {d}, n)
  BY <1>1, <1>2, QuietReflexive, QuietResult, CarriedResult
<1>4. Result(s, t, {}, n) \/ Result(s, t, {d}, n)
  BY <1>1, <1>3 DEF Result
<1> QED
  BY <1>4 DEF t, s1

\* What the router after a hop makes of a message on it.
LEMMA HandledResult ==
  ASSUME NEW r, NEW s, NEW n, NEW m, IsState(s), s.out = {}, s.localCs \subseteq 0..(n - 1),
         Good(m, n)
  PROVE  \/ Result(s, Handled(r, s, m), {}, n)
         \/ \E d \in 0..(n - 1) : Result(s, Handled(r, s, m), {d}, n)
<1> DEFINE t == Handled(r, s, m)
<1>1. CASE m.type = "Capsule"
  <2>1. t = Router(r)!OnReceiveCapsule(Router(r)!InsertInCs(s, m.id), m.id)
    BY <1>1 DEF Handled
  <2>2. m.id \in 0..(n - 1)
    BY <1>1 DEF Good, Carries
  <2> HIDE DEF t
  <2>3. Result(s, t, {}, n) \/ Result(s, t, {m.id}, n)
    BY <2>1, <2>2, CapsuleResult
  <2> QED
    BY <2>2, <2>3 DEF t
<1>2. CASE m.type = "RetranS"
  <2>1. t = Router(r)!OnReceiveRetranS(s, m.id, m.requested)
    BY <1>2 DEF Handled
  <2>2. m.id \in 0..(n - 1)
    BY <1>2 DEF Good, Carries
  <2> HIDE DEF t
  <2>3. t = s \/ Carried(s, t, m.id)
    BY <2>1, OnReceiveRetranSCarries
  <2>4. Result(s, t, {}, n) \/ Result(s, t, {m.id}, n)
    BY <2>2, <2>3, QuietReflexive, QuietResult, CarriedResult
  <2> QED
    BY <2>2, <2>4 DEF t
<1>3. CASE m.type = "RetranM"
  <2>1. t = Router(r)!OnReceiveRetranM(s, m.rbi, m.id)
    BY <1>3 DEF Handled
  <2>2. m.id \in 0..(n - 1)
    BY <1>3 DEF Good, Carries
  <2> HIDE DEF t
  <2>3. t = s \/ Carried(s, t, m.id)
    BY <2>1, OnReceiveRetranMCarries
  <2>4. Result(s, t, {}, n) \/ Result(s, t, {m.id}, n)
    BY <2>2, <2>3, QuietReflexive, QuietResult, CarriedResult
  <2> QED
    BY <2>2, <2>4 DEF t
<1>4. CASE m.type = "Report"
  <2>1. t = Router(r)!OnReceiveReport(s, m.uid, m.ids, TRUE)
    BY <1>4 DEF Handled
  <2> HIDE DEF t
  <2>2. Quiet(s, t)
    BY <2>1, OnReceiveReportQuiet
  <2> QED
    BY <2>2, QuietResult DEF t
<1>5. CASE m.type = "Miss"
  <2>1. t = Router(r)!OnRetranSMiss(s)
    BY <1>5 DEF Handled
  <2> HIDE DEF t
  <2>2. Quiet(s, t)
    BY <2>1, OnRetranSMissQuiet
  <2> QED
    BY <2>2, QuietResult DEF t
<1> QED
  BY <1>1, <1>2, <1>3, <1>4, <1>5 DEF Good, Carries

\* A handler's messages go on the links, its capsules to the subscriber at the last router.
LEMMA CommitKeeps ==
  ASSUME IInv, LastAssumption, DrtpChainAssumption,
         NEW r \in Routers, NEW t, NEW dn, NEW uq, Commit(r, t, dn, uq),
         NEW D, Result(router[r], t, D, next'), D = {} \/ \E d \in 0..(next' - 1) : D = {d},
         GoodLinks(dn, next'), next' \in 0..(MaxDataId + 1), next <= next'
  PROVE  /\ IInv'
         /\ HasFaceDown(r) \/ D = {} => app' = app
         /\ \A d : D = {d} /\ app' # app =>
              app' = Append(app, d) /\ \A i \in 1..Len(app) : app[i] # d
<1> DEFINE s        == router[r]
           capsules == {m \in t.out : m.type \in {"Capsule"}}
           new      == {m \in {m \in t.out : m.type \in {"Report"}} : m.uid = NewUID}
           stamped  == {[m EXCEPT !.uid = reports] : m \in new}
           known    == {m \in t.out : m.type \in {"Report"}} \ new
           ids      == {m.id : m \in capsules}
           sent     == SX!SetToSeq(stamped \cup known) \o SX!SetToSeq(capsules)
           T        == router[Last].transmittedDataIds
<1>1. /\ router' = [router EXCEPT ![r] = [t EXCEPT !.out = {}]]
      /\ down' = SendDown(dn, r, sent)
      /\ app' = IF HasFaceDown(r) THEN app ELSE app \o SX!SetToSeq(ids)
  BY DEF Commit, OfType
<1>2. /\ IsState(t) /\ IsFiniteSet(t.out)
      /\ D \cap s.transmittedDataIds = {}
      /\ t.transmittedDataIds = s.transmittedDataIds \cup D
      /\ t.localCs \subseteq 0..(next' - 1)
  BY DEF Result
<1>3. \A m \in t.out : "type" \in DOMAIN m /\ (m.type \in Carries => m.id \in D)
  BY DEF Result
<1>4. D \subseteq 0..(next' - 1)
  OBVIOUS
<1>5. GoodSeq(sent, next')
  <2>1. GoodSeq(SX!SetToSeq(capsules), next')
    <3>1. IsFiniteSet(capsules)
      BY <1>2, FS_Subset
    <3>2. \A m \in capsules : Good(m, next')
      BY <1>3, <1>4 DEF Good, Carries
    <3> HIDE DEF capsules
    <3> QED
      BY <3>1, <3>2, SetToSeqType, GoodSeqOf
  <2>2. GoodSeq(SX!SetToSeq(stamped \cup known), next')
    <3>1. IsFiniteSet(new) /\ IsFiniteSet(known)
      BY <1>2, FS_Subset
    <3>2. IsFiniteSet(stamped)
      <4> DEFINE f == [m \in new |-> [m EXCEPT !.uid = reports]]
      <4>1. stamped = {f[m] : m \in new}
        OBVIOUS
      <4> HIDE DEF f, stamped, new
      <4> QED
        BY <3>1, <4>1, ValuesFinite
    <3>3. IsFiniteSet(stamped \cup known)
      <4> HIDE DEF stamped, known
      <4> QED
        BY <3>1, <3>2, FS_Union
    <3>4. \A m \in known : Good(m, next')
      BY DEF Good, Carries
    <3>5. \A m \in stamped : Good(m, next')
      <4>1. ASSUME NEW m \in new PROVE [m EXCEPT !.uid = reports].type = "Report"
        BY <1>3
      <4> QED
        BY <4>1 DEF Good, Carries
    <3> HIDE DEF stamped, known
    <3> QED
      BY <3>3, <3>4, <3>5, SetToSeqType, GoodSeqOf
  <2> HIDE DEF stamped, known, capsules
  <2> QED
    BY <2>1, <2>2, GoodSeqBehind
<1>6. GoodLinks(down', next')
  <2> HIDE DEF sent
  <2> QED
    BY <1>1, <1>5, SendDownGood
<1>7. DOMAIN router' = Routers
  BY <1>1 DEF IInv
<1>8. /\ IsState(router'[r]) /\ router'[r].out = {}
      /\ router'[r].transmittedDataIds = s.transmittedDataIds \cup D
      /\ router'[r].localCs \subseteq 0..(next' - 1)
  BY <1>1, <1>2 DEF IInv, IsState
<1>9. \A q \in Routers \ {r} : router'[q] = router[q]
  BY <1>1 DEF IInv
<1>10. ASSUME NEW q \in Routers
       PROVE  /\ IsState(router'[q]) /\ router'[q].out = {}
              /\ router'[q].localCs \subseteq 0..(next' - 1)
  <2>1. CASE q = r
    BY <1>8, <2>1
  <2>2. CASE q # r
    <3>1. router'[q] = router[q]
      BY <1>9, <2>2
    <3>2. 0..(next - 1) \subseteq 0..(next' - 1)
      <4>1. next \in Int
        BY Bounds DEF IInv
      <4>2. next' \in Int
        BY Bounds
      <4> QED
        BY <4>1, <4>2, LaterIds
    <3> QED
      BY <3>1, <3>2 DEF IInv
  <2> QED
    BY <2>1, <2>2
<1>11. ids = {} \/ ids = D
  BY <1>3 DEF Carries
<1>12. CASE HasFaceDown(r)
  <2>1. r # Last /\ Last \in Routers
    BY <1>12, LastAssumption DEF HasFaceDown, Hops, Routers
  <2>2. app' = app /\ router'[Last] = router[Last]
    BY <1>1, <1>9, <1>12, <2>1
  <2> HIDE DEF s, ids, sent
  <2>3. IInv'
    BY <1>6, <1>7, <1>10, <2>2 DEF IInv
  <2> QED
    BY <2>2, <2>3
<1>13. CASE ~ HasFaceDown(r)
  <2>1. r = Last
    BY <1>13, LastAssumption DEF HasFaceDown, Hops, Routers
  <2>2. app \in Seq(T)
    BY DEF IInv
  <2>3. app' = app \o SX!SetToSeq(ids)
    BY <1>1, <1>13
  <2>4. router'[Last].transmittedDataIds = T \cup D /\ D \cap T = {}
    BY <1>2, <1>8, <2>1
  <2> HIDE DEF T, ids, sent, s
  <2>5. CASE ids = {}
    <3>1. SX!SetToSeq(ids) = <<>>
      BY <2>5, SetToSeqSmall
    <3>2. app' = app
      BY <2>2, <2>3, <3>1
    <3>3. app' \in Seq(T \cup D)
      BY <2>2, <3>2
    <3>4. IInv'
      BY <1>6, <1>7, <1>10, <2>4, <3>3 DEF IInv
    <3> QED
      BY <3>2, <3>4
  <2>6. CASE ids # {}
    <3>1. PICK d \in 0..(next' - 1) : D = {d}
      BY <1>11, <2>6
    <3>2. ids = {d}
      BY <1>11, <2>6, <3>1
    <3>3. SX!SetToSeq(ids) = <<d>>
      BY <3>2, SetToSeqSmall
    <3>4. app' = Append(app, d)
      BY <2>2, <2>3, <3>3
    <3>5. app \in Seq(T \cup D) /\ d \in T \cup D
      BY <2>2, <3>1
    <3>6. app' \in Seq(T \cup D)
      BY <3>4, <3>5
    <3>7. \A i \in 1..Len(app) : app[i] # d
      BY <2>2, <2>4, <3>1
    <3>8. IInv'
      BY <1>6, <1>7, <1>10, <2>4, <3>6 DEF IInv
    <3> QED
      BY <1>13, <3>1, <3>4, <3>7, <3>8
  <2> QED
    BY <2>5, <2>6
<1> QED
  BY <1>12, <1>13

\* Nothing is handed to the subscriber where a router hears a timer or a quiet message.
LEMMA QuietKeeps ==
  ASSUME IInv, LastAssumption, DrtpChainAssumption,
         NEW r \in Routers, NEW t, Quiet(router[r], t), Commit(r, t, down, up), next' = next
  PROVE  IInv' /\ app' = app
<1>1. Result(router[r], t, {}, next')
  BY QuietResult DEF IInv
<1>2. GoodLinks(down, next') /\ next' \in 0..(MaxDataId + 1) /\ next <= next'
  BY DrtpChainAssumption DEF IInv
<1> QED
  BY <1>1, <1>2, CommitKeeps

\* The steps.
LEMMA PublishDelivers ==
  ASSUME IInv, LastAssumption, DrtpChainAssumption, Publish
  PROVE  IInv' /\ Stream!Publish
<1> DEFINE s == router[1]
           t == Router(1)!OnReceiveCapsule(Router(1)!InsertInCs(s, next), next)
<1>1. /\ next \in 0..MaxDataId /\ next' = next + 1
      /\ Commit(1, t, down, up)
  BY DEF Publish, DataIds
<1>2. /\ next \in Nat /\ next' \in 0..(MaxDataId + 1) /\ next <= next'
      /\ next \in 0..(next' - 1) /\ 0..(next - 1) \subseteq 0..(next' - 1)
  BY <1>1, DrtpChainAssumption
<1>3. 1 \in Routers /\ HasFaceDown(1)
  BY LastAssumption, DrtpChainAssumption DEF Routers, Hops, HasFaceDown
<1>4. IsState(s) /\ s.out = {} /\ s.localCs \subseteq 0..(next' - 1)
  BY <1>2, <1>3 DEF IInv
<1>5. Result(s, t, {}, next') \/ Result(s, t, {next}, next')
  BY <1>2, <1>4, CapsuleResult
<1>6. GoodLinks(down, next')
  BY <1>1, <1>2, GoodLinksLater DEF IInv
<1> HIDE DEF t
<1>7. IInv' /\ app' = app
  BY <1>1, <1>2, <1>3, <1>5, <1>6, CommitKeeps
<1>8. next <= MaxDataId
  BY <1>1
<1> QED
  BY <1>1, <1>7, <1>8 DEF Stream!Publish

\* The last router hands over the capsule it newly marked, if any.
LEMMA ReceiveDownDelivers ==
  ASSUME IInv, LastAssumption, DrtpChainAssumption, NEW r \in Routers, ReceiveDown(r)
  PROVE  IInv' /\ (UNCHANGED <<next, app>> \/ \E d \in 0..MaxDataId : Stream!Deliver(d))
<1> DEFINE s  == router[r]
           m  == Head(down[r - 1])
           t  == Handled(r, s, m)
           dn == Taken(down, r - 1)
<1>1. /\ r - 1 \in Hops /\ down[r - 1] # <<>>
      /\ Commit(r, t, dn, up) /\ next' = next
  BY DEF ReceiveDown, HasFaceUp
<1>2. /\ next' \in 0..(MaxDataId + 1) /\ next <= next' /\ GoodLinks(down, next')
      /\ IsState(s) /\ s.out = {} /\ s.localCs \subseteq 0..(next' - 1)
  BY <1>1, DrtpChainAssumption DEF IInv
<1>3. GoodLinks(dn, next') /\ Good(m, next')
  BY <1>1, <1>2, TakenGood
<1> HIDE DEF m, dn
<1>4. \/ Result(s, t, {}, next')
      \/ \E d \in 0..(next' - 1) : Result(s, t, {d}, next')
  BY <1>2, <1>3, HandledResult
<1> HIDE DEF t
<1>5. CASE Result(s, t, {}, next')
  <2>1. IInv' /\ app' = app
    BY <1>1, <1>2, <1>3, <1>5, CommitKeeps
  <2> QED
    BY <1>1, <2>1
<1>6. CASE \E d \in 0..(next' - 1) : Result(s, t, {d}, next')
  <2>1. PICK d \in 0..(next' - 1) : Result(s, t, {d}, next')
    BY <1>6
  <2>2. IInv' /\ (app' # app => app' = Append(app, d) /\ \A i \in 1..Len(app) : app[i] # d)
    BY <1>1, <1>2, <1>3, <2>1, CommitKeeps
  <2>3. d < next /\ d \in 0..MaxDataId
    <3>1. next \in Int /\ next' = next /\ next <= MaxDataId + 1
      BY <1>1, <1>2, Bounds DEF IInv
    <3> QED
      BY <3>1, Bounds
  <2>4. app' # app => Stream!Deliver(d)
    BY <1>1, <2>2, <2>3 DEF Stream!Deliver
  <2> QED
    BY <1>1, <2>2, <2>3, <2>4
<1> QED
  BY <1>4, <1>5, <1>6

\* A router answers from its store.
LEMMA ReceiveUpDelivers ==
  ASSUME IInv, LastAssumption, DrtpChainAssumption, NEW r \in Routers, ReceiveUp(r)
  PROVE  IInv' /\ UNCHANGED <<next, app>>
<1> DEFINE m  == Head(up[r])
           cs == router[r].localCs
<1>1. /\ down' = SendDown(down, r, IF m.type = "RequestS" THEN AnswerS(cs, m)
                                   ELSE AnswerM(cs, m))
      /\ UNCHANGED <<next, router, app>>
  BY DEF ReceiveUp
<1>2. cs \subseteq 0..(next - 1)
  BY DEF IInv
<1>3. IsFiniteSet(cs)
  <2>1. IsFiniteSet(0..(next - 1))
    BY FS_Interval, DrtpChainAssumption DEF IInv
  <2> QED
    BY <1>2, <2>1, FS_Subset
<1> HIDE DEF cs, m
<1>4. GoodSeq(AnswerS(cs, m), next)
  <2> DEFINE miss    == [type |-> "Miss", requested |-> m.id]
             found   == Found(cs, m.id)
             f       == [c \in found |-> [type |-> "RetranS", id |-> c, requested |-> m.id]]
             answers == {f[c] : c \in found}
  <2>1. found \subseteq cs
    BY DEF Found
  <2>2. IsFiniteSet(found)
    BY <1>3, <2>1, FS_Subset
  <2>3. IsFiniteSet(answers)
    <3> HIDE DEF f, found
    <3> QED
      BY <2>2, ValuesFinite
  <2>4. \A x \in answers : Good(x, next)
    <3>1. ASSUME NEW c \in found PROVE Good(f[c], next)
      <4>1. f[c] = [type |-> "RetranS", id |-> c, requested |-> m.id] /\ c \in 0..(next - 1)
        BY <1>2, <2>1
      <4> HIDE DEF f
      <4> QED
        BY <4>1 DEF Good, Carries
    <3> HIDE DEF f, found
    <3> QED
      BY <3>1
  <2>5. GoodSeq(SX!SetToSeq(answers), next)
    <3> HIDE DEF answers
    <3> QED
      BY <2>3, <2>4, SetToSeqType, GoodSeqOf
  <2>6. GoodSeq(<<miss>>, next)
    <3>1. Good(miss, next)
      BY DEF Good, Carries
    <3> HIDE DEF miss
    <3> QED
      BY <3>1, GoodSeqFew
  <2>7. AnswerS(cs, m) \in {<<miss>>, SX!SetToSeq(answers)}
    <3>1. answers = {[type |-> "RetranS", id |-> c, requested |-> m.id] : c \in Found(cs, m.id)}
      OBVIOUS
    <3> HIDE DEF answers
    <3> QED
      BY <3>1 DEF AnswerS
  <2> HIDE DEF answers, miss
  <2> QED
    BY <2>5, <2>6, <2>7
<1>5. GoodSeq(AnswerM(cs, m), next)
  <2> DEFINE had     == m.ids \cap cs
             f       == [c \in had |-> [type |-> "RetranM", rbi |-> m.rbi, id |-> c]]
             answers == {f[c] : c \in had}
  <2>1. IsFiniteSet(had)
    BY <1>3, FS_Subset
  <2>2. IsFiniteSet(answers)
    <3> HIDE DEF f, had
    <3> QED
      BY <2>1, ValuesFinite
  <2>3. \A x \in answers : Good(x, next)
    <3>1. ASSUME NEW c \in had PROVE Good(f[c], next)
      <4>1. f[c] = [type |-> "RetranM", rbi |-> m.rbi, id |-> c] /\ c \in 0..(next - 1)
        BY <1>2
      <4> HIDE DEF f
      <4> QED
        BY <4>1 DEF Good, Carries
    <3> HIDE DEF f, had
    <3> QED
      BY <3>1
  <2>4. AnswerM(cs, m) = SX!SetToSeq(answers)
    <3>1. answers = {[type |-> "RetranM", rbi |-> m.rbi, id |-> c] : c \in m.ids \cap cs}
      OBVIOUS
    <3> HIDE DEF answers
    <3> QED
      BY <3>1 DEF AnswerM
  <2> HIDE DEF answers
  <2> QED
    BY <2>2, <2>3, <2>4, SetToSeqType, GoodSeqOf
<1>6. GoodLinks(down', next)
  BY <1>1, <1>4, <1>5, SendDownGood DEF IInv
<1> QED
  BY <1>1, <1>6 DEF IInv

\* No timer hands a capsule to the subscriber.
LEMMA TimeoutsDeliver ==
  ASSUME IInv, LastAssumption, DrtpChainAssumption, NEW r \in Routers, Timeouts(r)
  PROVE  IInv' /\ UNCHANGED <<next, app>>
<1>1. IsState(router[r])
  BY DEF IInv
<1>2. ASSUME NEW d \in DataIds, WaitTimeout(r, d) PROVE IInv' /\ UNCHANGED <<next, app>>
  BY <1>1, <1>2, WaitForNextCapsuleDelayedTaskQuiet, QuietKeeps DEF WaitTimeout
<1>3. ASSUME NEW t, SingleTimeout(r, t) PROVE IInv' /\ UNCHANGED <<next, app>>
  BY <1>1, <1>3, RetransSingleTimeoutQuiet, QuietKeeps DEF SingleTimeout
<1>4. ASSUME NEW t, BatchTimeout(r, t) PROVE IInv' /\ UNCHANGED <<next, app>>
  BY <1>1, <1>4, RetransBatchTimeoutQuiet, QuietKeeps DEF BatchTimeout
<1>5. ASSUME NEW w, ReportTimeout(r, w) PROVE IInv' /\ UNCHANGED <<next, app>>
  BY <1>1, <1>5, WaitToRequestMQuiet, QuietKeeps DEF ReportTimeout
<1> QED
  BY <1>2, <1>3, <1>4, <1>5 DEF Timeouts

\* No loss does.
LEMMA LoseDelivers ==
  ASSUME IInv, NEW h \in Hops, Lose(h)
  PROVE  IInv' /\ UNCHANGED <<next, app>>
<1>1. UNCHANGED <<next, router, app>>
  BY DEF Lose
<1>2. GoodLinks(down', next)
  <2>1. \/ down[h] # <<>> /\ down' = Taken(down, h)
        \/ down' = down
    BY DEF Lose
  <2> QED
    BY <2>1, TakenGood DEF IInv
<1> QED
  BY <1>1, <1>2 DEF IInv

\* At first nothing is published, stored or under way.
LEMMA StartsEmpty ==
  ASSUME LastAssumption, DrtpChainAssumption, Init
  PROVE  IInv /\ Stream!Init
<1>1. /\ next = 0 /\ app = <<>> /\ down = [h \in Hops |-> <<>>]
      /\ router = [r \in Routers |-> Router(r)!NewCapsuleForwardingStates(Primary, FALSE)]
  BY DEF Init, NoMessages
<1>2. ASSUME NEW r \in Routers
      PROVE  IsState(router[r]) /\ router[r].out = {} /\ router[r].localCs = {}
  BY <1>1 DEF IsState, Router!NewCapsuleForwardingStates
<1>3. GoodLinks(down, 0)
  BY <1>1, GoodSeqFew DEF GoodLinks
<1>4. DOMAIN router = Routers
  BY <1>1
<1>5. app \in Seq(router[Last].transmittedDataIds)
  BY <1>1
<1>6. next \in 0..(MaxDataId + 1)
  BY <1>1, DrtpChainAssumption
<1> QED
  BY <1>1, <1>2, <1>3, <1>4, <1>5, <1>6 DEF IInv, Stream!Init

\* Every step keeps the invariant and is one of StreamDelivery or none.
LEMMA StepsDeliver ==
  ASSUME IInv, LastAssumption, DrtpChainAssumption, [Next]_vars
  PROVE  IInv' /\ [Stream!Next]_<<next, app>>
<1>1. CASE Publish
  BY <1>1, PublishDelivers DEF Stream!Next
<1>2. ASSUME NEW r \in Routers, ReceiveDown(r) PROVE IInv' /\ [Stream!Next]_<<next, app>>
  BY <1>2, ReceiveDownDelivers DEF Stream!Next
<1>3. ASSUME NEW r \in Routers, ReceiveUp(r) PROVE IInv' /\ [Stream!Next]_<<next, app>>
  BY <1>3, ReceiveUpDelivers
<1>4. ASSUME NEW r \in Routers, Timeouts(r) PROVE IInv' /\ [Stream!Next]_<<next, app>>
  BY <1>4, TimeoutsDeliver
<1>5. ASSUME NEW h \in Hops, Lose(h) PROVE IInv' /\ [Stream!Next]_<<next, app>>
  BY <1>5, LoseDelivers
<1>6. CASE UNCHANGED vars
  BY <1>6 DEF vars, IInv
<1> QED
  BY <1>1, <1>2, <1>3, <1>4, <1>5, <1>6 DEF Next, Step

\* What is stored or under way was published, and what the subscriber was handed is marked
\* at the last router: the invariant the next theorem rests on.
THEOREM PublishedAndMarked == Spec => []IInv
<1>1. Init => IInv
  BY StartsEmpty, LastAssumption, DrtpChainAssumption
<1>2. IInv /\ [Next]_vars => IInv'
  BY StepsDeliver, LastAssumption, DrtpChainAssumption
<1> QED
  BY <1>1, <1>2, PTL DEF Spec

\* The subscriber is handed published capsules only, one by one and each once, whatever
\* originals, copies, answers, timers and losses race (the tests of transmittedDataIds in
\* every handler of lltc-strategy-service-sublayer.cpp that calls deliverCapsule).
THEOREM ChainDelivers == Spec => Delivers
<1>1. Init => Stream!Init
  BY StartsEmpty, LastAssumption, DrtpChainAssumption
<1>2. IInv /\ [Next]_vars => [Stream!Next]_<<next, app>>
  BY StepsDeliver, LastAssumption, DrtpChainAssumption
<1> QED
  BY <1>1, <1>2, PublishedAndMarked, PTL DEF Spec, Delivers, Stream!Spec
=============================================================================
