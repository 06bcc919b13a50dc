---------------------------- MODULE PitForwarder ----------------------------
(***************************************************************************)
(* The pipelines of a forwarder (forwarder.cpp) with its pending Interest  *)
(* table, dead nonces and content store, for three set-ups:                *)
(*   - plain: each Interest is answered by one Data (best-route);          *)
(*   - lltc: Data below the LLTC prefix keeps the entry it matches open for *)
(*     PitDuration more, whatever the lifetime of the Interest;            *)
(*   - streaming: the same for the baselines, whose strategy removes the   *)
(*     in-record of the face it sends Data to.                             *)
(* All faces are point to point.  What the LLTC strategy and the baselines *)
(* do with a capsule is modelled in LltcRouter and the chains; here they   *)
(* pass it on to the face downwards, or not.                               *)
(***************************************************************************)
EXTENDS Integers, FiniteSets, FiniteSetsExt, Functions, SequencesExt

CONSTANTS
  Faces,
  Up, Down,         \* the faces of the strategy's entries in both directions
  Names,            \* names of Interests
  Nonces,
  Datas,            \* Data, by increasing name
  Matches,          \* Data -> the names it satisfies
  StreamNames,      \* names below the prefix of the streaming extensions
  StreamDatas,
  MustBeFresh,      \* names whose Interests ask for fresh Data
  FreshnessPeriod,  \* Data -> milliseconds
  DnlLifetime,      \* lifetime of a dead nonce
  Lifetime,         \* InterestLifetime
  PitDuration,      \* extensionLltcPitDuration, extensionStreamingPitDuration
  CsLimit,
  Callers,          \* faces Interests come from
  Configs,          \* [mode, hasUp, fib, names, interests]: set-ups to try; fib lists
                    \* next hops, interests bounds the Interests received
  MaxTime           \* bound

VARIABLES
  config,
  pit,        \* partial: name -> entry
  deadNonces, \* <<name, nonce>>
  cs,         \* m_table, in the order of the policy
  now,
  asked,      \* history: face -> Interests received
  answers,    \* history of the plain set-up: face -> Data and Nacks sent
  lastSent,   \* history: name -> next hop -> the last Interest sent and unanswered
  streamed    \* history: name -> when stream Data came last, no Interest or Nack since

forwarderVars == <<config, pit, deadNonces, cs, now, asked, answers, lastSent, streamed>>

Never == -1
Modes == {"plain", "lltc", "streaming"}

PitForwarderAssumption ==
  /\ Up \in Faces /\ Down \in Faces /\ Up # Down
  /\ IsFiniteSet(Names) /\ Nonces \subseteq Nat /\ Callers \subseteq Faces
  /\ Datas \subseteq Nat
  /\ Matches \in [Datas -> SUBSET Names]
  /\ \A d \in StreamDatas, e \in Datas \ StreamDatas :
       Matches[d] \cap Matches[e] = {}   \* no Interest asks for a name above the prefix
  /\ FreshnessPeriod \in [Datas -> Nat]
  /\ \A c \in Configs : c.mode \in Modes /\ c.hasUp \in BOOLEAN /\ c.fib \in Seq(Faces)
                       /\ c.names \subseteq Names /\ c.interests \in Nat
  /\ {Lifetime, PitDuration, DnlLifetime, MaxTime, CsLimit} \subseteq Nat
  /\ MaxTime < DnlLifetime   \* dead nonces stay dead

IsStreaming == config.mode # "plain"

NewEntry == [in |-> <<>>, out |-> <<>>, satisfied |-> FALSE, freshness |-> 0, timer |-> Never]
Unsent == [nonce |-> Never, from |-> Up]

Init ==
  /\ config \in Configs
  /\ pit = <<>>
  /\ deadNonces = {}
  /\ cs = <<>>
  /\ now = 0
  /\ asked = [f \in Faces |-> 0]
  /\ answers = [f \in Faces |-> 0]
  /\ lastSent = [n \in Names |-> [f \in Faces |-> Unsent]]
  /\ streamed = [n \in Names |-> Never]

Put(fn, x, y) == [z \in DOMAIN fn \cup {x} |-> IF z = x THEN y ELSE fn[z]]
Without(fn, S) == Restrict(fn, DOMAIN fn \ S)

Answered(faces) ==
  answers' = [f \in Faces |-> answers[f] + IF f \in faces /\ ~ IsStreaming THEN 1 ELSE 0]

-------------------------------------------------------------------------------
(* Content store.                                                            *)

FirstByName(datas) == Min(datas)

IsFresh(entry) == entry.freshUntil >= now

\* What the policy evicts: with PriorityFifoPolicy the first stale entry, if there is
\* one, otherwise the first.
Evicted(table) ==
  LET stale == {i \in DOMAIN table : ~ IsFresh(table[i])}
  IN  IF config.mode = "lltc" /\ stale # {} THEN Min(stale) ELSE 1

\* Where the entry of a Data is, and the table without it.
EntryOf(d) == CHOOSE i \in DOMAIN cs : cs[i].data = d
Erased(d) == IF \E i \in DOMAIN cs : cs[i].data = d THEN RemoveAt(cs, EntryOf(d)) ELSE cs

\* insert: a known Data is refreshed, its entry goes to the end of its queue.
Insert(d) ==
  LET table == Append(Erased(d), [data |-> d, freshUntil |-> now + FreshnessPeriod[d]])
  IN  IF CsLimit = 0 THEN cs
      ELSE IF Len(table) > CsLimit THEN RemoveAt(table, Evicted(table)) ELSE table

CanSatisfy(entry, n) == n \in Matches[entry.data] /\ (n \in MustBeFresh => IsFresh(entry))

\* findImpl: the matches.
Cached(n) == {cs[i].data : i \in {j \in DOMAIN cs : CanSatisfy(cs[j], n)}}

\* beforeUse: the least recently used policy moves the entry to the end.
Used(d) ==
  IF config.mode = "lltc" THEN cs
  ELSE Append(Erased(d), cs[EntryOf(d)])

-------------------------------------------------------------------------------
(* The table.                                                                *)

HasPendingOutRecords(e) == \E u \in DOMAIN e.out : e.out[u].expiry >= now /\ ~ e.out[u].nacked

\* A nonce known from another face or sent before, and not a copy from the same face.
HasDuplicateNonce(e, k, f) ==
  /\ (\E g \in DOMAIN e.in : e.in[g].nonce = k) \/ (\E u \in DOMAIN e.out : e.out[u].nonce = k)
  /\ ~ (f \in DOMAIN e.in /\ e.in[f].nonce = k)

CanForwardToLegacy(e, u) ==
  /\ ~ (u \in DOMAIN e.out /\ e.out[u].expiry >= now)
  /\ \E g \in DOMAIN e.in \ {u} : e.in[g].expiry >= now

Satisfied(e, d) == [e EXCEPT !.satisfied = TRUE, !.freshness = FreshnessPeriod[d]]

\* sendData deletes the in-record of the face it sends to, except for LLTC Data.
SendData(e, d, faces) ==
  IF config.mode = "lltc" /\ d \in StreamDatas THEN e ELSE [e EXCEPT !.in = Without(@, faces)]

SetExpiryTimer(e, duration) == [e EXCEPT !.timer = now + duration]

\* Mutant: only what an unsatisfied Interest sent to the face of the Data is dead.
DeadNoncesOfFew(n, e, faces) ==
  IF e.satisfied
  THEN {<<n, e.out[u].nonce>> : u \in faces \cap DOMAIN e.out}
  ELSE {}

\* insertDeadNonceList: the nonces to add, of the out-records with these faces.
DeadNonces(n, e, faces) ==
  IF e.satisfied => n \in MustBeFresh /\ e.freshness < DnlLifetime
  THEN {<<n, e.out[u].nonce>> : u \in faces \cap DOMAIN e.out}
  ELSE {}

-------------------------------------------------------------------------------
(* Interests.                                                                *)

\* lookupFib: no Interest has a forwarding hint.
Fib == config.fib

\* onOutgoingInterest, to each of the faces.
Outgoing(e, faces, k) ==
  [e EXCEPT !.out = [u \in DOMAIN @ \cup faces |->
      IF u \in faces THEN [nonce |-> k, expiry |-> now + Lifetime, nacked |-> FALSE] ELSE @[u]]]

\* afterReceiveInterest of best-route: the first next hop that may be used.
BestRoute(e) ==
  LET usable == {i \in DOMAIN Fib : CanForwardToLegacy(e, Fib[i])}
  IN  IF usable = {} THEN {} ELSE {Fib[Min(usable)]}

\* afterReceiveInterest of the LLTC strategy and the baselines: up, or where there is no
\* entry upwards all next hops.
StreamRoute == IF config.hasUp THEN {Up} ELSE ToSet(Fib)

NextHops(n, e) == IF IsStreaming /\ n \in StreamNames THEN StreamRoute ELSE BestRoute(e)

OnInterestLoop(f) ==
  /\ Answered({f})
  /\ UNCHANGED <<pit, deadNonces, cs, lastSent, streamed>>

OnContentStoreHit(f, n, e, d) ==
  /\ cs' = Used(d)
  /\ pit' = Put(pit, n, SetExpiryTimer(SendData(Satisfied(e, d), d, {f}), 0))
  /\ Answered({f})
  /\ streamed' = [streamed EXCEPT ![n] = Never]
  /\ UNCHANGED <<deadNonces, lastSent>>

\* An Interest that finds no next hop is rejected: the entry ends now.
OnContentStoreMiss(f, n, e, k) ==
  LET recorded == [e EXCEPT !.in = Put(@, f, [nonce |-> k, expiry |-> now + Lifetime])]
      timed == SetExpiryTimer(recorded, Max({recorded.in[g].expiry : g \in DOMAIN recorded.in}) - now)
      faces == NextHops(n, timed)
      sends == ~ HasPendingOutRecords(timed)
  IN  /\ pit' = Put(pit, n, IF ~ sends THEN timed
                            ELSE IF faces = {} THEN SetExpiryTimer(timed, 0)
                            ELSE Outgoing(timed, faces, k))
      /\ lastSent' = IF sends
                     THEN [lastSent EXCEPT ![n] = [u \in Faces |->
                             IF u \in faces THEN [nonce |-> k, from |-> f] ELSE @[u]]]
                     ELSE lastSent
      /\ streamed' = [streamed EXCEPT ![n] = Never]
      /\ UNCHANGED <<deadNonces, cs, answers>>

OnIncomingInterest(f, n, k) ==
  LET e == IF n \in DOMAIN pit THEN pit[n] ELSE NewEntry
  IN  /\ FoldFunctionOnSet(LAMBDA x, y : x + y, 0, asked, Faces) < config.interests
      /\ asked' = [asked EXCEPT ![f] = @ + 1]
      /\ UNCHANGED <<config, now>>
      /\ IF <<n, k>> \in deadNonces \/ HasDuplicateNonce(e, k, f)
         THEN OnInterestLoop(f)
         ELSE IF e.in = <<>> /\ Cached(n) # {}
         THEN OnContentStoreHit(f, n, e, FirstByName(Cached(n)))
         ELSE OnContentStoreMiss(f, n, e, k)

\* onInterestFinalize
OnInterestFinalize(n) ==
  /\ pit[n].timer = now
  /\ deadNonces' = deadNonces \cup DeadNonces(n, pit[n], Faces)
  /\ pit' = Without(pit, {n})
  /\ lastSent' = IF pit[n].satisfied THEN [lastSent EXCEPT ![n] = [f \in Faces |-> Unsent]]
                 ELSE lastSent
  /\ UNCHANGED <<config, cs, now, asked, answers, streamed>>

\* onIncomingNack
OnIncomingNack(f, n, k) ==
  /\ f \in DOMAIN pit[n].out
  /\ pit[n].out[f].nonce = k
  /\ LET e == [pit[n] EXCEPT !.out[f].nacked = TRUE]
     IN  pit' = Put(pit, n, IF HasPendingOutRecords(e) THEN e ELSE SetExpiryTimer(e, 0))
  /\ streamed' = [streamed EXCEPT ![n] = Never]
  /\ UNCHANGED <<config, deadNonces, cs, now, asked, answers, lastSent>>

-------------------------------------------------------------------------------
(* Data.                                                                     *)

\* Mutant: the first Data does not keep the entry.
StreamKeptLate(e, d) ==
  IF e.satisfied THEN SetExpiryTimer(Satisfied(e, d), PitDuration) ELSE Satisfied(e, d)

StreamKept(e, d) == SetExpiryTimer(Satisfied(e, d), PitDuration)

\* The branches of the streaming extensions.  passed: whether the strategy passes the
\* Data on, which only in the streaming set-up changes the entry.
OnStreamData(n, d, transient, passed) ==
  LET sent == IF passed THEN SendData(pit[n], d, {Down}) ELSE pit[n]
  IN  /\ cs' = IF transient THEN cs ELSE Insert(d)
      /\ pit' = Put(pit, n, StreamKept(sent, d))
      /\ streamed' = [streamed EXCEPT ![n] = now]
      /\ lastSent' = [lastSent EXCEPT ![n] = [f \in Faces |-> Unsent]]
      /\ UNCHANGED <<deadNonces, answers>>

PendingDownstreams(e, f) == {g \in DOMAIN e.in \ {f} : e.in[g].expiry > now}

\* An entry after Data satisfied it: with one match the in-records answered are deleted,
\* with several all of them.
AnsweredEntry(n, f, d, alone) ==
  LET e == SetExpiryTimer(Satisfied(pit[n], d), 0)
      sent == IF alone THEN SendData(e, d, PendingDownstreams(pit[n], f)) ELSE [e EXCEPT !.in = <<>>]
  IN  [sent EXCEPT !.out = Without(@, {f})]

\* The rest of onIncomingData.
OnPlainData(f, d, matched) ==
  /\ cs' = IF IsStreaming THEN cs ELSE Insert(d)
  /\ pit' = [n \in DOMAIN pit |->
               IF n \in matched THEN AnsweredEntry(n, f, d, Cardinality(matched) = 1) ELSE pit[n]]
  /\ deadNonces' = deadNonces \cup UNION {DeadNonces(n, Satisfied(pit[n], d), {f}) : n \in matched}
  /\ Answered(UNION {PendingDownstreams(pit[n], f) : n \in matched})
  /\ lastSent' = [n \in Names |->
                    IF n \in matched THEN [u \in Faces |-> Unsent] ELSE lastSent[n]]
  /\ UNCHANGED streamed

\* Unsolicited Data is dropped; in the lltc set-up the strategy gets it (LltcRouter).
OnIncomingData(f, d, transient, passed) ==
  LET matched == {n \in DOMAIN pit : n \in Matches[d]}
  IN  /\ matched # {}
      /\ transient => config.mode = "lltc"
      /\ passed => config.mode = "streaming"
      /\ f \in ToSet(Fib) \/ (config.hasUp /\ f = Up)
      /\ IF IsStreaming /\ d \in StreamDatas
         THEN \E n \in matched : OnStreamData(n, d, transient, passed)
         ELSE OnPlainData(f, d, matched)
      /\ UNCHANGED <<config, now, asked>>

Tick ==
  /\ now < MaxTime
  /\ \A n \in DOMAIN pit : pit[n].timer # now
  /\ now' = now + 1
  /\ UNCHANGED <<config, pit, deadNonces, cs, asked, answers, lastSent, streamed>>

Next ==
  \/ \E f \in Callers, n \in config.names, k \in Nonces : OnIncomingInterest(f, n, k)
  \/ \E f \in Faces, n \in DOMAIN pit, k \in Nonces : OnIncomingNack(f, n, k)
  \/ \E n \in DOMAIN pit : OnInterestFinalize(n)
  \/ \E f \in Faces, d \in Datas, transient, passed \in BOOLEAN :
        OnIncomingData(f, d, transient, passed)
  \/ Tick
-------------------------------------------------------------------------------
TypeOK ==
  /\ DOMAIN pit \subseteq Names
  /\ \A n \in DOMAIN pit :
       /\ DOMAIN pit[n].in \subseteq Faces /\ DOMAIN pit[n].out \subseteq Faces
       /\ pit[n].timer >= now
  /\ deadNonces \subseteq Names \X Nonces
  /\ Len(cs) <= CsLimit /\ \A i, j \in DOMAIN cs : cs[i].data = cs[j].data => i = j

(***************************************************************************)
(* In the plain set-up no neighbour gets more Data and Nacks than it has   *)
(* sent Interests, however entries, caching, loops and Data for several    *)
(* entries meet.                                                           *)
(***************************************************************************)
OneAnswerPerInterest == \A f \in Faces : answers[f] <= asked[f]

(***************************************************************************)
(* The last Interest sent to a next hop, as long as it is unanswered, is   *)
(* not sent again when it comes back from another face: neither while its  *)
(* entry lives, whatever was recorded since, nor after.                    *)
(***************************************************************************)
NoLoop ==
  \A n \in Names, u, v \in Faces :
    LET sent == lastSent'[n][u]
    IN  sent # lastSent[n][u] /\ sent # Unsent /\ sent.nonce = lastSent[n][v].nonce
          => sent.from = lastSent[n][v].from

LoopsStopped == [][NoLoop]_lastSent

(***************************************************************************)
(* An entry that a stream uses stays for PitDuration after each Data, long *)
(* after the Interest has expired, unless a new Interest or a Nack comes.  *)
(***************************************************************************)
StreamStaysOpen ==
  \A n \in Names :
    streamed[n] # Never /\ now < streamed[n] + PitDuration => n \in DOMAIN pit
===============================================================================
