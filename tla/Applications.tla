----------------------------- MODULE Applications -----------------------------
(***************************************************************************)
(* The applications at the two ends, of three kinds: PMUs that answer one  *)
(* Interest with a stream of capsules (LltcPMUApp, GenericPMUApp) or with  *)
(* one Data (PMUApp), and PDCs that send the Interests and take what comes *)
(* back (LltcPDCApp, GenericPDCApp, PDCApp).  The network between them is  *)
(* one that loses and reorders packets; it tags an Interest with the RSG   *)
(* of the PDC that sent it.  A URI is the sequence of its pieces, so that  *)
(* one prefix may begin another.                                           *)
(***************************************************************************)
EXTENDS Integers, Sequences, FiniteSets, Functions

CONSTANTS
  Pmus, Pdcs,
  Prefix,          \* pmuName, as a sequence of pieces
  Subscriptions,   \* which PMUs were added to a PDC
  Piat,            \* the time between two capsules
  Second,
  ControlTime,     \* Seconds(15.0)
  MaxCapsules,     \* bound on the capsules of a PMU
  MaxInFlight,     \* what the network holds
  MaxTime

Kinds == {"lltc", "generic", "ndn"}
Never == -1
NoArrival == [pdc |-> {}, queue |-> {}, from |-> {}]

ApplicationsAssumption ==
  /\ Subscriptions \in [Pdcs -> SUBSET Pmus]
  /\ Piat \in Nat \ {0} /\ Second \in Nat \ {0} /\ ControlTime \in Nat
  /\ {MaxCapsules, MaxInFlight, MaxTime} \subseteq Nat
  /\ IsFiniteSet(Pmus)
  /\ Prefix \in [Pmus -> Seq(STRING)]
  /\ \A a, b \in Pmus : Prefix[a] = Prefix[b] => a = b
  /\ \A a \in Pmus : "/Capsule/" \notin Range(Prefix[a])   \* no PMU has it in its name

VARIABLES
  kind, now,
  dataId,       \* of each PMU
  sendAt,       \* PMU, PDC -> when the stream that the PDC's Interest began goes on
  interestAt,   \* PDC -> when SendInterest runs
  controlAt,    \* PDC -> when SendUpSideControlMessage runs
  net,          \* the packets on their way
  lastSent,     \* PMU, PDC -> the last capsule sent for it and when (a history)
  arrival       \* the last Data that a PDC queued (a history)

vars == <<kind, now, dataId, sendAt, interestAt, controlAt, net, lastSent, arrival>>

\* A PDC begins to send a second after it is started.
Init ==
  /\ kind \in Kinds
  /\ now = 0
  /\ dataId = [m \in Pmus |-> 0]
  /\ sendAt = [m \in Pmus |-> [d \in Pdcs |-> Never]]
  /\ interestAt = [d \in Pdcs |-> Second]
  /\ controlAt = [d \in Pdcs |-> IF kind = "lltc" THEN ControlTime ELSE Never]
  /\ net = {}
  /\ lastSent = [m \in Pmus |-> [d \in Pdcs |-> [id |-> Never, at |-> Never]]]
  /\ arrival = NoArrival

Interest(d, m) == [type |-> "Interest", pdc |-> d, uri |-> Prefix[m], pmu |-> m, id |-> Never]
Capsule(m, d, id) ==
  [type |-> "Data", pdc |-> d, pmu |-> m, id |-> id,
   uri |-> Prefix[m] \o (CASE kind = "lltc" -> <<"/Capsule/">> [] kind = "generic" -> <<"/Data/">>
                           [] OTHER -> <<>>)]
Control(d, m) ==
  [type |-> "Control", pdc |-> d, pmu |-> m, id |-> Never, uri |-> Prefix[m] \o <<"/UpSideControl/">>]

\* Any of the packets sent may be lost.
Sends(left, packets) ==
  \E kept \in SUBSET packets : Cardinality(left \cup kept) <= MaxInFlight /\ net' = left \cup kept

-------------------------------------------------------------------------------
\* All Interests of a PDC are sent at once.
SendInterest(d) ==
  /\ kind # "ndn"
  /\ interestAt[d] = now
  /\ interestAt' = [interestAt EXCEPT ![d] = Never]
  /\ Sends(net, {Interest(d, m) : m \in Subscriptions[d]})
  /\ UNCHANGED <<kind, now, dataId, sendAt, controlAt, lastSent, arrival>>

\* The PDC of the NDN kind asks again each second.
SendInterestAgain(d) ==
  /\ kind = "ndn"
  /\ interestAt[d] = now
  /\ interestAt' = [interestAt EXCEPT ![d] = now + Second]
  /\ Sends(net, {Interest(d, m) : m \in Subscriptions[d]})
  /\ UNCHANGED <<kind, now, dataId, sendAt, controlAt, lastSent, arrival>>

SendUpSideControlMessage(d) ==
  /\ controlAt[d] = now
  /\ controlAt' = [controlAt EXCEPT ![d] = Never]
  /\ Sends(net, {Control(d, m) : m \in Subscriptions[d]})
  /\ UNCHANGED <<kind, now, dataId, sendAt, interestAt, lastSent, arrival>>

\* One capsule, with the next id of the PMU, and the next run of the stream.
SendData(m, d, left) ==
  /\ Sends(left, {Capsule(m, d, dataId[m])})
  /\ lastSent' = [lastSent EXCEPT ![m][d] = [id |-> dataId[m], at |-> now]]
  /\ dataId' = [dataId EXCEPT ![m] = @ + 1]
  /\ sendAt' = [sendAt EXCEPT ![m][d] = now + Piat]

OnInterest(p) ==
  /\ kind # "ndn"
  /\ p \in net
  /\ p.type = "Interest"
  /\ dataId[p.pmu] < MaxCapsules
  /\ SendData(p.pmu, p.pdc, net \ {p})
  /\ UNCHANGED <<kind, now, interestAt, controlAt, arrival>>

\* The PMU of the NDN kind has no stream: one Data answers one Interest.
AnswerInterest(p) ==
  /\ kind = "ndn"
  /\ p \in net
  /\ p.type = "Interest"
  /\ Sends(net \ {p}, {Capsule(p.pmu, p.pdc, Never)})
  /\ UNCHANGED <<kind, now, dataId, sendAt, interestAt, controlAt, lastSent, arrival>>

Continue(m, d) ==
  /\ sendAt[m][d] = now
  /\ dataId[m] < MaxCapsules
  /\ SendData(m, d, net)
  /\ UNCHANGED <<kind, now, interestAt, controlAt, arrival>>

Begins(uri, m) == Len(uri) >= Len(Prefix[m]) /\ SubSeq(uri, 1, Len(Prefix[m])) = Prefix[m]

\* Mutant: the name need only begin with the prefix.
ParseDataUriPrefixOnly(uri, m) == Begins(uri, m)

\* The prefix of a PMU may begin that of another: what follows it decides.
ParseDataUri(uri, m) ==
  /\ Begins(uri, m)
  /\ Len(uri) > Len(Prefix[m])
  /\ uri[Len(Prefix[m]) + 1] = "/Capsule/"

\* A PDC of the LLTC kind queues a capsule for the first PMU whose prefix the name
\* parses with; the order of the map of PMUs is unknown.
OnData(p) ==
  /\ kind = "lltc"
  /\ p \in net
  /\ p.type = "Data"
  /\ net' = net \ {p}
  /\ LET fits == {m \in Subscriptions[p.pdc] : ParseDataUri(p.uri, m)} IN
       IF fits = {} THEN UNCHANGED arrival
       ELSE \E m \in fits : arrival' = [pdc |-> {p.pdc}, queue |-> {m}, from |-> {p.pmu}]
  /\ UNCHANGED <<kind, now, dataId, sendAt, interestAt, controlAt, lastSent>>

\* The other kinds only log what arrives.
LogData(p) ==
  /\ kind # "lltc"
  /\ p \in net
  /\ p.type = "Data"
  /\ net' = net \ {p}
  /\ UNCHANGED <<kind, now, dataId, sendAt, interestAt, controlAt, lastSent, arrival>>

\* A PMU only logs a control message.
OnControl(p) ==
  /\ p \in net
  /\ p.type = "Control"
  /\ net' = net \ {p}
  /\ UNCHANGED <<kind, now, dataId, sendAt, interestAt, controlAt, lastSent, arrival>>

\* Something runs at this moment; MaxCapsules ends a run.
Due ==
  \/ \E d \in Pdcs : now \in {interestAt[d], controlAt[d]}
  \/ \E m \in Pmus, d \in Pdcs : sendAt[m][d] = now

Tick ==
  /\ now < MaxTime
  /\ ~Due
  /\ now' = now + 1
  /\ UNCHANGED <<kind, dataId, sendAt, interestAt, controlAt, net, lastSent, arrival>>

Next ==
  \/ \E d \in Pdcs : SendInterest(d) \/ SendInterestAgain(d) \/ SendUpSideControlMessage(d)
  \/ \E p \in net : OnInterest(p) \/ AnswerInterest(p) \/ OnData(p) \/ LogData(p) \/ OnControl(p)
  \/ \E m \in Pmus, d \in Pdcs : Continue(m, d)
  \/ Tick

Spec == Init /\ [][Next]_vars

-------------------------------------------------------------------------------
TypeOK ==
  /\ kind \in Kinds
  /\ now \in 0..MaxTime
  /\ dataId \in [Pmus -> 0..MaxCapsules]
  /\ sendAt \in [Pmus -> [Pdcs -> 0..(MaxTime + Piat) \cup {Never}]]
  /\ Cardinality(net) <= MaxInFlight

\* A capsule is queued with those of the PMU that sent it, whichever prefixes begin
\* with one another.
QueuesApart == arrival.queue = arrival.from

\* Streams of one PMU share its ids: no id is used for two of them.
IdsUsedOnce ==
  \A m \in Pmus : \A d, e \in Pdcs :
    d # e /\ lastSent[m][d].id # Never => lastSent[m][d].id # lastSent[m][e].id

\* A stream sends a capsule each Piat and goes on for ever; it skips an id only when
\* the PMU sends to another PDC too.
StreamsPaced ==
  [][\A m \in Pmus, d \in Pdcs :
       sendAt[m][d] # Never =>
         /\ sendAt'[m][d] # Never
         /\ lastSent'[m][d] # lastSent[m][d] =>
              /\ lastSent'[m][d].at = lastSent[m][d].at + Piat
              /\ (\A e \in Pdcs \ {d} : sendAt[m][e] = Never) =>
                   lastSent'[m][d].id = lastSent[m][d].id + 1]_vars
===============================================================================
