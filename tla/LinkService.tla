----------------------------- MODULE LinkService -----------------------------
(***************************************************************************)
(* One direction of a link: the generic link service at the sending end    *)
(* gives a packet its fields, cuts it into fragments and marks fragments   *)
(* while its queue is long; the one at the receiving end puts fragments    *)
(* together and turns fields into tags.                                    *)
(*                                                                         *)
(* Reliability, local fields, self-learning and geo tags are off, as in    *)
(* the scenarios.                                                          *)
(***************************************************************************)
EXTENDS Integers, Sequences, FiniteSets, FiniteSetsExt, Functions

CONSTANTS
  Packets,      \* packets to send: [type, size, and a value or None for each tag]
  None,
  Mtu,
  MarkSize,     \* CONGESTION_MARK_SIZE
  Interval0,    \* baseCongestionMarkingInterval
  MaxSent, MaxLosses, MaxTime   \* bounds

VARIABLES
  allowFragmentation, allowReassembly,   \* options of the two ends
  lastSeqNo, nextMarkTime, nMarked,      \* m_lastSeqNo, m_nextMarkTime, m_nMarkedSince...
  wire,         \* fragments under way, in order
  parts,        \* fragments the receiving end keeps
  now,
  nOutOverMtu,
  sent,         \* history: packets sent, in order
  received,     \* history: packets received: [of, packet], of counting what was sent
  longSince,    \* history: since when every fragment found the queue long
  losses

linkVars == <<allowFragmentation, allowReassembly, lastSeqNo, nextMarkTime, nMarked, wire, parts,
              now, nOutOverMtu, sent, received, longSince, losses>>

Never == -1
Tags == {"hops", "path", "transient", "rsg", "mark", "pitToken"}

LinkServiceAssumption ==
  /\ \A p \in Packets : p.type \in {"Interest", "Data", "Nack"} /\ p.size \in Nat \ {0}
  /\ Mtu \in Nat /\ MarkSize \in Nat /\ MarkSize < Mtu
  /\ {Interval0, MaxSent, MaxLosses, MaxTime} \subseteq Nat

Init ==
  /\ allowFragmentation \in BOOLEAN
  /\ allowReassembly \in BOOLEAN
  /\ lastSeqNo = -2
  /\ nextMarkTime = Never
  /\ nMarked = 0
  /\ wire = <<>>
  /\ parts = {}
  /\ now = 0
  /\ nOutOverMtu = 0
  /\ sent = <<>>
  /\ received = <<>>
  /\ longSince = Never
  /\ losses = 0

-------------------------------------------------------------------------------
(* Congestion marks.                                                         *)

\* baseCongestionMarkingInterval / sqrt(n + 1), rounded down.
Interval(n) == Max({i \in 0..Interval0 : i * i * (n + 1) <= Interval0 * Interval0})

\* Mutant: the time of the next mark outlives the congestion.
CheckCongestionLevelOnce(m, long) ==
  IF long THEN
    IF m.next = Never THEN [m EXCEPT !.next = now + Interval0, !.set = FALSE]
    ELSE IF now >= m.next
    THEN [next |-> m.next + Interval(m.count + 1), count |-> m.count + 1, set |-> TRUE]
    ELSE [m EXCEPT !.set = FALSE]
  ELSE [m EXCEPT !.count = 0, !.set = FALSE]

(***************************************************************************)
(* checkCongestionLevel for a fragment that finds the queue long or not: m *)
(* holds the next time to mark, the number of marks and whether this one   *)
(* is marked.  The next time counts from the last one, not from now.       *)
(***************************************************************************)
CheckCongestionLevel(m, long) ==
  IF long THEN
    IF m.next = Never THEN [m EXCEPT !.next = now + Interval0, !.set = FALSE]
    ELSE IF now >= m.next
    THEN [next |-> m.next + Interval(m.count + 1), count |-> m.count + 1, set |-> TRUE]
    ELSE [m EXCEPT !.set = FALSE]
  ELSE [next |-> Never, count |-> 0, set |-> FALSE]

-------------------------------------------------------------------------------
(* Sending.                                                                  *)

\* encodeLpFields: a missing hop count or LLTC tag is sent as 0.
EncodeLpFields(p) ==
  [t \in Tags |-> IF p[t] = None /\ t \in {"hops", "path", "transient", "rsg"} THEN 0 ELSE p[t]]

\* sendNetPacket: what a fragment may take.
Room == Mtu - MarkSize

\* fragmentPacket
SizesOf(p) ==
  IF ~ allowFragmentation \/ p.size <= Room THEN <<p.size>>
  ELSE LET n == (p.size + Room - 1) \div Room
       IN  [i \in 1..n |-> IF i < n THEN Room ELSE p.size - (n - 1) * Room]

\* assignSequences numbers fragments if there are several.
Fragment(p, i, n, marked) ==
  [of |-> Len(sent) + 1, index |-> i - 1, count |-> n, type |-> p.type,
   seq |-> IF n > 1 THEN lastSeqNo + i ELSE None,
   fields |-> [EncodeLpFields(p) EXCEPT !["mark"] = IF marked THEN 1 ELSE @]]

\* sendLpPacket: a fragment that does not fit is not sent.
Fits(size, marked) == size + (IF marked THEN MarkSize ELSE 0) <= Mtu

NthOf(S, j) == CHOOSE i \in S : Cardinality({k \in S : k <= i}) = j

\* doSendInterest, doSendData, doSendNack.  long says which fragments find the queue long.
Send(p, long) ==
  LET sizes == SizesOf(p)
      n == Len(sizes)
      m0 == [next |-> nextMarkTime, count |-> nMarked, set |-> FALSE]
      marks[i \in 0..n] == IF i = 0 THEN m0 ELSE CheckCongestionLevel(marks[i - 1], long[i])
      fitting == {i \in 1..n : Fits(sizes[i], marks[i].set)}
  IN  /\ Len(sent) < MaxSent
      /\ lastSeqNo' = IF n > 1 THEN lastSeqNo + n ELSE lastSeqNo
      /\ nextMarkTime' = marks[n].next
      /\ nMarked' = marks[n].count
      /\ nOutOverMtu' = nOutOverMtu + n - Cardinality(fitting)
      /\ wire' = wire \o [j \in 1..Cardinality(fitting) |->
                            LET i == NthOf(fitting, j) IN Fragment(p, i, n, marks[i].set)]
      /\ sent' = Append(sent, p)
      /\ longSince' = IF ~ long[n] THEN Never
                      ELSE IF longSince # Never /\ \A i \in 1..n : long[i] THEN longSince ELSE now
      /\ UNCHANGED <<allowFragmentation, allowReassembly, parts, now, received, losses>>

-------------------------------------------------------------------------------
(* Receiving.                                                                *)

\* decodeInterest, decodeData, decodeNack: the fields that become tags.
TagsTaken(type) ==
  CASE type = "Interest" -> {"hops", "rsg", "mark", "pitToken"}
    [] type = "Data" -> {"hops", "path", "transient", "rsg", "mark"}
    [] type = "Nack" -> {"mark"}

DecodeInterest(f) ==
  [t \in Tags |-> IF t \notin TagsTaken("Interest") THEN None
                  ELSE IF t = "hops" THEN f.fields[t] + 1 ELSE f.fields[t]]
DecodeData(f) ==
  [t \in Tags |-> IF t \notin TagsTaken("Data") THEN None
                  ELSE IF t = "hops" THEN f.fields[t] + 1 ELSE f.fields[t]]
DecodeNack(f) == [t \in Tags |-> IF t \in TagsTaken("Nack") THEN f.fields[t] ELSE None]

\* decodeNetPacket: the fields are those of the first fragment.
DecodeNetPacket(f) ==
  [type |-> f.type,
   tags |-> CASE f.type = "Interest" -> DecodeInterest(f)
              [] f.type = "Data" -> DecodeData(f)
              [] f.type = "Nack" -> DecodeNack(f)]

\* receiveFragment: the fragments of a message have one difference of sequence and index.
SameMessage(f, g) == f.count = g.count /\ f.seq - f.index = g.seq - g.index

Passed(f) == received' = Append(received, [of |-> f.of, packet |-> DecodeNetPacket(f)])

\* doReceivePacket
ReceivePacket ==
  /\ wire # <<>>
  /\ wire' = Tail(wire)
  /\ LET f == Head(wire)
         message == {f} \cup {g \in parts : SameMessage(f, g)}
     IN  IF f.count = 1 THEN Passed(f) /\ UNCHANGED parts
         ELSE IF ~ allowReassembly THEN UNCHANGED <<received, parts>>
         ELSE IF Cardinality(message) < f.count
         THEN parts' = parts \cup {f} /\ UNCHANGED received
         ELSE /\ Passed(CHOOSE g \in message : g.index = 0)
              /\ parts' = parts \ message
  /\ UNCHANGED <<allowFragmentation, allowReassembly, lastSeqNo, nextMarkTime, nMarked, now,
                 nOutOverMtu, sent, longSince, losses>>

Lose ==
  /\ wire # <<>>
  /\ losses < MaxLosses
  /\ losses' = losses + 1
  /\ wire' = Tail(wire)
  /\ UNCHANGED <<allowFragmentation, allowReassembly, lastSeqNo, nextMarkTime, nMarked, parts,
                 now, nOutOverMtu, sent, received, longSince>>

\* The reassembler gives a message up: only where a fragment is lost, as links are fast
\* against its timeout.
Timeout ==
  /\ \E f \in parts : parts' = parts \ {g \in parts : SameMessage(f, g)}
  /\ losses > 0
  /\ UNCHANGED <<allowFragmentation, allowReassembly, lastSeqNo, nextMarkTime, nMarked, wire, now,
                 nOutOverMtu, sent, received, longSince, losses>>

Tick ==
  /\ now < MaxTime
  /\ now' = now + 1
  /\ UNCHANGED <<allowFragmentation, allowReassembly, lastSeqNo, nextMarkTime, nMarked, wire, parts,
                 nOutOverMtu, sent, received, longSince, losses>>

Next ==
  \/ \E p \in Packets : \E long \in [DOMAIN SizesOf(p) -> BOOLEAN] : Send(p, long)
  \/ ReceivePacket \/ Lose \/ Timeout \/ Tick

-------------------------------------------------------------------------------
TypeOK ==
  /\ lastSeqNo \in Int /\ nMarked \in Nat /\ nOutOverMtu \in Nat
  /\ \A i \in DOMAIN wire : wire[i].of \in DOMAIN sent
  /\ parts # {} => allowReassembly
  /\ losses \in 0..MaxLosses

\* What the forwarder at the other end relies on: the tags of the DRTP protocol, 0 where
\* a packet had none, and one hop more.
Carried(p, tags) ==
  LET or0(x) == IF x = None THEN 0 ELSE x
  IN  /\ p.type # "Nack" => tags["hops"] = or0(p["hops"]) + 1 /\ tags["rsg"] = or0(p["rsg"])
      /\ p.type = "Data" => tags["path"] = or0(p["path"]) /\ tags["transient"] = or0(p["transient"])

(***************************************************************************)
(* Whatever is lost, a packet received is one that was sent, put together  *)
(* from its own fragments, once and in the order of sending, with its      *)
(* tags; if nothing is lost all arrive that the options let through.  And  *)
(* with fragmentation on no fragment is too big, marked or not.            *)
(***************************************************************************)
WholeWithTags ==
  /\ \A i \in DOMAIN received :
       LET r == received[i] IN
       /\ r.packet.type = sent[r.of].type
       /\ Carried(sent[r.of], r.packet.tags)
       /\ \A j \in DOMAIN received : j < i => received[j].of < r.of
  /\ losses = 0 /\ wire = <<>> /\ allowFragmentation /\ allowReassembly =>
       Len(received) = Len(sent)
  /\ allowFragmentation => nOutOverMtu = 0

(***************************************************************************)
(* A fragment is marked only if every fragment since one at least          *)
(* Interval0 ago found the queue long, and the next mark of one congestion *)
(* comes no earlier than the intervals between them allow.                 *)
(***************************************************************************)
MarksEarned ==
  /\ (nextMarkTime = Never) = (longSince = Never)
  /\ longSince # Never =>
       nextMarkTime = longSince + Interval0 +
         FoldFunctionOnSet(LAMBDA x, y : x + y, 0, [i \in 1..nMarked |-> Interval(i)], 1..nMarked)
  /\ nMarked > 0 => now >= nextMarkTime - Interval(nMarked)
===============================================================================
