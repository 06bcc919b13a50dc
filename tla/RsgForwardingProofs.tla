------------------------- MODULE RsgForwardingProofs --------------------------
(***************************************************************************)
(* What MCRsgForwarding checks of one RSG, for every RSG, every ratio of   *)
(* its links and any links that fail: messages come to no dead end of the  *)
(* paths installed, capsules move on and answers return; and the routers   *)
(* believe a sub-path to have failed just when one of its links has.       *)
(***************************************************************************)
EXTENDS MCRsgForwarding, RsgSubgraphProofs, TLAPS

N == Len(PrimPath)

\* The sizes and ends of the paths.
LEMMA PathsAre ==
  /\ N \in Nat /\ N > 1 /\ Positions = 1..N /\ PrimPath \in Seq(Int)
  /\ \A i \in 1..N : PrimPath[i] \in Int /\ PositionOf(PrimPath[i]) = i
  /\ \A r \in Rsps :
       /\ r.nodeIds \in Seq(Int) /\ Len(r.nodeIds) \in Nat /\ Len(r.nodeIds) > 1
       /\ r.pathID # PrimPathID
       /\ r.nodeIds[1] \in PrimNodes /\ r.nodeIds[Len(r.nodeIds)] \in PrimNodes
       /\ PositionOf(r.nodeIds[Len(r.nodeIds)]) < PositionOf(r.nodeIds[1])
<1>1. /\ PrimPath \in Seq(Int) /\ N \in Nat /\ N > 1 /\ Positions = 1..N
      /\ \A i \in 1..N : PrimPath[i] \in Int
  BY RsgSubgraphAssumption DEF RsgSubgraphAssumption, Positions, N
<1>2. \A i \in 1..N : PositionOf(PrimPath[i]) = i
  BY <1>1, PositionIs
<1>3. ASSUME NEW r \in Rsps
      PROVE  /\ r.nodeIds \in Seq(Int) /\ Len(r.nodeIds) \in Nat /\ Len(r.nodeIds) > 1
             /\ r.pathID # PrimPathID
             /\ r.nodeIds[1] \in PrimNodes /\ r.nodeIds[Len(r.nodeIds)] \in PrimNodes
             /\ PositionOf(r.nodeIds[Len(r.nodeIds)]) < PositionOf(r.nodeIds[1])
  <2> DEFINE s == r.nodeIds
  <2>1. s \in Seq(Int) /\ Len(s) > 1 /\ r.pathID # PrimPathID
    BY RsgSubgraphAssumption DEF RsgSubgraphAssumption
  <2>2. PICK i, j \in 1..N : j < i /\ s[1] = PrimPath[i] /\ s[Len(s)] = PrimPath[j]
    BY RsgSubgraphAssumption DEF RsgSubgraphAssumption, N
  <2> HIDE DEF s
  <2>3. PositionOf(s[1]) = i /\ PositionOf(s[Len(s)]) = j
    BY <1>2, <2>2
  <2>4. s[1] \in PrimNodes /\ s[Len(s)] \in PrimNodes
    BY <1>1, <2>2 DEF PrimNodes
  <2>5. Len(s) \in Nat
    BY <2>1
  <2> QED
    BY <2>1, <2>2, <2>3, <2>4, <2>5 DEF s
<1> QED
  BY <1>1, <1>2, <1>3

-------------------------------------------------------------------------------
(* The entries installed *)

\* The two entries of link i of a path.
Onward(p, s, isPrimPath, i) ==
  [node |-> s[i], pathId |-> p, direction |-> IF isPrimPath THEN 0 ELSE 1,
   nextHop |-> s[i + 1], isRetransPoint |-> isPrimPath \/ i = 1]
Backward(p, s, isPrimPath, i) ==
  [node |-> s[i + 1], pathId |-> p, direction |-> IF isPrimPath THEN 1 ELSE 0,
   nextHop |-> s[i], isRetransPoint |-> isPrimPath]

LEMMA FibEntriesAre ==
  ASSUME NEW fe
  PROVE  fe \in FibEntries <=>
           \/ \E i \in 1..(N - 1) : \/ fe = Onward(PrimPathID, PrimPath, TRUE, i)
                                    \/ fe = Backward(PrimPathID, PrimPath, TRUE, i)
           \/ \E r \in Rsps : \E i \in 1..(Len(r.nodeIds) - 1) :
                \/ fe = Onward(r.pathID, r.nodeIds, FALSE, i)
                \/ fe = Backward(r.pathID, r.nodeIds, FALSE, i)
<1>1. fe \in PathEntries(PrimPathID, PrimPath, TRUE) <=>
        \E i \in 1..(N - 1) : \/ fe = Onward(PrimPathID, PrimPath, TRUE, i)
                              \/ fe = Backward(PrimPathID, PrimPath, TRUE, i)
  <2> DEFINE Pair(i) == {Onward(PrimPathID, PrimPath, TRUE, i), Backward(PrimPathID, PrimPath, TRUE, i)}
             I == 1..(Len(PrimPath) - 1)
  <2>1. PathEntries(PrimPathID, PrimPath, TRUE) = UNION {Pair(i) : i \in I}
    BY DEF PathEntries, Onward, Backward
  <2>2. \A i \in I : fe \in Pair(i) <=> \/ fe = Onward(PrimPathID, PrimPath, TRUE, i)
                                     \/ fe = Backward(PrimPathID, PrimPath, TRUE, i)
    OBVIOUS
  <2> HIDE DEF Pair
  <2>3. fe \in UNION {Pair(i) : i \in I} <=> \E i \in I : fe \in Pair(i)
    OBVIOUS
  <2> QED
    BY <2>1, <2>2, <2>3 DEF N
<1>2. ASSUME NEW r \in Rsps
      PROVE  fe \in PathEntries(r.pathID, r.nodeIds, FALSE) <=>
               \E i \in 1..(Len(r.nodeIds) - 1) :
                 \/ fe = Onward(r.pathID, r.nodeIds, FALSE, i)
                 \/ fe = Backward(r.pathID, r.nodeIds, FALSE, i)
  <2> DEFINE Pair(i) == {Onward(r.pathID, r.nodeIds, FALSE, i), Backward(r.pathID, r.nodeIds, FALSE, i)}
             I == 1..(Len(r.nodeIds) - 1)
  <2>1. PathEntries(r.pathID, r.nodeIds, FALSE) = UNION {Pair(i) : i \in I}
    BY DEF PathEntries, Onward, Backward
  <2>2. \A i \in I : fe \in Pair(i) <=> \/ fe = Onward(r.pathID, r.nodeIds, FALSE, i)
                                     \/ fe = Backward(r.pathID, r.nodeIds, FALSE, i)
    OBVIOUS
  <2> HIDE DEF Pair
  <2>3. fe \in UNION {Pair(i) : i \in I} <=> \E i \in I : fe \in Pair(i)
    OBVIOUS
  <2> QED
    BY <2>1, <2>2, <2>3
<1>3. fe \in FibEntries <=>
        \/ fe \in PathEntries(PrimPathID, PrimPath, TRUE)
        \/ \E r \in Rsps : fe \in PathEntries(r.pathID, r.nodeIds, FALSE)
  BY DEF FibEntries
<1> QED
  BY <1>1, <1>2, <1>3

\* The primary path leads on from every router but the last.
LEMMA PrimHops ==
  /\ \A k \in 1..(N - 1) : LookupForwardingEntry(PrimPath[k], PrimPathID, 0) = {PrimPath[k + 1]}
  /\ LookupForwardingEntry(PrimPath[N], PrimPathID, 0) = {}
<1>1. ASSUME NEW fe \in FibEntries, fe.pathId = PrimPathID, fe.direction = 0
      PROVE  \E i \in 1..(N - 1) : fe.node = PrimPath[i] /\ fe.nextHop = PrimPath[i + 1]
  <2>1. \A r \in Rsps : r.pathID # PrimPathID
    BY PathsAre
  <2> QED
    BY <1>1, <2>1, FibEntriesAre DEF Onward, Backward
<1>2. \A i \in 1..(N - 1) : i \in 1..N /\ i + 1 \in 1..N /\ i # N
  BY PathsAre
<1>3. ASSUME NEW k \in 1..(N - 1)
      PROVE  LookupForwardingEntry(PrimPath[k], PrimPathID, 0) = {PrimPath[k + 1]}
  <2> DEFINE e == Onward(PrimPathID, PrimPath, TRUE, k)
  <2>1. e \in FibEntries
    BY FibEntriesAre
  <2>2. /\ e.node = PrimPath[k] /\ e.pathId = PrimPathID /\ e.direction = 0
        /\ e.nextHop = PrimPath[k + 1]
    BY DEF Onward
  <2>3. ASSUME NEW fe \in FibEntries, fe.pathId = PrimPathID, fe.direction = 0, fe.node = PrimPath[k]
        PROVE  fe.nextHop = PrimPath[k + 1]
    <3>1. PICK i \in 1..(N - 1) : fe.node = PrimPath[i] /\ fe.nextHop = PrimPath[i + 1]
      BY <1>1, <2>3
    <3>2. i = k
      BY <1>2, <2>3, <3>1, PathsAre
    <3> QED
      BY <3>1, <3>2
  <2> HIDE DEF e
  <2> QED
    BY <2>1, <2>2, <2>3 DEF LookupForwardingEntry
<1>4. LookupForwardingEntry(PrimPath[N], PrimPathID, 0) = {}
  <2> SUFFICES ASSUME NEW fe \in FibEntries, fe.node = PrimPath[N], fe.pathId = PrimPathID,
                      fe.direction = 0
               PROVE  FALSE
    BY DEF LookupForwardingEntry
  <2>1. PICK i \in 1..(N - 1) : fe.node = PrimPath[i]
    BY <1>1
  <2>2. i \in 1..N /\ i # N /\ N \in 1..N
    BY <1>2, PathsAre
  <2> QED
    BY <2>1, <2>2, PathsAre
<1> QED
  BY <1>3, <1>4

\* A sub-path leads from each node of it to the node before and to the one behind.
LEMMA RspHops ==
  ASSUME NEW r \in Rsps, NEW k \in 1..Len(r.nodeIds)
  PROVE  /\ LookupForwardingEntry(r.nodeIds[k], r.pathID, 1)
              = IF k = Len(r.nodeIds) THEN {} ELSE {r.nodeIds[k + 1]}
         /\ LookupForwardingEntry(r.nodeIds[k], r.pathID, 0)
              = IF k = 1 THEN {} ELSE {r.nodeIds[k - 1]}
<1> DEFINE s == r.nodeIds
           L == Len(s)
<1>1. L \in Nat /\ L > 1 /\ s \in Seq(Int) /\ r.pathID # PrimPathID
  BY PathsAre
<1>2. \A i, j \in 1..L : s[i] = s[j] => i = j
  BY RsgSubgraphAssumption DEF RsgSubgraphAssumption, Simple
<1>3. \A i \in 1..(L - 1) : i \in 1..L /\ i + 1 \in 1..L /\ i + 1 - 1 = i /\ i # L /\ i + 1 # 1
  BY <1>1
<1>4. ASSUME NEW fe \in FibEntries, fe.pathId = r.pathID
      PROVE  \E i \in 1..(L - 1) :
               fe = Onward(r.pathID, s, FALSE, i) \/ fe = Backward(r.pathID, s, FALSE, i)
  <2>1. \A q \in Rsps : q.pathID = r.pathID => q = r
    BY RsgSubgraphAssumption DEF RsgSubgraphAssumption
  <2>2. CASE \E i \in 1..(N - 1) : \/ fe = Onward(PrimPathID, PrimPath, TRUE, i)
                                   \/ fe = Backward(PrimPathID, PrimPath, TRUE, i)
    BY <1>1, <1>4, <2>2 DEF Onward, Backward
  <2>3. ASSUME NEW q \in Rsps, NEW i \in 1..(Len(q.nodeIds) - 1),
               \/ fe = Onward(q.pathID, q.nodeIds, FALSE, i)
               \/ fe = Backward(q.pathID, q.nodeIds, FALSE, i)
        PROVE  q = r
    <3>1. fe.pathId = q.pathID
      BY <2>3 DEF Onward, Backward
    <3> QED
      BY <1>4, <2>1, <3>1
  <2> HIDE DEF s, L
  <2> QED
    BY <2>2, <2>3, FibEntriesAre DEF s, L
<1>5. ASSUME NEW i \in 1..(L - 1)
      PROVE  Onward(r.pathID, s, FALSE, i) \in FibEntries /\ Backward(r.pathID, s, FALSE, i) \in FibEntries
  BY FibEntriesAre
<1> HIDE DEF s, L
<1>6. ASSUME NEW fe \in FibEntries, fe.pathId = r.pathID, fe.direction = 1, fe.node = s[k]
      PROVE  k # L /\ fe.nextHop = s[k + 1]
  <2>1. PICK i \in 1..(L - 1) : fe.node = s[i] /\ fe.nextHop = s[i + 1]
    BY <1>4, <1>6 DEF Onward, Backward
  <2>2. i = k
    BY <1>2, <1>3, <1>6, <2>1 DEF s, L
  <2> QED
    BY <1>3, <2>1, <2>2
<1>7. ASSUME NEW fe \in FibEntries, fe.pathId = r.pathID, fe.direction = 0, fe.node = s[k]
      PROVE  k # 1 /\ fe.nextHop = s[k - 1]
  <2>1. PICK i \in 1..(L - 1) : fe.node = s[i + 1] /\ fe.nextHop = s[i]
    BY <1>4, <1>7 DEF Onward, Backward
  <2>2. i + 1 \in 1..L /\ k \in 1..L /\ s[i + 1] = s[k]
    BY <1>3, <1>7, <2>1 DEF s, L
  <2>3. i + 1 = k
    BY <1>2, <2>2
  <2> QED
    BY <1>3, <2>1, <2>3
<1>8. k \in 1..L
  BY DEF s, L
<1>9. ASSUME k # L
      PROVE  \E fe \in FibEntries :
               fe.node = s[k] /\ fe.pathId = r.pathID /\ fe.direction = 1 /\ fe.nextHop = s[k + 1]
  <2>1. k \in 1..(L - 1)
    BY <1>1, <1>8, <1>9
  <2>2. Onward(r.pathID, s, FALSE, k) \in FibEntries
    BY <1>5, <2>1
  <2> QED
    BY <2>2 DEF Onward
<1>10. ASSUME k # 1
       PROVE  \E fe \in FibEntries :
                fe.node = s[k] /\ fe.pathId = r.pathID /\ fe.direction = 0 /\ fe.nextHop = s[k - 1]
  <2>1. k - 1 \in 1..(L - 1) /\ (k - 1) + 1 = k
    BY <1>1, <1>8, <1>10
  <2>2. Backward(r.pathID, s, FALSE, k - 1) \in FibEntries
    BY <1>5, <2>1
  <2> QED
    BY <2>1, <2>2 DEF Backward
<1>11. LookupForwardingEntry(s[k], r.pathID, 1) = IF k = L THEN {} ELSE {s[k + 1]}
  BY <1>6, <1>9 DEF LookupForwardingEntry
<1>12. LookupForwardingEntry(s[k], r.pathID, 0) = IF k = 1 THEN {} ELSE {s[k - 1]}
  BY <1>7, <1>10 DEF LookupForwardingEntry
<1> QED
  BY <1>11, <1>12 DEF s, L
-------------------------------------------------------------------------------
(* Where a message may be *)

\* A router leaves the primary path only by a sub-path that ends at it.
Leaves(n, p) == p = PrimPathID \/ \E r \in Rsps : p = r.pathID /\ n = r.nodeIds[Len(r.nodeIds)]
DownFits ==
  /\ DOMAIN down = PrimNodes /\ down = [n \in PrimNodes |-> down[n]]
  /\ \A n \in PrimNodes : Leaves(n, down[n])

IsMessage(m) ==
  m = [kind |-> m.kind, from |-> m.from, to |-> m.to, path |-> m.path,
       origin |-> m.origin, served |-> m.served, settled |-> m.settled]

\* A message is on a link of its path: one on the primary path comes from the router next
\* to it, one on a sub-path from the end of the sub-path it entered by.
CapsuleFits(m) ==
  m.kind = "Capsule" =>
    /\ m.path = PrimPathID
    /\ \E k \in 1..(N - 1) : m.to = PrimPath[k + 1] /\ m.served = PrimPath[k]
CapsuleOnRSPFits(m) ==
  m.kind = "CapsuleOnRSP" =>
    \E r \in Rsps : \E k \in 1..(Len(r.nodeIds) - 1) :
      m.path = r.pathID /\ m.to = r.nodeIds[k] /\ m.served = r.nodeIds[Len(r.nodeIds)]
RequestFits(m) ==
  m.kind = "Request" =>
    \/ /\ m.path = PrimPathID
       /\ \E k \in 1..(N - 1) :
            m.to = PrimPath[k] /\ m.from = PrimPath[k + 1] /\ m.origin = PrimPath[k + 1]
    \/ \E r \in Rsps : \E k \in 1..(Len(r.nodeIds) - 1) :
         /\ m.path = r.pathID /\ m.origin = r.nodeIds[1]
         /\ m.from = r.nodeIds[k] /\ m.to = r.nodeIds[k + 1]
AnswerFits(m) ==
  m.kind = "Answer" =>
    \/ /\ m.path = PrimPathID
       /\ \E k \in 1..(N - 1) :
            m.to = PrimPath[k + 1] /\ m.origin = PrimPath[k + 1] /\ m.served = PrimPath[k]
    \/ \E r \in Rsps : \E k \in 1..(Len(r.nodeIds) - 1) :
         /\ m.path = r.pathID /\ m.origin = r.nodeIds[1]
         /\ m.served = r.nodeIds[Len(r.nodeIds)] /\ m.to = r.nodeIds[k]
AnsweredFits(m) ==
  m.kind = "Answered" => m.to = m.origin /\ PositionOf(m.served) < PositionOf(m.origin)

Fits(m) ==
  /\ IsMessage(m) /\ m.kind # "Dropped"
  /\ CapsuleFits(m) /\ CapsuleOnRSPFits(m) /\ RequestFits(m) /\ AnswerFits(m) /\ AnsweredFits(m)

IInv == DownFits /\ Fits(msg)

\* What a router sends over the one entry it has.
LEMMA SentTo ==
  ASSUME NEW m, IsMessage(m), NEW h, NEW n, SendTo({h}, m, n)
  PROVE  /\ IsMessage(msg') /\ msg'.kind = m.kind /\ msg'.from = n /\ msg'.to = h
         /\ msg'.path = m.path /\ msg'.origin = m.origin /\ msg'.served = m.served
<1>1. msg' = [m EXCEPT !.from = n, !.to = h]
  BY DEF SendTo
<1>2. msg' = [kind |-> m.kind, from |-> n, to |-> h, path |-> m.path,
              origin |-> m.origin, served |-> m.served, settled |-> m.settled]
  BY <1>1 DEF IsMessage
<1> QED
  BY <1>2 DEF IsMessage

\* A router of the primary path that passes on a capsule has it move on by the path it
\* prefers, or delivers it.
LEMMA Delivers ==
  ASSUME DownFits, NEW m, IsMessage(m), NEW n \in PrimNodes, DeliverCapsule(m, n)
  PROVE  Fits(msg') /\ msg'.served = n
<1> DEFINE p == down[n]
           hops == LookupForwardingEntry(n, p, 0)
           kind == IF p = PrimPathID THEN "Capsule" ELSE "CapsuleOnRSP"
           own == [m EXCEPT !.served = n, !.path = p]
           sent == [own EXCEPT !.kind = kind]
<1>1. IF p = PrimPathID /\ hops = {}
      THEN msg' = [own EXCEPT !.kind = "Delivered", !.from = n, !.to = n]
      ELSE SendTo(hops, sent, n)
  BY Zenon DEF DeliverCapsule
<1>2. own = [m EXCEPT !.served = n, !.path = p]
  OBVIOUS
<1>3. PICK k \in 1..N : n = PrimPath[k]
  BY PathsAre DEF PrimNodes
<1>4. Leaves(n, p)
  BY DEF DownFits
<1> HIDE DEF p, own, kind
<1>9. own = [kind |-> m.kind, from |-> m.from, to |-> m.to, path |-> p,
             origin |-> m.origin, served |-> n, settled |-> m.settled]
  BY <1>2 DEF IsMessage
<1>5. sent = [kind |-> kind, from |-> m.from, to |-> m.to, path |-> p,
              origin |-> m.origin, served |-> n, settled |-> m.settled]
  BY <1>9
<1> HIDE DEF sent
<1>6. CASE p = PrimPathID /\ k = N
  <2>1. hops = {}
    BY <1>3, <1>6, PrimHops
  <2>2. msg' = [kind |-> "Delivered", from |-> n, to |-> n, path |-> p,
                origin |-> m.origin, served |-> n, settled |-> m.settled]
    BY <1>1, <1>9, <1>6, <2>1
  <2> QED
    BY <2>2 DEF Fits, IsMessage, CapsuleFits, CapsuleOnRSPFits, RequestFits, AnswerFits, AnsweredFits
<1>7. CASE p = PrimPathID /\ k # N
  <2>1. k \in 1..(N - 1)
    BY <1>7, PathsAre
  <2>2. hops = {PrimPath[k + 1]}
    BY <1>3, <1>7, <2>1, PrimHops
  <2>3. SendTo({PrimPath[k + 1]}, sent, n) /\ sent.kind = "Capsule"
    BY <1>1, <1>5, <1>7, <2>2 DEF kind
  <2>4. IsMessage(sent) /\ sent.path = p /\ sent.served = n
    BY <1>5 DEF IsMessage
  <2>5. /\ IsMessage(msg') /\ msg'.kind = "Capsule" /\ msg'.to = PrimPath[k + 1]
        /\ msg'.path = PrimPathID /\ msg'.served = n
    BY <1>7, <2>3, <2>4, SentTo
  <2> QED
    BY <1>3, <2>1, <2>5
       DEF Fits, CapsuleFits, CapsuleOnRSPFits, RequestFits, AnswerFits, AnsweredFits
<1>8. CASE p # PrimPathID
  <2>1. PICK r \in Rsps : p = r.pathID /\ n = r.nodeIds[Len(r.nodeIds)]
    BY <1>4, <1>8 DEF Leaves
  <2> DEFINE L == Len(r.nodeIds)
  <2>2. L \in 1..L /\ L # 1 /\ L - 1 \in 1..(L - 1)
    BY PathsAre
  <2>3. hops = {r.nodeIds[L - 1]}
    BY <2>1, <2>2, RspHops
  <2>4. SendTo({r.nodeIds[L - 1]}, sent, n) /\ sent.kind = "CapsuleOnRSP"
    BY <1>1, <1>5, <1>8, <2>3 DEF kind
  <2>5. IsMessage(sent) /\ sent.path = p /\ sent.served = n
    BY <1>5 DEF IsMessage
  <2>6. /\ IsMessage(msg') /\ msg'.kind = "CapsuleOnRSP" /\ msg'.to = r.nodeIds[L - 1]
        /\ msg'.path = r.pathID /\ msg'.served = n
    BY <2>1, <2>4, <2>5, SentTo
  <2> QED
    BY <2>1, <2>2, <2>6
       DEF Fits, CapsuleFits, CapsuleOnRSPFits, RequestFits, AnswerFits, AnsweredFits
<1> QED
  BY <1>6, <1>7, <1>8

LEMMA FirstFits == Init => IInv
<1> SUFFICES ASSUME Init PROVE IInv
  OBVIOUS
<1>1. DownFits
  BY DEF Init, DownFits, Leaves
<1>2. Fits(msg)
  BY DEF Init, NoMessage, Fits, IsMessage, CapsuleFits, CapsuleOnRSPFits, RequestFits,
         AnswerFits, AnsweredFits
<1> QED
  BY <1>1, <1>2 DEF IInv

\* The source has the primary path's first position.
LEMMA SourceIs == Source \in PrimNodes /\ Source = PrimPath[1]
BY PathsAre DEF Source, PrimNodes

LEMMA PublishFits ==
  ASSUME IInv, Publish
  PROVE  IInv'
<1> DEFINE m == [NoMessage EXCEPT !.settled = Settled]
<1>1. IsMessage(m)
  BY DEF NoMessage, IsMessage
<1>2. DeliverCapsule(m, Source) /\ UNCHANGED down
  BY DEF Publish
<1> HIDE DEF m
<1>3. Fits(msg')
  BY <1>1, <1>2, Delivers, SourceIs DEF IInv
<1> QED
  BY <1>2, <1>3 DEF IInv, DownFits

\* A request leaves by an entry upstream.
LEMMA SendRequestFits ==
  ASSUME IInv, NEW n \in PrimNodes, SendRequest(n)
  PROVE  IInv'
<1>1. PICK fe \in FibEntries :
        /\ fe.node = n /\ fe.direction = 1 /\ fe.isRetransPoint
        /\ SendTo({fe.nextHop},
                  [NoMessage EXCEPT !.kind = "Request", !.path = fe.pathId, !.origin = n,
                                    !.served = n, !.settled = Settled], n)
  BY DEF SendRequest
<1> DEFINE m == [NoMessage EXCEPT !.kind = "Request", !.path = fe.pathId, !.origin = n,
                                  !.served = n, !.settled = Settled]
           settled == Settled
<1>6. m = [NoMessage EXCEPT !.kind = "Request", !.path = fe.pathId, !.origin = n,
                            !.served = n, !.settled = settled]
  OBVIOUS
<1>7. SendTo({fe.nextHop}, m, n)
  BY <1>1
<1> HIDE DEF m, settled
<1>2. IsMessage(m) /\ m.kind = "Request" /\ m.path = fe.pathId /\ m.origin = n
  BY <1>6 DEF NoMessage, IsMessage
<1>3. /\ IsMessage(msg') /\ msg'.kind = "Request" /\ msg'.from = n /\ msg'.to = fe.nextHop
      /\ msg'.path = fe.pathId /\ msg'.origin = n
  BY <1>2, <1>7, SentTo
<1>4. RequestFits(msg')
  <2>1. CASE \E i \in 1..(N - 1) : \/ fe = Onward(PrimPathID, PrimPath, TRUE, i)
                                   \/ fe = Backward(PrimPathID, PrimPath, TRUE, i)
    <3>1. PICK i \in 1..(N - 1) : \/ fe = Onward(PrimPathID, PrimPath, TRUE, i)
                                  \/ fe = Backward(PrimPathID, PrimPath, TRUE, i)
      BY <2>1
    <3>2. fe.pathId = PrimPathID /\ fe.node = PrimPath[i + 1] /\ fe.nextHop = PrimPath[i]
      BY <1>1, <3>1 DEF Onward, Backward
    <3> QED
      BY <1>1, <1>3, <3>2 DEF RequestFits
  <2>2. CASE \E r \in Rsps : \E i \in 1..(Len(r.nodeIds) - 1) :
               \/ fe = Onward(r.pathID, r.nodeIds, FALSE, i)
               \/ fe = Backward(r.pathID, r.nodeIds, FALSE, i)
    <3>1. PICK r \in Rsps : \E i \in 1..(Len(r.nodeIds) - 1) :
            \/ fe = Onward(r.pathID, r.nodeIds, FALSE, i)
            \/ fe = Backward(r.pathID, r.nodeIds, FALSE, i)
      BY <2>2
    <3>2. PICK i \in 1..(Len(r.nodeIds) - 1) : \/ fe = Onward(r.pathID, r.nodeIds, FALSE, i)
                                               \/ fe = Backward(r.pathID, r.nodeIds, FALSE, i)
      BY <3>1
    <3>5. fe = Onward(r.pathID, r.nodeIds, FALSE, i)
      <4>1. CASE fe = Backward(r.pathID, r.nodeIds, FALSE, i)
        <5>1. fe.direction = 0
          BY <4>1 DEF Backward
        <5> QED
          BY <1>1, <5>1
      <4> QED
        BY <3>2, <4>1
    <3>6. Onward(r.pathID, r.nodeIds, FALSE, i).isRetransPoint = (i = 1)
      BY DEF Onward
    <3>7. i = 1
      BY <1>1, <3>5, <3>6
    <3>3. fe.pathId = r.pathID /\ fe.node = r.nodeIds[1] /\ fe.nextHop = r.nodeIds[1 + 1]
      BY <3>5, <3>7 DEF Onward
    <3>4. 1 \in 1..(Len(r.nodeIds) - 1)
      BY PathsAre
    <3> QED
      BY <1>1, <1>3, <3>3, <3>4 DEF RequestFits
  <2> QED
    BY <2>1, <2>2, FibEntriesAre
<1>5. Fits(msg')
  BY <1>3, <1>4 DEF Fits, CapsuleFits, CapsuleOnRSPFits, AnswerFits, AnsweredFits
<1> QED
  BY <1>5 DEF IInv, DownFits, SendRequest

\* A router the message does not stop at has one entry to pass it on by.
LEMMA PassedOn ==
  ASSUME Fits(msg), NEW h, NEW n, SendTo({h}, msg, n)
  PROVE  /\ IsMessage(msg') /\ msg'.kind = msg.kind /\ msg'.from = n /\ msg'.to = h
         /\ msg'.path = msg.path /\ msg'.origin = msg.origin /\ msg'.served = msg.served
BY SentTo DEF Fits

\* A capsule: on a sub-path it goes down to the sub-path's end, which lies further on than
\* where it entered; there, and anywhere on the primary path, the router passes it on.
LEMMA CapsuleReceived ==
  ASSUME IInv, Receive, msg.kind \in {"Capsule", "CapsuleOnRSP"}
  PROVE  /\ Fits(msg')
         /\ msg'.served # msg.served => PositionOf(msg'.served) > PositionOf(msg.served)
<1> DEFINE n == msg.to
           hops == LookupForwardingEntry(n, msg.path, 0)
<1>1. IF n \notin PrimNodes THEN SendTo(hops, msg, n)
      ELSE IF msg.kind = "CapsuleOnRSP" /\ hops # {} THEN SendTo(hops, msg, n)
      ELSE DeliverCapsule(msg, n)
  BY DEF Receive, NeedToForward, Process, Direction
<1> HIDE DEF hops
<1>2. Fits(msg) /\ IsMessage(msg) /\ DownFits
  BY DEF IInv, Fits
<1>3. CASE msg.kind = "Capsule"
  <2>1. PICK k \in 1..(N - 1) : n = PrimPath[k + 1] /\ msg.served = PrimPath[k]
    BY <1>2, <1>3 DEF Fits, CapsuleFits
  <2>2. /\ k \in 1..N /\ k + 1 \in 1..N /\ k + 1 > k /\ n \in PrimNodes
    BY <2>1, PathsAre DEF PrimNodes
  <2>3. Fits(msg') /\ msg'.served = n
    BY <1>1, <1>2, <1>3, <2>2, Delivers
  <2>4. PositionOf(n) = k + 1 /\ PositionOf(msg.served) = k
    BY <2>1, <2>2, PathsAre
  <2> QED
    BY <2>2, <2>3, <2>4
<1>4. CASE msg.kind = "CapsuleOnRSP"
  <2>1. PICK r \in Rsps : \E k \in 1..(Len(r.nodeIds) - 1) :
          msg.path = r.pathID /\ n = r.nodeIds[k] /\ msg.served = r.nodeIds[Len(r.nodeIds)]
    BY <1>2, <1>4 DEF Fits, CapsuleOnRSPFits
  <2>2. PICK k \in 1..(Len(r.nodeIds) - 1) :
          msg.path = r.pathID /\ n = r.nodeIds[k] /\ msg.served = r.nodeIds[Len(r.nodeIds)]
    BY <2>1
  <2>3. k \in 1..Len(r.nodeIds)
    BY PathsAre
  <2>4. hops = IF k = 1 THEN {} ELSE {r.nodeIds[k - 1]}
    <3>1. LookupForwardingEntry(r.nodeIds[k], r.pathID, 0) = IF k = 1 THEN {} ELSE {r.nodeIds[k - 1]}
      BY <2>3, RspHops
    <3> QED
      BY <2>2, <3>1 DEF hops
  <2>5. CASE k = 1
    <3>1. n \in PrimNodes /\ PositionOf(msg.served) < PositionOf(n)
      BY <2>2, <2>5, PathsAre
    <3>2. /\ PositionOf(msg.served) \in Int /\ PositionOf(n) \in Int
      <4>1. msg.served \in PrimNodes
        BY <2>2, PathsAre
      <4> QED
        BY <3>1, <4>1, PathsAre DEF PrimNodes
    <3>3. Fits(msg') /\ msg'.served = n
      BY <1>1, <1>2, <2>4, <2>5, <3>1, Delivers
    <3> QED
      BY <3>1, <3>2, <3>3
  <2>6. CASE k # 1
    <3>1. k - 1 \in 1..(Len(r.nodeIds) - 1) /\ hops = {r.nodeIds[k - 1]}
      BY <2>3, <2>4, <2>6
    <3>2. SendTo({r.nodeIds[k - 1]}, msg, n)
      BY <1>1, <1>4, <3>1
    <3>3. /\ IsMessage(msg') /\ msg'.kind = "CapsuleOnRSP" /\ msg'.to = r.nodeIds[k - 1]
          /\ msg'.path = r.pathID /\ msg'.served = msg.served
      BY <1>2, <1>4, <2>2, <3>2, PassedOn
    <3>4. Fits(msg')
      BY <2>2, <3>1, <3>3
         DEF Fits, CapsuleFits, CapsuleOnRSPFits, RequestFits, AnswerFits, AnsweredFits
    <3> QED
      BY <3>3, <3>4
  <2> QED
    BY <2>5, <2>6
<1> QED
  BY <1>3, <1>4

\* A request: the next router of the primary path answers it, or the router at the far end
\* of the sub-path, which is before the one that asks.
LEMMA RequestReceived ==
  ASSUME IInv, Receive, msg.kind = "Request"
  PROVE  Fits(msg')
<1> DEFINE n == msg.to
           hops == LookupForwardingEntry(n, msg.path, 1)
           answer == [msg EXCEPT !.kind = "Answer", !.served = n, !.from = n, !.to = msg.from]
<1>1. IF n \notin PrimNodes THEN SendTo(hops, msg, n)
      ELSE IF msg.path # PrimPathID /\ hops # {} THEN SendTo(hops, msg, n)
      ELSE msg' = answer
  BY DEF Receive, NeedToForward, Process, Direction
<1> HIDE DEF hops
<1>2. Fits(msg) /\ IsMessage(msg) /\ DownFits
  BY DEF IInv, Fits
<1>7. answer = [msg EXCEPT !.kind = "Answer", !.served = n, !.from = n, !.to = msg.from]
  OBVIOUS
<1> HIDE DEF answer
<1>3. answer = [kind |-> "Answer", from |-> n, to |-> msg.from, path |-> msg.path,
                origin |-> msg.origin, served |-> n, settled |-> msg.settled]
  BY <1>2, <1>7 DEF IsMessage
<1>4. /\ IsMessage(answer) /\ answer.kind = "Answer" /\ answer.to = msg.from
      /\ answer.path = msg.path /\ answer.origin = msg.origin /\ answer.served = n
  BY <1>3 DEF IsMessage
<1>5. CASE msg.path = PrimPathID
  <2>1. PICK k \in 1..(N - 1) :
          n = PrimPath[k] /\ msg.from = PrimPath[k + 1] /\ msg.origin = PrimPath[k + 1]
    BY <1>2, <1>5, PathsAre DEF Fits, RequestFits
  <2>2. n \in PrimNodes
    BY <2>1, PathsAre DEF PrimNodes
  <2>3. msg' = answer
    BY <1>1, <1>5, <2>2
  <2> QED
    BY <1>4, <1>5, <2>1, <2>3
       DEF Fits, CapsuleFits, CapsuleOnRSPFits, RequestFits, AnswerFits, AnsweredFits
<1>6. CASE msg.path # PrimPathID
  <2>1. PICK r \in Rsps : \E k \in 1..(Len(r.nodeIds) - 1) :
          /\ msg.path = r.pathID /\ msg.origin = r.nodeIds[1]
          /\ msg.from = r.nodeIds[k] /\ n = r.nodeIds[k + 1]
    BY <1>2, <1>6 DEF Fits, RequestFits
  <2> DEFINE L == Len(r.nodeIds)
  <2>2. PICK k \in 1..(L - 1) :
          /\ msg.path = r.pathID /\ msg.origin = r.nodeIds[1]
          /\ msg.from = r.nodeIds[k] /\ n = r.nodeIds[k + 1]
    BY <2>1
  <2>3. L \in Nat /\ k + 1 \in 1..L
    BY PathsAre
  <2>4. hops = IF k + 1 = L THEN {} ELSE {r.nodeIds[k + 1 + 1]}
    <3>1. LookupForwardingEntry(r.nodeIds[k + 1], r.pathID, 1)
            = IF k + 1 = L THEN {} ELSE {r.nodeIds[k + 1 + 1]}
      BY <2>3, RspHops
    <3> QED
      BY <2>2, <3>1 DEF hops
  <2>5. CASE k + 1 = L
    <3>1. n \in PrimNodes
      BY <2>2, <2>5, PathsAre
    <3>2. msg' = answer
      BY <1>1, <2>4, <2>5, <3>1
    <3> QED
      BY <1>4, <2>2, <2>5, <3>2
         DEF Fits, CapsuleFits, CapsuleOnRSPFits, RequestFits, AnswerFits, AnsweredFits
  <2>6. CASE k + 1 # L
    <3>1. k + 1 \in 1..(L - 1) /\ hops = {r.nodeIds[k + 1 + 1]}
      BY <2>3, <2>4, <2>6
    <3>2. SendTo({r.nodeIds[k + 1 + 1]}, msg, n)
      BY <1>1, <1>6, <3>1
    <3>3. /\ IsMessage(msg') /\ msg'.kind = "Request" /\ msg'.from = n
          /\ msg'.to = r.nodeIds[k + 1 + 1] /\ msg'.path = r.pathID /\ msg'.origin = r.nodeIds[1]
      BY <1>2, <2>2, <3>2, PassedOn
    <3> QED
      BY <2>2, <3>1, <3>3
         DEF Fits, CapsuleFits, CapsuleOnRSPFits, RequestFits, AnswerFits, AnsweredFits
  <2> QED
    BY <2>5, <2>6
<1> QED
  BY <1>5, <1>6

\* An answer: it goes back to the router that asked.
LEMMA AnswerReceived ==
  ASSUME IInv, Receive, msg.kind = "Answer"
  PROVE  Fits(msg')
<1> DEFINE n == msg.to
           hops == LookupForwardingEntry(n, msg.path, 0)
           answered == [msg EXCEPT !.kind = "Answered", !.from = n, !.to = n]
<1>1. IF n \notin PrimNodes THEN SendTo(hops, msg, n)
      ELSE IF msg.path # PrimPathID /\ hops # {} THEN SendTo(hops, msg, n)
      ELSE msg' = answered
  BY DEF Receive, NeedToForward, Process, Direction
<1> HIDE DEF hops
<1>2. Fits(msg) /\ IsMessage(msg) /\ DownFits
  BY DEF IInv, Fits
<1>7. answered = [msg EXCEPT !.kind = "Answered", !.from = n, !.to = n]
  OBVIOUS
<1> HIDE DEF answered
<1>3. answered = [kind |-> "Answered", from |-> n, to |-> n, path |-> msg.path,
                  origin |-> msg.origin, served |-> msg.served, settled |-> msg.settled]
  BY <1>2, <1>7 DEF IsMessage
<1>4. /\ IsMessage(answered) /\ answered.kind = "Answered" /\ answered.to = n
      /\ answered.origin = msg.origin /\ answered.served = msg.served
  BY <1>3 DEF IsMessage
<1>5. CASE msg.path = PrimPathID
  <2>1. PICK k \in 1..(N - 1) :
          n = PrimPath[k + 1] /\ msg.origin = PrimPath[k + 1] /\ msg.served = PrimPath[k]
    BY <1>2, <1>5, PathsAre DEF Fits, AnswerFits
  <2>2. n \in PrimNodes /\ PositionOf(msg.served) = k /\ PositionOf(msg.origin) = k + 1 /\ k < k + 1
    BY <2>1, PathsAre DEF PrimNodes
  <2>3. msg' = answered
    BY <1>1, <1>5, <2>2
  <2> QED
    BY <1>4, <2>1, <2>2, <2>3
       DEF Fits, CapsuleFits, CapsuleOnRSPFits, RequestFits, AnswerFits, AnsweredFits
<1>6. CASE msg.path # PrimPathID
  <2>1. PICK r \in Rsps : \E k \in 1..(Len(r.nodeIds) - 1) :
          /\ msg.path = r.pathID /\ msg.origin = r.nodeIds[1]
          /\ msg.served = r.nodeIds[Len(r.nodeIds)] /\ n = r.nodeIds[k]
    BY <1>2, <1>6 DEF Fits, AnswerFits
  <2>2. PICK k \in 1..(Len(r.nodeIds) - 1) :
          /\ msg.path = r.pathID /\ msg.origin = r.nodeIds[1]
          /\ msg.served = r.nodeIds[Len(r.nodeIds)] /\ n = r.nodeIds[k]
    BY <2>1
  <2>3. k \in 1..Len(r.nodeIds)
    BY PathsAre
  <2>4. hops = IF k = 1 THEN {} ELSE {r.nodeIds[k - 1]}
    <3>1. LookupForwardingEntry(r.nodeIds[k], r.pathID, 0) = IF k = 1 THEN {} ELSE {r.nodeIds[k - 1]}
      BY <2>3, RspHops
    <3> QED
      BY <2>2, <3>1 DEF hops
  <2>5. CASE k = 1
    <3>1. n \in PrimNodes /\ PositionOf(msg.served) < PositionOf(msg.origin) /\ n = msg.origin
      BY <2>2, <2>5, PathsAre
    <3>2. msg' = answered
      BY <1>1, <2>4, <2>5, <3>1
    <3> QED
      BY <1>4, <3>1, <3>2
         DEF Fits, CapsuleFits, CapsuleOnRSPFits, RequestFits, AnswerFits, AnsweredFits
  <2>6. CASE k # 1
    <3>1. k - 1 \in 1..(Len(r.nodeIds) - 1) /\ hops = {r.nodeIds[k - 1]}
      BY <2>3, <2>4, <2>6
    <3>2. SendTo({r.nodeIds[k - 1]}, msg, n)
      BY <1>1, <1>6, <3>1
    <3>3. /\ IsMessage(msg') /\ msg'.kind = "Answer" /\ msg'.to = r.nodeIds[k - 1]
          /\ msg'.path = r.pathID /\ msg'.origin = r.nodeIds[1] /\ msg'.served = msg.served
      BY <1>2, <2>2, <3>2, PassedOn
    <3> QED
      BY <2>2, <3>1, <3>3
         DEF Fits, CapsuleFits, CapsuleOnRSPFits, RequestFits, AnswerFits, AnsweredFits
  <2> QED
    BY <2>5, <2>6
<1> QED
  BY <1>5, <1>6

LEMMA ReceiveFits ==
  ASSUME IInv, Receive
  PROVE  IInv'
<1>1. msg.kind \in {"Capsule", "CapsuleOnRSP"} \/ msg.kind = "Request" \/ msg.kind = "Answer"
  BY DEF Receive, Kinds
<1>2. Fits(msg')
  BY <1>1, CapsuleReceived, RequestReceived, AnswerReceived
<1> QED
  BY <1>2 DEF IInv, DownFits, Receive

LEMMA LoseFits ==
  ASSUME IInv, Lose
  PROVE  IInv' /\ msg'.served = msg.served
<1>1. msg' = [msg EXCEPT !.kind = "Lost"] /\ UNCHANGED down
  BY DEF Lose
<1>2. IsMessage(msg)
  BY DEF IInv, Fits
<1>3. msg' = [kind |-> "Lost", from |-> msg.from, to |-> msg.to, path |-> msg.path,
              origin |-> msg.origin, served |-> msg.served, settled |-> msg.settled]
  BY <1>1, <1>2 DEF IsMessage
<1>4. Fits(msg')
  BY <1>3 DEF Fits, IsMessage, CapsuleFits, CapsuleOnRSPFits, RequestFits, AnswerFits, AnsweredFits
<1> QED
  BY <1>1, <1>3, <1>4 DEF IInv, DownFits

LEMMA LinkChangeFits ==
  ASSUME IInv, NEW l, LinkChange(l)
  PROVE  IInv' /\ msg'.served = msg.served
<1>1. msg' = [msg EXCEPT !.settled = FALSE] /\ UNCHANGED down
  BY DEF LinkChange
<1>2. Fits(msg) /\ IsMessage(msg)
  BY DEF IInv, Fits
<1>3. /\ IsMessage(msg') /\ msg'.kind = msg.kind /\ msg'.from = msg.from /\ msg'.to = msg.to
      /\ msg'.path = msg.path /\ msg'.origin = msg.origin /\ msg'.served = msg.served
  BY <1>1, <1>2 DEF IsMessage
<1>4. CapsuleFits(msg') /\ CapsuleOnRSPFits(msg') /\ AnsweredFits(msg')
  BY <1>2, <1>3 DEF Fits, CapsuleFits, CapsuleOnRSPFits, AnsweredFits
<1>5. RequestFits(msg') /\ AnswerFits(msg')
  BY <1>2, <1>3 DEF Fits, RequestFits, AnswerFits
<1>6. Fits(msg')
  BY <1>2, <1>3, <1>4, <1>5 DEF Fits
<1> QED
  BY <1>1, <1>3, <1>6 DEF IInv, DownFits

\* Whatever the router believes, the search offers it a path that leads on from where it is.
LEMMA LearnFits ==
  ASSUME RsgForwardingAssumption, IInv, NEW n \in PrimNodes, NEW l, Learn(n, l)
  PROVE  IInv'
<1> DEFINE v == UpdateLinkStatus(known[n], l, Actual[l])
           p == ComputePreferredPathID(v, Succ, n)
<1>1. down' = [down EXCEPT ![n] = Preferred(@, p.down)] /\ UNCHANGED msg
  BY DEF Learn
<1>2. PICK i \in Positions : n = PrimPath[i]
  BY DEF PrimNodes
<1>3. p.down # NoPath => \E u \in VirLinks : u.ingress = i /\ u.pathID = p.down
  <2> DEFINE prev == SearchRounds(v, Succ).prev
  <2>1. Succ \in [VirLinks -> Int]
    BY DEF RsgForwardingAssumption
  <2>2. p.down # NoPath => \E u \in VirLinks :
          /\ u.ingress = i /\ Usable(v, u) /\ u = prev[u.egress]
          /\ u.egress \in WayBack(prev) /\ u.pathID = p.down
    BY <1>2, <2>1, PreferredAt
  <2> HIDE DEF v, p, prev
  <2> QED
    BY <2>2
<1> HIDE DEF p
<1>4. p.down # NoPath => Leaves(n, p.down)
  <2> SUFFICES ASSUME NEW u \in VirLinks, u.ingress = i, u.pathID = p.down
               PROVE  Leaves(n, p.down)
    BY <1>3
  <2>1. CASE u \in PrimVirLinks
    BY <2>1 DEF PrimVirLinks, Leaves
  <2>2. CASE u \in RspVirLinks
    <3>1. PICK r \in Rsps : /\ u.pathID = r.pathID
                            /\ u.ingress = PositionOf(r.nodeIds[Len(r.nodeIds)])
      BY <2>2 DEF RspVirLinks
    <3>2. PICK j \in Positions : r.nodeIds[Len(r.nodeIds)] = PrimPath[j]
      BY PathsAre DEF PrimNodes
    <3>3. j = i
      BY <3>1, <3>2, PositionIs
    <3> QED
      BY <1>2, <3>1, <3>2, <3>3 DEF Leaves
  <2> QED
    BY <2>1, <2>2 DEF VirLinks
<1>5. Leaves(n, down[n]) /\ DOMAIN down = PrimNodes
  BY DEF IInv, DownFits
<1>6. Leaves(n, Preferred(down[n], p.down))
  BY <1>4, <1>5 DEF Preferred
<1> DEFINE d == Preferred(down[n], p.down)
<1>7. down' = [down EXCEPT ![n] = d]
  BY <1>1
<1> HIDE DEF d
<1>8. /\ DOMAIN down' = PrimNodes /\ down' = [m \in PrimNodes |-> down'[m]]
      /\ \A m \in PrimNodes : down'[m] = IF m = n THEN d ELSE down[m]
  BY <1>7 DEF IInv, DownFits
<1>9. \A m \in PrimNodes : Leaves(m, down'[m])
  BY <1>6, <1>8 DEF IInv, DownFits, d
<1> QED
  BY <1>1, <1>8, <1>9 DEF IInv, DownFits

\* Messages and preferences fit the paths in every behaviour.
THEOREM Invariance == PartsSpec => []IInv
<1>1. PartsInit => IInv
  BY FirstFits DEF PartsInit
<1>2. ASSUME IInv, [PartsNext]_<<part, searchVars, vars>> PROVE IInv'
  <2>1. CASE Next
    <3>1. CASE Publish
      BY <1>2, <3>1, PublishFits
    <3>2. CASE \E n \in PrimNodes : SendRequest(n)
      BY <1>2, <3>2, SendRequestFits
    <3>3. CASE Receive
      BY <1>2, <3>3, ReceiveFits
    <3>4. CASE Lose
      BY <1>2, <3>4, LoseFits
    <3>5. CASE \E l \in Failing : LinkChange(l)
      BY <1>2, <3>5, LinkChangeFits
    <3>6. CASE \E n \in PrimNodes, l \in Links : Learn(n, l)
      BY <1>2, <3>6, LearnFits, ForwardingAssumption
    <3> QED
      BY <2>1, <3>1, <3>2, <3>3, <3>4, <3>5, <3>6 DEF Next
  <2>2. CASE UNCHANGED vars
    BY <1>2, <2>2 DEF vars, IInv, DownFits
  <2> QED
    BY <1>2, <2>1, <2>2 DEF PartsNext
<1> QED
  BY <1>1, <1>2, PTL DEF PartsSpec

\* No message comes to a dead end of the paths installed, and an answer comes to just the
\* router that asked, from one before it (addFibsFromPath, afterReceiveData,
\* afterReceiveNonPitData).
THEOREM AnswersReturn == PartsSpec => []AnswersComeBack
<1>1. ASSUME IInv PROVE AnswersComeBack
  <2>1. ASSUME NEW n \in PrimNodes, down[n] # PrimPathID
        PROVE  LookupForwardingEntry(n, down[n], 0) # {}
    <3>1. PICK r \in Rsps : down[n] = r.pathID /\ n = r.nodeIds[Len(r.nodeIds)]
      BY <1>1, <2>1 DEF IInv, DownFits, Leaves
    <3>2. Len(r.nodeIds) \in 1..Len(r.nodeIds) /\ Len(r.nodeIds) # 1
      BY PathsAre
    <3> QED
      BY <3>1, <3>2, RspHops
  <2>2. NoDeadEnd
    BY <1>1, <2>1 DEF NoDeadEnd, IInv, Fits
  <2> QED
    BY <1>1, <2>2 DEF AnswersComeBack, AnswerReturns, IInv, Fits, AnsweredFits
<1> QED
  BY <1>1, Invariance, PTL

\* A capsule is passed on to routers further down the primary path only, however
\* differently the routers see the links (onReceiveCapsule, deliverCapsule).
THEOREM CapsulesMove == PartsSpec => CapsulesMoveOn
<1>1. ASSUME IInv, [PartsNext]_<<part, searchVars, vars>>
      PROVE  [msg.kind \in {"Capsule", "CapsuleOnRSP"} /\ msg'.served # msg.served
                => PositionOf(msg'.served) > PositionOf(msg.served)]_vars
  <2> SUFFICES ASSUME ~ UNCHANGED vars, msg.kind \in {"Capsule", "CapsuleOnRSP"},
                      msg'.served # msg.served
               PROVE  PositionOf(msg'.served) > PositionOf(msg.served)
    OBVIOUS
  <2>1. Next
    BY <1>1 DEF PartsNext
  <2>2. ~ Publish /\ \A n \in PrimNodes : ~ SendRequest(n)
    BY DEF Publish, SendRequest, Ends
  <2>3. ~ Lose /\ \A l \in Failing : ~ LinkChange(l)
    BY <1>1, LoseFits, LinkChangeFits
  <2>4. \A n \in PrimNodes, l \in Links : ~ Learn(n, l)
    BY DEF Learn
  <2>5. Receive
    BY <2>1, <2>2, <2>3, <2>4 DEF Next
  <2> QED
    BY <1>1, <2>5, CapsuleReceived
<1> QED
  BY <1>1, Invariance, PTL DEF PartsSpec, CapsulesMoveOn

-------------------------------------------------------------------------------
(* The search half *)

\* A sub-path is believed to have failed just when one of its links is, in whatever order
\* the statuses of links that sub-paths share come in (rsgUpdateLinkStatus).
THEOREM StatusExact == PartsSpec => []RspStatusExact
<1>1. PartsInit => RspStatusExact
  <2> SUFFICES ASSUME PartsInit, NEW r \in Rsps
               PROVE  view.rsp[r.pathID] # "FAILURE" /\ ~ S!Broken(view.link, r)
    BY DEF RspStatusExact, S!RspStatusExact
  <2>1. view = S!InitialView
    BY DEF PartsInit, S!Init
  <2>2. r.pathID \in S!RspIDs /\ S!LinksOf(r.nodeIds) \subseteq S!Links
    BY DEF S!RspIDs, S!Links
  <2> QED
    BY <2>1, <2>2 DEF S!InitialView, S!Broken
<1>2. ASSUME RspStatusExact, NEW l, NEW status, S!Update(l, status)
      PROVE  RspStatusExact'
  <2> DEFINE told == [k \in {l} |-> status]
             link == [k \in S!Links |-> IF k \in DOMAIN told THEN told[k] ELSE view.link[k]]
             rsp == [p \in S!RspIDs |->
                       IF S!LinksOf(S!RspOf(p).nodeIds) \cap DOMAIN told = {} THEN view.rsp[p]
                       ELSE IF S!Broken(link, S!RspOf(p)) THEN "FAILURE" ELSE "NORMAL"]
  <2>1. view' = [link |-> link, rsp |-> rsp]
    BY <1>2, Zenon DEF S!Update, S!UpdateLinkStatus, S!UpdateLinkStatuses
  <2>2. ASSUME NEW r \in Rsps
        PROVE  rsp[r.pathID] = "FAILURE" <=> S!Broken(link, r)
    <3>1. S!RspOf(r.pathID) = r
      BY RsgSubgraphAssumption DEF RsgSubgraphAssumption, S!RspOf
    <3>2. r.pathID \in S!RspIDs /\ S!LinksOf(r.nodeIds) \subseteq S!Links
      BY DEF S!RspIDs, S!Links
    <3>3. CASE S!LinksOf(r.nodeIds) \cap DOMAIN told = {}
      <4>1. \A k \in S!LinksOf(r.nodeIds) : link[k] = view.link[k]
        BY <3>2, <3>3
      <4>2. S!Broken(link, r) <=> S!Broken(view.link, r)
        BY <4>1 DEF S!Broken
      <4>3. rsp[r.pathID] = view.rsp[r.pathID]
        BY <3>1, <3>2, <3>3
      <4> QED
        BY <1>2, <4>2, <4>3 DEF RspStatusExact, S!RspStatusExact
    <3>4. CASE S!LinksOf(r.nodeIds) \cap DOMAIN told # {}
      BY <3>1, <3>2, <3>4
    <3> QED
      BY <3>3, <3>4
  <2> HIDE DEF told, link, rsp
  <2> QED
    BY <2>1, <2>2 DEF RspStatusExact, S!RspStatusExact
<1>3. ASSUME RspStatusExact, [PartsNext]_<<part, searchVars, vars>> PROVE RspStatusExact'
  <2>1. CASE S!Next
    BY <1>2, <1>3, <2>1 DEF S!Next
  <2>2. CASE UNCHANGED searchVars
    BY <1>3, <2>2 DEF searchVars, RspStatusExact, S!RspStatusExact, S!Broken
  <2> QED
    BY <1>3, <2>1, <2>2 DEF PartsNext
<1> QED
  BY <1>1, <1>3, PTL DEF PartsSpec
===============================================================================
