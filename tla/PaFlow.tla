------------------------------- MODULE PaFlow -------------------------------
(***************************************************************************)
(* The frame replication baseline (pa-app.cc): a host behind the first     *)
(* node and one behind the last exchange IP packets, and every node passes *)
(* the first copy it sees of a packet on to all its neighbours towards the *)
(* other end.  The node at the end puts packets back in order, as far as a *)
(* queue of a few packets and 20 ms allow.                                 *)
(*                                                                         *)
(* A packet is numbered in the order its host sends it; its IP             *)
(* identification is that number modulo IdSpace.                           *)
(***************************************************************************)
EXTENDS Integers, FiniteSets, FiniteSetsExt, SequencesExt

CONSTANTS
  nNodes,      \* number of nodes
  Links,       \* topo: pairs <<a, b>>, a < b
  LossyLinks,  \* links that may lose packets
  IdSpace,     \* number of IP identifications, 2^16 in the program
  nQueue,      \* CACHE_QUEUE_N
  Traffic,     \* the bounds on the packets the hosts send to try, by direction
  MaxLosses    \* bound on the packets lost

VARIABLES
  needRes,   \* setNeedRes: is the last node to put packets in order
  wanted,    \* direction -> number of packets the host will send
  sent,      \* direction -> number of packets the host has sent
  seen,      \* node -> direction -> the PaList
  wire,      \* packets on links
  queue,     \* direction -> tmpQueue of the node at its end
  flushes,   \* direction -> number of flushQueue events scheduled
  handed,    \* direction -> packets handed to the host, in order
  losses

flowVars == <<needRes, wanted, sent, seen, wire, queue, flushes, handed, losses>>

L == INSTANCE PaList WITH paList <- <<>>, asked <- {}, answers <- <<>>

Directions == {"forward", "ack"}
Nodes == 0..(nNodes - 1)
Linked(a, b) == <<a, b>> \in Links \/ <<b, a>> \in Links

PaFlowAssumption ==
  /\ nNodes \in Nat \ {0, 1}
  /\ \A l \in Links : l[1] \in Nodes /\ l[2] \in Nodes /\ l[1] < l[2]
  /\ LossyLinks \subseteq Links
  /\ IdSpace \in Nat \ {0}
  /\ nQueue \in Nat \ {0}
  /\ Traffic \subseteq [Directions -> Nat]
  /\ MaxLosses \in Nat

IdOf(k) == k % IdSpace

\* Packets to dstIpv4Addr come in at the first node and leave at the last.
First(dir) == IF dir = "forward" THEN 0 ELSE nNodes - 1
Last_(dir) == IF dir = "forward" THEN nNodes - 1 ELSE 0

\* Devices are numbered from 0 by increasing neighbour; the device of the host and
\* the loopback device come behind them.
Behind(n, device) ==
  {m \in Nodes : Linked(n, m) /\ Cardinality({x \in Nodes : Linked(n, x) /\ x < m}) = device}

\* getInterfaceNumber: the rank of the neighbour in the row and column of n.
InterfaceNumber(n, m) ==
  IF ~ Linked(n, m) THEN -1 ELSE Cardinality({i \in Nodes : Linked(i, n) /\ i <= m}) - 1

\* The neighbours a packet is broadcast to.
Towards(n, dir) ==
  {m \in Nodes : Linked(n, m) /\ IF dir = "forward" THEN m > n ELSE m < n}

Broadcast(n, dir, k) ==
  {[from |-> n, to |-> x, dir |-> dir, k |-> k] :
      x \in UNION {Behind(n, InterfaceNumber(n, m)) : m \in Towards(n, dir)}}

-------------------------------------------------------------------------------
(* PacketCacheQueue: packets by increasing id; n is their number.            *)
EmptyQueue == [packets |-> {}, prevId |-> -1, maxId |-> -1]

InOrder(packets) == SetToSortSeq(packets, LAMBDA j, k : IdOf(j) < IdOf(k))

Init ==
  /\ needRes \in BOOLEAN
  /\ wanted \in Traffic
  /\ sent = [dir \in Directions |-> 0]
  /\ seen = [n \in Nodes |-> [dir \in Directions |-> <<>>]]
  /\ wire = {}
  /\ queue = [dir \in Directions |-> EmptyQueue]
  /\ flushes = [dir \in Directions |-> 0]
  /\ handed = [dir \in Directions |-> <<>>]
  /\ losses = 0

Goes(q, k) == q.packets = {} /\ (q.prevId = -1 \/ q.prevId + 1 = IdOf(k))

RolledIn(q, k) ==
  [packets |-> q.packets \cup {k},
   prevId |-> IF q.prevId = -1 THEN IdOf(k) ELSE q.prevId,
   maxId |-> IF IdOf(k) > q.maxId THEN IdOf(k) ELSE q.maxId]

IsFull(q) ==
  Cardinality(q.packets) >= q.maxId - q.prevId \/ Cardinality(q.packets) >= nQueue

HandOver(dir, packets) == handed' = [handed EXCEPT ![dir] = @ \o InOrder(packets)]

\* Mutant: the wait begins with the second packet.
RollInWaitingLate(dir, k) ==
  LET q == queue[dir]
      r == RolledIn(q, k)
  IN  IF Goes(q, k)
      THEN /\ queue' = [queue EXCEPT ![dir].prevId = IdOf(k)]
           /\ HandOver(dir, {k})
           /\ UNCHANGED flushes
      ELSE IF IsFull(r)
      THEN /\ queue' = [queue EXCEPT ![dir] = EmptyQueue]
           /\ HandOver(dir, r.packets)
           /\ UNCHANGED flushes
      ELSE /\ queue' = [queue EXCEPT ![dir] = r]
           /\ flushes' = [flushes EXCEPT ![dir] = IF Cardinality(r.packets) = 2 THEN @ + 1 ELSE @]
           /\ UNCHANGED handed

\* rollIn and what processPacket does with its answer.  The event scheduled by the
\* first packet that waits stays when the queue is flushed before.
RollIn(dir, k) ==
  LET q == queue[dir]
      r == RolledIn(q, k)
  IN  IF Goes(q, k)
      THEN /\ queue' = [queue EXCEPT ![dir].prevId = IdOf(k)]
           /\ HandOver(dir, {k})
           /\ UNCHANGED flushes
      ELSE IF IsFull(r)
      THEN /\ queue' = [queue EXCEPT ![dir] = EmptyQueue]
           /\ HandOver(dir, r.packets)
           /\ UNCHANGED flushes
      ELSE /\ queue' = [queue EXCEPT ![dir] = r]
           /\ flushes' = [flushes EXCEPT ![dir] = IF Cardinality(r.packets) = 1 THEN @ + 1 ELSE @]
           /\ UNCHANGED handed

\* The queue counts as flushed when it is empty: only then are prevId and maxId reset.
FlushQueue(dir) ==
  /\ flushes[dir] > 0
  /\ flushes' = [flushes EXCEPT ![dir] = @ - 1]
  /\ HandOver(dir, queue[dir].packets)
  /\ queue' = [queue EXCEPT ![dir] = IF @.packets = {} THEN @ ELSE EmptyQueue]
  /\ UNCHANGED <<needRes, wanted, sent, seen, wire, losses>>

-------------------------------------------------------------------------------
\* processPacket at node n of packet k, rest being the packets left on the links.
ProcessPacket(n, dir, k, rest) ==
  /\ seen' = [seen EXCEPT ![n][dir] = L!Noted(@, IdOf(k))]
  /\ IF ~ L!IsNew(seen[n][dir], IdOf(k))
     THEN wire' = rest /\ UNCHANGED <<queue, flushes, handed>>
     ELSE IF n # Last_(dir)
     THEN wire' = rest \cup Broadcast(n, dir, k) /\ UNCHANGED <<queue, flushes, handed>>
     ELSE IF needRes
     THEN RollIn(dir, k) /\ wire' = rest
     ELSE HandOver(dir, {k}) /\ wire' = rest /\ UNCHANGED <<queue, flushes>>

\* The host hands its next packet to the node before it.
HostSends(dir) ==
  /\ sent[dir] < wanted[dir]
  /\ sent' = [sent EXCEPT ![dir] = @ + 1]
  /\ ProcessPacket(First(dir), dir, sent[dir], wire)
  /\ UNCHANGED <<needRes, wanted, losses>>

Receive(p) ==
  /\ p \in wire
  /\ ProcessPacket(p.to, p.dir, p.k, wire \ {p})
  /\ UNCHANGED <<needRes, wanted, sent, losses>>

Lose(p) ==
  /\ p \in wire
  /\ losses < MaxLosses
  /\ <<p.from, p.to>> \in LossyLinks \/ <<p.to, p.from>> \in LossyLinks
  /\ wire' = wire \ {p}
  /\ losses' = losses + 1
  /\ UNCHANGED <<needRes, wanted, sent, seen, queue, flushes, handed>>

Next ==
  \/ \E dir \in Directions : HostSends(dir) \/ FlushQueue(dir)
  \/ \E p \in wire : Receive(p) \/ Lose(p)

-------------------------------------------------------------------------------
TypeOK ==
  /\ needRes \in BOOLEAN
  /\ \A dir \in Directions :
       /\ sent[dir] \in 0..wanted[dir]
       /\ queue[dir].packets \subseteq 0..sent[dir]
       /\ flushes[dir] \in Nat
       /\ handed[dir] \in Seq(0..sent[dir])
  /\ wire \subseteq [from : Nodes, to : Nodes, dir : Directions, k : Nat]
  /\ losses \in 0..MaxLosses

(***************************************************************************)
(* Losses on one of two paths cost nothing: when nothing is on its way and *)
(* no flush is due, the host has got each of the first IdSpace packets     *)
(* exactly once, however copies raced and whatever the queue held back.    *)
(* And no packet behind these: ids begin again and are taken for copies.   *)
(***************************************************************************)
LossesRepaired ==
  (wire = {} /\ \A dir \in Directions : flushes[dir] = 0) =>
    \A dir \in Directions :
      /\ ToSet(handed[dir]) = {k \in 0..(sent[dir] - 1) : k < IdSpace}
      /\ Len(handed[dir]) = Cardinality(ToSet(handed[dir]))
=============================================================================
