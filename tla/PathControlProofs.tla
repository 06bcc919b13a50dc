--------------------------- MODULE PathControlProofs ---------------------------
(***************************************************************************)
(* Proofs about PathControl, for every RSG, every links that may fail and  *)
(* any number of advertisements and losses.                                *)
(*                                                                         *)
(* The invariant speaks of the advertisements originated so far: g[i] is   *)
(* the one with id i.  The state does not keep them all; that there are    *)
(* such g is part of the invariant.                                        *)
(***************************************************************************)
EXTENDS PathControl, RsgSubgraphProofs, TLAPS

-------------------------------------------------------------------------------
(* Advertisements in a channel *)

\* What Append does to a queue.
LEMMA AppendAt ==
  ASSUME NEW S, NEW q \in Seq(S), NEW x \in S
  PROVE  /\ Append(q, x) \in Seq(S)
         /\ Len(Append(q, x)) = Len(q) + 1
         /\ Append(q, x)[Len(q) + 1] = x
         /\ \A k \in 1..Len(q) : Append(q, x)[k] = q[k]
OBVIOUS

\* What Head and Tail do to a queue.
LEMMA TailAt ==
  ASSUME NEW S, NEW q \in Seq(S), q # <<>>
  PROVE  /\ Tail(q) \in Seq(S)
         /\ Len(q) \in Nat /\ Len(q) > 0
         /\ Len(Tail(q)) = Len(q) - 1
         /\ Head(q) = q[1] /\ Head(q) \in S
         /\ \A k \in 1..(Len(q) - 1) : Tail(q)[k] = q[k + 1]
OBVIOUS

AllStates == UNION {[Neighbours(n) -> Status] : n \in Nodes}

\* An advertisement has a status for each neighbour of its source.
Lsas ==
  {lsa \in [id : LsaIds, source : Nodes, states : AllStates] :
     lsa.states \in [Neighbours(lsa.source) -> Status]}

\* The advertisement with id i is in the queue.
On(q, i) == \E k \in 1..Len(q) : q[k].id = i

\* The queue holds advertisements of g, with ids up to max.
Carries(q, g, max) == \A k \in 1..Len(q) : q[k].id \in 1..max /\ q[k] = g[q[k].id]

\* What its source advertised before an advertisement in the queue has been seen, or is
\* in the queue before it.
InOrder(q, seen, g) ==
  \A k \in 1..Len(q) : \A i \in 1..(q[k].id - 1) :
    g[i].source = q[k].source => i \in seen \/ \E before \in 1..(k - 1) : q[before].id = i

\* A queue stays in order when more is seen.
LEMMA InOrderMoreSeen ==
  ASSUME NEW q, NEW seen, NEW more, NEW g, InOrder(q, seen, g), seen \subseteq more
  PROVE  InOrder(q, more, g)
BY DEF InOrder

\* A queue stays in order when there is a newer advertisement.
LEMMA InOrderNewer ==
  ASSUME NEW max \in Nat, NEW q \in Seq(Lsas), NEW seen, NEW g, NEW h,
         Carries(q, g, max), InOrder(q, seen, g), \A i \in 1..max : h[i] = g[i]
  PROVE  Carries(q, h, max) /\ Carries(q, h, max + 1) /\ InOrder(q, seen, h)
<1>1. Carries(q, h, max) /\ Carries(q, h, max + 1)
  BY DEF Carries
<1>2. ASSUME NEW k \in 1..Len(q), NEW i \in 1..(q[k].id - 1) PROVE h[i] = g[i]
  BY DEF Carries
<1>3. InOrder(q, seen, h)
  BY <1>2 DEF InOrder
<1> QED
  BY <1>1, <1>3

\* Appending an advertisement whose predecessors have been seen or are in the queue.
LEMMA InOrderAppend ==
  ASSUME NEW q \in Seq(Lsas), NEW lsa \in Lsas, NEW seen, NEW g, NEW max \in Nat,
         Carries(q, g, max), InOrder(q, seen, g), lsa.id \in 1..max, g[lsa.id] = lsa,
         \A i \in 1..(lsa.id - 1) : g[i].source = lsa.source => i \in seen \/ On(q, i)
  PROVE  /\ Carries(Append(q, lsa), g, max)
         /\ InOrder(Append(q, lsa), seen, g)
<1> DEFINE a == Append(q, lsa)
<1>1. /\ Len(q) \in Nat /\ Len(a) = Len(q) + 1 /\ a[Len(q) + 1] = lsa
      /\ \A k \in 1..Len(q) : a[k] = q[k]
  BY AppendAt
<1> HIDE DEF a
<1>2. Carries(a, g, max)
  BY <1>1 DEF Carries
<1>3. ASSUME NEW k \in 1..Len(a), NEW i \in 1..(a[k].id - 1), g[i].source = a[k].source
      PROVE  i \in seen \/ \E before \in 1..(k - 1) : a[before].id = i
  <2>1. CASE k \in 1..Len(q)
    <3>1. i \in seen \/ \E before \in 1..(k - 1) : q[before].id = i
      BY <1>1, <1>3, <2>1 DEF InOrder
    <3> QED
      BY <1>1, <2>1, <3>1
  <2>2. CASE k = Len(q) + 1
    <3>1. i \in seen \/ On(q, i)
      BY <1>1, <1>3, <2>2
    <3> QED
      BY <1>1, <2>2, <3>1 DEF On
  <2> QED
    BY <1>1, <2>1, <2>2
<1>4. InOrder(a, seen, g)
  BY <1>3 DEF InOrder
<1> QED
  BY <1>2, <1>4 DEF a

\* Appending an advertisement of g.
LEMMA CarriesAppend ==
  ASSUME NEW q \in Seq(Lsas), NEW lsa \in Lsas, NEW g, NEW max \in Nat,
         Carries(q, g, max), lsa.id \in 1..max, g[lsa.id] = lsa
  PROVE  Carries(Append(q, lsa), g, max)
<1>1. /\ Len(q) \in Nat /\ Len(Append(q, lsa)) = Len(q) + 1 /\ Append(q, lsa)[Len(q) + 1] = lsa
      /\ \A k \in 1..Len(q) : Append(q, lsa)[k] = q[k]
  BY AppendAt
<1> QED
  BY <1>1 DEF Carries

\* What is in a queue after Append.
LEMMA OnAppend ==
  ASSUME NEW S, NEW q \in Seq(S), NEW x \in S
  PROVE  On(Append(q, x), x.id) /\ \A i : On(q, i) => On(Append(q, x), i)
<1>1. /\ Len(q) \in Nat /\ Len(Append(q, x)) = Len(q) + 1 /\ Append(q, x)[Len(q) + 1] = x
      /\ \A k \in 1..Len(q) : Append(q, x)[k] = q[k]
  BY AppendAt
<1> QED
  BY <1>1 DEF On

\* Taking the first advertisement of a queue.
LEMMA CarriesTail ==
  ASSUME NEW q \in Seq(Lsas), q # <<>>, NEW g, NEW max \in Nat, Carries(q, g, max)
  PROVE  /\ Tail(q) \in Seq(Lsas) /\ Head(q) \in Lsas
         /\ Head(q).id \in 1..max /\ Head(q) = g[Head(q).id]
         /\ Carries(Tail(q), g, max)
<1>1. /\ Tail(q) \in Seq(Lsas) /\ Head(q) \in Lsas
      /\ Len(q) \in Nat /\ Len(q) > 0 /\ Len(Tail(q)) = Len(q) - 1 /\ Head(q) = q[1]
      /\ \A k \in 1..(Len(q) - 1) : Tail(q)[k] = q[k + 1]
  BY TailAt
<1> QED
  BY <1>1 DEF Carries

\* In a queue in order its predecessors have been seen.
LEMMA InOrderTail ==
  ASSUME NEW q \in Seq(Lsas), q # <<>>, NEW seen, NEW g, NEW max \in Nat,
         Carries(q, g, max), InOrder(q, seen, g)
  PROVE  /\ \A i \in 1..(Head(q).id - 1) : g[i].source = Head(q).source => i \in seen
         /\ InOrder(Tail(q), seen \cup {Head(q).id}, g)
         /\ \A i : On(q, i) => i = Head(q).id \/ On(Tail(q), i)
<1> DEFINE t == Tail(q)
<1>1. /\ Len(q) \in Nat /\ Len(q) > 0 /\ Len(t) = Len(q) - 1 /\ Head(q) = q[1] /\ Head(q) \in Lsas
      /\ \A k \in 1..(Len(q) - 1) : t[k] = q[k + 1]
  BY TailAt
<1> HIDE DEF t
<1>2. Head(q).id \in 1..max
  BY CarriesTail
<1>3. \A i \in 1..(Head(q).id - 1) : g[i].source = Head(q).source => i \in seen
  BY <1>1 DEF InOrder
<1>4. ASSUME NEW k \in 1..Len(t), NEW i \in 1..(t[k].id - 1), g[i].source = t[k].source
      PROVE  i \in seen \cup {Head(q).id} \/ \E before \in 1..(k - 1) : t[before].id = i
  <2>1. k + 1 \in 1..Len(q) /\ t[k] = q[k + 1]
    BY <1>1
  <2>2. i \in seen \/ \E before \in 1..k : q[before].id = i
    BY <1>1, <1>4, <2>1 DEF InOrder
  <2>3. ASSUME NEW before \in 1..k, q[before].id = i, i \notin seen
        PROVE  i = Head(q).id \/ \E b \in 1..(k - 1) : t[b].id = i
    <3>1. CASE before = 1
      BY <1>1, <2>3, <3>1
    <3>2. CASE before # 1
      <4>1. before - 1 \in 1..(k - 1) /\ before - 1 \in 1..(Len(q) - 1) /\ (before - 1) + 1 = before
        BY <1>1, <3>2
      <4> QED
        BY <1>1, <2>3, <4>1
    <3> QED
      BY <3>1, <3>2
  <2> QED
    BY <2>2, <2>3
<1>5. InOrder(t, seen \cup {Head(q).id}, g)
  BY <1>4 DEF InOrder
<1>6. ASSUME NEW i, On(q, i) PROVE i = Head(q).id \/ On(t, i)
  <2>1. PICK k \in 1..Len(q) : q[k].id = i
    BY <1>6 DEF On
  <2>2. CASE k = 1
    BY <1>1, <2>1, <2>2
  <2>3. CASE k # 1
    <3>1. k - 1 \in 1..(Len(q) - 1) /\ (k - 1) + 1 = k
      BY <1>1, <2>3
    <3> QED
      BY <1>1, <2>1, <3>1 DEF On
  <2> QED
    BY <2>2, <2>3
<1> QED
  BY <1>3, <1>5, <1>6 DEF t

\* What flooding adds to the channels.
LEMMA FloodAt ==
  ASSUME NEW chan \in [Channels -> Seq(Lsas)], NEW n \in Nodes, NEW lsa \in Lsas
  PROVE  /\ Flood(n, chan, lsa) \in [Channels -> Seq(Lsas)]
         /\ \A c \in Channels :
              Flood(n, chan, lsa)[c] = IF c[1] = n THEN Append(chan[c], lsa) ELSE chan[c]
<1>1. \A c \in Channels : chan[c] \in Seq(Lsas) /\ Append(chan[c], lsa) \in Seq(Lsas)
  BY AppendAt
<1> QED
  BY <1>1 DEF Flood

-------------------------------------------------------------------------------
(* What an advertisement tells *)

\* Both ends of a link are neighbours.
LEMMA NeighbourOf ==
  ASSUME NEW n \in Nodes, NEW m \in Neighbours(n)
  PROVE  m \in Nodes /\ m # n /\ {n, m} \in Links /\ n \in Neighbours(m)
<1>1. {n, m} = {m, n}
  OBVIOUS
<1> QED
  BY <1>1 DEF Neighbours

\* A path of more than one node joins each of them to another.
LEMMA OnALink ==
  ASSUME NEW path \in Seq(Int), NEW k \in 1..Len(path), Len(path) > 1
  PROVE  \E l \in LinksOf(path) : path[k] \in l
<1>1. CASE k < Len(path)
  <2>1. k \in 1..(Len(path) - 1)
    BY <1>1
  <2> QED
    BY <2>1 DEF LinksOf
<1>2. CASE k = Len(path)
  <2>1. k - 1 \in 1..(Len(path) - 1) /\ (k - 1) + 1 = k
    BY <1>2
  <2>2. \A d \in 1..(Len(path) - 1) : {path[d], path[d + 1]} \in LinksOf(path)
    BY DEF LinksOf
  <2>3. {path[k - 1], path[k]} \in LinksOf(path)
    BY <2>1, <2>2
  <2> QED
    BY <2>3
<1> QED
  BY <1>1, <1>2

\* The ends of the links of a path are on it.
LEMMA EndsOnPath ==
  ASSUME NEW path \in Seq(Int), NEW l \in LinksOf(path), NEW e \in l
  PROVE  \E k \in 1..Len(path) : path[k] = e
<1>1. PICK d \in 1..(Len(path) - 1) : l = {path[d], path[d + 1]}
  BY DEF LinksOf
<1>2. d \in 1..Len(path) /\ d + 1 \in 1..Len(path)
  OBVIOUS
<1> QED
  BY <1>1, <1>2

\* Every router of the primary path has a link.
LEMMA PrimNodesAreNodes == PrimNodes \subseteq Nodes
<1> SUFFICES ASSUME NEW k \in Positions PROVE PrimPath[k] \in Nodes
  BY DEF PrimNodes
<1>1. \E l \in LinksOf(PrimPath) : PrimPath[k] \in l
  BY OnALink, RsgSubgraphAssumption DEF RsgSubgraphAssumption, Positions
<1> QED
  BY <1>1 DEF Nodes, Links, PrimLinks

\* An advertisement tells the links of its source, of each the status it gives.
LEMMA ToldAt ==
  ASSUME NEW lsa \in Lsas
  PROVE  /\ DOMAIN Told(lsa) = {{lsa.source, m} : m \in Neighbours(lsa.source)}
         /\ DOMAIN Told(lsa) \subseteq Links
         /\ \A m \in Neighbours(lsa.source) : Told(lsa)[{lsa.source, m}] = lsa.states[m]
         /\ \A l \in DOMAIN Told(lsa) : Told(lsa)[l] \in Status
<1>1. lsa.source \in Nodes /\ lsa.states \in [Neighbours(lsa.source) -> Status]
  BY DEF Lsas
<1>2. DOMAIN lsa.states = Neighbours(lsa.source)
  BY <1>1
<1>3. DOMAIN Told(lsa) = {{lsa.source, m} : m \in Neighbours(lsa.source)}
  BY <1>2 DEF Told
<1>4. ASSUME NEW m \in Neighbours(lsa.source)
      PROVE  Told(lsa)[{lsa.source, m}] = lsa.states[m]
  <2>1. (CHOOSE k \in DOMAIN lsa.states : {lsa.source, k} = {lsa.source, m}) = m
    <3>1. \A k \in Neighbours(lsa.source) : k # lsa.source
      BY <1>1, NeighbourOf
    <3>2. \A k \in Neighbours(lsa.source) : {lsa.source, k} = {lsa.source, m} <=> k = m
      BY <3>1
    <3> QED
      BY <1>2, <3>2
  <2> QED
    BY <1>3, <2>1 DEF Told
<1>5. DOMAIN Told(lsa) \subseteq Links
  <2>1. \A m \in Neighbours(lsa.source) : {lsa.source, m} \in Links
    BY <1>1, NeighbourOf
  <2> QED
    BY <1>3, <2>1
<1>6. \A l \in DOMAIN Told(lsa) : Told(lsa)[l] \in Status
  BY <1>1, <1>3, <1>4
<1> QED
  BY <1>3, <1>4, <1>5, <1>6

\* Two advertisements of one router tell the same links.
LEMMA SameSourceSameLinks ==
  ASSUME NEW lsa \in Lsas, NEW other \in Lsas, lsa.source = other.source
  PROVE  DOMAIN Told(lsa) = DOMAIN Told(other)
BY ToldAt

\* A view keeps its type and takes on what it is told.
LEMMA AppliedAt ==
  ASSUME NEW v \in Views, NEW lsa \in Lsas
  PROVE  /\ Applied(v, lsa) \in Views
         /\ \A l \in Links :
              Applied(v, lsa).link[l] = IF l \in DOMAIN Told(lsa) THEN Told(lsa)[l] ELSE v.link[l]
<1> DEFINE told == Told(lsa)
           link == [l \in Links |-> IF l \in DOMAIN told THEN told[l] ELSE v.link[l]]
           rsp == [p \in RspIDs |->
                     IF LinksOf(RspOf(p).nodeIds) \cap DOMAIN told = {} THEN v.rsp[p]
                     ELSE IF Broken(link, RspOf(p)) THEN "FAILURE" ELSE "NORMAL"]
<1>1. v.link \in [Links -> Status] /\ v.rsp \in [RspIDs -> Status]
  BY DEF Views
<1>2. \A l \in DOMAIN told : told[l] \in Status
  BY ToldAt
<1> HIDE DEF told
<1>3. link \in [Links -> Status]
  BY <1>1, <1>2
<1>4. rsp \in [RspIDs -> Status]
  BY <1>1 DEF Status
<1>5. Applied(v, lsa) = [link |-> link, rsp |-> rsp]
  BY Zenon DEF Applied, UpdateLinkStatuses, told
<1>6. \A l \in Links : link[l] = IF l \in DOMAIN told THEN told[l] ELSE v.link[l]
  OBVIOUS
<1> HIDE DEF link, rsp
<1>7. Applied(v, lsa) \in Views
  BY <1>3, <1>4, <1>5 DEF Views
<1>8. Applied(v, lsa).link = link
  BY <1>5
<1> QED
  BY <1>6, <1>7, <1>8 DEF told

\* updatePreferredPathWithLSA changes the view and the count of one router.
LEMMA UpdateAt ==
  ASSUME view \in [Nodes -> Views], applied \in [Nodes -> [LsaIds -> Nat]],
         NEW n \in Nodes, NEW lsa \in Lsas, UpdatePreferredPathWithLSA(n, lsa)
  PROVE  /\ view' \in [Nodes -> Views]
         /\ applied' \in [Nodes -> [LsaIds -> Nat]]
         /\ \A m \in Nodes : m # n => view'[m] = view[m] /\ applied'[m] = applied[m]
         /\ n \in PrimNodes => view'[n] = Applied(view[n], lsa)
         /\ \A i \in LsaIds : i # lsa.id => applied'[n][i] = applied[n][i]
         /\ applied'[n][lsa.id] <= applied[n][lsa.id] + 1
<1>1. lsa.id \in LsaIds
  BY DEF Lsas
<1>2. applied[n] \in [LsaIds -> Nat] /\ applied[n][lsa.id] \in Nat
  BY <1>1
<1>3. CASE n \notin PrimNodes
  BY <1>2, <1>3 DEF UpdatePreferredPathWithLSA
<1>4. CASE n \in PrimNodes
  <2>1. /\ view' = [view EXCEPT ![n] = Applied(view[n], lsa)]
        /\ applied' = [applied EXCEPT ![n][lsa.id] = @ + 1]
    BY <1>4 DEF UpdatePreferredPathWithLSA
  <2>2. Applied(view[n], lsa) \in Views
    BY AppliedAt
  <2>3. /\ view' \in [Nodes -> Views]
        /\ view'[n] = Applied(view[n], lsa)
        /\ \A m \in Nodes : m # n => view'[m] = view[m]
    BY <2>1, <2>2
  <2>4. /\ applied' \in [Nodes -> [LsaIds -> Nat]]
        /\ \A m \in Nodes : m # n => applied'[m] = applied[m]
        /\ \A i \in LsaIds : i # lsa.id => applied'[n][i] = applied[n][i]
        /\ applied'[n][lsa.id] = applied[n][lsa.id] + 1
    BY <1>1, <1>2, <2>1
  <2> QED
    BY <1>2, <2>3, <2>4
<1> QED
  BY <1>3, <1>4
-------------------------------------------------------------------------------
(* The invariant *)

Typed ==
  /\ lsas \in Nat /\ lost \in Nat
  /\ faceStatus \in [Nodes -> AllStates] /\ prevLsa \in [Nodes -> AllStates \cup {NoLsa}]
  /\ \A n \in Nodes : /\ faceStatus[n] \in [Neighbours(n) -> Status]
                      /\ prevLsa[n] = NoLsa \/ prevLsa[n] \in [Neighbours(n) -> Status]
  /\ recentLsaIds \in [Nodes -> SUBSET (1..lsas)]
  /\ view \in [Nodes -> Views]
  /\ channel \in [Channels -> Seq(Lsas)]
  /\ applied \in [Nodes -> [LsaIds -> Nat]]

\* g has all advertisements originated, and the channels nothing else.
History(g) ==
  /\ g \in [1..lsas -> Lsas]
  /\ \A i \in 1..lsas : g[i].id = i
  /\ \A c \in Channels : Carries(channel[c], g, lsas)

\* i is the last advertisement of n.
Newest(g, n, i) == g[i].source = n /\ \A j \in 1..lsas : g[j].source = n => j <= i

\* A router remembers what it last advertised.
Latest(g) ==
  \A n \in Nodes :
    \/ prevLsa[n] = NoLsa /\ \A i \in 1..lsas : g[i].source # n
    \/ \E i \in 1..lsas : Newest(g, n, i) /\ g[i].states = prevLsa[n]

\* A router applies an advertisement when it receives it, its source also before.
Counted(g) ==
  \A n \in Nodes, i \in LsaIds :
    /\ i \notin 1..lsas => applied[n][i] = 0
    /\ i \in 1..lsas =>
         applied[n][i] <= (IF i \in recentLsaIds[n] THEN 1 ELSE 0)
                            + (IF g[i].source = n THEN 1 ELSE 0)

\* A router knows an advertisement it received and one it originated.
Knows(g, n, i) == i \in recentLsaIds[n] \/ g[i].source = n

\* Every router receives the advertisements of another in the order it sent them.
ReceivedInOrder(g) ==
  \A n \in Nodes, i, j \in 1..lsas :
    i < j /\ g[i].source = g[j].source /\ j \in recentLsaIds[n] => i \in recentLsaIds[n]

ChannelsInOrder(g) == \A c \in Channels : InOrder(channel[c], recentLsaIds[c[2]], g)

\* What a router knows its neighbours have received or will.
Spread(g) ==
  \A c \in Channels, i \in 1..lsas :
    Knows(g, c[1], i) => i \in recentLsaIds[c[2]] \/ On(channel[c], i)

\* The status of a link in a view is that of an advertisement known, and of none that a
\* later one from the same router was received after.
ViewFrom(g, n, l, i) ==
  /\ l \in DOMAIN Told(g[i])
  /\ Knows(g, n, i)
  /\ view[n].link[l] = Told(g[i])[l]
  /\ i \in recentLsaIds[n] => \A j \in recentLsaIds[n] : g[j].source = g[i].source => j <= i

ViewFirst(g, n, l) ==
  /\ view[n].link[l] = "NORMAL"
  /\ \A i \in 1..lsas : Knows(g, n, i) => l \notin DOMAIN Told(g[i])

ViewsTold(g) ==
  \A n \in PrimNodes, l \in Links : ViewFirst(g, n, l) \/ \E i \in 1..lsas : ViewFrom(g, n, l, i)

\* Once a message is lost nothing is said of delivery.
Delivered(g) == ReceivedInOrder(g) /\ ChannelsInOrder(g) /\ Spread(g) /\ ViewsTold(g)

Kept(g) ==
  /\ Typed /\ AdvertisedIsCurrent
  /\ History(g) /\ Latest(g) /\ Counted(g)
  /\ lost = 0 => Delivered(g)

IInv == \E g : Kept(g)

\* Init establishes the invariant: nothing has been advertised.
LEMMA InitInv == Init => IInv
<1> SUFFICES ASSUME Init PROVE Kept(<<>>)
  BY DEF IInv
<1>1. Typed
  <2>1. InitialView \in Views
    BY DEF InitialView, Views, Status
  <2>2. \A n \in Nodes : [m \in Neighbours(n) |-> "NORMAL"] \in [Neighbours(n) -> Status]
    BY DEF Status
  <2>3. faceStatus \in [Nodes -> AllStates] /\ prevLsa \in [Nodes -> AllStates \cup {NoLsa}]
    BY <2>2 DEF Init, AllStates
  <2> QED
    BY <2>1, <2>2, <2>3 DEF Init, Typed
<1>2. AdvertisedIsCurrent
  BY DEF Init, AdvertisedIsCurrent
<1>3. History(<<>>)
  BY DEF Init, History, Carries
<1>4. Latest(<<>>)
  BY DEF Init, Latest
<1>5. Counted(<<>>)
  BY DEF Init, Counted
<1>6. Delivered(<<>>)
  <2>1. PrimNodes \subseteq Nodes
    BY PrimNodesAreNodes
  <2>2. ChannelsInOrder(<<>>)
    BY DEF Init, ChannelsInOrder, InOrder
  <2>3. ViewsTold(<<>>)
    BY <2>1 DEF Init, ViewsTold, ViewFirst, InitialView
  <2> QED
    BY <2>2, <2>3 DEF Init, Delivered, ReceivedInOrder, Spread
<1> QED
  BY <1>1, <1>2, <1>3, <1>4, <1>5, <1>6 DEF Kept
\* A test of links that ends keeps the invariant, with a new advertisement or not.
LEMMA LinkTestInv ==
  ASSUME NEW g, Kept(g), NEW n \in Nodes,
         NEW F \in {Neighbours(n)} \cup {{m} : m \in Neighbours(n)}, NEW result \in [F -> Status],
         LinkTestOver(n, result)
  PROVE  IInv'
<1> DEFINE states == [m \in Neighbours(n) |-> IF m \in DOMAIN result THEN result[m]
                                              ELSE faceStatus[n][m]]
           new == [id |-> lsas + 1, source |-> n, states |-> states]
<1>1. states \in [Neighbours(n) -> Status]
  BY DEF Kept, Typed
<1>2. /\ faceStatus' = [faceStatus EXCEPT ![n] = states]
      /\ BroadcastingLsaTask(n, states)
      /\ recentLsaIds' = recentLsaIds /\ lost' = lost
  BY DEF LinkTestOver
<1> HIDE DEF states
<1>3. /\ faceStatus' \in [Nodes -> AllStates]
      /\ faceStatus'[n] = states
      /\ \A m \in Nodes : m # n => faceStatus'[m] = faceStatus[m]
      /\ \A m \in Nodes : faceStatus'[m] \in [Neighbours(m) -> Status]
  BY <1>1, <1>2 DEF Kept, Typed, AllStates
<1>4. CASE ~ Differs(n, states)
  <2>1. UNCHANGED <<prevLsa, view, down, up, channel, lsas, applied>>
    BY <1>2, <1>4 DEF BroadcastingLsaTask
  <2>2. Typed'
    BY <1>2, <1>3, <2>1 DEF Kept, Typed
  <2>3. AdvertisedIsCurrent'
    <3>1. states = IF prevLsa[n] = NoLsa THEN [m \in Neighbours(n) |-> "NORMAL"] ELSE prevLsa[n]
      <4>1. CASE prevLsa[n] = NoLsa
        <5>1. \A m \in Neighbours(n) : states[m] = "NORMAL"
          BY <1>1, <1>4, <4>1 DEF Differs, Status
        <5> QED
          BY <1>1, <4>1, <5>1
      <4>2. CASE prevLsa[n] # NoLsa
        BY <1>4, <4>2 DEF Differs
      <4> QED
        BY <4>1, <4>2
    <3> QED
      BY <1>3, <2>1, <3>1 DEF Kept, AdvertisedIsCurrent
  <2>4. History(g)' /\ Latest(g)' /\ Counted(g)'
    BY <1>2, <2>1 DEF Kept, History, Latest, Newest, Counted
  <2>5. Delivered(g) => Delivered(g)'
    BY <1>2, <2>1
       DEF Delivered, ReceivedInOrder, ChannelsInOrder, Spread, Knows, ViewsTold, ViewFirst,
           ViewFrom
  <2> QED
    BY <1>2, <2>2, <2>3, <2>4, <2>5 DEF Kept, IInv
<1>5. CASE Differs(n, states)
  <2>1. /\ lsas + lost < MaxLsas
        /\ UpdatePreferredPathWithLSA(n, new)
        /\ prevLsa' = [prevLsa EXCEPT ![n] = states]
        /\ channel' = Flood(n, channel, new)
        /\ lsas' = lsas + 1
    BY <1>2, <1>5, Zenon DEF BroadcastingLsaTask
  <2>2. states # NoLsa
    <3>1. DOMAIN states = Neighbours(n) /\ DOMAIN NoLsa = {}
      BY <1>1 DEF NoLsa
    <3>2. CASE prevLsa[n] = NoLsa
      BY <1>5, <3>1, <3>2 DEF Differs
    <3>3. CASE prevLsa[n] # NoLsa
      <4>1. prevLsa[n] \in [Neighbours(n) -> Status] /\ states # prevLsa[n]
        BY <1>5, <3>3 DEF Kept, Typed, Differs
      <4>2. Neighbours(n) # {}
        BY <1>1, <4>1
      <4> QED
        BY <3>1, <4>2
    <3> QED
      BY <3>2, <3>3
  <2>3. lsas \in Nat /\ lost \in Nat /\ lsas + 1 \in LsaIds /\ g \in [1..lsas -> Lsas]
    BY <2>1, PathControlAssumption DEF Kept, Typed, History, LsaIds, PathControlAssumption
  <2>4. PICK lsa \in Lsas :
          lsa = new /\ lsa.id = lsas + 1 /\ lsa.source = n /\ lsa.states = states
    <3>1. new \in [id : LsaIds, source : Nodes, states : AllStates]
      BY <1>1, <2>3 DEF AllStates
    <3>2. new \in Lsas
      BY <1>1, <3>1 DEF Lsas
    <3>3. new.id = lsas + 1 /\ new.source = n /\ new.states = states
      OBVIOUS
    <3> HIDE DEF new
    <3> QED
      BY <3>2, <3>3
  <2>5. PICK h \in [1..(lsas + 1) -> Lsas] : h[lsas + 1] = lsa /\ \A i \in 1..lsas : h[i] = g[i]
    <3> DEFINE next == [i \in 1..(lsas + 1) |-> IF i = lsas + 1 THEN lsa ELSE g[i]]
    <3>1. /\ next \in [1..(lsas + 1) -> Lsas]
          /\ next[lsas + 1] = lsa
          /\ \A i \in 1..lsas : next[i] = g[i]
      BY <2>3
    <3> HIDE DEF next
    <3> QED
      BY <3>1
  <2> HIDE DEF new
  <2>6. /\ view' \in [Nodes -> Views]
        /\ applied' \in [Nodes -> [LsaIds -> Nat]]
        /\ \A m \in Nodes : m # n => view'[m] = view[m] /\ applied'[m] = applied[m]
        /\ n \in PrimNodes => view'[n] = Applied(view[n], lsa)
        /\ \A i \in LsaIds : i # lsas + 1 => applied'[n][i] = applied[n][i]
        /\ applied'[n][lsas + 1] <= applied[n][lsas + 1] + 1
    BY <2>1, <2>4, UpdateAt DEF Kept, Typed
  <2>7. /\ channel' \in [Channels -> Seq(Lsas)]
        /\ \A c \in Channels :
             channel'[c] = IF c[1] = n THEN Append(channel[c], lsa) ELSE channel[c]
    <3>1. channel \in [Channels -> Seq(Lsas)] /\ channel' = Flood(n, channel, lsa)
      BY <2>1, <2>4 DEF Kept, Typed
    <3> QED
      BY <3>1, FloodAt
  <2>8. /\ prevLsa' \in [Nodes -> AllStates \cup {NoLsa}]
        /\ prevLsa'[n] = states
        /\ \A m \in Nodes : m # n => prevLsa'[m] = prevLsa[m]
    BY <1>1, <2>1 DEF Kept, Typed, AllStates
  <2>9. Typed'
    <3>1. recentLsaIds' \in [Nodes -> SUBSET (1..lsas')]
      BY <1>2, <2>1, <2>3 DEF Kept, Typed
    <3>2. \A m \in Nodes : prevLsa'[m] = NoLsa \/ prevLsa'[m] \in [Neighbours(m) -> Status]
      BY <1>1, <2>8 DEF Kept, Typed
    <3> QED
      BY <1>2, <1>3, <2>1, <2>3, <2>6, <2>7, <2>8, <3>1, <3>2 DEF Typed
  <2>10. AdvertisedIsCurrent'
    BY <1>3, <2>2, <2>8 DEF Kept, AdvertisedIsCurrent
  <2>11. History(h)'
    <3>1. \A i \in 1..(lsas + 1) : h[i].id = i
      BY <2>3, <2>4, <2>5 DEF Kept, History
    <3>2. ASSUME NEW c \in Channels PROVE Carries(channel'[c], h, lsas + 1)
      <4>1. channel[c] \in Seq(Lsas) /\ Carries(channel[c], g, lsas)
        BY DEF Kept, Typed, History
      <4>2. \A k \in 1..Len(channel[c]) :
              channel[c][k].id \in 1..lsas /\ channel[c][k] = g[channel[c][k].id]
        BY <4>1 DEF Carries
      <4>3. Carries(channel[c], h, lsas + 1)
        BY <2>3, <2>5, <4>2 DEF Carries
      <4>4. CASE c[1] = n
        <5>1. Carries(Append(channel[c], lsa), h, lsas + 1)
          BY <2>3, <2>4, <2>5, <4>1, <4>3, CarriesAppend
        <5> QED
          BY <2>7, <4>4, <5>1
      <4> QED
        BY <2>7, <4>3, <4>4
    <3> QED
      BY <2>1, <2>5, <3>1, <3>2 DEF History
  <2>12. Latest(h)'
    <3>1. ASSUME NEW m \in Nodes
          PROVE  \/ prevLsa'[m] = NoLsa /\ \A i \in 1..(lsas + 1) : h[i].source # m
                 \/ \E i \in 1..(lsas + 1) :
                      /\ h[i].source = m /\ \A j \in 1..(lsas + 1) : h[j].source = m => j <= i
                      /\ h[i].states = prevLsa'[m]
      <4>1. CASE m = n
        BY <2>3, <2>4, <2>5, <2>8, <4>1
      <4>2. CASE m # n
        <5>1. prevLsa'[m] = prevLsa[m] /\ h[lsas + 1].source # m
          BY <2>4, <2>5, <2>8, <4>2
        <5>2. \/ prevLsa[m] = NoLsa /\ \A i \in 1..lsas : g[i].source # m
              \/ \E i \in 1..lsas :
                   /\ g[i].source = m /\ \A j \in 1..lsas : g[j].source = m => j <= i
                   /\ g[i].states = prevLsa[m]
          BY DEF Kept, Latest, Newest
        <5>3. \A i \in 1..(lsas + 1) : h[i].source = m => i \in 1..lsas /\ h[i] = g[i]
          BY <2>3, <2>5, <5>1
        <5>4. CASE prevLsa[m] = NoLsa /\ \A i \in 1..lsas : g[i].source # m
          BY <5>1, <5>3, <5>4
        <5>5. ASSUME NEW i \in 1..lsas, g[i].source = m,
                     \A j \in 1..lsas : g[j].source = m => j <= i, g[i].states = prevLsa[m]
              PROVE  \E k \in 1..(lsas + 1) :
                       /\ h[k].source = m /\ \A j \in 1..(lsas + 1) : h[j].source = m => j <= k
                       /\ h[k].states = prevLsa'[m]
          <6>1. i \in 1..(lsas + 1) /\ h[i] = g[i]
            BY <2>3, <2>5
          <6>2. \A j \in 1..(lsas + 1) : h[j].source = m => j <= i
            BY <5>3, <5>5
          <6> QED
            BY <5>1, <5>5, <6>1, <6>2
        <5> QED
          BY <5>2, <5>4, <5>5
      <4> QED
        BY <4>1, <4>2
    <3> QED
      BY <2>1, <3>1 DEF Latest, Newest
  <2>13. Counted(h)'
    <3>1. ASSUME NEW m \in Nodes, NEW i \in LsaIds
          PROVE  /\ i \notin 1..(lsas + 1) => applied'[m][i] = 0
                 /\ i \in 1..(lsas + 1) =>
                      applied'[m][i] <= (IF i \in recentLsaIds[m] THEN 1 ELSE 0)
                                          + (IF h[i].source = m THEN 1 ELSE 0)
      <4>1. applied[m] \in [LsaIds -> Nat] /\ applied'[m][i] \in Nat /\ i \in Nat
        BY <2>6, PathControlAssumption DEF Kept, Typed, LsaIds, PathControlAssumption
      <4>2. /\ i \notin 1..lsas => applied[m][i] = 0
            /\ i \in 1..lsas =>
                 applied[m][i] <= (IF i \in recentLsaIds[m] THEN 1 ELSE 0)
                                    + (IF g[i].source = m THEN 1 ELSE 0)
        BY DEF Kept, Counted
      <4>3. CASE i = lsas + 1
        <5>1. applied[m][i] = 0
          BY <2>3, <4>2, <4>3
        <5>2. m # n => applied'[m][i] = 0
          BY <2>6, <5>1
        <5>3. m = n => applied'[m][i] <= 1 /\ h[i].source = m
          BY <2>4, <2>5, <2>6, <4>3, <5>1
        <5> QED
          BY <2>3, <4>1, <4>3, <5>2, <5>3
      <4>4. CASE i # lsas + 1
        <5>1. applied'[m][i] = applied[m][i]
          BY <2>6, <4>4
        <5>2. i \in 1..(lsas + 1) <=> i \in 1..lsas
          BY <2>3, <4>1, <4>4
        <5> QED
          BY <2>5, <4>2, <5>1, <5>2
      <4> QED
        BY <4>3, <4>4
    <3> QED
      BY <1>2, <2>1, <3>1 DEF Counted
  <2>14. ASSUME Delivered(g) PROVE Delivered(h)'
    <3>1. \A m \in Nodes : recentLsaIds[m] \subseteq 1..lsas
      BY DEF Kept, Typed
    <3>2. ReceivedInOrder(h)'
      <4>1. ASSUME NEW m \in Nodes, NEW i \in 1..(lsas + 1), NEW j \in 1..(lsas + 1),
                   i < j, h[i].source = h[j].source, j \in recentLsaIds[m]
            PROVE  i \in recentLsaIds[m]
        <5>1. i \in 1..lsas /\ j \in 1..lsas
          BY <2>3, <3>1, <4>1
        <5> QED
          BY <2>5, <2>14, <4>1, <5>1 DEF Delivered, ReceivedInOrder
      <4> QED
        BY <1>2, <2>1, <4>1 DEF ReceivedInOrder
    <3>3. ASSUME NEW c \in Channels PROVE InOrder(channel'[c], recentLsaIds[c[2]], h)
      <4>1. /\ channel[c] \in Seq(Lsas) /\ Carries(channel[c], g, lsas)
            /\ InOrder(channel[c], recentLsaIds[c[2]], g)
        BY <2>14 DEF Kept, Typed, History, Delivered, ChannelsInOrder
      <4>2. Carries(channel[c], h, lsas + 1) /\ InOrder(channel[c], recentLsaIds[c[2]], h)
        BY <2>3, <2>5, <4>1, InOrderNewer
      <4>3. CASE c[1] = n
        <5>1. \A i \in 1..(lsa.id - 1) :
                h[i].source = lsa.source => i \in recentLsaIds[c[2]] \/ On(channel[c], i)
          <6>1. \A i \in 1..lsas : g[i].source = n => i \in recentLsaIds[c[2]] \/ On(channel[c], i)
            BY <2>14, <4>3 DEF Delivered, Spread, Knows
          <6> QED
            BY <2>3, <2>4, <2>5, <6>1
        <5>2. lsa.id \in 1..(lsas + 1) /\ h[lsa.id] = lsa /\ lsas + 1 \in Nat
          BY <2>3, <2>4, <2>5
        <5>3. InOrder(Append(channel[c], lsa), recentLsaIds[c[2]], h)
          BY <4>1, <4>2, <5>1, <5>2, InOrderAppend
        <5> QED
          BY <2>7, <4>3, <5>3
      <4> QED
        BY <2>7, <4>2, <4>3
    <3>4. ASSUME NEW c \in Channels, NEW i \in 1..(lsas + 1), Knows(h, c[1], i)
          PROVE  i \in recentLsaIds[c[2]] \/ On(channel'[c], i)
      <4>1. channel[c] \in Seq(Lsas) /\ c[1] \in Nodes
        BY DEF Kept, Typed, Channels
      <4>2. /\ On(Append(channel[c], lsa), lsa.id)
            /\ On(channel[c], i) => On(Append(channel[c], lsa), i)
        BY <4>1, OnAppend
      <4>3. CASE i = lsas + 1
        <5>1. c[1] = n
          BY <2>3, <2>4, <2>5, <3>1, <3>4, <4>1, <4>3 DEF Knows
        <5> QED
          BY <2>4, <2>7, <4>2, <4>3, <5>1
      <4>4. CASE i # lsas + 1
        <5>1. i \in 1..lsas /\ Knows(g, c[1], i)
          BY <2>3, <2>5, <3>4, <4>4 DEF Knows
        <5>2. i \in recentLsaIds[c[2]] \/ On(channel[c], i)
          BY <2>14, <5>1 DEF Delivered, Spread
        <5> QED
          BY <2>7, <4>2, <5>2
      <4> QED
        BY <4>3, <4>4
    <3>5. ASSUME NEW m \in PrimNodes, NEW l \in Links
          PROVE  (ViewFirst(h, m, l) \/ \E i \in 1..lsas : ViewFrom(h, m, l, i))'
      <4>1. m \in Nodes /\ view[m] \in Views
        BY PrimNodesAreNodes DEF Kept, Typed
      <4>2. CASE m = n /\ l \in DOMAIN Told(lsa)
        <5>1. view'[m].link[l] = Told(lsa)[l]
          BY <2>6, <4>1, <4>2, AppliedAt
        <5>2. lsa.id \notin recentLsaIds[m] /\ h[lsa.id] = lsa /\ lsa.source = m
          BY <2>3, <2>4, <2>5, <3>1, <4>1, <4>2
        <5>3. ViewFrom(h, m, l, lsa.id)'
          BY <1>2, <4>2, <5>1, <5>2 DEF ViewFrom, Knows
        <5>4. lsa.id \in 1..lsas'
          BY <2>1, <2>3, <2>4
        <5> QED
          BY <5>3, <5>4
      <4>3. CASE ~ (m = n /\ l \in DOMAIN Told(lsa))
        <5>1. view'[m].link[l] = view[m].link[l]
          BY <2>6, <4>1, <4>3, AppliedAt
        <5>2. Knows(h, m, lsas + 1) => l \notin DOMAIN Told(h[lsas + 1])
          BY <2>3, <2>4, <2>5, <3>1, <4>1, <4>3 DEF Knows
        <5>3. ViewFirst(g, m, l) => ViewFirst(h, m, l)'
          <6>1. \A i \in 1..(lsas + 1) : i = lsas + 1 \/ (i \in 1..lsas /\ h[i] = g[i])
            BY <2>3, <2>5
          <6> QED
            BY <1>2, <2>1, <5>1, <5>2, <6>1 DEF ViewFirst, Knows
        <5>4. ASSUME NEW i \in 1..lsas, ViewFrom(g, m, l, i) PROVE ViewFrom(h, m, l, i)'
          <6>1. h[i] = g[i] /\ \A j \in recentLsaIds[m] : h[j] = g[j]
            BY <2>5, <3>1, <4>1
          <6> QED
            BY <1>2, <5>1, <5>4, <6>1 DEF ViewFrom, Knows
        <5>5. ViewFirst(g, m, l) \/ \E i \in 1..lsas : ViewFrom(g, m, l, i)
          BY <2>14 DEF Delivered, ViewsTold
        <5> QED
          BY <2>1, <2>3, <5>3, <5>4, <5>5
      <4> QED
        BY <4>2, <4>3
    <3>6. ChannelsInOrder(h)'
      BY <1>2, <3>3 DEF ChannelsInOrder
    <3>7. Spread(h)'
      BY <1>2, <2>1, <3>4 DEF Spread, Knows
    <3>8. ViewsTold(h)'
      BY <3>5 DEF ViewsTold
    <3> QED
      BY <3>2, <3>6, <3>7, <3>8 DEF Delivered
  <2> QED
    BY <1>2, <2>9, <2>10, <2>11, <2>12, <2>13, <2>14 DEF Kept, IInv
<1> QED
  BY <1>4, <1>5

\* The advertisement a router receives keeps the invariant, whether it knows it or not.
LEMMA ReceiveInv ==
  ASSUME NEW g, Kept(g), NEW c \in Channels, OnReceiveLsa(c)
  PROVE  IInv'
<1> DEFINE q == channel[c]
           rest == [channel EXCEPT ![c] = Tail(@)]
<1>1. PICK n \in Nodes : n = c[2] /\ n # c[1]
  BY NeighbourOf DEF Channels
<1>2. /\ lsas \in Nat /\ lost \in Nat /\ channel \in [Channels -> Seq(Lsas)]
      /\ recentLsaIds \in [Nodes -> SUBSET (1..lsas)]
      /\ q \in Seq(Lsas) /\ q # <<>> /\ Carries(q, g, lsas)
      /\ UNCHANGED <<faceStatus, prevLsa, lsas, lost>>
  BY DEF OnReceiveLsa, Kept, Typed, History
<1>3. PICK lsa \in Lsas : lsa = Head(q) /\ lsa.id \in 1..lsas /\ g[lsa.id] = lsa
  BY <1>2, CarriesTail
<1>4. PICK i \in 1..lsas : i = lsa.id
  BY <1>3
<1>5. /\ Tail(q) \in Seq(Lsas) /\ Carries(Tail(q), g, lsas)
      /\ rest \in [Channels -> Seq(Lsas)]
      /\ rest[c] = Tail(q)
      /\ \A d \in Channels : d # c => rest[d] = channel[d]
  <2>1. Tail(q) \in Seq(Lsas) /\ Carries(Tail(q), g, lsas)
    BY <1>2, CarriesTail
  <2> QED
    BY <1>2, <2>1
<1>6. \/ i \in recentLsaIds[n] /\ channel' = rest /\ UNCHANGED <<recentLsaIds, view, applied>>
      \/ /\ i \notin recentLsaIds[n]
         /\ recentLsaIds' = [recentLsaIds EXCEPT ![n] = @ \cup {i}]
         /\ channel' = Flood(n, rest, lsa)
         /\ UpdatePreferredPathWithLSA(n, lsa)
  BY <1>1, <1>3, <1>4, Zenon DEF OnReceiveLsa, Remember
<1>7. /\ recentLsaIds' \in [Nodes -> SUBSET (1..lsas)]
      /\ recentLsaIds'[n] = recentLsaIds[n] \cup {i}
      /\ \A m \in Nodes : m # n => recentLsaIds'[m] = recentLsaIds[m]
      /\ \A m \in Nodes : recentLsaIds[m] \subseteq recentLsaIds'[m]
  BY <1>2, <1>4, <1>6
<1> HIDE DEF rest
<1>8. Carries(channel[c], g, lsas) /\ \A d \in Channels : Carries(rest[d], g, lsas)
  BY <1>2, <1>5 DEF Kept, History
<1>9. ASSUME Delivered(g)
      PROVE  /\ \A k \in 1..(i - 1) : g[k].source = lsa.source => k \in recentLsaIds[n]
             /\ \A d \in Channels : InOrder(rest[d], recentLsaIds'[d[2]], g)
             /\ \A d \in Channels, k \in 1..lsas :
                  Knows(g, d[1], k) => k \in recentLsaIds'[d[2]] \/ On(rest[d], k)
  <2>1. InOrder(q, recentLsaIds[n], g)
    BY <1>1, <1>9 DEF Delivered, ChannelsInOrder
  <2>2. /\ \A k \in 1..(i - 1) : g[k].source = lsa.source => k \in recentLsaIds[n]
        /\ InOrder(Tail(q), recentLsaIds[n] \cup {i}, g)
        /\ \A k : On(q, k) => k = i \/ On(Tail(q), k)
    BY <1>2, <1>3, <1>4, <2>1, InOrderTail
  <2>3. ASSUME NEW d \in Channels PROVE InOrder(rest[d], recentLsaIds'[d[2]], g)
    <3>1. CASE d = c
      BY <1>1, <1>5, <1>7, <2>2, <3>1
    <3>2. CASE d # c
      <4>1. InOrder(channel[d], recentLsaIds[d[2]], g) /\ d[2] \in Nodes
        BY <1>9 DEF Delivered, ChannelsInOrder, Channels
      <4> QED
        BY <1>5, <1>7, <3>2, <4>1, InOrderMoreSeen
    <3> QED
      BY <3>1, <3>2
  <2>4. ASSUME NEW d \in Channels, NEW k \in 1..lsas, Knows(g, d[1], k)
        PROVE  k \in recentLsaIds'[d[2]] \/ On(rest[d], k)
    <3>1. k \in recentLsaIds[d[2]] \/ On(channel[d], k)
      BY <1>9, <2>4 DEF Delivered, Spread
    <3>2. d[2] \in Nodes
      BY DEF Channels
    <3>3. CASE d = c
      BY <1>1, <1>5, <1>7, <2>2, <3>1, <3>3
    <3>4. CASE d # c
      BY <1>5, <1>7, <3>1, <3>2, <3>4
    <3> QED
      BY <3>3, <3>4
  <2> QED
    BY <2>2, <2>3, <2>4
<1>10. /\ Latest(g)' /\ AdvertisedIsCurrent'
       /\ g \in [1..lsas' -> Lsas] /\ \A k \in 1..lsas' : g[k].id = k
  BY <1>2 DEF Kept, History, Latest, Newest, AdvertisedIsCurrent
<1>11. CASE i \in recentLsaIds[n] /\ channel' = rest /\ UNCHANGED <<recentLsaIds, view, applied>>
  <2>1. Typed'
    BY <1>2, <1>5, <1>11 DEF Kept, Typed
  <2>2. History(g)'
    BY <1>2, <1>8, <1>10, <1>11 DEF History
  <2>3. Counted(g)'
    BY <1>2, <1>11 DEF Kept, Counted
  <2>4. ASSUME Delivered(g) PROVE Delivered(g)'
    <3>1. ReceivedInOrder(g)' /\ ViewsTold(g)'
      BY <1>2, <1>11, <2>4
         DEF Delivered, ReceivedInOrder, ViewsTold, ViewFirst, ViewFrom, Knows
    <3>2. ChannelsInOrder(g)'
      BY <1>9, <1>11, <2>4 DEF ChannelsInOrder
    <3>3. Spread(g)'
      BY <1>2, <1>9, <1>11, <2>4 DEF Spread, Knows
    <3> QED
      BY <3>1, <3>2, <3>3 DEF Delivered
  <2> QED
    BY <1>2, <1>10, <2>1, <2>2, <2>3, <2>4 DEF Kept, IInv
<1>12. CASE /\ i \notin recentLsaIds[n]
            /\ recentLsaIds' = [recentLsaIds EXCEPT ![n] = @ \cup {i}]
            /\ channel' = Flood(n, rest, lsa)
            /\ UpdatePreferredPathWithLSA(n, lsa)
  <2>1. /\ view' \in [Nodes -> Views]
        /\ applied' \in [Nodes -> [LsaIds -> Nat]]
        /\ \A m \in Nodes : m # n => view'[m] = view[m] /\ applied'[m] = applied[m]
        /\ n \in PrimNodes => view'[n] = Applied(view[n], lsa)
        /\ \A k \in LsaIds : k # i => applied'[n][k] = applied[n][k]
        /\ applied'[n][i] <= applied[n][i] + 1
    BY <1>4, <1>12, UpdateAt DEF Kept, Typed
  <2>2. /\ channel' \in [Channels -> Seq(Lsas)]
        /\ \A d \in Channels : channel'[d] = IF d[1] = n THEN Append(rest[d], lsa) ELSE rest[d]
    BY <1>5, <1>12, FloodAt
  <2>3. Typed'
    BY <1>2, <1>7, <2>1, <2>2 DEF Kept, Typed
  <2>4. History(g)'
    <3>1. ASSUME NEW d \in Channels PROVE Carries(channel'[d], g, lsas)
      <4>1. rest[d] \in Seq(Lsas) /\ Carries(rest[d], g, lsas)
        BY <1>5, <1>8
      <4>2. Carries(Append(rest[d], lsa), g, lsas)
        BY <1>2, <1>3, <4>1, CarriesAppend
      <4> QED
        BY <2>2, <4>1, <4>2
    <3> QED
      BY <1>2, <1>10, <3>1 DEF History
  <2>5. Counted(g)'
    <3>1. ASSUME NEW m \in Nodes, NEW k \in LsaIds
          PROVE  /\ k \notin 1..lsas => applied'[m][k] = 0
                 /\ k \in 1..lsas =>
                      applied'[m][k] <= (IF k \in recentLsaIds'[m] THEN 1 ELSE 0)
                                          + (IF g[k].source = m THEN 1 ELSE 0)
      <4>1. applied[m][k] \in Nat /\ applied'[m][k] \in Nat
        BY <2>1 DEF Kept, Typed
      <4>2. /\ k \notin 1..lsas => applied[m][k] = 0
            /\ k \in 1..lsas =>
                 applied[m][k] <= (IF k \in recentLsaIds[m] THEN 1 ELSE 0)
                                    + (IF g[k].source = m THEN 1 ELSE 0)
        BY DEF Kept, Counted
      <4>3. CASE m = n /\ k = i
        BY <1>7, <1>12, <2>1, <4>1, <4>2, <4>3
      <4>4. CASE ~ (m = n /\ k = i)
        <5>1. applied'[m][k] = applied[m][k]
          BY <2>1, <4>4
        <5>2. k \in recentLsaIds'[m] <=> k \in recentLsaIds[m]
          BY <1>7, <4>4
        <5> QED
          BY <4>2, <5>1, <5>2
      <4> QED
        BY <4>3, <4>4
    <3> QED
      BY <1>2, <3>1 DEF Counted
  <2>6. ASSUME Delivered(g) PROVE Delivered(g)'
    <3>1. ReceivedInOrder(g)'
      <4>1. ASSUME NEW m \in Nodes, NEW a \in 1..lsas, NEW b \in 1..lsas,
                   a < b, g[a].source = g[b].source, b \in recentLsaIds'[m]
            PROVE  a \in recentLsaIds'[m]
        <5>1. b \in recentLsaIds[m] => a \in recentLsaIds[m]
          BY <2>6, <4>1 DEF Delivered, ReceivedInOrder
        <5>2. m = n /\ b = i => a \in recentLsaIds[n]
          BY <1>2, <1>3, <1>4, <1>9, <2>6, <4>1
        <5> QED
          BY <1>7, <4>1, <5>1, <5>2
      <4> QED
        BY <1>2, <4>1 DEF ReceivedInOrder
    <3>2. ASSUME NEW d \in Channels PROVE InOrder(channel'[d], recentLsaIds'[d[2]], g)
      <4>1. /\ rest[d] \in Seq(Lsas) /\ Carries(rest[d], g, lsas)
            /\ InOrder(rest[d], recentLsaIds'[d[2]], g)
        BY <1>5, <1>8, <1>9, <2>6
      <4>2. CASE d[1] = n
        <5>1. \A k \in 1..(lsa.id - 1) :
                g[k].source = lsa.source => k \in recentLsaIds'[d[2]] \/ On(rest[d], k)
          <6>1. \A k \in 1..lsas :
                  k \in recentLsaIds[n] => k \in recentLsaIds'[d[2]] \/ On(rest[d], k)
            BY <1>9, <2>6, <4>2 DEF Knows
          <6>2. \A k \in 1..(lsa.id - 1) : k \in 1..lsas
            BY <1>2, <1>3
          <6> QED
            BY <1>4, <1>9, <2>6, <6>1, <6>2
        <5>2. InOrder(Append(rest[d], lsa), recentLsaIds'[d[2]], g)
          BY <1>2, <1>3, <4>1, <5>1, InOrderAppend
        <5> QED
          BY <2>2, <4>2, <5>2
      <4> QED
        BY <2>2, <4>1, <4>2
    <3>3. ASSUME NEW d \in Channels, NEW k \in 1..lsas,
                 k \in recentLsaIds'[d[1]] \/ g[k].source = d[1]
          PROVE  k \in recentLsaIds'[d[2]] \/ On(channel'[d], k)
      <4>1. rest[d] \in Seq(Lsas) /\ d[1] \in Nodes
        BY <1>5 DEF Channels
      <4>2. /\ On(Append(rest[d], lsa), i)
            /\ On(rest[d], k) => On(Append(rest[d], lsa), k)
        BY <1>4, <4>1, OnAppend
      <4>3. CASE Knows(g, d[1], k)
        BY <1>9, <2>2, <2>6, <4>2, <4>3
      <4>4. CASE ~ Knows(g, d[1], k)
        <5>1. d[1] = n /\ k = i
          BY <1>7, <3>3, <4>1, <4>4 DEF Knows
        <5> QED
          BY <2>2, <4>2, <5>1
      <4> QED
        BY <4>3, <4>4
    <3>4. ASSUME NEW m \in PrimNodes, NEW l \in Links
          PROVE  (ViewFirst(g, m, l) \/ \E k \in 1..lsas : ViewFrom(g, m, l, k))'
      <4>1. m \in Nodes /\ view[m] \in Views
        BY PrimNodesAreNodes DEF Kept, Typed
      <4>2. ViewFirst(g, m, l) \/ \E k \in 1..lsas : ViewFrom(g, m, l, k)
        BY <2>6 DEF Delivered, ViewsTold
      <4>3. CASE m # n
        BY <1>2, <1>7, <2>1, <4>1, <4>2, <4>3 DEF ViewFirst, ViewFrom, Knows
      <4>4. CASE m = n /\ l \in DOMAIN Told(lsa)
        <5>1. view'[m].link[l] = Told(lsa)[l]
          BY <2>1, <4>1, <4>4, AppliedAt
        <5>2. ASSUME NEW j \in recentLsaIds'[m], g[j].source = g[i].source PROVE j <= i
          <6>1. j = i \/ j \in recentLsaIds[n]
            BY <1>7, <4>4
          <6>2. ASSUME j \in recentLsaIds[n], i < j PROVE FALSE
            BY <1>2, <1>12, <2>6, <5>2, <6>2 DEF Delivered, ReceivedInOrder
          <6>3. i \in Int /\ j \in Int
            BY <1>2, <1>7, <4>1
          <6> QED
            BY <6>1, <6>2, <6>3
        <5>3. i \in recentLsaIds'[m] /\ g[i] = lsa
          BY <1>3, <1>4, <1>7, <4>4
        <5>4. ViewFrom(g, m, l, i)'
          BY <4>4, <5>1, <5>2, <5>3 DEF ViewFrom, Knows
        <5> QED
          BY <1>2, <5>4
      <4>5. CASE m = n /\ l \notin DOMAIN Told(lsa)
        <5>1. view'[m].link[l] = view[m].link[l]
          BY <2>1, <4>1, <4>5, AppliedAt
        <5>2. g[i] = lsa /\ g \in [1..lsas -> Lsas]
          BY <1>3, <1>4 DEF Kept, History
        <5>3. ViewFirst(g, m, l) => ViewFirst(g, m, l)'
          BY <1>2, <1>7, <4>5, <5>1, <5>2 DEF ViewFirst, Knows
        <5>4. ASSUME NEW k \in 1..lsas, ViewFrom(g, m, l, k) PROVE ViewFrom(g, m, l, k)'
          <6>1. g[k].source # lsa.source
            BY <4>5, <5>2, <5>4, SameSourceSameLinks DEF ViewFrom
          <6>2. k # i
            BY <5>2, <6>1
          <6>3. \A j \in recentLsaIds'[m] : g[j].source = g[k].source => j \in recentLsaIds[m]
            BY <1>7, <4>5, <5>2, <6>1
          <6> QED
            BY <1>7, <4>5, <5>1, <5>4, <6>2, <6>3 DEF ViewFrom, Knows
        <5> QED
          BY <1>2, <4>2, <5>3, <5>4
      <4> QED
        BY <4>3, <4>4, <4>5
    <3>5. ChannelsInOrder(g)'
      BY <3>2 DEF ChannelsInOrder
    <3>6. Spread(g)'
      BY <1>2, <3>3 DEF Spread, Knows
    <3>7. ViewsTold(g)'
      BY <3>4 DEF ViewsTold
    <3> QED
      BY <3>1, <3>5, <3>6, <3>7 DEF Delivered
  <2> QED
    BY <1>2, <1>10, <2>3, <2>4, <2>5, <2>6 DEF Kept, IInv
<1> QED
  BY <1>6, <1>11, <1>12
\* A loss keeps the invariant, which says less from then on.
LEMMA LoseInv ==
  ASSUME NEW g, Kept(g), NEW c \in Channels, Lose(c)
  PROVE  IInv'
<1> DEFINE rest == [channel EXCEPT ![c] = Tail(@)]
<1>1. /\ lsas \in Nat /\ lost \in Nat /\ channel \in [Channels -> Seq(Lsas)]
      /\ channel[c] # <<>> /\ channel' = rest /\ lost' = lost + 1
      /\ UNCHANGED <<faceStatus, prevLsa, recentLsaIds, view, lsas, applied>>
  BY DEF Lose, Kept, Typed
<1>2. \A d \in Channels : Carries(channel[d], g, lsas)
  BY DEF Kept, History
<1>3. Tail(channel[c]) \in Seq(Lsas) /\ Carries(Tail(channel[c]), g, lsas)
  BY <1>1, <1>2, CarriesTail
<1>4. /\ rest \in [Channels -> Seq(Lsas)]
      /\ \A d \in Channels : Carries(rest[d], g, lsas)
  BY <1>1, <1>2, <1>3
<1> HIDE DEF rest
<1>5. Typed'
  BY <1>1, <1>4 DEF Kept, Typed
<1>6. AdvertisedIsCurrent' /\ Latest(g)' /\ Counted(g)'
  BY <1>1 DEF Kept, AdvertisedIsCurrent, Latest, Newest, Counted
<1>7. History(g)'
  BY <1>1, <1>4 DEF Kept, History
<1>8. lost' # 0
  BY <1>1
<1> QED
  BY <1>5, <1>6, <1>7, <1>8 DEF Kept, IInv

\* The invariant holds in every state of path control, whatever tests find and the
\* channels lose.
THEOREM Invariance == Spec => []IInv
<1>1. IInv /\ [Next]_vars => IInv'
  <2> SUFFICES ASSUME IInv, [Next]_vars PROVE IInv'
    OBVIOUS
  <2>1. PICK g : Kept(g)
    BY DEF IInv
  <2>2. CASE Next
    BY <2>1, <2>2, LinkTestInv, ReceiveInv, LoseInv DEF Next
  <2>3. CASE UNCHANGED vars
    <3>1. Typed' /\ AdvertisedIsCurrent' /\ History(g)' /\ Latest(g)' /\ Counted(g)'
      BY <2>1, <2>3
         DEF vars, Kept, Typed, AdvertisedIsCurrent, History, Latest, Newest, Counted
    <3>2. Delivered(g) => Delivered(g)'
      BY <2>3
         DEF vars, Delivered, ReceivedInOrder, ChannelsInOrder, Spread, Knows, ViewsTold, ViewFirst,
             ViewFrom
    <3> QED
      BY <2>1, <2>3, <3>1, <3>2 DEF vars, Kept, IInv
  <2> QED
    BY <2>2, <2>3
<1> QED
  BY <1>1, InitInv, PTL DEF Spec

\* What a router last advertised is what its faces are in (broadcastingLsaTask): however
\* tests of all faces and of one overlap, no change of a status goes unsaid.
THEOREM AdvertisesChanges == Spec => []AdvertisedIsCurrent
<1>1. IInv => AdvertisedIsCurrent
  BY DEF IInv, Kept
<1> QED
  BY <1>1, Invariance, PTL

\* However advertisements return, are lost and overtake each other on different ways, a
\* router applies each once, and only its source once more (onReceiveLsa).
THEOREM AppliesOnce == Spec => []AppliedOnce
<1>1. ASSUME NEW g, Kept(g) PROVE AppliedOnce
  <2>1. ASSUME NEW id \in LsaIds, NEW n \in Nodes
        PROVE  /\ applied[n][id] <= IF id \in recentLsaIds[n] THEN 2 ELSE 1
               /\ applied[n][id] > 1 => id \in 1..lsas /\ g[id].source = n
    <3>1. applied[n][id] \in Nat
      BY <1>1 DEF Kept, Typed
    <3>2. /\ id \notin 1..lsas => applied[n][id] = 0
          /\ id \in 1..lsas =>
               applied[n][id] <= (IF id \in recentLsaIds[n] THEN 1 ELSE 0)
                                   + (IF g[id].source = n THEN 1 ELSE 0)
      BY <1>1 DEF Kept, Counted
    <3> QED
      BY <3>1, <3>2
  <2> QED
    BY <2>1 DEF AppliedOnce
<1>2. IInv => AppliedOnce
  BY <1>1 DEF IInv
<1> QED
  BY <1>2, Invariance, PTL

-------------------------------------------------------------------------------
(* When it is quiet every view is right *)

\* A set of nodes that has every neighbour of its nodes has a path it has a node of.
LEMMA PathInside ==
  ASSUME NEW path \in Seq(Int), NEW K,
         \A d \in 1..(Len(path) - 1) : path[d] \in K <=> path[d + 1] \in K,
         NEW e \in 1..Len(path), path[e] \in K
  PROVE  \A d \in 1..Len(path) : path[d] \in K
<1> DEFINE After == {d \in 1..Len(path) : d > e /\ path[d] \notin K}
           Before == {b \in 0..e : b # e /\ path[e - b] \notin K}
<1>1. Len(path) \in Nat /\ e \in Nat /\ e > 0 /\ e <= Len(path)
  OBVIOUS
<1>2. After = {}
  <2> SUFFICES ASSUME After # {} PROVE FALSE
    OBVIOUS
  <2>1. After \in SUBSET Nat
    OBVIOUS
  <2>2. PICK x \in After : \A y \in After : x <= y
    BY <2>1, LeastExists
  <2>3. x \in Nat /\ x > e /\ x <= Len(path) /\ path[x] \notin K
    BY <1>1, <2>2
  <2>4. x - 1 \in 1..(Len(path) - 1) /\ (x - 1) + 1 = x /\ x - 1 >= e
    BY <1>1, <2>3
  <2>5. path[x - 1] \notin K
    BY <2>3, <2>4
  <2>6. x - 1 \in After
    BY <2>4, <2>5
  <2> QED
    BY <2>2, <2>3, <2>6
<1>3. Before = {}
  <2> SUFFICES ASSUME Before # {} PROVE FALSE
    OBVIOUS
  <2>1. Before \in SUBSET Nat
    OBVIOUS
  <2>2. PICK x \in Before : \A y \in Before : x <= y
    BY <2>1, LeastExists
  <2>3. x \in Nat /\ x < e /\ path[e - x] \notin K
    BY <1>1, <2>2
  <2>4. x # 0
    BY <1>1, <2>3
  <2>5. e - x \in 1..(Len(path) - 1) /\ (e - x) + 1 = e - (x - 1) /\ x - 1 \in 0..e
    BY <1>1, <2>3, <2>4
  <2>6. path[e - (x - 1)] \notin K
    BY <2>3, <2>5
  <2>7. x - 1 \in Before
    BY <1>1, <2>3, <2>5, <2>6
  <2>8. x <= x - 1
    BY <2>2, <2>7
  <2> QED
    BY <2>3, <2>8
<1>4. ASSUME NEW d \in 1..Len(path), path[d] \notin K PROVE FALSE
  <2>1. CASE d > e
    BY <1>2, <1>4, <2>1
  <2>2. CASE d < e
    <3>1. e - d \in 0..e /\ e - (e - d) = d /\ e - d # e
      BY <1>1, <2>2
    <3> QED
      BY <1>3, <1>4, <3>1
  <2>3. CASE d = e
    BY <1>4, <2>3
  <2> QED
    BY <1>1, <2>1, <2>2, <2>3
<1> QED
  BY <1>4
\* When nothing is under way and nothing was lost, the routers of the primary path have
\* received every advertisement: a link leads from any router to them.
LEMMA AllReceived ==
  ASSUME NEW g, Kept(g), Settled, NEW i \in 1..lsas, Neighbours(g[i].source) # {},
         NEW n \in PrimNodes
  PROVE  i \in recentLsaIds[n]
<1> DEFINE K == {m \in Nodes : Knows(g, m, i)}
           s == g[i].source
<1>1. s \in Nodes /\ s \in K
  BY DEF Kept, History, Lsas, Knows
<1>2. ASSUME NEW m \in K, NEW k \in Neighbours(m) PROVE i \in recentLsaIds[k] /\ k \in K
  <2>1. m \in Nodes /\ k \in Nodes
    BY NeighbourOf
  <2>2. <<m, k>> \in Channels
    BY <2>1 DEF Channels
  <2>3. ~ On(channel[<<m, k>>], i)
    BY <2>2 DEF Settled, Quiet, On
  <2>4. Spread(g)
    BY DEF Settled, Kept, Delivered
  <2>5. i \in recentLsaIds[k]
    BY <2>2, <2>3, <2>4 DEF Spread
  <2> QED
    BY <2>1, <2>5 DEF Knows
<1> HIDE DEF K, s
<1>3. ASSUME NEW path \in Seq(Int), LinksOf(path) \subseteq Links
      PROVE  \A d \in 1..(Len(path) - 1) : path[d] \in K <=> path[d + 1] \in K
  <2>1. SUFFICES ASSUME NEW d \in 1..(Len(path) - 1), path[d] # path[d + 1]
                 PROVE  path[d] \in K <=> path[d + 1] \in K
    OBVIOUS
  <2>2. {path[d], path[d + 1]} \in Links /\ {path[d], path[d + 1]} = {path[d + 1], path[d]}
    BY <1>3 DEF LinksOf
  <2>3. path[d] \in Nodes /\ path[d + 1] \in Nodes
    BY <2>2 DEF Nodes
  <2>4. path[d + 1] \in Neighbours(path[d]) /\ path[d] \in Neighbours(path[d + 1])
    BY <2>1, <2>2, <2>3 DEF Neighbours
  <2> QED
    BY <1>2, <2>4
<1>4. PrimPath \in Seq(Int) /\ LinksOf(PrimPath) \subseteq Links
  BY RsgSubgraphAssumption DEF RsgSubgraphAssumption, Links, PrimLinks
<1>5. \E k \in Positions : PrimPath[k] \in K
  <2>1. PICK l \in Links : s \in l
    BY <1>1 DEF Nodes
  <2>2. CASE l \in LinksOf(PrimPath)
    <3>1. \E k \in 1..Len(PrimPath) : PrimPath[k] = s
      BY <2>1, <2>2, EndsOnPath, <1>4
    <3> QED
      BY <1>1, <3>1 DEF Positions
  <2>3. CASE l \notin LinksOf(PrimPath)
    <3>1. PICK r \in Rsps : l \in LinksOf(r.nodeIds)
      BY <2>3 DEF Links, PrimLinks
    <3>2. r.nodeIds \in Seq(Int) /\ LinksOf(r.nodeIds) \subseteq Links
      BY RsgSubgraphAssumption DEF RsgSubgraphAssumption, Links
    <3>3. PICK k \in 1..Len(r.nodeIds) : r.nodeIds[k] = s
      BY <2>1, <3>1, <3>2, EndsOnPath
    <3>4. \A d \in 1..Len(r.nodeIds) : r.nodeIds[d] \in K
      BY <1>1, <1>3, <3>2, <3>3, PathInside
    <3>5. 1 \in 1..Len(r.nodeIds)
      BY <3>2
    <3>6. \E j \in 1..Len(PrimPath) : r.nodeIds[1] = PrimPath[j]
      BY RsgSubgraphAssumption DEF RsgSubgraphAssumption
    <3> QED
      BY <3>4, <3>5, <3>6 DEF Positions
  <2> QED
    BY <2>2, <2>3
<1>6. n \in K
  <2>1. \A d \in 1..Len(PrimPath) : PrimPath[d] \in K
    BY <1>3, <1>4, <1>5, PathInside DEF Positions
  <2> QED
    BY <2>1 DEF PrimNodes, Positions
<1>7. CASE n # s
  BY <1>6, <1>7 DEF K, Knows, s
<1>8. CASE n = s
  <2>1. PICK m \in Neighbours(s) : TRUE
    BY DEF s
  <2>2. m \in K /\ s \in Neighbours(m)
    BY <1>1, <1>2, <2>1, NeighbourOf
  <2> QED
    BY <1>2, <1>8, <2>2
<1> QED
  BY <1>7, <1>8

\* When no advertisement is on its way, none was lost and the ends of every link found the
\* same, every router of the primary path knows every link as it is: neither an old
\* advertisement nor a router's own, come back late, has the last word (onReceiveLsa,
\* updatePreferredPathWithLSA).
THEOREM ViewsAgree == Spec => []ViewsConverge
<1>1. ASSUME NEW g, Kept(g), Settled, EndsAgree, NEW n \in PrimNodes,
             NEW l \in Links, NEW a \in l, NEW b \in l, a # b
      PROVE  view[n].link[l] = faceStatus[a][b]
  <2>1. /\ l = {a, b} /\ l = {b, a}
        /\ a \in Nodes /\ b \in Nodes /\ b \in Neighbours(a) /\ a \in Neighbours(b)
    <3>1. \E x, y : l = {x, y}
      BY DEF Links, PrimLinks, LinksOf
    <3>2. l = {a, b} /\ l = {b, a}
      BY <1>1, <3>1
    <3>3. a \in Nodes /\ b \in Nodes
      BY DEF Nodes
    <3> QED
      BY <1>1, <3>2, <3>3 DEF Neighbours
  <2>2. faceStatus[a][b] = faceStatus[b][a]
    <3>1. <<a, b>> \in Channels
      BY <2>1 DEF Channels
    <3> QED
      BY <1>1, <3>1 DEF EndsAgree
  <2>3. g \in [1..lsas -> Lsas] /\ recentLsaIds[n] \subseteq 1..lsas
    BY <1>1, PrimNodesAreNodes DEF Kept, History, Typed
  <2>4. ASSUME NEW i \in 1..lsas
        PROVE  /\ l \in DOMAIN Told(g[i]) <=> g[i].source \in {a, b}
               /\ g[i].source \in {a, b} => i \in recentLsaIds[n]
    <3>1. g[i] \in Lsas /\ DOMAIN Told(g[i]) = {{g[i].source, m} : m \in Neighbours(g[i].source)}
      BY <2>3, ToldAt
    <3>2. l \in DOMAIN Told(g[i]) <=> g[i].source \in {a, b}
      BY <2>1, <3>1
    <3>3. g[i].source \in {a, b} => Neighbours(g[i].source) # {}
      BY <2>1
    <3> QED
      BY <1>1, <3>2, <3>3, AllReceived
  <2>5. CASE ViewFirst(g, n, l)
    <3>1. \A i \in 1..lsas : g[i].source # a
      BY <2>4, <2>5 DEF ViewFirst, Knows
    <3>2. prevLsa[a] = NoLsa
      BY <1>1, <2>1, <3>1 DEF Kept, Latest, Newest
    <3>3. faceStatus[a] = [m \in Neighbours(a) |-> "NORMAL"]
      BY <1>1, <2>1, <3>2 DEF Kept, AdvertisedIsCurrent
    <3> QED
      BY <2>1, <2>5, <3>3 DEF ViewFirst
  <2>6. ASSUME NEW i \in 1..lsas, ViewFrom(g, n, l, i) PROVE view[n].link[l] = faceStatus[a][b]
    <3>1. PICK s \in {a, b} : s = g[i].source
      BY <2>4, <2>6 DEF ViewFrom
    <3>2. PICK m \in Neighbours(s) : l = {s, m} /\ faceStatus[s][m] = faceStatus[a][b]
      BY <2>1, <2>2
    <3>3. \A j \in 1..lsas : g[j].source = s => j <= i
      BY <2>4, <2>6, <3>1 DEF ViewFrom
    <3>4. s \in Nodes /\ g[i].states \in [Neighbours(s) -> Status]
      BY <2>1, <2>3, <3>1 DEF Lsas
    <3>5. prevLsa[s] = g[i].states
      <4>1. PICK j \in 1..lsas : Newest(g, s, j) /\ g[j].states = prevLsa[s]
        BY <1>1, <3>1, <3>4 DEF Kept, Latest
      <4>2. j <= i /\ i <= j /\ i \in Int /\ j \in Int
        BY <3>1, <3>3, <4>1 DEF Newest
      <4> QED
        BY <4>1, <4>2
    <3>6. prevLsa[s] # NoLsa
      BY <3>2, <3>4, <3>5 DEF NoLsa
    <3>7. faceStatus[s] = g[i].states
      BY <1>1, <3>4, <3>5, <3>6 DEF Kept, AdvertisedIsCurrent
    <3>8. Told(g[i])[{s, m}] = g[i].states[m]
      BY <2>3, <3>1, <3>2, ToldAt
    <3> QED
      BY <2>6, <3>2, <3>7, <3>8 DEF ViewFrom
  <2>7. ViewsTold(g)
    BY <1>1 DEF Kept, Settled, Delivered
  <2> QED
    BY <2>5, <2>6, <2>7 DEF ViewsTold
<1>2. IInv => ViewsConverge
  BY <1>1 DEF IInv, ViewsConverge
<1> QED
  BY <1>2, Invariance, PTL

-------------------------------------------------------------------------------
(* The routes the routers choose *)

\* The path a router prefers is the one its search offered last, if any.
Prefers(n) ==
  LET p == ComputePreferredPathID(view[n], Succ, n)
  IN  /\ p.down # NoPath => down[n] = p.down
      /\ p.up # NoPath => up[n] = p.up

\* A sub-path has failed in a view just when one of its links has.
Exact(v) == \A r \in Rsps : v.rsp[r.pathID] = IF Broken(v.link, r) THEN "FAILURE" ELSE "NORMAL"

\* A link that joins a node to itself is never spoken of.
NoLoops(v) == \A l \in Links : (\A a, b \in l : a = b) => v.link[l] = "NORMAL"

\* Every router's view is exact and it prefers what its search offered.
RoutesInv ==
  /\ view \in [Nodes -> Views]
  /\ DOMAIN down = Nodes /\ down = [n \in Nodes |-> down[n]]
  /\ DOMAIN up = Nodes /\ up = [n \in Nodes |-> up[n]]
  /\ \A n \in Nodes : Exact(view[n]) /\ NoLoops(view[n])
  /\ \A n \in PrimNodes : Prefers(n)

\* The sub-path with a number.
LEMMA RspOfID == \A r \in Rsps : RspOf(r.pathID) = r
BY RsgSubgraphAssumption DEF RsgSubgraphAssumption, RspOf

\* At first every router prefers the primary path: no sub-path is usable while its ends are
\* joined by the primary path.
LEMMA FirstPreferred ==
  ASSUME NEW i \in Positions
  PROVE  LET p == ComputePreferredPathID(InitialView, Succ, PrimPath[i])
         IN  p.down \in {NoPath, PrimPathID} /\ p.up \in {NoPath, PrimPathID}
<1> DEFINE p == ComputePreferredPathID(InitialView, Succ, PrimPath[i])
<1>1. Succ \in [VirLinks -> Int]
  BY PathControlAssumption DEF PathControlAssumption
<1>2. ASSUME NEW v \in VirLinks, Usable(InitialView, v) PROVE v.pathID = PrimPathID
  <2>1. \A k \in 1..Len(PrimPath) : k # 1 => PrimLinkInto(k) \in Links
    <3> SUFFICES ASSUME NEW k \in 2..Len(PrimPath) PROVE PrimLinkInto(k) \in Links
      BY RsgSubgraphAssumption DEF RsgSubgraphAssumption
    <3>1. k - 1 \in 1..(Len(PrimPath) - 1) /\ (k - 1) + 1 = k
      BY RsgSubgraphAssumption DEF RsgSubgraphAssumption
    <3>2. \A d \in 1..(Len(PrimPath) - 1) : {PrimPath[d], PrimPath[d + 1]} \in Links
      BY DEF Links, PrimLinks, LinksOf
    <3>3. {PrimPath[k - 1], PrimPath[(k - 1) + 1]} \in Links
      BY <3>1, <3>2
    <3> QED
      BY <3>1, <3>3 DEF PrimLinkInto
  <2>2. ASSUME NEW e \in Positions PROVE ComponentID(InitialView, e) = 0
    <3>1. {k \in 2..e : InitialView.link[PrimLinkInto(k)] = "FAILURE"} = {}
      <4> SUFFICES ASSUME NEW k \in 2..e PROVE InitialView.link[PrimLinkInto(k)] # "FAILURE"
        OBVIOUS
      <4>1. k \in 1..Len(PrimPath) /\ k # 1
        BY RsgSubgraphAssumption DEF RsgSubgraphAssumption, Positions
      <4> QED
        BY <2>1, <4>1 DEF InitialView
    <3> QED
      BY <3>1, FS_EmptySet DEF ComponentID
  <2>3. ComponentID(InitialView, v.ingress) = ComponentID(InitialView, v.egress)
    BY <2>2, VirLinkAt
  <2> QED
    BY <1>2, <2>3 DEF Usable
<1>3. p.down # NoPath => \E v \in VirLinks : Usable(InitialView, v) /\ v.pathID = p.down
  <2> DEFINE prev == SearchRounds(InitialView, Succ).prev
  <2>1. p.down # NoPath => \E v \in VirLinks :
          /\ v.ingress = i /\ Usable(InitialView, v) /\ v = prev[v.egress]
          /\ v.egress \in WayBack(prev) /\ v.pathID = p.down
    BY <1>1, PreferredAt
  <2> HIDE DEF prev, p
  <2> QED
    BY <2>1
<1>4. p.up # NoPath => \E v \in VirLinks : Usable(InitialView, v) /\ v.pathID = p.up
  <2> DEFINE prev == SearchRounds(InitialView, Succ).prev
  <2>1. p.up # NoPath => \E v \in VirLinks :
          v.egress = i /\ Usable(InitialView, v) /\ v = prev[i] /\ v.pathID = p.up
    BY <1>1, PreferredAt
  <2> HIDE DEF prev, p
  <2> QED
    BY <2>1
<1> HIDE DEF p
<1> QED
  BY <1>2, <1>3, <1>4 DEF p

\* So it is before anything has happened.
LEMMA InitRoutes == Init => RoutesInv
<1> SUFFICES ASSUME Init PROVE RoutesInv
  OBVIOUS
<1> USE DEF Init
<1>1. InitialView \in Views
  BY DEF InitialView, Views, Status
<1>2. view \in [Nodes -> Views]
  BY <1>1
<1>3. ASSUME NEW n \in Nodes PROVE Exact(view[n]) /\ NoLoops(view[n])
  <2>1. view[n] = InitialView
    OBVIOUS
  <2>2. ASSUME NEW r \in Rsps
        PROVE  InitialView.rsp[r.pathID] = "NORMAL" /\ ~ Broken(InitialView.link, r)
    <3>1. LinksOf(r.nodeIds) \subseteq Links /\ r.pathID \in RspIDs
      BY DEF Links, RspIDs
    <3> QED
      BY <3>1 DEF InitialView, Broken
  <2>3. NoLoops(InitialView)
    BY DEF NoLoops, InitialView
  <2> QED
    BY <2>1, <2>2, <2>3 DEF Exact
<1>4. ASSUME NEW n \in PrimNodes PROVE Prefers(n)
  <2>1. PICK i \in Positions : n = PrimPath[i]
    BY DEF PrimNodes
  <2>2. n \in Nodes
    BY PrimNodesAreNodes
  <2>3. view[n] = InitialView /\ down[n] = PrimPathID /\ up[n] = PrimPathID
    BY <2>2
  <2> QED
    BY <2>1, <2>3, FirstPreferred DEF Prefers
<1> QED
  BY <1>2, <1>3, <1>4 DEF RoutesInv

\* A view stays exact.
LEMMA AppliedExact ==
  ASSUME NEW v \in Views, Exact(v), NoLoops(v), NEW lsa \in Lsas
  PROVE  Exact(Applied(v, lsa)) /\ NoLoops(Applied(v, lsa))
<1> DEFINE told == Told(lsa)
           link == [l \in Links |-> IF l \in DOMAIN told THEN told[l] ELSE v.link[l]]
           rsp == [p \in RspIDs |->
                     IF LinksOf(RspOf(p).nodeIds) \cap DOMAIN told = {} THEN v.rsp[p]
                     ELSE IF Broken(link, RspOf(p)) THEN "FAILURE" ELSE "NORMAL"]
<1>1. Applied(v, lsa) = [link |-> link, rsp |-> rsp]
  BY Zenon DEF Applied, UpdateLinkStatuses
<1>2. ASSUME NEW l \in DOMAIN told PROVE \E a, b \in l : a # b
  <2>1. PICK m \in Neighbours(lsa.source) : l = {lsa.source, m}
    <3>1. DOMAIN told = {{lsa.source, m} : m \in Neighbours(lsa.source)}
      BY ToldAt
    <3> HIDE DEF told
    <3> QED
      BY <1>2, <3>1
  <2>2. lsa.source \in Nodes
    BY DEF Lsas
  <2> QED
    BY <2>1, <2>2, NeighbourOf
<1> HIDE DEF told
<1>3. NoLoops([link |-> link, rsp |-> rsp])
  BY <1>2 DEF NoLoops
<1>4. ASSUME NEW r \in Rsps
      PROVE  rsp[r.pathID] = IF Broken(link, r) THEN "FAILURE" ELSE "NORMAL"
  <2>1. RspOf(r.pathID) = r /\ r.pathID \in RspIDs /\ LinksOf(r.nodeIds) \subseteq Links
    BY RspOfID DEF RspIDs, Links
  <2>2. CASE LinksOf(r.nodeIds) \cap DOMAIN told = {}
    <3>1. \A l \in LinksOf(r.nodeIds) : link[l] = v.link[l]
      BY <2>1, <2>2
    <3>2. Broken(link, r) <=> Broken(v.link, r)
      BY <3>1 DEF Broken
    <3>3. v.rsp[r.pathID] = IF Broken(v.link, r) THEN "FAILURE" ELSE "NORMAL"
      BY DEF Exact
    <3>4. rsp[r.pathID] = v.rsp[r.pathID]
      BY <2>1, <2>2
    <3> QED
      BY <3>2, <3>3, <3>4
  <2>3. CASE LinksOf(r.nodeIds) \cap DOMAIN told # {}
    BY <2>1, <2>3
  <2> QED
    BY <2>2, <2>3
<1> HIDE DEF link, rsp
<1>5. Exact([link |-> link, rsp |-> rsp])
  BY <1>4 DEF Exact
<1> QED
  BY <1>1, <1>3, <1>5

\* updatePreferredPathWithLSA leaves the router with the path its search offers.
LEMMA UpdateRoutes ==
  ASSUME RoutesInv, NEW n \in Nodes, NEW lsa \in Lsas, UpdatePreferredPathWithLSA(n, lsa)
  PROVE  RoutesInv'
<1>1. CASE n \notin PrimNodes
  BY <1>1 DEF UpdatePreferredPathWithLSA, RoutesInv, Prefers
<1>2. CASE n \in PrimNodes
  <2> DEFINE v == Applied(view[n], lsa)
             p == ComputePreferredPathID(v, Succ, n)
  <2>1. /\ view' = [view EXCEPT ![n] = v]
        /\ down' = [down EXCEPT ![n] = Preferred(@, p.down)]
        /\ up' = [up EXCEPT ![n] = Preferred(@, p.up)]
    BY <1>2 DEF UpdatePreferredPathWithLSA
  <2>2. view[n] \in Views /\ Exact(view[n]) /\ NoLoops(view[n])
    BY DEF RoutesInv
  <2>3. v \in Views /\ Exact(v) /\ NoLoops(v)
    BY <2>2, AppliedAt, AppliedExact
  <2> HIDE DEF v
  <2>4. /\ view' \in [Nodes -> Views] /\ view'[n] = v
        /\ \A m \in Nodes : m # n => view'[m] = view[m]
    BY <2>1, <2>3 DEF RoutesInv
  <2>5. /\ DOMAIN down' = Nodes /\ down' = [m \in Nodes |-> down'[m]]
        /\ down'[n] = Preferred(down[n], p.down)
        /\ \A m \in Nodes : m # n => down'[m] = down[m]
    BY <2>1 DEF RoutesInv
  <2>6. /\ DOMAIN up' = Nodes /\ up' = [m \in Nodes |-> up'[m]]
        /\ up'[n] = Preferred(up[n], p.up)
        /\ \A m \in Nodes : m # n => up'[m] = up[m]
    BY <2>1 DEF RoutesInv
  <2>7. ASSUME NEW m \in PrimNodes PROVE Prefers(m)'
    <3>1. m \in Nodes
      BY PrimNodesAreNodes
    <3>2. CASE m = n
      BY <2>4, <2>5, <2>6, <3>2 DEF Prefers, Preferred
    <3>3. CASE m # n
      <4>1. Prefers(m)
        BY DEF RoutesInv
      <4> QED
        BY <2>4, <2>5, <2>6, <3>1, <3>3, <4>1 DEF Prefers
    <3> QED
      BY <3>2, <3>3
  <2>8. ASSUME NEW m \in Nodes PROVE Exact(view'[m]) /\ NoLoops(view'[m])
    BY <2>3, <2>4 DEF RoutesInv
  <2>9. \A m \in Nodes : (Exact(view[m]) /\ NoLoops(view[m]))'
    BY <2>8 DEF Exact, NoLoops
  <2> QED
    BY <2>4, <2>5, <2>6, <2>7, <2>9 DEF RoutesInv
<1> QED
  BY <1>1, <1>2

\* A view changes only with the search over it: when a router tests its links and when it
\* receives an advertisement.
LEMMA NextRoutes ==
  ASSUME NEW g, Kept(g), RoutesInv, [Next]_vars
  PROVE  RoutesInv'
<1>1. ASSUME NEW n \in Nodes, NEW F, F \subseteq Neighbours(n), NEW result \in [F -> Status],
             LinkTestOver(n, result)
      PROVE  RoutesInv'
  <2> DEFINE states == [m \in Neighbours(n) |-> IF m \in DOMAIN result THEN result[m]
                                                ELSE faceStatus[n][m]]
             lsa == [id |-> lsas + 1, source |-> n, states |-> states]
  <2>1. BroadcastingLsaTask(n, states)
    BY <1>1 DEF LinkTestOver
  <2>2. states \in [Neighbours(n) -> Status]
    <3>1. faceStatus[n] \in [Neighbours(n) -> Status]
      BY DEF Kept, Typed
    <3> QED
      BY <1>1, <3>1
  <2> HIDE DEF states
  <2>3. CASE UNCHANGED <<view, down, up>>
    BY <2>3 DEF RoutesInv, Prefers
  <2>4. CASE lsas + lost < MaxLsas /\ UpdatePreferredPathWithLSA(n, lsa)
    <3>1. lsas \in Nat /\ lost \in Nat /\ MaxLsas \in Nat
      BY PathControlAssumption DEF Kept, Typed, PathControlAssumption
    <3>2. lsas + 1 \in LsaIds
      BY <2>4, <3>1 DEF LsaIds
    <3>3. states \in AllStates
      BY <2>2 DEF AllStates
    <3>4. lsa \in Lsas
      BY <2>2, <3>2, <3>3 DEF Lsas
    <3> QED
      BY <2>4, <3>4, UpdateRoutes
  <2> QED
    BY <2>1, <2>3, <2>4 DEF BroadcastingLsaTask
<1>2. ASSUME NEW c \in Channels, OnReceiveLsa(c) PROVE RoutesInv'
  <2>1. Head(channel[c]) \in Lsas /\ c[2] \in Nodes
    <3>1. channel[c] \in Seq(Lsas) /\ channel[c] # <<>>
      BY <1>2 DEF Kept, Typed, OnReceiveLsa
    <3> QED
      BY <3>1, TailAt DEF Channels
  <2>2. CASE UNCHANGED <<view, down, up>>
    BY <2>2 DEF RoutesInv, Prefers
  <2>3. CASE UpdatePreferredPathWithLSA(c[2], Head(channel[c]))
    BY <2>1, <2>3, UpdateRoutes
  <2> QED
    BY <1>2, <2>2, <2>3 DEF OnReceiveLsa
<1>3. CASE \E c \in Channels : Lose(c)
  BY <1>3 DEF Lose, RoutesInv, Prefers
<1>4. CASE UNCHANGED vars
  BY <1>4 DEF vars, RoutesInv, Prefers
<1> QED
  BY <1>1, <1>2, <1>3, <1>4 DEF Next

\* Routers that see the links alike and prefer what their searches offer choose paths that
\* join, from every position on the way.
LEMMA Joined ==
  ASSUME NEW v, \A n \in PrimNodes : view[n] = v /\ Prefers(n),
         NEW i \in WayBack(SearchRounds(v, Succ).prev)
  PROVE  Leads[i]
<1> DEFINE N == Len(PrimPath)
           prev == SearchRounds(v, Succ).prev
           Takes(x, k) ==
             /\ x.ingress = k
             /\ x.pathID = down[PrimPath[k]]
             /\ Usable(view[PrimPath[k]], x)
             /\ x.egress # N => up[PrimPath[x.egress]] = x.pathID
             /\ x.egress > k
           A == {N}
           R == {kj \in (1..N) \X (1..N) : \E x \in VirLinks : Takes(x, kj[1]) /\ x.egress = kj[2]}
<1>1. N \in Nat /\ Positions = 1..N
  BY RsgSubgraphAssumption DEF RsgSubgraphAssumption, Positions
<1>2. PICK f : IsWays(f, N, A, R)
  <2> HIDE DEF N, A, R
  <2> QED
    BY <1>1, WaysExist
<1>3. ASSUME NEW k \in 1..N
      PROVE  (k \in A \/ \E j \in (k + 1)..N : <<k, j>> \in R /\ f[j])
               = (k = N \/ \E x \in VirLinks : Takes(x, k) /\ f[x.egress])
  <2>1. ASSUME NEW j \in (k + 1)..N, <<k, j>> \in R, f[j]
        PROVE  \E x \in VirLinks : Takes(x, k) /\ f[x.egress]
    <3>1. PICK x \in VirLinks : Takes(x, k) /\ x.egress = j
      BY <2>1
    <3> HIDE DEF Takes
    <3> QED
      BY <2>1, <3>1, Zenon
  <2>2. ASSUME NEW x \in VirLinks, Takes(x, k), f[x.egress]
        PROVE  \E j \in (k + 1)..N : <<k, j>> \in R /\ f[j]
    <3>1. x.egress \in 1..N
      BY <1>1, VirLinkAt
    <3>2. x.egress > k
      BY <2>2
    <3> HIDE DEF Takes, N
    <3>3. <<k, x.egress>> \in R
      BY <2>2, <3>1
    <3>4. x.egress \in (k + 1)..N
      BY <1>1, <3>1, <3>2
    <3> QED
      BY <2>2, <3>3, <3>4, Zenon
  <2>3. k \in A <=> k = N
    OBVIOUS
  <2> HIDE DEF Takes, A, R, N
  <2> QED
    BY <2>1, <2>2, <2>3, Zenon
<1>4. PICK leads : /\ leads = [k \in Positions |->
                           \/ k = Len(PrimPath)
                           \/ \E x \in VirLinks :
                              /\ x.ingress = k
                              /\ x.pathID = down[PrimPath[k]]
                              /\ Usable(view[PrimPath[k]], x)
                              /\ x.egress # Len(PrimPath) => up[PrimPath[x.egress]] = x.pathID
                              /\ x.egress > k /\ leads[x.egress]]
                   /\ Leads = leads
  <2>1. ASSUME NEW k \in 1..N
        PROVE  (k = N \/ \E x \in VirLinks : Takes(x, k) /\ f[x.egress])
                 = (\/ k = Len(PrimPath)
                    \/ \E x \in VirLinks :
                        /\ x.ingress = k
                        /\ x.pathID = down[PrimPath[k]]
                        /\ Usable(view[PrimPath[k]], x)
                        /\ x.egress # Len(PrimPath) => up[PrimPath[x.egress]] = x.pathID
                        /\ x.egress > k /\ f[x.egress])
    <3>1. ASSUME NEW x \in VirLinks
          PROVE  Takes(x, k) /\ f[x.egress]
                   <=> /\ x.ingress = k
                       /\ x.pathID = down[PrimPath[k]]
                       /\ Usable(view[PrimPath[k]], x)
                       /\ x.egress # Len(PrimPath) => up[PrimPath[x.egress]] = x.pathID
                       /\ x.egress > k /\ f[x.egress]
      BY Zenon
    <3> HIDE DEF Takes
    <3> QED
      BY <3>1, Zenon DEF N
  <2>2. f = [k \in Positions |->
               \/ k = Len(PrimPath)
               \/ \E x \in VirLinks :
                        /\ x.ingress = k
                        /\ x.pathID = down[PrimPath[k]]
                        /\ Usable(view[PrimPath[k]], x)
                        /\ x.egress # Len(PrimPath) => up[PrimPath[x.egress]] = x.pathID
                        /\ x.egress > k /\ f[x.egress]]
    <3>1. ASSUME NEW k \in 1..N
          PROVE  (k \in A \/ \E j \in (k + 1)..N : <<k, j>> \in R /\ f[j])
                   = (\/ k = Len(PrimPath)
                      \/ \E x \in VirLinks :
                        /\ x.ingress = k
                        /\ x.pathID = down[PrimPath[k]]
                        /\ Usable(view[PrimPath[k]], x)
                        /\ x.egress # Len(PrimPath) => up[PrimPath[x.egress]] = x.pathID
                        /\ x.egress > k /\ f[x.egress])
      <4> HIDE DEF Takes, A, R, N
      <4> QED
        BY <1>3, <2>1
    <3> HIDE DEF A, R, N
    <3> QED
      BY <1>1, <1>2, <3>1, Zenon DEF IsWays
  <2> QED
    BY <2>2 DEF Leads
<1>5. \A k \in Positions :
        leads[k] <=> k = N \/ \E x \in VirLinks : Takes(x, k) /\ leads[x.egress]
  <2>1. \A k \in Positions :
          leads[k] <=> \/ k = Len(PrimPath)
                       \/ \E x \in VirLinks :
                              /\ x.ingress = k
                              /\ x.pathID = down[PrimPath[k]]
                              /\ Usable(view[PrimPath[k]], x)
                              /\ x.egress # Len(PrimPath) => up[PrimPath[x.egress]] = x.pathID
                              /\ x.egress > k /\ leads[x.egress]
    BY <1>4, Zenon
  <2> QED
    BY <2>1, Zenon
<1>6. Succ \in [VirLinks -> Int]
  BY PathControlAssumption DEF PathControlAssumption
<1>7. ASSUME NEW k \in WayBack(prev), k # N
      PROVE  \E x \in VirLinks : Takes(x, k) /\ x.egress \in WayBack(prev)
  <2>1. k \in Positions /\ PrimPath[k] \in PrimNodes
    BY WayBackAt DEF PrimNodes
  <2> DEFINE p == ComputePreferredPathID(v, Succ, PrimPath[k])
  <2>2. p.down # NoPath
    BY <1>6, <1>7, <2>1, PreferredAt
  <2>3. PICK x \in VirLinks : /\ x.ingress = k /\ Usable(v, x) /\ x = prev[x.egress]
                              /\ x.egress \in WayBack(prev) /\ x.pathID = p.down
    BY <1>6, <2>1, <2>2, PreferredAt
  <2>4. down[PrimPath[k]] = p.down /\ view[PrimPath[k]] = v
    BY <2>1, <2>2 DEF Prefers
  <2>5. x.egress \in Positions /\ x.egress > k /\ x.pathID # NoPath
    BY <2>3, VirLinkAt, <2>1 DEF Positions
  <2>6. ASSUME x.egress # N PROVE up[PrimPath[x.egress]] = x.pathID
    <3> DEFINE e == x.egress
               q == ComputePreferredPathID(v, Succ, PrimPath[e])
    <3>1. PrimPath[e] \in PrimNodes
      BY <2>5 DEF PrimNodes
    <3>2. q.down # NoPath
      BY <1>6, <2>3, <2>5, <2>6, PreferredAt
    <3>3. q.up = prev[e].pathID
      BY <1>6, <2>5, <3>2, PreferredAt
    <3>4. q.up = x.pathID
      BY <2>3, <3>3
    <3> QED
      BY <2>5, <3>1, <3>4 DEF Prefers
  <2> QED
    BY <2>3, <2>4, <2>5, <2>6
<1> HIDE DEF prev, Takes
<1> DEFINE Bad == {b \in Nat : \E k \in WayBack(prev) : b = N - k /\ ~ leads[k]}
<1>8. Bad = {}
  <2> SUFFICES ASSUME Bad # {} PROVE FALSE
    OBVIOUS
  <2>1. Bad \in SUBSET Nat
    OBVIOUS
  <2>2. PICK b \in Bad : \A c \in Bad : b <= c
    BY <2>1, LeastExists
  <2>3. PICK k \in WayBack(prev) : b = N - k /\ ~ leads[k]
    BY <2>2
  <2>4. k \in Positions
    BY WayBackAt
  <2>5. k # N
    BY <1>5, <2>3, <2>4
  <2>6. PICK x \in VirLinks : Takes(x, k) /\ x.egress \in WayBack(prev)
    BY <1>7, <2>5
  <2>7. ~ leads[x.egress]
    BY <1>5, <2>3, <2>4, <2>6
  <2>8. x.egress \in Positions /\ x.egress > k
    BY <2>6, VirLinkAt DEF Takes
  <2>9. N - x.egress \in Nat /\ N - x.egress < N - k
    BY <1>1, <2>4, <2>8
  <2>10. N - x.egress \in Bad
    BY <2>6, <2>7, <2>9
  <2> QED
    BY <2>2, <2>3, <2>9, <2>10
<1>9. i \in Positions /\ i \in WayBack(prev)
  BY WayBackAt DEF prev
<1>10. N - i \in Nat
  BY <1>1, <1>9
<1>11. leads[i]
  BY <1>8, <1>9, <1>10
<1> QED
  BY <1>4, <1>11

\* When every router knows every link as it is, the paths the routers chose one by one join,
\* from the source to the destination, whenever there is a route (updatePreferredPathWithLSA,
\* rsgComputePreferredPathID).
THEOREM RoutesMeet == Spec => []RouteJoins
<1>1. Spec => []RoutesInv
  <2>1. IInv /\ RoutesInv /\ [Next]_vars => RoutesInv'
    BY NextRoutes DEF IInv
  <2> QED
    BY <2>1, InitRoutes, Invariance, PTL DEF Spec
<1>2. RoutesInv /\ ViewsConverge => RouteJoins
  <2> SUFFICES ASSUME RoutesInv, ViewsConverge, Settled, EndsAgree,
                      ComputePreferredPathID(view[PrimPath[1]], Succ, PrimPath[1]).down # NoPath
               PROVE  Leads[1]
    BY DEF RouteJoins
  <2>1. 1 \in Positions
    BY RsgSubgraphAssumption DEF RsgSubgraphAssumption, Positions
  <2> DEFINE n == PrimPath[1]
             v == view[n]
  <2>2. n \in PrimNodes /\ PrimNodes \subseteq Nodes
    BY <2>1, PrimNodesAreNodes DEF PrimNodes
  <2>3. ASSUME NEW m \in PrimNodes PROVE view[m] = v
    <3>1. ASSUME NEW l \in Links PROVE view[m].link[l] = v.link[l]
      <4>1. CASE \E a, b \in l : a # b
        <5>1. PICK a \in l, b \in l : a # b
          BY <4>1
        <5>2. view[m].link[l] = faceStatus[a][b] /\ view[n].link[l] = faceStatus[a][b]
          BY <2>2, <5>1 DEF ViewsConverge
        <5> QED
          BY <5>2
      <4>2. CASE \A a, b \in l : a = b
        <5>1. NoLoops(view[m]) /\ NoLoops(view[n])
          BY <2>2 DEF RoutesInv
        <5> QED
          BY <4>2, <5>1 DEF NoLoops
      <4> QED
        BY <4>1, <4>2
    <3>2. view[m] \in Views /\ v \in Views /\ Exact(view[m]) /\ Exact(v)
      BY <2>2 DEF RoutesInv
    <3>3. view[m].link = v.link
      BY <3>1, <3>2 DEF Views
    <3>4. view[m].rsp = v.rsp
      <4>1. ASSUME NEW p \in RspIDs PROVE view[m].rsp[p] = v.rsp[p]
        <5>1. PICK r \in Rsps : p = r.pathID
          BY DEF RspIDs
        <5> QED
          BY <3>2, <3>3, <5>1 DEF Exact
      <4>2. view[m].rsp \in [RspIDs -> Status] /\ v.rsp \in [RspIDs -> Status]
        BY <3>2 DEF Views
      <4> QED
        BY <4>1, <4>2
    <3> QED
      BY <3>2, <3>3, <3>4 DEF Views
  <2>4. \A m \in PrimNodes : view[m] = v /\ Prefers(m)
    BY <2>3 DEF RoutesInv
  <2>5. Succ \in [VirLinks -> Int]
    BY PathControlAssumption DEF PathControlAssumption
  <2>6. 1 \in WayBack(SearchRounds(v, Succ).prev)
    BY <2>1, <2>5, PreferredAt
  <2> HIDE DEF v
  <2> QED
    BY <2>4, <2>6, Joined
<1> QED
  BY <1>1, <1>2, ViewsAgree, PTL
===============================================================================
