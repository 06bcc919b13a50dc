--------------------------- MODULE LocalPartsProofs ---------------------------
(***************************************************************************)
(* The properties of the run of MCLocalParts, for any values of the        *)
(* constants.  A behaviour is one of a single part and the others stay as  *)
(* they began, so that for each part it is a behaviour of that part's own  *)
(* specification.  NetworkPartsProofs is about those specifications; the   *)
(* one of the link service comes first here.                               *)
(***************************************************************************)
EXTENDS MCLocalParts, NetworkPartsProofs

-------------------------------------------------------------------------------
(* LinkService, for any packets, sizes, intervals and losses: first the marks, *)
(* then what is sent and received.                                             *)

LEMMA LinkConstants ==
  ASSUME L!LinkServiceAssumption
  PROVE  /\ L!Room \in Nat /\ L!Room > 0 /\ L!Room + MarkSize = Mtu /\ Mtu \in Nat
         /\ MarkSize \in Nat
         /\ Interval0 \in Nat /\ MaxSent \in Nat /\ MaxLosses \in Nat /\ LinkTime \in Nat
BY DEF L!LinkServiceAssumption, L!Room

\* The time between two marks is defined.
LEMMA IntervalIs ==
  ASSUME L!LinkServiceAssumption, NEW k \in Nat
  PROVE  L!Interval(k) \in Nat
<1> DEFINE S == {i \in 0..Interval0 : i * i * (k + 1) <= Interval0 * Interval0}
           D == {Interval0 - i : i \in S}
<1>0. Interval0 \in Nat
  BY LinkConstants
<1>1. 0 \in S
  <2>1. Interval0 * Interval0 >= 0
    BY <1>0
  <2>2. 0 * 0 * (k + 1) = 0
    OBVIOUS
  <2> QED
    BY <1>0, <2>1, <2>2
<1>2. S \subseteq 0..Interval0
  OBVIOUS
<1> HIDE DEF S
<1>3. D \in SUBSET Nat /\ D # {}
  BY <1>0, <1>1, <1>2
<1>4. PICK d \in D : \A e \in D : d <= e
  <2> HIDE DEF D
  <2> QED
    BY <1>3, LeastExists
<1>5. PICK i \in S : d = Interval0 - i
  BY <1>4
<1>6. ASSUME NEW y \in S PROVE i >= y
  <2>1. Interval0 - y \in D
    OBVIOUS
  <2>2. d <= Interval0 - y
    BY <1>4, <2>1
  <2> QED
    BY <1>0, <1>2, <1>5, <2>2
<1>7. L!Max(S) \in S
  BY <1>6 DEF L!Max
<1>8. L!Interval(k) = L!Max(S)
  BY DEF L!Interval, S
<1>9. L!Max(S) \in 0..Interval0
  BY <1>2, <1>7
<1> HIDE DEF S
<1> QED
  BY <1>0, <1>8, <1>9

\* h adds up g over the subsets of S.
AddsUp(h, g, S) ==
  /\ h \in [SUBSET S -> Nat]
  /\ h = [s \in SUBSET S |-> IF s = {} THEN 0 ELSE g[Pick(s)] + h[Rest(s)]]

LEMMA SumExists ==
  ASSUME NEW S, IsFiniteSet(S), NEW g \in [S -> Nat]
  PROVE  \E h : AddsUp(h, g, S)
<1> DEFINE op == [p \in S \X Nat |-> g[p[1]] + p[2]]
<1>1. op \in [S \X Nat -> Nat] /\ 0 \in Nat
  OBVIOUS
<1>2. PICK h : IsFold(h, op, 0, S, Nat)
  <2> HIDE DEF op
  <2> QED
    BY <1>1, FoldExists
<1>3. ASSUME NEW x \in SUBSET S, x # {}
      PROVE  op[<<Pick(x), h[Rest(x)]>>] = g[Pick(x)] + h[Rest(x)]
  <2>1. Pick(x) \in S /\ Rest(x) \in SUBSET S
    BY <1>3, RestSmaller
  <2>2. h[Rest(x)] \in Nat
    BY <1>2, <2>1 DEF IsFold
  <2> QED
    BY <2>1, <2>2
<1>4. /\ h \in [SUBSET S -> Nat]
      /\ h = [s \in SUBSET S |-> IF s = {} THEN 0 ELSE g[Pick(s)] + h[Rest(s)]]
  <2> HIDE DEF op
  <2> QED
    BY <1>2, <1>3 DEF IsFold
<1> QED
  BY <1>4 DEF AddsUp

OneMoreAdds(h, g, S) == \A s \in SUBSET S : \A x \in S \ s : h[s \cup {x}] = h[s] + g[x]
Agree(f, g, S) == \A x \in S : f[x] = g[x]

\* In whatever order: one more member adds its value.
LEMMA SumOneMore ==
  ASSUME NEW S, IsFiniteSet(S), NEW g \in [S -> Nat], NEW h, AddsUp(h, g, S)
  PROVE  OneMoreAdds(h, g, S)
<1> DEFINE Bad == {k \in Nat : \E s \in SUBSET S : \E x \in S \ s :
                     Cardinality(s) = k /\ h[s \cup {x}] # h[s] + g[x]}
<1>0. \A s \in SUBSET S : IsFiniteSet(s) /\ Cardinality(s) \in Nat
  BY FS_Subset, FS_CardinalityType
<1>1. /\ \A s \in SUBSET S : h[s] \in Nat
      /\ \A s \in SUBSET S : h[s] = IF s = {} THEN 0 ELSE g[Pick(s)] + h[Rest(s)]
  BY DEF AddsUp
<1>2. Bad = {}
  <2>1. SUFFICES ASSUME Bad # {} PROVE FALSE
    OBVIOUS
  <2>2. Bad \in SUBSET Nat
    OBVIOUS
  <2>3. PICK k \in Bad : \A m \in Bad : k <= m
    <3> HIDE DEF Bad
    <3> QED
      BY <2>1, <2>2, LeastExists
  <2>a. PICK s \in SUBSET S : \E x \in S \ s : Cardinality(s) = k /\ h[s \cup {x}] # h[s] + g[x]
    BY <2>3
  <2>4. PICK x \in S \ s : Cardinality(s) = k /\ h[s \cup {x}] # h[s] + g[x]
    BY <2>a
  <2> DEFINE y == Pick(s \cup {x})
  <2>5. s \cup {x} \in SUBSET S /\ s \cup {x} # {} /\ y \in s \cup {x} /\ y \in S
    <3>1. s \cup {x} # {} /\ s \cup {x} \in SUBSET S
      OBVIOUS
    <3>2. y \in s \cup {x}
      BY <3>1 DEF Pick
    <3> QED
      BY <3>1, <3>2
  <2>6. h[s \cup {x}] = g[y] + h[(s \cup {x}) \ {y}]
    BY <1>1, <2>5 DEF Rest
  <2> HIDE DEF y
  <2>7. CASE y = x
    <3>1. (s \cup {x}) \ {y} = s
      BY <2>4, <2>7
    <3>2. h[s] \in Nat /\ g[x] \in Nat
      BY <1>1, <2>4
    <3>3. h[s \cup {x}] = g[x] + h[s]
      BY <2>6, <2>7, <3>1
    <3>4. g[x] + h[s] = h[s] + g[x]
      BY <3>2
    <3> QED
      BY <2>4, <3>3, <3>4
  <2>8. CASE y # x
    <3> DEFINE r == s \ {y}
    <3>1. y \in s /\ r \in SUBSET S /\ x \in S \ r /\ y \in S \ r
      BY <2>4, <2>5, <2>8
    <3>2. Cardinality(r) = k - 1 /\ Cardinality(r) \in Nat /\ k \in Nat
      BY <1>0, <2>3, <2>4, <3>1, FS_RemoveElement
    <3>3. k - 1 \notin Bad
      <4> HIDE DEF Bad
      <4> QED
        BY <2>3, <3>2
    <3>4. h[r \cup {x}] = h[r] + g[x] /\ h[r \cup {y}] = h[r] + g[y]
      BY <3>1, <3>2, <3>3
    <3>5. r \cup {y} = s /\ (s \cup {x}) \ {y} = r \cup {x}
      BY <3>1, <2>8
    <3> HIDE DEF r
    <3>6. h[r] \in Nat /\ g[x] \in Nat /\ g[y] \in Nat
      BY <1>1, <3>1
    <3>7. h[s \cup {x}] = g[y] + h[r \cup {x}] /\ h[s] = h[r] + g[y]
      BY <2>6, <3>4, <3>5
    <3>8. g[y] + (h[r] + g[x]) = (h[r] + g[y]) + g[x]
      BY <3>6
    <3> QED
      BY <2>4, <3>4, <3>7, <3>8
  <2> QED
    BY <2>7, <2>8
<1> SUFFICES ASSUME NEW s \in SUBSET S, NEW x \in S \ s PROVE h[s \cup {x}] = h[s] + g[x]
  BY DEF OneMoreAdds
<1> QED
  BY <1>0, <1>2

\* Sums of the same values are the same.
LEMMA SameSum ==
  ASSUME NEW S, IsFiniteSet(S), NEW U, S \subseteq U, NEW g, NEW f, Agree(f, g, S),
         NEW h, AddsUp(h, g, S), NEW e, AddsUp(e, f, U)
  PROVE  h[S] = e[S]
<1> DEFINE Bad == {k \in Nat : \E s \in SUBSET S : Cardinality(s) = k /\ h[s] # e[s]}
<1>0. \A s \in SUBSET S : IsFiniteSet(s) /\ Cardinality(s) \in Nat
  BY FS_Subset, FS_CardinalityType
<1>1. /\ \A s \in SUBSET S : h[s] = IF s = {} THEN 0 ELSE g[Pick(s)] + h[Rest(s)]
      /\ \A s \in SUBSET S : e[s] = IF s = {} THEN 0 ELSE f[Pick(s)] + e[Rest(s)]
  BY DEF AddsUp
<1>2. Bad = {}
  <2>1. SUFFICES ASSUME Bad # {} PROVE FALSE
    OBVIOUS
  <2>2. Bad \in SUBSET Nat
    OBVIOUS
  <2>3. PICK k \in Bad : \A m \in Bad : k <= m
    <3> HIDE DEF Bad
    <3> QED
      BY <2>1, <2>2, LeastExists
  <2>4. PICK s \in SUBSET S : Cardinality(s) = k /\ h[s] # e[s]
    BY <2>3
  <2>5. s # {}
    BY <1>1, <2>4
  <2>6. /\ Pick(s) \in S /\ Rest(s) \in SUBSET S /\ Cardinality(Rest(s)) = k - 1
        /\ Cardinality(Rest(s)) \in Nat /\ k \in Nat
    BY <2>3, <2>4, <2>5, RestSmaller
  <2>7. k - 1 \notin Bad
    <3> HIDE DEF Bad
    <3> QED
      BY <2>3, <2>6
  <2>8. h[Rest(s)] = e[Rest(s)]
    BY <2>6, <2>7
  <2> QED
    BY <1>1, <2>4, <2>5, <2>6, <2>8 DEF Agree
<1>3. S \in SUBSET S
  OBVIOUS
<1> QED
  BY <1>0, <1>2, <1>3

\* The times between the first k marks.
IntervalsUpTo(k) == [i \in 1..k |-> L!Interval(i)]
IntervalSum(k) == L!FoldFunctionOnSet(LAMBDA x, y : x + y, 0, IntervalsUpTo(k), 1..k)

LEMMA IntervalSumIs ==
  ASSUME L!LinkServiceAssumption, NEW k \in Nat
  PROVE  \E h : AddsUp(h, IntervalsUpTo(k), 1..k) /\ IntervalSum(k) = h[1..k]
<1> DEFINE g == IntervalsUpTo(k)
           S == 1..k
<1>1. IsFiniteSet(S) /\ g \in [S -> Nat]
  BY IntervalIs, FS_Interval DEF IntervalsUpTo
<1>2. IntervalSum(k) = L!FoldFunctionOnSet(LAMBDA x, y : x + y, 0, g, S)
  BY DEF IntervalSum
<1> HIDE DEF g, S
<1>3. PICK h : AddsUp(h, g, S)
  BY <1>1, SumExists
<1>4. h = [s \in SUBSET S |-> IF s = {} THEN 0 ELSE g[Pick(s)] + h[Rest(s)]]
  BY <1>3 DEF AddsUp
<1>5. PICK e : /\ e = [s \in SUBSET S |-> IF s = {} THEN 0 ELSE g[Pick(s)] + e[Rest(s)]]
               /\ IntervalSum(k) = e[S]
  BY <1>2, <1>4 DEF L!FoldFunctionOnSet, L!MapThenFoldSet, Pick, Rest
<1>6. e \in [SUBSET S -> Nat]
  <2> DEFINE Bad == {j \in Nat : \E s \in SUBSET S : Cardinality(s) = j /\ e[s] \notin Nat}
  <2>0. \A s \in SUBSET S : IsFiniteSet(s) /\ Cardinality(s) \in Nat
    BY <1>1, FS_Subset, FS_CardinalityType
  <2>1. Bad = {}
    <3>1. SUFFICES ASSUME Bad # {} PROVE FALSE
      OBVIOUS
    <3>2. Bad \in SUBSET Nat
      OBVIOUS
    <3>3. PICK j \in Bad : \A m \in Bad : j <= m
      <4> HIDE DEF Bad
      <4> QED
        BY <3>1, <3>2, LeastExists
    <3>4. PICK s \in SUBSET S : Cardinality(s) = j /\ e[s] \notin Nat
      BY <3>3
    <3>5. s # {} /\ e[s] = g[Pick(s)] + e[Rest(s)]
      BY <1>5, <3>4
    <3>6. /\ Pick(s) \in S /\ Rest(s) \in SUBSET S /\ Cardinality(Rest(s)) = j - 1
          /\ Cardinality(Rest(s)) \in Nat /\ j \in Nat
      BY <1>1, <3>3, <3>4, <3>5, RestSmaller
    <3>7. j - 1 \notin Bad
      <4> HIDE DEF Bad
      <4> QED
        BY <3>3, <3>6
    <3>8. e[Rest(s)] \in Nat /\ g[Pick(s)] \in Nat
      BY <1>1, <3>6, <3>7
    <3> QED
      BY <3>4, <3>5, <3>8
  <2>2. \A s \in SUBSET S : e[s] \in Nat
    BY <2>0, <2>1
  <2>3. DOMAIN e = SUBSET S /\ e = [s \in SUBSET S |-> e[s]]
    BY <1>5
  <2> QED
    BY <2>2, <2>3
<1>7. AddsUp(e, g, S)
  BY <1>5, <1>6 DEF AddsUp
<1> QED
  BY <1>5, <1>7 DEF g, S

\* One more mark adds its interval.
LEMMA IntervalsAdd ==
  ASSUME L!LinkServiceAssumption
  PROVE  /\ IntervalSum(0) = 0
         /\ \A k \in Nat : /\ IntervalSum(k) \in Nat
                           /\ IntervalSum(k + 1) = IntervalSum(k) + L!Interval(k + 1)
<1>1. IntervalSum(0) = 0
  <2>1. PICK h : AddsUp(h, IntervalsUpTo(0), 1..0) /\ IntervalSum(0) = h[1..0]
    BY IntervalSumIs
  <2>2. 1..0 = {}
    OBVIOUS
  <2> QED
    BY <2>1, <2>2 DEF AddsUp
<1>2. ASSUME NEW k \in Nat
      PROVE  /\ IntervalSum(k) \in Nat
             /\ IntervalSum(k + 1) = IntervalSum(k) + L!Interval(k + 1)
  <2>1. PICK h : AddsUp(h, IntervalsUpTo(k), 1..k) /\ IntervalSum(k) = h[1..k]
    BY IntervalSumIs
  <2>2. PICK e : AddsUp(e, IntervalsUpTo(k + 1), 1..(k + 1)) /\ IntervalSum(k + 1) = e[1..(k + 1)]
    BY IntervalSumIs
  <2> DEFINE S == 1..k
             U == 1..(k + 1)
             g == IntervalsUpTo(k)
             f == IntervalsUpTo(k + 1)
  <2>3. IsFiniteSet(S) /\ IsFiniteSet(U)
    BY FS_Interval
  <2>4. S \subseteq U /\ S \cup {k + 1} = U /\ k + 1 \in U \ S
    OBVIOUS
  <2>5. /\ Agree(f, g, S)
        /\ f \in [U -> Nat] /\ f[k + 1] = L!Interval(k + 1)
    BY IntervalIs DEF IntervalsUpTo, Agree
  <2> HIDE DEF S, U, g, f
  <2>6. AddsUp(h, g, S) /\ AddsUp(e, f, U)
    BY <2>1, <2>2 DEF S, U, g, f
  <2>7. S \subseteq U
    BY <2>4
  <2>8. h[S] = e[S]
    BY <2>3, <2>5, <2>6, <2>7, SameSum
  <2>9. OneMoreAdds(e, f, U)
    BY <2>3, <2>5, <2>6, SumOneMore
  <2>10. e[U] = e[S] + f[k + 1]
    BY <2>4, <2>9 DEF OneMoreAdds
  <2>11. h[S] \in Nat
    BY <2>6 DEF AddsUp
  <2>12. IntervalSum(k) = h[S] /\ IntervalSum(k + 1) = e[U]
    BY <2>1, <2>2 DEF S, U
  <2> QED
    BY <2>5, <2>8, <2>10, <2>11, <2>12
<1> QED
  BY <1>1, <1>2

MarkStates == [next : Nat \cup {L!Never}, count : Nat, set : BOOLEAN]

\* The queue is long since then; the next mark is due by the intervals between the marks so
\* far, the last of which had come due at its time.
Earned(m, since, t) ==
  /\ m \in MarkStates /\ since \in Nat \cup {L!Never}
  /\ (m.next = L!Never) <=> (since = L!Never)
  /\ since = L!Never => m.count = 0
  /\ since # L!Never => m.next = since + Interval0 + IntervalSum(m.count)
  /\ m.count > 0 => t >= m.next - L!Interval(m.count)

NextSince(since, long) ==
  IF ~ long THEN L!Never ELSE IF since # L!Never THEN since ELSE lnow

\* One fragment finds the queue long or not.
LEMMA OneChecked ==
  ASSUME L!LinkServiceAssumption, lnow \in Nat, NEW m, NEW since, Earned(m, since, lnow),
         NEW long \in BOOLEAN
  PROVE  Earned(L!CheckCongestionLevel(m, long), NextSince(since, long), lnow)
<1> DEFINE c == L!CheckCongestionLevel(m, long)
<1>0. /\ Interval0 \in Nat /\ L!Never = -1
      /\ m \in MarkStates /\ since \in Nat \cup {L!Never} /\ m.count \in Nat
      /\ m = [next |-> m.next, count |-> m.count, set |-> m.set]
  BY LinkConstants DEF Earned, MarkStates, L!Never
<1>1. CASE ~ long
  <2>1. c = [next |-> L!Never, count |-> 0, set |-> FALSE]
    BY <1>1 DEF L!CheckCongestionLevel
  <2>2. NextSince(since, long) = L!Never
    BY <1>1 DEF NextSince
  <2>3. /\ c.next = L!Never /\ c.count = 0 /\ c \in MarkStates
    BY <2>1 DEF MarkStates
  <2> HIDE DEF c
  <2>4. ~ (c.count > 0)
    BY <2>3
  <2>20. Earned(c, NextSince(since, long), lnow)
    BY <2>2, <2>3, <2>4 DEF Earned
  <2> QED
    BY <2>20 DEF c
<1>2. CASE long /\ m.next = L!Never
  <2>1. c = [m EXCEPT !.next = lnow + Interval0, !.set = FALSE]
    BY <1>2 DEF L!CheckCongestionLevel
  <2>2. since = L!Never /\ m.count = 0 /\ NextSince(since, long) = lnow /\ lnow # L!Never
    BY <1>0, <1>2 DEF Earned, NextSince
  <2>5. lnow + Interval0 \in Nat /\ lnow + Interval0 # L!Never
    BY <1>0
  <2>6. c = [next |-> lnow + Interval0, count |-> m.count, set |-> FALSE]
    BY <1>0, <2>1
  <2>3. c.next = lnow + Interval0 /\ c.count = 0 /\ c \in MarkStates /\ lnow + Interval0 # L!Never
    BY <1>0, <2>2, <2>5, <2>6 DEF MarkStates
  <2>4. IntervalSum(0) = 0
    BY IntervalsAdd
  <2> HIDE DEF c
  <2>20. Earned(c, NextSince(since, long), lnow)
    BY <1>0, <2>2, <2>3, <2>4 DEF Earned
  <2> QED
    BY <2>20 DEF c
<1>3. CASE long /\ m.next # L!Never /\ lnow >= m.next
  <2>1. c = [next |-> m.next + L!Interval(m.count + 1), count |-> m.count + 1, set |-> TRUE]
    BY <1>3 DEF L!CheckCongestionLevel
  <2>2. /\ since # L!Never /\ NextSince(since, long) = since /\ since \in Nat
        /\ m.next = since + Interval0 + IntervalSum(m.count)
    BY <1>0, <1>3 DEF Earned, NextSince
  <2>3. /\ IntervalSum(m.count) \in Nat /\ L!Interval(m.count + 1) \in Nat
        /\ IntervalSum(m.count + 1) = IntervalSum(m.count) + L!Interval(m.count + 1)
    BY <1>0, IntervalsAdd, IntervalIs
  <2>4. m.next \in Nat
    BY <1>0, <2>2, <2>3
  <2>5. /\ c.next = m.next + L!Interval(m.count + 1) /\ c.count = m.count + 1 /\ c.count \in Nat
        /\ c \in MarkStates
    BY <1>0, <2>1, <2>3, <2>4 DEF MarkStates
  <2> HIDE DEF c
  <2>6. c.next = since + Interval0 + IntervalSum(c.count)
    BY <1>0, <2>2, <2>3, <2>5
  <2>7. lnow >= c.next - L!Interval(c.count)
    BY <1>3, <2>3, <2>4, <2>5
  <2>8. c.next # L!Never
    BY <1>0, <2>3, <2>4, <2>5
  <2>20. Earned(c, NextSince(since, long), lnow)
    BY <2>2, <2>5, <2>6, <2>7, <2>8 DEF Earned
  <2> QED
    BY <2>20 DEF c
<1>4. CASE long /\ m.next # L!Never /\ ~ (lnow >= m.next)
  <2>1. c = [m EXCEPT !.set = FALSE]
    BY <1>4 DEF L!CheckCongestionLevel
  <2>2. NextSince(since, long) = since
    BY <1>4 DEF Earned, NextSince
  <2>3. c.next = m.next /\ c.count = m.count /\ c \in MarkStates
    BY <1>0, <2>1 DEF MarkStates
  <2> HIDE DEF c
  <2>20. Earned(c, NextSince(since, long), lnow)
    BY <2>2, <2>3 DEF Earned
  <2> QED
    BY <2>20 DEF c
<1> QED
  BY <1>1, <1>2, <1>3, <1>4

\* g is what the checks of k fragments give, beginning with m.
MarksFrom(g, k, m, long) ==
  g = [i \in 0..k |-> IF i = 0 THEN m ELSE L!CheckCongestionLevel(g[i - 1], long[i])]

LEMMA MarksExist ==
  ASSUME NEW m, NEW long, NEW k \in Nat
  PROVE  \E g : MarksFrom(g, k, m, long)
<1> DEFINE Bad == {j \in Nat : ~ \E g : MarksFrom(g, j, m, long)}
<1>1. Bad = {}
  <2>1. SUFFICES ASSUME Bad # {} PROVE FALSE
    OBVIOUS
  <2>2. Bad \in SUBSET Nat
    OBVIOUS
  <2>3. PICK j \in Bad : \A i \in Bad : j <= i
    <3> HIDE DEF Bad
    <3> QED
      BY <2>1, <2>2, LeastExists
  <2>4. j # 0
    <3>1. MarksFrom([i \in 0..0 |-> m], 0, m, long)
      BY DEF MarksFrom
    <3> QED
      BY <2>3, <3>1
  <2>5. j \in Nat /\ j - 1 \in Nat /\ j - 1 \notin Bad
    BY <2>3, <2>4
  <2>6. PICK g : MarksFrom(g, j - 1, m, long)
    BY <2>5
  <2> DEFINE h == [i \in 0..j |-> IF i < j THEN g[i] ELSE L!CheckCongestionLevel(g[j - 1], long[j])]
  <2>7. \A i \in 0..(j - 1) : g[i] = IF i = 0 THEN m ELSE L!CheckCongestionLevel(g[i - 1], long[i])
    BY <2>6 DEF MarksFrom
  <2>8. \A i \in 0..j : h[i] = IF i = 0 THEN m ELSE L!CheckCongestionLevel(h[i - 1], long[i])
    <3> TAKE i \in 0..j
    <3>1. CASE i < j
      <4>1. i \in 0..(j - 1) /\ h[i] = g[i] /\ (i # 0 => h[i - 1] = g[i - 1])
        BY <2>5, <3>1
      <4> QED
        BY <2>7, <4>1
    <3>2. CASE i = j
      <4>1. h[i - 1] = g[j - 1] /\ h[i] = L!CheckCongestionLevel(g[j - 1], long[j]) /\ i # 0
        BY <2>4, <2>5, <3>2
      <4> QED
        BY <3>2, <4>1
    <3> QED
      BY <2>5, <3>1, <3>2
  <2>9. MarksFrom(h, j, m, long)
    <3>1. h = [i \in 0..j |-> h[i]]
      OBVIOUS
    <3> HIDE DEF h
    <3> QED
      BY <2>8, <3>1 DEF MarksFrom
  <2> QED
    BY <2>3, <2>9
<1> QED
  BY <1>1

\* Since when the queue is long at the i-th fragment.
SinceAt(long, i) ==
  IF i = 0 THEN longSince
  ELSE IF ~ long[i] THEN L!Never
  ELSE IF longSince # L!Never /\ \A x \in 1..i : long[x] THEN longSince ELSE lnow

LEMMA AllChecked ==
  ASSUME L!LinkServiceAssumption, lnow \in Nat, NEW m, Earned(m, longSince, lnow),
         NEW k \in Nat, NEW long, \A i \in 1..k : long[i] \in BOOLEAN,
         NEW g, MarksFrom(g, k, m, long)
  PROVE  \A i \in 0..k : Earned(g[i], SinceAt(long, i), lnow)
<1> DEFINE Bad == {i \in 0..k : ~ Earned(g[i], SinceAt(long, i), lnow)}
<1>0. /\ \A i \in 0..k : g[i] = IF i = 0 THEN m ELSE L!CheckCongestionLevel(g[i - 1], long[i])
      /\ L!Never = -1
  BY DEF MarksFrom, L!Never
<1>1. Bad = {}
  <2>1. SUFFICES ASSUME Bad # {} PROVE FALSE
    OBVIOUS
  <2>2. Bad \in SUBSET Nat
    OBVIOUS
  <2>3. PICK j \in Bad : \A i \in Bad : j <= i
    <3> HIDE DEF Bad
    <3> QED
      BY <2>1, <2>2, LeastExists
  <2>4. j \in 0..k /\ ~ Earned(g[j], SinceAt(long, j), lnow)
    BY <2>3
  <2>5. j # 0
    <3>1. j = 0 => g[j] = m /\ SinceAt(long, j) = longSince
      BY <1>0, <2>4 DEF SinceAt
    <3> QED
      BY <2>4, <3>1
  <2>6. j - 1 \in 0..k /\ j \in 1..k /\ j - 1 \notin Bad
    BY <2>3, <2>4, <2>5
  <2>7. Earned(g[j - 1], SinceAt(long, j - 1), lnow)
    BY <2>6
  <2>8. g[j] = L!CheckCongestionLevel(g[j - 1], long[j]) /\ long[j] \in BOOLEAN
    BY <1>0, <2>4, <2>5, <2>6
  <2>9. Earned(g[j], NextSince(SinceAt(long, j - 1), long[j]), lnow)
    BY <2>7, <2>8, OneChecked
  <2>10. NextSince(SinceAt(long, j - 1), long[j]) = SinceAt(long, j)
    <3>1. CASE ~ long[j]
      BY <2>5, <3>1 DEF NextSince, SinceAt
    <3>2. CASE long[j] /\ j = 1
      <4>1. SinceAt(long, j - 1) = longSince /\ \A x \in 1..j : long[x]
        BY <3>2 DEF SinceAt
      <4> QED
        BY <3>2, <4>1 DEF NextSince, SinceAt
    <3>3. CASE long[j] /\ j # 1 /\ ~ long[j - 1]
      <4>1. SinceAt(long, j - 1) = L!Never /\ ~ \A x \in 1..j : long[x]
        BY <2>6, <3>3 DEF SinceAt
      <4> QED
        BY <2>5, <3>3, <4>1 DEF NextSince, SinceAt
    <3>4. CASE long[j] /\ j # 1 /\ long[j - 1]
      <4>1. (\A x \in 1..j : long[x]) <=> \A x \in 1..(j - 1) : long[x]
        <5>1. \A x \in 1..j : x = j \/ x \in 1..(j - 1)
          BY <2>6
        <5> QED
          BY <2>6, <3>4, <5>1
      <4>2. SinceAt(long, j - 1) =
              IF longSince # L!Never /\ \A x \in 1..j : long[x] THEN longSince ELSE lnow
        BY <2>6, <3>4, <4>1 DEF SinceAt
      <4>3. SinceAt(long, j - 1) # L!Never
        BY <1>0, <4>2
      <4> QED
        BY <2>5, <3>4, <4>2, <4>3 DEF NextSince, SinceAt
    <3> QED
      BY <2>6, <2>8, <3>1, <3>2, <3>3, <3>4
  <2> QED
    BY <2>4, <2>9, <2>10
<1> QED
  BY <1>1

-------------------------------------------------------------------------------
(* Packets and fragments.                                                      *)

\* The values of fields, and of the tags they become.
FieldValues == {0, 1} \cup {p[t] : p \in Packets, t \in L!Tags}
TagValues == {NoField} \cup FieldValues \cup {v + 1 : v \in FieldValues}
PacketTypes == {"Interest", "Data", "Nack"}
LinkFragment ==
  [of : Nat, index : Nat, count : Nat, type : PacketTypes, seq : Int \cup {NoField},
   fields : [L!Tags -> FieldValues]]
LinkPacket == [type : PacketTypes, tags : [L!Tags -> TagValues]]
LinkItem == [of : Nat, packet : LinkPacket]

\* The number of fragments of a packet, cut to what one may take or not.
PiecesOf(p, cut) ==
  IF ~ cut \/ p.size <= L!Room THEN 1 ELSE (p.size + L!Room - 1) \div L!Room

LinkTypes ==
  /\ allowFragmentation \in BOOLEAN /\ allowReassembly \in BOOLEAN
  /\ lastSeqNo \in Int /\ nOutOverMtu \in Nat
  /\ wire \in Seq(LinkFragment) /\ fragments \subseteq LinkFragment /\ IsFiniteSet(fragments)
  /\ lnow \in Nat /\ losses \in 0..MaxLosses
  /\ sent \in Seq(Packets)
  /\ received \in Seq(LinkItem)

\* A fragment of a packet sent, whose fields are those of the packet but for the mark.
IsPieceOf(f, s, cut) ==
  /\ f \in LinkFragment
  /\ f.of \in 1..Len(s)
  /\ f.count = PiecesOf(s[f.of], cut) /\ f.index < f.count
  /\ f.type = s[f.of].type
  /\ \A t \in L!Tags \ {"mark"} : f.fields[t] = L!EncodeLpFields(s[f.of])[t]
  /\ f.count > 1 => f.seq \in Int

ArePieces(w, ps, s, cut) ==
  /\ \A i \in 1..Len(w) : IsPieceOf(w[i], s, cut)
  /\ \A g \in ps : IsPieceOf(g, s, cut) /\ g.count > 1

\* Fragments arrive in the order they are sent in, and each once.
Before(f, g) == f.of < g.of \/ (f.of = g.of /\ f.index < g.index)
InOrder(w, ps) ==
  /\ \A i, j \in 1..Len(w) : i < j => Before(w[i], w[j])
  /\ \A g \in ps, i \in 1..Len(w) : Before(g, w[i])
  /\ \A f, g \in ps : f.of = g.of /\ f.index = g.index => f = g

\* Messages have numbers of their own, in the order of sending.
FirstSeq(f) == f.seq - f.index
NumbersApart(f, g) ==
  f.count > 1 /\ g.count > 1 =>
    /\ f.of = g.of => FirstSeq(f) = FirstSeq(g)
    /\ f.of < g.of => FirstSeq(f) + f.count <= FirstSeq(g)
    /\ g.of < f.of => FirstSeq(g) + g.count <= FirstSeq(f)
IsNumbered(f, last) == f.count > 1 => FirstSeq(f) + f.count <= last + 1
Numbered(w, ps, last) ==
  /\ \A i \in 1..Len(w) : IsNumbered(w[i], last)
  /\ \A g \in ps : IsNumbered(g, last)
  /\ \A i, j \in 1..Len(w) : NumbersApart(w[i], w[j])
  /\ \A g \in ps, i \in 1..Len(w) : NumbersApart(g, w[i])
  /\ \A f, g \in ps : NumbersApart(f, g)

\* What was received, in the order of sending and ahead of what is under way.
IsFaithful(r, s) ==
  r.of \in 1..Len(s) /\ r.packet.type = s[r.of].type /\ L!Carried(s[r.of], r.packet.tags)
Faithful(rs, s, w) ==
  /\ \A i \in 1..Len(rs) : IsFaithful(rs[i], s)
  /\ \A i, j \in 1..Len(rs) : j < i => rs[j].of < rs[i].of
  /\ \A i \in 1..Len(rs), j \in 1..Len(w) : rs[i].of < w[j].of

\* As long as nothing is lost, every fragment of what is yet to be received is held.
IsHeld(k, x, w, ps) ==
  \/ \E i \in 1..Len(w) : w[i].of = k /\ w[i].index = x
  \/ \E g \in ps : g.of = k /\ g.index = x
NoneMissing(c, s, w, ps, cut) ==
  /\ c <= Len(s)
  /\ \A i \in 1..Len(w) : w[i].of > c
  /\ \A g \in ps : g.index < g.count - 1
  /\ \A k \in (c + 1)..Len(s) : \A x \in 0..(PiecesOf(s[k], cut) - 1) : IsHeld(k, x, w, ps)

Sharing ==
  /\ fragments # {} => allowReassembly
  /\ allowFragmentation => nOutOverMtu = 0
  /\ losses = 0 /\ allowFragmentation /\ allowReassembly =>
       NoneMissing(Len(received), sent, wire, fragments, allowFragmentation)

PiecesInv ==
  /\ LinkTypes
  /\ ArePieces(wire, fragments, sent, allowFragmentation)
  /\ InOrder(wire, fragments)
  /\ Numbered(wire, fragments, lastSeqNo)
  /\ Faithful(received, sent, wire)
  /\ Sharing

LEMMA LinkPackets ==
  ASSUME L!LinkServiceAssumption, NEW p \in Packets
  PROVE  p.type \in PacketTypes /\ p.size \in Nat /\ p.size > 0
BY DEF L!LinkServiceAssumption, PacketTypes

\* Dividing with the rest rounded up.
LEMMA RoundedUp ==
  ASSUME NEW a \in Nat, a > 0, NEW b \in Nat, b > 0
  PROVE  /\ (a + b - 1) \div b \in Nat /\ (a + b - 1) \div b > 0
         /\ a <= ((a + b - 1) \div b) * b
         /\ ((a + b - 1) \div b - 1) * b < a
<1> DEFINE d == (a + b - 1) \div b
<1>1. d \in Int
  OBVIOUS
<1>2. b * d <= a + b - 1 /\ a + b - 1 < b * d + b
  OBVIOUS
<1> HIDE DEF d
<1>3. b * d \in Int /\ b * d = d * b /\ (d - 1) * b = d * b - b
  BY <1>1
<1>4. d > 0
  <2>1. d <= 0 => b * d <= 0
    BY <1>1
  <2> QED
    BY <1>1, <1>2, <1>3, <2>1
<1> QED
  BY <1>1, <1>2, <1>3, <1>4 DEF d

\* The pieces of a packet: with fragmentation each has room, without there is one.
LEMMA Pieces ==
  ASSUME L!LinkServiceAssumption, allowFragmentation \in BOOLEAN, NEW p \in Packets
  PROVE  /\ PiecesOf(p, allowFragmentation) \in Nat /\ PiecesOf(p, allowFragmentation) > 0
         /\ DOMAIN L!SizesOf(p) = 1..PiecesOf(p, allowFragmentation)
         /\ Len(L!SizesOf(p)) = PiecesOf(p, allowFragmentation)
         /\ PiecesOf(p, allowFragmentation) > 1 => allowFragmentation
         /\ allowFragmentation => \A i \in 1..PiecesOf(p, allowFragmentation) :
              L!SizesOf(p)[i] \in Nat /\ L!SizesOf(p)[i] <= L!Room
<1>1. /\ L!Room \in Nat /\ L!Room > 0 /\ p.size \in Nat /\ p.size > 0
  BY LinkConstants, LinkPackets
<1>2. CASE ~ allowFragmentation \/ p.size <= L!Room
  <2>1. L!SizesOf(p) = <<p.size>>
    BY <1>2 DEF L!SizesOf
  <2>2. /\ PiecesOf(p, allowFragmentation) = 1 /\ DOMAIN L!SizesOf(p) = 1..1
        /\ Len(L!SizesOf(p)) = 1 /\ L!SizesOf(p)[1] = p.size
    BY <1>2, <2>1 DEF PiecesOf
  <2> QED
    BY <1>1, <1>2, <2>2
<1>3. CASE allowFragmentation /\ ~ (p.size <= L!Room)
  <2> DEFINE k == (p.size + L!Room - 1) \div L!Room
             szs == [i \in 1..k |-> IF i < k THEN L!Room ELSE p.size - (k - 1) * L!Room]
  <2>1. L!SizesOf(p) = szs
    BY <1>3 DEF L!SizesOf
  <2>2. k \in Nat /\ k > 0 /\ p.size <= k * L!Room /\ (k - 1) * L!Room < p.size
    BY <1>1, RoundedUp
  <2>6. PiecesOf(p, allowFragmentation) = k
    BY <1>3 DEF PiecesOf
  <2> HIDE DEF k
  <2>3. DOMAIN szs = 1..k /\ Len(szs) = k
    BY <2>2
  <2>4. k * L!Room = (k - 1) * L!Room + L!Room /\ (k - 1) * L!Room \in Int
    BY <1>1, <2>2
  <2>5. ASSUME NEW i \in 1..k PROVE szs[i] \in Nat /\ szs[i] <= L!Room
    BY <1>1, <2>2, <2>4
  <2> HIDE DEF szs
  <2> QED
    BY <1>3, <2>1, <2>2, <2>3, <2>5, <2>6
<1> QED
  BY <1>2, <1>3

LEMMA LinkSizes ==
  ASSUME NEW S
  PROVE  (L!IsFiniteSet(S) <=> IsFiniteSet(S)) /\ L!Cardinality(S) = Cardinality(S)
BY DEF L!IsFiniteSet, IsFiniteSet, L!Cardinality, Cardinality

\* Of the first numbers, the j-th is j.
LEMMA NthOfFirst ==
  ASSUME NEW k \in Nat, NEW j \in 1..k
  PROVE  L!NthOf(1..k, j) = j
<1>1. ASSUME NEW i \in 1..k PROVE L!Cardinality({x \in 1..k : x <= i}) = i
  <2>1. {x \in 1..k : x <= i} = 1..i
    OBVIOUS
  <2>2. Cardinality(1..i) = i
    BY FS_Interval
  <2> QED
    BY <2>1, <2>2, LinkSizes
<1>2. \A i \in 1..k : L!Cardinality({x \in 1..k : x <= i}) = j <=> i = j
  BY <1>1
<1> QED
  BY <1>2 DEF L!NthOf

\* Either all pieces of a packet fit, or there is one and it does not.
LEMMA PiecesFit ==
  ASSUME L!LinkServiceAssumption, allowFragmentation \in BOOLEAN, NEW p \in Packets, NEW marked,
         NEW k, k = PiecesOf(p, allowFragmentation)
  PROVE  \/ {i \in 1..k : L!Fits(L!SizesOf(p)[i], marked[i].set)} = 1..k
         \/ {i \in 1..k : L!Fits(L!SizesOf(p)[i], marked[i].set)} = {} /\ ~ allowFragmentation
<1>1. /\ k \in Nat /\ k > 0
      /\ k > 1 => allowFragmentation
      /\ allowFragmentation => \A i \in 1..k :
              L!SizesOf(p)[i] \in Nat /\ L!SizesOf(p)[i] <= L!Room
  BY Pieces
<1>2. CASE allowFragmentation
  <2>1. ASSUME NEW i \in 1..k PROVE L!Fits(L!SizesOf(p)[i], marked[i].set)
    <3>1. L!SizesOf(p)[i] \in Nat /\ L!SizesOf(p)[i] <= L!Room
      BY <1>1, <1>2
    <3>2. L!Room \in Nat /\ L!Room + MarkSize = Mtu /\ MarkSize \in Nat
      BY LinkConstants
    <3> QED
      BY <3>1, <3>2 DEF L!Fits
  <2> QED
    BY <2>1
<1>3. CASE ~ allowFragmentation
  <2>1. 1..k = {1}
    BY <1>1, <1>3
  <2> QED
    BY <1>3, <2>1
<1> QED
  BY <1>2, <1>3

\* The j-th piece of p, the packet that is sent next.
IsNewPiece(f, p, j) ==
  /\ f \in LinkFragment
  /\ f.of = Len(sent) + 1 /\ f.index = j - 1 /\ f.type = p.type
  /\ f.count = PiecesOf(p, allowFragmentation)
  /\ f.count > 1 => f.seq = lastSeqNo + j
  /\ \A t \in L!Tags \ {"mark"} : f.fields[t] = L!EncodeLpFields(p)[t]

LEMMA NewPiece ==
  ASSUME L!LinkServiceAssumption, LinkTypes, NEW p \in Packets,
         NEW j \in 1..PiecesOf(p, allowFragmentation), NEW marked \in BOOLEAN
  PROVE  IsNewPiece(L!Fragment(p, j, PiecesOf(p, allowFragmentation), marked), p, j)
<1>1. /\ PiecesOf(p, allowFragmentation) \in Nat /\ PiecesOf(p, allowFragmentation) > 0
      /\ Len(sent) \in Nat /\ p.type \in PacketTypes
  BY Pieces, LinkPackets DEF LinkTypes
<1>2. L!EncodeLpFields(p) \in [L!Tags -> FieldValues]
  BY DEF L!EncodeLpFields, FieldValues
<1> DEFINE flds == [L!EncodeLpFields(p) EXCEPT !["mark"] = IF marked THEN 1 ELSE @]
           snum == IF PiecesOf(p, allowFragmentation) > 1 THEN lastSeqNo + j ELSE NoField
<1>3. /\ flds \in [L!Tags -> FieldValues]
      /\ \A t \in L!Tags \ {"mark"} : flds[t] = L!EncodeLpFields(p)[t]
  BY <1>2 DEF FieldValues, L!Tags
<1>4. snum \in Int \cup {NoField} /\ (PiecesOf(p, allowFragmentation) > 1 => snum = lastSeqNo + j)
  <2>1. lastSeqNo + j \in Int
    BY <1>1 DEF LinkTypes
  <2> QED
    BY <2>1
<1>5. L!Fragment(p, j, PiecesOf(p, allowFragmentation), marked) =
        [of |-> Len(sent) + 1, index |-> j - 1, count |-> PiecesOf(p, allowFragmentation),
         type |-> p.type, seq |-> snum, fields |-> flds]
  BY DEF L!Fragment
<1> HIDE DEF flds, snum
<1> QED
  BY <1>1, <1>3, <1>4, <1>5 DEF IsNewPiece, LinkFragment

\* What is sent of a packet.
SentAs(p, new) ==
  /\ new \in Seq(LinkFragment)
  /\ wire' = wire \o new
  /\ \A j \in 1..Len(new) : IsNewPiece(new[j], p, j)
  /\ Len(new) = PiecesOf(p, allowFragmentation) \/ (Len(new) = 0 /\ ~ allowFragmentation)
SentOther(p) ==
  /\ lastSeqNo' = IF PiecesOf(p, allowFragmentation) > 1
                  THEN lastSeqNo + PiecesOf(p, allowFragmentation) ELSE lastSeqNo
  /\ nOutOverMtu' \in Nat /\ (allowFragmentation => nOutOverMtu' = nOutOverMtu)
  /\ sent' = Append(sent, p)
  /\ UNCHANGED <<allowFragmentation, allowReassembly, fragments, lnow, received, losses>>

CongestionState == [next |-> nextMarkTime, count |-> nMarked, set |-> FALSE]

\* What sending comes to, for the marks of the fragments.
SentMarked(p, k, long, marked) ==
  LET fit == {i \in 1..k : L!Fits(L!SizesOf(p)[i], marked[i].set)} IN
  /\ MarksFrom(marked, k, CongestionState, long)
  /\ nextMarkTime' = marked[k].next
  /\ nMarked' = marked[k].count
  /\ nOutOverMtu' = nOutOverMtu + k - L!Cardinality(fit)
  /\ wire' = wire \o [j \in 1..L!Cardinality(fit) |->
                        L!Fragment(p, L!NthOf(fit, j), k, marked[L!NthOf(fit, j)].set)]

LEMMA SendMarks ==
  ASSUME NEW p, NEW long, NEW k \in Nat, k = Len(L!SizesOf(p)), L!Send(p, long)
  PROVE  \E marked : SentMarked(p, k, long, marked)
<1>1. PICK g : MarksFrom(g, k, CongestionState, long)
  BY MarksExist
<1> DEFINE h == CHOOSE h : MarksFrom(h, k, CongestionState, long)
<1>2. MarksFrom(h, k, CongestionState, long)
  BY <1>1
<1>3. SentMarked(p, k, long, h)
  BY <1>2 DEF SentMarked, L!Send, MarksFrom, CongestionState
<1> QED
  BY <1>3

LEMMA Sending ==
  ASSUME L!LinkServiceAssumption, LinkTypes, NEW p \in Packets, NEW long, L!Send(p, long),
         NEW marked, NEW k, k = PiecesOf(p, allowFragmentation), SentMarked(p, k, long, marked),
         \A i \in 1..k : marked[i].set \in BOOLEAN
  PROVE  (\E new : SentAs(p, new)) /\ SentOther(p)
<1> DEFINE fit == {i \in 1..k : L!Fits(L!SizesOf(p)[i], marked[i].set)}
           m == L!Cardinality(fit)
           new == [j \in 1..m |-> L!Fragment(p, L!NthOf(fit, j), k, marked[L!NthOf(fit, j)].set)]
<1>1. /\ allowFragmentation \in BOOLEAN /\ lastSeqNo \in Int /\ nOutOverMtu \in Nat
  BY DEF LinkTypes
<1>2. k \in Nat /\ k > 0 /\ Len(L!SizesOf(p)) = k
  BY <1>1, Pieces
<1>3. (fit = 1..k /\ m = k) \/ (fit = {} /\ m = 0 /\ ~ allowFragmentation)
  <2>1. fit = 1..k \/ (fit = {} /\ ~ allowFragmentation)
    BY <1>1, PiecesFit
  <2>2. L!Cardinality(1..k) = k /\ L!Cardinality({}) = 0
    BY <1>2, FS_Interval, FS_EmptySet, LinkSizes
  <2> HIDE DEF fit
  <2>3. m = L!Cardinality(fit)
    OBVIOUS
  <2> HIDE DEF m
  <2>4. CASE fit = 1..k
    BY <2>2, <2>3, <2>4
  <2>5. CASE fit = {} /\ ~ allowFragmentation
    BY <2>2, <2>3, <2>5
  <2> QED
    BY <2>1, <2>4, <2>5
<1>4. nOutOverMtu' = nOutOverMtu + k - m /\ wire' = wire \o new
  BY DEF SentMarked
<1>5. ASSUME NEW j \in 1..m PROVE IsNewPiece(new[j], p, j)
  <2>1. fit = 1..k /\ m = k
    BY <1>3
  <2>2. L!NthOf(fit, j) = j
    BY <1>2, <2>1, NthOfFirst
  <2>3. marked[j].set \in BOOLEAN /\ j \in 1..k
    BY <2>1
  <2>4. new[j] = L!Fragment(p, j, k, marked[j].set)
    BY <2>2
  <2> QED
    BY <2>3, <2>4, NewPiece
<1>6. SentAs(p, new)
  <2> HIDE DEF fit
  <2>0. m \in Nat
    BY <1>2, <1>3
  <2>1. Len(new) = m /\ DOMAIN new = 1..m
    BY <2>0
  <2>2. \A j \in 1..m : new[j] \in LinkFragment
    BY <1>5 DEF IsNewPiece
  <2>3. new \in Seq(LinkFragment)
    BY <2>0, <2>2
  <2>4. \A j \in 1..m : IsNewPiece(new[j], p, j)
    BY <1>5
  <2> HIDE DEF m, new
  <2> QED
    BY <1>3, <1>4, <2>1, <2>3, <2>4 DEF SentAs
<1>7. SentOther(p)
  <2> HIDE DEF m, new, fit
  <2>1. /\ lastSeqNo' = IF k > 1 THEN lastSeqNo + k ELSE lastSeqNo
        /\ sent' = Append(sent, p)
        /\ UNCHANGED <<allowFragmentation, allowReassembly, fragments, lnow, received, losses>>
    BY <1>2 DEF L!Send
  <2>2. nOutOverMtu' \in Nat /\ (allowFragmentation => nOutOverMtu' = nOutOverMtu)
    BY <1>1, <1>2, <1>3, <1>4
  <2> QED
    BY <2>1, <2>2 DEF SentOther
<1> QED
  BY <1>6, <1>7

\* Sending a packet adds its pieces behind all others.
LEMMA SendKeeps ==
  ASSUME L!LinkServiceAssumption, PiecesInv, NEW p \in Packets, NEW new,
         SentAs(p, new), SentOther(p)
  PROVE  PiecesInv'
<1> DEFINE cut == allowFragmentation
           k == PiecesOf(p, cut)
           s == sent
           t == Append(s, p)
           w == wire
           v == w \o new
           ps == fragments
           last == lastSeqNo
           after == IF k > 1 THEN last + k ELSE last
<1>1. /\ LinkTypes /\ ArePieces(w, ps, s, cut) /\ InOrder(w, ps) /\ Numbered(w, ps, last)
      /\ Faithful(received, s, w) /\ Sharing
  BY DEF PiecesInv
<1>2. /\ cut \in BOOLEAN /\ last \in Int /\ w \in Seq(LinkFragment) /\ ps \subseteq LinkFragment
      /\ s \in Seq(Packets) /\ received \in Seq(LinkItem)
  BY <1>1 DEF LinkTypes
<1>3. k \in Nat /\ k > 0 /\ (k > 1 => cut)
  BY <1>2, Pieces
<1>4. /\ new \in Seq(LinkFragment) /\ wire' = v
      /\ \A j \in 1..Len(new) : IsNewPiece(new[j], p, j)
      /\ Len(new) = k \/ (Len(new) = 0 /\ ~ cut)
  BY DEF SentAs
<1>5. /\ lastSeqNo' = after /\ sent' = t
      /\ nOutOverMtu' \in Nat /\ (allowFragmentation => nOutOverMtu' = nOutOverMtu)
      /\ UNCHANGED <<allowFragmentation, allowReassembly, fragments, lnow, received, losses>>
  BY DEF SentOther
<1>6. /\ Len(s) \in Nat /\ Len(t) = Len(s) + 1 /\ t \in Seq(Packets)
      /\ \A i \in 1..Len(s) : t[i] = s[i]
      /\ t[Len(s) + 1] = p
  BY <1>2
<1>7. /\ Len(w) \in Nat /\ Len(new) \in Nat /\ Len(v) = Len(w) + Len(new)
      /\ v \in Seq(LinkFragment)
      /\ \A i \in 1..Len(w) : v[i] = w[i]
      /\ \A i \in 1..Len(v) : i > Len(w) => v[i] = new[i - Len(w)] /\ i - Len(w) \in 1..Len(new)
  BY <1>2, <1>4
<1>8. after \in Int /\ last <= after
  BY <1>2, <1>3
<1>9. LinkTypes'
  BY <1>1, <1>4, <1>5, <1>6, <1>7, <1>8 DEF LinkTypes
<1> HIDE DEF k, t, v, after, cut, s, w, ps, last
<1>10. ASSUME NEW f, IsPieceOf(f, s, cut)
       PROVE  IsPieceOf(f, t, cut) /\ f.of <= Len(s) /\ f.of \in Nat
  BY <1>6, <1>10 DEF IsPieceOf
<1>11. ASSUME NEW i \in 1..Len(v), i > Len(w)
       PROVE  /\ IsNewPiece(v[i], p, i - Len(w)) /\ i - Len(w) \in 1..k
              /\ v[i].of = Len(s) + 1 /\ v[i].index = i - Len(w) - 1 /\ v[i].count = k
              /\ k > 1 => v[i].seq = last + (i - Len(w))
  <2>1. i - Len(w) \in 1..Len(new) /\ v[i] = new[i - Len(w)]
    BY <1>7, <1>11
  <2>2. IsNewPiece(v[i], p, i - Len(w)) /\ i - Len(w) \in 1..k
    BY <1>3, <1>4, <2>1
  <2> QED
    BY <2>2 DEF IsNewPiece, s, k, cut, last
<1>12. ASSUME NEW i \in 1..Len(v), i > Len(w) PROVE IsPieceOf(v[i], t, cut)
  <2>1. IsNewPiece(v[i], p, i - Len(w)) /\ i - Len(w) \in 1..k /\ v[i].index = i - Len(w) - 1
        /\ v[i].of = Len(s) + 1 /\ v[i].count = k
    BY <1>11, <1>12
  <2>2. v[i].index < k /\ Len(s) + 1 \in 1..Len(t)
    BY <1>3, <1>6, <1>7, <2>1
  <2>3. v[i].count > 1 => v[i].seq \in Int
    BY <1>2, <1>7, <1>11, <1>12, <2>1
  <2>4. v[i] \in LinkFragment /\ v[i].type = p.type
        /\ \A x \in L!Tags \ {"mark"} : v[i].fields[x] = L!EncodeLpFields(p)[x]
    BY <2>1 DEF IsNewPiece
  <2> QED
    BY <1>6, <2>1, <2>2, <2>3, <2>4 DEF IsPieceOf, k
<1>13. ASSUME NEW i \in 1..Len(v) PROVE (i \in 1..Len(w) /\ v[i] = w[i]) \/ i > Len(w)
  BY <1>7
<1>14. ArePieces(v, ps, t, cut)
  <2>1. ASSUME NEW i \in 1..Len(v) PROVE IsPieceOf(v[i], t, cut)
    <3>1. CASE i \in 1..Len(w) /\ v[i] = w[i]
      BY <1>1, <1>10, <3>1 DEF ArePieces
    <3> QED
      BY <1>12, <1>13, <3>1
  <2>2. ASSUME NEW g \in ps PROVE IsPieceOf(g, t, cut) /\ g.count > 1
    BY <1>1, <1>10 DEF ArePieces
  <2> QED
    BY <2>1, <2>2 DEF ArePieces
<1>15. /\ \A i \in 1..Len(w) : w[i].of <= Len(s) /\ w[i].of \in Nat
       /\ \A g \in ps : g.of <= Len(s) /\ g.of \in Nat
  BY <1>1, <1>10 DEF ArePieces
<1>16. InOrder(v, ps)
  <2>1. ASSUME NEW i \in 1..Len(v), NEW j \in 1..Len(v), i < j PROVE Before(v[i], v[j])
    <3>1. CASE i \in 1..Len(w) /\ v[i] = w[i] /\ j \in 1..Len(w) /\ v[j] = w[j]
      BY <1>1, <2>1, <3>1 DEF InOrder
    <3>2. CASE i \in 1..Len(w) /\ v[i] = w[i] /\ j > Len(w)
      <4>1. v[j].of = Len(s) + 1 /\ v[i].of <= Len(s) /\ v[i].of \in Nat
        BY <1>11, <1>15, <3>2
      <4> QED
        BY <1>6, <4>1 DEF Before
    <3>3. CASE i > Len(w) /\ j > Len(w)
      <4>1. /\ v[i].of = Len(s) + 1 /\ v[j].of = Len(s) + 1
            /\ v[i].index = i - Len(w) - 1 /\ v[j].index = j - Len(w) - 1
        BY <1>11, <3>3
      <4> QED
        BY <1>7, <2>1, <4>1 DEF Before
    <3> QED
      BY <1>7, <1>13, <2>1, <3>1, <3>2, <3>3
  <2>2. ASSUME NEW g \in ps, NEW i \in 1..Len(v) PROVE Before(g, v[i])
    <3>1. CASE i \in 1..Len(w) /\ v[i] = w[i]
      BY <1>1, <3>1 DEF InOrder
    <3>2. CASE i > Len(w)
      <4>1. v[i].of = Len(s) + 1 /\ g.of <= Len(s) /\ g.of \in Nat
        BY <1>11, <1>15, <3>2
      <4> QED
        BY <1>6, <4>1 DEF Before
    <3> QED
      BY <1>13, <3>1, <3>2
  <2>3. \A f, g \in ps : f.of = g.of /\ f.index = g.index => f = g
    BY <1>1 DEF InOrder
  <2> QED
    BY <2>1, <2>2, <2>3 DEF InOrder
<1>17. ASSUME NEW i \in 1..Len(v), i > Len(w), k > 1 PROVE FirstSeq(v[i]) = last + 1
  <2>1. v[i].index = i - Len(w) - 1 /\ v[i].seq = last + (i - Len(w))
    BY <1>11, <1>17
  <2> QED
    BY <1>2, <1>7, <2>1 DEF FirstSeq
<1>18. ASSUME NEW f, IsPieceOf(f, s, cut), IsNumbered(f, last), f.count > 1
       PROVE  FirstSeq(f) \in Int /\ f.count \in Nat /\ FirstSeq(f) + f.count <= last + 1
  <2>1. f.seq \in Int /\ f.index \in Nat /\ f.count \in Nat
    BY <1>18 DEF IsPieceOf, LinkFragment
  <2> QED
    BY <1>18, <2>1 DEF FirstSeq, IsNumbered
<1>19. ASSUME NEW f, IsPieceOf(f, s, cut), IsNumbered(f, last) PROVE IsNumbered(f, after)
  <2>1. CASE f.count > 1
    BY <1>2, <1>8, <1>18, <1>19, <2>1 DEF IsNumbered
  <2>2. CASE ~ (f.count > 1)
    BY <2>2 DEF IsNumbered
  <2> QED
    BY <2>1, <2>2
<1>20. ASSUME NEW f, IsPieceOf(f, s, cut), IsNumbered(f, last), NEW i \in 1..Len(v), i > Len(w)
       PROVE  NumbersApart(f, v[i]) /\ NumbersApart(v[i], f)
  <2>1. v[i].count = k /\ v[i].of = Len(s) + 1 /\ f.of <= Len(s) /\ f.of \in Nat
    BY <1>10, <1>11, <1>20
  <2>2. k > 1 => FirstSeq(v[i]) = last + 1
    BY <1>17, <1>20
  <2>3. f.count > 1 => FirstSeq(f) + f.count <= last + 1
    BY <1>18, <1>20
  <2>4. v[i].of > f.of
    BY <1>6, <2>1
  <2>5. v[i].count > 1 /\ f.count > 1 => FirstSeq(f) + f.count <= FirstSeq(v[i])
    BY <2>1, <2>2, <2>3
  <2> QED
    BY <1>6, <2>1, <2>4, <2>5 DEF NumbersApart
<1>21. /\ \A i \in 1..Len(w) : IsPieceOf(w[i], s, cut) /\ IsNumbered(w[i], last)
       /\ \A g \in ps : IsPieceOf(g, s, cut) /\ IsNumbered(g, last)
  BY <1>1 DEF ArePieces, Numbered
<1>22. Numbered(v, ps, after)
  <2>1. ASSUME NEW i \in 1..Len(v) PROVE IsNumbered(v[i], after)
    <3>1. CASE i \in 1..Len(w) /\ v[i] = w[i]
      BY <1>19, <1>21, <3>1
    <3>2. CASE i > Len(w)
      <4>1. v[i].count = k /\ (k > 1 => FirstSeq(v[i]) = last + 1)
        BY <1>11, <1>17, <3>2
      <4>2. k > 1 => after = last + k
        BY DEF after
      <4> QED
        BY <1>2, <1>3, <4>1, <4>2 DEF IsNumbered
    <3> QED
      BY <1>13, <3>1, <3>2
  <2>2. \A g \in ps : IsNumbered(g, after)
    BY <1>19, <1>21
  <2>3. ASSUME NEW i \in 1..Len(v), NEW j \in 1..Len(v) PROVE NumbersApart(v[i], v[j])
    <3>1. CASE i \in 1..Len(w) /\ v[i] = w[i] /\ j \in 1..Len(w) /\ v[j] = w[j]
      BY <1>1, <3>1 DEF Numbered
    <3>2. CASE i \in 1..Len(w) /\ v[i] = w[i] /\ j > Len(w)
      BY <1>20, <1>21, <3>2
    <3>3. CASE j \in 1..Len(w) /\ v[j] = w[j] /\ i > Len(w)
      BY <1>20, <1>21, <3>3
    <3>4. CASE i > Len(w) /\ j > Len(w)
      <4>1. /\ v[i].of = Len(s) + 1 /\ v[j].of = Len(s) + 1 /\ v[i].count = k
            /\ k > 1 => FirstSeq(v[i]) = FirstSeq(v[j])
        BY <1>11, <1>17, <3>4
      <4> QED
        BY <1>6, <4>1 DEF NumbersApart
    <3> QED
      BY <1>13, <3>1, <3>2, <3>3, <3>4
  <2>4. ASSUME NEW g \in ps, NEW i \in 1..Len(v) PROVE NumbersApart(g, v[i])
    <3>1. CASE i \in 1..Len(w) /\ v[i] = w[i]
      BY <1>1, <3>1 DEF Numbered
    <3> QED
      BY <1>13, <1>20, <1>21, <3>1
  <2>5. \A f, g \in ps : NumbersApart(f, g)
    BY <1>1 DEF Numbered
  <2> QED
    BY <2>1, <2>2, <2>3, <2>4, <2>5 DEF Numbered
<1>23. Faithful(received, t, v)
  <2>1. ASSUME NEW i \in 1..Len(received)
        PROVE  IsFaithful(received[i], t) /\ received[i].of <= Len(s) /\ received[i].of \in Nat
    <3>1. IsFaithful(received[i], s)
      BY <1>1 DEF Faithful
    <3> QED
      BY <1>6, <3>1 DEF IsFaithful
  <2>2. \A i, j \in 1..Len(received) : j < i => received[j].of < received[i].of
    BY <1>1 DEF Faithful
  <2>3. ASSUME NEW i \in 1..Len(received), NEW j \in 1..Len(v) PROVE received[i].of < v[j].of
    <3>1. CASE j \in 1..Len(w) /\ v[j] = w[j]
      BY <1>1, <3>1 DEF Faithful
    <3>2. CASE j > Len(w)
      BY <1>6, <1>11, <2>1, <3>2
    <3> QED
      BY <1>13, <3>1, <3>2
  <2> QED
    BY <2>1, <2>2, <2>3 DEF Faithful
<1>24. ASSUME NoneMissing(Len(received), s, w, ps, cut), cut
       PROVE  NoneMissing(Len(received), t, v, ps, cut)
  <2> DEFINE c == Len(received)
  <2>0. c \in Nat /\ Len(new) = k
    BY <1>2, <1>4, <1>24
  <2> HIDE DEF c
  <2>1. c <= Len(s) /\ \A g \in ps : g.index < g.count - 1
    BY <1>24 DEF NoneMissing, c
  <2>2. ASSUME NEW i \in 1..Len(v) PROVE v[i].of > c
    <3>1. CASE i \in 1..Len(w) /\ v[i] = w[i]
      BY <1>24, <3>1 DEF NoneMissing, c
    <3>2. CASE i > Len(w)
      BY <1>6, <1>11, <2>0, <2>1, <3>2
    <3> QED
      BY <1>13, <3>1, <3>2
  <2>3. ASSUME NEW m \in (c + 1)..Len(t), NEW x \in 0..(PiecesOf(t[m], cut) - 1)
        PROVE  IsHeld(m, x, v, ps)
    <3>1. CASE m \in (c + 1)..Len(s)
      <4>1. t[m] = s[m]
        BY <1>6, <2>0, <3>1
      <4>2. IsHeld(m, x, w, ps)
        BY <1>24, <3>1, <4>1 DEF NoneMissing, c
      <4>3. ASSUME NEW i \in 1..Len(w), w[i].of = m, w[i].index = x
            PROVE  i \in 1..Len(v) /\ v[i].of = m /\ v[i].index = x
        BY <1>7, <4>3
      <4> QED
        BY <4>2, <4>3 DEF IsHeld
    <3>2. CASE m = Len(s) + 1
      <4>1. x \in 0..(k - 1)
        BY <1>6, <3>2 DEF k
      <4> DEFINE i == Len(w) + x + 1
      <4>2. i \in 1..Len(v) /\ i > Len(w) /\ i - Len(w) - 1 = x
        BY <1>3, <1>7, <2>0, <4>1
      <4> HIDE DEF i
      <4>3. v[i].of = m /\ v[i].index = x
        BY <1>11, <3>2, <4>2
      <4> QED
        BY <4>2, <4>3 DEF IsHeld
    <3> QED
      BY <1>6, <2>0, <3>1, <3>2
  <2>4. c <= Len(t)
    BY <1>6, <2>0, <2>1
  <2>5. NoneMissing(c, t, v, ps, cut)
    BY <2>1, <2>2, <2>3, <2>4 DEF NoneMissing
  <2> QED
    BY <2>5 DEF c
<1>25. Sharing'
  <2>1. Sharing' = /\ ps # {} => allowReassembly
                   /\ cut => nOutOverMtu' = 0
                   /\ losses = 0 /\ cut /\ allowReassembly =>
                        NoneMissing(Len(received), t, v, ps, cut)
    BY <1>4, <1>5 DEF Sharing, cut, ps
  <2>2. /\ ps # {} => allowReassembly
        /\ cut => nOutOverMtu = 0
        /\ losses = 0 /\ cut /\ allowReassembly => NoneMissing(Len(received), s, w, ps, cut)
    BY <1>1 DEF Sharing, cut, ps, s, w
  <2>3. cut => nOutOverMtu' = 0
    BY <1>5, <2>2 DEF cut
  <2> QED
    BY <1>24, <2>1, <2>2, <2>3
<1>26. /\ ArePieces(v, ps, t, cut) = ArePieces(wire, fragments, sent, allowFragmentation)'
       /\ InOrder(v, ps) = InOrder(wire, fragments)'
       /\ Numbered(v, ps, after) = Numbered(wire, fragments, lastSeqNo)'
       /\ Faithful(received, t, v) = Faithful(received, sent, wire)'
  BY <1>4, <1>5 DEF cut, ps
<1> QED
  BY <1>9, <1>14, <1>16, <1>22, <1>23, <1>25, <1>26 DEF PiecesInv

\* The front of the wire goes, and is kept or not: the rest stays in order.
LEMMA OneArrives ==
  ASSUME NEW w \in Seq(LinkFragment), w # <<>>, NEW ps, NEW s, NEW cut, NEW last \in Int,
         ArePieces(w, ps, s, cut), InOrder(w, ps), Numbered(w, ps, last),
         NEW qs, \A g \in qs : g \in ps \/ (g = w[1] /\ g.count > 1)
  PROVE  /\ ArePieces(Tail(w), qs, s, cut) /\ InOrder(Tail(w), qs) /\ Numbered(Tail(w), qs, last)
<1> DEFINE v == Tail(w)
<1>1. /\ Len(w) \in Nat /\ 1 \in 1..Len(w)
      /\ \A i \in 1..Len(v) : i + 1 \in 1..Len(w) /\ v[i] = w[i + 1] /\ i \in Nat /\ 1 < i + 1
  OBVIOUS
<1> HIDE DEF v
<1>2. \A i \in 1..Len(w) : /\ IsPieceOf(w[i], s, cut) /\ w[i].of \in Nat /\ w[i].index \in Nat
                           /\ IsNumbered(w[i], last)
  BY DEF ArePieces, IsPieceOf, LinkFragment, Numbered
<1>3. \A g \in ps : /\ IsPieceOf(g, s, cut) /\ g.of \in Nat /\ g.index \in Nat /\ g.count > 1
                    /\ IsNumbered(g, last)
  BY DEF ArePieces, IsPieceOf, LinkFragment, Numbered
<1>4. ArePieces(v, qs, s, cut)
  <2>1. \A i \in 1..Len(v) : IsPieceOf(v[i], s, cut)
    BY <1>1, <1>2
  <2>2. \A g \in qs : IsPieceOf(g, s, cut) /\ g.count > 1
    BY <1>1, <1>2, <1>3
  <2> QED
    BY <2>1, <2>2 DEF ArePieces
<1>5. InOrder(v, qs)
  <2>1. ASSUME NEW i \in 1..Len(v), NEW j \in 1..Len(v), i < j PROVE Before(v[i], v[j])
    <3>1. i + 1 < j + 1
      BY <1>1, <2>1
    <3> QED
      BY <1>1, <3>1 DEF InOrder
  <2>2. ASSUME NEW g \in qs, NEW i \in 1..Len(v) PROVE Before(g, v[i])
    BY <1>1 DEF InOrder
  <2>3. ASSUME NEW f \in qs, NEW g \in qs, f.of = g.of, f.index = g.index PROVE f = g
    <3>1. ASSUME NEW h \in ps PROVE ~ (h.of = w[1].of /\ h.index = w[1].index)
      <4>1. Before(h, w[1])
        BY <1>1 DEF InOrder
      <4> QED
        BY <1>1, <1>2, <1>3, <4>1 DEF Before
    <3>2. f \in ps /\ g \in ps => f = g
      BY <2>3 DEF InOrder
    <3> QED
      BY <2>3, <3>1, <3>2
  <2> QED
    BY <2>1, <2>2, <2>3 DEF InOrder
<1>6. Numbered(v, qs, last)
  <2>1. \A i \in 1..Len(w), j \in 1..Len(w) : NumbersApart(w[i], w[j])
    BY DEF Numbered
  <2>2. \A g \in ps, i \in 1..Len(w) : NumbersApart(g, w[i]) /\ NumbersApart(w[i], g)
    BY DEF Numbered, NumbersApart
  <2>3. \A f, g \in ps : NumbersApart(f, g)
    BY DEF Numbered
  <2>4. \A i \in 1..Len(v) : IsNumbered(v[i], last)
    BY <1>1, <1>2
  <2>5. \A g \in qs : IsNumbered(g, last)
    BY <1>1, <1>2, <1>3
  <2>6. \A i, j \in 1..Len(v) : NumbersApart(v[i], v[j])
    BY <1>1, <2>1
  <2>7. \A g \in qs, i \in 1..Len(v) : NumbersApart(g, v[i])
    BY <1>1, <2>1, <2>2
  <2>8. \A f, g \in qs : NumbersApart(f, g)
    BY <1>1, <2>1, <2>2, <2>3
  <2> QED
    BY <2>4, <2>5, <2>6, <2>7, <2>8 DEF Numbered
<1> QED
  BY <1>4, <1>5, <1>6 DEF v

\* Fragments are taken for one message if they are pieces of the same packet.
LEMMA MessageIs ==
  ASSUME NEW f, NEW g, NEW s, NEW cut, IsPieceOf(f, s, cut), IsPieceOf(g, s, cut),
         f.count > 1, g.count > 1, NumbersApart(f, g)
  PROVE  L!SameMessage(f, g) <=> f.of = g.of
<1>1. /\ f.seq \in Int /\ g.seq \in Int /\ f.index \in Nat /\ g.index \in Nat
      /\ f.count \in Nat /\ g.count \in Nat /\ f.of \in Nat /\ g.of \in Nat
  BY DEF IsPieceOf, LinkFragment
<1>2. CASE f.of = g.of
  <2>1. f.count = g.count
    BY <1>2 DEF IsPieceOf
  <2> QED
    BY <1>2, <2>1 DEF NumbersApart, FirstSeq, L!SameMessage
<1>3. CASE f.of # g.of
  <2>1. (f.of < g.of \/ g.of < f.of)
    BY <1>1, <1>3
  <2>2. FirstSeq(f) \in Int /\ FirstSeq(g) \in Int
    BY <1>1 DEF FirstSeq
  <2>3. FirstSeq(f) # FirstSeq(g)
    BY <1>1, <2>1, <2>2 DEF NumbersApart
  <2> QED
    BY <1>3, <2>3 DEF FirstSeq, L!SameMessage
<1> QED
  BY <1>2, <1>3

\* A set of pieces with indices of their own is complete if it has as many as there are.
LEMMA Completing ==
  ASSUME NEW M, IsFiniteSet(M), NEW k \in Nat, \A g \in M : g.index \in 0..(k - 1),
         \A f, g \in M : f.index = g.index => f = g
  PROVE  /\ Cardinality(M) \in Nat
         /\ (~ (Cardinality(M) < k)) <=> (\A x \in 0..(k - 1) : \E g \in M : g.index = x)
<1> DEFINE ix == [g \in M |-> g.index]
           I == 0..(k - 1)
<1>1. IsFiniteSet(I) /\ Cardinality(I) = k /\ Cardinality(M) \in Nat
  <2>1. k - 1 \in Int /\ (0 > k - 1 <=> k = 0)
    OBVIOUS
  <2>2. IsFiniteSet(I) /\ Cardinality(I) = IF 0 > k - 1 THEN 0 ELSE (k - 1) - 0 + 1
    BY <2>1, FS_Interval
  <2>3. Cardinality(M) \in Nat
    BY FS_CardinalityType
  <2> HIDE DEF I
  <2> QED
    BY <2>2, <2>3
<1>2. ix \in Injection(M, I)
  BY DEF Injection, IsInjective
<1>3. /\ Cardinality(M) <= Cardinality(I)
      /\ (Cardinality(M) = Cardinality(I)) <=> (ix \in Surjection(M, I))
  BY <1>1, <1>2, FS_Injection
<1>4. (ix \in Surjection(M, I)) <=> \A x \in I : \E g \in M : g.index = x
  BY DEF Surjection
<1> QED
  BY <1>1, <1>3, <1>4

\* What is passed on for a fragment.
ItemOf(f) == [of |-> f.of, packet |-> L!DecodeNetPacket(f)]

\* The tags that a packet gets from a piece are the ones it was sent with.
LEMMA TagsCarried ==
  ASSUME NEW f, NEW s \in Seq(Packets), NEW cut, IsPieceOf(f, s, cut)
  PROVE  IsFaithful(ItemOf(f), s) /\ ItemOf(f) \in LinkItem
<1> DEFINE p == s[f.of]
           pk == L!DecodeNetPacket(f)
<1>1. /\ f.of \in 1..Len(s) /\ f.of \in Nat /\ f.type = p.type /\ f.type \in PacketTypes
      /\ f.fields \in [L!Tags -> FieldValues]
      /\ \A t \in L!Tags \ {"mark"} : f.fields[t] = L!EncodeLpFields(p)[t]
  BY DEF IsPieceOf, LinkFragment
<1>2. L!Tags = {"hops", "path", "transient", "rsg", "mark", "pitToken"}
  BY DEF L!Tags
<1>3. \A t \in {"hops", "path", "transient", "rsg"} :
        f.fields[t] = IF p[t] = NoField THEN 0 ELSE p[t]
  BY <1>1, <1>2 DEF L!EncodeLpFields
<1>4. \A t \in L!Tags : /\ f.fields[t] \in FieldValues /\ f.fields[t] \in TagValues
                        /\ f.fields[t] + 1 \in TagValues
  BY <1>1 DEF TagValues
<1>5. ASSUME NEW tg \in [L!Tags -> TagValues], pk = [type |-> f.type, tags |-> tg],
             L!Carried(p, tg)
      PROVE  IsFaithful(ItemOf(f), s) /\ ItemOf(f) \in LinkItem
  <2> HIDE DEF pk
  <2>1. pk \in LinkPacket /\ pk.type = f.type /\ pk.tags = tg
    BY <1>1, <1>5 DEF LinkPacket
  <2>2. ItemOf(f) = [of |-> f.of, packet |-> pk]
    BY DEF ItemOf, pk
  <2> QED
    BY <1>1, <1>5, <2>1, <2>2 DEF IsFaithful, LinkItem
<1> HIDE DEF p
<1>6. CASE f.type = "Interest"
  <2> DEFINE tg == L!DecodeInterest(f)
  <2>1. pk = [type |-> f.type, tags |-> tg]
    BY <1>6, Zenon DEF L!DecodeNetPacket
  <2>2. /\ tg \in [L!Tags -> TagValues]
        /\ tg["hops"] = f.fields["hops"] + 1 /\ tg["rsg"] = f.fields["rsg"]
    BY <1>2, <1>4 DEF L!DecodeInterest, L!TagsTaken, TagValues
  <2> HIDE DEF pk, tg
  <2>3. L!Carried(p, tg)
    BY <1>1, <1>3, <1>6, <2>2 DEF L!Carried
  <2> QED
    BY <1>5, <2>1, <2>2, <2>3
<1>7. CASE f.type = "Data"
  <2> DEFINE tg == L!DecodeData(f)
  <2>1. pk = [type |-> f.type, tags |-> tg]
    BY <1>7 DEF L!DecodeNetPacket
  <2>2. /\ tg \in [L!Tags -> TagValues]
        /\ tg["hops"] = f.fields["hops"] + 1 /\ tg["rsg"] = f.fields["rsg"]
        /\ tg["path"] = f.fields["path"] /\ tg["transient"] = f.fields["transient"]
    BY <1>2, <1>4 DEF L!DecodeData, L!TagsTaken, TagValues
  <2> HIDE DEF pk, tg
  <2>3. L!Carried(p, tg)
    BY <1>1, <1>3, <1>7, <2>2 DEF L!Carried
  <2> QED
    BY <1>5, <2>1, <2>2, <2>3
<1>8. CASE f.type = "Nack"
  <2> DEFINE tg == L!DecodeNack(f)
  <2>1. pk = [type |-> f.type, tags |-> tg]
    BY <1>8 DEF L!DecodeNetPacket
  <2>2. tg \in [L!Tags -> TagValues]
    BY <1>2, <1>4 DEF L!DecodeNack, L!TagsTaken, TagValues
  <2> HIDE DEF pk, tg
  <2>3. L!Carried(p, tg)
    BY <1>1, <1>8 DEF L!Carried
  <2> QED
    BY <1>5, <2>1, <2>2, <2>3
<1> QED
  BY <1>1, <1>6, <1>7, <1>8 DEF PacketTypes

\* What is received of the message at the front comes before the rest of the wire.
LEMMA StaysFaithful ==
  ASSUME NEW w \in Seq(LinkFragment), w # <<>>, NEW s, NEW rs \in Seq(LinkItem),
         Faithful(rs, s, w)
  PROVE  /\ Faithful(rs, s, Tail(w))
         /\ \A r \in LinkItem :
              /\ IsFaithful(r, s) /\ r.of = w[1].of
              /\ \A i \in 1..Len(w) : i > 1 => w[i].of > r.of
              => Faithful(Append(rs, r), s, Tail(w))
<1> DEFINE v == Tail(w)
<1>1. /\ Len(w) \in Nat /\ 1 \in 1..Len(w)
      /\ \A i \in 1..Len(v) : i + 1 \in 1..Len(w) /\ v[i] = w[i + 1] /\ i \in Nat /\ i + 1 > 1
  OBVIOUS
<1> HIDE DEF v
<1>2. \A i \in 1..Len(rs) : rs[i].of \in Nat /\ IsFaithful(rs[i], s)
  <2>1. \A i \in 1..Len(rs) : rs[i] \in LinkItem
    OBVIOUS
  <2> QED
    BY <2>1 DEF Faithful, LinkItem
<1>3. Faithful(rs, s, v)
  BY <1>1 DEF Faithful
<1>4. ASSUME NEW r \in LinkItem, IsFaithful(r, s), r.of = w[1].of,
             \A i \in 1..Len(w) : i > 1 => w[i].of > r.of
      PROVE  Faithful(Append(rs, r), s, v)
  <2> DEFINE u == Append(rs, r)
  <2>1. /\ Len(rs) \in Nat /\ Len(u) = Len(rs) + 1 /\ u[Len(rs) + 1] = r
        /\ \A i \in 1..Len(rs) : u[i] = rs[i]
    OBVIOUS
  <2> HIDE DEF u
  <2>2. \A i \in 1..Len(rs) : rs[i].of < r.of
    BY <1>1, <1>4 DEF Faithful
  <2>3. \A i \in 1..Len(v) : r.of < v[i].of
    BY <1>1, <1>4, w \in Seq(LinkFragment) DEF LinkFragment
  <2>4. ASSUME NEW i \in 1..Len(u)
        PROVE  (i \in 1..Len(rs) /\ u[i] = rs[i]) \/ (i = Len(rs) + 1 /\ u[i] = r)
    BY <2>1
  <2>5. \A i \in 1..Len(u) : IsFaithful(u[i], s)
    BY <1>2, <1>4, <2>4
  <2>6. ASSUME NEW i \in 1..Len(u), NEW j \in 1..Len(u), j < i PROVE u[j].of < u[i].of
    <3>1. CASE i \in 1..Len(rs) /\ u[i] = rs[i]
      <4>1. j \in 1..Len(rs) /\ u[j] = rs[j]
        BY <2>1, <2>4, <2>6, <3>1
      <4> QED
        BY <2>6, <3>1, <4>1 DEF Faithful
    <3>2. CASE i = Len(rs) + 1 /\ u[i] = r
      <4>1. j \in 1..Len(rs) /\ u[j] = rs[j]
        BY <2>1, <2>4, <2>6, <3>2
      <4> QED
        BY <2>2, <3>2, <4>1
    <3> QED
      BY <2>4, <3>1, <3>2
  <2>7. ASSUME NEW i \in 1..Len(u), NEW j \in 1..Len(v) PROVE u[i].of < v[j].of
    <3>1. CASE i \in 1..Len(rs) /\ u[i] = rs[i]
      BY <1>3, <3>1 DEF Faithful
    <3>2. CASE i = Len(rs) + 1 /\ u[i] = r
      BY <2>3, <3>2
    <3> QED
      BY <2>4, <3>1, <3>2
  <2>8. Faithful(u, s, v)
    BY <2>5, <2>6, <2>7 DEF Faithful
  <2> QED
    BY <2>8 DEF u
<1> QED
  BY <1>3, <1>4 DEF v

\* If nothing is missing, the piece at the front is of the next packet to be received.
LEMMA FrontIsNext ==
  ASSUME L!LinkServiceAssumption, allowFragmentation \in BOOLEAN,
         NEW w \in Seq(LinkFragment), w # <<>>, NEW ps, NEW s \in Seq(Packets), NEW c \in Nat,
         ArePieces(w, ps, s, allowFragmentation), InOrder(w, ps),
         NoneMissing(c, s, w, ps, allowFragmentation)
  PROVE  /\ w[1].of = c + 1
         /\ \A g \in ps : g.of = c + 1 => g.index < w[1].count - 1
         /\ w[1].index = w[1].count - 1 =>
              \A x \in 0..(w[1].count - 2) : \E g \in ps : g.of = c + 1 /\ g.index = x
<1> DEFINE cut == allowFragmentation
           k == PiecesOf(s[c + 1], cut)
<1>1. /\ Len(w) \in Nat /\ 1 \in 1..Len(w) /\ Len(s) \in Nat
  OBVIOUS
<1>2. \A i \in 1..Len(w) : /\ w[i].of \in 1..Len(s) /\ w[i].count = PiecesOf(s[w[i].of], cut)
                           /\ w[i].index \in Nat /\ w[i].of \in Nat
  BY DEF ArePieces, IsPieceOf, LinkFragment
<1>3. \A g \in ps : g.of \in 1..Len(s) /\ g.count = PiecesOf(s[g.of], cut)
  BY DEF ArePieces, IsPieceOf
<1>4. /\ \A i \in 1..Len(w) : w[i].of > c
      /\ \A g \in ps : g.index < g.count - 1
      /\ \A m \in (c + 1)..Len(s) : \A x \in 0..(PiecesOf(s[m], cut) - 1) : IsHeld(m, x, w, ps)
  BY DEF NoneMissing
<1>5. c + 1 \in 1..Len(s) /\ c + 1 \in (c + 1)..Len(s) /\ s[c + 1] \in Packets
  BY <1>1, <1>2, <1>4
<1>6. k \in Nat /\ k > 0
  BY <1>5, Pieces
<1> HIDE DEF k, cut
<1>7. \A x \in 0..(k - 1) : IsHeld(c + 1, x, w, ps)
  BY <1>4, <1>5 DEF k
<1>8. \A g \in ps : g.of = c + 1 => g.index < k - 1
  BY <1>3, <1>4 DEF k
<1>9. PICK i \in 1..Len(w) : w[i].of = c + 1 /\ w[i].index = k - 1
  <2>1. k - 1 \in 0..(k - 1)
    BY <1>6
  <2>2. IsHeld(c + 1, k - 1, w, ps)
    BY <1>7, <2>1
  <2>3. ~ \E g \in ps : g.of = c + 1 /\ g.index = k - 1
    BY <1>6, <1>8
  <2> QED
    BY <2>2, <2>3 DEF IsHeld
<1>10. \A j \in 1..Len(w) : j # 1 => Before(w[1], w[j])
  BY <1>1 DEF InOrder
<1>11. w[1].of = c + 1
  <2>1. w[1].of <= c + 1
    BY <1>1, <1>2, <1>5, <1>9, <1>10 DEF Before
  <2>2. w[1].of > c
    BY <1>1, <1>4
  <2> QED
    BY <1>1, <1>2, <2>1, <2>2
<1>12. w[1].count = k
  BY <1>1, <1>2, <1>11 DEF k
<1>13. ASSUME w[1].index = k - 1, NEW x \in 0..(k - 2)
       PROVE  \E g \in ps : g.of = c + 1 /\ g.index = x
  <2>1. x \in 0..(k - 1) /\ x < k - 1
    BY <1>6
  <2>2. IsHeld(c + 1, x, w, ps)
    BY <1>7, <2>1
  <2>3. ASSUME NEW j \in 1..Len(w), w[j].of = c + 1, w[j].index = x PROVE FALSE
    <3>1. j # 1
      BY <1>13, <2>1, <2>3
    <3>2. Before(w[1], w[j])
      BY <1>10, <3>1
    <3> QED
      BY <1>6, <1>11, <1>13, <2>1, <2>3, <3>2 DEF Before
  <2> QED
    BY <2>2, <2>3 DEF IsHeld
<1> QED
  BY <1>8, <1>11, <1>12, <1>13

\* The last piece of a packet arrives, and its pieces are taken together.
LEMMA LastArrives ==
  ASSUME NEW w \in Seq(LinkFragment), w # <<>>, NEW ps, NEW s \in Seq(Packets), NEW c \in Nat,
         NEW cut, NoneMissing(c, s, w, ps, cut), w[1].of = c + 1, w[1].of \in 1..Len(s),
         \A i \in 1..Len(w) : i > 1 => w[i].of > c + 1,
         NEW qs, qs \subseteq ps, \A g \in ps : g.of # c + 1 => g \in qs
  PROVE  NoneMissing(c + 1, s, Tail(w), qs, cut)
<1> DEFINE v == Tail(w)
<1>1. /\ Len(w) \in Nat /\ Len(s) \in Nat /\ 1 \in 1..Len(w)
      /\ \A i \in 1..Len(v) : i + 1 \in 1..Len(w) /\ v[i] = w[i + 1] /\ i + 1 > 1
      /\ \A i \in 1..Len(w) : i # 1 => i - 1 \in 1..Len(v) /\ v[i - 1] = w[i]
  OBVIOUS
<1> HIDE DEF v
<1>2. \A g \in ps : g.index < g.count - 1
  BY DEF NoneMissing
<1>3. ASSUME NEW m \in ((c + 1) + 1)..Len(s), NEW x \in 0..(PiecesOf(s[m], cut) - 1)
      PROVE  IsHeld(m, x, v, qs)
  <2>1. m \in (c + 1)..Len(s) /\ m # c + 1
    BY <1>1
  <2>2. IsHeld(m, x, w, ps)
    BY <2>1 DEF NoneMissing
  <2>3. ASSUME NEW i \in 1..Len(w), w[i].of = m, w[i].index = x PROVE IsHeld(m, x, v, qs)
    <3>1. i # 1
      BY <2>1, <2>3
    <3>2. i - 1 \in 1..Len(v) /\ v[i - 1].of = m /\ v[i - 1].index = x
      BY <1>1, <2>3, <3>1
    <3> QED
      BY <3>2 DEF IsHeld
  <2>4. ASSUME NEW g \in ps, g.of = m, g.index = x PROVE IsHeld(m, x, v, qs)
    BY <2>1, <2>4 DEF IsHeld
  <2> QED
    BY <2>2, <2>3, <2>4 DEF IsHeld
<1>4. NoneMissing(c + 1, s, v, qs, cut)
  BY <1>1, <1>2, <1>3 DEF NoneMissing
<1> QED
  BY <1>4 DEF v

\* A piece that is not the last of its packet arrives and is kept.
LEMMA PieceKept ==
  ASSUME NEW w \in Seq(LinkFragment), w # <<>>, NEW ps, NEW s, NEW c \in Nat, NEW cut,
         NoneMissing(c, s, w, ps, cut), w[1].index < w[1].count - 1
  PROVE  NoneMissing(c, s, Tail(w), ps \cup {w[1]}, cut)
<1> DEFINE v == Tail(w)
           qs == ps \cup {w[1]}
<1>1. /\ Len(w) \in Nat /\ 1 \in 1..Len(w)
      /\ \A i \in 1..Len(v) : i + 1 \in 1..Len(w) /\ v[i] = w[i + 1]
      /\ \A i \in 1..Len(w) : i # 1 => i - 1 \in 1..Len(v) /\ v[i - 1] = w[i]
  OBVIOUS
<1> HIDE DEF v
<1>2. \A g \in qs : g.index < g.count - 1
  BY DEF NoneMissing
<1>3. ASSUME NEW m \in (c + 1)..Len(s), NEW x \in 0..(PiecesOf(s[m], cut) - 1)
      PROVE  IsHeld(m, x, v, qs)
  <2>1. IsHeld(m, x, w, ps)
    BY DEF NoneMissing
  <2>2. ASSUME NEW i \in 1..Len(w), w[i].of = m, w[i].index = x PROVE IsHeld(m, x, v, qs)
    <3>1. CASE i = 1
      <4>1. w[1] \in qs /\ w[1].of = m /\ w[1].index = x
        BY <2>2, <3>1
      <4> QED
        BY <4>1 DEF IsHeld
    <3>2. CASE i # 1
      BY <1>1, <2>2, <3>2 DEF IsHeld
    <3> QED
      BY <3>1, <3>2
  <2>3. ASSUME NEW g \in ps, g.of = m, g.index = x PROVE IsHeld(m, x, v, qs)
    BY <2>3 DEF IsHeld
  <2> QED
    BY <2>1, <2>2, <2>3 DEF IsHeld
<1> HIDE DEF qs
<1>4. NoneMissing(c, s, v, qs, cut)
  BY <1>1, <1>2, <1>3 DEF NoneMissing
<1> QED
  BY <1>4 DEF v, qs

\* The pieces that come together with the one at the front.
FrontMessage == {wire[1]} \cup {g \in fragments : L!SameMessage(wire[1], g)}

LEMMA FrontMessageIs ==
  ASSUME PiecesInv, wire # <<>>, wire[1].count > 1
  PROVE  /\ FrontMessage = {wire[1]} \cup {g \in fragments : g.of = wire[1].of}
         /\ \A g \in FrontMessage : /\ IsPieceOf(g, sent, allowFragmentation)
                                    /\ g.of = wire[1].of /\ g.index \in 0..(wire[1].count - 1)
         /\ ~ (L!Cardinality(FrontMessage) < wire[1].count) =>
              /\ \A x \in 0..(wire[1].count - 1) : \E g \in FrontMessage : g.index = x
              /\ wire[1].index = wire[1].count - 1
         /\ (\A x \in 0..(wire[1].count - 1) : \E g \in FrontMessage : g.index = x) =>
              ~ (L!Cardinality(FrontMessage) < wire[1].count)
<1> DEFINE f == wire[1]
           M == FrontMessage
           cut == allowFragmentation
<1>1. /\ wire \in Seq(LinkFragment) /\ 1 \in 1..Len(wire) /\ fragments \subseteq LinkFragment
      /\ IsFiniteSet(fragments)
  BY DEF PiecesInv, LinkTypes
<1>2. /\ ArePieces(wire, fragments, sent, cut) /\ InOrder(wire, fragments)
      /\ Numbered(wire, fragments, lastSeqNo)
  BY DEF PiecesInv
<1>3. /\ IsPieceOf(f, sent, cut) /\ f.index \in Nat /\ f.count \in Nat /\ f.of \in Nat
      /\ f.index < f.count /\ f.count = PiecesOf(sent[f.of], cut)
  BY <1>1, <1>2 DEF ArePieces, IsPieceOf, LinkFragment
<1>4. \A g \in fragments : /\ IsPieceOf(g, sent, cut) /\ g.index \in Nat /\ g.of \in Nat
                           /\ g.count > 1 /\ g.count = PiecesOf(sent[g.of], cut)
                           /\ g.index < g.count
                           /\ Before(g, f) /\ NumbersApart(f, g)
  BY <1>1, <1>2 DEF ArePieces, IsPieceOf, LinkFragment, InOrder, Numbered, NumbersApart
<1> HIDE DEF f, cut
<1>5. f.count > 1
  BY DEF f
<1>6. \A g \in fragments : L!SameMessage(f, g) <=> g.of = f.of
  <2> TAKE g \in fragments
  <2>1. L!SameMessage(f, g) <=> f.of = g.of
    BY <1>3, <1>4, <1>5, MessageIs
  <2> QED
    BY <2>1
<1>7. M = {f} \cup {g \in fragments : g.of = f.of}
  BY <1>6 DEF FrontMessage, f
<1> HIDE DEF M
<1>8. \A g \in M : g = f \/ (g \in fragments /\ g.of = f.of)
  BY <1>7
<1>9. \A g \in M : IsPieceOf(g, sent, cut) /\ g.of = f.of /\ g.index \in 0..(f.count - 1)
  BY <1>3, <1>4, <1>8
<1>10. IsFiniteSet(M)
  <2>1. IsFiniteSet({g \in fragments : g.of = f.of})
    BY <1>1, FS_Subset
  <2> QED
    BY <1>7, <2>1, FS_Singleton, FS_Union
<1>11. ASSUME NEW g \in M, NEW h \in M, g.index = h.index PROVE g = h
  <2>1. ASSUME NEW x \in fragments, x.of = f.of PROVE x.index < f.index
    BY <1>3, <1>4, <2>1 DEF Before
  <2>2. g \in fragments /\ h \in fragments /\ g.of = h.of => g = h
    BY <1>2, <1>11 DEF InOrder
  <2> QED
    BY <1>3, <1>4, <1>8, <1>11, <2>1, <2>2
<1>12. (~ (Cardinality(M) < f.count)) <=> (\A x \in 0..(f.count - 1) : \E g \in M : g.index = x)
  <2>1. \A g \in M : g.index \in 0..(f.count - 1)
    BY <1>9
  <2>2. \A g, h \in M : g.index = h.index => g = h
    BY <1>11
  <2> QED
    BY <1>3, <1>10, <2>1, <2>2, Completing
<1>13. L!Cardinality(M) = Cardinality(M)
  BY LinkSizes
<1>14. ASSUME \A x \in 0..(f.count - 1) : \E g \in M : g.index = x PROVE f.index = f.count - 1
  <2>1. f.count - 1 \in 0..(f.count - 1)
    BY <1>3
  <2>2. PICK g \in M : g.index = f.count - 1
    BY <1>14, <2>1
  <2>3. CASE g = f
    BY <2>2, <2>3
  <2>4. CASE g \in fragments /\ g.of = f.of
    <3>1. g.index < f.index
      BY <1>3, <1>4, <2>4 DEF Before
    <3> QED
      BY <1>3, <2>2, <3>1
  <2> QED
    BY <1>8, <2>3, <2>4
<1> QED
  BY <1>7, <1>9, <1>12, <1>13, <1>14 DEF f, M, cut

\* Nothing of a message comes after its last piece.
LEMMA OthersLater ==
  ASSUME PiecesInv, wire # <<>>, wire[1].index = wire[1].count - 1
  PROVE  \A i \in 1..Len(wire) : i > 1 => wire[i].of > wire[1].of
<1>1. /\ wire \in Seq(LinkFragment) /\ 1 \in 1..Len(wire)
      /\ ArePieces(wire, fragments, sent, allowFragmentation) /\ InOrder(wire, fragments)
  BY DEF PiecesInv, LinkTypes
<1>2. \A i \in 1..Len(wire) : /\ wire[i].index \in Nat /\ wire[i].of \in Nat
                              /\ wire[i].count \in Nat
                              /\ wire[i].count = PiecesOf(sent[wire[i].of], allowFragmentation)
                              /\ wire[i].index < wire[i].count
  BY <1>1 DEF ArePieces, IsPieceOf, LinkFragment
<1> SUFFICES ASSUME NEW i \in 1..Len(wire), i > 1 PROVE wire[i].of > wire[1].of
  OBVIOUS
<1>3. Before(wire[1], wire[i])
  BY <1>1 DEF InOrder
<1>4. wire[i].of = wire[1].of => wire[i].count = wire[1].count
  BY <1>1, <1>2
<1>5. wire[i].of = wire[1].of => ~ (wire[1].index < wire[i].index)
  BY <1>1, <1>2, <1>4
<1> QED
  BY <1>1, <1>2, <1>3, <1>5 DEF Before

\* Whether the piece at the front is lost, passed on or kept, what is left is as it was.
LEMMA RestKeeps ==
  ASSUME PiecesInv, wire # <<>>, wire' = Tail(wire), losses' \in 0..MaxLosses,
         UNCHANGED <<allowFragmentation, allowReassembly, lastSeqNo, lnow, nOutOverMtu, sent>>,
         IsFiniteSet(fragments'),
         \A g \in fragments' : g \in fragments \/ (g = wire[1] /\ g.count > 1),
         received' \in Seq(LinkItem), Faithful(received', sent, Tail(wire)),
         fragments' # {} => allowReassembly,
         losses' = 0 /\ allowFragmentation /\ allowReassembly =>
           NoneMissing(Len(received'), sent, Tail(wire), fragments', allowFragmentation)
  PROVE  PiecesInv'
<1>1. LinkTypes /\ Sharing
  BY DEF PiecesInv
<1>2. /\ wire \in Seq(LinkFragment) /\ 1 \in 1..Len(wire) /\ wire[1] \in LinkFragment
      /\ Tail(wire) \in Seq(LinkFragment) /\ lastSeqNo \in Int
  BY <1>1 DEF LinkTypes
<1>3. fragments' \subseteq LinkFragment
  BY <1>1, <1>2 DEF LinkTypes
<1>4. LinkTypes'
  BY <1>1, <1>2, <1>3 DEF LinkTypes
<1>5. /\ ArePieces(Tail(wire), fragments', sent, allowFragmentation)
      /\ InOrder(Tail(wire), fragments') /\ Numbered(Tail(wire), fragments', lastSeqNo)
  BY <1>2, OneArrives DEF PiecesInv
<1>6. Sharing'
  BY <1>1 DEF Sharing
<1>7. /\ ArePieces(wire, fragments, sent, allowFragmentation)' /\ InOrder(wire, fragments)'
      /\ Numbered(wire, fragments, lastSeqNo)' /\ Faithful(received, sent, wire)'
  BY <1>5
<1> QED
  BY <1>4, <1>6, <1>7 DEF PiecesInv

LEMMA ReceiveKeeps ==
  ASSUME L!LinkServiceAssumption, PiecesInv, L!ReceivePacket
  PROVE  PiecesInv'
<1> DEFINE f == wire[1]
           M == FrontMessage
           w == wire
           v == Tail(wire)
           cut == allowFragmentation
           c == Len(received)
           first == CHOOSE g \in M : g.index = 0
<1>1. /\ w # <<>> /\ w \in Seq(LinkFragment) /\ 1 \in 1..Len(w) /\ Head(w) = f
      /\ fragments \subseteq LinkFragment /\ IsFiniteSet(fragments) /\ losses \in 0..MaxLosses
      /\ received \in Seq(LinkItem) /\ sent \in Seq(Packets) /\ cut \in BOOLEAN /\ c \in Nat
  BY DEF PiecesInv, LinkTypes, L!ReceivePacket
<1>2. /\ wire' = v
      /\ UNCHANGED <<allowFragmentation, allowReassembly, lastSeqNo, lnow, nOutOverMtu, sent,
                     losses>>
  BY DEF L!ReceivePacket
<1>3. \/ f.count = 1 /\ received' = Append(received, ItemOf(f)) /\ fragments' = fragments
      \/ f.count # 1 /\ ~ allowReassembly /\ received' = received /\ fragments' = fragments
      \/ /\ f.count # 1 /\ allowReassembly /\ L!Cardinality(M) < f.count
         /\ received' = received /\ fragments' = fragments \cup {f}
      \/ /\ f.count # 1 /\ allowReassembly /\ ~ (L!Cardinality(M) < f.count)
         /\ received' = Append(received, ItemOf(first)) /\ fragments' = fragments \ M
  BY <1>1 DEF L!ReceivePacket, L!Passed, ItemOf, FrontMessage
<1>4. /\ ArePieces(w, fragments, sent, cut) /\ InOrder(w, fragments) /\ Faithful(received, sent, w)
      /\ fragments # {} => allowReassembly
      /\ losses = 0 /\ cut /\ allowReassembly => NoneMissing(c, sent, w, fragments, cut)
  BY DEF PiecesInv, Sharing
<1>5. /\ IsPieceOf(f, sent, cut) /\ f.of \in 1..Len(sent) /\ f.index \in Nat /\ f.count \in Nat
      /\ f.of \in Nat /\ f.index < f.count
  BY <1>1, <1>4 DEF ArePieces, IsPieceOf, LinkFragment
<1>6. Faithful(received, sent, v)
  BY <1>1, <1>4, StaysFaithful
<1>7. ASSUME NEW g, IsPieceOf(g, sent, cut), g.of = f.of, f.index = f.count - 1
      PROVE  /\ Append(received, ItemOf(g)) \in Seq(LinkItem)
             /\ Faithful(Append(received, ItemOf(g)), sent, v)
             /\ Len(Append(received, ItemOf(g))) = c + 1
  <2>1. IsFaithful(ItemOf(g), sent) /\ ItemOf(g) \in LinkItem /\ ItemOf(g).of = f.of
    BY <1>1, <1>7, TagsCarried DEF ItemOf
  <2>2. \A i \in 1..Len(w) : i > 1 => w[i].of > f.of
    BY <1>1, <1>7, OthersLater
  <2> HIDE DEF f, w, v
  <2>3. Faithful(Append(received, ItemOf(g)), sent, v)
    BY <1>1, <1>4, <2>1, <2>2, StaysFaithful DEF f, v, w
  <2> QED
    BY <1>1, <2>1, <2>3
<1>8. ASSUME f.index = f.count - 1, NEW qs, qs \subseteq fragments,
             \A g \in fragments : g.of # f.of => g \in qs, NoneMissing(c, sent, w, fragments, cut)
      PROVE  NoneMissing(c + 1, sent, v, qs, cut)
  <2>1. f.of = c + 1
    BY <1>1, <1>4, <1>8, FrontIsNext
  <2>2. \A i \in 1..Len(w) : i > 1 => w[i].of > c + 1
    BY <1>1, <1>8, <2>1, OthersLater
  <2> QED
    BY <1>1, <1>5, <1>8, <2>1, <2>2, LastArrives
<1> HIDE DEF f, M, v, c, first, w, cut
<1>9. CASE f.count = 1 /\ received' = Append(received, ItemOf(f)) /\ fragments' = fragments
  <2>1. f.index = f.count - 1
    BY <1>5, <1>9
  <2>2. /\ received' \in Seq(LinkItem) /\ Faithful(received', sent, v) /\ Len(received') = c + 1
    BY <1>5, <1>7, <1>9, <2>1
  <2>3. losses = 0 /\ cut /\ allowReassembly => NoneMissing(c + 1, sent, v, fragments, cut)
    BY <1>4, <1>8, <2>1
  <2> QED
    BY <1>1, <1>2, <1>4, <1>9, <2>2, <2>3, RestKeeps DEF v, cut, w
<1>10. CASE f.count # 1 /\ ~ allowReassembly /\ received' = received /\ fragments' = fragments
  BY <1>1, <1>2, <1>4, <1>6, <1>10, RestKeeps DEF v, cut, w
<1>11. CASE /\ f.count # 1 /\ allowReassembly /\ L!Cardinality(M) < f.count
            /\ received' = received /\ fragments' = fragments \cup {f}
  <2>1. f.count > 1
    BY <1>5, <1>11
  <2>2. IsFiniteSet(fragments')
    BY <1>1, <1>11, FS_AddElement
  <2>3. ASSUME NoneMissing(c, sent, w, fragments, cut) PROVE f.index < f.count - 1
    <3> SUFFICES ASSUME f.index = f.count - 1 PROVE FALSE
      BY <1>5
    <3>1. \A x \in 0..(f.count - 2) : \E g \in fragments : g.of = c + 1 /\ g.index = x
      BY <1>1, <1>4, <2>3, FrontIsNext DEF f, cut
    <3>2. f.of = c + 1
      BY <1>1, <1>4, <2>3, FrontIsNext DEF f, cut
    <3>3. M = {f} \cup {g \in fragments : g.of = f.of}
      BY <1>1, <2>1, FrontMessageIs DEF f, M, w
    <3>4. ASSUME NEW x \in 0..(f.count - 1) PROVE \E g \in M : g.index = x
      <4>1. CASE x = f.count - 1
        BY <3>3, <4>1
      <4>2. CASE x # f.count - 1
        <5>1. x \in 0..(f.count - 2)
          BY <1>5, <4>2
        <5> QED
          BY <3>1, <3>2, <3>3, <5>1
      <4> QED
        BY <4>1, <4>2
    <3> QED
      BY <1>1, <1>11, <2>1, <3>4, FrontMessageIs DEF f, M, w
  <2>4. losses = 0 /\ cut /\ allowReassembly => NoneMissing(c, sent, v, fragments \cup {f}, cut)
    BY <1>1, <1>4, <2>3, PieceKept DEF f, v, w
  <2>5. \A g \in fragments' : g \in fragments \/ (g = f /\ g.count > 1)
    BY <1>11, <2>1
  <2> QED
    BY <1>1, <1>2, <1>6, <1>11, <2>2, <2>4, <2>5, RestKeeps DEF v, cut, w, f, c
<1>12. CASE /\ f.count # 1 /\ allowReassembly /\ ~ (L!Cardinality(M) < f.count)
            /\ received' = Append(received, ItemOf(first)) /\ fragments' = fragments \ M
  <2>1. f.count > 1
    BY <1>5, <1>12
  <2>2. /\ M = {f} \cup {g \in fragments : g.of = f.of}
        /\ \A g \in M : IsPieceOf(g, sent, cut) /\ g.of = f.of
        /\ \A x \in 0..(f.count - 1) : \E g \in M : g.index = x
        /\ f.index = f.count - 1
    BY <1>1, <1>12, <2>1, FrontMessageIs DEF f, M, w, cut
  <2>3. first \in M /\ IsPieceOf(first, sent, cut) /\ first.of = f.of
    <3>1. 0 \in 0..(f.count - 1)
      BY <2>1, <1>5
    <3>2. \E g \in M : g.index = 0
      BY <2>2, <3>1
    <3> QED
      BY <2>2, <3>2 DEF first
  <2>4. /\ received' \in Seq(LinkItem) /\ Faithful(received', sent, v) /\ Len(received') = c + 1
    BY <1>7, <1>12, <2>2, <2>3
  <2>5. losses = 0 /\ cut /\ allowReassembly => NoneMissing(c + 1, sent, v, fragments', cut)
    <3>1. fragments' \subseteq fragments /\ \A g \in fragments : g.of # f.of => g \in fragments'
      BY <1>12, <2>2
    <3> QED
      BY <1>4, <1>8, <2>2, <3>1
  <2>6. IsFiniteSet(fragments')
    BY <1>1, <1>12, FS_Subset
  <2>7. \A g \in fragments' : g \in fragments
    BY <1>12
  <2> QED
    BY <1>1, <1>2, <1>12, <2>4, <2>5, <2>6, <2>7, RestKeeps DEF v, cut, w
<1> QED
  BY <1>3, <1>9, <1>10, <1>11, <1>12

LEMMA LoseKeeps ==
  ASSUME L!LinkServiceAssumption, PiecesInv, L!Lose
  PROVE  PiecesInv'
<1>1. /\ wire # <<>> /\ wire' = Tail(wire) /\ losses' = losses + 1 /\ losses < MaxLosses
      /\ UNCHANGED <<allowFragmentation, allowReassembly, lastSeqNo, lnow, nOutOverMtu, sent>>
      /\ received' = received /\ fragments' = fragments
  BY DEF L!Lose
<1>2. /\ wire \in Seq(LinkFragment) /\ received \in Seq(LinkItem) /\ IsFiniteSet(fragments)
      /\ losses \in 0..MaxLosses /\ MaxLosses \in Nat /\ Faithful(received, sent, wire)
      /\ fragments # {} => allowReassembly
  BY LinkConstants DEF PiecesInv, LinkTypes, Sharing
<1>3. Faithful(received, sent, Tail(wire))
  BY <1>1, <1>2, StaysFaithful
<1>4. losses' \in 0..MaxLosses /\ losses' # 0
  BY <1>1, <1>2
<1> QED
  BY <1>1, <1>2, <1>3, <1>4, RestKeeps

LEMMA TimeoutKeeps ==
  ASSUME PiecesInv, L!Timeout
  PROVE  PiecesInv'
<1>1. /\ fragments' \subseteq fragments /\ losses > 0
      /\ UNCHANGED <<allowFragmentation, allowReassembly, lastSeqNo, wire, lnow, nOutOverMtu, sent,
                     received, losses>>
  BY DEF L!Timeout
<1>2. LinkTypes'
  <2>1. IsFiniteSet(fragments')
    BY <1>1, FS_Subset DEF PiecesInv, LinkTypes
  <2>2. LinkTypes
    BY DEF PiecesInv
  <2> QED
    BY <1>1, <2>1, <2>2 DEF LinkTypes
<1>3. /\ ArePieces(wire, fragments', sent, allowFragmentation)
      /\ InOrder(wire, fragments') /\ Numbered(wire, fragments', lastSeqNo)
  BY <1>1 DEF PiecesInv, ArePieces, InOrder, Numbered
<1>4. Sharing'
  BY <1>1 DEF PiecesInv, Sharing
<1>5. /\ ArePieces(wire, fragments, sent, allowFragmentation)' /\ InOrder(wire, fragments)'
      /\ Numbered(wire, fragments, lastSeqNo)' /\ Faithful(received, sent, wire)'
  BY <1>1, <1>3 DEF PiecesInv
<1> QED
  BY <1>2, <1>4, <1>5 DEF PiecesInv

\* The marks of a congestion are due as long as it lasts.
MarkedInv == lnow \in Nat /\ Earned(CongestionState, longSince, lnow)

LEMMA SendMarked ==
  ASSUME L!LinkServiceAssumption, PiecesInv, MarkedInv, NEW p \in Packets,
         NEW long \in [DOMAIN L!SizesOf(p) -> BOOLEAN], L!Send(p, long)
  PROVE  PiecesInv' /\ MarkedInv'
<1> DEFINE k == PiecesOf(p, allowFragmentation)
<1>1. LinkTypes /\ allowFragmentation \in BOOLEAN /\ lnow \in Nat
  BY DEF PiecesInv, LinkTypes
<1>2. k \in Nat /\ k > 0 /\ DOMAIN L!SizesOf(p) = 1..k /\ Len(L!SizesOf(p)) = k
  BY <1>1, Pieces
<1>3. \A i \in 1..k : long[i] \in BOOLEAN
  BY <1>2
<1> HIDE DEF k
<1>4. PICK marked : SentMarked(p, k, long, marked)
  BY <1>2, SendMarks
<1>5. MarksFrom(marked, k, CongestionState, long)
  BY <1>4 DEF SentMarked
<1>6. \A i \in 0..k : Earned(marked[i], SinceAt(long, i), lnow)
  BY <1>2, <1>3, <1>5, AllChecked DEF MarkedInv
<1>7. \A i \in 1..k : marked[i].set \in BOOLEAN
  <2> TAKE i \in 1..k
  <2>1. Earned(marked[i], SinceAt(long, i), lnow)
    BY <1>2, <1>6
  <2> QED
    BY <2>1 DEF Earned, MarkStates
<1>8. (\E new : SentAs(p, new)) /\ SentOther(p)
  BY <1>1, <1>4, <1>7, Sending DEF k
<1>9. PiecesInv'
  BY <1>8, SendKeeps
<1>10. longSince' = SinceAt(long, k) /\ lnow' = lnow
  <2>1. longSince' = IF ~ long[k] THEN L!Never
                     ELSE IF longSince # L!Never /\ \A i \in 1..k : long[i] THEN longSince ELSE lnow
    BY <1>2 DEF L!Send
  <2>2. lnow' = lnow
    BY DEF L!Send
  <2> QED
    BY <1>2, <2>1, <2>2 DEF SinceAt
<1>11. nextMarkTime' = marked[k].next /\ nMarked' = marked[k].count
  BY <1>4 DEF SentMarked
<1>12. Earned([next |-> marked[k].next, count |-> marked[k].count, set |-> FALSE],
              SinceAt(long, k), lnow)
  <2>1. Earned(marked[k], SinceAt(long, k), lnow)
    BY <1>2, <1>6
  <2> QED
    BY <2>1 DEF Earned, MarkStates
<1>13. CongestionState' = [next |-> marked[k].next, count |-> marked[k].count, set |-> FALSE]
  BY <1>11 DEF CongestionState
<1>14. Earned(CongestionState, longSince, lnow)'
  BY <1>10, <1>12, <1>13
<1> QED
  BY <1>1, <1>9, <1>10, <1>14 DEF MarkedInv

LEMMA TickKeeps ==
  ASSUME L!LinkServiceAssumption, PiecesInv, MarkedInv, L!Tick
  PROVE  PiecesInv' /\ MarkedInv'
<1>1. /\ lnow' = lnow + 1 /\ lnow \in Nat /\ lnow' \in Nat
      /\ UNCHANGED <<allowFragmentation, allowReassembly, lastSeqNo, nextMarkTime, nMarked, wire,
                     fragments, nOutOverMtu, sent, received, longSince, losses>>
  BY DEF L!Tick, MarkedInv
<1>2. PiecesInv'
  BY <1>1 DEF PiecesInv, LinkTypes, Sharing
<1>3. CongestionState' = CongestionState /\ longSince' = longSince
  BY <1>1 DEF CongestionState
<1>4. Earned(CongestionState, longSince, lnow + 1)
  <2> DEFINE m == CongestionState
  <2> HIDE DEF m
  <2>1. Earned(m, longSince, lnow)
    BY DEF MarkedInv, m
  <2>2. m.next \in Int /\ m.count \in Nat
    BY <2>1 DEF Earned, MarkStates, L!Never
  <2>3. L!Interval(m.count) \in Nat
    BY <2>2, IntervalIs
  <2>4. m.count > 0 => lnow + 1 >= m.next - L!Interval(m.count)
    BY <1>1, <2>1, <2>2, <2>3 DEF Earned
  <2> QED
    BY <2>1, <2>4 DEF Earned, m
<1> QED
  BY <1>1, <1>2, <1>3, <1>4 DEF MarkedInv

LEMMA LinkStep ==
  ASSUME L!LinkServiceAssumption, PiecesInv, MarkedInv, [L!Next]_(L!linkVars)
  PROVE  PiecesInv' /\ MarkedInv'
<1>1. CASE UNCHANGED L!linkVars
  BY <1>1 DEF L!linkVars, PiecesInv, LinkTypes, Sharing, MarkedInv, CongestionState
<1>2. ASSUME NEW p \in Packets, NEW long \in [DOMAIN L!SizesOf(p) -> BOOLEAN], L!Send(p, long)
      PROVE  PiecesInv' /\ MarkedInv'
  BY <1>2, SendMarked
<1>3. ASSUME UNCHANGED <<nextMarkTime, nMarked, lnow, longSince>> PROVE MarkedInv'
  BY <1>3 DEF MarkedInv, CongestionState
<1>4. CASE L!ReceivePacket
  BY <1>3, <1>4, ReceiveKeeps DEF L!ReceivePacket
<1>5. CASE L!Lose
  BY <1>3, <1>5, LoseKeeps DEF L!Lose
<1>6. CASE L!Timeout
  BY <1>3, <1>6, TimeoutKeeps DEF L!Timeout
<1>7. CASE L!Tick
  BY <1>7, TickKeeps
<1> QED
  BY <1>1, <1>2, <1>4, <1>5, <1>6, <1>7 DEF L!Next

LEMMA LinkBegins ==
  ASSUME L!LinkServiceAssumption, L!Init
  PROVE  PiecesInv /\ MarkedInv
<1>1. /\ allowFragmentation \in BOOLEAN /\ allowReassembly \in BOOLEAN /\ lastSeqNo = -2
      /\ nextMarkTime = L!Never /\ nMarked = 0 /\ wire = <<>> /\ fragments = {} /\ lnow = 0
      /\ nOutOverMtu = 0 /\ sent = <<>> /\ received = <<>> /\ longSince = L!Never /\ losses = 0
  BY DEF L!Init
<1>2. LinkTypes
  BY <1>1, FS_EmptySet, LinkConstants DEF LinkTypes
<1>3. Len(wire) = 0 /\ Len(received) = 0 /\ Len(sent) = 0
  BY <1>1
<1>4. /\ ArePieces(wire, fragments, sent, allowFragmentation) /\ InOrder(wire, fragments)
      /\ Numbered(wire, fragments, lastSeqNo) /\ Faithful(received, sent, wire)
  BY <1>1, <1>3 DEF ArePieces, InOrder, Numbered, Faithful
<1>5. NoneMissing(0, sent, wire, fragments, allowFragmentation)
  BY <1>1, <1>3 DEF NoneMissing
<1>6. Sharing
  BY <1>1, <1>3, <1>5 DEF Sharing
<1>7. MarkedInv
  BY <1>1 DEF MarkedInv, Earned, CongestionState, MarkStates
<1> QED
  BY <1>2, <1>4, <1>6, <1>7 DEF PiecesInv

LEMMA LinkSound ==
  ASSUME L!LinkServiceAssumption, PiecesInv, MarkedInv
  PROVE  L!TypeOK /\ L!WholeWithTags /\ L!MarksEarned
<1>1. /\ LinkTypes /\ ArePieces(wire, fragments, sent, allowFragmentation)
      /\ Faithful(received, sent, wire) /\ Sharing
  BY DEF PiecesInv
<1>2. /\ wire \in Seq(LinkFragment) /\ sent \in Seq(Packets) /\ received \in Seq(LinkItem)
      /\ DOMAIN wire = 1..Len(wire) /\ DOMAIN sent = 1..Len(sent) /\ Len(sent) \in Nat
      /\ DOMAIN received = 1..Len(received) /\ Len(received) \in Nat
      /\ allowFragmentation \in BOOLEAN
  BY <1>1 DEF LinkTypes
<1>3. CongestionState.next = nextMarkTime /\ CongestionState.count = nMarked
  BY DEF CongestionState
<1>4. Earned(CongestionState, longSince, lnow)
  BY DEF MarkedInv
<1>5. L!TypeOK
  <2>1. nMarked \in Nat
    BY <1>3, <1>4 DEF Earned, MarkStates
  <2>2. \A i \in DOMAIN wire : wire[i].of \in DOMAIN sent
    BY <1>1, <1>2 DEF ArePieces, IsPieceOf
  <2> QED
    BY <1>1, <2>1, <2>2 DEF L!TypeOK, LinkTypes, Sharing
<1>6. ASSUME losses = 0, wire = <<>>, allowFragmentation, allowReassembly
      PROVE  Len(received) = Len(sent)
  <2> DEFINE c == Len(received)
             k == PiecesOf(sent[c + 1], allowFragmentation)
  <2>1. NoneMissing(c, sent, wire, fragments, allowFragmentation) /\ Len(wire) = 0
    BY <1>1, <1>6 DEF Sharing
  <2>2. c <= Len(sent)
    BY <2>1 DEF NoneMissing
  <2>10. c \in Nat /\ Len(sent) \in Nat /\ (c # Len(sent) => c < Len(sent))
    <3> HIDE DEF c
    <3>1. c \in Nat /\ Len(sent) \in Nat
      BY <1>2 DEF c
    <3> QED
      BY <2>2, <3>1
  <2>3. SUFFICES ASSUME c < Len(sent) PROVE FALSE
    BY <2>10
  <2>4. c + 1 \in (c + 1)..Len(sent) /\ c + 1 \in 1..Len(sent) /\ sent[c + 1] \in Packets
    BY <1>2, <2>3
  <2>5. k \in Nat /\ k > 0
    BY <1>2, <2>4, Pieces
  <2>6. k - 1 \in 0..(k - 1)
    <3> HIDE DEF k
    <3> QED
      BY <2>5
  <2>7. IsHeld(c + 1, k - 1, wire, fragments)
    BY <2>1, <2>4, <2>6 DEF NoneMissing
  <2>8. PICK g \in fragments : g.of = c + 1 /\ g.index = k - 1
    BY <2>1, <2>7 DEF IsHeld
  <2>9. g.count = k /\ g.index < g.count - 1
    BY <1>1, <2>1, <2>8 DEF NoneMissing, ArePieces, IsPieceOf
  <2> HIDE DEF k
  <2> QED
    BY <2>5, <2>8, <2>9
<1>7. L!WholeWithTags
  BY <1>1, <1>2, <1>6 DEF L!WholeWithTags, Faithful, IsFaithful, Sharing
<1>8. L!MarksEarned
  BY <1>3, <1>4 DEF L!MarksEarned, Earned, IntervalSum, IntervalsUpTo
<1> QED
  BY <1>5, <1>7, <1>8

(***************************************************************************)
(* What is received is what was sent, and a mark was earned                *)
(* (GenericLinkService): for any packets, sizes, intervals and losses.     *)
(***************************************************************************)
THEOREM LinkKeepsFaith ==
  ASSUME L!LinkServiceAssumption
  PROVE  L!Init /\ [][L!Next]_(L!linkVars) => [](L!TypeOK /\ L!WholeWithTags /\ L!MarksEarned)
<1>1. L!Init => PiecesInv /\ MarkedInv
  BY LinkBegins
<1>2. PiecesInv /\ MarkedInv /\ [L!Next]_(L!linkVars) => (PiecesInv /\ MarkedInv)'
  BY LinkStep
<1>3. PiecesInv /\ MarkedInv => L!TypeOK /\ L!WholeWithTags /\ L!MarksEarned
  BY LinkSound
<1> QED
  BY <1>1, <1>2, <1>3, PTL

-------------------------------------------------------------------------------
(* The run of MCLocalParts.                                                    *)

\* The ids of a router change by its own operations only (LltcDataIdQueue).
LEMMA IdsBehave == PartsSpec => Spec
<1>1. PartsInit => Init
  BY DEF PartsInit
<1>2. [PartsNext]_allVars => [Next]_vars
  <2>1. CASE UNCHANGED allVars
    BY <2>1 DEF allVars
  <2>2. CASE PartsNext
    BY <2>2, Zenon DEF PartsNext, Others
  <2> QED
    BY <2>1, <2>2
<1> QED
  BY <1>1, <1>2, PTL DEF PartsSpec, Spec

\* So does the load (OnOffApplication).
LEMMA LoadBehaves == PartsSpec => T!Spec
<1>1. PartsInit => T!Init
  BY DEF PartsInit
<1>2. [PartsNext]_allVars => [T!Next]_T!vars
  <2>1. CASE UNCHANGED allVars
    BY <2>1 DEF allVars, loadVars, T!vars
  <2>2. CASE PartsNext
    <3>1. UNCHANGED loadVars => UNCHANGED T!vars
      BY DEF loadVars, T!vars
    <3> QED
      BY <2>2, <3>1, Zenon DEF PartsNext, Others
  <2> QED
    BY <2>1, <2>2
<1> QED
  BY <1>1, <1>2, PTL DEF PartsSpec, T!Spec

\* Whichever part goes on, the structures of the queue of ids agree.
THEOREM IdsConsistent == PartsSpec => []Consistent
BY IdsBehave, StructuresAgree, PTL

\* Whichever part goes on, the queue of ids implements a memory that never forgets.
THEOREM IdsNeverForgotten == PartsSpec => NeverForgets
BY IdsBehave, ImplementsMemory, PTL

\* Whichever part goes on, the load is what the time on has room for.
THEOREM LoadKeepsRate == PartsSpec => []RateKept
<1>1. T!Spec => [](T!TypeOK /\ T!RateKept)
  BY LoadAssumption, KeepsRate
<1>2. T!TypeOK /\ T!RateKept => RateKept
  BY DEF RateKept
<1> QED
  BY <1>1, <1>2, LoadBehaves, PTL

\* The resequencing queue is changed by its own steps only.
LEMMA QueueBehaves == PartsSpec => R!Spec
<1>1. PartsInit => R!Init
  BY DEF PartsInit
<1>2. [PartsNext]_allVars => [R!Next]_R!vars
  <2>1. CASE UNCHANGED allVars
    BY <2>1 DEF allVars, resequenceVars, R!vars
  <2>2. CASE PartsNext
    <3>1. UNCHANGED resequenceVars => UNCHANGED R!vars
      BY DEF resequenceVars, R!vars
    <3> QED
      BY <2>2, <3>1, Zenon DEF PartsNext, Others
  <2> QED
    BY <2>1, <2>2
<1> QED
  BY <1>1, <1>2, PTL DEF PartsSpec, R!Spec

\* The resequencing queue of the checked parts, for any constants its assumption admits.
THEOREM CapsulesPassInOrder == PartsSpec => PassedInOrder
<1>1. R!PassedOnce /\ R!PromiseKept => (part = "resequence" => R!PassedOnce /\ R!PromiseKept)
  OBVIOUS
<1>2. PartsSpec => [](R!TypeOK /\ R!PassedOnce /\ R!PromiseKept) /\ R!NoOvertaking /\ R!NoEarlySkip
  BY QueueAssumption, QueueInOrder, QueueBehaves
<1> QED
  BY <1>1, <1>2, PTL DEF PassedInOrder

\* The counters of the link check are changed by its own steps only.
LEMMA ActiveBehaves == PartsSpec => A!Spec
<1>1. PartsInit => A!Init
  BY DEF PartsInit
<1>2. [PartsNext]_allVars => [A!Next]_A!vars
  <2>1. CASE UNCHANGED allVars
    BY <2>1 DEF allVars, activeVars, A!vars
  <2>2. CASE PartsNext
    <3>1. UNCHANGED activeVars => UNCHANGED A!vars
      BY DEF activeVars, A!vars
    <3> QED
      BY <2>2, <3>1, Zenon DEF PartsNext, Others
  <2> QED
    BY <2>1, <2>2
<1> QED
  BY <1>1, <1>2, PTL DEF PartsSpec, A!Spec

\* Whichever part goes on, a face that falls silent is tested.
THEOREM SilenceStaysSuspected == PartsSpec => []SilenceSuspected
<1>1. A!SilenceSuspected => SilenceSuspected
  BY DEF SilenceSuspected
<1> QED
  BY <1>1, CheckAssumption, SilenceIsSuspected, ActiveBehaves, PTL

\* The forwarder is changed by its own steps only.
LEMMA ForwarderBehaves == PartsSpec => F!Init /\ [][F!Next]_(F!forwarderVars)
<1>1. PartsInit => F!Init
  BY DEF PartsInit
<1>2. [PartsNext]_allVars => [F!Next]_(F!forwarderVars)
  <2>1. CASE UNCHANGED allVars
    BY <2>1 DEF allVars, forwarderVars, F!forwarderVars
  <2>2. CASE PartsNext
    <3>1. UNCHANGED forwarderVars => UNCHANGED F!forwarderVars
      BY DEF forwarderVars, F!forwarderVars
    <3> QED
      BY <2>2, <3>1, Zenon DEF PartsNext, Others
  <2> QED
    BY <2>1, <2>2
<1> QED
  BY <1>1, <1>2, PTL DEF PartsSpec

\* Whichever part goes on, the forwarder answers an Interest at most once and stops Interests
\* that loop.
THEOREM InterestsStaySettled == PartsSpec => InterestsSettled
BY ForwarderAssumption, ForwarderSettles, ForwarderBehaves, PTL DEF InterestsSettled

\* Whichever part goes on, the entry of a stream stays open after each Data.
THEOREM StreamsStayOpen == PartsSpec => []StreamStaysOpen
<1>1. F!StreamStaysOpen => StreamStaysOpen
  BY DEF StreamStaysOpen
<1> QED
  BY <1>1, ForwarderAssumption, ForwarderSettles, ForwarderBehaves, PTL

\* The face of an application is changed by its own steps only.
LEMMA FaceBehaves == PartsSpec => N!Init /\ [][N!Next]_(N!faceVars)
<1>1. PartsInit => N!Init
  BY DEF PartsInit
<1>2. [PartsNext]_allVars => [N!Next]_(N!faceVars)
  <2>1. CASE UNCHANGED allVars
    BY <2>1 DEF allVars, faceVars, N!faceVars
  <2>2. CASE PartsNext
    <3>1. UNCHANGED faceVars => UNCHANGED N!faceVars
      BY DEF faceVars, N!faceVars
    <3> QED
      BY <2>2, <3>1, Zenon DEF PartsNext, Others
  <2> QED
    BY <2>1, <2>2
<1> QED
  BY <1>1, <1>2, PTL DEF PartsSpec

\* Whichever part goes on, an Interest of an application has one outcome and its handlers
\* are kept.
THEOREM FaceStaysSound == PartsSpec => []FaceSound
<1>1. N!OneOutcome /\ N!HandlersKept => FaceSound
  BY DEF FaceSound
<1> QED
  BY <1>1, FaceAssumption, FaceSettles, FaceBehaves, PTL

\* The applications are changed by their own steps only.
LEMMA AppsBehave == PartsSpec => P!Spec
<1>1. PartsInit => P!Init
  BY DEF PartsInit
<1>2. [PartsNext]_allVars => [P!Next]_P!vars
  <2>1. CASE UNCHANGED allVars
    BY <2>1 DEF allVars, appVars, P!vars
  <2>2. CASE PartsNext
    <3>1. UNCHANGED appVars => UNCHANGED P!vars
      BY DEF appVars, P!vars
    <3> QED
      BY <2>2, <3>1, Zenon DEF PartsNext, Others
  <2> QED
    BY <2>1, <2>2
<1> QED
  BY <1>1, <1>2, PTL DEF PartsSpec, P!Spec

\* Whichever part goes on, PMUs send the streams they were asked for and PDCs keep them apart.
THEOREM StreamsStaySound == PartsSpec => StreamsSound
<1>1. P!Spec => [](P!QueuesApart /\ P!IdsUsedOnce /\ P!TypeOK) /\ P!StreamsPaced
  BY AppsAssumption, StreamsKeepPace
<1>2. P!QueuesApart /\ P!IdsUsedOnce /\ P!TypeOK => (part = "apps" => P!QueuesApart /\ P!IdsUsedOnce)
  OBVIOUS
<1> QED
  BY <1>1, <1>2, AppsBehave, PTL DEF StreamsSound

\* The link is changed by its own steps only.
LEMMA LinkBehaves == PartsSpec => L!Init /\ [][L!Next]_(L!linkVars)
<1>1. PartsInit => L!Init
  BY DEF PartsInit
<1>2. [PartsNext]_allVars => [L!Next]_(L!linkVars)
  <2>1. CASE UNCHANGED allVars
    BY <2>1 DEF allVars, linkVars, L!linkVars
  <2>2. CASE PartsNext
    <3>1. UNCHANGED linkVars => UNCHANGED L!linkVars
      BY DEF linkVars, L!linkVars
    <3> QED
      BY <2>2, <3>1, Zenon DEF PartsNext, Others
  <2> QED
    BY <2>1, <2>2
<1> QED
  BY <1>1, <1>2, PTL DEF PartsSpec

\* Whichever part goes on, what a link gives on is what was sent, and marks are earned.
THEOREM LinkStaysFaithful == PartsSpec => []LinkFaithful
<1>1. L!WholeWithTags /\ L!MarksEarned => LinkFaithful
  BY DEF LinkFaithful
<1> QED
  BY <1>1, LinkAssumption, LinkKeepsFaith, LinkBehaves, PTL

\* Whichever part goes on, the variables of all of them keep their types.
THEOREM PartsKeepTypes == PartsSpec => []TypesOK
<1>1. IInv => TypeOK
  BY DEF IInv
<1>2. R!Spec => []R!TypeOK
  BY QueueAssumption, QueueInOrder, PTL
<1>3. A!Spec => []A!TypeOK
  BY CheckAssumption, SilenceIsSuspected, PTL
<1>4. T!Spec => []T!TypeOK
  BY LoadAssumption, KeepsRate, PTL
<1>5. P!Spec => []P!TypeOK
  BY AppsAssumption, StreamsKeepPace, PTL
<1>6. F!Init /\ [][F!Next]_(F!forwarderVars) => []F!TypeOK
  BY ForwarderAssumption, ForwarderSettles, PTL
<1>7. N!Init /\ [][N!Next]_(N!faceVars) => []N!TypeOK
  BY FaceAssumption, FaceSettles, PTL
<1>8. L!Init /\ [][L!Next]_(L!linkVars) => []L!TypeOK
  BY LinkAssumption, LinkKeepsFaith, PTL
<1>9. TypeOK /\ R!TypeOK /\ A!TypeOK /\ T!TypeOK /\ P!TypeOK /\ F!TypeOK /\ N!TypeOK /\ L!TypeOK
        => TypesOK
  BY DEF TypesOK
<1> QED
  BY <1>1, <1>2, <1>3, <1>4, <1>5, <1>6, <1>7, <1>8, <1>9, Invariance, IdsBehave, QueueBehaves,
     ActiveBehaves, LoadBehaves, AppsBehave, ForwarderBehaves, FaceBehaves, LinkBehaves, PTL
===============================================================================
