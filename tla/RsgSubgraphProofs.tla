-------------------------- MODULE RsgSubgraphProofs ---------------------------
(***************************************************************************)
(* What the search for preferred paths of RsgSubgraph finds, for every RSG *)
(* and every view of it.  FoldSet and the recursive functions of the       *)
(* modules are chosen by the equations they are to satisfy; that there are *)
(* functions that satisfy them is proved first.                            *)
(***************************************************************************)
EXTENDS RsgSubgraph, FiniteSetTheorems, WellFoundedInduction, TLAPS

-------------------------------------------------------------------------------
(* Recursive functions *)

\* A nonempty set of naturals has a least element.
LEMMA LeastExists ==
  ASSUME NEW T \in SUBSET Nat, T # {}
  PROVE  \E x \in T : \A y \in T : x <= y
<1> DEFINE R == {ss \in Nat \X Nat : ss[1] < ss[2]}
<1>1. IsWellFoundedOn(R, Nat)
  BY NatLessThanWellFounded DEF OpToRel
<1>2. PICK x \in T : \A y \in T : ~ (<<y, x>> \in R)
  BY <1>1, WFMin
<1>3. ASSUME NEW y \in T PROVE x <= y
  <2>1. x \in Nat /\ y \in Nat /\ <<y, x>> \notin R
    BY <1>2
  <2>2. y < x => <<y, x>> \in R
    BY <2>1
  <2> QED
    BY <2>1, <2>2
<1> QED
  BY <1>3

\* The member of a set a fold takes next, and what is left of the set.
Pick(s) == CHOOSE x \in s : TRUE
Rest(s) == s \ {Pick(s)}

\* A set loses one member to a fold.
LEMMA RestSmaller ==
  ASSUME NEW S, IsFiniteSet(S), NEW s \in SUBSET S, s # {}
  PROVE  /\ Pick(s) \in S /\ Rest(s) \in SUBSET S
         /\ Cardinality(s) \in Nat /\ Cardinality(Rest(s)) \in Nat
         /\ Cardinality(Rest(s)) = Cardinality(s) - 1
<1>1. Pick(s) \in s
  BY DEF Pick
<1>2. IsFiniteSet(s)
  BY FS_Subset
<1>3. /\ IsFiniteSet(s \ {Pick(s)})
      /\ Cardinality(s \ {Pick(s)}) = IF Pick(s) \in s THEN Cardinality(s) - 1 ELSE Cardinality(s)
  BY <1>2, FS_RemoveElement
<1>4. Cardinality(s) \in Nat /\ Cardinality(s \ {Pick(s)}) \in Nat
  BY <1>2, <1>3, FS_CardinalityType
<1> QED
  BY <1>1, <1>3, <1>4 DEF Rest

\* The values a fold gives, for sets of up to n members.
FoldsUpTo(op, base, S, T, n) ==
  {f \in [{s \in SUBSET S : Cardinality(s) <= n} -> T] :
     \A s \in DOMAIN f : f[s] = IF s = {} THEN base ELSE op[<<Pick(s), f[Rest(s)]>>]}

\* f folds op over the subsets of S, from base on.
IsFold(f, op, base, S, T) ==
  /\ f \in [SUBSET S -> T]
  /\ f = [s \in SUBSET S |-> IF s = {} THEN base ELSE op[<<Pick(s), f[Rest(s)]>>]]

\* There is a function that folds.
LEMMA FoldExists ==
  ASSUME NEW S, IsFiniteSet(S), NEW T, NEW base \in T, NEW op \in [S \X T -> T]
  PROVE  \E f : IsFold(f, op, base, S, T)
<1> DEFINE Bad == {n \in Nat : FoldsUpTo(op, base, S, T, n) = {}}
<1>0. \A s \in SUBSET S : Cardinality(s) \in Nat /\ (Cardinality(s) = 0 <=> s = {})
  BY FS_Subset, FS_CardinalityType, FS_EmptySet
<1>1. Bad = {}
  <2>1. SUFFICES ASSUME Bad # {} PROVE FALSE
    OBVIOUS
  <2>2. Bad \in SUBSET Nat
    OBVIOUS
  <2>3. PICK n \in Bad : \A m \in Bad : n <= m
    BY <2>1, <2>2, LeastExists
  <2>4. n # 0
    <3> DEFINE D == {s \in SUBSET S : Cardinality(s) <= 0}
    <3>1. D = {{}}
      BY <1>0
    <3>2. [s \in D |-> base] \in FoldsUpTo(op, base, S, T, 0)
      BY <3>1 DEF FoldsUpTo
    <3> QED
      BY <3>2
  <2>5. n \in Nat /\ n - 1 \in Nat /\ n - 1 \notin Bad
    BY <2>3, <2>4
  <2>6. PICK f \in FoldsUpTo(op, base, S, T, n - 1) : TRUE
    BY <2>5
  <2> DEFINE D == {s \in SUBSET S : Cardinality(s) <= n}
             E == {s \in SUBSET S : Cardinality(s) <= n - 1}
             h == [s \in D |-> IF s = {} THEN base ELSE op[<<Pick(s), f[Rest(s)]>>]]
  <2>7. ASSUME NEW s \in D, s # {} PROVE Pick(s) \in S /\ Rest(s) \in E /\ Rest(s) \in D
    BY <2>5, <2>7, RestSmaller
  <2>8. /\ f \in [E -> T]
        /\ \A s \in E : f[s] = IF s = {} THEN base ELSE op[<<Pick(s), f[Rest(s)]>>]
    BY <2>6 DEF FoldsUpTo
  <2>9. h \in [D -> T]
    BY <2>7, <2>8
  <2>10. \A s \in E : s \in D /\ h[s] = f[s]
    BY <1>0, <2>5, <2>8
  <2>11. ASSUME NEW s \in D
         PROVE  h[s] = IF s = {} THEN base ELSE op[<<Pick(s), h[Rest(s)]>>]
    BY <2>7, <2>10
  <2>12. h \in FoldsUpTo(op, base, S, T, n)
    BY <2>9, <2>11 DEF FoldsUpTo
  <2> QED
    BY <2>3, <2>12
<1>2. Cardinality(S) \in Nat
  BY <1>0
<1>3. PICK f \in FoldsUpTo(op, base, S, T, Cardinality(S)) : TRUE
  BY <1>1, <1>2
<1>4. \A s \in SUBSET S : Cardinality(s) <= Cardinality(S)
  BY FS_Subset
<1>5. {s \in SUBSET S : Cardinality(s) <= Cardinality(S)} = SUBSET S
  BY <1>4
<1>6. /\ f \in [SUBSET S -> T]
      /\ \A s \in SUBSET S : f[s] = IF s = {} THEN base ELSE op[<<Pick(s), f[Rest(s)]>>]
  BY <1>3, <1>5 DEF FoldsUpTo
<1> QED
  BY <1>6 DEF IsFold

\* A property that a fold hands on from each set to the next holds of its result.
LEMMA FoldKeeps ==
  ASSUME NEW S, IsFiniteSet(S), NEW T, NEW f, f[{}] \in T,
         \A s \in SUBSET S : s # {} /\ f[Rest(s)] \in T => f[s] \in T
  PROVE  f[S] \in T
<1> DEFINE Bad == {n \in Nat : \E s \in SUBSET S : Cardinality(s) = n /\ f[s] \notin T}
<1>1. SUFFICES ASSUME f[S] \notin T PROVE FALSE
  OBVIOUS
<1>2. Cardinality(S) \in Bad
  BY <1>1, FS_CardinalityType
<1>3. PICK n \in Bad : \A m \in Bad : n <= m
  BY <1>2, LeastExists
<1>4. PICK s \in SUBSET S : Cardinality(s) = n /\ f[s] \notin T
  BY <1>3
<1>5. s # {}
  BY <1>4
<1>6. f[Rest(s)] \notin T
  BY <1>4, <1>5
<1>7. Rest(s) \in SUBSET S /\ Cardinality(Rest(s)) \in Nat /\ Cardinality(Rest(s)) = n - 1 /\ n \in Nat
  BY <1>4, <1>5, RestSmaller
<1>8. n - 1 \in Bad
  BY <1>6, <1>7
<1> QED
  BY <1>3, <1>7, <1>8

\* f tells from where in 1..N there is a way to A by pairs of R that lead on.
IsWays(f, N, A, R) ==
  f = [i \in 1..N |-> i \in A \/ \E j \in (i + 1)..N : <<i, j>> \in R /\ f[j]]

\* There is a function that tells.
LEMMA WaysExist ==
  ASSUME NEW N \in Nat, NEW A, NEW R
  PROVE  \E f : IsWays(f, N, A, R)
<1> DEFINE From(n) == {i \in 1..N : i > N - n}
           Right(f, n) == \A i \in From(n) :
             f[i] = (i \in A \/ \E j \in (i + 1)..N : <<i, j>> \in R /\ f[j])
           Bad == {n \in Nat : ~ \E f : Right(f, n)}
<1>1. Bad = {}
  <2>1. SUFFICES ASSUME Bad # {} PROVE FALSE
    OBVIOUS
  <2>2. Bad \in SUBSET Nat
    OBVIOUS
  <2>3. PICK n \in Bad : \A m \in Bad : n <= m
    BY <2>1, <2>2, LeastExists
  <2>4. n # 0
    <3>1. From(0) = {}
      OBVIOUS
    <3>2. Right(0, 0)
      BY <3>1
    <3> QED
      BY <3>2
  <2>5. n \in Nat /\ n - 1 \in Nat /\ n - 1 \notin Bad
    <3> HIDE DEF Bad
    <3> QED
      BY <2>2, <2>3, <2>4
  <2>6. PICK f : Right(f, n - 1)
    BY <2>5
  <2> DEFINE h == [i \in 1..N |-> i \in A \/ \E j \in (i + 1)..N : <<i, j>> \in R /\ f[j]]
  <2>7. ASSUME NEW i \in From(n), NEW j \in (i + 1)..N PROVE j \in From(n - 1) /\ j \in 1..N
    BY <2>5
  <2>8. \A j \in From(n - 1) : h[j] = f[j]
    BY <2>6, Zenon
  <2>9. ASSUME NEW i \in From(n)
        PROVE  h[i] = (i \in A \/ \E j \in (i + 1)..N : <<i, j>> \in R /\ h[j])
    <3>1. \A j \in (i + 1)..N : h[j] = f[j]
      BY <2>7, <2>8, Zenon
    <3>2. h[i] = (i \in A \/ \E j \in (i + 1)..N : <<i, j>> \in R /\ f[j])
      BY Zenon
    <3> QED
      BY <3>1, <3>2, Zenon
  <2>10. Right(h, n)
    BY <2>9, Zenon
  <2> QED
    BY <2>3, <2>10, Zenon
<1>2. PICK f : Right(f, N)
  BY <1>1
<1>3. From(N) = 1..N
  OBVIOUS
<1> DEFINE h == [i \in 1..N |-> i \in A \/ \E j \in (i + 1)..N : <<i, j>> \in R /\ f[j]]
<1>4. \A j \in 1..N : h[j] = f[j]
  BY <1>2, <1>3, Zenon
<1>5. ASSUME NEW i \in 1..N, NEW j \in (i + 1)..N PROVE j \in 1..N
  OBVIOUS
<1>6. \A i \in 1..N : \A j \in (i + 1)..N : h[j] = f[j]
  BY <1>4, <1>5, Zenon
<1>7. h = [i \in 1..N |-> i \in A \/ \E j \in (i + 1)..N : <<i, j>> \in R /\ h[j]]
  BY <1>6, Zenon
<1> QED
  BY <1>7, Zenon DEF IsWays

-------------------------------------------------------------------------------
(* Virtual links *)

\* The position of a node of the primary path.
LEMMA PositionIs == \A i \in Positions : PositionOf(PrimPath[i]) = i
BY RsgSubgraphAssumption DEF RsgSubgraphAssumption, Simple, Positions, PositionOf

\* A virtual link leads from a position to one further down the primary path; there are
\* finitely many.
LEMMA VirLinkAt ==
  /\ IsFiniteSet(VirLinks)
  /\ NoPrev \notin VirLinks
  /\ \A v \in VirLinks :
       /\ v.ingress \in Positions /\ v.egress \in Positions /\ v.ingress < v.egress
       /\ v.pathID # NoPath
<1>1. ASSUME NEW v \in PrimVirLinks
      PROVE  /\ v.ingress \in Positions /\ v.egress \in Positions /\ v.ingress < v.egress
             /\ v.pathID = PrimPathID /\ v.pathID # NoPath
  BY RsgSubgraphAssumption DEF RsgSubgraphAssumption, PrimVirLinks, Positions
<1>2. ASSUME NEW v \in RspVirLinks
      PROVE  /\ v.ingress \in Positions /\ v.egress \in Positions /\ v.ingress < v.egress
             /\ v.pathID # NoPath
  <2>1. PICK r \in Rsps : v = [pathID  |-> r.pathID,
                               ingress |-> PositionOf(r.nodeIds[Len(r.nodeIds)]),
                               egress  |-> PositionOf(r.nodeIds[1])]
    BY DEF RspVirLinks
  <2>2. PICK i, j \in 1..Len(PrimPath) :
          j < i /\ r.nodeIds[1] = PrimPath[i] /\ r.nodeIds[Len(r.nodeIds)] = PrimPath[j]
    BY RsgSubgraphAssumption DEF RsgSubgraphAssumption
  <2>3. PositionOf(r.nodeIds[1]) = i /\ PositionOf(r.nodeIds[Len(r.nodeIds)]) = j
    BY <2>2, PositionIs DEF Positions
  <2>4. r.pathID # NoPath
    BY RsgSubgraphAssumption DEF RsgSubgraphAssumption
  <2> QED
    BY <2>1, <2>2, <2>3, <2>4 DEF Positions
<1>3. IsFiniteSet(PrimVirLinks)
  <2>1. Len(PrimPath) \in Nat
    BY RsgSubgraphAssumption DEF RsgSubgraphAssumption
  <2>2. IsFiniteSet(2..Len(PrimPath))
    BY <2>1, FS_Interval
  <2> DEFINE f == [i \in 2..Len(PrimPath) |->
                     [pathID |-> PrimPathID, ingress |-> i - 1, egress |-> i]]
  <2>3. f \in Surjection(2..Len(PrimPath), PrimVirLinks)
    BY DEF PrimVirLinks, Surjection
  <2> QED
    BY <2>2, <2>3, FS_Surjection
<1>4. IsFiniteSet(RspVirLinks)
  <2>1. IsFiniteSet(Rsps)
    BY RsgSubgraphAssumption DEF RsgSubgraphAssumption
  <2> DEFINE f == [r \in Rsps |-> [pathID  |-> r.pathID,
                                   ingress |-> PositionOf(r.nodeIds[Len(r.nodeIds)]),
                                   egress  |-> PositionOf(r.nodeIds[1])]]
  <2>2. f \in Surjection(Rsps, RspVirLinks)
    BY DEF RspVirLinks, Surjection
  <2> QED
    BY <2>1, <2>2, FS_Surjection
<1>5. IsFiniteSet(VirLinks)
  BY <1>3, <1>4, FS_Union DEF VirLinks
<1>6. NoPrev \notin VirLinks
  BY <1>1, <1>2 DEF NoPrev, VirLinks
<1> QED
  BY <1>1, <1>2, <1>5, <1>6 DEF VirLinks

-------------------------------------------------------------------------------
(* The search *)

\* States of the search: the link by which a position is reached leads to it and is
\* usable.
Searches(view) ==
  {s \in [key  : [Positions -> Int],
          prev : [Positions -> VirLinks \cup {NoPrev}],
          left : SUBSET Positions] :
     \A i \in Positions : s.prev[i] # NoPrev => s.prev[i].egress = i /\ Usable(view, s.prev[i])}

\* A link looked at is taken only when it is usable.
LEMMA RelaxKeeps ==
  ASSUME NEW view, NEW succ \in [VirLinks -> Int], NEW v \in VirLinks, NEW s \in Searches(view)
  PROVE  Relax(view, succ, v, s) \in Searches(view)
<1> DEFINE alt == Plus(s.key[v.ingress], succ[v])
           t == [s EXCEPT !.key[v.egress] = alt, !.prev[v.egress] = v]
           w == [key  |-> [s.key EXCEPT ![v.egress] = alt],
                 prev |-> [s.prev EXCEPT ![v.egress] = v],
                 left |-> s.left]
<1>1. v.ingress \in Positions /\ v.egress \in Positions
  BY VirLinkAt
<1>2. /\ s \in [key : [Positions -> Int], prev : [Positions -> VirLinks \cup {NoPrev}],
                left : SUBSET Positions]
      /\ \A i \in Positions : s.prev[i] # NoPrev => s.prev[i].egress = i /\ Usable(view, s.prev[i])
  BY DEF Searches
<1>3. alt \in Int
  <2>1. s.key[v.ingress] \in Int /\ succ[v] \in Int
    BY <1>1, <1>2
  <2> QED
    BY <2>1 DEF Plus, MinusInf
<1>4. CASE Relax(view, succ, v, s) = s
  BY <1>4
<1>5. CASE Usable(view, v) /\ Relax(view, succ, v, s) = t
  <2>1. t = w
    <3>1. PICK key \in [Positions -> Int], prev \in [Positions -> VirLinks \cup {NoPrev}],
               left \in SUBSET Positions : s = [key |-> key, prev |-> prev, left |-> left]
      BY <1>2
    <3> DEFINE s1 == [s EXCEPT !.key[v.egress] = alt]
    <3>2. t = [s1 EXCEPT !.prev[v.egress] = v]
      OBVIOUS
    <3> HIDE DEF alt
    <3>3. s1 = [key |-> [key EXCEPT ![v.egress] = alt], prev |-> prev, left |-> left]
      BY <3>1
    <3> HIDE DEF s1, t
    <3> QED
      BY <3>1, <3>2, <3>3
  <2>2. w.key \in [Positions -> Int]
    BY <1>2, <1>3
  <2>3. w.prev \in [Positions -> VirLinks \cup {NoPrev}]
    BY <1>2
  <2>4. w \in [key : [Positions -> Int], prev : [Positions -> VirLinks \cup {NoPrev}],
                left : SUBSET Positions]
    BY <1>2, <2>2, <2>3
  <2>5. ASSUME NEW i \in Positions, w.prev[i] # NoPrev
        PROVE  w.prev[i].egress = i /\ Usable(view, w.prev[i])
    <3>1. CASE i = v.egress
      BY <1>1, <1>2, <1>5, <3>1
    <3>2. CASE i # v.egress
      BY <1>1, <1>2, <2>5, <3>2
    <3> QED
      BY <3>1, <3>2
  <2> QED
    BY <1>5, <2>1, <2>4, <2>5 DEF Searches
<1>6. Relax(view, succ, v, s) = s \/ (Usable(view, v) /\ Relax(view, succ, v, s) = t)
  BY DEF Relax
<1> QED
  BY <1>4, <1>5, <1>6

\* So is what a round finds, which looks at the links from one position.
LEMMA RoundKeeps ==
  ASSUME NEW view, NEW succ \in [VirLinks -> Int], NEW s \in Searches(view)
  PROVE  SearchRound(view, succ, s) \in Searches(view)
<1> DEFINE u == CHOOSE i \in s.left : \A j \in s.left : s.key[j] <= s.key[i]
           S == {v \in VirLinks : v.ingress = u}
           T == Searches(view)
           base == [s EXCEPT !.left = @ \ {u}]
           op == [p \in S \X T |-> Relax(view, succ, p[1], p[2])]
<1>1. IsFiniteSet(S)
  BY VirLinkAt, FS_Subset
<1>2. base \in T
  BY DEF Searches
<1>3. \A v \in S, t \in T : Relax(view, succ, v, t) \in T
  BY RelaxKeeps
<1>4. op \in [S \X T -> T]
  BY <1>3
<1>5. SearchRound(view, succ, s) = FoldSet(LAMBDA v, t : Relax(view, succ, v, t), base, S)
  BY DEF SearchRound
<1> HIDE DEF base, S, T
<1>6. PICK f : IsFold(f, op, base, S, T)
  <2> HIDE DEF op
  <2> QED
    BY <1>1, <1>2, <1>4, FoldExists
<1>7. ASSUME NEW x \in SUBSET S, x # {} PROVE Pick(x) \in S /\ Rest(x) \in SUBSET S
  BY <1>1, <1>7, RestSmaller
<1>8. ASSUME NEW x \in SUBSET S, x # {}
      PROVE  op[<<Pick(x), f[Rest(x)]>>] = Relax(view, succ, Pick(x), f[Rest(x)])
  <2>1. Pick(x) \in S /\ f[Rest(x)] \in T
    BY <1>6, <1>7, <1>8 DEF IsFold
  <2> QED
    BY <2>1
<1>9. f = [x \in SUBSET S |-> IF x = {} THEN base
                              ELSE Relax(view, succ, Pick(x), f[Rest(x)])]
  <2> HIDE DEF op
  <2> QED
    BY <1>6, <1>8 DEF IsFold
<1>10. PICK h : /\ h = [x \in SUBSET S |-> IF x = {} THEN base
                                           ELSE Relax(view, succ, Pick(x), h[Rest(x)])]
                /\ SearchRound(view, succ, s) = h[S]
  BY <1>5, <1>9 DEF FoldSet, MapThenFoldSet, Pick, Rest
<1>11. h[{}] \in T
  BY <1>2, <1>10
<1>12. ASSUME NEW x \in SUBSET S, x # {}, h[Rest(x)] \in T PROVE h[x] \in T
  <2>1. h[x] = Relax(view, succ, Pick(x), h[Rest(x)])
    BY <1>10, <1>12
  <2> QED
    BY <1>3, <1>7, <1>12, <2>1
<1>13. h[S] \in T
  BY <1>1, <1>11, <1>12, FoldKeeps
<1> QED
  BY <1>10, <1>13 DEF T

\* At first no position is reached.
LEMMA StartSearches == \A view : SearchStart \in Searches(view)
<1>1. [i \in Positions |-> IF i = 1 THEN 0 ELSE MinusInf] \in [Positions -> Int]
  BY DEF MinusInf
<1> QED
  BY <1>1 DEF SearchStart, Searches

\* Whatever the search of rsgComputePreferredPathID meets, the link it reaches a position
\* by leads to that position and is usable.
LEMMA SearchFinds ==
  ASSUME NEW view, NEW succ \in [VirLinks -> Int]
  PROVE  SearchRounds(view, succ) \in Searches(view)
<1> DEFINE S == Positions
           T == Searches(view)
           op == [p \in S \X T |-> SearchRound(view, succ, p[2])]
<1>1. IsFiniteSet(S)
  <2>1. Len(PrimPath) \in Nat
    BY RsgSubgraphAssumption DEF RsgSubgraphAssumption
  <2> QED
    BY <2>1, FS_Interval DEF Positions
<1>2. SearchStart \in T
  BY StartSearches
<1>3. \A t \in T : SearchRound(view, succ, t) \in T
  BY RoundKeeps
<1>4. op \in [S \X T -> T]
  BY <1>3
<1>5. SearchRounds(view, succ)
        = FoldSet(LAMBDA i, t : SearchRound(view, succ, t), SearchStart, S)
  BY DEF SearchRounds
<1> HIDE DEF S, T
<1>6. PICK f : IsFold(f, op, SearchStart, S, T)
  <2> HIDE DEF op
  <2> QED
    BY <1>1, <1>2, <1>4, FoldExists
<1>7. ASSUME NEW x \in SUBSET S, x # {} PROVE Pick(x) \in S /\ Rest(x) \in SUBSET S
  BY <1>1, <1>7, RestSmaller
<1>8. ASSUME NEW x \in SUBSET S, x # {}
      PROVE  op[<<Pick(x), f[Rest(x)]>>] = SearchRound(view, succ, f[Rest(x)])
  <2>1. Pick(x) \in S /\ f[Rest(x)] \in T
    BY <1>6, <1>7, <1>8 DEF IsFold
  <2> QED
    BY <2>1
<1>9. f = [x \in SUBSET S |-> IF x = {} THEN SearchStart
                              ELSE SearchRound(view, succ, f[Rest(x)])]
  <2> HIDE DEF op
  <2> QED
    BY <1>6, <1>8 DEF IsFold
<1>10. PICK h : /\ h = [x \in SUBSET S |-> IF x = {} THEN SearchStart
                                           ELSE SearchRound(view, succ, h[Rest(x)])]
                /\ SearchRounds(view, succ) = h[S]
  BY <1>5, <1>9 DEF FoldSet, MapThenFoldSet, Pick, Rest
<1>11. h[{}] \in T
  BY <1>2, <1>10
<1>12. ASSUME NEW x \in SUBSET S, x # {}, h[Rest(x)] \in T PROVE h[x] \in T
  BY <1>3, <1>10, <1>12
<1>13. h[S] \in T
  BY <1>1, <1>11, <1>12, FoldKeeps
<1> QED
  BY <1>10, <1>13 DEF T

-------------------------------------------------------------------------------
(* What the search offers *)

\* The way back from the destination goes by the links the positions were reached by.
LEMMA WayBackAt ==
  ASSUME NEW prev
  PROVE  /\ WayBack(prev) \subseteq Positions
         /\ \A i \in Positions :
              i \in WayBack(prev) <=>
                \/ i = Len(PrimPath)
                \/ \E j \in (i + 1)..Len(PrimPath) : prev[j].ingress = i /\ j \in WayBack(prev)
<1> DEFINE N == Len(PrimPath)
           A == {N}
           R == {ij \in (1..N) \X (1..N) : prev[ij[2]].ingress = ij[1]}
<1>1. N \in Nat
  BY RsgSubgraphAssumption DEF RsgSubgraphAssumption
<1>2. PICK f : IsWays(f, N, A, R)
  <2> HIDE DEF N, A, R
  <2> QED
    BY <1>1, WaysExist
<1>3. ASSUME NEW i \in 1..N, NEW j \in (i + 1)..N
      PROVE  <<i, j>> \in R <=> prev[j].ingress = i
  BY <1>1
<1>4. \A i \in 1..N : i \in A <=> i = N
  OBVIOUS
<1> HIDE DEF A, R, N
<1>5. f = [i \in 1..N |-> i = N \/ \E j \in (i + 1)..N : prev[j].ingress = i /\ f[j]]
  <2>1. ASSUME NEW i \in 1..N
        PROVE  (i \in A \/ \E j \in (i + 1)..N : <<i, j>> \in R /\ f[j])
                 = (i = N \/ \E j \in (i + 1)..N : prev[j].ingress = i /\ f[j])
    BY <1>3, <1>4, Zenon
  <2> QED
    BY <1>2, <2>1, Zenon DEF IsWays
<1>6. PICK on : /\ on = [i \in 1..N |->
                           i = N \/ \E j \in (i + 1)..N : prev[j].ingress = i /\ on[j]]
                /\ WayBack(prev) = {i \in 1..N : on[i]}
  BY <1>5, Zenon DEF WayBack, Positions, N
<1>7. \A i \in 1..N : on[i] <=> i = N \/ \E j \in (i + 1)..N : prev[j].ingress = i /\ on[j]
  BY <1>6, Zenon
<1>8. ASSUME NEW i \in 1..N, NEW j \in (i + 1)..N PROVE j \in 1..N
  BY <1>1
<1>9. \A i \in 1..N :
        i \in WayBack(prev) <=>
          i = N \/ \E j \in (i + 1)..N : prev[j].ingress = i /\ j \in WayBack(prev)
  BY <1>6, <1>7, <1>8, Zenon
<1> QED
  BY <1>6, <1>9, Zenon DEF N, Positions

\* The path offered at a position is that of a usable link on the way, if any: the one to
\* leave by leads on to a position that is on the way too.
LEMMA PreferredAt ==
  ASSUME NEW view, NEW succ \in [VirLinks -> Int], NEW i \in Positions
  PROVE  LET prev == SearchRounds(view, succ).prev
             p == ComputePreferredPathID(view, succ, PrimPath[i])
         IN  /\ p.down # NoPath => \E v \in VirLinks :
                  /\ v.ingress = i /\ Usable(view, v) /\ v = prev[v.egress]
                  /\ v.egress \in WayBack(prev) /\ v.pathID = p.down
             /\ p.up # NoPath => \E v \in VirLinks :
                  v.egress = i /\ Usable(view, v) /\ v = prev[i] /\ v.pathID = p.up
             /\ i \in WayBack(prev) /\ i # Len(PrimPath) => p.down # NoPath
             /\ p.down # NoPath => p.up = prev[i].pathID
             /\ p.down # NoPath => i \in WayBack(prev)
<1> DEFINE prev == SearchRounds(view, succ).prev
           p == ComputePreferredPathID(view, succ, PrimPath[i])
           downs == {j \in WayBack(prev) : prev[j] # NoPrev /\ PrimPath[prev[j].ingress] = PrimPath[i]}
           d == CHOOSE j \in downs : TRUE
<1>1. /\ prev \in [Positions -> VirLinks \cup {NoPrev}]
      /\ \A j \in Positions : prev[j] # NoPrev => prev[j].egress = j /\ Usable(view, prev[j])
  BY SearchFinds DEF Searches
<1>2. PositionOf(PrimPath[i]) = i
  BY PositionIs
<1>3. p = IF downs = {} THEN [down |-> NoPath, up |-> NoPath]
          ELSE [down |-> prev[d].pathID, up |-> prev[i].pathID]
  BY <1>2 DEF ComputePreferredPathID, PreferredLink
<1> HIDE DEF p
<1>4. WayBack(prev) \subseteq Positions
  BY WayBackAt
<1> HIDE DEF prev
<1>5. ASSUME NEW j \in downs
      PROVE  /\ j \in WayBack(prev) /\ j \in Positions
             /\ prev[j] \in VirLinks /\ prev[j].egress = j /\ Usable(view, prev[j])
             /\ prev[j].ingress = i /\ prev[j].pathID # NoPath
  <2>1. j \in WayBack(prev) /\ j \in Positions /\ prev[j] \in VirLinks
    BY <1>1, <1>4
  <2>2. prev[j].ingress \in Positions /\ prev[j].pathID # NoPath
    BY <2>1, VirLinkAt
  <2>3. prev[j].ingress = i
    BY <2>2, PositionIs
  <2> QED
    BY <1>1, <2>1, <2>2, <2>3
<1>6. ASSUME i \in WayBack(prev), i # Len(PrimPath) PROVE downs # {}
  <2>1. PICK j \in (i + 1)..Len(PrimPath) : prev[j].ingress = i /\ j \in WayBack(prev)
    BY <1>6, WayBackAt
  <2>2. prev[j] # NoPrev
    BY <2>1 DEF NoPrev, Positions
  <2> QED
    BY <2>1, <2>2
<1>7. ASSUME downs # {} PROVE i \in WayBack(prev)
  <2>1. PICK j \in downs : TRUE
    BY <1>7
  <2>2. j \in WayBack(prev) /\ prev[j].ingress = i /\ j \in Positions
    BY <1>5
  <2>3. i < j
    <3>1. prev[j] \in VirLinks /\ prev[j].egress = j
      BY <1>5
    <3> QED
      BY <2>2, <3>1, VirLinkAt
  <2>4. j \in (i + 1)..Len(PrimPath)
    BY <2>2, <2>3, RsgSubgraphAssumption DEF Positions, RsgSubgraphAssumption
  <2> QED
    BY <2>2, <2>4, WayBackAt
<1>8. downs # {} => d \in downs
  OBVIOUS
<1> HIDE DEF downs, d
<1>9. downs # {} =>
        /\ p.down = prev[d].pathID /\ p.down # NoPath /\ p.up = prev[i].pathID
        /\ prev[d] \in VirLinks /\ prev[d].ingress = i /\ prev[d].egress = d
        /\ Usable(view, prev[d]) /\ d \in WayBack(prev)
  BY <1>3, <1>5, <1>8
<1>10. downs = {} => p.down = NoPath /\ p.up = NoPath
  BY <1>3
<1>11. p.down # NoPath => \E v \in VirLinks :
          /\ v.ingress = i /\ Usable(view, v) /\ v = prev[v.egress]
          /\ v.egress \in WayBack(prev) /\ v.pathID = p.down
  BY <1>9, <1>10
<1>12. p.up # NoPath => \E v \in VirLinks :
          v.egress = i /\ Usable(view, v) /\ v = prev[i] /\ v.pathID = p.up
  <2> SUFFICES ASSUME p.up # NoPath
               PROVE  \E v \in VirLinks :
                        v.egress = i /\ Usable(view, v) /\ v = prev[i] /\ v.pathID = p.up
    OBVIOUS
  <2>1. prev[i] # NoPrev
    BY <1>9, <1>10 DEF NoPrev
  <2>2. prev[i] \in VirLinks /\ prev[i].egress = i /\ Usable(view, prev[i])
    BY <1>1, <2>1
  <2>3. p.up = prev[i].pathID
    BY <1>9, <1>10
  <2> QED
    BY <2>2, <2>3
<1>13. i \in WayBack(prev) /\ i # Len(PrimPath) => p.down # NoPath
  BY <1>6, <1>9
<1>14. p.down # NoPath => p.up = prev[i].pathID /\ i \in WayBack(prev)
  BY <1>7, <1>9, <1>10
<1> QED
  BY <1>11, <1>12, <1>13, <1>14 DEF p, prev
===============================================================================
