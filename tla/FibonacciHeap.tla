---------------------------- MODULE FibonacciHeap -----------------------------
(***************************************************************************)
(* class FibonacciHeap: the priority queue of the route searches.  They    *)
(* insert every node once, the source with the greatest key, then remove   *)
(* the greatest and increase keys (negated delays) in any order.           *)
(* The circular lists are sequences: roots starts at maxNode, kids[y] at   *)
(* the child y points to; the degree of y is the length of kids[y].        *)
(***************************************************************************)
EXTENDS Integers, FiniteSets, SequencesExt

CONSTANTS
  NumNodes,    \* inserted in the order 1..NumNodes
  Source,      \* the node the search starts from
  Top,         \* keys are in 0..Top; all but the source start with 0
  MaxUpdates   \* bound: keys increased in a behaviour

FibonacciHeapAssumption ==
  /\ NumNodes \in Nat \ {0}
  /\ Source \in 1..NumNodes
  /\ Top \in Nat
  /\ MaxUpdates \in Nat

VARIABLES
  roots, kids, mark,
  key,         \* the array of the caller that the key function reads
  size,        \* numberOfNodes
  updates      \* history: keys increased

vars == <<roots, kids, mark, key, size, updates>>

Nodes == 1..NumNodes
Forest == [roots |-> roots, kids |-> kids, mark |-> mark]

-------------------------------------------------------------------------------
\* Next to the head, which is maxNode (or the child pointer).
RightOfHead(s, x) == IF s = <<>> THEN <<x>> ELSE <<Head(s), x>> \o Tail(s)

\* The same circular list, from x on.
StartAt(s, x) ==
  LET i == CHOOSE j \in 1..Len(s) : s[j] = x
  IN  SubSeq(s, i, Len(s)) \o SubSeq(s, 1, i - 1)

\* Adds a root and keeps maxNode at a root with the greatest key.
AddRoot(k, s, x) ==
  IF s # <<>> /\ k[x] > k[Head(s)] THEN StartAt(RightOfHead(s, x), x) ELSE RightOfHead(s, x)

ParentOf(f, x) == {y \in Nodes : x \in ToSet(f.kids[y])}
Degree(f, x) == Len(f.kids[x])

Cut(f, x, y) ==
  [f EXCEPT !.roots = RightOfHead(@, x), !.kids[y] = Remove(@, x), !.mark[x] = FALSE]

\* Mutant: a node that loses a second child stays where it is.
CascadingCutNever(f, y) == IF ParentOf(f, y) = {} THEN f ELSE [f EXCEPT !.mark[y] = TRUE]

\* Upwards from y, which lost a child: the marked nodes that are no roots are cut, up to
\* the first that is not marked, which is marked, or to a root.
CascadingCut(f, y) ==
  LET above[x \in Nodes] ==
        IF ParentOf(f, x) = {} \/ ~ f.mark[x] THEN <<x>>
        ELSE <<x>> \o above[CHOOSE p \in ParentOf(f, x) : TRUE]
      path == above[y]
      top  == Last(path)
      g    == FoldLeft(LAMBDA h, i : Cut(h, path[i], path[i + 1]), f,
                       [i \in 1..(Len(path) - 1) |-> i])
  IN  IF ParentOf(f, top) = {} THEN g ELSE [g EXCEPT !.mark[top] = TRUE]

\* k holds the new key already.
IncreaseKey(f, k, x) ==
  LET above == {y \in ParentOf(f, x) : k[x] > k[y]}
      g == IF above = {} THEN f
           ELSE LET y == CHOOSE p \in above : TRUE IN CascadingCut(Cut(f, x, y), y)
  IN  IF k[x] > k[Head(g.roots)] THEN [g EXCEPT !.roots = StartAt(@, x)] ELSE g

MakeChild(f, y, x) == [f EXCEPT !.kids[x] = RightOfHead(@, y), !.mark[y] = FALSE]

\* One root put in the degree table, which holds at most one of each degree: while a
\* place is taken, the roots are joined and the greater moves on; a join takes one out.
PutByDegree(k, s, root) ==
  LET SameDegree(t) == {y \in t.table : Degree(t.f, y) = Degree(t.f, t.root)}
      Joined(t, y) ==
        LET winner == IF k[t.root] < k[y] THEN y ELSE t.root
            loser  == IF k[t.root] < k[y] THEN t.root ELSE y
        IN  [f |-> MakeChild(t.f, loser, winner), table |-> t.table \ {y}, root |-> winner]
      JoinOnce(t, i) ==
        IF SameDegree(t) = {} THEN t ELSE Joined(t, CHOOSE w \in SameDegree(t) : TRUE)
      alone == FoldLeft(JoinOnce, [f |-> s.f, table |-> s.table, root |-> root],
                        [i \in 1..Cardinality(s.table) |-> i])
  IN  [f |-> alone.f, table |-> alone.table \cup {alone.root}]

DegreewiseMerge(f, k) ==
  LET s == FoldLeft(LAMBDA t, x : PutByDegree(k, t, x), [f |-> f, table |-> {}], f.roots)
      byDegree == SetToSortSeq(s.table, LAMBDA x, y : Degree(s.f, x) < Degree(s.f, y))
  IN  [s.f EXCEPT !.roots = FoldLeft(LAMBDA r, x : AddRoot(k, r, x), <<>>, byDegree)]

\* Its children become roots to the left of the others.
WithoutMax(f) ==
  LET z == Head(f.roots)
  IN  [f EXCEPT !.roots = Reverse(f.kids[z]) \o Tail(@), !.kids[z] = <<>>]

-------------------------------------------------------------------------------
Init ==
  /\ key = [x \in Nodes |-> IF x = Source THEN Top ELSE 0]
  /\ roots = FoldLeft(LAMBDA r, x : AddRoot(key, r, x), <<>>, [i \in Nodes |-> i])
  /\ kids = [x \in Nodes |-> <<>>]
  /\ mark = [x \in Nodes |-> FALSE]
  /\ size = NumNodes
  /\ updates = 0

Become(f) == roots' = f.roots /\ kids' = f.kids /\ mark' = f.mark

RemoveMax ==
  /\ size > 0
  /\ Become(DegreewiseMerge(WithoutMax(Forest), key))
  /\ size' = size - 1
  /\ UNCHANGED <<key, updates>>

\* A node and those below it.
Below(f, x) ==
  LET below[y \in Nodes] == {y} \cup UNION {below[z] : z \in ToSet(f.kids[y])} IN below[x]

Held == UNION {Below(Forest, x) : x \in ToSet(roots)}

\* The searches increase the keys of nodes still held (isNodeIdInQ).
UpdateKey(x, k) ==
  /\ updates < MaxUpdates
  /\ k > key[x]
  /\ x \in Held
  /\ key' = [key EXCEPT ![x] = k]
  /\ Become(IncreaseKey(Forest, key', x))
  /\ updates' = updates + 1
  /\ UNCHANGED size

Next == RemoveMax \/ \E x \in Nodes, k \in 0..Top : UpdateKey(x, k)

Spec == Init /\ [][Next]_vars

-------------------------------------------------------------------------------
\* Whatever cuts and merges came before, removing takes one node, no node held
\* has a greater key, and no other node is lost; nothing else removes a node.
RemovesGreatest ==
  [][IF size' = size THEN Held' = Held
     ELSE \E z \in Held : /\ Held' = Held \ {z}
                          /\ \A x \in Held : key[x] <= key[z]]_vars

Fib[n \in Nat] == IF n <= 1 THEN n ELSE Fib[n - 1] + Fib[n - 2]

\* A node of degree d stands over at least Fib(d + 2) nodes, itself included: the
\* 45 places of the degree table are enough for as many nodes as an int counts.
DegreesStayLow ==
  \A x \in Held : Cardinality(Below(Forest, x)) >= Fib[Degree(Forest, x) + 2]
===============================================================================
