----------------------------- MODULE GraphLoading -----------------------------
(***************************************************************************)
(* class LltcGraph: the graph of routers and links that a file describes,  *)
(* read line by line by one of three loaders, and the virtual node that    *)
(* the route searches join to other nodes and remove again.  A line is the *)
(* tuple of the fields its pattern picks; a text that no pattern matches   *)
(* is an empty tuple.  Nodes are indices from 0, as in the array `nodes`.  *)
(***************************************************************************)
EXTENDS Integers, Sequences, SequencesExt, FiniteSets

CONSTANTS
  BusLists,      \* the numbers of the buses, in the order the file lists them
  BranchLists,   \* the pairs of numbers that its branches join, in order
  Tails,         \* the lines behind the branches: other sections of the file
  MaxNodes       \* the longest of BusLists

GraphLoadingAssumption ==
  /\ \A b \in BusLists : b # <<>> /\ Len(b) <= MaxNodes /\ IsInjective(b)
  /\ \A br \in BranchLists : \A k \in DOMAIN br : br[k][1] # br[k][2]

VARIABLES
  format, buses, branches,   \* what the file says
  file,                      \* its lines
  state, at,                 \* of the loader, and the line it reads next
  nodeIdToIdx, nodeIdx, nNodes,
  links, virtLinks,          \* link id -> <<nodeA, nodeB>>; virtual ids follow the others
  eLinks, iLinks,            \* node -> the ids of its links
  loaded

vars == <<format, buses, branches, file, state, at, nodeIdToIdx, nodeIdx, nNodes, links, virtLinks,
          eLinks, iLinks, loaded>>

Text == <<>>
Blank == <<-1>>
Bus(n) == <<n>>
Branch(pair) == pair

\* The files of the three formats.  A line of CSV holds the number of nodes or a branch.
Lines(f, bs, brs, tail) ==
  CASE f = "ieee" ->
         <<Text, Text>> \o [k \in DOMAIN bs |-> Bus(bs[k])] \o <<Text, Text>>
           \o [k \in DOMAIN brs |-> Branch(brs[k])] \o <<Text>> \o tail
    [] f = "brite" ->
         <<Text, Text, Blank, Text>> \o [k \in DOMAIN bs |-> Bus(bs[k])] \o <<Blank, Blank, Text>>
           \o [k \in DOMAIN brs |-> Branch(brs[k])] \o <<Text>> \o tail
    [] f = "csv" ->
         <<Blank, Bus(Len(bs))>> \o [k \in DOMAIN brs |-> Branch(brs[k])] \o <<Text, Blank>>

Formats == {"ieee", "brite", "csv"}

\* The nodes of a CSV file are numbered as their indices are.
Init ==
  /\ format \in Formats
  /\ buses \in BusLists
  /\ branches \in BranchLists
  /\ format = "csv" => buses = [k \in DOMAIN buses |-> k - 1]
  /\ \E tail \in Tails : file = Lines(format, buses, branches, tail)
  /\ state = 0
  /\ at = 1
  /\ nodeIdToIdx = <<>>
  /\ nodeIdx = 0
  /\ nNodes = 0
  /\ links = <<>>
  /\ virtLinks = <<>>
  /\ eLinks = [n \in 0..MaxNodes |-> <<>>]
  /\ iLinks = [n \in 0..MaxNodes |-> <<>>]
  /\ loaded = FALSE

-------------------------------------------------------------------------------
Ends(id) == LET l == (links \o virtLinks)[id + 1] IN {l[1], l[2]}

\* getLinkByNodeIds(a, b) # NULL
Linked(a, b) == \E id \in Range(eLinks[a]) : b \in Ends(id)

\* The index of a number, 0 for one that no bus has.
Idx(n) == IF n \in DOMAIN nodeIdToIdx THEN nodeIdToIdx[n] ELSE 0

Reading(line) ==
  /\ ~loaded
  /\ at <= Len(file)
  /\ line = file[at]
  /\ at' = at + 1
  /\ UNCHANGED <<format, buses, branches, file, virtLinks, loaded>>

NodesKept == UNCHANGED <<nodeIdToIdx, nodeIdx, nNodes>>
LinksKept == UNCHANGED <<links, eLinks, iLinks>>

SkipBlank(line) ==
  /\ Reading(line)
  /\ line = Blank
  /\ UNCHANGED state /\ NodesKept /\ LinksKept

\* A line that only moves the loader on, or not even that.
Skip(line, next) ==
  /\ Reading(line)
  /\ line # Blank
  /\ state' = next
  /\ NodesKept /\ LinksKept

\* The pattern of a bus also matches a branch.
ReadBus(line) ==
  /\ Reading(line)
  /\ line \notin {Blank, Text}
  /\ nodeIdToIdx' = [n \in DOMAIN nodeIdToIdx \cup {line[1]} |->
                       IF n = line[1] THEN nodeIdx ELSE nodeIdToIdx[n]]
  /\ nodeIdx' = nodeIdx + 1
  /\ UNCHANGED <<state, nNodes>> /\ LinksKept

\* The array of the nodes read so far.
BuildNodes(line) ==
  /\ Reading(line)
  /\ line # Blank
  /\ nNodes' = nodeIdx
  /\ state' = 4
  /\ UNCHANGED <<nodeIdToIdx, nodeIdx>> /\ LinksKept

\* The first line of a CSV file makes the nodes.
ReadNumber(line) ==
  /\ Reading(line)
  /\ line # Blank
  /\ nNodes' = line[1]
  /\ nodeIdx' = line[1]
  /\ nodeIdToIdx' = [n \in 0..(line[1] - 1) |-> n]
  /\ state' = 1
  /\ LinksKept

\* addLinkDual: the new link is appended to all lists of both nodes.
WithLink(lists, x, y, id) ==
  [n \in DOMAIN lists |-> lists[n] \o (IF n = x THEN <<id>> ELSE <<>>) \o (IF n = y THEN <<id>> ELSE <<>>)]

\* A link is added unless the one node has a link to the other already.
ReadBranch(line) ==
  /\ Reading(line)
  /\ Len(line) = 2
  /\ LET x == Idx(line[1])
         y == Idx(line[2])
     IN  IF Linked(x, y) THEN LinksKept
         ELSE /\ links' = Append(links, <<y, x>>)
              /\ eLinks' = WithLink(eLinks, x, y, Len(links))
              /\ iLinks' = WithLink(iLinks, x, y, Len(links))
  /\ UNCHANGED state /\ NodesKept

\* Mutant: only the end of the file ends the branches.
LoadFromIEEEDataFileToTheEnd(line) ==
  /\ format = "ieee"
  /\ \/ state < 2 /\ Skip(line, state + 1)
     \/ state = 2 /\ ReadBus(line)
     \/ state = 2 /\ line = Text /\ Skip(line, 3)
     \/ state = 3 /\ BuildNodes(line)
     \/ state = 4 /\ ReadBranch(line)
     \/ state = 4 /\ line = Text /\ Skip(line, 4)

\* The line after the buses is used up before the branches begin, and the branches end
\* with the first line that is none.
LoadFromIEEEDataFile(line) ==
  /\ format = "ieee"
  /\ \/ state < 2 /\ Skip(line, state + 1)
     \/ state = 2 /\ ReadBus(line)
     \/ state = 2 /\ line = Text /\ Skip(line, 3)
     \/ state = 3 /\ BuildNodes(line)
     \/ state = 4 /\ ReadBranch(line)
     \/ state = 4 /\ line = Text /\ Skip(line, 5)
     \/ state = 5 /\ Skip(line, 5)

\* Here the line that ends the nodes builds the array.
LoadFromBriteDataFile(line) ==
  /\ format = "brite"
  /\ \/ state < 3 /\ Skip(line, state + 1)
     \/ state = 3 /\ ReadBus(line)
     \/ state = 3 /\ line = Text /\ BuildNodes(line)
     \/ state = 4 /\ ReadBranch(line)
     \/ state = 4 /\ line = Text /\ Skip(line, 5)
     \/ state = 5 /\ Skip(line, 5)

\* Lines that are no branches are passed over.
LoadFromCSVDataFile(line) ==
  /\ format = "csv"
  /\ \/ state = 0 /\ ReadNumber(line)
     \/ state = 1 /\ ReadBranch(line)
     \/ state = 1 /\ line = Text /\ Skip(line, 1)

\* The virtual node is the last of the array.
EndOfFile ==
  /\ ~loaded
  /\ at > Len(file)
  /\ loaded' = TRUE
  /\ UNCHANGED <<format, buses, branches, file, state, at, nodeIdToIdx, nodeIdx, nNodes, links,
                 virtLinks, eLinks, iLinks>>

virDstNode == nNodes

-------------------------------------------------------------------------------
\* The links are appended to both nodes in the order of the neighbours.
AddVirtNode(neighbours) ==
  LET id(k) == Len(links) + Len(virtLinks) + k - 1
      new(n) == IF n = virDstNode THEN [k \in DOMAIN neighbours |-> id(k)]
                ELSE [k \in 1..Cardinality({j \in DOMAIN neighbours : neighbours[j] = n}) |->
                        id(CHOOSE j \in DOMAIN neighbours : neighbours[j] = n)]
  IN  /\ loaded
      /\ virtLinks = <<>>
      /\ virtLinks' = [k \in DOMAIN neighbours |-> <<neighbours[k], virDstNode>>]
      /\ eLinks' = [n \in DOMAIN eLinks |-> eLinks[n] \o new(n)]
      /\ iLinks' = [n \in DOMAIN iLinks |-> iLinks[n] \o new(n)]
      /\ UNCHANGED <<format, buses, branches, file, state, at, nodeIdToIdx, nodeIdx, nNodes, links, loaded>>

RemoveVirtNode ==
  /\ loaded
  /\ virtLinks # <<>>
  /\ LET without(lists, gone) ==
           [n \in DOMAIN lists |->
              IF n = virDstNode THEN <<>> ELSE SelectSeq(lists[n], LAMBDA id : id \notin Range(gone))]
     IN  /\ iLinks' = without(iLinks, eLinks[virDstNode])
         /\ eLinks' = without(eLinks, iLinks[virDstNode])
  /\ virtLinks' = <<>>
  /\ UNCHANGED <<format, buses, branches, file, state, at, nodeIdToIdx, nodeIdx, nNodes, links, loaded>>

\* The searches join the virtual node to nodes of the primary path, in its order.
Next ==
  \/ \E line \in Range(file) :
       \/ SkipBlank(line)
       \/ LoadFromIEEEDataFile(line) \/ LoadFromBriteDataFile(line) \/ LoadFromCSVDataFile(line)
  \/ EndOfFile
  \/ \E nb \in SeqOf(0..(nNodes - 1), nNodes) : nb # <<>> /\ IsInjective(nb) /\ AddVirtNode(nb)
  \/ RemoveVirtNode

Spec == Init /\ [][Next]_vars

-------------------------------------------------------------------------------
\* The file as it is meant: bus k is node k - 1, and a number without a bus is the first node.
NodeOf(n) ==
  IF n \in Range(buses) THEN (CHOOSE k \in DOMAIN buses : buses[k] = n) - 1 ELSE 0
Described == {{NodeOf(branches[k][1]), NodeOf(branches[k][2])} : k \in DOMAIN branches}

\* A loaded graph is the one described, whatever the order of the two numbers of a
\* branch, repeated branches and the sections behind: the nodes of the buses and one
\* link for each pair of different nodes with a branch.
LoadsDescribed ==
  loaded =>
    /\ nNodes = Len(buses)
    /\ {Ends(id) : id \in 0..(Len(links) - 1)} \ {{0}} = Described \ {{0}}
    /\ Cardinality({Ends(id) : id \in 0..(Len(links) - 1)}) = Len(links)

\* The lists of a node name each of its links once for each of its ends, and the
\* virtual node leaves no link behind.
ListsAgree ==
  /\ eLinks = iLinks
  /\ \A n \in DOMAIN eLinks : \A id \in 0..(Len(links) + Len(virtLinks) - 1) :
       Cardinality({k \in DOMAIN eLinks[n] : eLinks[n][k] = id}) =
         Cardinality({e \in {1, 2} : (links \o virtLinks)[id + 1][e] = n})
  /\ \A n \in DOMAIN eLinks : Range(eLinks[n]) \subseteq 0..(Len(links) + Len(virtLinks) - 1)
===============================================================================
