------------------------------- MODULE PaList -------------------------------
(***************************************************************************)
(* PaList, with which a node of the frame replication baseline tells a     *)
(* packet from its copies: the IP identifications seen so far, as a list   *)
(* of intervals by increasing id.  len is one less than the number of ids. *)
(*                                                                         *)
(* Positions in the list count from 1, 0 stands for the code's -1.         *)
(***************************************************************************)
EXTENDS Integers, SequencesExt

CONSTANT IdSpace   \* number of identifications: 2^16

VARIABLES
  paList,   \* the intervals
  asked,    \* history: the ids checkPacket was called with
  answers   \* history: how often checkPacket called an id new

listVars == <<paList, asked, answers>>

PaListAssumption == IdSpace \in Nat \ {0}

PacketIds == 0..(IdSpace - 1)
Interval == [id : PacketIds, len : 0..(IdSpace - 1)]

CreateInterval(id, len) == [id |-> id, len |-> len]
End(inter) == inter.id + inter.len

\* The last interval that does not begin behind id.
FindInterval(list, id) ==
  Cardinality({i \in DOMAIN list : \A j \in 1..i : list[j].id <= id})

HasId(list, i, id) == i # 0 /\ list[i].id <= id /\ End(list[i]) >= id

\* Mutant: the interval that begins right behind id is extended but keeps its first id.
AddIdKeepingFirst(list, i, id) ==
  LET before == i + 1 <= Len(list) /\ list[i + 1].id - 1 = id
  IN  IF i = 0 THEN InsertAt(list, 1, CreateInterval(id, 0))
      ELSE IF End(list[i]) = id - 1 THEN
        IF before
        THEN RemoveAt([list EXCEPT ![i].len = @ + list[i + 1].len + 2], i + 1)
        ELSE [list EXCEPT ![i].len = @ + 1]
      ELSE IF before THEN [list EXCEPT ![i + 1].len = @ + 1]
      ELSE InsertAt(list, i + 1, CreateInterval(id, 0))

(***************************************************************************)
(* An id before all intervals gets one of its own, adjacent or not.  Any   *)
(* other extends the interval it follows, which then may reach the next,   *)
(* or the one it precedes.  (The merge in the branch for an id that        *)
(* precedes an interval cannot happen: it would have followed one too.)    *)
(***************************************************************************)
AddId(list, i, id) ==
  LET before == i + 1 <= Len(list) /\ list[i + 1].id - 1 = id
  IN  IF i = 0 THEN InsertAt(list, 1, CreateInterval(id, 0))
      ELSE IF End(list[i]) = id - 1 THEN
        IF before
        THEN RemoveAt([list EXCEPT ![i].len = @ + list[i + 1].len + 2], i + 1)
        ELSE [list EXCEPT ![i].len = @ + 1]
      ELSE IF before THEN [list EXCEPT ![i + 1] = CreateInterval(id, @.len + 1)]
      ELSE InsertAt(list, i + 1, CreateInterval(id, 0))

\* checkPacket: whether the id is new, and the list it leaves.
IsNew(list, id) == ~ HasId(list, FindInterval(list, id), id)
Noted(list, id) ==
  IF IsNew(list, id) THEN AddId(list, FindInterval(list, id), id) ELSE list

-------------------------------------------------------------------------------
ListInit ==
  /\ paList = <<>>
  /\ asked = {}
  /\ answers = [id \in PacketIds |-> 0]

CheckPacket(id) ==
  /\ paList' = Noted(paList, id)
  /\ asked' = asked \cup {id}
  /\ answers' = [answers EXCEPT ![id] = IF IsNew(paList, id) THEN @ + 1 ELSE @]

ListNext == \E id \in PacketIds : CheckPacket(id)

-------------------------------------------------------------------------------
ListTypeOK == paList \in Seq(Interval)

IdsIn(list) == UNION {list[i].id..End(list[i]) : i \in DOMAIN list}

\* In whatever order ids come and come again, each is called new exactly once: the
\* intervals hold the ids seen, in order and without overlap, through all merges.
SeenExactly ==
  /\ IdsIn(paList) = asked
  /\ \A i \in 1..(Len(paList) - 1) : End(paList[i]) < paList[i + 1].id
  /\ \A id \in PacketIds : answers[id] = IF id \in asked THEN 1 ELSE 0
=============================================================================
