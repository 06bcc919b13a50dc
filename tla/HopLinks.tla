------------------------------ MODULE HopLinks ------------------------------
(* The chain of routers the baseline protocols (SDATP, MFTP, R2T) run on.  Hop *)
(* h joins router h to router h + 1; `down' and `up' hold, for each hop, what  *)
(* travels from and to the publisher, in order: the links are point to point.  *)
(* Router 1 takes the Data of the publisher's application and has no entry     *)
(* upwards, router Last serves the subscriber and has no entry downwards.      *)
EXTENDS Integers, Sequences

CONSTANT Last

ASSUME LastAssumption == Last \in Nat \ {0}

Routers == 1..Last
Hops    == 1..(Last - 1)

NoMessages == [h \in Hops |-> <<>>]

\* lookupForwardingEntry: direction 1 is the way to the subscriber, 0 back.
HasFaceDown(r) == r \in Hops
HasFaceUp(r)   == r - 1 \in Hops

SendDown(q, r, msgs) == IF HasFaceDown(r) THEN [q EXCEPT ![r] = @ \o msgs] ELSE q
SendUp(q, r, msgs)   == IF HasFaceUp(r) THEN [q EXCEPT ![r - 1] = @ \o msgs] ELSE q

Taken(q, h) == [q EXCEPT ![h] = Tail(@)]

\* The messages under way on a hop.
OnHop(q, h) == {q[h][i] : i \in 1..Len(q[h])}
=============================================================================
