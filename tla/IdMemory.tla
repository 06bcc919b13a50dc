------------------------------- MODULE IdMemory -------------------------------
(***************************************************************************)
(* What the router expects of the ids it remembers as transmitted: an id   *)
(* is learnt once, and it is forgotten only when it is taken out, oldest   *)
(* first.  Learning an id never makes the router forget another.           *)
(***************************************************************************)
EXTENDS Sequences, Integers

CONSTANT Ids

VARIABLE known  \* the remembered ids, oldest first

Known == {known[i] : i \in 1..Len(known)}

Init == known = <<>>

Learn == \E x \in Ids \ Known : known' = Append(known, x)

Forget == known # <<>> /\ known' = Tail(known)

Next == Learn \/ Forget

Spec == Init /\ [][Next]_known
===============================================================================
