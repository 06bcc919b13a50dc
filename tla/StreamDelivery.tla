--------------------------- MODULE StreamDelivery ---------------------------
(* What DRTP promises an application: it gets published capsules only, each at  *)
(* most once, one by one and in any order.                                      *)
EXTENDS Naturals, Sequences

CONSTANT MaxDataId

VARIABLES published,   \* how many capsules the PMU has published: 0, 1, 2, ...
          delivered    \* the capsules handed to the subscriber

Init == published = 0 /\ delivered = <<>>

Publish == published <= MaxDataId /\ published' = published + 1 /\ UNCHANGED delivered

Deliver(d) ==
  /\ d < published
  /\ \A i \in 1..Len(delivered) : delivered[i] # d
  /\ delivered' = Append(delivered, d)
  /\ UNCHANGED published

Next == Publish \/ \E d \in 0..MaxDataId : Deliver(d)

Spec == Init /\ [][Next]_<<published, delivered>>
=============================================================================
