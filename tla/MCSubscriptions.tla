-------------------------- MODULE MCSubscriptions --------------------------
(* Two checkouts and two overlapping requests: payments, their failure, the end   *)
(* of a subscription and the events of each, delivered in any order and repeated, *)
(* between the requests of a user who subscribes, upgrades and cancels, and whose *)
(* client sends a plan, a status, an id the row has held, or another.             *)
EXTENDS AISettings, TLC

\* A plan, a status with an id of somebody else, or an id the row has held.
ClientBodies ==
  {Sub("premium", "none", NoRef), Sub("none", "canceled", OtherRef)}
    \cup {Sub("none", "none", Session(c)) : c \in Checkouts}

Interchangeable == Permutations(Workers) \cup Permutations(Checkouts)
=============================================================================
