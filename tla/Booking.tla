------------------------------ MODULE Booking ------------------------------
(***************************************************************************)
(* What the allocation of time blocks promises, without the lists of slots *)
(* it works on.  Some moments are available.  Each waiting task is decided *)
(* once: it is booked on an interval of available moments, on a day that   *)
(* has room for another block, or it is turned away and nothing changes.   *)
(***************************************************************************)
EXTENDS Integers, FiniteSets

CONSTANT DayLen  \* length of a day

VARIABLES
  waiting,    \* the tasks not decided
  available,  \* the moments not taken
  bookings,   \* the blocks booked: [task, start, end]
  limit       \* how many blocks a day may have

vars == <<waiting, available, bookings, limit>>

On(day) == {b \in bookings : b.start \div DayLen = day}

Init ==
  /\ waiting \subseteq Nat
  /\ available \subseteq Nat
  /\ bookings = {}
  /\ limit \in Nat

TurnAway(task) ==
  /\ waiting' = waiting \ {task}
  /\ UNCHANGED <<available, bookings, limit>>

Book(task, start, end) ==
  /\ start .. end - 1 \subseteq available
  /\ Cardinality(On(start \div DayLen)) < limit
  /\ waiting' = waiting \ {task}
  /\ bookings' = bookings \cup {[task |-> task, start |-> start, end |-> end]}
  /\ available' = available \ (start .. end - 1)
  /\ UNCHANGED limit

Next ==
  \E task \in waiting :
    \/ TurnAway(task)
    \/ \E first, last \in available : first <= last /\ Book(task, first, last + 1)

Spec == Init /\ [][Next]_vars
=============================================================================
