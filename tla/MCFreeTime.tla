----------------------------- MODULE MCFreeTime -----------------------------
(***************************************************************************)
(* Two days of six units, blocks of one or three.  Two requests cover the  *)
(* two days and end at an earlier time of day than they start, which cuts  *)
(* a third day off; their last block may end where the next day's window   *)
(* begins.  Two have the same dates as each other, so one cache key: one   *)
(* has a window so long that a block reaches into the next day, the other  *)
(* an empty one.                                                           *)
(***************************************************************************)
EXTENDS FreeTime, FiniteSets

At(d, t)   == [day |-> d, time |-> t]
From(e, l) == [earliest |-> e, latest |-> l]

\* start_date = end_date = midnight, as in
\* tests/integration/test_scheduling_icloud.py:52-53.
OneInstant == [start |-> At(1, 0), end |-> At(1, 0), window |-> From(0, 4)]

MCRequests ==
  {[start |-> At(0, 2), end |-> At(2, 0), window |-> w] : w \in {From(0, 4), From(1, 3)}}
  \cup {[start |-> At(0, 0), end |-> At(1, 2), window |-> w] : w \in {From(0, 5), From(2, 2)}}

MCOneInstant == {OneInstant}

\* Events at the start, in the middle and at the end of the windows, one of
\* them across the boundary of a block.
Event(s, e) == [start |-> s, end |-> e]

MCEvents == {Event(0, 1), Event(1, 3), Event(3, 4), Event(6, 7), Event(7, 9)}

\* Calendars with at most two events.
MCCalendars == {c \in SUBSET MCEvents : Cardinality(c) <= 2}
=============================================================================
