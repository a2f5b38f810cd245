-------------------------- MODULE MCCalendarWrite --------------------------
(***************************************************************************)
(* One confirmation and two requests to /icloud/schedule over a calendar   *)
(* that holds one event, x: the second and third plan have the two write   *)
(* under the same uid, the last has three events to write and roll back.   *)
(***************************************************************************)
EXTENDS CalendarWrite, TLC

CONSTANTS c1, s1, s2, x

MCPlans ==
  LET Plan(c, s, t) == (c1 :> c) @@ (s1 :> s) @@ (s2 :> t) IN
  {Plan(<<NoUid, NoUid>>, <<NoUid, NoUid>>, <<>>),
   Plan(<<NoUid>>, <<x, NoUid>>, <<x>>),
   Plan(<<>>, <<NoUid, x>>, <<NoUid, x>>),
   Plan(<<>>, <<x, NoUid, NoUid>>, <<>>)}
=============================================================================
