------------------------- MODULE MCBlockAllocation -------------------------
(***************************************************************************)
(* Two days of six units with up to four slots of one to five units, some   *)
(* adjacent, some with an event between them; every list of four tasks of   *)
(* no, one, two or three units, urgent or not; one or two blocks a day.     *)
(***************************************************************************)
EXTENDS BlockAllocation

Slot(s, e) == [start |-> s, end |-> e]

MCFreeSlotLists ==
  {<<Slot(0, 1), Slot(2, 4), Slot(6, 7), Slot(7, 10)>>,
   <<Slot(0, 3), Slot(3, 4), Slot(8, 10)>>,
   <<Slot(0, 1), Slot(6, 11)>>,
   <<>>}

MCTaskLists ==
  LET TaskRecords == [duration : 0 .. 3, urgent : BOOLEAN]
  IN  [1 .. 4 -> TaskRecords]
=============================================================================
