-------------------------- MODULE BlockAllocation --------------------------
(***************************************************************************)
(* TimeBlockGenerator._prioritize_and_allocate and                         *)
(* _try_allocate_task_to_slots (app/scheduling/services/                   *)
(* time_block_generator.py): first-fit allocation of the prioritised tasks *)
(* to the free slots, with a cap on the blocks of a day.                   *)
(*                                                                         *)
(* One action is one turn of the loop over the tasks.  The slots are the   *)
(* list the loop carries along: an urgent task sorts it (and it stays      *)
(* sorted for the tasks after it), a placed block shortens a slot from the *)
(* front, and a block refused by the cap goes back in at the head.         *)
(***************************************************************************)
EXTENDS Integers, Sequences, FiniteSets, Functions, SequencesExt

CONSTANTS
  DayLen,           \* length of a day, in the unit of time (a minute)
  Days,             \* the days the free slots lie in
  FreeSlotLists,    \* the answers of find_free_slots: sequences of slots
  TaskLists,        \* the prioritised tasks: sequences of [duration, urgent],
                    \* duration 0 standing for a task without one
  DefaultDuration,  \* the 30 of "task.duration or 30"
  Caps              \* values of max_blocks_per_day

DayOf(t) == t \div DayLen

ASSUME AllocationAssumption ==
  /\ DayLen \in Nat \ {0}
  /\ DefaultDuration \in Nat \ {0}
  /\ Caps \subseteq Nat \ {0}
  /\ TaskLists \subseteq Seq([duration : Nat, urgent : BOOLEAN])

\* What FreeTime shows of its answers: non-empty and pairwise apart.
ASSUME FreeSlotsAssumption ==
  \A s \in FreeSlotLists :
    /\ s \in Seq([start : Nat, end : Nat])
    /\ \A i \in DOMAIN s :
         /\ s[i].start < s[i].end
         /\ \A t \in s[i].start .. s[i].end - 1 : DayOf(t) \in Days
    /\ \A i, j \in DOMAIN s :
         i # j => s[i].end <= s[j].start \/ s[j].end <= s[i].start

VARIABLES
  free,          \* the list find_free_slots returned
  tasks,         \* prioritized
  cap,           \* max_per_day
  next,          \* the position in prioritized of the next task
  slots,         \* what is left of the free slots
  time_blocks,   \* the blocks allocated, each with the position of its task
  daily_counts   \* date -> blocks allocated on it

vars == <<free, tasks, cap, next, slots, time_blocks, daily_counts>>

-----------------------------------------------------------------------------
Interval == {s \in [start : Nat, end : Nat] : s.start < s.end}

Length(s) == s.end - s.start

Duration(task) == IF task.duration = 0 THEN DefaultDuration ELSE task.duration

\* Mutant: a slot of exactly the required length is passed over.
FitsStrictly(s, i, d) == Length(s[i]) > d

\* Mutant: any slot will do.
FitsAnywhere(s, i, d) == Length(s[i]) > 0

Fits(s, i, d) == Length(s[i]) >= d

\* The first slot of the list that is long enough.
FirstFit(s, d, i) ==
  /\ i \in DOMAIN s
  /\ Fits(s, i, d)
  /\ \A j \in 1 .. i - 1 : ~ Fits(s, j, d)

\* Mutant: a slot used up to its end is kept, empty.
CarveKeepingEmpty(s, i, d) == [s EXCEPT ![i].start = @ + d]

\* The slots left when a block of length d is cut from the front of slot i: a
\* slot used up disappears.
Carve(s, i, d) ==
  IF Length(s[i]) = d THEN RemoveAt(s, i) ELSE [s EXCEPT ![i].start = @ + d]

\* The orders of s by start (the starts differ, so it is one).
SortedByStart(s) ==
  {t \in {[i \in DOMAIN s |-> s[p[i]]] : p \in Bijection(DOMAIN s, DOMAIN s)} :
     \A i, j \in DOMAIN t : i < j => t[i].start <= t[j].start}

\* Mutant: the list is never sorted.
SlotsForUnsorted(task) == {slots}

\* The list a task is tried on: should_prioritize_early(urgency) sorts it.
SlotsFor(task) == IF task.urgent THEN SortedByStart(slots) ELSE {slots}

-----------------------------------------------------------------------------
Init ==
  /\ free \in FreeSlotLists
  /\ tasks \in TaskLists
  /\ cap \in Caps
  /\ next = 1
  /\ slots = free
  /\ time_blocks = <<>>
  /\ daily_counts = [d \in Days |-> 0]

Task == tasks[next]

\* No slot is long enough: the task gets no block.
NoFit ==
  /\ next <= Len(tasks)
  /\ slots' \in SlotsFor(Task)
  /\ \A i \in DOMAIN slots : ~ Fits(slots, i, Duration(Task))
  /\ next' = next + 1
  /\ UNCHANGED <<free, tasks, cap, time_blocks, daily_counts>>

\* Mutant: the refused block is not put back.
SkipFullDayLosingBlock ==
  /\ next <= Len(tasks)
  /\ \E s \in SlotsFor(Task) : \E i \in DOMAIN s :
       /\ FirstFit(s, Duration(Task), i)
       /\ daily_counts[DayOf(s[i].start)] >= cap
       /\ slots' = Carve(s, i, Duration(Task))
  /\ next' = next + 1
  /\ UNCHANGED <<free, tasks, cap, time_blocks, daily_counts>>

\* The first slot that fits begins on a day that has its blocks: the block cut
\* from it goes to the head of the list and the task gets none.  No other slot
\* is tried.
SkipFullDay ==
  /\ next <= Len(tasks)
  /\ \E s \in SlotsFor(Task) : \E i \in DOMAIN s :
       LET d == Duration(Task) IN
       /\ FirstFit(s, d, i)
       /\ daily_counts[DayOf(s[i].start)] >= cap
       /\ slots' = Cons([start |-> s[i].start, end |-> s[i].start + d], Carve(s, i, d))
  /\ next' = next + 1
  /\ UNCHANGED <<free, tasks, cap, time_blocks, daily_counts>>

\* Mutant: the slot the block was cut from stays as it was.
PlaceBlockKeepingSlot ==
  /\ next <= Len(tasks)
  /\ \E s \in SlotsFor(Task) : \E i \in DOMAIN s :
       LET d  == Duration(Task)
           on == DayOf(s[i].start) IN
       /\ FirstFit(s, d, i)
       /\ daily_counts[on] < cap
       /\ slots' = s
       /\ time_blocks' = Append(time_blocks,
            [task |-> next, start |-> s[i].start, end |-> s[i].start + d])
       /\ daily_counts' = [daily_counts EXCEPT ![on] = @ + 1]
  /\ next' = next + 1
  /\ UNCHANGED <<free, tasks, cap>>

\* Mutant: the cap is compared after the fact, one block too late.
PlaceBlockOneTooMany ==
  /\ next <= Len(tasks)
  /\ \E s \in SlotsFor(Task) : \E i \in DOMAIN s :
       LET d  == Duration(Task)
           on == DayOf(s[i].start) IN
       /\ FirstFit(s, d, i)
       /\ daily_counts[on] <= cap
       /\ slots' = Carve(s, i, d)
       /\ time_blocks' = Append(time_blocks,
            [task |-> next, start |-> s[i].start, end |-> s[i].start + d])
       /\ daily_counts' = [daily_counts EXCEPT ![on] = @ + 1]
  /\ next' = next + 1
  /\ UNCHANGED <<free, tasks, cap>>

PlaceBlock ==
  /\ next <= Len(tasks)
  /\ \E s \in SlotsFor(Task) : \E i \in DOMAIN s :
       LET d  == Duration(Task)
           on == DayOf(s[i].start) IN
       /\ FirstFit(s, d, i)
       /\ daily_counts[on] < cap
       /\ slots' = Carve(s, i, d)
       /\ time_blocks' = Append(time_blocks,
            [task |-> next, start |-> s[i].start, end |-> s[i].start + d])
       /\ daily_counts' = [daily_counts EXCEPT ![on] = @ + 1]
  /\ next' = next + 1
  /\ UNCHANGED <<free, tasks, cap>>

Next == NoFit \/ SkipFullDay \/ PlaceBlock

Spec == Init /\ [][Next]_vars

-----------------------------------------------------------------------------
Block == {b \in [task : Nat, start : Nat, end : Nat] : b.start < b.end}

\* The type of every variable; the remaining slots are never empty intervals.
TypeOK ==
  /\ free \in FreeSlotLists
  /\ tasks \in TaskLists
  /\ cap \in Caps
  /\ next \in Nat \ {0}
  /\ slots \in Seq(Interval)
  /\ time_blocks \in Seq(Block)
  /\ daily_counts \in [Days -> Nat]

Apart(a, b) == a.end <= b.start \/ b.end <= a.start

\* No moment is given out twice: the blocks are pairwise apart, and apart from
\* every slot that can still be given out, whatever the order in which slots
\* are cut, put back and sorted.
SlotsApart  == \A i, j \in DOMAIN slots : i # j => Apart(slots[i], slots[j])
BlocksApart == \A i, j \in DOMAIN time_blocks :
                 i # j => Apart(time_blocks[i], time_blocks[j])
BlocksOffSlots == \A i \in DOMAIN time_blocks, j \in DOMAIN slots :
                    Apart(time_blocks[i], slots[j])

NoDoubleBooking == SlotsApart /\ BlocksApart /\ BlocksOffSlots

\* Every block and every remaining slot lies inside one slot of free, so an
\* event the free slots avoid is avoided by the blocks too.
Inside(a) == \E i \in DOMAIN free : free[i].start <= a.start /\ a.end <= free[i].end

StaysInsideFreeSlots ==
  /\ \A i \in DOMAIN time_blocks : Inside(time_blocks[i])
  /\ \A i \in DOMAIN slots : Inside(slots[i])

\* max_blocks_per_day holds for the blocks themselves, counted by the day they
\* begin on, and not only for the counter.
Bookings == {time_blocks[i] : i \in DOMAIN time_blocks}

BlocksOn(d) == {b \in Bookings : DayOf(b.start) = d}

DailyCapRespected == \A d \in Days : Cardinality(BlocksOn(d)) <= cap

\* A task that was passed over either fits nowhere in what is left, or some day
\* has all its blocks.
PassedOver(k) == k < next /\ \A i \in DOMAIN time_blocks : time_blocks[i].task # k

RefusalsJustified ==
  \A k \in DOMAIN tasks : PassedOver(k) =>
    \/ \A i \in DOMAIN slots : ~ (Length(slots[i]) >= Duration(tasks[k]))
    \/ \E d \in Days : Cardinality(BlocksOn(d)) = cap

\* An urgent task is decided by the earliest time it fits in: if the day of
\* that time has room, the task gets a block at that very time, and is not
\* turned away because of a block an earlier task left at the head of the list.
LongEnough(i) == Length(slots[i]) >= Duration(Task)

EarliestFit(i) ==
  LongEnough(i) /\ \A j \in DOMAIN slots : LongEnough(j) => slots[i].start <= slots[j].start

EarliestForUrgent ==
  Task.urgent =>
    \A i \in DOMAIN slots :
      (EarliestFit(i) /\ Cardinality(BlocksOn(DayOf(slots[i].start))) < cap) =>
        \E k \in DOMAIN time_blocks' :
          time_blocks'[k].task = next /\ time_blocks'[k].start = slots[i].start

UrgentTasksEarliest == [][EarliestForUrgent]_vars

\* The allocation implements Booking: whatever is cut, put back and sorted, the
\* moments available are those of the slots, none is lost or won by a task that
\* is passed over, and a block placed takes its own moments and no others.
Moments(s) == UNION {s[i].start .. s[i].end - 1 : i \in DOMAIN s}

Abstract == INSTANCE Booking WITH
  waiting   <- next .. Len(tasks),
  available <- Moments(slots),
  bookings  <- Bookings,
  limit     <- cap

BooksAvailableTime == Abstract!Spec
=============================================================================
