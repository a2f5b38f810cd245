--------------------- MODULE BlockAllocation_refinement ---------------------
(***************************************************************************)
(* The proof that the allocation of BlockAllocation, with its lists that   *)
(* are sorted, cut and put back together, implements Booking: what counts  *)
(* is the set of moments the slots cover.  Sorting and putting a block     *)
(* back leave it as it is, cutting a block out takes the block's moments   *)
(* away and, because the slots are apart, no others stay behind twice.     *)
(***************************************************************************)
EXTENDS BlockAllocation_proofs

-----------------------------------------------------------------------------
(* The moments of a list of slots                                          *)

Span(a) == a.start .. a.end - 1

\* A moment of the list is a moment of one of its slots.
LEMMA MomentOfSlot ==
  ASSUME NEW s, NEW m
  PROVE  m \in Moments(s) <=> \E i \in DOMAIN s : m \in Span(s[i])
BY DEF Moments, Span

\* Sorting the slots keeps their moments.
LEMMA MomentsSorted ==
  ASSUME NEW s \in Seq(Interval), NEW t \in SortedByStart(s)
  PROVE  Moments(t) = Moments(s)
<1>1. PICK p \in Bijection(DOMAIN s, DOMAIN s) : t = [i \in DOMAIN s |-> s[p[i]]]
  BY DEF SortedByStart
<1>2. p \in [DOMAIN s -> DOMAIN s] /\ \A j \in DOMAIN s : \E i \in DOMAIN s : p[i] = j
  BY <1>1 DEF Bijection, Surjection
<1>3. ASSUME NEW m PROVE m \in Moments(t) <=> m \in Moments(s)
  <2>1. (\E i \in DOMAIN t : m \in Span(t[i])) <=> (\E j \in DOMAIN s : m \in Span(s[j]))
    BY <1>1, <1>2
  <2> QED
    BY <2>1, MomentOfSlot
<1> QED
  BY <1>3

\* The list a task is tried on has the moments of the slots.
LEMMA MomentsSlotsFor ==
  ASSUME slots \in Seq(Interval), NEW s \in SlotsFor(Task)
  PROVE  Moments(s) = Moments(slots)
BY MomentsSorted DEF SlotsFor

\* Putting a block at the head of a list adds its moments.
LEMMA MomentsCons ==
  ASSUME NEW s \in Seq(Interval), NEW e \in Interval
  PROVE  Moments(Cons(e, s)) = Moments(s) \cup Span(e)
<1> DEFINE t == Cons(e, s)
<1>1. /\ DOMAIN t = 1 .. Len(s) + 1
      /\ t[1] = e
      /\ \A k \in 2 .. Len(s) + 1 : t[k] = s[k - 1] /\ k - 1 \in DOMAIN s
  BY ConsProperties
<1>2. Len(s) \in Nat /\ DOMAIN s = 1 .. Len(s)
  BY LenProperties
<1> HIDE DEF t
<1>3. ASSUME NEW m, m \in Moments(t) PROVE m \in Moments(s) \cup Span(e)
  <2>1. PICK k \in 1 .. Len(s) + 1 : m \in Span(t[k])
    BY <1>1, <1>3, MomentOfSlot
  <2>2. CASE k = 1
    BY <1>1, <2>1, <2>2
  <2>3. CASE k # 1
    <3>1. k \in 2 .. Len(s) + 1
      BY <1>2, <2>3
    <3>2. k - 1 \in DOMAIN s /\ m \in Span(s[k - 1])
      BY <1>1, <2>1, <3>1
    <3> QED
      BY <3>2, MomentOfSlot
  <2> QED
    BY <2>2, <2>3
<1>4. ASSUME NEW m, m \in Moments(s) PROVE m \in Moments(t)
  <2>1. PICK k \in 1 .. Len(s) : m \in Span(s[k])
    BY <1>2, <1>4, MomentOfSlot
  <2>2. k + 1 \in 2 .. Len(s) + 1 /\ (k + 1) - 1 = k
    BY <1>2
  <2>3. t[k + 1] = s[k] /\ k + 1 \in DOMAIN t
    BY <1>1, <1>2, <2>2
  <2> QED
    BY <2>1, <2>3, MomentOfSlot
<1>5. ASSUME NEW m, m \in Span(e) PROVE m \in Moments(t)
  <2>1. 1 \in DOMAIN t
    BY <1>1, <1>2
  <2> QED
    BY <1>1, <1>5, <2>1, MomentOfSlot
<1>6. Moments(t) = Moments(s) \cup Span(e)
  BY <1>3, <1>4, <1>5
<1> QED
  BY <1>6 DEF t

\* Intervals that are apart share no moment.
LEMMA ApartShareNothing ==
  ASSUME NEW a \in Interval, NEW b \in Interval, Apart(a, b), NEW m \in Span(a)
  PROVE  m \notin Span(b)
BY DEF Interval, Apart, Span

\* Cutting a block from the front of a slot takes its moments away and no others.
LEMMA MomentsCarve ==
  ASSUME NEW s \in Seq(Interval), NEW i \in DOMAIN s, NEW d \in Nat \ {0},
         Length(s[i]) >= d, PairwiseApart(s)
  PROVE  /\ Moments(Carve(s, i, d)) = Moments(s) \ Span(Cut(s, i, d))
         /\ Span(Cut(s, i, d)) \subseteq Moments(s)
<1> DEFINE t == Carve(s, i, d)
           c == Cut(s, i, d)
<1>1. s[i] \in Interval /\ i \in 1 .. Len(s) /\ DOMAIN s = 1 .. Len(s) /\ Len(s) \in Nat
  BY LenProperties
<1>2. c \in Interval /\ c.start = s[i].start /\ c.end = s[i].start + d /\ c.end <= s[i].end
  <2>1. c \in Interval /\ Within(c, s[i])
    BY CutWithin
  <2> QED
    BY <2>1 DEF Cut, Within
<1>3. t \in Seq(Interval) /\ \A k \in DOMAIN t : Apart(t[k], c)
  BY CarveShrinks
<1>4. ASSUME NEW m \in Span(s[i]), m \notin Span(c) PROVE m \in Moments(t)
  <2>1. s[i].start \in Nat /\ s[i].end \in Nat /\ d \in Nat
    BY <1>1, IntervalBounds
  <2>2. m \in s[i].start + d .. s[i].end - 1
    BY <1>2, <1>4, <2>1 DEF Span
  <2>3. Length(s[i]) # d
    BY <2>1, <2>2 DEF Length
  <2>4. t = [s EXCEPT ![i].start = @ + d]
    BY <2>3 DEF Carve
  <2> HIDE DEF t
  <2>5. i \in DOMAIN t /\ t[i] = [s[i] EXCEPT !.start = @ + d]
    BY <1>1, <2>4
  <2>6. t[i].start = s[i].start + d /\ t[i].end = s[i].end
    <3>1. Length(s[i]) > d
      BY <2>1, <2>3 DEF Length
    <3>2. s[i].start + d < s[i].end
      BY <2>1, <3>1 DEF Length
    <3> QED
      BY <1>1, <2>5, <3>2, LaterStart
  <2>7. m \in Span(t[i])
    BY <2>2, <2>6 DEF Span
  <2> QED
    BY <2>5, <2>7, MomentOfSlot
<1>5. ASSUME NEW k \in DOMAIN s, k # i PROVE \E j \in DOMAIN t : t[j] = s[k]
  <2>1. CASE Length(s[i]) = d
    <3>1. t = RemoveAt(s, i)
      BY <2>1 DEF Carve
    <3>2. /\ DOMAIN t = 1 .. Len(s) - 1
          /\ \A j \in 1 .. Len(s) - 1 : t[j] = IF j < i THEN s[j] ELSE s[j + 1]
      BY <3>1, RemoveAtProperties, LenProperties
    <3> HIDE DEF t
    <3>3. CASE k < i
      BY <1>1, <3>2, <3>3
    <3>4. CASE k > i
      <4>1. k - 1 \in 1 .. Len(s) - 1 /\ ~ (k - 1 < i) /\ (k - 1) + 1 = k
        BY <1>1, <3>4
      <4> QED
        BY <3>2, <4>1
    <3> QED
      BY <1>1, <1>5, <3>3, <3>4
  <2>2. CASE Length(s[i]) # d
    <3>1. t = [s EXCEPT ![i].start = @ + d]
      BY <2>2 DEF Carve
    <3> QED
      BY <1>5, <3>1
  <2> QED
    BY <2>1, <2>2
<1>6. ASSUME NEW m \in Moments(s), m \notin Span(c) PROVE m \in Moments(t)
  <2>1. PICK k \in DOMAIN s : m \in Span(s[k])
    BY <1>6, MomentOfSlot
  <2>2. CASE k = i
    BY <1>4, <1>6, <2>1, <2>2
  <2>3. CASE k # i
    <3>1. PICK j \in DOMAIN t : t[j] = s[k]
      BY <1>5, <2>3
    <3> QED
      BY <2>1, <3>1, MomentOfSlot
  <2> QED
    BY <2>2, <2>3
<1>7. ASSUME NEW m \in Moments(t) PROVE m \in Moments(s) /\ m \notin Span(c)
  <2>1. PICK k \in DOMAIN t : m \in Span(t[k])
    BY <1>7, MomentOfSlot
  <2>2. t[k] \in Interval
    BY <1>3
  <2>3. m \notin Span(c)
    BY <1>2, <1>3, <2>1, <2>2, ApartShareNothing
  <2>4. PICK f : ShrinksBy(s, t, f)
    BY CarveShrinks DEF ShrinksTo
  <2>5. f[k] \in DOMAIN s /\ Within(t[k], s[f[k]])
    BY <2>4 DEF ShrinksBy
  <2>6. s[f[k]] \in Interval
    BY <2>5
  <2>7. m \in Span(s[f[k]])
    BY <2>1, <2>2, <2>5, <2>6, IntervalBounds DEF Span, Within
  <2> QED
    BY <2>3, <2>5, <2>7, MomentOfSlot
<1>8. ASSUME NEW m \in Span(c) PROVE m \in Moments(s)
  <2>1. m \in Span(s[i])
    BY <1>1, <1>2, IntervalBounds DEF Span
  <2> QED
    BY <2>1, MomentOfSlot
<1> QED
  BY <1>6, <1>7, <1>8

-----------------------------------------------------------------------------
(* The refinement                                                          *)

\* The list before the loop offers moments, and nothing is booked.
LEMMA InitRefines == Init => Abstract!Init
<1> SUFFICES ASSUME Init PROVE Abstract!Init
  OBVIOUS
<1>1. TypeOK /\ Bookings = {}
  <2>1. TypeOK
    BY InitInv DEF IInv
  <2> QED
    BY <2>1 DEF Init, Bookings
<1>2. Moments(slots) \subseteq Nat
  <2>1. ASSUME NEW m \in Moments(slots) PROVE m \in Nat
    <3>1. PICK i \in DOMAIN slots : m \in Span(slots[i])
      BY MomentOfSlot
    <3>2. slots[i] \in Interval
      BY <1>1 DEF TypeOK
    <3> QED
      BY <3>1, <3>2, IntervalBounds DEF Span
  <2> QED
    BY <2>1
<1>3. next .. Len(tasks) \subseteq Nat
  <2>1. next \in Nat
    BY <1>1 DEF TypeOK
  <2>2. Len(tasks) \in Nat
    BY <1>1, AllocationAssumption, LenProperties DEF TypeOK
  <2> QED
    BY <2>1, <2>2
<1>4. cap \in Nat
  BY <1>1, AllocationAssumption DEF TypeOK
<1> QED
  BY <1>1, <1>2, <1>3, <1>4 DEF Abstract!Init

\* Deciding the next task takes it, and no other, off the waiting tasks.
LEMMA OneTaskLess ==
  ASSUME TypeOK, next <= Len(tasks), next' = next + 1, tasks' = tasks
  PROVE  /\ next \in next .. Len(tasks)
         /\ (next .. Len(tasks))' = (next .. Len(tasks)) \ {next}
<1>1. next \in Nat
  BY DEF TypeOK
<1>2. Len(tasks) \in Nat
  BY AllocationAssumption, LenProperties DEF TypeOK
<1> QED
  BY <1>1, <1>2

\* A task that gets no block and leaves the moments as they are is turned away.
LEMMA TurnedAway ==
  ASSUME TypeOK, next <= Len(tasks), next' = next + 1, Moments(slots') = Moments(slots),
         UNCHANGED <<free, tasks, cap, time_blocks, daily_counts>>
  PROVE  Abstract!Next
<1>1. /\ next \in next .. Len(tasks)
      /\ (next .. Len(tasks))' = (next .. Len(tasks)) \ {next}
  BY OneTaskLess
<1>2. Moments(slots)' = Moments(slots) /\ Bookings' = Bookings
  BY DEF Moments, Bookings
<1>3. Abstract!TurnAway(next)
  BY <1>1, <1>2 DEF Abstract!TurnAway
<1> QED
  BY <1>1, <1>3 DEF Abstract!Next

\* A task that fits nowhere is turned away, though the slots may be sorted.
LEMMA NoFitRefines == IInv /\ NoFit => Abstract!Next
<1> SUFFICES ASSUME IInv, NoFit PROVE Abstract!Next
  OBVIOUS
<1>1. TypeOK /\ slots \in Seq(Interval)
  BY DEF IInv, TypeOK
<1>2. Moments(slots') = Moments(slots)
  BY <1>1, MomentsSlotsFor DEF NoFit
<1> QED
  BY <1>1, <1>2, TurnedAway DEF NoFit

\* The slot a block is cut from: what CutClear and MomentsCarve say of it.
LEMMA CutMoments ==
  ASSUME IInv, next <= Len(tasks), NEW s \in SlotsFor(Task), NEW i \in DOMAIN s,
         FirstFit(s, Duration(Task), i)
  PROVE  /\ Moments(Carve(s, i, Duration(Task)))
              = Moments(slots) \ Span(Cut(s, i, Duration(Task)))
         /\ Span(Cut(s, i, Duration(Task))) \subseteq Moments(slots)
<1>1. TypeOK /\ Clear(s)
  BY SlotsForClear DEF IInv
<1>2. s \in Seq(Interval) /\ PairwiseApart(s)
  BY <1>1 DEF Clear
<1>3. Duration(Task) \in Nat \ {0} /\ Length(s[i]) >= Duration(Task)
  BY <1>1, DurationType DEF FirstFit, Fits
<1>4. Moments(s) = Moments(slots)
  BY <1>1, MomentsSlotsFor DEF TypeOK
<1> QED
  BY <1>2, <1>3, <1>4, MomentsCarve

\* Cutting a block and putting it back leaves the moments as they are: the task is
\* turned away.
LEMMA SkipFullDayRefines == IInv /\ SkipFullDay => Abstract!Next
<1> SUFFICES ASSUME IInv, SkipFullDay PROVE Abstract!Next
  OBVIOUS
<1>1. /\ next <= Len(tasks) /\ next' = next + 1
      /\ UNCHANGED <<free, tasks, cap, time_blocks, daily_counts>>
  BY DEF SkipFullDay
<1>2. PICK s \in SlotsFor(Task) : \E i \in DOMAIN s :
        /\ FirstFit(s, Duration(Task), i)
        /\ slots' = Cons(Cut(s, i, Duration(Task)), Carve(s, i, Duration(Task)))
  <2> HIDE DEF DayOf
  <2> QED
    BY DEF SkipFullDay, Cut
<1>3. PICK i \in DOMAIN s :
        /\ FirstFit(s, Duration(Task), i)
        /\ slots' = Cons(Cut(s, i, Duration(Task)), Carve(s, i, Duration(Task)))
  BY <1>2
<1> DEFINE block == Cut(s, i, Duration(Task))
           left  == Carve(s, i, Duration(Task))
<1>4. block \in Interval /\ left \in Seq(Interval)
  BY <1>1, <1>3, CutClear DEF Clear
<1>5. Moments(left) = Moments(slots) \ Span(block) /\ Span(block) \subseteq Moments(slots)
  BY <1>1, <1>3, CutMoments
<1>6. slots' = Cons(block, left)
  BY <1>3
<1> HIDE DEF block, left
<1>7. Moments(Cons(block, left)) = Moments(left) \cup Span(block)
  BY <1>4, MomentsCons
<1>8. Moments(slots') = Moments(slots)
  BY <1>5, <1>6, <1>7
<1> QED
  BY <1>1, <1>8, TurnedAway DEF IInv

\* Placing a block books moments that were available, on a day with room.
LEMMA PlaceBlockRefines == IInv /\ PlaceBlock => Abstract!Next
<1> SUFFICES ASSUME IInv, PlaceBlock PROVE Abstract!Next
  OBVIOUS
<1> DEFINE booked(c) == [task |-> next, start |-> c.start, end |-> c.end]
<1>1. next <= Len(tasks) /\ next' = next + 1 /\ UNCHANGED <<free, tasks, cap>>
  BY DEF PlaceBlock
<1>2. PICK s \in SlotsFor(Task) : \E i \in DOMAIN s :
        LET block == Cut(s, i, Duration(Task)) IN
        /\ FirstFit(s, Duration(Task), i)
        /\ daily_counts[DayOf(block.start)] < cap
        /\ slots' = Carve(s, i, Duration(Task))
        /\ time_blocks' = Append(time_blocks, booked(block))
  <2> HIDE DEF DayOf
  <2> QED
    BY DEF PlaceBlock, Cut
<1>3. PICK i \in DOMAIN s :
        LET block == Cut(s, i, Duration(Task)) IN
        /\ FirstFit(s, Duration(Task), i)
        /\ daily_counts[DayOf(block.start)] < cap
        /\ slots' = Carve(s, i, Duration(Task))
        /\ time_blocks' = Append(time_blocks, booked(block))
  BY <1>2
<1> DEFINE block == Cut(s, i, Duration(Task))
           b     == booked(block)
<1>4. block \in Interval /\ Inside(block)
  BY <1>1, <1>3, CutClear
<1>5. Moments(slots') = Moments(slots) \ Span(block) /\ Span(block) \subseteq Moments(slots)
  BY <1>1, <1>3, CutMoments
<1>6. daily_counts[DayOf(block.start)] < cap /\ time_blocks' = Append(time_blocks, b)
  BY <1>3
<1> HIDE DEF block
<1>7. TypeOK /\ next \in Nat \ {0} /\ time_blocks \in Seq(Block)
  BY DEF IInv, TypeOK
<1>8. b \in Block
  BY <1>4, <1>7, IntervalBounds DEF Block
<1> HIDE DEF b
<1>9. Bookings' = Bookings \cup {b}
  BY <1>6, <1>7, <1>8, AppendBlock
<1>10. DayOf(block.start) \in Days
  <2> HIDE DEF DayOf
  <2> QED
    BY <1>4, <1>7, InsideOnADay
<1>11. Abstract!Cardinality(Abstract!On(block.start \div DayLen)) < cap
  <2>1. Abstract!On(block.start \div DayLen) = BlocksOn(DayOf(block.start))
    BY DEF Abstract!On, BlocksOn, DayOf
  <2>2. Cardinality(BlocksOn(DayOf(block.start))) = daily_counts[DayOf(block.start)]
    BY <1>10 DEF IInv, CountsRight
  \* Booking has a copy of FiniteSets of its own.
  <2>3. \A S : Abstract!Cardinality(S) = Cardinality(S)
    BY DEF Cardinality, Abstract!Cardinality
  <2> QED
    BY <1>6, <2>1, <2>2, <2>3
<1>12. /\ next \in next .. Len(tasks)
       /\ (next .. Len(tasks))' = (next .. Len(tasks)) \ {next}
  BY <1>1, <1>7, OneTaskLess
<1>13. PICK first, last : first = block.start /\ last = block.end - 1
  OBVIOUS
<1>14. /\ first \in Nat /\ last \in Nat /\ first <= last /\ last + 1 = block.end
       /\ Span(block) = first .. (last + 1) - 1
       /\ first \in Span(block) /\ last \in Span(block)
  BY <1>4, <1>13, IntervalBounds DEF Span
<1>15. Moments(slots)' = Moments(slots')
  BY DEF Moments
<1>16. b = [task |-> next, start |-> first, end |-> last + 1]
  BY <1>13, <1>14 DEF b
<1>17. Abstract!Book(next, first, last + 1)
  BY <1>1, <1>5, <1>9, <1>11, <1>12, <1>13, <1>14, <1>15, <1>16 DEF Abstract!Book
<1> QED
  BY <1>5, <1>12, <1>14, <1>17 DEF Abstract!Next

\* The allocation implements Booking, for every list of free slots, list of tasks
\* and cap: each task is decided once, and a block takes moments that were
\* available, on a day with room.
THEOREM ImplementsBooking == Spec => BooksAvailableTime
<1>1. IInv /\ [Next]_vars => [Abstract!Next]_(Abstract!vars)
  <2>1. UNCHANGED vars => UNCHANGED Abstract!vars
    BY DEF vars, Abstract!vars, Moments, Bookings
  <2> QED
    BY <2>1, NoFitRefines, SkipFullDayRefines, PlaceBlockRefines DEF Next
<1> QED
  BY <1>1, InitRefines, Invariance, PTL DEF Spec, BooksAvailableTime, Abstract!Spec
=============================================================================
