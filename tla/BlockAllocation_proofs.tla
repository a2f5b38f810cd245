----------------------- MODULE BlockAllocation_proofs -----------------------
(***************************************************************************)
(* Proofs about BlockAllocation for every list of free slots, every list   *)
(* of tasks and every cap.                                                 *)
(*                                                                         *)
(* The three ways the code changes its list of slots -- sorting it,        *)
(* cutting a block from the front of a slot, putting a block back -- are   *)
(* first shown to keep intervals apart and inside what they came from; the *)
(* inductive invariant follows.                                            *)
(***************************************************************************)
EXTENDS BlockAllocation, TLAPS, SequenceTheorems, FiniteSetTheorems

-----------------------------------------------------------------------------
(* Lists of intervals                                                      *)

Within(a, b) == b.start <= a.start /\ a.end <= b.end

PairwiseApart(s) == \A i, j \in DOMAIN s : i # j => Apart(s[i], s[j])

\* An interval's two ends are numbers, the first below the second.
LEMMA IntervalBounds ==
  ASSUME NEW x \in Interval
  PROVE  x.start \in Nat /\ x.end \in Nat /\ x.start < x.end
BY DEF Interval

\* An interval that starts later and is not used up is an interval.
LEMMA LaterStart ==
  ASSUME NEW x \in Interval, NEW n \in Nat, x.start + n < x.end
  PROVE  /\ [x EXCEPT !.start = @ + n] \in Interval
         /\ [x EXCEPT !.start = @ + n].start = x.start + n
         /\ [x EXCEPT !.start = @ + n].end = x.end
BY DEF Interval

\* Every interval of t is a part of one of s, and different ones of different
\* ones.
ShrinksBy(s, t, f) ==
  /\ f \in [DOMAIN t -> DOMAIN s]
  /\ \A j, k \in DOMAIN t : j # k => f[j] # f[k]
  /\ \A k \in DOMAIN t : Within(t[k], s[f[k]])

ShrinksTo(s, t) == \E f : ShrinksBy(s, t, f)

\* Parts of two intervals that are apart are apart.
LEMMA PartsApart ==
  ASSUME NEW a \in Interval, NEW b \in Interval, NEW c \in Interval, NEW d \in Interval,
         Apart(c, d), Within(a, c), Within(b, d)
  PROVE  Apart(a, b)
BY DEF Apart, Within, Interval

\* Parts of intervals that are apart are apart.
LEMMA ShrinkingKeepsApart ==
  ASSUME NEW s \in Seq(Interval), NEW t \in Seq(Interval), ShrinksTo(s, t), PairwiseApart(s)
  PROVE  PairwiseApart(t)
<1>1. PICK f : ShrinksBy(s, t, f)
  BY DEF ShrinksTo
<1>2. SUFFICES ASSUME NEW j \in DOMAIN t, NEW k \in DOMAIN t, j # k
               PROVE  Apart(t[j], t[k])
  BY DEF PairwiseApart
<1>3. f[j] \in DOMAIN s /\ f[k] \in DOMAIN s /\ f[j] # f[k]
  BY <1>1, <1>2 DEF ShrinksBy
<1>4. Apart(s[f[j]], s[f[k]])
  BY <1>3 DEF PairwiseApart
<1>5. s[f[j]] \in Interval /\ s[f[k]] \in Interval /\ t[j] \in Interval /\ t[k] \in Interval
  BY <1>3
<1>6. Within(t[j], s[f[j]]) /\ Within(t[k], s[f[k]])
  BY <1>1 DEF ShrinksBy
<1> QED
  BY <1>4, <1>5, <1>6, PartsApart

\* SlotsFor(task) holds the slots themselves, in some order.
LEMMA SortingShrinks ==
  ASSUME NEW s \in Seq(Interval), NEW t \in SortedByStart(s)
  PROVE  t \in Seq(Interval) /\ ShrinksTo(s, t)
<1>1. PICK p \in Bijection(DOMAIN s, DOMAIN s) : t = [i \in DOMAIN s |-> s[p[i]]]
  BY DEF SortedByStart
<1>2. p \in [DOMAIN s -> DOMAIN s] /\ \A j, k \in DOMAIN s : j # k => p[j] # p[k]
  BY <1>1 DEF Bijection, Injection, IsInjective
<1>3. DOMAIN s = 1 .. Len(s) /\ Len(s) \in Nat
  BY LenProperties
<1>4. \A i \in 1 .. Len(s) : s[p[i]] \in Interval
  BY <1>2, <1>3
<1>5. t \in Seq(Interval)
  BY <1>1, <1>3, <1>4
<1>6. \A k \in DOMAIN t : Within(t[k], s[p[k]])
  BY <1>1, <1>2, <1>3, <1>4 DEF Within, Interval
<1>7. ShrinksBy(s, t, p)
  BY <1>1, <1>2, <1>6 DEF ShrinksBy
<1> QED
  BY <1>5, <1>7 DEF ShrinksTo

\* RemoveAt takes one element out and keeps the others in their order.
LEMMA RemoveAtProperties ==
  ASSUME NEW S, NEW s \in Seq(S), NEW i \in DOMAIN s
  PROVE  /\ RemoveAt(s, i) \in Seq(S)
         /\ Len(RemoveAt(s, i)) = Len(s) - 1
         /\ \A k \in 1 .. Len(s) - 1 : RemoveAt(s, i)[k] = IF k < i THEN s[k] ELSE s[k + 1]
<1> DEFINE a == SubSeq(s, 1, i - 1)
           b == SubSeq(s, i + 1, Len(s))
<1>1. i \in 1 .. Len(s) /\ Len(s) \in Nat
  BY LenProperties
<1>2. a \in Seq(S) /\ Len(a) = i - 1 /\ \A k \in 1 .. i - 1 : a[k] = s[k]
  BY <1>1
<1>3. b \in Seq(S) /\ Len(b) = Len(s) - i /\ \A k \in 1 .. Len(s) - i : b[k] = s[k + i]
  BY <1>1
<1>4. RemoveAt(s, i) = a \o b
  BY DEF RemoveAt
<1> HIDE DEF a, b
<1>5. a \o b \in Seq(S) /\ Len(a \o b) = Len(s) - 1
  BY <1>1, <1>2, <1>3
<1>6. ASSUME NEW k \in 1 .. Len(s) - 1
      PROVE  (a \o b)[k] = IF k < i THEN s[k] ELSE s[k + 1]
  <2>1. (a \o b)[k] = IF k <= Len(a) THEN a[k] ELSE b[k - Len(a)]
    BY <1>1, <1>2, <1>3, ConcatProperties
  <2>2. CASE k < i
    BY <2>1, <2>2, <1>1, <1>2
  <2>3. CASE k >= i
    <3>1. PICK m \in 1 .. Len(s) - i : m = k - (i - 1)
      BY <2>3, <1>1
    <3>2. m + i = k + 1 /\ m = k - Len(a) /\ ~ (k <= Len(a)) /\ ~ (k < i)
      BY <2>3, <3>1, <1>1, <1>2
    <3>3. (a \o b)[k] = b[m]
      BY <2>1, <3>2
    <3> QED
      BY <3>2, <3>3, <1>3
  <2>4. k < i \/ k >= i
    BY <1>1
  <2> QED
    BY <2>2, <2>3, <2>4
<1> QED
  BY <1>4, <1>5, <1>6

\* The block of length d at the front of slot i.
Cut(s, i, d) == [start |-> s[i].start, end |-> s[i].start + d]

\* The block cut from the front of a slot is an interval within it.
LEMMA CutWithin ==
  ASSUME NEW s \in Seq(Interval), NEW i \in DOMAIN s, NEW d \in Nat \ {0}, Length(s[i]) >= d
  PROVE  Cut(s, i, d) \in Interval /\ Within(Cut(s, i, d), s[i])
<1>1. s[i] \in Interval
  OBVIOUS
<1> QED
  BY <1>1 DEF Cut, Within, Interval, Length

\* A slot of exactly length d disappears: the others are left, apart from it.
LEMMA CarvingAwayShrinks ==
  ASSUME NEW s \in Seq(Interval), NEW i \in DOMAIN s, NEW d \in Nat \ {0}, Length(s[i]) = d
  PROVE  /\ Carve(s, i, d) \in Seq(Interval)
         /\ ShrinksTo(s, Carve(s, i, d))
         /\ PairwiseApart(s) =>
              \A k \in DOMAIN Carve(s, i, d) : Apart(Carve(s, i, d)[k], Cut(s, i, d))
<1> DEFINE t == Carve(s, i, d)
           f == [k \in DOMAIN t |-> IF k < i THEN k ELSE k + 1]
<1>1. i \in 1 .. Len(s) /\ Len(s) \in Nat /\ DOMAIN s = 1 .. Len(s)
  BY LenProperties
<1>2. /\ t \in Seq(Interval)
      /\ DOMAIN t = 1 .. Len(s) - 1
      /\ \A k \in 1 .. Len(s) - 1 : t[k] = IF k < i THEN s[k] ELSE s[k + 1]
  BY RemoveAtProperties, LenProperties DEF Carve
<1> HIDE DEF t
<1>3. \A k \in DOMAIN t : f[k] \in DOMAIN s /\ f[k] # i /\ t[k] = s[f[k]]
  BY <1>1, <1>2
<1>4. \A j, k \in DOMAIN t : j # k => f[j] # f[k]
  BY <1>1, <1>2
<1>5. \A k \in DOMAIN t : Within(t[k], s[f[k]])
  <2>1. \A k \in DOMAIN t : t[k] \in Interval
    BY <1>2
  <2> QED
    BY <1>3, <2>1 DEF Within, Interval
<1>6. f \in [DOMAIN t -> DOMAIN s]
  BY <1>3
<1>7. ShrinksTo(s, t)
  <2> HIDE DEF f
  <2> QED
    BY <1>4, <1>5, <1>6 DEF ShrinksTo, ShrinksBy
<1>8. ASSUME PairwiseApart(s), NEW k \in DOMAIN t
      PROVE  Apart(t[k], Cut(s, i, d))
  <2>1. Apart(s[f[k]], s[i])
    BY <1>3, <1>8 DEF PairwiseApart
  <2>2. s[i] \in Interval /\ t[k] \in Interval /\ s[f[k]] \in Interval
    BY <1>2, <1>3
  <2>3. Cut(s, i, d) \in Interval /\ Within(Cut(s, i, d), s[i])
    BY <2>2, CutWithin DEF Length, Interval
  <2> QED
    BY <1>5, <2>1, <2>2, <2>3, PartsApart
<1> QED
  BY <1>2, <1>7, <1>8 DEF t

\* A longer slot starts later by d.
LEMMA CarvingOffShrinks ==
  ASSUME NEW s \in Seq(Interval), NEW i \in DOMAIN s, NEW d \in Nat \ {0}, Length(s[i]) > d
  PROVE  /\ Carve(s, i, d) \in Seq(Interval)
         /\ ShrinksTo(s, Carve(s, i, d))
         /\ PairwiseApart(s) =>
              \A k \in DOMAIN Carve(s, i, d) : Apart(Carve(s, i, d)[k], Cut(s, i, d))
<1> DEFINE rest == [s[i] EXCEPT !.start = @ + d]
           t == [s EXCEPT ![i] = rest]
           f == [k \in DOMAIN s |-> k]
<1>1. s[i] \in Interval /\ i \in 1 .. Len(s) /\ DOMAIN s = 1 .. Len(s)
  BY LenProperties
<1>2. /\ rest \in Interval
      /\ Within(rest, s[i])
      /\ rest.start = s[i].start + d
  BY <1>1, IntervalBounds, LaterStart DEF Length, Within
<1>3. Carve(s, i, d) = t
  BY <1>1, IntervalBounds DEF Carve, Length
<1> HIDE DEF rest
<1>4. /\ t \in Seq(Interval)
      /\ DOMAIN t = DOMAIN s
      /\ \A k \in DOMAIN s : t[k] = IF k = i THEN rest ELSE s[k]
  BY <1>1, <1>2, ExceptSeq
<1> HIDE DEF t
<1>5. \A k \in DOMAIN s : s[k] \in Interval /\ Within(t[k], s[k])
  BY <1>2, <1>4, IntervalBounds DEF Within
<1>6. ShrinksTo(s, t)
  <2>1. ShrinksBy(s, t, f)
    BY <1>4, <1>5 DEF ShrinksBy
  <2> QED
    BY <2>1 DEF ShrinksTo
<1>7. ASSUME PairwiseApart(s), NEW k \in DOMAIN t
      PROVE  Apart(t[k], Cut(s, i, d))
  <2>1. Cut(s, i, d) \in Interval /\ Within(Cut(s, i, d), s[i])
    BY CutWithin, IntervalBounds DEF Length
  <2>2. CASE k = i
    BY <1>1, <1>2, <1>4, <2>2, IntervalBounds DEF Apart, Cut
  <2>3. CASE k # i
    <3>1. Apart(s[k], s[i]) /\ t[k] = s[k] /\ s[k] \in Interval
      BY <1>4, <1>5, <1>7, <2>3 DEF PairwiseApart
    <3>2. Within(s[k], s[k])
      BY <3>1, IntervalBounds DEF Within
    <3> QED
      BY <1>1, <2>1, <3>1, <3>2, PartsApart
  <2> QED
    BY <2>2, <2>3
<1> QED
  BY <1>3, <1>4, <1>6, <1>7

\* Carve, whether it removes the slot or shortens it, only leaves parts of the
\* slots, and leaves them apart from the block cut out.
LEMMA CarveShrinks ==
  ASSUME NEW s \in Seq(Interval), NEW i \in DOMAIN s, NEW d \in Nat \ {0}, Length(s[i]) >= d
  PROVE  /\ Carve(s, i, d) \in Seq(Interval)
         /\ ShrinksTo(s, Carve(s, i, d))
         /\ PairwiseApart(s) =>
              \A k \in DOMAIN Carve(s, i, d) : Apart(Carve(s, i, d)[k], Cut(s, i, d))
<1>1. Length(s[i]) = d \/ Length(s[i]) > d
  <2>1. s[i].start \in Nat /\ s[i].end \in Nat
    BY IntervalBounds
  <2> QED
    BY <2>1 DEF Length
<1> QED
  BY <1>1, CarvingAwayShrinks, CarvingOffShrinks

\* Putting an interval at the head of a list.
LEMMA ConsProperties ==
  ASSUME NEW S, NEW s \in Seq(S), NEW e \in S
  PROVE  /\ Cons(e, s) \in Seq(S)
         /\ DOMAIN Cons(e, s) = 1 .. Len(s) + 1
         /\ Cons(e, s)[1] = e
         /\ \A k \in 2 .. Len(s) + 1 : Cons(e, s)[k] = s[k - 1] /\ k - 1 \in DOMAIN s
<1>1. <<e>> \in Seq(S) /\ Len(<<e>>) = 1 /\ <<e>>[1] = e
  OBVIOUS
<1>2. Len(s) \in Nat /\ DOMAIN s = 1 .. Len(s)
  BY LenProperties
<1>3. /\ <<e>> \o s \in Seq(S)
      /\ Len(<<e>> \o s) = Len(s) + 1
      /\ \A k \in 1 .. Len(s) + 1 : (<<e>> \o s)[k] = IF k <= 1 THEN <<e>>[1] ELSE s[k - 1]
  <2>1. /\ <<e>> \o s \in Seq(S)
        /\ Len(<<e>> \o s) = Len(<<e>>) + Len(s)
        /\ \A k \in 1 .. Len(<<e>>) + Len(s) :
             (<<e>> \o s)[k] = IF k <= Len(<<e>>) THEN <<e>>[k] ELSE s[k - Len(<<e>>)]
    BY <1>1, ConcatProperties
  <2> QED
    BY <1>1, <1>2, <2>1
<1>4. DOMAIN (<<e>> \o s) = 1 .. Len(s) + 1
  BY <1>3, LenProperties
<1> QED
  BY <1>1, <1>2, <1>3, <1>4 DEF Cons

\* An interval put at the head of a list it is apart from leaves the list pairwise
\* apart.
LEMMA ConsApart ==
  ASSUME NEW s \in Seq(Interval), NEW e \in Interval, PairwiseApart(s),
         \A k \in DOMAIN s : Apart(s[k], e)
  PROVE  PairwiseApart(Cons(e, s))
<1>0. DOMAIN Cons(e, s) = 1 .. Len(s) + 1
  BY ConsProperties
<1>1. SUFFICES ASSUME NEW j \in 1 .. Len(s) + 1, NEW k \in 1 .. Len(s) + 1, j # k
               PROVE  Apart(Cons(e, s)[j], Cons(e, s)[k])
  BY <1>0 DEF PairwiseApart
<1>2. Len(s) \in Nat
  BY LenProperties
<1>3. CASE j = 1
  <2>1. k \in 2 .. Len(s) + 1
    BY <1>1, <1>2, <1>3
  <2>2. k - 1 \in DOMAIN s /\ Cons(e, s)[k] = s[k - 1] /\ Cons(e, s)[j] = e
    BY <1>3, <2>1, ConsProperties
  <2> QED
    BY <2>2 DEF Apart
<1>4. CASE k = 1
  <2>1. j \in 2 .. Len(s) + 1
    BY <1>1, <1>2, <1>4
  <2>2. j - 1 \in DOMAIN s /\ Cons(e, s)[j] = s[j - 1] /\ Cons(e, s)[k] = e
    BY <1>4, <2>1, ConsProperties
  <2> QED
    BY <2>2
<1>5. CASE j # 1 /\ k # 1
  <2>1. j \in 2 .. Len(s) + 1 /\ k \in 2 .. Len(s) + 1 /\ j - 1 # k - 1
    BY <1>1, <1>2, <1>5
  <2>2. /\ j - 1 \in DOMAIN s /\ Cons(e, s)[j] = s[j - 1]
        /\ k - 1 \in DOMAIN s /\ Cons(e, s)[k] = s[k - 1]
    BY <2>1, ConsProperties
  <2> QED
    BY <2>1, <2>2 DEF PairwiseApart
<1> QED
  BY <1>3, <1>4, <1>5

-----------------------------------------------------------------------------
(* The inductive invariant                                                 *)

\* A list of slots as the code may hold it: apart from each other and from the
\* blocks, inside the free slots.
OffBlocks(a) == \A i \in DOMAIN time_blocks : Apart(time_blocks[i], a)

Clear(s) ==
  /\ s \in Seq(Interval)
  /\ PairwiseApart(s)
  /\ \A i \in DOMAIN s : Inside(s[i]) /\ OffBlocks(s[i])

\* daily_counts counts the blocks; the tasks with a block have been decided, so
\* the next one has none yet.
CountsRight ==
  \A d \in Days : /\ IsFiniteSet(BlocksOn(d))
                 /\ Cardinality(BlocksOn(d)) = daily_counts[d]
                 /\ daily_counts[d] <= cap

TasksDecided == \A b \in Bookings : b.task < next

IInv == TypeOK /\ Clear(slots) /\ BlocksApart /\ CountsRight /\ TasksDecided
              /\ \A i \in DOMAIN time_blocks : Inside(time_blocks[i])

\* What the constants promise of a free slot.
LEMMA FreeBounds ==
  ASSUME TypeOK, NEW i \in DOMAIN free
  PROVE  /\ free[i].start \in Nat /\ free[i].end \in Nat /\ free[i].start < free[i].end
         /\ \A m \in free[i].start .. free[i].end - 1 : DayOf(m) \in Days
<1>1. free \in FreeSlotLists
  BY DEF TypeOK
<1>2. /\ free \in Seq([start : Nat, end : Nat])
      /\ free[i].start < free[i].end
      /\ \A m \in free[i].start .. free[i].end - 1 : DayOf(m) \in Days
  <2> HIDE DEF DayOf
  <2> QED
    BY <1>1, FreeSlotsAssumption, Zenon
<1>3. free[i] \in [start : Nat, end : Nat]
  BY <1>2, ElementOfSeq, LenProperties
<1> QED
  BY <1>2, <1>3

\* A part of an interval is inside the free slots, and off the blocks, if the
\* whole is.
LEMMA PartsClear ==
  ASSUME TypeOK, NEW a \in Interval, NEW c \in Interval, Within(a, c), Inside(c), OffBlocks(c)
  PROVE  Inside(a) /\ OffBlocks(a)
<1>1. a.start \in Nat /\ a.end \in Nat /\ c.start \in Nat /\ c.end \in Nat
  BY IntervalBounds
<1>2. Inside(a)
  <2>1. PICK i \in DOMAIN free : free[i].start <= c.start /\ c.end <= free[i].end
    BY DEF Inside
  <2>2. free[i].start \in Nat /\ free[i].end \in Nat
    BY FreeBounds
  <2> QED
    BY <1>1, <2>1, <2>2 DEF Inside, Within
<1>3. OffBlocks(a)
  <2>1. SUFFICES ASSUME NEW i \in DOMAIN time_blocks
                 PROVE  Apart(time_blocks[i], a)
    BY DEF OffBlocks
  <2>2. time_blocks[i] \in Block
    BY DEF TypeOK
  <2>3. time_blocks[i].start \in Nat /\ time_blocks[i].end \in Nat
    BY <2>2 DEF Block
  <2>4. Apart(time_blocks[i], c)
    BY DEF OffBlocks
  <2> QED
    BY <1>1, <2>3, <2>4 DEF Apart, Within
<1> QED
  BY <1>2, <1>3

\* Parts of slots the code may hold are slots the code may hold: sorting and cutting
\* are covered.
LEMMA ClearShrinks ==
  ASSUME TypeOK, NEW s, Clear(s), NEW t \in Seq(Interval), ShrinksTo(s, t)
  PROVE  Clear(t)
<1>1. PairwiseApart(t)
  BY ShrinkingKeepsApart DEF Clear
<1>2. ASSUME NEW k \in DOMAIN t
      PROVE  Inside(t[k]) /\ OffBlocks(t[k])
  <2>1. PICK f : ShrinksBy(s, t, f)
    BY DEF ShrinksTo
  <2>2. f[k] \in DOMAIN s /\ Within(t[k], s[f[k]])
    BY <2>1 DEF ShrinksBy
  <2>3. s[f[k]] \in Interval /\ Inside(s[f[k]]) /\ OffBlocks(s[f[k]])
    BY <2>2 DEF Clear
  <2>4. t[k] \in Interval
    OBVIOUS
  <2> QED
    BY <2>2, <2>3, <2>4, PartsClear
<1> QED
  BY <1>1, <1>2 DEF Clear

\* A block cut from a free slot begins on one of the days.
LEMMA InsideOnADay ==
  ASSUME TypeOK, NEW a \in Interval, Inside(a)
  PROVE  DayOf(a.start) \in Days
<1>1. PICK i \in DOMAIN free : free[i].start <= a.start /\ a.end <= free[i].end
  BY DEF Inside
<1>2. free[i].start \in Nat /\ free[i].end \in Nat
  BY FreeBounds
<1>3. a.start \in free[i].start .. free[i].end - 1
  BY <1>1, <1>2, IntervalBounds
<1> QED
  BY <1>3, FreeBounds

\* The next task has a positive duration, and is urgent or not.
LEMMA DurationType ==
  ASSUME TypeOK, next <= Len(tasks)
  PROVE  Duration(Task) \in Nat \ {0} /\ Task.urgent \in BOOLEAN
<1>1. tasks \in Seq([duration : Nat, urgent : BOOLEAN]) /\ next \in Nat \ {0}
  BY AllocationAssumption DEF TypeOK
<1>2. next \in 1 .. Len(tasks)
  BY <1>1, LenProperties
<1>3. tasks[next] \in [duration : Nat, urgent : BOOLEAN]
  BY <1>1, <1>2, ElementOfSeq
<1>4. tasks[next].duration \in Nat /\ tasks[next].urgent \in BOOLEAN
  BY <1>3
<1> QED
  BY <1>4, AllocationAssumption DEF Task, Duration

\* The list a task is tried on is as clear as the list before.
LEMMA SlotsForClear ==
  ASSUME TypeOK, Clear(slots), NEW s \in SlotsFor(Task)
  PROVE  Clear(s)
<1>1. CASE s = slots
  BY <1>1
<1>2. CASE s \in SortedByStart(slots)
  BY <1>2, SortingShrinks, ClearShrinks DEF Clear
<1> QED
  BY <1>1, <1>2 DEF SlotsFor

\* The inductive invariant holds before the loop.
LEMMA InitInv == Init => IInv
<1> SUFFICES ASSUME Init PROVE IInv
  OBVIOUS
<1>1. free \in FreeSlotLists /\ slots = free /\ time_blocks = <<>>
  BY DEF Init
<1>2. slots \in Seq(Interval)
  <2>1. /\ free \in Seq([start : Nat, end : Nat])
        /\ \A i \in DOMAIN free : free[i].start < free[i].end
    BY <1>1, FreeSlotsAssumption, Zenon
  <2>2. DOMAIN free = 1 .. Len(free) /\ Len(free) \in Nat
    BY <2>1, LenProperties
  <2>3. ASSUME NEW i \in 1 .. Len(free)
        PROVE  free[i] \in Interval
    <3>1. free[i] \in [start : Nat, end : Nat]
      BY <2>1, ElementOfSeq
    <3> QED
      BY <2>1, <2>2, <3>1 DEF Interval
  <2>4. free = [i \in 1 .. Len(free) |-> free[i]]
    BY <2>1, <2>2
  <2> QED
    BY <1>1, <2>2, <2>3, <2>4, SeqDef
<1>3. TypeOK
  BY <1>1, <1>2, EmptySeq DEF Init, TypeOK
<1>4. Clear(slots)
  <2>1. PairwiseApart(slots)
    BY <1>1, FreeSlotsAssumption DEF PairwiseApart, Apart
  <2>2. ASSUME NEW i \in DOMAIN slots
        PROVE  Inside(slots[i])
    <3>1. slots[i].start \in Nat /\ slots[i].end \in Nat
      BY <1>1, <1>3, FreeBounds
    <3> QED
      BY <1>1, <3>1 DEF Inside
  <2>3. \A i \in DOMAIN slots : OffBlocks(slots[i])
    BY <1>1 DEF OffBlocks
  <2> QED
    BY <1>2, <2>1, <2>2, <2>3 DEF Clear
<1>5. Bookings = {}
  BY <1>1 DEF Bookings
<1>6. CountsRight
  <2>1. \A d \in Days : daily_counts[d] = 0 /\ cap \in Nat
    BY AllocationAssumption DEF Init
  <2>2. \A d \in Days : BlocksOn(d) = {}
    BY <1>5 DEF BlocksOn
  <2> QED
    BY <2>1, <2>2, FS_EmptySet DEF CountsRight
<1> QED
  BY <1>1, <1>3, <1>4, <1>5, <1>6 DEF IInv, BlocksApart, TasksDecided

-----------------------------------------------------------------------------
(* The steps of the loop                                                   *)

\* A task that is passed over changes the slots and nothing else: what is left
\* to show is that they stay clear.
LEMMA PassingOver ==
  ASSUME IInv, Clear(slots'), next' = next + 1,
         UNCHANGED <<free, tasks, cap, time_blocks, daily_counts>>
  PROVE  IInv'
<1>1. TypeOK'
  BY DEF IInv, TypeOK, Clear
<1>2. Clear(slots)'
  BY DEF Clear, Inside, OffBlocks
<1>3. BlocksApart' /\ \A i \in DOMAIN time_blocks' : Inside(time_blocks[i])'
  BY DEF IInv, BlocksApart, Inside
<1>4. CountsRight'
  BY DEF IInv, CountsRight, BlocksOn, Bookings
<1>5. TasksDecided'
  <2>1. \A b \in Bookings : b.task \in Nat
    <3>1. \A i \in DOMAIN time_blocks : time_blocks[i] \in Block
      BY DEF IInv, TypeOK
    <3> QED
      BY <3>1 DEF Bookings, Block
  <2>2. next \in Nat /\ Bookings' = Bookings
    BY DEF IInv, TypeOK, Bookings
  <2> QED
    BY <2>1, <2>2 DEF IInv, TasksDecided
<1> QED
  BY <1>1, <1>2, <1>3, <1>4, <1>5 DEF IInv

\* A turn of the loop that finds no slot keeps the inductive invariant.
LEMMA NoFitInv == IInv /\ NoFit => IInv'
<1> SUFFICES ASSUME IInv, NoFit PROVE IInv'
  OBVIOUS
<1>1. Clear(slots')
  BY SlotsForClear DEF IInv, NoFit
<1> QED
  BY <1>1, PassingOver DEF NoFit

\* What both kinds of block start from: the list the task is tried on, the slot
\* the block is cut from, and what is left of the list.
LEMMA CutClear ==
  ASSUME IInv, next <= Len(tasks), NEW s \in SlotsFor(Task), NEW i \in DOMAIN s,
         FirstFit(s, Duration(Task), i)
  PROVE  /\ Duration(Task) \in Nat \ {0}
         /\ Clear(Carve(s, i, Duration(Task)))
         /\ Cut(s, i, Duration(Task)) \in Interval
         /\ Inside(Cut(s, i, Duration(Task))) /\ OffBlocks(Cut(s, i, Duration(Task)))
         /\ \A k \in DOMAIN Carve(s, i, Duration(Task)) :
              Apart(Carve(s, i, Duration(Task))[k], Cut(s, i, Duration(Task)))
<1> DEFINE d == Duration(Task)
<1>1. TypeOK /\ Clear(s)
  BY SlotsForClear DEF IInv
<1>2. s \in Seq(Interval) /\ PairwiseApart(s) /\ Inside(s[i]) /\ OffBlocks(s[i])
  BY <1>1 DEF Clear
<1>3. d \in Nat \ {0} /\ Length(s[i]) >= d
  BY <1>1, DurationType DEF FirstFit, Fits
<1>4. s[i] \in Interval
  BY <1>2
<1> HIDE DEF d
<1>5. Cut(s, i, d) \in Interval /\ Within(Cut(s, i, d), s[i])
  BY <1>2, <1>3, CutWithin
<1>6. Inside(Cut(s, i, d)) /\ OffBlocks(Cut(s, i, d))
  BY <1>1, <1>2, <1>4, <1>5, PartsClear
<1>7. /\ Carve(s, i, d) \in Seq(Interval)
      /\ ShrinksTo(s, Carve(s, i, d))
      /\ \A k \in DOMAIN Carve(s, i, d) : Apart(Carve(s, i, d)[k], Cut(s, i, d))
  BY <1>2, <1>3, CarveShrinks
<1>8. Clear(Carve(s, i, d))
  BY <1>1, <1>7, ClearShrinks
<1> QED
  BY <1>3, <1>5, <1>6, <1>7, <1>8 DEF d

\* Putting back the block of a full day keeps the inductive invariant.
LEMMA SkipFullDayInv == IInv /\ SkipFullDay => IInv'
<1> SUFFICES ASSUME IInv, SkipFullDay PROVE IInv'
  OBVIOUS
<1>1. next <= Len(tasks)
  BY DEF SkipFullDay
<1>2. PICK s \in SlotsFor(Task) : \E i \in DOMAIN s :
        /\ FirstFit(s, Duration(Task), i)
        /\ slots' = Cons(Cut(s, i, Duration(Task)), Carve(s, i, Duration(Task)))
  BY DEF SkipFullDay, Cut
<1>3. PICK i \in DOMAIN s :
        /\ FirstFit(s, Duration(Task), i)
        /\ slots' = Cons(Cut(s, i, Duration(Task)), Carve(s, i, Duration(Task)))
  BY <1>2
<1> DEFINE left  == Carve(s, i, Duration(Task))
           block == Cut(s, i, Duration(Task))
<1>4. /\ Clear(left) /\ block \in Interval /\ Inside(block) /\ OffBlocks(block)
      /\ \A k \in DOMAIN left : Apart(left[k], block)
  BY <1>1, <1>3, CutClear
<1>5. slots' = Cons(block, left)
  BY <1>3
<1> HIDE DEF left, block
<1>6. left \in Seq(Interval) /\ PairwiseApart(left)
  BY <1>4 DEF Clear
<1>7. slots' \in Seq(Interval) /\ PairwiseApart(slots')
  BY <1>4, <1>5, <1>6, ConsProperties, ConsApart
<1>8. ASSUME NEW k \in DOMAIN slots'
      PROVE  Inside(slots'[k]) /\ OffBlocks(slots'[k])
  <2>1. /\ DOMAIN slots' = 1 .. Len(left) + 1
        /\ slots'[1] = block
        /\ \A m \in 2 .. Len(left) + 1 : slots'[m] = left[m - 1] /\ m - 1 \in DOMAIN left
    <3>1. /\ DOMAIN Cons(block, left) = 1 .. Len(left) + 1
          /\ Cons(block, left)[1] = block
          /\ \A m \in 2 .. Len(left) + 1 :
               Cons(block, left)[m] = left[m - 1] /\ m - 1 \in DOMAIN left
      BY <1>4, <1>6, ConsProperties
    <3> QED
      BY <1>5, <3>1
  <2>2. CASE k = 1
    <3>1. slots'[k] = block
      BY <2>1, <2>2
    <3> QED
      BY <1>4, <3>1
  <2>3. CASE k # 1
    <3>1. Len(left) \in Nat
      BY <1>6, LenProperties
    <3>2. k \in 2 .. Len(left) + 1
      BY <2>1, <2>3, <3>1
    <3>3. slots'[k] = left[k - 1] /\ k - 1 \in DOMAIN left
      BY <2>1, <3>2
    <3>4. \A m \in DOMAIN left : Inside(left[m]) /\ OffBlocks(left[m])
      BY <1>4 DEF Clear
    <3> QED
      BY <3>3, <3>4
  <2> QED
    BY <2>2, <2>3
<1>9. Clear(slots')
  BY <1>7, <1>8 DEF Clear
<1> QED
  BY <1>9, PassingOver DEF SkipFullDay

\* The bookings after a block is placed are those before and the new one.
LEMMA AppendBlock ==
  ASSUME NEW b, time_blocks \in Seq(Block), b \in Block, time_blocks' = Append(time_blocks, b)
  PROVE  /\ time_blocks' \in Seq(Block)
         /\ DOMAIN time_blocks' = 1 .. Len(time_blocks) + 1
         /\ \A k \in DOMAIN time_blocks : time_blocks'[k] = time_blocks[k]
         /\ time_blocks'[Len(time_blocks) + 1] = b
         /\ Bookings' = Bookings \cup {b}
<1>1. /\ time_blocks' \in Seq(Block)
      /\ Len(time_blocks') = Len(time_blocks) + 1
      /\ \A k \in 1 .. Len(time_blocks) : time_blocks'[k] = time_blocks[k]
      /\ time_blocks'[Len(time_blocks) + 1] = b
  BY AppendProperties
<1>2. /\ DOMAIN time_blocks' = 1 .. Len(time_blocks) + 1
      /\ DOMAIN time_blocks = 1 .. Len(time_blocks)
      /\ Len(time_blocks) \in Nat
  BY <1>1, LenProperties
<1>3. Bookings' = Bookings \cup {b}
  <2>1. DOMAIN time_blocks' = DOMAIN time_blocks \cup {Len(time_blocks) + 1}
    BY <1>2
  <2> QED
    BY <1>1, <1>2, <2>1 DEF Bookings
<1> QED
  BY <1>1, <1>2, <1>3

\* One more block, of a task that had none, on a day below the cap.
LEMMA CountOneMore ==
  ASSUME TypeOK, CountsRight, TasksDecided, NEW b \in Block, b.task = next,
         DayOf(b.start) \in Days, daily_counts[DayOf(b.start)] < cap,
         Bookings' = Bookings \cup {b}, cap' = cap,
         daily_counts' = [daily_counts EXCEPT ![DayOf(b.start)] = @ + 1]
  PROVE  CountsRight'
<1> SUFFICES ASSUME NEW d \in Days
             PROVE  /\ IsFiniteSet(BlocksOn(d)')
                    /\ Cardinality(BlocksOn(d)') = daily_counts'[d]
                    /\ daily_counts'[d] <= cap
  BY DEF CountsRight
<1>1. /\ IsFiniteSet(BlocksOn(d)) /\ Cardinality(BlocksOn(d)) = daily_counts[d]
      /\ daily_counts[d] <= cap /\ daily_counts[d] \in Nat /\ cap \in Nat
  BY AllocationAssumption DEF TypeOK, CountsRight
<1>2. b \notin BlocksOn(d)
  <2>1. b \notin Bookings /\ next \in Nat
    BY DEF TasksDecided, TypeOK
  <2> QED
    BY <2>1 DEF BlocksOn
<1>3. CASE d = DayOf(b.start)
  <2>1. BlocksOn(d)' = BlocksOn(d) \cup {b}
    <3> HIDE DEF DayOf
    <3> QED
      BY <1>3 DEF BlocksOn
  <2>2. IsFiniteSet(BlocksOn(d)') /\ Cardinality(BlocksOn(d)') = Cardinality(BlocksOn(d)) + 1
    BY <1>1, <1>2, <2>1, FS_AddElement
  <2>3. daily_counts'[d] = daily_counts[d] + 1
    BY <1>3 DEF TypeOK
  <2> QED
    BY <1>1, <1>3, <2>2, <2>3
<1>4. CASE d # DayOf(b.start)
  <2>1. BlocksOn(d)' = BlocksOn(d)
    <3> HIDE DEF DayOf
    <3> QED
      BY <1>4 DEF BlocksOn
  <2>2. daily_counts'[d] = daily_counts[d]
    BY <1>4 DEF TypeOK
  <2> QED
    BY <1>1, <2>1, <2>2
<1> QED
  BY <1>3, <1>4

\* Placing a block keeps the inductive invariant.
LEMMA PlaceBlockInv == IInv /\ PlaceBlock => IInv'
<1> SUFFICES ASSUME IInv, PlaceBlock PROVE IInv'
  OBVIOUS
<1> DEFINE booked(c) == [task |-> next, start |-> c.start, end |-> c.end]
<1>1. next <= Len(tasks) /\ next' = next + 1 /\ UNCHANGED <<free, tasks, cap>>
  BY DEF PlaceBlock
<1>2. PICK s \in SlotsFor(Task) : \E i \in DOMAIN s :
        LET block == Cut(s, i, Duration(Task)) IN
        /\ FirstFit(s, Duration(Task), i)
        /\ daily_counts[DayOf(block.start)] < cap
        /\ slots' = Carve(s, i, Duration(Task))
        /\ time_blocks' = Append(time_blocks, booked(block))
        /\ daily_counts' = [daily_counts EXCEPT ![DayOf(block.start)] = @ + 1]
  <2> HIDE DEF DayOf
  <2> QED
    BY DEF PlaceBlock, Cut
<1>3. PICK i \in DOMAIN s :
        LET block == Cut(s, i, Duration(Task)) IN
        /\ FirstFit(s, Duration(Task), i)
        /\ daily_counts[DayOf(block.start)] < cap
        /\ slots' = Carve(s, i, Duration(Task))
        /\ time_blocks' = Append(time_blocks, booked(block))
        /\ daily_counts' = [daily_counts EXCEPT ![DayOf(block.start)] = @ + 1]
  BY <1>2
<1> DEFINE block == Cut(s, i, Duration(Task))
           b     == booked(block)
<1>4. /\ Clear(slots') /\ block \in Interval /\ Inside(block) /\ OffBlocks(block)
      /\ \A k \in DOMAIN slots' : Apart(slots'[k], block)
  BY <1>1, <1>3, CutClear
<1>5. /\ daily_counts[DayOf(block.start)] < cap
      /\ time_blocks' = Append(time_blocks, booked(block))
      /\ daily_counts' = [daily_counts EXCEPT ![DayOf(block.start)] = @ + 1]
  BY <1>3
<1> HIDE DEF block, DayOf
<1>6. TypeOK /\ next \in Nat \ {0} /\ time_blocks \in Seq(Block)
  BY DEF IInv, TypeOK
<1>7. /\ b \in Block /\ b.task = next /\ b.start = block.start /\ b.end = block.end
  BY <1>4, <1>6, IntervalBounds DEF Block
<1> HIDE DEF b
<1>8. /\ time_blocks' \in Seq(Block)
      /\ DOMAIN time_blocks' = 1 .. Len(time_blocks) + 1
      /\ \A k \in DOMAIN time_blocks : time_blocks'[k] = time_blocks[k]
      /\ time_blocks'[Len(time_blocks) + 1] = b
      /\ Bookings' = Bookings \cup {b}
  BY <1>5, <1>6, <1>7, AppendBlock DEF b
<1>9. \A k \in DOMAIN time_blocks' : k \in DOMAIN time_blocks \/ k = Len(time_blocks) + 1
  BY <1>6, <1>8, LenProperties
<1>10. DayOf(block.start) \in Days
  BY <1>4, <1>6, InsideOnADay
<1>11. TypeOK'
  <2>1. daily_counts' \in [Days -> Nat]
    BY <1>5, <1>6, <1>10 DEF TypeOK
  <2> QED
    BY <1>1, <1>4, <1>6, <1>8, <2>1 DEF TypeOK, Clear
<1>12. CountsRight'
  BY <1>1, <1>5, <1>6, <1>7, <1>8, <1>10, CountOneMore DEF IInv
<1>13. TasksDecided'
  <2>1. \A c \in Bookings : c.task < next /\ c.task \in Nat
    <3>1. \A k \in DOMAIN time_blocks : time_blocks[k] \in Block
      BY <1>6
    <3> QED
      BY <3>1 DEF Bookings, Block, IInv, TasksDecided
  <2> QED
    BY <1>1, <1>6, <1>7, <1>8, <2>1 DEF TasksDecided
<1>14. Inside(b) /\ \A k \in DOMAIN time_blocks : Inside(time_blocks[k])
  BY <1>4, <1>7 DEF Inside, IInv
<1>15. \A k \in DOMAIN time_blocks' : Inside(time_blocks[k])'
  <2>1. \A k \in DOMAIN time_blocks' : Inside(time_blocks'[k])
    BY <1>8, <1>9, <1>14
  <2> QED
    BY <1>1, <2>1 DEF Inside
<1>16. BlocksApart'
  <2>1. SUFFICES ASSUME NEW j \in DOMAIN time_blocks', NEW k \in DOMAIN time_blocks', j # k
                 PROVE  Apart(time_blocks'[j], time_blocks'[k])
    BY DEF BlocksApart
  <2>2. \A m \in DOMAIN time_blocks : Apart(time_blocks[m], b) /\ Apart(b, time_blocks[m])
    BY <1>4, <1>7 DEF OffBlocks, Apart
  <2>3. CASE j \in DOMAIN time_blocks /\ k \in DOMAIN time_blocks
    BY <1>8, <2>1, <2>3 DEF IInv, BlocksApart
  <2>4. CASE j \notin DOMAIN time_blocks
    BY <1>8, <1>9, <2>1, <2>2, <2>4
  <2>5. CASE k \notin DOMAIN time_blocks
    BY <1>8, <1>9, <2>1, <2>2, <2>5
  <2> QED
    BY <2>3, <2>4, <2>5
<1>17. Clear(slots)'
  <2>1. ASSUME NEW m \in DOMAIN slots'
        PROVE  Inside(slots[m])' /\ OffBlocks(slots[m])'
    <3>1. Inside(slots'[m]) /\ OffBlocks(slots'[m]) /\ Apart(slots'[m], block)
      BY <1>4 DEF Clear
    <3>2. Inside(slots[m])'
      BY <1>1, <3>1 DEF Inside
    <3>3. Apart(b, slots'[m])
      BY <1>7, <3>1 DEF Apart
    <3>4. \A k \in DOMAIN time_blocks' : Apart(time_blocks'[k], slots'[m])
      BY <1>8, <1>9, <3>1, <3>3 DEF OffBlocks
    <3> QED
      BY <3>2, <3>4 DEF OffBlocks
  <2> QED
    BY <1>4, <2>1 DEF Clear
<1> QED
  BY <1>11, <1>12, <1>13, <1>15, <1>16, <1>17 DEF IInv

\* A step that changes nothing keeps the inductive invariant.
LEMMA StutterInv == IInv /\ UNCHANGED vars => IInv'
BY DEF IInv, vars, TypeOK, Clear, OffBlocks, Inside, BlocksApart, CountsRight, BlocksOn, Bookings, TasksDecided

-----------------------------------------------------------------------------
(* The tasks that get no block, and the urgent ones that do                *)

\* Nothing in s is as long as d.
NoneFits(s, d) == \A i \in DOMAIN s : ~ (Length(s[i]) >= d)

FullDay == \E d \in Days : Cardinality(BlocksOn(d)) = cap

\* Where nothing is long enough, no part is.
LEMMA PartsDoNotFit ==
  ASSUME NEW a \in Interval, NEW c \in Interval, Within(a, c), NEW d \in Nat,
         ~ (Length(c) >= d)
  PROVE  ~ (Length(a) >= d)
<1>1. a.start \in Nat /\ a.end \in Nat /\ c.start \in Nat /\ c.end \in Nat
  BY IntervalBounds
<1> QED
  BY <1>1 DEF Within, Length

\* A list of slots that is too short for a task stays so when it shrinks.
LEMMA ShrinkingFitsNoMore ==
  ASSUME NEW s \in Seq(Interval), NEW t \in Seq(Interval), ShrinksTo(s, t), NEW d \in Nat,
         NoneFits(s, d)
  PROVE  NoneFits(t, d)
<1>1. PICK f : ShrinksBy(s, t, f)
  BY DEF ShrinksTo
<1>2. SUFFICES ASSUME NEW k \in DOMAIN t
               PROVE  ~ (Length(t[k]) >= d)
  BY DEF NoneFits
<1>3. f[k] \in DOMAIN s /\ Within(t[k], s[f[k]])
  BY <1>1 DEF ShrinksBy
<1>4. t[k] \in Interval /\ s[f[k]] \in Interval /\ ~ (Length(s[f[k]]) >= d)
  BY <1>3 DEF NoneFits
<1> QED
  BY <1>3, <1>4, PartsDoNotFit

\* Sorting or not, the list a task is tried on holds nothing longer than before.
LEMMA SlotsForFitsNoMore ==
  ASSUME slots \in Seq(Interval), NEW s \in SlotsFor(Task), NEW d \in Nat, NoneFits(slots, d)
  PROVE  s \in Seq(Interval) /\ NoneFits(s, d)
<1>1. CASE s = slots
  BY <1>1
<1>2. CASE s \in SortedByStart(slots)
  BY <1>2, SortingShrinks, ShrinkingFitsNoMore
<1> QED
  BY <1>1, <1>2 DEF SlotsFor

\* Every task has a positive duration.
LEMMA DurationOf ==
  ASSUME TypeOK, NEW k \in DOMAIN tasks
  PROVE  Duration(tasks[k]) \in Nat /\ k \in Nat
<1>1. tasks \in Seq([duration : Nat, urgent : BOOLEAN])
  BY AllocationAssumption DEF TypeOK
<1>2. k \in 1 .. Len(tasks)
  BY <1>1, LenProperties
<1>3. tasks[k] \in [duration : Nat, urgent : BOOLEAN]
  BY <1>1, <1>2, ElementOfSeq
<1>4. tasks[k].duration \in Nat
  BY <1>3
<1> QED
  BY <1>2, <1>4, AllocationAssumption DEF Duration

\* Turning a task away is justified before the step and after it, if it was
\* justified when it happened, what fitted nowhere still does, and full days
\* stay full.
LEMMA StillJustified ==
  ASSUME IInv, RefusalsJustified, UNCHANGED tasks, next' = next + 1,
         \A k \in DOMAIN tasks : NoneFits(slots, Duration(tasks[k])) => NoneFits(slots', Duration(tasks[k])),
         FullDay => FullDay',
         \A k \in DOMAIN tasks : PassedOver(k)' =>
           PassedOver(k) \/ NoneFits(slots', Duration(tasks[k])) \/ FullDay'
  PROVE  RefusalsJustified'
<1>1. SUFFICES ASSUME NEW k \in DOMAIN tasks, PassedOver(k)'
               PROVE  NoneFits(slots', Duration(tasks[k])) \/ FullDay'
  BY DEF RefusalsJustified, NoneFits, FullDay
<1>2. CASE PassedOver(k)
  <2>1. NoneFits(slots, Duration(tasks[k])) \/ FullDay
    BY <1>2 DEF RefusalsJustified, NoneFits, FullDay
  <2> QED
    BY <2>1
<1> QED
  BY <1>1, <1>2

\* Passing a task over adds no task to those turned away but itself.
LEMMA OneMorePassedOver ==
  ASSUME IInv, next' = next + 1, UNCHANGED <<tasks, time_blocks>>,
         NEW k \in DOMAIN tasks, PassedOver(k)'
  PROVE  PassedOver(k) \/ k = next
<1>1. k \in Nat /\ next \in Nat
  BY DurationOf DEF IInv, TypeOK
<1> QED
  BY <1>1 DEF PassedOver

\* A turn that finds no slot turns its task away because nothing fits.
LEMMA NoFitJustified == IInv /\ RefusalsJustified /\ NoFit => RefusalsJustified'
<1> SUFFICES ASSUME IInv, RefusalsJustified, NoFit PROVE RefusalsJustified'
  OBVIOUS
<1>1. /\ UNCHANGED <<tasks, cap, time_blocks>> /\ next' = next + 1
      /\ slots' \in SlotsFor(Task) /\ slots \in Seq(Interval)
  BY DEF NoFit, IInv, TypeOK
<1>2. \A k \in DOMAIN tasks : NoneFits(slots, Duration(tasks[k])) => NoneFits(slots', Duration(tasks[k]))
  BY <1>1, DurationOf, SlotsForFitsNoMore DEF IInv
<1>3. NoneFits(slots, Duration(tasks[next]))
  BY DEF NoFit, Fits, NoneFits, Task
<1>4. FullDay => FullDay'
  BY <1>1 DEF FullDay, BlocksOn, Bookings
<1>5. NoneFits(slots', Duration(tasks[next])) \/ next \notin DOMAIN tasks
  BY <1>2, <1>3
<1>6. \A k \in DOMAIN tasks : PassedOver(k)' => PassedOver(k) \/ k = next
  BY <1>1, OneMorePassedOver
<1> QED
  BY <1>1, <1>2, <1>4, <1>5, <1>6, StillJustified

\* The slots after a block is put back are parts of those before: what fitted
\* nowhere still fits nowhere.
LEMMA PuttingBackFitsNoMore ==
  ASSUME NEW s \in Seq(Interval), NEW i \in DOMAIN s, NEW c \in Nat \ {0}, Length(s[i]) >= c,
         NEW d \in Nat, NoneFits(s, d)
  PROVE  NoneFits(Cons(Cut(s, i, c), Carve(s, i, c)), d)
<1> DEFINE left  == Carve(s, i, c)
           block == Cut(s, i, c)
<1>1. left \in Seq(Interval) /\ ShrinksTo(s, left)
  BY CarveShrinks
<1>2. block \in Interval /\ Within(block, s[i]) /\ s[i] \in Interval
  BY CutWithin
<1> HIDE DEF left, block
<1>3. NoneFits(left, d)
  BY <1>1, ShrinkingFitsNoMore
<1>4. ~ (Length(block) >= d)
  BY <1>2, PartsDoNotFit DEF NoneFits
<1>5. /\ DOMAIN Cons(block, left) = 1 .. Len(left) + 1
      /\ Cons(block, left)[1] = block
      /\ \A m \in 2 .. Len(left) + 1 : Cons(block, left)[m] = left[m - 1] /\ m - 1 \in DOMAIN left
  BY <1>1, <1>2, ConsProperties
<1>6. Len(left) \in Nat
  BY <1>1, LenProperties
<1>7. ASSUME NEW m \in DOMAIN Cons(block, left)
      PROVE  ~ (Length(Cons(block, left)[m]) >= d)
  <2>1. m = 1 \/ m \in 2 .. Len(left) + 1
    BY <1>5, <1>6
  <2>2. CASE m = 1
    BY <1>4, <1>5, <2>2
  <2>3. CASE m \in 2 .. Len(left) + 1
    BY <1>3, <1>5, <2>3 DEF NoneFits
  <2> QED
    BY <2>1, <2>2, <2>3
<1>8. NoneFits(Cons(block, left), d)
  BY <1>7 DEF NoneFits
<1> QED
  BY <1>8 DEF left, block

\* A turn that meets a full day turns its task away because of that day: the
\* counter that refused it counts the blocks.
LEMMA SkipFullDayJustified == IInv /\ RefusalsJustified /\ SkipFullDay => RefusalsJustified'
<1> SUFFICES ASSUME IInv, RefusalsJustified, SkipFullDay PROVE RefusalsJustified'
  OBVIOUS
<1>1. UNCHANGED <<tasks, cap, time_blocks>> /\ next' = next + 1 /\ next <= Len(tasks)
  BY DEF SkipFullDay
<1>0. PICK s \in SlotsFor(Task) : \E i \in DOMAIN s :
        /\ FirstFit(s, Duration(Task), i)
        /\ daily_counts[DayOf(s[i].start)] >= cap
        /\ slots' = Cons(Cut(s, i, Duration(Task)), Carve(s, i, Duration(Task)))
  <2> HIDE DEF DayOf
  <2> QED
    BY DEF SkipFullDay, Cut
<1>2. PICK i \in DOMAIN s :
        /\ FirstFit(s, Duration(Task), i)
        /\ daily_counts[DayOf(s[i].start)] >= cap
        /\ slots' = Cons(Cut(s, i, Duration(Task)), Carve(s, i, Duration(Task)))
  BY <1>0
<1> DEFINE c == Duration(Task)
           on == DayOf(s[i].start)
<1>3. /\ slots \in Seq(Interval) /\ s \in Seq(Interval) /\ s[i] \in Interval
      /\ Inside(s[i]) /\ Length(s[i]) >= c /\ c \in Nat \ {0} /\ TypeOK
  BY <1>1, <1>2, SlotsForClear, DurationType DEF IInv, Clear, FirstFit, Fits
<1>4. on \in Days
  BY <1>3, InsideOnADay
<1>5. daily_counts[on] >= cap
  BY <1>2
<1> HIDE DEF c, on
<1>6. FullDay
  <2>1. /\ Cardinality(BlocksOn(on)) = daily_counts[on] /\ daily_counts[on] <= cap
        /\ daily_counts[on] \in Nat /\ cap \in Nat
    BY <1>3, <1>4, AllocationAssumption DEF IInv, CountsRight, TypeOK
  <2>2. Cardinality(BlocksOn(on)) = cap
    BY <1>5, <2>1
  <2> QED
    BY <1>4, <2>2 DEF FullDay
<1>7. FullDay => FullDay'
  BY <1>1 DEF FullDay, BlocksOn, Bookings
<1>8. \A k \in DOMAIN tasks : NoneFits(slots, Duration(tasks[k])) => NoneFits(slots', Duration(tasks[k]))
  <2>1. SUFFICES ASSUME NEW d \in Nat, NoneFits(slots, d)
                 PROVE  NoneFits(slots', d)
    BY <1>3, DurationOf
  <2>2. NoneFits(s, d)
    BY <1>3, <2>1, SlotsForFitsNoMore
  <2>3. slots' = Cons(Cut(s, i, c), Carve(s, i, c))
    BY <1>2 DEF c
  <2> QED
    BY <1>3, <2>2, <2>3, PuttingBackFitsNoMore
<1> QED
  BY <1>1, <1>6, <1>7, <1>8, StillJustified

\* A turn that places its block takes nothing away from the justification of
\* the others: the slots shrink, and a full day is not the day of the block.
LEMMA PlaceBlockJustified == IInv /\ RefusalsJustified /\ PlaceBlock => RefusalsJustified'
<1> SUFFICES ASSUME IInv, RefusalsJustified, PlaceBlock PROVE RefusalsJustified'
  OBVIOUS
<1>1. UNCHANGED <<free, tasks, cap>> /\ next' = next + 1 /\ next <= Len(tasks)
  BY DEF PlaceBlock
<1>0. PICK s \in SlotsFor(Task) : \E i \in DOMAIN s :
        /\ FirstFit(s, Duration(Task), i)
        /\ daily_counts[DayOf(s[i].start)] < cap
        /\ slots' = Carve(s, i, Duration(Task))
        /\ time_blocks' = Append(time_blocks,
             [task |-> next, start |-> s[i].start, end |-> s[i].start + Duration(Task)])
        /\ daily_counts' = [daily_counts EXCEPT ![DayOf(s[i].start)] = @ + 1]
  <2> HIDE DEF DayOf
  <2> QED
    BY DEF PlaceBlock
<1>2. PICK i \in DOMAIN s :
        /\ FirstFit(s, Duration(Task), i)
        /\ daily_counts[DayOf(s[i].start)] < cap
        /\ slots' = Carve(s, i, Duration(Task))
        /\ time_blocks' = Append(time_blocks,
             [task |-> next, start |-> s[i].start, end |-> s[i].start + Duration(Task)])
        /\ daily_counts' = [daily_counts EXCEPT ![DayOf(s[i].start)] = @ + 1]
  BY <1>0
<1> DEFINE c == Duration(Task)
           on == DayOf(s[i].start)
           b  == [task |-> next, start |-> s[i].start, end |-> s[i].start + c]
<1>3. /\ slots \in Seq(Interval) /\ s \in Seq(Interval) /\ s[i] \in Interval
      /\ Inside(s[i]) /\ Length(s[i]) >= c /\ c \in Nat \ {0} /\ TypeOK
  BY <1>1, <1>2, SlotsForClear, DurationType DEF IInv, Clear, FirstFit, Fits
<1>4. /\ daily_counts[on] < cap
      /\ daily_counts' = [daily_counts EXCEPT ![on] = @ + 1]
      /\ time_blocks' = Append(time_blocks, b) /\ slots' = Carve(s, i, c)
  BY <1>2
<1>5. b \in Block /\ b.task = next
  <2>1. next \in Nat /\ s[i].start \in Nat
    BY <1>3, IntervalBounds DEF TypeOK
  <2> QED
    BY <1>3, <2>1 DEF Block
<1> HIDE DEF c, on, b
<1>6. time_blocks \in Seq(Block) /\ Len(time_blocks) \in Nat /\ DOMAIN time_blocks = 1 .. Len(time_blocks)
  BY <1>3, LenProperties DEF TypeOK
<1>7. /\ DOMAIN time_blocks' = 1 .. Len(time_blocks) + 1
      /\ \A k \in DOMAIN time_blocks : time_blocks'[k] = time_blocks[k]
      /\ time_blocks'[Len(time_blocks) + 1] = b
  BY <1>4, <1>5, <1>6, AppendBlock
<1>8. IInv'
  BY PlaceBlockInv
<1>9. FullDay => FullDay'
  <2>1. SUFFICES ASSUME NEW d \in Days, Cardinality(BlocksOn(d)) = cap
                 PROVE  Cardinality(BlocksOn(d)') = cap
    BY <1>1 DEF FullDay
  <2>2. Cardinality(BlocksOn(d)) = daily_counts[d] /\ daily_counts \in [Days -> Nat]
    BY <1>3 DEF IInv, CountsRight, TypeOK
  <2>3. Cardinality(BlocksOn(d)') = daily_counts'[d]
    BY <1>8 DEF IInv, CountsRight
  <2>4. d # on /\ cap \in Nat
    BY <1>3, <1>4, <2>1, <2>2, AllocationAssumption DEF TypeOK
  <2>5. daily_counts'[d] = daily_counts[d]
    BY <1>4, <2>2, <2>4
  <2> QED
    BY <2>1, <2>2, <2>3, <2>5
<1>10. \A k \in DOMAIN tasks : NoneFits(slots, Duration(tasks[k])) => NoneFits(slots', Duration(tasks[k]))
  <2>1. SUFFICES ASSUME NEW d \in Nat, NoneFits(slots, d)
                 PROVE  NoneFits(slots', d)
    BY <1>3, DurationOf
  <2>2. NoneFits(s, d)
    BY <1>3, <2>1, SlotsForFitsNoMore
  <2>3. Carve(s, i, c) \in Seq(Interval) /\ ShrinksTo(s, Carve(s, i, c))
    BY <1>3, CarveShrinks
  <2> QED
    BY <1>3, <1>4, <2>2, <2>3, ShrinkingFitsNoMore
<1>11. \A k \in DOMAIN tasks : PassedOver(k)' => PassedOver(k)
  <2>1. SUFFICES ASSUME NEW k \in DOMAIN tasks, PassedOver(k)'
                 PROVE  PassedOver(k)
    OBVIOUS
  <2>2. k \in Nat /\ next \in Nat
    BY <1>3, DurationOf DEF TypeOK
  <2>3. Len(time_blocks) + 1 \in DOMAIN time_blocks'
    BY <1>6, <1>7
  <2>4. k # next
    BY <1>5, <1>7, <2>1, <2>3 DEF PassedOver
  <2>5. k < next
    BY <1>1, <2>1, <2>2, <2>4 DEF PassedOver
  <2>6. \A m \in DOMAIN time_blocks : time_blocks[m].task # k
    BY <1>6, <1>7, <2>1 DEF PassedOver
  <2> QED
    BY <2>5, <2>6 DEF PassedOver
<1> QED
  BY <1>1, <1>9, <1>10, <1>11, StillJustified

\* On a list sorted by start, the first slot that is long enough is the earliest
\* of all that are.
LEMMA FirstFitIsEarliest ==
  ASSUME NEW s \in Seq(Interval), NEW t \in SortedByStart(s), NEW d \in Nat,
         NEW i \in DOMAIN t, FirstFit(t, d, i),
         NEW e \in DOMAIN s, Length(s[e]) >= d,
         \A j \in DOMAIN s : Length(s[j]) >= d => s[e].start <= s[j].start
  PROVE  t[i].start = s[e].start
<1>1. PICK p \in Bijection(DOMAIN s, DOMAIN s) : t = [k \in DOMAIN s |-> s[p[k]]]
  BY DEF SortedByStart
<1>2. p \in [DOMAIN s -> DOMAIN s] /\ \E k \in DOMAIN s : p[k] = e
  BY <1>1 DEF Bijection, Surjection
<1>3. PICK k \in DOMAIN s : p[k] = e
  BY <1>2
<1>4. t[k] = s[e] /\ t[i] = s[p[i]] /\ p[i] \in DOMAIN s /\ k \in DOMAIN t /\ DOMAIN t = DOMAIN s
  BY <1>1, <1>2, <1>3
<1>5. k \in Nat /\ i \in 1 .. Len(s) /\ Len(s) \in Nat /\ k \in 1 .. Len(s)
  BY <1>4, LenProperties
<1>6. s[e].start \in Nat /\ t[i].start \in Nat
  BY <1>4, IntervalBounds
<1>7. s[e].start <= t[i].start
  BY <1>4 DEF FirstFit, Fits
<1>8. t[i].start <= s[e].start
  <2>1. ~ (k < i)
    <3>1. Length(t[k]) >= d
      BY <1>4
    <3>2. \A j \in 1 .. i - 1 : ~ (Length(t[j]) >= d)
      BY DEF FirstFit, Fits
    <3> QED
      BY <1>5, <3>1, <3>2
  <2>2. CASE i = k
    BY <1>4, <1>6, <2>2
  <2>3. CASE i < k
    BY <1>4, <2>3 DEF SortedByStart
  <2> QED
    BY <1>5, <2>1, <2>2, <2>3
<1> QED
  BY <1>6, <1>7, <1>8

\* A step decides an urgent task by the earliest time it fits in.
LEMMA UrgentIsDecidedEarliest == IInv /\ Next => EarliestForUrgent
<1> SUFFICES ASSUME IInv, Next, Task.urgent, NEW e \in DOMAIN slots, EarliestFit(e),
                    Cardinality(BlocksOn(DayOf(slots[e].start))) < cap
             PROVE  \E k \in DOMAIN time_blocks' :
                      time_blocks'[k].task = next /\ time_blocks'[k].start = slots[e].start
  BY DEF EarliestForUrgent
<1>1. TypeOK /\ slots \in Seq(Interval) /\ SlotsFor(Task) = SortedByStart(slots)
  BY DEF IInv, TypeOK, SlotsFor
<1>2. next <= Len(tasks) /\ Duration(Task) \in Nat \ {0}
  BY <1>1, DurationType DEF Next, NoFit, SkipFullDay, PlaceBlock
<1>3. /\ Length(slots[e]) >= Duration(Task)
      /\ \A j \in DOMAIN slots : Length(slots[j]) >= Duration(Task) => slots[e].start <= slots[j].start
  BY DEF EarliestFit, LongEnough
<1>4. ASSUME NEW s \in SlotsFor(Task), NEW i \in DOMAIN s, FirstFit(s, Duration(Task), i)
      PROVE  s[i].start = slots[e].start
  BY <1>1, <1>2, <1>3, <1>4, FirstFitIsEarliest
<1>5. ~ NoFit
  BY <1>3 DEF NoFit, Fits
<1>6. ~ SkipFullDay
  <2>1. DayOf(slots[e].start) \in Days
    BY <1>1, InsideOnADay DEF IInv, Clear
  <2>2. daily_counts[DayOf(slots[e].start)] < cap
    BY <2>1 DEF IInv, CountsRight
  <2>3. daily_counts[DayOf(slots[e].start)] \in Nat /\ cap \in Nat
    BY <1>1, <2>1, AllocationAssumption DEF TypeOK
  <2> HIDE DEF DayOf
  <2>4. SUFFICES ASSUME SkipFullDay PROVE FALSE
    OBVIOUS
  <2>5. PICK s \in SlotsFor(Task) : \E i \in DOMAIN s :
          FirstFit(s, Duration(Task), i) /\ daily_counts[DayOf(s[i].start)] >= cap
    BY <2>4 DEF SkipFullDay
  <2>6. PICK i \in DOMAIN s :
          FirstFit(s, Duration(Task), i) /\ daily_counts[DayOf(s[i].start)] >= cap
    BY <2>5
  <2>7. s[i].start = slots[e].start
    BY <1>4, <2>6
  <2>8. daily_counts[DayOf(slots[e].start)] >= cap
    BY <2>6, <2>7
  <2> QED
    BY <2>2, <2>3, <2>8
<1>7. CASE PlaceBlock
  <2>1. PICK s \in SlotsFor(Task) : \E i \in DOMAIN s :
          /\ FirstFit(s, Duration(Task), i)
          /\ time_blocks' = Append(time_blocks,
               [task |-> next, start |-> s[i].start, end |-> s[i].start + Duration(Task)])
    BY <1>7 DEF PlaceBlock
  <2>2. PICK i \in DOMAIN s :
          /\ FirstFit(s, Duration(Task), i)
          /\ time_blocks' = Append(time_blocks,
               [task |-> next, start |-> s[i].start, end |-> s[i].start + Duration(Task)])
    BY <2>1
  <2>3. s[i].start = slots[e].start
    BY <1>4, <2>2
  <2> DEFINE b == [task |-> next, start |-> s[i].start, end |-> s[i].start + Duration(Task)]
  <2>4. b.task = next /\ b.start = slots[e].start /\ time_blocks' = Append(time_blocks, b)
    BY <2>2, <2>3
  <2>5. b \in Block
    <3>1. slots[e].start \in Nat /\ next \in Nat
      BY <1>1, IntervalBounds DEF TypeOK
    <3> QED
      BY <1>2, <2>3, <3>1 DEF Block
  <2> HIDE DEF b
  <2>6. time_blocks \in Seq(Block) /\ Len(time_blocks) \in Nat
    BY <1>1, LenProperties DEF TypeOK
  <2>7. /\ DOMAIN time_blocks' = 1 .. Len(time_blocks) + 1
        /\ time_blocks'[Len(time_blocks) + 1] = b
    BY <2>4, <2>5, <2>6, AppendBlock
  <2>8. Len(time_blocks) + 1 \in DOMAIN time_blocks'
    BY <2>6, <2>7
  <2> QED
    BY <2>4, <2>7, <2>8
<1> QED
  BY <1>5, <1>6, <1>7 DEF Next

-----------------------------------------------------------------------------
(* The theorems                                                            *)

\* The inductive invariant holds in every reachable state.
THEOREM Invariance == Spec => []IInv
<1>1. IInv /\ [Next]_vars => IInv'
  BY NoFitInv, SkipFullDayInv, PlaceBlockInv, StutterInv DEF Next
<1> QED
  BY <1>1, InitInv, PTL DEF Spec

\* Every variable keeps its type; the slots left never hold an empty interval.
THEOREM TypeCorrect == Spec => []TypeOK
<1>1. IInv => TypeOK
  BY DEF IInv
<1> QED
  BY <1>1, Invariance, PTL

\* No moment is booked twice, or booked and still on offer.
THEOREM NeverDoubleBooked == Spec => []NoDoubleBooking
<1>1. IInv => NoDoubleBooking
  BY DEF IInv, Clear, PairwiseApart, OffBlocks, NoDoubleBooking, SlotsApart, BlocksApart, BlocksOffSlots
<1> QED
  BY <1>1, Invariance, PTL

\* No block, and no slot left, reaches outside the free slots.
THEOREM AlwaysInsideFreeSlots == Spec => []StaysInsideFreeSlots
<1>1. IInv => StaysInsideFreeSlots
  BY DEF IInv, Clear, StaysInsideFreeSlots
<1> QED
  BY <1>1, Invariance, PTL

\* No day ever has more blocks than max_blocks_per_day.
THEOREM DailyCapHolds == Spec => []DailyCapRespected
<1>1. IInv => DailyCapRespected
  BY DEF IInv, CountsRight, DailyCapRespected
<1> QED
  BY <1>1, Invariance, PTL

\* No task is turned away while it fits and every day has room: at any later
\* moment it fits nowhere, or some day has all its blocks.
THEOREM RefusalsAreJustified == Spec => []RefusalsJustified
<1>1. Init => RefusalsJustified
  <2> SUFFICES ASSUME Init, NEW k \in DOMAIN tasks PROVE ~ PassedOver(k)
    BY DEF RefusalsJustified
  <2>1. next = 1 /\ k \in Nat \ {0}
    <3>1. tasks \in Seq([duration : Nat, urgent : BOOLEAN])
      BY AllocationAssumption DEF Init
    <3> QED
      BY <3>1, LenProperties DEF Init
  <2> QED
    BY <2>1 DEF PassedOver
<1>2. IInv /\ RefusalsJustified /\ [Next]_vars => RefusalsJustified'
  <2>1. RefusalsJustified /\ UNCHANGED vars => RefusalsJustified'
    BY DEF RefusalsJustified, PassedOver, BlocksOn, Bookings, vars
  <2> QED
    BY <2>1, NoFitJustified, SkipFullDayJustified, PlaceBlockJustified DEF Next
<1> QED
  BY <1>1, <1>2, Invariance, PTL DEF Spec

\* An urgent task is never turned away, or put later, because of a block that an
\* earlier task left at the head of the list.
THEOREM UrgentFirst == Spec => UrgentTasksEarliest
<1>1. IInv /\ [Next]_vars => [EarliestForUrgent]_vars
  BY UrgentIsDecidedEarliest
<1> QED
  BY <1>1, Invariance, PTL DEF Spec, UrgentTasksEarliest
=============================================================================
