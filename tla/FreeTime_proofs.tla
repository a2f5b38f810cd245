--------------------------- MODULE FreeTime_proofs ---------------------------
(***************************************************************************)
(* Proofs about FreeTime, for any length of the day, any requests, lengths *)
(* of blocks and calendars.                                                *)
(***************************************************************************)
EXTENDS FreeTime, TLAPS

-----------------------------------------------------------------------------
(* The inductive invariant                                                 *)

\* The events between the two dates of a key.
EventsOf(k) == {e \in calendar : e.start < Instant(k[2]) /\ e.end > Instant(k[1])}

\* A scan checks its blocks against the events between the dates of its request.
EventsFetched == pc \in {"scan", "save"} => events = EventsInRange(calendar, request)

\* The slots found so far end before the cursor, which is still before the next
\* window where the nights hold.
Behind ==
  pc = "scan" /\ NightsHold(KeyOf(request)) =>
    /\ cur <= DayStart(day + 1, request)
    /\ \A i \in DOMAIN slots : slots[i].end <= cur

\* A moment is in a slot, or near an event.
Covered(t) ==
  \/ \E i \in DOMAIN slots : slots[i].start <= t /\ t < slots[i].end
  \/ NearEvent(t)

\* Every moment of a window of the scan's days is, up to the cursor.
CoveredSoFar ==
  /\ pc \in {"scan", "save"} =>
       \A d \in request.start.day .. day - 1 :
         \A t \in DayStart(d, request) .. DayEnd(d, request) - 1 : Covered(t)
  /\ pc = "scan" =>
       \A t \in DayStart(day, request) .. DayEnd(day, request) - 1 : t < cur => Covered(t)

IInv ==
  /\ TypeOK
  /\ EventsFetched
  /\ Avoids(slots, EventsInRange(calendar, request))
  /\ \A k \in CacheKeys : Avoids(cache[k], EventsOf(k))
  /\ SlotsDisjoint
  /\ Behind
  /\ CoveredSoFar

-----------------------------------------------------------------------------
(* Days, slots and lists of them                                           *)

\* The windows of a day lie in it.
LEMMA Days ==
  ASSUME NEW r \in Requests, NEW d \in Nat
  PROVE  /\ DayStart(d, r) \in Nat /\ DayEnd(d, r) \in Nat
         /\ DayStart(d + 1, r) = DayStart(d, r) + DayLen
         /\ r.start.day \in Nat /\ KeyOf(r) \in CacheKeys
         /\ r.window.earliest \in Nat /\ r.window.latest \in Nat
         /\ DayEnd(d, r) = DayStart(d, r) - r.window.earliest + r.window.latest
<1>1. r.window.earliest \in Nat /\ r.window.latest \in Nat /\ r.start.day \in Nat
  BY RequestAssumption, DayAssumption
<1>2. d * DayLen \in Nat /\ (d + 1) * DayLen = d * DayLen + DayLen /\ DayLen \in Nat
  BY DayAssumption
<1>3. KeyOf(r) \in CacheKeys
  BY DEF CacheKeys
<1> QED
  BY <1>1, <1>2, <1>3 DEF DayStart, DayEnd

\* The events fetched for a request are those of its key.
LEMMA KeyEvents == \A r : EventsOf(KeyOf(r)) = EventsInRange(calendar, r)
BY DEF EventsOf, EventsInRange, KeyOf

\* No slots.
LEMMA NoSlots ==
  /\ <<>> \in Seq(Slot) /\ DOMAIN <<>> = {}
  /\ Chronological(<<>>) /\ \A evs : Avoids(<<>>, evs)
BY DEF Chronological, Avoids

\* One more slot.
LEMMA OneMoreSlot ==
  ASSUME NEW s \in Seq(Slot), NEW x \in Slot
  PROVE  /\ Append(s, x) \in Seq(Slot)
         /\ DOMAIN Append(s, x) = DOMAIN s \cup {Len(s) + 1}
         /\ DOMAIN s = 1 .. Len(s) /\ Len(s) \in Nat
         /\ \A i \in DOMAIN s : Append(s, x)[i] = s[i] /\ s[i] \in Slot
         /\ Append(s, x)[Len(s) + 1] = x
OBVIOUS

\* A slot that begins where or after the others end, and that overlaps no event,
\* makes a list of slots apart that avoids the events.
LEMMA GoodSlot ==
  ASSUME NEW s \in Seq(Slot), NEW from \in Nat, NEW to \in Nat, from < to,
         Chronological(s), \A i \in DOMAIN s : s[i].end <= from
  PROVE  /\ Chronological(Append(s, [start |-> from, end |-> to]))
         /\ \A i \in DOMAIN Append(s, [start |-> from, end |-> to]) :
              Append(s, [start |-> from, end |-> to])[i].end <= to
<1> DEFINE x == [start |-> from, end |-> to]
           a == Append(s, x)
<1>1. x \in Slot /\ x.start = from /\ x.end = to
  BY DEF Slot
<1> HIDE DEF x
<1>2. /\ DOMAIN a = DOMAIN s \cup {Len(s) + 1} /\ DOMAIN s = 1 .. Len(s) /\ Len(s) \in Nat
      /\ \A i \in DOMAIN s : a[i] = s[i] /\ s[i] \in Slot
      /\ a[Len(s) + 1] = x
  BY <1>1, OneMoreSlot
<1> HIDE DEF a
<1>3. \A i \in DOMAIN s : s[i].start \in Nat /\ s[i].end \in Nat
  BY <1>2 DEF Slot
<1>4. \A i \in DOMAIN a : a[i].start < a[i].end
  BY <1>1, <1>2 DEF Chronological
<1>5. ASSUME NEW i \in DOMAIN a, NEW j \in DOMAIN a, i < j PROVE a[i].end <= a[j].start
  <2>1. i \in DOMAIN s
    BY <1>2, <1>5
  <2>2. CASE j \in DOMAIN s
    BY <1>2, <1>5, <2>1, <2>2 DEF Chronological
  <2>3. CASE j = Len(s) + 1
    BY <1>1, <1>2, <2>1, <2>3
  <2> QED
    BY <1>2, <2>2, <2>3
<1>6. \A i \in DOMAIN a : a[i].end <= to
  BY <1>1, <1>2, <1>3
<1> QED
  BY <1>4, <1>5, <1>6 DEF Chronological, a, x

\* A slot that overlaps no event.
LEMMA AvoidingSlot ==
  ASSUME NEW s \in Seq(Slot), NEW from \in Nat, NEW to \in Nat, NEW evs,
         \A e \in evs : e.start \in Int /\ e.end \in Int,
         Avoids(s, evs), ~ IsOverlapping(evs, from, to)
  PROVE  Avoids(Append(s, [start |-> from, end |-> to]), evs)
<1> DEFINE x == [start |-> from, end |-> to]
<1>1. x \in Slot /\ x.start = from /\ x.end = to
  BY DEF Slot
<1> HIDE DEF x
<1>2. /\ DOMAIN Append(s, x) = DOMAIN s \cup {Len(s) + 1}
      /\ \A i \in DOMAIN s : Append(s, x)[i] = s[i]
      /\ Append(s, x)[Len(s) + 1] = x
  BY <1>1, OneMoreSlot
<1>3. \A e \in evs : to <= e.start \/ e.end <= from
  BY DEF IsOverlapping
<1> QED
  BY <1>1, <1>2, <1>3 DEF Avoids, x

-----------------------------------------------------------------------------
(* The steps                                                               *)

\* A request that ends keeps the invariant if its answer avoids the events of its
\* dates and holds no moment twice.
LEMMA LeaveInv ==
  ASSUME IInv, NEW outcome \in {"answered", "refused"}, NEW answer \in Seq(Slot),
         Leave(outcome, answer), UNCHANGED calendar, request' \in Requests,
         Avoids(answer, EventsInRange(calendar, request')),
         NightsHold(KeyOf(request')) => Chronological(answer),
         cache' \in [CacheKeys -> Seq(Slot)],
         \A k \in CacheKeys : /\ Avoids(cache'[k], EventsOf(k))
                              /\ NightsHold(k) => Chronological(cache'[k])
  PROVE  IInv'
<1>1. pc' = outcome /\ slots' = answer /\ events' = {} /\ day' = 0 /\ cur' = 0 /\ calendar' = calendar
  BY DEF Leave
<1>2. TypeOK'
  BY <1>1 DEF IInv, TypeOK
<1>3. EventsFetched' /\ Behind' /\ CoveredSoFar'
  BY <1>1 DEF EventsFetched, Behind, CoveredSoFar
<1>4. \A k : EventsOf(k)' = EventsOf(k)
  BY <1>1 DEF EventsOf, Instant
<1>5. \A k \in CacheKeys : Avoids(cache[k], EventsOf(k))'
  BY <1>4 DEF Avoids
<1>6. Avoids(slots, EventsInRange(calendar, request))'
  BY <1>1 DEF Avoids, EventsInRange, Instant
<1>7. SlotsDisjoint'
  BY <1>1 DEF SlotsDisjoint, NightsHold, Chronological, KeyOf
<1> QED
  BY <1>2, <1>3, <1>5, <1>6, <1>7 DEF IInv

\* The cached answer is one for the same dates.
LEMMA FindCachedInv == ASSUME NEW r \in Requests, IInv, FindCached(r) PROVE IInv'
<1>1. /\ Leave("answered", cache[KeyOf(r)]) /\ request' = r
      /\ UNCHANGED <<calendar, cache>> /\ KeyOf(r) \in CacheKeys
  BY DEF FindCached, Receive, CacheKeys
<1>2. cache[KeyOf(r)] \in Seq(Slot) /\ cache' \in [CacheKeys -> Seq(Slot)]
  BY <1>1 DEF IInv, TypeOK
<1>3. Avoids(cache[KeyOf(r)], EventsInRange(calendar, r))
  BY <1>1, KeyEvents DEF IInv
<1> QED
  BY <1>1, <1>2, <1>3, LeaveInv DEF IInv, SlotsDisjoint

\* A refused request has no slots.
LEMMA FindRefusedInv ==
  ASSUME NEW r \in Requests, IInv, FindRefused(r) \/ FindFetchFails(r)
  PROVE  IInv'
<1>1. Leave("refused", <<>>) /\ request' = r /\ UNCHANGED <<calendar, cache>>
  BY DEF FindRefused, FindFetchFails, Receive
<1>2. cache' \in [CacheKeys -> Seq(Slot)]
  BY <1>1 DEF IInv, TypeOK
<1> QED
  BY <1>1, <1>2, NoSlots, LeaveInv DEF IInv, SlotsDisjoint

\* The commit and the cache, or neither.
LEMMA SaveInv == ASSUME IInv, Save \/ SaveFails PROVE IInv'
<1>1. KeyOf(request) \in CacheKeys /\ request \in Requests /\ slots \in Seq(Slot)
  BY DEF IInv, TypeOK, CacheKeys
<1>2. CASE Save
  <2>1. /\ Leave("answered", slots) /\ UNCHANGED <<calendar, request>>
        /\ cache' = [cache EXCEPT ![KeyOf(request)] = slots]
    BY <1>2 DEF Save
  <2>2. cache' \in [CacheKeys -> Seq(Slot)]
    BY <1>1, <2>1 DEF IInv, TypeOK
  <2>3. \A k \in CacheKeys : cache'[k] = IF k = KeyOf(request) THEN slots ELSE cache[k]
    BY <2>1 DEF IInv, TypeOK
  <2>4. Avoids(slots, EventsOf(KeyOf(request)))
    BY KeyEvents DEF IInv
  <2> QED
    BY <1>1, <2>1, <2>2, <2>3, <2>4, LeaveInv DEF IInv, SlotsDisjoint
<1>3. CASE SaveFails
  <2>1. Leave("refused", <<>>) /\ UNCHANGED <<calendar, request, cache>>
    BY <1>3 DEF SaveFails
  <2>2. cache' \in [CacheKeys -> Seq(Slot)]
    BY <2>1 DEF IInv, TypeOK
  <2> QED
    BY <1>1, <2>1, <2>2, NoSlots, LeaveInv DEF IInv, SlotsDisjoint
<1> QED
  BY <1>2, <1>3

\* The scan begins with the events of its dates.
LEMMA FindStartInv == ASSUME NEW r \in Requests, IInv, FindStart(r) PROVE IInv'
<1> DEFINE first == r.start.day
<1>1. /\ request' = r /\ UNCHANGED <<calendar, cache>> /\ events' = EventsInRange(calendar, r)
      /\ day' = first /\ cur' = DayStart(first, r) /\ slots' = <<>>
      /\ pc' \in {"scan", "save"}
  BY DEF FindStart, Receive
<1>2. /\ first \in Nat /\ DayStart(first, r) \in Nat
      /\ DayStart(first, r) <= DayStart(first + 1, r)
  BY Days, DayAssumption, RequestAssumption
<1> HIDE DEF first
<1>3. TypeOK'
  <2>1. events' \subseteq calendar'
    BY <1>1 DEF EventsInRange
  <2> QED
    BY <1>1, <1>2, <2>1, NoSlots DEF IInv, TypeOK
<1>4. EventsFetched' /\ Behind'
  BY <1>1, <1>2, NoSlots DEF EventsFetched, Behind, EventsInRange, Instant, DayStart
<1>5. Avoids(slots, EventsInRange(calendar, request))'
  BY <1>1, NoSlots DEF Avoids
<1>6. (\A k \in CacheKeys : Avoids(cache[k], EventsOf(k)))'
  BY <1>1 DEF IInv, Avoids, EventsOf, Instant
<1>7. SlotsDisjoint'
  BY <1>1, NoSlots DEF IInv, SlotsDisjoint, Chronological, NightsHold, KeyOf
<1>8. CoveredSoFar'
  <2>1. first .. first - 1 = {}
    BY <1>2
  <2>2. pc' = "scan" => \A t \in DayStart(first, r) .. DayEnd(first, r) - 1 : ~ (t < DayStart(first, r))
    BY <1>2, Days
  <2> QED
    BY <1>1, <2>1, <2>2 DEF CoveredSoFar, first
<1> QED
  BY <1>3, <1>4, <1>5, <1>6, <1>7, <1>8 DEF IInv

\* A block becomes a slot, or is given up because of an event that is near each of
\* its moments.
LEMMA ScanBlockInv == ASSUME NEW size \in BlockSizes, IInv, ScanBlock(size) PROVE IInv'
<1> DEFINE x == [start |-> cur, end |-> cur + size]
           taken == IsOverlapping(events, cur, cur + size)
<1>1. /\ pc = "scan" /\ cur < DayEnd(day, request) /\ cur' = cur + size
      /\ slots' = IF taken THEN slots ELSE Append(slots, x)
      /\ UNCHANGED <<calendar, pc, request, events, day, cache>>
  BY DEF ScanBlock
<1>2. /\ size \in Nat /\ size > 0 /\ cur \in Nat /\ day \in Nat /\ request \in Requests
      /\ slots \in Seq(Slot) /\ x \in Slot /\ cur < cur + size /\ cur + size \in Nat
  BY BlockAssumption DEF IInv, TypeOK, Slot
<1>3. x.start = cur /\ x.end = cur + size
  OBVIOUS
<1>4. /\ DOMAIN Append(slots, x) = DOMAIN slots \cup {Len(slots) + 1}
      /\ \A i \in DOMAIN slots : Append(slots, x)[i] = slots[i] /\ slots[i] \in Slot
      /\ Append(slots, x)[Len(slots) + 1] = x /\ Append(slots, x) \in Seq(Slot)
  BY <1>2, OneMoreSlot
<1>5. \A e \in events : e.start \in Int /\ e.end \in Int
  BY CalendarAssumption DEF IInv, TypeOK
<1>6. TypeOK'
  BY <1>1, <1>2, <1>4 DEF IInv, TypeOK
<1>7. EventsFetched'
  BY <1>1 DEF IInv, EventsFetched, EventsInRange, Instant
<1>8. Avoids(slots, EventsInRange(calendar, request))'
  <2>1. events = EventsInRange(calendar, request)
    BY <1>1 DEF IInv, EventsFetched
  <2>2. Avoids(slots', events)
    <3>1. CASE taken
      BY <1>1, <2>1, <3>1 DEF IInv
    <3>2. CASE ~ taken
      <4>1. Avoids(Append(slots, x), events)
        BY <1>2, <1>5, <2>1, <3>2, AvoidingSlot DEF IInv
      <4> QED
        BY <1>1, <3>2, <4>1
    <3> QED
      BY <3>1, <3>2
  <2>3. EventsInRange(calendar, request)' = events
    BY <1>1, <2>1 DEF EventsInRange, Instant
  <2> QED
    BY <2>2, <2>3 DEF Avoids
<1>9. (\A k \in CacheKeys : Avoids(cache[k], EventsOf(k)))'
  BY <1>1 DEF IInv, Avoids, EventsOf, Instant
<1>10. ASSUME NightsHold(KeyOf(request))
       PROVE  /\ cur + size <= DayStart(day + 1, request)
              /\ Chronological(slots') /\ \A i \in DOMAIN slots' : slots'[i].end <= cur + size
  <2>1. Chronological(slots) /\ \A i \in DOMAIN slots : slots[i].end <= cur
    BY <1>1, <1>10 DEF IInv, SlotsDisjoint, Behind
  <2>2. request.window.latest - 1 + size <= DayLen + request.window.earliest
    BY <1>2, <1>10 DEF NightsHold
  <2>3. cur + size <= DayStart(day + 1, request)
    <3>1. /\ DayStart(day, request) \in Nat /\ DayEnd(day, request) \in Nat
          /\ DayStart(day + 1, request) = DayStart(day, request) + DayLen
          /\ DayEnd(day, request) =
               DayStart(day, request) - request.window.earliest + request.window.latest
          /\ request.window.earliest \in Nat /\ request.window.latest \in Nat
      BY <1>2, Days
    <3>2. cur \in Nat /\ size \in Nat /\ cur < DayEnd(day, request)
      BY <1>1, <1>2
    <3> QED
      BY <2>2, <3>1, <3>2, DayAssumption
  <2>4. CASE taken
    <3>1. \A i \in DOMAIN slots : slots[i].end \in Nat
      BY <1>4 DEF Slot
    <3> QED
      BY <1>1, <1>2, <2>1, <2>3, <2>4, <3>1
  <2>5. CASE ~ taken
    <3>1. /\ Chronological(Append(slots, x))
          /\ \A i \in DOMAIN Append(slots, x) : Append(slots, x)[i].end <= cur + size
      BY <1>2, <2>1, GoodSlot
    <3> QED
      BY <1>1, <2>3, <2>5, <3>1
  <2> QED
    BY <2>4, <2>5
<1>11. Behind' /\ SlotsDisjoint'
  BY <1>1, <1>10 DEF IInv, SlotsDisjoint, Behind, Chronological, NightsHold, KeyOf, DayStart
<1>12. \A t : Covered(t) => Covered(t)'
  <2>1. ASSUME NEW t, Covered(t) PROVE Covered(t)'
    <3>1. CASE NearEvent(t)
      BY <1>1, <3>1 DEF Covered, NearEvent
    <3>2. ASSUME NEW i \in DOMAIN slots, slots[i].start <= t, t < slots[i].end PROVE Covered(t)'
      <4>1. i \in DOMAIN slots' /\ slots'[i] = slots[i]
        BY <1>1, <1>4, <3>2
      <4> QED
        BY <3>2, <4>1 DEF Covered
    <3> QED
      BY <2>1, <3>1, <3>2 DEF Covered
  <2> QED
    BY <2>1
<1>13. ASSUME NEW t \in Int, cur <= t, t < cur + size PROVE Covered(t)'
  <2>1. CASE taken
    <3>1. PICK e \in events : e.start <= cur + size /\ e.end > cur
      BY <2>1 DEF IsOverlapping
    <3>2. e.start <= t + size /\ e.end > t - size
      BY <1>2, <1>5, <1>13, <3>1
    <3> QED
      BY <1>1, <3>2 DEF Covered, NearEvent
  <2>2. CASE ~ taken
    <3>1. Len(slots) + 1 \in DOMAIN slots' /\ slots'[Len(slots) + 1] = x
      BY <1>1, <1>4, <2>2
    <3>2. x.start <= t /\ t < x.end
      BY <1>3, <1>13
    <3> QED
      BY <3>1, <3>2 DEF Covered
  <2> QED
    BY <2>1, <2>2
<1>14. CoveredSoFar'
  <2> DEFINE Moments(d) == DayStart(d, request) .. DayEnd(d, request) - 1
  <2>1. \A d \in request.start.day .. day - 1 : \A t \in Moments(d) : Covered(t)'
    BY <1>1, <1>12 DEF IInv, CoveredSoFar
  <2>2. ASSUME NEW t \in Moments(day), t < cur + size PROVE Covered(t)'
    <3>1. t \in Int
      BY <1>2, Days
    <3>2. CASE t < cur
      BY <1>1, <1>12, <3>2 DEF IInv, CoveredSoFar
    <3>3. CASE cur <= t
      BY <1>13, <2>2, <3>1, <3>3
    <3> QED
      BY <1>2, <3>1, <3>2, <3>3
  <2>3. /\ request' = request /\ day' = day /\ pc' = pc /\ cur' = cur + size
        /\ \A d : DayStart(d, request)' = DayStart(d, request)
        /\ \A d : DayEnd(d, request)' = DayEnd(d, request)
    BY <1>1 DEF DayStart, DayEnd
  <2> QED
    BY <1>1, <2>1, <2>2, <2>3 DEF CoveredSoFar
<1> QED
  BY <1>6, <1>7, <1>8, <1>9, <1>11, <1>14 DEF IInv

\* The window of the day is covered, and the next one begins after the slots where
\* the nights hold.
LEMMA NextDayInv == ASSUME IInv, NextDay PROVE IInv'
<1>1. /\ pc = "scan" /\ cur >= DayEnd(day, request)
      /\ day' = day + 1 /\ cur' = DayStart(day + 1, request) /\ pc' \in {"scan", "save"}
      /\ UNCHANGED <<calendar, request, events, slots, cache>>
  BY DEF NextDay
<1>2. /\ day \in Nat /\ cur \in Nat /\ request \in Requests /\ slots \in Seq(Slot)
      /\ request.start.day \in Nat /\ DayStart(day, request) \in Nat /\ DayEnd(day, request) \in Nat
      /\ DayStart(day + 1, request) \in Nat
      /\ DayStart(day + 1, request) <= DayStart(day + 1 + 1, request)
  <2>1. day \in Nat /\ cur \in Nat /\ request \in Requests /\ slots \in Seq(Slot) /\ day + 1 \in Nat
    BY DEF IInv, TypeOK
  <2>2. /\ request.start.day \in Nat /\ DayStart(day, request) \in Nat
        /\ DayEnd(day, request) \in Nat
    BY <2>1, Days
  <2>3. /\ DayStart(day + 1, request) \in Nat
        /\ DayStart(day + 1 + 1, request) = DayStart(day + 1, request) + DayLen
    BY <2>1, Days
  <2> QED
    BY <2>1, <2>2, <2>3, DayAssumption
<1>3. TypeOK'
  BY <1>1, <1>2 DEF IInv, TypeOK
<1>4. EventsFetched'
  BY <1>1 DEF IInv, EventsFetched, EventsInRange, Instant
<1>5. Avoids(slots, EventsInRange(calendar, request))'
  BY <1>1 DEF IInv, Avoids, EventsInRange, Instant
<1>6. (\A k \in CacheKeys : Avoids(cache[k], EventsOf(k)))'
  BY <1>1 DEF IInv, Avoids, EventsOf, Instant
<1>7. SlotsDisjoint'
  BY <1>1 DEF IInv, SlotsDisjoint, Chronological, NightsHold, KeyOf
<1>8. Behind'
  <2>1. \A i \in DOMAIN slots : slots[i].end \in Nat
    <3>1. slots \in Seq(Slot)
      BY <1>2
    <3>2. \A i \in DOMAIN slots : slots[i] \in Slot
      BY <3>1
    <3> QED
      BY <3>2 DEF Slot
  <2>2. NightsHold(KeyOf(request)) => \A i \in DOMAIN slots : slots[i].end <= DayStart(day + 1, request)
    BY <1>1, <1>2, <2>1 DEF IInv, Behind
  <2> QED
    BY <1>1, <1>2, <2>2 DEF Behind, NightsHold, KeyOf, DayStart
<1>9. CoveredSoFar'
  <2> DEFINE Moments(d) == DayStart(d, request) .. DayEnd(d, request) - 1
  <2>1. \A t : Covered(t) => Covered(t)'
    BY <1>1 DEF Covered, NearEvent
  <2>2. ASSUME NEW d \in request.start.day .. day, NEW t \in Moments(d) PROVE Covered(t)'
    <3>1. CASE d = day
      <4>1. t < cur
        BY <1>1, <1>2, <3>1
      <4> QED
        BY <1>1, <2>1, <3>1, <4>1 DEF IInv, CoveredSoFar
    <3>2. CASE d # day
      <4>1. d \in request.start.day .. day - 1
        BY <1>2, <3>2
      <4> QED
        BY <1>1, <2>1, <4>1 DEF IInv, CoveredSoFar
    <3> QED
      BY <3>1, <3>2
  <2>3. request' = request /\ day' - 1 = day
    <3>1. request' = request /\ day' = day + 1 /\ day \in Int
      BY <1>1, <1>2
    <3> QED
      BY <3>1
  <2>4. /\ \A d : DayStart(d, request)' = DayStart(d, request)
        /\ \A d : DayEnd(d, request)' = DayEnd(d, request)
    BY <1>1 DEF DayStart, DayEnd
  <2>5. \A t \in (DayStart(day, request) .. DayEnd(day, request) - 1)' : ~ (t < cur')
    BY <1>1, <1>2, Days DEF DayStart, DayEnd
  <2> QED
    BY <1>1, <2>2, <2>3, <2>4, <2>5 DEF CoveredSoFar
<1> QED
  BY <1>3, <1>4, <1>5, <1>6, <1>7, <1>8, <1>9 DEF IInv

\* An answer times out.
LEMMA ExpireInv == ASSUME NEW k \in CacheKeys, IInv, Expire(k) PROVE IInv'
<1>1. /\ cache' = [cache EXCEPT ![k] = <<>>]
      /\ UNCHANGED <<calendar, pc, request, events, day, cur, slots>>
  BY DEF Expire
<1>2. cache' \in [CacheKeys -> Seq(Slot)]
  BY <1>1, NoSlots DEF IInv, TypeOK
<1>3. \A c \in CacheKeys : cache'[c] = IF c = k THEN <<>> ELSE cache[c]
  BY <1>1 DEF IInv, TypeOK
<1>4. TypeOK' /\ EventsFetched' /\ Behind'
  BY <1>1, <1>2 DEF IInv, TypeOK, EventsFetched, Behind, EventsInRange, Instant, NightsHold,
                    KeyOf, DayStart
<1>5. CoveredSoFar'
  BY <1>1 DEF IInv, CoveredSoFar, Covered, NearEvent, DayStart, DayEnd
<1>6. Avoids(slots, EventsInRange(calendar, request))'
  BY <1>1 DEF IInv, Avoids, EventsInRange, Instant
<1>7. (\A c \in CacheKeys : Avoids(cache[c], EventsOf(c)))'
  BY <1>1, <1>3, NoSlots DEF IInv, Avoids, EventsOf, Instant
<1>8. SlotsDisjoint'
  BY <1>1, <1>3, NoSlots DEF IInv, SlotsDisjoint, Chronological, NightsHold, KeyOf
<1> QED
  BY <1>4, <1>5, <1>6, <1>7, <1>8 DEF IInv

-----------------------------------------------------------------------------
(* The theorems                                                            *)

\* Nothing has been found or cached at first.
LEMMA InitInv == Init => IInv
<1> SUFFICES ASSUME Init PROVE IInv
  OBVIOUS
<1>1. TypeOK
  BY NoSlots DEF Init, TypeOK
<1>2. EventsFetched /\ Behind /\ CoveredSoFar
  BY DEF Init, EventsFetched, Behind, CoveredSoFar
<1>3. Avoids(slots, EventsInRange(calendar, request)) /\ \A k \in CacheKeys : Avoids(cache[k], EventsOf(k))
  BY NoSlots DEF Init, Avoids
<1>4. SlotsDisjoint
  BY NoSlots DEF Init, SlotsDisjoint
<1> QED
  BY <1>1, <1>2, <1>3, <1>4 DEF IInv

\* Every step keeps the invariant.
LEMMA NextInv == IInv /\ [Next]_vars => IInv'
<1> SUFFICES ASSUME IInv, [Next]_vars PROVE IInv'
  OBVIOUS
<1>1. ASSUME NEW r \in Requests, FindCached(r) \/ FindRefused(r) \/ FindFetchFails(r) \/ FindStart(r)
      PROVE  IInv'
  BY <1>1, FindCachedInv, FindRefusedInv, FindStartInv
<1>2. ASSUME NEW s \in BlockSizes, ScanBlock(s) PROVE IInv'
  BY <1>2, ScanBlockInv
<1>3. ASSUME NEW k \in CacheKeys, Expire(k) PROVE IInv'
  BY <1>3, ExpireInv
<1>4. CASE UNCHANGED vars
  <2>1. UNCHANGED <<calendar, pc, request, events, day, cur, slots, cache>>
    BY <1>4 DEF vars
  <2>2. TypeOK' /\ EventsFetched' /\ Behind'
    BY <2>1 DEF IInv, TypeOK, EventsFetched, Behind, EventsInRange, Instant, NightsHold,
                KeyOf, DayStart
  <2>3. CoveredSoFar'
    BY <2>1 DEF IInv, CoveredSoFar, Covered, NearEvent, DayStart, DayEnd
  <2>4. /\ Avoids(slots, EventsInRange(calendar, request))'
        /\ (\A c \in CacheKeys : Avoids(cache[c], EventsOf(c)))'
    BY <2>1 DEF IInv, Avoids, EventsOf, EventsInRange, Instant
  <2>5. SlotsDisjoint'
    BY <2>1 DEF IInv, SlotsDisjoint, Chronological, NightsHold, KeyOf
  <2> QED
    BY <2>2, <2>3, <2>4, <2>5 DEF IInv
<1> QED
  BY <1>1, <1>2, <1>3, <1>4, NextDayInv, SaveInv DEF Next

\* The inductive invariant holds in every reachable state, for any length of the
\* day, any windows and ranges of dates, any lengths of blocks and any calendars.
THEOREM Invariance == Spec => []IInv
<1> QED
  BY InitInv, NextInv, PTL DEF Spec

\* Every variable keeps its type.
THEOREM TypeCorrect == Spec => []TypeOK
<1>1. IInv => TypeOK
  BY DEF IInv
<1> QED
  BY <1>1, Invariance, PTL

\* find_free_slots offers no moment twice, from the cache or not, if no block that
\* begins in a window can reach into the next one.
THEOREM SlotsStayApart == Spec => []SlotsDisjoint
<1>1. IInv => SlotsDisjoint
  BY DEF IInv
<1> QED
  BY <1>1, Invariance, PTL

\* Nor a moment of an event that _fetch_events had for the dates: the cached answer
\* of another request for the same dates was made from the same events.
THEOREM EventsAreAvoided == Spec => []SlotsAvoidFetchedEvents
<1>1. IInv => SlotsAvoidFetchedEvents
  BY DEF IInv, EventsOf, SlotsAvoidFetchedEvents
<1> QED
  BY <1>1, Invariance, PTL

\* A scan gives up no more than a block on each side of an event, whatever lengths
\* _compute_block_end gives the blocks.
THEOREM FreeTimeIsKept == Spec => []NoFreeTimeLost
<1>1. IInv => NoFreeTimeLost
  BY DEF IInv, CoveredSoFar, Covered, NoFreeTimeLost
<1> QED
  BY <1>1, Invariance, PTL

=============================================================================
