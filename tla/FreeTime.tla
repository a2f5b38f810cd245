------------------------------ MODULE FreeTime ------------------------------
(***************************************************************************)
(* FreeTimeFinder.find_free_slots (app/scheduling/services/                *)
(* free_time_finder.py): the scan that turns a user's iCloud calendar into *)
(* the list of free slots the block generator allocates tasks to, and the  *)
(* one-hour cache of its answers.                                          *)
(*                                                                         *)
(* Time is counted in whole units from midnight of day 0 (UTC): day d at   *)
(* time of day t is the instant d * DayLen + t.  A request scans from      *)
(* start_date to end_date, one calendar day at a time, and in each day     *)
(* from earliest_time in blocks until latest_time is reached.              *)
(***************************************************************************)
EXTENDS Integers, Sequences

CONSTANTS
  DayLen,      \* length of a day, in units
  Requests,    \* the requests: records [start, end, window], the first two a
               \* datetime [day, time], the window [earliest, latest]
  BlockSizes,  \* lengths _compute_block_end may answer: the preference, its
               \* default, or a clamped prediction of the duration model
  Calendars    \* the calendars considered: sets of events [start, end]

ASSUME DayAssumption == DayLen \in Nat \ {0}

\* What SchedulePreviewIn lets through: any dates, HH:MM strings for the window.
ASSUME RequestAssumption ==
  /\ Requests # {}
  /\ \A r \in Requests :
       /\ \A d \in {r.start, r.end} : d.day \in Nat /\ d.time \in 0 .. DayLen - 1
       /\ r.window.earliest \in 0 .. DayLen - 1
       /\ r.window.latest \in 0 .. DayLen - 1

\* block_size_minutes > 0 is a CHECK constraint, the default is positive and
\* clamp_duration never answers less than MIN_DURATION_MINUTES.
ASSUME BlockAssumption == BlockSizes \subseteq Nat \ {0} /\ BlockSizes # {}

ASSUME CalendarAssumption ==
  \A c \in Calendars : \A e \in c :
    e.start \in Int /\ e.end \in Int /\ e.start < e.end

VARIABLES
  calendar,  \* the events in the iCloud calendar; nobody edits it here
  pc,        \* "idle", "scan", "save", "answered" or "refused"
  request,   \* [start, end, window] of the request being served
  events,    \* what _fetch_events returned to it
  day,       \* the day of current_date
  cur,       \* current_time
  slots,     \* the slots found so far, and the answer
  cache      \* scheduling:free_slots:*, keyed by the two dates only

vars == <<calendar, pc, request, events, day, cur, slots, cache>>

-----------------------------------------------------------------------------
Instant(d) == d.day * DayLen + d.time

\* Mutant: the scan starts one day early.
DayStartDayEarly(d, r) == (d - 1) * DayLen + r.window.earliest

DayStart(d, r) == d * DayLen + r.window.earliest
DayEnd(d, r)   == d * DayLen + r.window.latest

KeyOf(r)  == <<r.start, r.end>>
CacheKeys == {KeyOf(r) : r \in Requests}

\* The while condition of the outer loop: current_date keeps the time of day
\* of start_date, so the last day is scanned only up to that time of day.
InRange(d, r) ==
  d < r.end.day \/ (d = r.end.day /\ r.start.time <= r.end.time)

\* What CalDAV's date_search answers for the half-open range of a request.
EventsInRange(c, r) ==
  {e \in c : e.start < Instant(r.end) /\ e.end > Instant(r.start)}

\* Mutant: only events that begin inside the block are seen.
IsOverlappingStartOnly(evs, from, to) ==
  \E e \in evs : e.start <= to /\ e.start >= from

\* A block that only touches an event's start counts as overlapping it.
IsOverlapping(evs, from, to) == \E e \in evs : e.start <= to /\ e.end > from

-----------------------------------------------------------------------------
Init ==
  /\ calendar \in Calendars
  /\ pc = "idle"
  /\ request \in Requests
  /\ events = {}
  /\ day = 0
  /\ cur = 0
  /\ slots = <<>>
  /\ cache = [k \in CacheKeys |-> <<>>]

\* A new request arrives; nothing of the previous one is kept but the cache.
Receive(r) ==
  /\ pc \in {"idle", "answered", "refused"}
  /\ request' = r
  /\ UNCHANGED <<calendar, cache>>

\* The request ends: its local variables are gone.
Leave(outcome, answer) ==
  /\ pc' = outcome
  /\ slots' = answer
  /\ events' = {}
  /\ day' = 0
  /\ cur' = 0

\* The cache is read before the window is validated, and an empty cached list
\* is not a hit.
FindCached(r) ==
  /\ Receive(r)
  /\ cache[KeyOf(r)] # <<>>
  /\ Leave("answered", cache[KeyOf(r)])

\* "earliest_time must be before latest_time"
FindRefused(r) ==
  /\ Receive(r)
  /\ cache[KeyOf(r)] = <<>>
  /\ r.window.earliest >= r.window.latest
  /\ Leave("refused", <<>>)

\* Fetching the events (or the settings) fails: CalendarError, nothing cached.
FindFetchFails(r) ==
  /\ Receive(r)
  /\ cache[KeyOf(r)] = <<>>
  /\ r.window.earliest < r.window.latest
  /\ Leave("refused", <<>>)

FindStart(r) ==
  /\ Receive(r)
  /\ cache[KeyOf(r)] = <<>>
  /\ r.window.earliest < r.window.latest
  /\ events' = EventsInRange(calendar, r)
  /\ day' = r.start.day
  /\ cur' = DayStart(r.start.day, r)
  /\ slots' = <<>>
  /\ pc' = IF InRange(r.start.day, r) THEN "scan" ELSE "save"

\* Mutant: the cursor advances by the default block of one unit, not by the
\* length the block got.
ScanBlockDefaultStep(size) ==
  /\ pc = "scan"
  /\ cur < DayEnd(day, request)
  /\ cur' = cur + 1
  /\ slots' = IF IsOverlapping(events, cur, cur + size)
                THEN slots
                ELSE Append(slots, [start |-> cur, end |-> cur + size])
  /\ UNCHANGED <<calendar, pc, request, events, day, cache>>

\* Mutant: a block that overlaps an event is tried again where it stands.
ScanBlockNoAdvance(size) ==
  /\ pc = "scan"
  /\ cur < DayEnd(day, request)
  /\ IF IsOverlapping(events, cur, cur + size)
       THEN UNCHANGED <<cur, slots>>
       ELSE /\ cur' = cur + size
            /\ slots' = Append(slots, [start |-> cur, end |-> cur + size])
  /\ UNCHANGED <<calendar, pc, request, events, day, cache>>

\* Mutant: the first overlapping block ends the day.
ScanBlockGiveUpDay(size) ==
  /\ pc = "scan"
  /\ cur < DayEnd(day, request)
  /\ IF IsOverlapping(events, cur, cur + size)
       THEN cur' = DayEnd(day, request) /\ UNCHANGED slots
       ELSE /\ cur' = cur + size
            /\ slots' = Append(slots, [start |-> cur, end |-> cur + size])
  /\ UNCHANGED <<calendar, pc, request, events, day, cache>>

\* One turn of the inner loop.  The length is computed afresh for every block:
\* the preferences are read again and the duration model, one object shared by
\* all threads, may be refitted by another request meanwhile.
ScanBlock(size) ==
  /\ pc = "scan"
  /\ cur < DayEnd(day, request)
  /\ cur' = cur + size
  /\ slots' = IF IsOverlapping(events, cur, cur + size)
                THEN slots
                ELSE Append(slots, [start |-> cur, end |-> cur + size])
  /\ UNCHANGED <<calendar, pc, request, events, day, cache>>

NextDay ==
  /\ pc = "scan"
  /\ cur >= DayEnd(day, request)
  /\ day' = day + 1
  /\ cur' = DayStart(day + 1, request)
  /\ pc' = IF InRange(day + 1, request) THEN "scan" ELSE "save"
  /\ UNCHANGED <<calendar, request, events, slots, cache>>

\* db.commit(), then the answer is cached.
Save ==
  /\ pc = "save"
  /\ cache' = [cache EXCEPT ![KeyOf(request)] = slots]
  /\ Leave("answered", slots)
  /\ UNCHANGED <<calendar, request>>

\* The commit fails (DatabaseError): no answer and nothing cached.
SaveFails ==
  /\ pc = "save"
  /\ Leave("refused", <<>>)
  /\ UNCHANGED <<calendar, request, cache>>

\* The cached answer reaches its timeout.
Expire(k) ==
  /\ cache[k] # <<>>
  /\ cache' = [cache EXCEPT ![k] = <<>>]
  /\ UNCHANGED <<calendar, pc, request, events, day, cur, slots>>

Scanning == (\E s \in BlockSizes : ScanBlock(s)) \/ NextDay \/ Save \/ SaveFails

Next ==
  \/ \E r \in Requests : \/ FindCached(r)
                         \/ FindRefused(r)
                         \/ FindFetchFails(r)
                         \/ FindStart(r)
  \/ \E s \in BlockSizes : ScanBlock(s)
  \/ NextDay
  \/ Save
  \/ SaveFails
  \/ \E k \in CacheKeys : Expire(k)

Spec == Init /\ [][Next]_vars

\* The thread that serves a request keeps running.
FairSpec == Spec /\ WF_vars(Scanning)

-----------------------------------------------------------------------------
Slot == [start : Nat, end : Nat]

\* The type of every variable.
TypeOK ==
  /\ calendar \in Calendars
  /\ pc \in {"idle", "scan", "save", "answered", "refused"}
  /\ request \in Requests
  /\ events \subseteq calendar
  /\ day \in Nat
  /\ cur \in Nat
  /\ slots \in Seq(Slot)
  /\ cache \in [CacheKeys -> Seq(Slot)]

\* Every slot is a non-empty interval and ends no later than the next begins.
Chronological(s) ==
  /\ \A i \in DOMAIN s : s[i].start < s[i].end
  /\ \A i, j \in DOMAIN s : i < j => s[i].end <= s[j].start

\* A block that starts before latest_time ends before the window of the next day
\* begins, for the requests whose answers are cached under k.  The code does not
\* see to it: a long block at the end of a long window reaches into the next day.
NightsHold(k) ==
  \A r \in Requests, size \in BlockSizes :
    KeyOf(r) = k => r.window.latest - 1 + size <= DayLen + r.window.earliest

\* The answer never offers the same moment twice, across the blocks of a day
\* and, where the nights hold, across days: the last block of a day may run past
\* latest_time but not into the first block of the next day.  Cached answers
\* included.
SlotsDisjoint ==
  /\ NightsHold(KeyOf(request)) => Chronological(slots)
  /\ \A k \in CacheKeys : NightsHold(k) => Chronological(cache[k])

\* No answer contains a moment of an event that was fetched for its dates.
Avoids(s, evs) ==
  \A i \in DOMAIN s : \A e \in evs : s[i].end <= e.start \/ e.end <= s[i].start

SlotsAvoidFetchedEvents ==
  /\ Avoids(slots, EventsInRange(calendar, request))
  /\ \A k \in CacheKeys :
       Avoids(cache[k], {e \in calendar : /\ e.start < Instant(k[2])
                                          /\ e.end > Instant(k[1])})

\* No free time is lost: at the end of a scan, every moment between
\* earliest_time and latest_time of a scanned day is in a slot or within one
\* block length of an event.  (The scan does not realign after an event, so
\* up to a block on each side of it may be given up, never more.)
NearEvent(t) ==
  \E e \in events, s \in BlockSizes : e.start <= t + s /\ e.end > t - s

NoFreeTimeLost ==
  pc = "save" =>
    \A d \in request.start.day .. day - 1 :
      \A t \in DayStart(d, request) .. DayEnd(d, request) - 1 :
        \/ \E i \in DOMAIN slots : slots[i].start <= t /\ t < slots[i].end
        \/ NearEvent(t)

\* A request that starts scanning is answered or refused: the two nested loops
\* end whatever lengths the blocks get.
ScanEnds == (pc = "scan") ~> (pc \in {"answered", "refused"})

\* README.md:31 "Respects user preferences, work hours, max blocks per day, and
\* existing calendar events": an answer would keep clear of every event in the
\* calendar, not only of those between the instants start_date and end_date.
SlotsAvoidCalendar == pc = "answered" => Avoids(slots, calendar)
=============================================================================
