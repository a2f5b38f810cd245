# A TLA+ model of TemporalIQ

TemporalIQ (`src/README.md`) is a Flask API that takes tasks from Notion, looks for free time in the
user's iCloud calendar, makes time blocks for the tasks and writes them to the calendar. This directory
has TLA+ modules that model its core logic, TLC configurations that check them on small instances, and
proofs, checked by TLAPS, that hold for instances of every size. `PROJECT.json` is the index: which
definition models which lines, which run checks which property, and the hazards the properties are for.

Paths below are relative to `src/`.

## 1. The system

One Flask process serves requests in threads (`app/__init__.py`). A request has a SQLAlchemy session
(`g.db`, set by `setup_request`); what it has not committed when it ends is rolled back when
`shutdown_session` removes the session. PostgreSQL runs at READ COMMITTED: a flushed UPDATE holds the
row's lock until the transaction ends, and an INSERT waits for another of the same unique key. Redis (or a
dictionary) is a cache with timeouts, shared by all requests and not part of any transaction. iCloud, Notion,
Stripe, Apple and the mail server are reached by calls that may fail, or be done and their answer lost.

| Component | State | Operations | Where it is hard |
|---|---|---|---|
| Free time finder (`scheduling/services/free_time_finder.py`) | cache of answers | `find_free_slots`: fetch events, scan days block by block | boundaries of blocks, windows and events; block length changes during the scan; what is fetched and what is scanned differ |
| Time block generator (`scheduling/services/time_block_generator.py`) | list of slots, blocks, counts per day | `_prioritize_and_allocate`; caching and persistence of previews | one list that is sorted, cut and put back together while tasks are tried on it |
| Task prioritizer | learned weights | scoring, sorting | none for a model checker |
| Scheduling routes (`scheduling/routes/api.py`) | -- | preview, confirm | remote writes before a local commit; rollback by deletion |
| iCloud event service and CalDAV client (`icloud/`) | the remote calendar, event cache | write, delete with retries, batch write with rollback | lost answers, retries, partial failure, other requests on the same calendar |
| iCloud connection, client manager | credentials, client cache | connect, verify | stale clients |
| Accounts and sessions (`auth/routes/api.py`, `auth/session_manager`, `auth/email_verification`) | user row, verification and reset tokens, cached user row, mailbox | signup, verify, login, Apple sign-in, password reset | three stores written at different moments; races on the unique address; rows cached before a change |
| Two-factor authentication (`auth/two_factor`) | a row per user: secret, enabled, backup codes | setup, verify setup, disable, regenerate, verify login | check-then-write over several statements; codes consumed in a transaction |
| Subscriptions (`subscriptions/`) | a row per user, its cache entry, the events marked as processed; at Stripe: checkouts, subscriptions, events | subscribe, status, upgrade, cancel, webhook | events repeated and out of order, rows saved that another request has changed, a stale entry, Stripe told before the row is saved |
| Notion OAuth and connection (`notion/auth`, `notion/routes`) | OAuth states, a row per user, its cache entry, the cached list of databases; at Notion: the newest tokens | start, callback, connect, refresh, read, list databases | tokens that can be used once, two refreshes at once, a refresh and a new authorization, entries kept from before |
| Notion mapping storage and smart mapping (`notion/mapping_storage`, `notion/smart_mapping`) | mapping, its cache entry, feedback, candidates | map schema, generate candidates, preview, read a page | one bad row in the middle of an import; a mapping that times out on the way; nothing is committed |
| AI settings, training events (`features/`) | a row per user, its cache, events | read, update, `log_event` | rolled back and committed by helpers |
| User preferences | a row per user, its cache | read, update | cache against row |
| Caching, exceptions, factory, logging, migrations | -- | -- | wiring |

How they interact: a preview reads preferences and AI settings, calls the free time finder (which reads the
calendar through the event service) and hands its slots with the prioritised tasks to the block generator. A
confirmation writes the blocks through the CalDAV client and logs training events. Login asks the two-factor
service before it hands out cookies. All share the cache service and the pattern "repository flushes,
route commits", and several routes do not commit.

What makes each one correct:

- *Finder*: slots do not overlap, avoid the events, waste little free time; the scan ends.
- *Generator*: no moment booked twice, nothing outside the free slots, the daily cap, urgent tasks first,
  no refusal without a reason.
- *Calendar writes*: what is reported as written is there; a rollback deletes the request's own events and
  only those; every request ends.
- *Accounts*: an unverified account has a usable link; the tokens, the row and the cache agree; cookies are
  earned; an account is not replaced; stale cache entries do not last.
- *Two factor*: enabled only with a proven secret; the secret is not replaced while enabled; codes are used once.
- *Subscriptions*: an event is not lost; a payment reaches the row, unless another id was written over the one that leads
  there; the entry is never ahead of the row; nobody becomes canceled over a subscription that Stripe goes on charging, unless the
  client asks `/upgrade` for that; the AI settings stay the defaults until the user has been premium.
- *Notion*: the newest refresh token, good for one exchange, is kept; an import is whole or not at all; what is
  cached of a replaced connection does not last.

## 2. The modules

| Module | Models | Abstracts |
|---|---|---|
| `FreeTime` | `find_free_slots`, `_compute_slots`, `_is_overlapping`, the answer cache | the duration model: a block gets any length of `BlockSizes` |
| `BlockAllocation` | `_prioritize_and_allocate`, `_try_allocate_task_to_slots` | scores: a task has a duration and is urgent or not |
| `Booking` | the abstract specification `BlockAllocation` implements | lists of slots: there are only available moments |
| `BlockAllocation_proofs`, `BlockAllocation_refinement`, `FreeTime_proofs`, `CalendarWrite_proofs`, `Account_proofs`, `TwoFactor_proofs`, `AISettings_proofs`, `NotionImport_proofs` | theorems about the module each extends | |
| `CalendarWrite` | `confirm_schedule` with `_write_events`, `_log_training_events`, `_rollback_on_failure`; `write_scheduled_blocks` with `_delete_event_with_retry` | events: a uid each |
| `Account` | every route on the account of one address, with mail, cache, locks and rollbacks | hashes and tokens: model values |
| `TwoFactor` | every route on the two-factor row of one user | TOTP: a valid code stands for its secret |
| `Subscriptions` | every route and Stripe event on the subscription of one user | amounts, dates, signatures; every plan but premium and its price is "free" |
| `AISettings` | reading and changing the AI settings of that user; extends `Subscriptions` | the toggles: the set of those that are off |
| `NotionConnection` | the OAuth state, connection, tokens and list of databases of one user | a token: the authorization it is of, and its number |
| `NotionImport` | mapping, import, preview and page; extends `NotionConnection` | a row: which of its fields are there and can be read |

The `MC` modules give the constants their values.

**FreeTime.** Time is counted in units from midnight of day 0. `request`, `day`, `cur` and `slots` are the
locals of `find_free_slots`, `cache` its entries, keyed by the two dates only, as in the code. `ScanBlock(size)`
is a turn of the inner `while`: the length is chosen afresh each time, since the preferences are read again and
the duration model is one object that other threads refit. `NextDay` is a turn of the outer loop, whose
`current_date` keeps the time of day of `start_date`. The cache is looked up before the window is validated.

**BlockAllocation.** An action is a turn of the loop over the tasks. `slots` is the list the loop carries along:
`SlotsFor` sorts it for an urgent task (it stays sorted), `Carve` cuts a block off a slot, `SkipFullDay` puts the
block back at the head of the list when the day is full. That the block goes to the head, out of order and apart from
its slot, is what makes the properties worth checking.

**CalendarWrite.** A remote call is done, refused, or done with its answer lost (the `\in {calendar, ...}` of the
failing actions). `written` are the uids whose write was acknowledged, `uids` what the handler holds. `Restart` stops the
server between any two steps.

**Account.** `user`, `links` and `resets` are committed rows; `txn[w]` is what request `w` has flushed, which `Commit`
publishes and `End` drops; a row in `txn` is a lock (`Free`). `cached` and `checked` are the two cache entries, `mailed`
what has left in a mail. `sessions` is a history variable: the passwords, links and Apple id tokens for which cookies were handed out. It does not
record what `/refresh` and `/2fa/verify` hand out: the first needs cookies, the second a second factor that was set up with them. Apple
vouches for the address, so an Apple sign-in gets cookies for any account there, verified or not (`AppleSignIn`, `AppleSettle`), and
`SessionsEarned` asks nothing of it but an account. A stored reset token would get cookies as well (`routes/api.py:728-734`), but none is ever
stored: neither route of the password reset commits, and `resets` stays empty. `lapsed` are the stored links past their time.
Logout, refresh and `/me` change none of this.

**TwoFactor.** A request works on the row as it first loaded it (`seen`; SQLAlchemy's identity map), its UPDATE writes the
columns that differ (`Differing`), waits for the lock at the flush, and is visible at the commit, if the route commits.

**Subscriptions, AISettings.** `row` is the committed subscription, `cached` its entry. A checkout has a session id and,
once paid, a subscription id, and `ref` is the one the row has: `PaymentFound` is about the moment a webhook exchanges them. `loaded[w]` is
the row as request `w` loaded it, `wanted[w]` what it makes of it; `Save` writes the columns in which they differ (`Assign`). What the user does at
Stripe (`Pay`, `FailToPay`, ...) raises events, which stay in `sent` and may be delivered at any time, in any order, again and by
two threads at once. A hit of the subscription's cache entry makes `UserSubscriptions(**cached)` fail (the pickled `__dict__` has
`_sa_instance_state`), so a request that gets one ends there: `Get` and `GetAgain` say so. At
the start there is no subscription, or one that is paid and whose events were answered. What the client sends to `/upgrade` is a plan, a status and a
Stripe id, each given or left out, and what it sends to `/subscribe` for another plan than premium may have an id, too: `Bodies` are the ones
considered, `Sendable` those whose id the row has held (`/status` tells it) or is none of the user's, and `Updated` sets the fields that are given. So the
client can write canceled, or any id, without Stripe, and the properties say so: `CanceledAtStripe` allows a status the client
asked `/upgrade` for, and otherwise wants the very subscription of the row the request loaded to be ended at Stripe, or told to; `PaymentFound` leaves out
the checkouts in `replaced`, whose id some request has overwritten by another. `committed` (every row committed so far) and `replaced` are
history variables. The settings row is in `AISettings` because `update_settings` asks the subscription first: the answer may be
outdated when the row is saved. Settings from the cache are a detached copy, so the row is looked up before it is saved (`LookUpSettings`).

**NotionConnection, NotionImport.** `issued[a]` is how many token pairs Notion has given for authorization `a`; only the newest
refresh token is good, once. A connection is the number of its token with the authorization and the workspace the row names, which
differ only when a refresh overlaps a new authorization (`Save` writes the columns that changed). `lost` is a history variable: the
authorizations whose refreshed token died with a request between Notion's answer and the commit. After the commit of a new
authorization over an existing row the code fails (the object it was built from has no `created_at` to cache), so `Save` ends the request
there. The routes that use a connection begin with `get_connection` (`GetCached`, `GetRow`), keep it in `held` and go on (`After`). In
`NotionImport` a request ends by dropping what it flushed: the mapping lives in `mapping`, the cache entry, and `work` is what a request has
read and built. A row is a triple of what the code can tell apart: no field, an empty list, an empty text, a null date.

## 3. What TLC checks

| Run | Bounds | Shows |
|---|---|---|
| `allocation` | 4 lists of up to 4 slots over two days of 6 units, all lists of 4 tasks, cap 1 or 2 | type; `NoDoubleBooking`; `StaysInsideFreeSlots`; `DailyCapRespected`; `RefusalsJustified`: a task is passed over only if nothing left is long enough or a day is full; `UrgentTasksEarliest`; the refinement `BooksAvailableTime` |
| `free_time` | two days of 6 units, blocks of 1 or 3, calendars of up to two of five events, four requests | type; `SlotsDisjoint`, where a day's last block is over before the next window; `SlotsAvoidFetchedEvents`; `NoFreeTimeLost`: at most a block on each side of an event is given up; `ScanEnds` |
| `calendar_write` | a confirmation and two batch writes, up to three events each, some under the same uid | type; `ConfirmMeansWritten`; `ScheduleAllOrNothing`; `RollbackDeletesOwnWrites`; `EveryRequestEnds` |
| `account` | two threads, two passwords, two links, one reset token | type; `UnverifiedHasLink`; `LinkSpentIffVerified`; `RowsNeverAhead`; `SessionsEarned`; `AccountKept`; `StaleRowsEnd`; `RequestsEnd` |
| `two_factor` | two threads, two secrets, two batches of codes | type; `EnabledIsProven`; `NoCodesWhileDisabled`; `SecretKeptWhileEnabled`; `RequestsEnd` |
| `subscriptions` | two threads, two checkouts, one toggle, two requests of the user, each with one of four bodies, two events, each delivered any number of times; with and without a subscription at the start | type; `CacheNeverAhead`; `CanceledAtStripe`; `PaymentFound`; `SettingsNeedPremium`; `MarkedIsHandled` |
| `notion` | two threads, two authorizations, each with its first tokens and one refresh; three tables of rows, imports of two | type; `RefreshTokenKept`; `ImportComplete`; `StaleConnectionEnds` |

Why the bounds are enough. *allocation*: a put-back block, a used-up slot, a shortened slot and a re-sorted list need three
tasks and two days; four tasks let them follow each other. *free_time*: with blocks of 1 and 3 a block
may end before, at and after an event or the end of the window; the five events touch every boundary; the requests
include a window that is refused, a last day that is cut off, two pairs of windows with one cache key each, and a window of a whole day but for a
unit, whose last block reaches into the next day (there `SlotsDisjoint` says nothing; everything else must hold). *calendar_write*: three
attempts per delete as in the code; a shared uid lets one request's rollback meet another's event. *account* and *two_factor*:
the races are between two requests; a third would only wait for the same lock. Two passwords are two people; two links allow a
signup to be rolled back after its mail has left and another to follow. `FailedLoginThreshold` is 2 instead of 5. *subscriptions*: with
two checkouts a late event or a cancellation of one meets the row of the other, and a new session replaces the id of the old; two requests
overlap on every pair of routes, and since the run also starts with a paid subscription neither has to be spent on getting there; two events,
such as the completed checkout and its first payment or the end of the subscription, arrive in either order, again and twice at once, and an event that is
not delivered need not count. *notion*: of two authorizations the second replaces the first, or both are exchanged
at once; a second token for each is one refresh, and a refresh that starts from the row of the first may end after the second is there.
A table of three rows is longer than an import, with an unreadable row beyond the cap in one table and within it in another.

Bounds in the guards: `LinkLeft` in `Account` (a signup starts only while there is a token for it); secrets and batches in
`TwoFactor` run out, after which only the other requests go on;
`MaxRequests` and `MaxEvents` in `Subscriptions` (at the second Stripe goes on, but its events are not delivered any more);
`MaxTokens` in `NotionConnection` (no refresh begins at the bound), and one OAuth state open at a time; `MaxRows` is 2 instead of the 100 of
the code; nothing else is capped. `CHECK_DEADLOCK FALSE` is where the
system stops (all tasks decided, all requests served) or may have nothing to do for the chosen constants; `free_time` and
`account` are checked for deadlock.

**Fairness.** `FreeTime`: `WF(Scanning)`, the thread of a request keeps running. `CalendarWrite`: `WF(Step(r))`, a remote
call returns or raises. `Account` and `TwoFactor`: `WF` of each thread's steps and `SF` of the steps that wait for a lock, since
PostgreSQL queues those who wait; in `Account` also `WF(RowExpires)`, since a cache entry has a timeout of 300 s. `NotionImport`: only `WF` of
the timeouts of the two entries of the connection, a day after they were made, whatever the requests do; no request is assumed to end.
`AISettings` has none: its run checks safety only, for which the symmetry of the threads is sound. Nothing is
assumed of the arrival of requests, of failures, restarts or the expiry of links.

Three properties of `two_factor` (`EnabledIsProven`, `NoCodesWhileDisabled`, `SecretKeptWhileEnabled`) have the hypothesis `~ stale`: no request has committed over a row that changed since it loaded
it. Without it they fail (`two_factor_race`); with it they say that the code is right as far as lost updates are avoided.

### Where the code does something else than it says

Each is a run with `expect: violation`; `PROJECT.json` quotes the text.

| Run | What happens |
|---|---|
| `free_time_calendar` | events are fetched between the instants `start_date` and `end_date`, slots are made for whole days: a slot is offered over an event of the last day |
| `calendar_rollback` | a confirmation that fails leaves the events it wrote: the uids never reach `_rollback_on_failure`, and if they did it would raise an `AttributeError` |
| `two_factor_race` | a disable between the load and the commit of a verify-setup leaves 2FA enabled without a secret |
| `two_factor_codes` | `/2fa/verify` does not commit: a backup code can be used again |
| `account_reset` | `/reset-password` does not commit: the mailed token is refused |

Seen while modelling and not stated by any document, so without a run: the last block of a day may end after `latest_time`, and where the
window leaves a night shorter than a block, slots of two days overlap;
failed logins are never committed, so the lock-out is never reached; a link that has lapsed cannot be renewed and the address
cannot sign up again; a link whose verification was rolled back answers 500 while its cache entry lasts.

Of subscriptions: while there is a cache entry, for a day after any look-up, `/status`, `/upgrade`, `/cancel` and a change of the AI settings
fail, since the entry holds `_sa_instance_state`. `/cancel` asks for the subscription twice: the second time it meets the entry it has just made, so
Stripe ends the subscription and the row stays as it was until a webhook. `customer.subscription.updated` writes Stripe's price id into
`plan_type`, and the user is not premium any more for `is_premium` and `/cancel`. A payment event delivered after the end of the subscription makes it active
again. A row saved by a new `/subscribe` while a webhook completes the old checkout loses the new session's id. A new
`/subscribe`, or an id sent to `/upgrade`, overwrites the session of a checkout that is still open: when the user pays there, the event
concerns no row and the payment never reaches it. `/upgrade` takes a status and an id from the client, so a row can be canceled, or
made active, without Stripe. A change of the AI settings
that starts from a cached copy overwrites what was changed since. An account made by an Apple sign-in has no AI settings row.

Of Notion: a new authorization over an existing row is committed and then fails, the entry keeps the old tokens for the rest of its
day, and the user is told "Authentication failed"; so do `/connect` and `/refresh-token` always end in an error, after their work is
done, because their answer needs a field the connection does not have. `/refresh-token` overwrites the entry by an encrypted
string that `get_connection` cannot use. The callback keeps the list of databases of the workspace before. A refresh that overlaps a new
authorization may leave the tokens of one with the workspace of the other. None of the routes for a mapping, its candidates or a
page commits, so `task_candidates` stays empty and a mapping lives for the week of its cache entry. One row with an empty title list or a null date
fails the whole import, and so does a row without the title field (NOT NULL). A page never gives a candidate: the AI settings have no
`use_sentence_splitter`. The connection to iCloud is not committed either; and preferences that are saved while `get_preferences` makes the defaults may be
overwritten by them.

## 4. What is proved

TLAPS checks the theorems below for every value of the constants that satisfies the named assumptions: any number of threads,
requests, events, tokens and rows, any plan, calendar and length of day. Every safety invariant and every action property that a passing
run checks is the statement of one. Each module of proofs has the same layout: the inductive invariant `IInv` in named parts, lemmas
on the operators of the model, one lemma per action (`SaveInv`, ...), `Invariance` (`Spec => []IInv`), and the properties from it.

| Module | Theorems, and the property each states | Assumptions |
|---|---|---|
| `BlockAllocation_proofs` | `TypeCorrect` (`TypeOK`), `NeverDoubleBooked` (`NoDoubleBooking`), `AlwaysInsideFreeSlots` (`StaysInsideFreeSlots`), `DailyCapHolds` (`DailyCapRespected`), `RefusalsAreJustified` (`RefusalsJustified`), `UrgentFirst` (`UrgentTasksEarliest`) | `AllocationAssumption`, `FreeSlotsAssumption` |
| `BlockAllocation_refinement` | `ImplementsBooking` (`BooksAvailableTime`) | the same |
| `FreeTime_proofs` | `TypeCorrect` (`TypeOK`), `SlotsStayApart` (`SlotsDisjoint`), `EventsAreAvoided` (`SlotsAvoidFetchedEvents`), `FreeTimeIsKept` (`NoFreeTimeLost`) | `DayAssumption`, `RequestAssumption`, `BlockAssumption`, `CalendarAssumption` |
| `CalendarWrite_proofs` | `TypeCorrect` (`TypeOK`), `ConfirmedIsWritten` (`ConfirmMeansWritten`), `ScheduledAllOrNothing` (`ScheduleAllOrNothing`), `OnlyOwnWritesDeleted` (`RollbackDeletesOwnWrites`) | `CalendarWriteAssumption` |
| `Account_proofs` | `TypeCorrect` (`TypeOK`), `LinkKept` (`UnverifiedHasLink`), `LinkSpent` (`LinkSpentIffVerified`), `CacheBehind` (`RowsNeverAhead`), `CookiesEarned` (`SessionsEarned`), `AccountIsKept` (`AccountKept`) | `AccountAssumption`, `UntouchedAssumption` |
| `TwoFactor_proofs` | `TypeCorrect` (`TypeOK`), `AlwaysProven` (`EnabledIsProven`), `CodesGo` (`NoCodesWhileDisabled`), `SecretIsKept` (`SecretKeptWhileEnabled`) | `TwoFactorAssumption` |
| `AISettings_proofs` (and `Subscriptions`) | `TypeCorrect` (`TypeOK`), `CacheIsBehind` (`CacheNeverAhead`), `CanceledIsTold` (`CanceledAtStripe`), `PaymentIsFound` (`PaymentFound`), `SettingsArePremium` (`SettingsNeedPremium`), `MarkedWasHandled` (`MarkedIsHandled`) | `SubscriptionsAssumption`, `BodiesAssumption`, `MissingAssumption` |
| `NotionImport_proofs` (and `NotionConnection`) | `TypeCorrect` (`TypeOK`), `RefreshTokenIsKept` (`RefreshTokenKept`), `ImportsAreComplete` (`ImportComplete`) | `NotionAssumption`, `ImportAssumption` |

What the assumptions rest on. Most keep the placeholders for "no row", "no token" and "untouched" apart from real values. The others are what
the code gives: durations, caps, blocks and day lengths are positive (a missing duration is 30); an event ends after it begins;
both dates of a request and both ends of its window lie in a day; a confirmation has no uids of its own and gets fresh ones, which no
other request and no earlier event has (`uuid4`); a table of rows that was fetched is not empty. `FreeSlotsAssumption` (the
free slots are not empty and pairwise apart) is what `SlotsStayApart` proves of the finder's answers where the nights hold; for a window
whose last block reaches into the next day the finder breaks it, and nothing is claimed of the allocation.

**BlockAllocation.** `NoDoubleBooking` is not inductive: a block cut from a slot is apart from the other blocks only because the
slot was, and the slot only because it is apart from the blocks and the other slots, through every sort and put-back. `DailyCapRespected`
counts blocks and the code compares a counter. `IInv` adds that every slot is a non-empty interval inside a free
slot and clear of the blocks (`Clear`), that `daily_counts` counts the blocks (`CountsRight`), and that blocks belong to
tasks already decided (`TasksDecided`, so that the set of blocks grows by one with each). The argument begins with lists of intervals: one
list *shrinks to* another when every interval of the second is part of one of the first, different ones of different
ones (`ShrinksTo`). Shrinking keeps intervals apart and inside. Sorting shrinks (`SortingShrinks`), cutting shrinks and leaves the rest
apart from the block cut out (`CarveShrinks`), putting a block back at the head is harmless when it is apart from the list (`ConsApart`).
`RefusalsJustified` is inductive over `IInv`: what fits nowhere fits nowhere in a list that has shrunk (`ShrinkingFitsNoMore`,
`PuttingBackFitsNoMore`), a full day stays full because a block is placed only on one that is not, and the counter that refuses a task counts
the blocks. `UrgentTasksEarliest` follows from the sort: on a sorted list the first slot that fits is the earliest of all that do
(`FirstFitIsEarliest`).

*The refinement.* The abstract state is the set of moments the slots cover. Sorting keeps it (`MomentsSorted`), cutting
removes exactly the block's moments because slots are apart (`MomentsCarve`), putting back adds them again (`MomentsCons`): so
`NoFit` and `SkipFullDay` are `TurnAway`, `PlaceBlock` is `Book`, and the cap follows from `CountsRight`.

**FreeTime.** `SlotsDisjoint` needs the cursor: the slots found so far end before it, and it comes before the window of the next day
(`Behind`). The second holds only where a block that starts before `latest_time` is over before the window of the next day begins, so
`SlotsDisjoint` has that as its hypothesis, for each cache key (`NightsHold`): the code does not see to it, and without it TLC finds slots that
overlap. `NoFreeTimeLost` is about the end of a scan; the invariant says it of every moment up to the cursor (`CoveredSoFar`). An
answer in the cache avoids the events between the dates of its key, which are those of whoever finds it there.

**CalendarWrite.** `ConfirmMeansWritten` is about the training events and the calendar, which other requests write to and delete from
meanwhile. The invariant says for each step what a request has written, what it has left to delete (`Progress`) and, for a request
whose uids are its own (`Private`), where its events are (`Events`). A rollback deletes from `left`, which is part of `written`, which is part of
the request's uids: so it leaves those of the others alone. The uids of a confirmation are its own (`ConfirmsArePrivate`).

**Account.** No property of the row is inductive without the lock: a commit publishes what was flushed over the row as it was then.
`OneWriter` (one transaction at a time has written the row) and `Progress` (what a request has flushed, by the step it is at, is the committed
row with its change) make it so. `Tokens` adds that there is one link at most, and that it has been mailed before it is committed. For `SessionsEarned` the
row a login decides on, from the cache or the table, must be one that was committed (`RowsNeverAhead`), and a verification or a new account
must be committed before the cookies for it leave: `Progress` has that for the step in between.

**TwoFactor.** The row may change under a request, and `EnabledIsProven`, `NoCodesWhileDisabled` and `SecretKeptWhileEnabled` say what holds
until a commit does that (`~ stale`). The invariant relates the columns a request is about to write to the row it decided on
(`ToSetup`, `ToVerify`, `ToDisable`, `ToRegenerate`); a commit that is not stale finds that row (`Committed`).

**AISettings, Subscriptions.** Rows are saved from copies, which are older than the table by the time they are saved. The invariant says that each (`row`, `cached`,
`loaded`) was committed once (`RowsTrue`, `Progress`), which gives `CacheNeverAhead`. For `CanceledAtStripe`, a request that is about to save
a cancellation has loaded the row with a subscription that Stripe has ended or was told to end (`Canceling`, `Over`), and a deleted event says what
has happened (`EventsTrue`). `PaymentFound` speaks of an event whose session may be written over, or whose row was loaded, long before: the
invariant is that an id stays in the row, or its checkout is in `replaced`, from the commit of the session on (`Held`). A request that has opened a checkout
(`Opened`) has it alone (`OneCheckout`), commits it before the user is sent there, and only then can it be paid. The settings' part (`AtSettings`)
follows a request that was told the user is premium until it saves: the answer may be outdated by then, so the invariant is about the history
`committed` (`WasPremium`).

**NotionImport, NotionConnection.** The invariant says of each request that has got a token and not saved it (`Carrying`) that it has the newest of its
authorization, alone, and that the row and the rows other requests start from have older ones (`Newest`): Notion takes each refresh token once,
so of two refreshes that start from one row only one gets another. For the import, the candidates are those of the rows read, in order
(`MadeOf`).

**Only model-checked.** The liveness properties (`ScanEnds`, `EveryRequestEnds`, `RequestsEnd`, `StaleRowsEnd`, `StaleConnectionEnds`), which need fairness
and ENABLED, out of the prover's reach. So `ScanEnds` is shown for the instance of the run only.

## 5. What is not modelled

- Scoring, NLP, field detectors and learned models (`task_prioritizer.py`, `smart_mapping/field_detectors`, `scoring`,
  `ai_data_service.py`): data and no control. What depends on them is left open: the order of the tasks, the length of a block, the
  text in a page.
- `generate_time_blocks` around the allocation: it stores tasks made from candidates that no route commits, so as wired it has none.
- The cache of iCloud events and the grid of available blocks: they read. What a write means to a cached answer is hazard
  `event_service.py:63`, which no property covers.
- The connection to iCloud and its client: as wired no connection is ever committed. `CalendarWrite` has the outcome that no client can
  be had, and what the writes do when there is one.
- User preferences: a row and its cache entry; `FreeTime` takes any block size, `NotionImport` any outcome of reading a date.
- The wording and layout of answers, logging, rate limits, CSRF, the encryption of stored tokens, cookies; the factory, migrations and scripts.

## 6. Plan

Every component whose routes change state is modelled, but for those of section 5, and every safety and action property the passing runs check is
proved. What is left:

1. Abstract specifications for the others, as `Booking` is for the allocation: what a user may see of the account (none, unverified, verified), of
   a batch write (all or nothing), of the connection to Notion, each with the refinement proved.
2. From the finder to the allocation: that the answers of `FreeTime`, where the nights hold, satisfy `FreeSlotsAssumption`, as a
   theorem on a composition of the two instead of an assumption of the second.
3. The steps of the liveness arguments that are safety: that a measure goes down with each turn of the scan and with each step of a batch write.
