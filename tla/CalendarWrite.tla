--------------------------- MODULE CalendarWrite ---------------------------
(***************************************************************************)
(* The two requests that write events to the iCloud calendar, and what     *)
(* they do when a step fails:                                              *)
(*                                                                         *)
(*   - POST /scheduling/confirm: confirm_schedule, _write_events,          *)
(*     _log_training_events, _rollback_on_failure                          *)
(*     (app/scheduling/routes/api.py);                                     *)
(*   - POST /icloud/schedule: CalDAVEventService.write_scheduled_blocks    *)
(*     (app/icloud/services/event_service.py).                             *)
(*                                                                         *)
(* The calendar is a remote server: a call to it may be done, refused, or  *)
(* done with its answer lost.  Requests run concurrently in the server's   *)
(* threads, and the server may be restarted at any moment.                 *)
(***************************************************************************)
EXTENDS Integers, Sequences, SequencesExt

CONSTANTS
  Confirms,     \* requests to /scheduling/confirm
  Schedules,    \* requests to /icloud/schedule
  Plans,        \* what the requests ask for: the uid of each event to write
  Existing,     \* uids of the events in the calendar beforehand
  NoUid,        \* uid=None: write_event makes a fresh one
  MaxAttempts   \* the 3 of stop_after_attempt(3)

Requests == Confirms \cup Schedules

\* A confirmation never gives a uid, and a fresh one, which is <<r, i>> here, is
\* nobody's yet.
ASSUME CalendarWriteAssumption ==
  /\ Confirms \cap Schedules = {}
  /\ NoUid \notin Existing
  /\ \A u \in Existing : u \notin Requests \X Nat
  /\ Plans \subseteq [Requests -> Seq(Existing \cup {NoUid})]
  /\ \A p \in Plans, r \in Confirms : \A i \in DOMAIN p[r] : p[r][i] = NoUid
  /\ MaxAttempts \in Nat \ {0}

VARIABLES
  plan,      \* the events each request is to write; a confirmed block counts
             \* only when its task is in task_map
  pc,        \* what the request does next
  at,        \* the blocks handled so far by the current loop
  written,   \* the uids whose write was acknowledged
  uids,      \* the uids the handler holds: only a finished _write_events
             \* returns them
  left,      \* the uids still to delete
  attempt,   \* the number of the next try of the delete under way
  failed,    \* failed_deletes
  training,  \* the confirmations whose training events are committed
  calendar,  \* the uids in the calendar
  answer     \* "ok" is status 200, "error" a status 500 of the handler,
             \* "raised" an exception out of it, "lost" none

vars == <<plan, pc, at, written, uids, left, attempt, failed, training, calendar, answer>>

-----------------------------------------------------------------------------
\* Mutant: fresh uids are the same in every request.
UidShared(r, i) == IF plan[r][i] = NoUid THEN <<i>> ELSE plan[r][i]

\* "event.uid or uuid4()"
Uid(r, i) == IF plan[r][i] = NoUid THEN <<r, i>> ELSE plan[r][i]

Init ==
  /\ plan \in Plans
  /\ pc = [r \in Requests |-> "write"]
  /\ at = [r \in Requests |-> 0]
  /\ written = [r \in Requests |-> <<>>]
  /\ uids = [r \in Requests |-> <<>>]
  /\ left = [r \in Requests |-> <<>>]
  /\ attempt = [r \in Requests |-> 1]
  /\ failed = [r \in Requests |-> {}]
  /\ training = {}
  /\ calendar = Existing
  /\ answer = [r \in Requests |-> "none"]

Answer(r, status) ==
  /\ pc' = [pc EXCEPT ![r] = "done"]
  /\ answer' = [answer EXCEPT ![r] = status]

Goto(r, label) == pc' = [pc EXCEPT ![r] = label] /\ UNCHANGED answer

MoreToWrite(r) == pc[r] = "write" /\ at[r] < Len(plan[r])

-----------------------------------------------------------------------------
\* write_scheduled_event returns the uid of the event it wrote.
WriteEvent(r) ==
  /\ MoreToWrite(r)
  /\ calendar' = calendar \cup {Uid(r, at[r] + 1)}
  /\ written' = [written EXCEPT ![r] = Append(@, Uid(r, at[r] + 1))]
  /\ at' = [at EXCEPT ![r] = @ + 1]
  /\ UNCHANGED <<plan, pc, uids, left, attempt, failed, training, answer>>

\* Mutant: the rollback forgets the event written last.
WriteFailsForgettingLast(r) ==
  /\ MoreToWrite(r)
  /\ calendar' \in {calendar, calendar \cup {Uid(r, at[r] + 1)}}
  /\ Goto(r, "rollback")
  /\ left' = [left EXCEPT ![r] = IF written[r] = <<>> THEN <<>> ELSE Front(written[r])]
  /\ UNCHANGED <<plan, at, written, uids, attempt, failed, training>>

\* Mutant: the rollback covers every event of the request, written or not.
WriteFailsRollingBackAll(r) ==
  /\ MoreToWrite(r)
  /\ calendar' \in {calendar, calendar \cup {Uid(r, at[r] + 1)}}
  /\ Goto(r, "rollback")
  /\ left' = [left EXCEPT ![r] = [i \in DOMAIN plan[r] |-> Uid(r, i)]]
  /\ UNCHANGED <<plan, at, written, uids, attempt, failed, training>>

\* The client cannot be had, the write is refused, or its answer is lost.  The
\* error ends the loop: DAVError is wrapped before the retry of write_event
\* looks at it, so there is one try.
WriteFails(r) ==
  /\ MoreToWrite(r)
  /\ calendar' \in {calendar, calendar \cup {Uid(r, at[r] + 1)}}
  /\ Goto(r, "rollback")
  /\ left' = [left EXCEPT ![r] = written[r]]
  /\ UNCHANGED <<plan, at, written, uids, attempt, failed, training>>

\* Mutant: the training events are logged whatever was written.
EventsWrittenEarly(r) ==
  /\ pc[r] = "write"
  /\ uids' = [uids EXCEPT ![r] = written[r]]
  /\ IF r \in Confirms THEN Goto(r, "log") ELSE Answer(r, "ok")
  /\ at' = [at EXCEPT ![r] = 0]
  /\ UNCHANGED <<plan, written, left, attempt, failed, training, calendar>>

\* The loop over the blocks ends: a confirmation goes on to log its training
\* events, /icloud/schedule answers.
EventsWritten(r) ==
  /\ pc[r] = "write"
  /\ at[r] = Len(plan[r])
  /\ uids' = [uids EXCEPT ![r] = written[r]]
  /\ IF r \in Confirms THEN Goto(r, "log") ELSE Answer(r, "ok")
  /\ at' = [at EXCEPT ![r] = 0]
  /\ UNCHANGED <<plan, written, left, attempt, failed, training, calendar>>

-----------------------------------------------------------------------------
\* _log_training_events: the two events of one block, inserted but not committed.
LogEvents(r) ==
  /\ pc[r] = "log"
  /\ at[r] < Len(plan[r])
  /\ at' = [at EXCEPT ![r] = @ + 1]
  /\ UNCHANGED <<plan, pc, written, uids, left, attempt, failed, training, calendar, answer>>

\* An insert fails and log_event rolls the whole transaction back.
LogFails(r) ==
  /\ pc[r] = "log"
  /\ at[r] < Len(plan[r])
  /\ Goto(r, "rollback")
  /\ UNCHANGED <<plan, at, written, uids, left, attempt, failed, training, calendar>>

Commit(r) ==
  /\ pc[r] = "log"
  /\ at[r] = Len(plan[r])
  /\ training' = training \cup {r}
  /\ Answer(r, "ok")
  /\ UNCHANGED <<plan, at, written, uids, left, attempt, failed, calendar>>

\* The commit fails, or is done and the connection lost before the answer.
CommitFails(r) ==
  /\ pc[r] = "log"
  /\ at[r] = Len(plan[r])
  /\ training' \in {training, training \cup {r}}
  /\ Goto(r, "rollback")
  /\ UNCHANGED <<plan, at, written, uids, left, attempt, failed, calendar>>

\* _rollback_on_failure without uids, which is what a failed _write_events
\* leaves: nothing to delete, the handler answers.
ConfirmFails(r) ==
  /\ pc[r] = "rollback" /\ r \in Confirms
  /\ uids[r] = <<>>
  /\ Answer(r, "error")
  /\ UNCHANGED <<plan, at, written, uids, left, attempt, failed, training, calendar>>

\* _rollback_on_failure raises: the client cannot be had, or there is a uid and
\* confirm_schedule has no attribute _delete_event_with_retry.
ConfirmRollbackRaises(r) ==
  /\ pc[r] = "rollback" /\ r \in Confirms
  /\ Answer(r, "raised")
  /\ UNCHANGED <<plan, at, written, uids, left, attempt, failed, training, calendar>>

-----------------------------------------------------------------------------
\* write_scheduled_blocks, the except clause: it gets a client, or raises.
StartDeleting(r) ==
  /\ pc[r] = "rollback" /\ r \in Schedules
  /\ \/ Goto(r, "delete")
     \/ Answer(r, "error")
  /\ UNCHANGED <<plan, at, written, uids, left, attempt, failed, training, calendar>>

\* delete_event returns, the event deleted or found to be gone.
DeleteEvent(r) ==
  /\ pc[r] = "delete" /\ left[r] # <<>>
  /\ calendar' = calendar \ {Head(left[r])}
  /\ left' = [left EXCEPT ![r] = Tail(@)]
  /\ attempt' = [attempt EXCEPT ![r] = 1]
  /\ UNCHANGED <<plan, pc, at, written, uids, failed, training, answer>>

\* Mutant: a uid whose deletion was given up goes to the end of the list.
DeleteFailsRequeued(r) ==
  /\ pc[r] = "delete" /\ left[r] # <<>>
  /\ calendar' \in {calendar, calendar \ {Head(left[r])}}
  /\ IF attempt[r] < MaxAttempts
     THEN /\ attempt' = [attempt EXCEPT ![r] = @ + 1]
          /\ UNCHANGED left
     ELSE /\ left' = [left EXCEPT ![r] = Append(Tail(@), Head(@))]
          /\ attempt' = [attempt EXCEPT ![r] = 1]
  /\ UNCHANGED <<plan, pc, at, written, uids, failed, training, answer>>

\* Mutant: one try too many.
DeleteFailsOnceMore(r) ==
  /\ pc[r] = "delete" /\ left[r] # <<>>
  /\ calendar' \in {calendar, calendar \ {Head(left[r])}}
  /\ IF attempt[r] <= MaxAttempts
     THEN /\ attempt' = [attempt EXCEPT ![r] = @ + 1]
          /\ UNCHANGED <<left, failed>>
     ELSE /\ failed' = [failed EXCEPT ![r] = @ \cup {Head(left[r])}]
          /\ left' = [left EXCEPT ![r] = Tail(@)]
          /\ attempt' = [attempt EXCEPT ![r] = 1]
  /\ UNCHANGED <<plan, pc, at, written, uids, training, answer>>

\* delete_event raises, the event deleted or not; _delete_event_with_retry tries
\* again and the third failure is recorded.
DeleteFails(r) ==
  /\ pc[r] = "delete" /\ left[r] # <<>>
  /\ calendar' \in {calendar, calendar \ {Head(left[r])}}
  /\ IF attempt[r] < MaxAttempts
     THEN /\ attempt' = [attempt EXCEPT ![r] = @ + 1]
          /\ UNCHANGED <<left, failed>>
     ELSE /\ failed' = [failed EXCEPT ![r] = @ \cup {Head(left[r])}]
          /\ left' = [left EXCEPT ![r] = Tail(@)]
          /\ attempt' = [attempt EXCEPT ![r] = 1]
  /\ UNCHANGED <<plan, pc, at, written, uids, training, answer>>

\* The error of the write is raised again only if some delete failed.
DeletesEnd(r) ==
  /\ pc[r] = "delete" /\ left[r] = <<>>
  /\ Answer(r, IF failed[r] = {} THEN "ok" ELSE "error")
  /\ UNCHANGED <<plan, at, written, uids, left, attempt, failed, training, calendar>>

\* The server stops: open transactions are rolled back, open requests get no
\* answer, and nothing about them is kept (written and failed stay, for the
\* properties to speak of).
Restart ==
  /\ \E r \in Requests : pc[r] # "done"
  /\ answer' = [r \in Requests |-> IF pc[r] = "done" THEN answer[r] ELSE "lost"]
  /\ pc' = [r \in Requests |-> "done"]
  /\ at' = [r \in Requests |-> 0]
  /\ uids' = [r \in Requests |-> <<>>]
  /\ left' = [r \in Requests |-> <<>>]
  /\ attempt' = [r \in Requests |-> 1]
  /\ UNCHANGED <<plan, written, failed, training, calendar>>

Step(r) ==
  \/ WriteEvent(r)    \/ WriteFails(r)   \/ EventsWritten(r)
  \/ LogEvents(r)     \/ LogFails(r)     \/ Commit(r)      \/ CommitFails(r)
  \/ ConfirmFails(r)  \/ ConfirmRollbackRaises(r)
  \/ StartDeleting(r) \/ DeleteEvent(r)  \/ DeleteFails(r) \/ DeletesEnd(r)

Next == Restart \/ \E r \in Requests : Step(r)

Spec == Init /\ [][Next]_vars

\* Every call out of the server returns or raises, and the threads run.
Fairness == \A r \in Requests : WF_vars(Step(r))

FairSpec == Spec /\ Fairness

-----------------------------------------------------------------------------
AnyUid == Existing \cup (Requests \X Nat)

\* The type of every variable.
TypeOK ==
  /\ plan \in Plans
  /\ pc \in [Requests -> {"write", "log", "rollback", "delete", "done"}]
  /\ at \in [Requests -> Nat]
  /\ written \in [Requests -> Seq(AnyUid)]
  /\ uids \in [Requests -> Seq(AnyUid)]
  /\ left \in [Requests -> Seq(AnyUid)]
  /\ attempt \in [Requests -> 1 .. MaxAttempts]
  /\ failed \in [Requests -> SUBSET AnyUid]
  /\ training \subseteq Confirms
  /\ calendar \subseteq AnyUid
  /\ answer \in [Requests -> {"none", "ok", "error", "raised", "lost"}]

Uids(r) == {Uid(r, i) : i \in DOMAIN plan[r]}

\* A schedule reported as confirmed has its training events committed, and
\* training events are committed only for a schedule all of whose events are in
\* the calendar: whatever other requests write and roll back meanwhile, however
\* a commit or a restart ends.
ConfirmMeansWritten ==
  \A r \in Confirms :
    /\ answer[r] = "ok" => r \in training
    /\ r \in training => Uids(r) \subseteq calendar

\* No other request writes events under the uids of r.
Private(r) == \A q \in Requests \ {r} : Uids(q) \cap Uids(r) = {}

\* /icloud/schedule answers 200 only if every event of the request is in the
\* calendar or none of those it knows it wrote, also when a delete had to be
\* tried again after an answer was lost.
ScheduleAllOrNothing ==
  \A r \in Schedules :
    answer[r] = "ok" /\ Private(r) =>
      \/ Uids(r) \subseteq calendar
      \/ ToSet(written[r]) \cap calendar = {}

\* A rollback deletes only what its own request is known to have written: an
\* event that was in the calendar before is safe from it unless the request was
\* asked to write under that uid and did.
DeletesOwnWrites ==
  \A u \in calendar \ calendar' :
    \E r \in Requests : pc[r] = "delete" /\ u \in ToSet(written[r])

RollbackDeletesOwnWrites == [][DeletesOwnWrites]_vars

\* Every request ends, the deletes with their retries too.
EveryRequestEnds == \A r \in Requests : <>(pc[r] = "done")

\* "Rollback iCloud events on failure." (_rollback_on_failure): of the events a
\* failed confirmation knows it wrote, those remain whose deletion failed.
ConfirmRollsBack ==
  \A r \in Confirms :
    answer[r] \in {"error", "raised"} => ToSet(written[r]) \cap calendar \subseteq failed[r]
=============================================================================
