------------------------ MODULE CalendarWrite_proofs ------------------------
(***************************************************************************)
(* Proofs about CalendarWrite, for any number of requests, any plans, any  *)
(* events in the calendar beforehand and any number of attempts.           *)
(***************************************************************************)
EXTENDS CalendarWrite, TLAPS

-----------------------------------------------------------------------------
(* The inductive invariant                                                 *)

\* What is true of each request by itself, by the step it is at.
Progress(r) ==
  /\ pc[r] = "write" => /\ at[r] <= Len(plan[r]) /\ Len(written[r]) = at[r]
                        /\ \A i \in 1 .. at[r] : written[r][i] = Uid(r, i)
  /\ ToSet(written[r]) \subseteq Uids(r)
  /\ ToSet(left[r]) \subseteq ToSet(written[r])
  /\ pc[r] = "log" => r \in Confirms
  /\ pc[r] = "delete" => r \in Schedules
  /\ pc[r] = "rollback" /\ r \in Schedules => left[r] = written[r]
  /\ answer[r] = "ok" => pc[r] = "done" /\ (r \in Confirms => r \in training)
  /\ r \in training => pc[r] \in {"rollback", "done"}

\* Where the events of request r are, if nobody else writes under their uids.
Events(r) ==
  /\ pc[r] = "write" => ToSet(written[r]) \subseteq calendar
  /\ pc[r] = "log" \/ r \in training => Uids(r) \subseteq calendar
  /\ answer[r] = "ok" /\ r \in Schedules =>
       Uids(r) \subseteq calendar \/ ToSet(written[r]) \cap calendar = {}
  /\ pc[r] = "delete" => ToSet(written[r]) \cap calendar \subseteq ToSet(left[r]) \cup failed[r]

IInv ==
  /\ TypeOK
  /\ \A r \in Requests : Progress(r) /\ (Private(r) => Events(r))

-----------------------------------------------------------------------------
(* Uids and lists of them                                                  *)

\* The uids of a request.
LEMMA UidFacts ==
  ASSUME TypeOK, NEW r \in Requests
  PROVE  /\ Len(plan[r]) \in Nat /\ DOMAIN plan[r] = 1 .. Len(plan[r])
         /\ \A i \in 1 .. Len(plan[r]) : Uid(r, i) \in AnyUid /\ Uid(r, i) \in Uids(r)
         /\ \A u \in Uids(r) : \E i \in 1 .. Len(plan[r]) : u = Uid(r, i)
<1>1. plan[r] \in Seq(Existing \cup {NoUid})
  BY CalendarWriteAssumption DEF TypeOK
<1>2. Len(plan[r]) \in Nat /\ DOMAIN plan[r] = 1 .. Len(plan[r])
  BY <1>1
<1>3. \A i \in 1 .. Len(plan[r]) : plan[r][i] \in Existing \cup {NoUid}
  BY <1>1
<1>4. \A i \in 1 .. Len(plan[r]) : Uid(r, i) \in AnyUid
  BY <1>2, <1>3 DEF Uid, AnyUid
<1> QED
  BY <1>2, <1>4 DEF Uids

\* Nobody else writes under the uids of a confirmation.
LEMMA ConfirmsArePrivate ==
  ASSUME TypeOK, NEW r \in Confirms
  PROVE  r \in Requests /\ Private(r)
<1>1. r \in Requests
  BY DEF Requests
<1>2. ASSUME NEW u \in Uids(r) PROVE \E i \in Nat : u = <<r, i>>
  <2>1. PICK i \in 1 .. Len(plan[r]) : u = Uid(r, i)
    BY <1>1, UidFacts
  <2>2. plan[r][i] = NoUid
    BY <1>1, UidFacts, CalendarWriteAssumption DEF TypeOK
  <2> QED
    BY <1>1, <2>1, <2>2, UidFacts DEF Uid
<1>3. ASSUME NEW q \in Requests \ {r}, NEW u \in Uids(q), u \in Uids(r) PROVE FALSE
  <2>1. PICK i \in Nat : u = <<r, i>>
    BY <1>2, <1>3
  <2>2. PICK j \in 1 .. Len(plan[q]) : u = Uid(q, j)
    BY UidFacts
  <2>3. plan[q][j] \in Existing \cup {NoUid}
    BY CalendarWriteAssumption DEF TypeOK
  <2>4. u \notin Existing
    BY <1>1, <2>1, CalendarWriteAssumption
  <2>5. u = <<q, j>>
    BY <2>2, <2>3, <2>4 DEF Uid
  <2> QED
    BY <2>1, <2>5
<1> QED
  BY <1>1, <1>3 DEF Private

\* The elements of a list with one more.
LEMMA ToSetAppend ==
  ASSUME NEW S, NEW s \in Seq(S), NEW x \in S
  PROVE  Append(s, x) \in Seq(S) /\ ToSet(Append(s, x)) = ToSet(s) \cup {x}
<1>1. /\ Append(s, x) \in Seq(S) /\ DOMAIN Append(s, x) = 1 .. Len(s) + 1
      /\ DOMAIN s = 1 .. Len(s) /\ Len(s) \in Nat
      /\ \A i \in 1 .. Len(s) : Append(s, x)[i] = s[i]
      /\ Append(s, x)[Len(s) + 1] = x
  OBVIOUS
<1> QED
  BY <1>1 DEF ToSet

\* The first element, and the others.
LEMMA ToSetTail ==
  ASSUME NEW S, NEW s \in Seq(S), s # <<>>
  PROVE  /\ Tail(s) \in Seq(S) /\ Head(s) \in S
         /\ ToSet(s) = {Head(s)} \cup ToSet(Tail(s))
<1>1. /\ Tail(s) \in Seq(S) /\ Head(s) \in S /\ Head(s) = s[1]
      /\ DOMAIN s = 1 .. Len(s) /\ Len(s) \in Nat /\ Len(s) > 0
      /\ DOMAIN Tail(s) = 1 .. Len(s) - 1
      /\ \A i \in 1 .. Len(s) - 1 : Tail(s)[i] = s[i + 1]
  OBVIOUS
<1>2. ASSUME NEW i \in 1 .. Len(s), i # 1 PROVE i - 1 \in 1 .. Len(s) - 1 /\ s[i] = Tail(s)[i - 1]
  <2>1. i - 1 \in 1 .. Len(s) - 1 /\ i - 1 + 1 = i
    BY <1>1, <1>2
  <2> QED
    BY <1>1, <2>1
<1>3. ASSUME NEW u \in ToSet(s) PROVE u \in {Head(s)} \cup ToSet(Tail(s))
  <2>1. PICK i \in 1 .. Len(s) : u = s[i]
    BY <1>1 DEF ToSet
  <2>2. CASE i = 1
    BY <1>1, <2>1, <2>2
  <2>3. CASE i # 1
    BY <1>1, <1>2, <2>1, <2>3 DEF ToSet
  <2> QED
    BY <2>2, <2>3
<1>4. ASSUME NEW u \in ToSet(Tail(s)) PROVE u \in ToSet(s)
  <2>1. PICK i \in 1 .. Len(s) - 1 : u = s[i + 1]
    BY <1>1 DEF ToSet
  <2>2. i + 1 \in 1 .. Len(s)
    BY <1>1
  <2> QED
    BY <1>1, <2>1, <2>2 DEF ToSet
<1>5. Head(s) \in ToSet(s)
  <2>1. 1 \in 1 .. Len(s)
    BY <1>1
  <2> QED
    BY <1>1, <2>1 DEF ToSet
<1> QED
  BY <1>1, <1>3, <1>4, <1>5

\* No elements.
LEMMA ToSetEmpty == ToSet(<<>>) = {} /\ \A S : <<>> \in Seq(S)
BY DEF ToSet

-----------------------------------------------------------------------------
(* The steps                                                               *)

\* The requests other than r stay as they are.
OthersKeep(r) ==
  \A q \in Requests \ {r} :
    /\ pc'[q] = pc[q] /\ at'[q] = at[q] /\ written'[q] = written[q] /\ left'[q] = left[q]
    /\ failed'[q] = failed[q] /\ answer'[q] = answer[q]
    /\ q \in training' <=> q \in training

\* Only events of r come and go.
Touches(r) == calendar' \subseteq calendar \cup Uids(r) /\ calendar \ calendar' \subseteq Uids(r)

\* A step of r keeps the invariant if what it does itself fits it.
LEMMA StepInv ==
  ASSUME NEW r \in Requests, IInv, plan' = plan, OthersKeep(r), Touches(r), TypeOK',
         Progress(r)', Private(r) => Events(r)'
  PROVE  IInv'
<1>1. \A q \in Requests : Uids(q)' = Uids(q) /\ \A i : Uid(q, i)' = Uid(q, i)
  BY DEF Uids, Uid
<1>2. \A q \in Requests : Private(q)' <=> Private(q)
  BY <1>1 DEF Private
<1>3. ASSUME NEW q \in Requests \ {r} PROVE Progress(q)'
  BY <1>1 DEF IInv, Progress, OthersKeep
<1>4. ASSUME NEW q \in Requests \ {r}, Private(q) PROVE Events(q)'
  <2>1. Events(q) /\ ToSet(written[q]) \subseteq Uids(q) /\ Uids(r) \cap Uids(q) = {}
    BY <1>4 DEF IInv, Progress, Private
  <2>2. \A u \in Uids(q) : u \in calendar' <=> u \in calendar
    BY <2>1 DEF Touches
  <2> QED
    BY <1>1, <2>1, <2>2 DEF Events, OthersKeep
<1> QED
  BY <1>2, <1>3, <1>4 DEF IInv

\* One more event is written, and its uid known.
LEMMA WriteEventInv == ASSUME NEW r \in Requests, IInv, WriteEvent(r) PROVE IInv'
<1> DEFINE n == at[r] + 1
           u == Uid(r, n)
<1>1. /\ pc[r] = "write" /\ at[r] < Len(plan[r]) /\ calendar' = calendar \cup {u}
      /\ written' = [written EXCEPT ![r] = Append(written[r], u)] /\ at' = [at EXCEPT ![r] = n]
      /\ UNCHANGED <<plan, pc, uids, left, attempt, failed, training, answer>>
  BY DEF WriteEvent, MoreToWrite
<1>2. TypeOK /\ Progress(r)
  BY DEF IInv
<1>3. n \in Nat /\ n <= Len(plan[r]) /\ n \in 1 .. Len(plan[r]) /\ at[r] \in Nat
  BY <1>1, <1>2, UidFacts DEF TypeOK
<1>4. u \in AnyUid /\ u \in Uids(r) /\ written[r] \in Seq(AnyUid)
  BY <1>2, <1>3, UidFacts DEF TypeOK
<1>5. /\ Append(written[r], u) \in Seq(AnyUid)
      /\ ToSet(Append(written[r], u)) = ToSet(written[r]) \cup {u}
  BY <1>4, ToSetAppend
<1>6. TypeOK'
  BY <1>1, <1>2, <1>3, <1>4, <1>5 DEF TypeOK
<1>7. /\ pc'[r] = "write" /\ at'[r] = n /\ written'[r] = Append(written[r], u)
      /\ left'[r] = left[r] /\ answer'[r] = answer[r]
  BY <1>1, <1>2 DEF TypeOK
<1>8. OthersKeep(r) /\ Touches(r)
  BY <1>1, <1>2, <1>4 DEF TypeOK, OthersKeep, Touches
<1>9. Uids(r)' = Uids(r) /\ \A i : Uid(r, i)' = Uid(r, i)
  BY <1>1 DEF Uids, Uid
<1>10. /\ Len(written[r]) = at[r] /\ Len(Append(written[r], u)) = n
       /\ \A i \in 1 .. n : Append(written[r], u)[i] = Uid(r, i)
  <2>1. Len(written[r]) = at[r] /\ \A i \in 1 .. at[r] : written[r][i] = Uid(r, i)
    BY <1>1, <1>2 DEF Progress
  <2>2. /\ Len(Append(written[r], u)) = n /\ Append(written[r], u)[n] = u
        /\ \A i \in 1 .. at[r] : Append(written[r], u)[i] = written[r][i]
    BY <1>4, <2>1
  <2>3. 1 .. n = 1 .. at[r] \cup {n}
    BY <1>3
  <2> QED
    BY <2>1, <2>2, <2>3
<1>11. Progress(r)'
  <2> HIDE DEF n, u
  <2> QED
    BY <1>1, <1>2, <1>3, <1>4, <1>5, <1>7, <1>9, <1>10 DEF Progress
<1>12. Private(r) => Events(r)'
  <2> HIDE DEF n, u
  <2> QED
    BY <1>1, <1>2, <1>5, <1>7, <1>9 DEF IInv, Events, Progress, TypeOK
<1> QED
  BY <1>1, <1>6, <1>8, <1>11, <1>12, StepInv

\* What a failed write leaves behind is its own.
LEMMA WriteFailsInv == ASSUME NEW r \in Requests, IInv, WriteFails(r) PROVE IInv'
<1> DEFINE u == Uid(r, at[r] + 1)
<1>1. /\ pc[r] = "write" /\ at[r] < Len(plan[r]) /\ calendar' \in {calendar, calendar \cup {u}}
      /\ left' = [left EXCEPT ![r] = written[r]] /\ pc' = [pc EXCEPT ![r] = "rollback"]
      /\ UNCHANGED <<plan, at, written, uids, attempt, failed, training, answer>>
  BY DEF WriteFails, MoreToWrite, Goto
<1>2. TypeOK /\ Progress(r)
  BY DEF IInv
<1>3. at[r] + 1 \in 1 .. Len(plan[r])
  BY <1>1, <1>2, UidFacts DEF TypeOK
<1>4. u \in AnyUid /\ u \in Uids(r)
  BY <1>2, <1>3, UidFacts
<1> HIDE DEF u
<1>5. TypeOK'
  BY <1>1, <1>2, <1>4 DEF TypeOK
<1>6. /\ pc'[r] = "rollback" /\ left'[r] = written[r] /\ answer'[r] = answer[r]
      /\ written'[r] = written[r] /\ Uids(r)' = Uids(r)
  BY <1>1, <1>2 DEF TypeOK, Uids, Uid
<1>7. OthersKeep(r) /\ Touches(r)
  BY <1>1, <1>2, <1>4 DEF TypeOK, OthersKeep, Touches
<1>8. Progress(r)' /\ Events(r)'
  BY <1>1, <1>2, <1>6 DEF Progress, Events
<1> QED
  BY <1>1, <1>5, <1>7, <1>8, StepInv

\* All events of the request are written.
LEMMA EventsWrittenInv == ASSUME NEW r \in Requests, IInv, EventsWritten(r) PROVE IInv'
<1>1. /\ pc[r] = "write" /\ at[r] = Len(plan[r])
      /\ uids' = [uids EXCEPT ![r] = written[r]] /\ at' = [at EXCEPT ![r] = 0]
      /\ UNCHANGED <<plan, written, left, attempt, failed, training, calendar>>
      /\ r \in Confirms => pc' = [pc EXCEPT ![r] = "log"] /\ answer' = answer
      /\ r \notin Confirms => pc' = [pc EXCEPT ![r] = "done"] /\ answer' = [answer EXCEPT ![r] = "ok"]
  BY DEF EventsWritten, Goto, Answer
<1>2. TypeOK /\ Progress(r)
  BY DEF IInv
<1>3. TypeOK'
  BY <1>1, <1>2 DEF TypeOK
<1>4. Uids(r) \subseteq ToSet(written[r])
  <2>1. /\ Len(written[r]) = Len(plan[r]) /\ \A i \in 1 .. Len(plan[r]) : written[r][i] = Uid(r, i)
        /\ DOMAIN written[r] = 1 .. Len(plan[r])
    BY <1>1, <1>2 DEF Progress, TypeOK
  <2> QED
    BY <1>2, <2>1, UidFacts DEF ToSet
<1>5. Uids(r)' = Uids(r) /\ OthersKeep(r) /\ Touches(r)
  BY <1>1, <1>2 DEF TypeOK, OthersKeep, Touches, Uids, Uid
<1>6. r \in Confirms => pc'[r] = "log" /\ answer'[r] = answer[r]
  BY <1>1, <1>2 DEF TypeOK
<1>7. r \notin Confirms => pc'[r] = "done" /\ answer'[r] = "ok"
  BY <1>1, <1>2 DEF TypeOK
<1>8. Progress(r)'
  BY <1>1, <1>2, <1>5, <1>6, <1>7 DEF Progress
<1>9. Private(r) => Events(r)'
  <2>1. r \notin training
    BY <1>1, <1>2 DEF Progress
  <2> QED
    BY <1>1, <1>2, <1>4, <1>5, <1>6, <1>7, <2>1 DEF IInv, Events
<1> QED
  BY <1>1, <1>3, <1>5, <1>8, <1>9, StepInv

\* The training events are logged, and committed, when the events are written.
LEMMA LogEventsInv == ASSUME NEW r \in Requests, IInv, LogEvents(r) PROVE IInv'
<1>1. /\ pc[r] = "log" /\ at' = [at EXCEPT ![r] = at[r] + 1]
      /\ UNCHANGED <<plan, pc, written, uids, left, attempt, failed, training, calendar, answer>>
  BY DEF LogEvents
<1>2. TypeOK /\ Progress(r)
  BY DEF IInv
<1>3. TypeOK'
  BY <1>1, <1>2 DEF TypeOK
<1>4. Uids(r)' = Uids(r) /\ OthersKeep(r) /\ Touches(r)
  BY <1>1, <1>2 DEF TypeOK, OthersKeep, Touches, Uids, Uid
<1>5. Progress(r)' /\ (Private(r) => Events(r)')
  BY <1>1, <1>2, <1>4 DEF IInv, Progress, Events
<1> QED
  BY <1>1, <1>3, <1>4, <1>5, StepInv

\* Request r goes to another step or is answered, and leaves the calendar and its
\* lists as they are; a commit may be done on the way.
Moves(r, next, status) ==
  /\ pc[r] # "write" /\ next \in {"rollback", "delete", "done"}
  /\ status \in {"none", "ok", "error", "raised", "lost"}
  /\ pc' = [pc EXCEPT ![r] = next] /\ answer' = [answer EXCEPT ![r] = status]
  /\ UNCHANGED <<plan, at, written, uids, left, attempt, failed, calendar>>
  /\ training' = training \/ (training' = training \cup {r} /\ pc[r] = "log")
  /\ next = "delete" => pc[r] = "rollback" /\ r \in Schedules /\ r \notin training
  /\ next = "rollback" => pc[r] = "log"
  /\ status = "ok" => /\ next = "done"
                      /\ IF r \in Confirms THEN r \in training'
                         ELSE pc[r] = "delete" /\ left[r] = <<>> /\ failed[r] = {}

\* Such a step keeps the invariant.
LEMMA MovesInv ==
  ASSUME NEW r \in Requests, IInv, NEW next, NEW status, Moves(r, next, status)
  PROVE  IInv'
<1> USE DEF Moves
<1>1. TypeOK /\ Progress(r)
  BY DEF IInv
<1>2. pc'[r] = next /\ answer'[r] = status
  BY <1>1 DEF TypeOK
<1>3. pc[r] = "log" => r \in Confirms
  BY <1>1 DEF Progress
<1>4. TypeOK'
  BY <1>1, <1>3 DEF TypeOK
<1>5. Uids(r)' = Uids(r) /\ OthersKeep(r) /\ Touches(r)
  BY <1>1 DEF TypeOK, OthersKeep, Touches, Uids, Uid
<1>6. Confirms \cap Schedules = {} /\ r \in Confirms \cup Schedules
  BY CalendarWriteAssumption DEF Requests
<1>7. r \in training' => next \in {"rollback", "done"}
  BY DEF Progress
<1>8. Progress(r)'
  BY <1>1, <1>2, <1>3, <1>5, <1>6, <1>7 DEF Progress
<1>9. Private(r) => Events(r)'
  <2> SUFFICES ASSUME Private(r) PROVE Events(r)'
    OBVIOUS
  <2>1. Events(r)
    BY DEF IInv
  <2>2. next = "delete" => ToSet(written[r]) \cap calendar \subseteq ToSet(left[r]) \cup failed[r]
    BY <1>1 DEF Progress
  <2>3. r \in training' => Uids(r) \subseteq calendar
    BY <2>1 DEF Events
  <2>4. status = "ok" /\ r \in Schedules => ToSet(written[r]) \cap calendar = {}
    BY <1>6, <2>1, ToSetEmpty DEF Events
  <2> QED
    BY <1>2, <1>5, <2>1, <2>2, <2>3, <2>4 DEF Events
<1> QED
  BY <1>4, <1>5, <1>8, <1>9, StepInv

\* The steps that only do that.
LEMMA MoveSteps ==
  ASSUME NEW r \in Requests, IInv,
         LogFails(r) \/ Commit(r) \/ CommitFails(r) \/ ConfirmFails(r)
           \/ ConfirmRollbackRaises(r) \/ StartDeleting(r) \/ DeletesEnd(r)
  PROVE  IInv'
<1>1. TypeOK /\ Progress(r)
  BY DEF IInv
<1>2. Confirms \cap Schedules = {} /\ r \in Confirms \cup Schedules
  BY CalendarWriteAssumption DEF Requests
<1>3. pc[r] = "log" => r \in Confirms
  BY <1>1 DEF Progress
<1>4. pc[r] = "delete" => r \in Schedules
  BY <1>1 DEF Progress
<1>5. r \in training => r \in Confirms
  BY <1>1 DEF TypeOK
<1>6. /\ answer[r] \in {"none", "ok", "error", "raised", "lost"}
      /\ answer = [answer EXCEPT ![r] = answer[r]]
      /\ answer[r] = "ok" => pc[r] = "done"
  BY <1>1 DEF TypeOK, Progress
<1>7. CASE LogFails(r)
  <2>1. Moves(r, "rollback", answer[r])
    BY <1>6, <1>7 DEF LogFails, Goto, Moves
  <2> QED
    BY <2>1, MovesInv
<1>8. CASE Commit(r)
  <2>1. Moves(r, "done", "ok")
    BY <1>3, <1>8 DEF Commit, Answer, Moves
  <2> QED
    BY <2>1, MovesInv
<1>9. CASE CommitFails(r)
  <2>1. Moves(r, "rollback", answer[r])
    BY <1>6, <1>9 DEF CommitFails, Goto, Moves
  <2> QED
    BY <2>1, MovesInv
<1>10. CASE ConfirmFails(r) \/ ConfirmRollbackRaises(r)
  <2>1. Moves(r, "done", "error") \/ Moves(r, "done", "raised")
    BY <1>10 DEF ConfirmFails, ConfirmRollbackRaises, Answer, Moves
  <2> QED
    BY <2>1, MovesInv
<1>11. CASE StartDeleting(r)
  <2>1. /\ pc[r] = "rollback" /\ r \in Schedules /\ r \notin training
        /\ UNCHANGED <<plan, at, written, uids, left, attempt, failed, training, calendar>>
    BY <1>2, <1>5, <1>11 DEF StartDeleting
  <2>2. CASE Goto(r, "delete")
    <3>1. Moves(r, "delete", answer[r])
      BY <1>6, <2>1, <2>2 DEF Goto, Moves
    <3> QED
      BY <3>1, MovesInv
  <2>3. CASE Answer(r, "error")
    <3>1. Moves(r, "done", "error")
      BY <2>1, <2>3 DEF Answer, Moves
    <3> QED
      BY <3>1, MovesInv
  <2> QED
    BY <1>11, <2>2, <2>3 DEF StartDeleting
<1>12. CASE DeletesEnd(r)
  <2>1. /\ pc[r] = "delete" /\ left[r] = <<>> /\ r \notin Confirms
        /\ UNCHANGED <<plan, at, written, uids, left, attempt, failed, training, calendar>>
    BY <1>2, <1>4, <1>12 DEF DeletesEnd
  <2>2. Moves(r, "done", IF failed[r] = {} THEN "ok" ELSE "error")
    BY <1>12, <2>1 DEF DeletesEnd, Answer, Moves
  <2> QED
    BY <2>2, MovesInv
<1> QED
  BY <1>7, <1>8, <1>9, <1>10, <1>11, <1>12

\* A delete takes the event it is about, if any, and what is not deleted stays among
\* what is left, or has failed.
LEMMA DeleteInv ==
  ASSUME NEW r \in Requests, IInv, DeleteEvent(r) \/ DeleteFails(r)
  PROVE  IInv' /\ pc[r] = "delete" /\ calendar \ calendar' \subseteq ToSet(written[r])
<1> DEFINE u == Head(left[r])
<1>1. /\ pc[r] = "delete" /\ left[r] # <<>> /\ calendar' \in {calendar, calendar \ {u}}
      /\ UNCHANGED <<plan, pc, at, written, uids, training, answer>>
  BY DEF DeleteEvent, DeleteFails
<1>2. TypeOK /\ Progress(r)
  BY DEF IInv
<1>3. /\ left[r] \in Seq(AnyUid) /\ Tail(left[r]) \in Seq(AnyUid) /\ u \in AnyUid
      /\ ToSet(left[r]) = {u} \cup ToSet(Tail(left[r]))
  <2>1. left[r] \in Seq(AnyUid)
    BY <1>2 DEF TypeOK
  <2> QED
    BY <1>1, <2>1, ToSetTail
<1>4. u \in ToSet(written[r]) /\ u \in Uids(r)
  BY <1>2, <1>3 DEF Progress
<1>5. \/ DeleteEvent(r)
      \/ DeleteFails(r) /\ attempt[r] < MaxAttempts
      \/ DeleteFails(r) /\ ~ (attempt[r] < MaxAttempts)
  OBVIOUS
<1> HIDE DEF u
<1>7. \/ /\ left' = [left EXCEPT ![r] = Tail(left[r])] /\ calendar' = calendar \ {u}
         /\ attempt' = [attempt EXCEPT ![r] = 1] /\ failed' = failed
      \/ /\ left' = left /\ failed' = failed /\ attempt[r] < MaxAttempts
         /\ attempt' = [attempt EXCEPT ![r] = attempt[r] + 1]
      \/ /\ left' = [left EXCEPT ![r] = Tail(left[r])]
         /\ failed' = [failed EXCEPT ![r] = failed[r] \cup {u}]
         /\ attempt' = [attempt EXCEPT ![r] = 1]
  BY <1>5 DEF DeleteEvent, DeleteFails, u
<1>8. TypeOK'
  <2>1. 1 \in 1 .. MaxAttempts
    BY CalendarWriteAssumption
  <2>2. attempt[r] < MaxAttempts => attempt[r] + 1 \in 1 .. MaxAttempts
    BY <1>2, CalendarWriteAssumption DEF TypeOK
  <2>3. left' \in [Requests -> Seq(AnyUid)]
    BY <1>2, <1>3, <1>7 DEF TypeOK
  <2>4. attempt' \in [Requests -> 1 .. MaxAttempts]
    BY <1>2, <1>7, <2>1, <2>2 DEF TypeOK
  <2>5. failed' \in [Requests -> SUBSET AnyUid]
    <3>1. failed \in [Requests -> SUBSET AnyUid] /\ failed[r] \cup {u} \in SUBSET AnyUid
      BY <1>2, <1>3 DEF TypeOK
    <3>2. failed' = failed \/ failed' = [failed EXCEPT ![r] = failed[r] \cup {u}]
      BY <1>7
    <3> QED
      BY <3>1, <3>2
  <2>6. calendar' \subseteq AnyUid
    BY <1>1, <1>2 DEF TypeOK
  <2> QED
    BY <1>1, <1>2, <2>3, <2>4, <2>5, <2>6 DEF TypeOK
<1>9. Uids(r)' = Uids(r) /\ OthersKeep(r) /\ Touches(r)
  BY <1>1, <1>2, <1>4, <1>7 DEF TypeOK, OthersKeep, Touches, Uids, Uid
<1>10. \/ /\ left'[r] = Tail(left[r]) /\ calendar' = calendar \ {u} /\ failed'[r] = failed[r]
       \/ left'[r] = left[r] /\ failed'[r] = failed[r]
       \/ left'[r] = Tail(left[r]) /\ failed'[r] = failed[r] \cup {u}
  BY <1>2, <1>7 DEF TypeOK
<1>11. Progress(r)'
  BY <1>1, <1>2, <1>3, <1>9, <1>10 DEF Progress
<1>12. Private(r) => Events(r)'
  <2> SUFFICES ASSUME Private(r) PROVE Events(r)'
    OBVIOUS
  <2>1. ToSet(written[r]) \cap calendar \subseteq ToSet(left[r]) \cup failed[r]
    BY <1>1 DEF IInv, Events
  <2>2. answer[r] # "ok" /\ r \notin training
    BY <1>1, <1>2 DEF Progress
  <2>3. ToSet(written[r]) \cap calendar' \subseteq ToSet(left'[r]) \cup failed'[r]
    BY <1>1, <1>3, <1>10, <2>1
  <2> QED
    BY <1>1, <2>2, <2>3 DEF Events
<1> QED
  BY <1>1, <1>4, <1>8, <1>9, <1>11, <1>12, StepInv

\* A restart ends every request and loses no event.
LEMMA RestartInv == ASSUME IInv, Restart PROVE IInv'
<1>1. /\ answer' = [r \in Requests |-> IF pc[r] = "done" THEN answer[r] ELSE "lost"]
      /\ pc' = [r \in Requests |-> "done"] /\ at' = [r \in Requests |-> 0]
      /\ uids' = [r \in Requests |-> <<>>] /\ left' = [r \in Requests |-> <<>>]
      /\ attempt' = [r \in Requests |-> 1]
      /\ UNCHANGED <<plan, written, failed, training, calendar>>
  BY DEF Restart
<1>2. TypeOK
  BY DEF IInv
<1>3. 1 \in 1 .. MaxAttempts /\ <<>> \in Seq(AnyUid) /\ ToSet(<<>>) = {}
  BY CalendarWriteAssumption, ToSetEmpty
<1>4. TypeOK'
  BY <1>1, <1>2, <1>3 DEF TypeOK
<1>5. \A r \in Requests : Uids(r)' = Uids(r)
  BY <1>1 DEF Uids, Uid
<1>6. \A r \in Requests : Private(r)' <=> Private(r)
  BY <1>5 DEF Private
<1>7. ASSUME NEW r \in Requests PROVE Progress(r)' /\ (Private(r) => Events(r)')
  <2>1. pc'[r] = "done" /\ left'[r] = <<>> /\ (answer'[r] = "ok" => answer[r] = "ok")
    BY <1>1
  <2>2. Progress(r) /\ (Private(r) => Events(r))
    BY DEF IInv
  <2> QED
    BY <1>1, <1>3, <1>5, <2>1, <2>2 DEF Progress, Events
<1> QED
  BY <1>4, <1>6, <1>7 DEF IInv

-----------------------------------------------------------------------------
(* The theorems                                                            *)

\* Nothing is written at first.
LEMMA InitInv == Init => IInv
<1> SUFFICES ASSUME Init PROVE IInv
  OBVIOUS
<1>1. 1 \in 1 .. MaxAttempts /\ <<>> \in Seq(AnyUid) /\ ToSet(<<>>) = {} /\ Len(<<>>) = 0
  BY CalendarWriteAssumption, ToSetEmpty
<1>2. TypeOK
  BY <1>1 DEF Init, TypeOK, AnyUid
<1>3. ASSUME NEW r \in Requests PROVE Progress(r) /\ Events(r)
  <2>1. pc[r] = "write" /\ at[r] = 0 /\ written[r] = <<>> /\ left[r] = <<>> /\ answer[r] = "none"
    BY DEF Init
  <2>2. Len(plan[r]) \in Nat
    BY <1>2, UidFacts
  <2>3. training = {}
    BY DEF Init
  <2>4. 1 .. 0 = {}
    OBVIOUS
  <2> QED
    BY <1>1, <2>1, <2>2, <2>3, <2>4 DEF Progress, Events
<1> QED
  BY <1>2, <1>3 DEF IInv

\* Every step keeps the invariant.
LEMMA NextInv == IInv /\ [Next]_vars => IInv'
<1> SUFFICES ASSUME IInv, [Next]_vars PROVE IInv'
  OBVIOUS
<1>1. ASSUME NEW r \in Requests, Step(r) PROVE IInv'
  BY <1>1, WriteEventInv, WriteFailsInv, EventsWrittenInv, LogEventsInv, MoveSteps, DeleteInv
  DEF Step
<1>2. CASE UNCHANGED vars
  <2>1. UNCHANGED <<plan, pc, at, written, uids, left, attempt, failed, training, calendar, answer>>
    BY <1>2 DEF vars
  <2>2. TypeOK'
    BY <2>1 DEF IInv, TypeOK
  <2>3. \A r \in Requests : Uids(r)' = Uids(r) /\ \A i : Uid(r, i)' = Uid(r, i)
    BY <2>1 DEF Uids, Uid
  <2>4. \A r \in Requests : Private(r)' <=> Private(r)
    BY <2>3 DEF Private
  <2> QED
    BY <2>1, <2>2, <2>3, <2>4 DEF IInv, Progress, Events
<1> QED
  BY <1>1, <1>2, RestartInv DEF Next

\* The inductive invariant holds in every reachable state, for any number of
\* requests and whatever they are asked to write.
THEOREM Invariance == Spec => []IInv
<1> QED
  BY InitInv, NextInv, PTL DEF Spec

\* Every variable keeps its type.
THEOREM TypeCorrect == Spec => []TypeOK
<1>1. IInv => TypeOK
  BY DEF IInv
<1> QED
  BY <1>1, Invariance, PTL

\* A confirmation that is answered 200 has its training events committed and all
\* its events in the calendar: they are committed after the last write, no other
\* request deletes a uid that write_event made, and the rollback of a confirmation
\* deletes nothing.
THEOREM ConfirmedIsWritten == Spec => []ConfirmMeansWritten
<1>1. IInv => ConfirmMeansWritten
  <2> SUFFICES ASSUME IInv, NEW r \in Confirms
               PROVE  /\ answer[r] = "ok" => r \in training
                      /\ r \in training => Uids(r) \subseteq calendar
    BY DEF ConfirmMeansWritten
  <2>1. r \in Requests /\ Private(r)
    BY ConfirmsArePrivate DEF IInv
  <2> QED
    BY <2>1 DEF IInv, Progress, Events
<1> QED
  BY <1>1, Invariance, PTL

\* /icloud/schedule answers 200 with all its events written, or none left of those
\* it knows of: an event it could not delete is among failed_deletes, and then it
\* raises.
THEOREM ScheduledAllOrNothing == Spec => []ScheduleAllOrNothing
<1>1. IInv => ScheduleAllOrNothing
  <2>1. \A r \in Schedules : r \in Requests
    BY DEF Requests
  <2> QED
    BY <2>1 DEF IInv, Events, ScheduleAllOrNothing
<1> QED
  BY <1>1, Invariance, PTL

\* No step deletes an event but the rollback of a request that wrote it.
THEOREM OnlyOwnWritesDeleted == Spec => RollbackDeletesOwnWrites
<1>1. IInv /\ [Next]_vars => [DeletesOwnWrites]_vars
  <2> SUFFICES ASSUME IInv, Next, NEW u \in calendar, u \notin calendar'
               PROVE  \E r \in Requests : pc[r] = "delete" /\ u \in ToSet(written[r])
    BY DEF DeletesOwnWrites
  <2>1. ~ Restart
    BY DEF Restart
  <2>2. PICK r \in Requests : Step(r)
    BY <2>1 DEF Next
  <2>3. DeleteEvent(r) \/ DeleteFails(r)
    BY <2>2
    DEF Step, WriteEvent, WriteFails, EventsWritten, LogEvents, LogFails, Commit, CommitFails,
        ConfirmFails, ConfirmRollbackRaises, StartDeleting, DeletesEnd
  <2> QED
    BY <2>3, DeleteInv
<1> QED
  BY <1>1, Invariance, PTL DEF Spec, RollbackDeletesOwnWrites

=============================================================================
