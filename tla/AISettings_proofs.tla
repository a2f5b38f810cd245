-------------------------- MODULE AISettings_proofs --------------------------
(***************************************************************************)
(* Proofs about AISettings, and with it Subscriptions, for any number of   *)
(* threads, checkouts, requests and events.                                *)
(***************************************************************************)
EXTENDS AISettings, TLAPS

-----------------------------------------------------------------------------
(* The inductive invariant                                                 *)

\* Stripe has been told to end the subscription of c, or has ended it.
Over(c) == c \in ending \/ stripe[c] = "deleted"

\* The row holds an id of c, or held one until another was written.
Held(c) == row.ref \in {Session(c), Subscription(c)} \/ c \in replaced

\* A row that was committed once, or no row.
WasCommitted(r) == r = NoRow \/ r \in committed

\* The row and the cached one were committed; the checkout of every id that was
\* committed, and of every session the user was told, is held.
RowsTrue ==
  /\ WasCommitted(row) /\ WasCommitted(cached)
  /\ row = NoRow => committed = {}
  /\ \A r \in committed : r.plan # "none"
  /\ \A r \in committed, c \in Checkouts :
       r.ref \in {Session(c), Subscription(c)} => Held(c)
  /\ \A c \in Checkouts : stripe[c] \notin {"none", "open"} => Held(c)

\* Request w has opened checkout c and has not told the user yet.
Opened(w, c) == job[w] = "subscribe" /\ wanted[w] = Pending(c)

\* Request w has told Stripe, and has still to save the cancellation.
Canceling(w) ==
  /\ job[w] = "cancelling"
  /\ \/ pc[w] \in {"again", "save"}
     \/ pc[w] = "keep" /\ wanted[w] = NoRow

\* What each request has, by the step it is at.
Progress(w) ==
  /\ WasCommitted(loaded[w])
  /\ wanted[w].plan = "none" => wanted[w] = NoRow
  /\ \A c \in Checkouts : Opened(w, c) => stripe[c] = "open"
  /\ \A c \in Checkouts : Opened(w, c) /\ pc[w] \in {"refresh", "keep"} => Held(c)
  /\ Canceling(w) => \E c \in Checkouts : loaded[w].ref = Subscription(c) /\ Over(c)
  /\ job[w] = "subscribe" => wanted[w].status # "canceled"
  /\ pc[w] \in {"query", "save", "refresh"} => wanted[w] # NoRow
  /\ pc[w] = "query" => job[w] = "subscribe"
  /\ pc[w] = "refresh" => row # NoRow
  /\ pc[w] = "save" => job[w] \in {"subscribe", "upgrade", "cancelling"}
  /\ pc[w] = "save" /\ job[w] # "subscribe" => loaded[w] # NoRow
  /\ pc[w] \in {"keep", "modify", "again"} => loaded[w] # NoRow
  /\ pc[w] \in {"modify", "again"} => wanted[w] = NoRow
  /\ pc[w] = "apply" => event[w] \in sent /\ Concerns(event[w], loaded[w])
  /\ pc[w] = "mark" => event[w] \in handled

\* Two requests have not opened the same checkout.
OneCheckout ==
  \A v, w \in Workers, c \in Checkouts : Opened(v, c) /\ Opened(w, c) => v = w

\* What an event says has happened at Stripe.
EventsTrue ==
  \A e \in sent : /\ e.type = "completed" => stripe[e.of] \in {"active", "past_due", "deleted"}
                  /\ e.type = "deleted" => stripe[e.of] = "deleted"

\* TypeOK without the settings.
SubTypes ==
  /\ row \in Rows /\ cached \in Rows /\ committed \subseteq Rows /\ replaced \subseteq Checkouts
  /\ stripe \in [Checkouts -> {"none", "open", "offered", "active", "past_due", "deleted"}]
  /\ ending \subseteq Checkouts
  /\ sent \subseteq Events /\ handled \subseteq Events /\ marked \subseteq Events
  /\ pc \in [Workers -> {"idle", "query", "save", "refresh", "keep", "modify", "again",
                          "apply", "mark", "settings", "change", "drop", "keepsettings"}]
  /\ job \in [Workers -> {"none", "subscribe", "status", "upgrade", "cancel", "cancelling",
                           "webhook", "settings", "read", "saved"}]
  /\ loaded \in [Workers -> Rows] /\ wanted \in [Workers -> Rows]
  /\ event \in [Workers -> Events \cup {NoEvent}]
  /\ requests \in 0 .. MaxRequests
  /\ \A w \in Workers :
       pc[w] = "idle" => /\ job[w] = "none" /\ loaded[w] = NoRow /\ wanted[w] = NoRow
                         /\ event[w] = NoEvent

\* The subscription's part of the invariant.
SubInv ==
  /\ SubTypes
  /\ RowsTrue
  /\ EventsTrue
  /\ PaymentFound
  /\ marked \subseteq handled /\ handled \subseteq sent
  /\ OneCheckout
  /\ \A w \in Workers : Progress(w)

\* The settings' part: a request that changes them was a premium user's, and what
\* it holds is a committed row.
AtSettings(w) ==
  /\ pc[w] \notin {"change", "drop", "keepsettings"} => base[w] = Missing /\ copy[w] = Missing
  /\ pc[w] \in {"settings", "change", "drop"} => WasPremium
  /\ pc[w] = "keepsettings" /\ job[w] = "settings" => WasPremium
  /\ pc[w] \in {"change", "drop", "keepsettings"} => settings # Missing
  /\ pc[w] = "change" => base[w] # Missing \/ copy[w] # Missing
  /\ pc[w] = "keepsettings" => base[w] # Missing
  /\ ~ WasPremium => base[w] \in {Missing, Defaults}

SetInv ==
  /\ settings \in Settings /\ cachedSettings \in Settings
  /\ base \in [Workers -> Settings] /\ copy \in [Workers -> Settings]
  /\ cachedSettings # Missing => settings # Missing
  /\ SettingsNeedPremium
  /\ \A w \in Workers : AtSettings(w)

IInv == SubInv /\ SetInv

-----------------------------------------------------------------------------
(* Rows                                                                    *)

\* There is no row at first.
LEMMA NoRowFields ==
  /\ NoRow \in Rows /\ ~ Premium(NoRow)
  /\ NoRow.plan = "none" /\ NoRow.status = "none" /\ NoRow.ref = NoRef
BY DEF NoRow, Sub, Rows, Premium

\* What the requests want to save are rows.
LEMMA RowsWanted ==
  /\ \A u \in Bodies : Sub("free", "active", u.ref) \in Rows
  /\ \A c \in Checkouts : Pending(c) \in Rows
  /\ \A r \in Rows : [r EXCEPT !.status = "canceled"] \in Rows
  /\ \A r \in Rows, u \in Bodies : Updated(r, u) \in Rows
BY BodiesAssumption DEF Sub, Rows, Session, Pending, Updated

\* An UPDATE sets each column to what is wanted or leaves it as it was.
LEMMA AssignFields ==
  ASSUME NEW o \in Rows, NEW n \in Rows, NEW r \in Rows
  PROVE  /\ Assign(o, n, r) \in Rows
         /\ Assign(o, n, r).plan = IF n.plan # o.plan THEN n.plan ELSE r.plan
         /\ Assign(o, n, r).status = IF n.status # o.status THEN n.status ELSE r.status
         /\ Assign(o, n, r).ref = IF n.ref # o.ref THEN n.ref ELSE r.ref
BY DEF Assign, Rows

\* The kinds of events.
LEMMA EventFields ==
  ASSUME NEW e \in Events
  PROVE  /\ e.of \in Checkouts
         /\ e.type \in {"completed", "paid", "failed", "updated", "deleted"}
         /\ e.type = "updated" => e.status \in {"active", "past_due"}
BY DEF Events, Raise

\* What an event makes of a row.
LEMMA AppliedFields ==
  ASSUME NEW e \in Events, NEW r \in Rows
  PROVE  /\ Applied(e, r) \in Rows
         /\ Applied(e, r).plan = IF e.type = "updated" THEN PriceId ELSE r.plan
         /\ Applied(e, r).status = "canceled" => e.type = "deleted"
         /\ Applied(e, r).ref = IF e.type = "completed" THEN Subscription(e.of) ELSE r.ref
<1>1. /\ e.of \in Checkouts
      /\ e.type \in {"completed", "paid", "failed", "updated", "deleted"}
      /\ e.type = "updated" => e.status \in {"active", "past_due"}
  BY EventFields
<1>2. CASE e.type = "completed"
  BY <1>1, <1>2 DEF Applied, Rows, Subscription
<1>3. CASE e.type = "paid"
  BY <1>1, <1>3 DEF Applied, Rows
<1>4. CASE e.type = "failed"
  BY <1>1, <1>4 DEF Applied, Rows
<1>5. CASE e.type = "updated"
  BY <1>1, <1>5 DEF Applied, Rows
<1>6. CASE e.type = "deleted"
  BY <1>1, <1>6 DEF Applied, Rows
<1> QED
  BY <1>1, <1>2, <1>3, <1>4, <1>5, <1>6

-----------------------------------------------------------------------------
(* Steps that change neither the row nor what Stripe knows                 *)

\* The requests other than w stay as they are.
OthersKeep(w) ==
  \A v \in Workers \ {w} :
    /\ pc'[v] = pc[v] /\ job'[v] = job[v] /\ loaded'[v] = loaded[v]
    /\ wanted'[v] = wanted[v] /\ event'[v] = event[v]

\* What only grows.
Grown ==
  /\ row # NoRow => row' # NoRow
  /\ committed \subseteq committed'
  /\ \A c \in Checkouts : (Held(c) => Held(c)') /\ (Over(c) => Over(c)')
  /\ sent \subseteq sent' /\ handled \subseteq handled'

\* A request that is left alone is where it was, if the checkouts it has opened are.
LEMMA LeftAlone ==
  ASSUME NEW v \in Workers, Progress(v), Grown,
         pc'[v] = pc[v], job'[v] = job[v], loaded'[v] = loaded[v],
         wanted'[v] = wanted[v], event'[v] = event[v],
         \A c \in Checkouts : Opened(v, c) => stripe'[c] = stripe[c]
  PROVE  Progress(v)'
BY DEF Progress, Canceling, Grown, WasCommitted, Opened, Concerns

\* A step of w that leaves the row, Stripe and its events alone keeps the
\* invariant, if what w does next fits it.
LEMMA Quiet ==
  ASSUME NEW w \in Workers, SubInv, OthersKeep(w),
         UNCHANGED <<row, committed, replaced, stripe, ending, sent, handled, marked>>,
         cached' \in {cached, NoRow, loaded[w]},
         SubTypes', Progress(w)', \A c \in Checkouts : Opened(w, c)' => Opened(w, c)
  PROVE  SubInv'
<1>1. Grown
  BY DEF Grown, Held, Over
<1>2. RowsTrue'
  BY DEF SubInv, Progress, Canceling, RowsTrue, WasCommitted, Held
<1>3. EventsTrue' /\ PaymentFound' /\ marked' \subseteq handled' /\ handled' \subseteq sent'
  BY DEF SubInv, EventsTrue, PaymentFound
<1>4. OneCheckout'
  BY DEF SubInv, OneCheckout, Opened, OthersKeep
<1>5. \A v \in Workers : Progress(v)'
  BY <1>1, LeftAlone DEF SubInv, OthersKeep
<1> QED
  BY <1>2, <1>3, <1>4, <1>5 DEF SubInv

\* The request ends.
LEMMA EndProgress ==
  ASSUME NEW w \in Workers, SubInv, End(w)
  PROVE  /\ OthersKeep(w) /\ Progress(w)' /\ \A c \in Checkouts : ~ Opened(w, c)'
         /\ pc'[w] = "idle"
         /\ UNCHANGED subs => SubTypes'
         /\ pc' \in [Workers -> {"idle", "query", "save", "refresh", "keep", "modify", "again",
                          "apply", "mark", "settings", "change", "drop", "keepsettings"}]
         /\ job' \in [Workers -> {"none", "subscribe", "status", "upgrade", "cancel", "cancelling",
                           "webhook", "settings", "read", "saved"}]
         /\ loaded' \in [Workers -> Rows] /\ wanted' \in [Workers -> Rows]
         /\ event' \in [Workers -> Events \cup {NoEvent}]
         /\ \A v \in Workers :
              pc'[v] = "idle" => /\ job'[v] = "none" /\ loaded'[v] = NoRow /\ wanted'[v] = NoRow
                                 /\ event'[v] = NoEvent
<1>1. OthersKeep(w)
  BY DEF SubInv, SubTypes, End, Goto, Load, Want, OthersKeep
<1>2. /\ pc'[w] = "idle" /\ job'[w] = "none" /\ loaded'[w] = NoRow /\ wanted'[w] = NoRow
      /\ event'[w] = NoEvent
  BY DEF SubInv, SubTypes, End, Goto, Load, Want
<1>3. Progress(w)' /\ \A c \in Checkouts : ~ Opened(w, c)'
  BY <1>2, NoRowFields DEF Progress, Canceling, WasCommitted, Opened
<1> QED
  BY <1>1, <1>2, <1>3, NoRowFields DEF SubInv, SubTypes, End, Goto, Load, Want, subs

\* Abort, a Modify that Stripe refuses, and a second look-up that fails.
LEMMA EndInv ==
  ASSUME NEW w \in Workers, SubInv, End(w), UNCHANGED subs
  PROVE  SubInv'
<1>1. OthersKeep(w) /\ Progress(w)' /\ (\A c \in Checkouts : ~ Opened(w, c)') /\ SubTypes'
  BY EndProgress
<1> QED
  BY <1>1, Quiet DEF subs

\* The row is looked up.
LEMMA QueryInv == ASSUME NEW w \in Workers, SubInv, Query(w) PROVE SubInv'
<1>1. /\ pc[w] = "query" /\ pc'[w] = "save" /\ loaded'[w] = row
      /\ OthersKeep(w) /\ UNCHANGED <<subs, job, wanted, event>>
  BY DEF SubInv, SubTypes, Query, At, Goto, Load, OthersKeep
<1>2. SubTypes'
  BY DEF SubInv, SubTypes, Query, At, Goto, Load, subs
<1>3. Progress(w)'
  BY <1>1 DEF SubInv, RowsTrue, Progress, Canceling, WasCommitted, Opened, Held, Over, subs
<1> QED
  BY <1>1, <1>2, <1>3, Quiet DEF subs, Opened

\* The row is read again after the commit: there is one.
LEMMA RefreshInv == ASSUME NEW w \in Workers, SubInv, Refresh(w) PROVE SubInv'
<1>1. /\ pc[w] = "refresh" /\ pc'[w] = "keep" /\ loaded'[w] = row
      /\ OthersKeep(w) /\ UNCHANGED <<subs, job, wanted, event>>
  BY DEF SubInv, SubTypes, Refresh, At, Goto, Load, OthersKeep
<1>2. SubTypes'
  BY DEF SubInv, SubTypes, Refresh, At, Goto, Load, subs
<1>3. Progress(w)'
  BY <1>1 DEF SubInv, RowsTrue, Progress, Canceling, WasCommitted, Opened, Held, Over, subs
<1> QED
  BY <1>1, <1>2, <1>3, Quiet DEF subs, Opened

\* get_subscription has loaded the row.
LEMMA GetInv == ASSUME NEW w \in Workers, SubInv, Get(w) PROVE SubInv'
<1>1. /\ row # NoRow /\ pc[w] = "idle" /\ pc'[w] = "keep" /\ loaded'[w] = row
      /\ job'[w] \in {"status", "upgrade", "cancel", "settings"}
      /\ OthersKeep(w)
      /\ UNCHANGED <<row, committed, replaced, cached, stripe, ending, sent, handled, marked, wanted, event>>
  BY DEF SubInv, SubTypes, Get, Request, Serve, At, Goto, Load, OthersKeep
<1>2. SubTypes'
  BY SubscriptionsAssumption DEF SubInv, SubTypes, Get, Request, Serve, At, Goto, Load
<1>3. Progress(w)'
  BY <1>1 DEF SubInv, RowsTrue, Progress, Canceling, WasCommitted, Opened, Held, Over
<1> QED
  BY <1>1, <1>2, <1>3, Quiet DEF Opened

\* The second look-up of a cancellation goes on with the row it loaded first.
LEMMA GetAgainInv == ASSUME NEW w \in Workers, SubInv, GetAgain(w) PROVE SubInv'
<1>1. CASE End(w)
  BY <1>1, EndInv DEF GetAgain
<1>2. CASE ~ End(w)
  <2>1. /\ pc[w] = "again" /\ pc' = [pc EXCEPT ![w] = "keep"]
        /\ UNCHANGED <<subs, job, loaded, wanted, event>>
    BY <1>2 DEF GetAgain, At, Goto
  <2>2. pc'[w] = "keep" /\ OthersKeep(w)
    BY <2>1 DEF SubInv, SubTypes, OthersKeep
  <2>3. SubTypes'
    BY <2>1 DEF SubInv, SubTypes, subs
  <2>4. \A c \in Checkouts : ~ Opened(w, c)
    BY <2>1, NoRowFields DEF SubInv, Progress, Opened, Pending, Sub
  <2>5. Progress(w)'
    BY <2>1, <2>2, <2>4 DEF SubInv, Progress, Canceling, WasCommitted, Opened, Over, subs
  <2> QED
    BY <2>1, <2>2, <2>3, <2>5, Quiet DEF subs, Opened
<1> QED
  BY <1>1, <1>2

-----------------------------------------------------------------------------
(* Saves                                                                   *)

\* A commit by a session that has loaded o and wants n, over the row as it is now:
\* an id it overwrites is recorded as replaced.
LEMMA StoreFields ==
  ASSUME SubInv, NEW o \in Rows, NEW n \in Rows, Store(o, n), o.plan # "none" \/ row = NoRow,
         WasCommitted(o), n.plan # "none"
  PROVE  /\ row' \in Rows /\ row' # NoRow /\ row'.plan # "none"
         /\ row'.status = IF n.status # o.status THEN n.status ELSE row.status
         /\ row'.ref = IF n.ref # o.ref THEN n.ref ELSE row.ref
         /\ committed' = committed \cup {row'} /\ replaced' \subseteq Checkouts
         /\ \A c \in Checkouts :
              /\ Held(c) => Held(c)'
              /\ row.ref = Subscription(c) \/ c \in replaced
                   => row'.ref = Subscription(c) \/ c \in replaced'
<1>1. row' = Assign(o, n, row) /\ committed' = committed \cup {row'}
      /\ replaced' = replaced \cup Overwritten(o, n)
  BY DEF Store
<1>2. row \in Rows /\ replaced \subseteq Checkouts
  BY DEF SubInv, SubTypes
<1>3. /\ row' \in Rows
      /\ row'.plan = IF n.plan # o.plan THEN n.plan ELSE row.plan
      /\ row'.status = IF n.status # o.status THEN n.status ELSE row.status
      /\ row'.ref = IF n.ref # o.ref THEN n.ref ELSE row.ref
  BY <1>1, <1>2, AssignFields
<1>4. row'.plan # "none" /\ row' # NoRow
  <2>1. row # NoRow => row.plan # "none"
    BY DEF SubInv, RowsTrue, WasCommitted
  <2>2. row = NoRow => o.plan = "none"
    BY NoRowFields DEF SubInv, RowsTrue, WasCommitted
  <2> QED
    BY <1>3, <2>1, <2>2, NoRowFields
<1>5. replaced' \subseteq Checkouts
  BY <1>1, <1>2 DEF Overwritten
<1>6. ASSUME NEW c \in Checkouts
      PROVE  /\ Held(c) => Held(c)'
             /\ row.ref = Subscription(c) \/ c \in replaced
                  => row'.ref = Subscription(c) \/ c \in replaced'
  BY <1>1, <1>3 DEF Held, Overwritten
<1> QED
  BY <1>1, <1>3, <1>4, <1>5, <1>6

\* Such a commit by request w keeps the invariant, if the payments that it counts
\* as handled are found.
LEMMA StoreInv ==
  ASSUME NEW w \in Workers, SubInv, OthersKeep(w),
         UNCHANGED <<cached, stripe, ending, sent, marked>>,
         handled \subseteq handled', handled' \subseteq sent,
         row' \in Rows, row' # NoRow, row'.plan # "none", committed' = committed \cup {row'},
         \A c \in Checkouts : Held(c) => Held(c)',
         PaymentFound', SubTypes', Progress(w)',
         \A c \in Checkouts : Opened(w, c)' => Opened(w, c)
  PROVE  SubInv'
<1>1. Grown
  BY DEF Grown, Over
<1>2. RowsTrue'
  <2>1. WasCommitted(row)' /\ WasCommitted(cached)' /\ \A r \in committed' : r.plan # "none"
    BY DEF SubInv, RowsTrue, WasCommitted
  <2>2. \A r \in committed', c \in Checkouts :
          r.ref \in {Session(c), Subscription(c)} => Held(c)'
    BY DEF SubInv, RowsTrue, Held
  <2>3. \A c \in Checkouts : stripe'[c] \notin {"none", "open"} => Held(c)'
    BY DEF SubInv, RowsTrue
  <2> QED
    BY <2>1, <2>2, <2>3 DEF RowsTrue, Session, Subscription
<1>3. EventsTrue' /\ marked' \subseteq handled' /\ handled' \subseteq sent'
  BY DEF SubInv, EventsTrue
<1>4. OneCheckout'
  BY DEF SubInv, OneCheckout, Opened, OthersKeep
<1>5. \A v \in Workers : Progress(v)'
  BY <1>1, LeftAlone DEF SubInv, OthersKeep
<1> QED
  BY <1>2, <1>3, <1>4, <1>5 DEF SubInv

\* create_or_update saves what the request wants, over the row as it is now.  The
\* id of a checkout it has opened is then held: it is in the row, or the row it had
\* loaded was committed with it.
LEMMA SaveInv == ASSUME NEW w \in Workers, SubInv, Save(w) PROVE SubInv'
<1>1. CASE End(w) /\ UNCHANGED <<row, committed, replaced>>
  BY <1>1, EndInv DEF Save, subs
<1>2. CASE ~ (End(w) /\ UNCHANGED <<row, committed, replaced>>)
  <2>1. /\ pc[w] = "save" /\ (loaded[w] # NoRow \/ row = NoRow) /\ Store(loaded[w], wanted[w])
        /\ pc' = [pc EXCEPT ![w] = "refresh"] /\ loaded' = [loaded EXCEPT ![w] = NoRow]
        /\ UNCHANGED <<cached, stripe, ending, sent, handled, marked, requests, job, wanted, event>>
    BY <1>2 DEF Save, At, Goto, Load
  <2>2. /\ Progress(w) /\ wanted[w].plan # "none" /\ WasCommitted(loaded[w])
        /\ loaded[w] \in Rows /\ wanted[w] \in Rows
        /\ loaded[w].plan # "none" \/ row = NoRow
    BY <2>1 DEF SubInv, SubTypes, Progress, Canceling, RowsTrue, WasCommitted
  <2>3. /\ row' \in Rows /\ row' # NoRow /\ row'.plan # "none"
        /\ row'.ref = IF wanted[w].ref # loaded[w].ref THEN wanted[w].ref ELSE row.ref
        /\ committed' = committed \cup {row'} /\ replaced' \subseteq Checkouts
        /\ \A c \in Checkouts :
             /\ Held(c) => Held(c)'
             /\ row.ref = Subscription(c) \/ c \in replaced
                  => row'.ref = Subscription(c) \/ c \in replaced'
    BY <2>1, <2>2, StoreFields
  <2>4. PaymentFound'
    BY <2>1, <2>3, EventFields DEF SubInv, SubTypes, PaymentFound
  <2>5. pc'[w] = "refresh" /\ loaded'[w] = NoRow /\ OthersKeep(w)
    BY <2>1 DEF SubInv, SubTypes, OthersKeep
  <2>6. SubTypes'
    BY <2>1, <2>3, <2>5, NoRowFields DEF SubInv, SubTypes
  <2>7. ASSUME NEW c \in Checkouts, Opened(w, c) PROVE Held(c)'
    <3>1. wanted[w].ref = Session(c)
      BY <2>7 DEF Opened, Pending, Sub
    <3>2. CASE wanted[w].ref # loaded[w].ref
      BY <2>3, <3>1, <3>2 DEF Held
    <3>3. CASE wanted[w].ref = loaded[w].ref
      <4>1. loaded[w] \in committed
        BY <2>2, <3>1, <3>3, NoRowFields, SubscriptionsAssumption DEF WasCommitted, Session
      <4> QED
        BY <2>3, <3>1, <3>3, <4>1 DEF SubInv, RowsTrue
    <3> QED
      BY <3>2, <3>3
  <2>8. Progress(w)'
    <3>1. \A c \in Checkouts : Opened(w, c)' => Opened(w, c)
      BY <2>1 DEF Opened
    <3> QED
      BY <2>1, <2>2, <2>3, <2>5, <2>7, <3>1 DEF Progress, Canceling, WasCommitted
  <2>9. \A c \in Checkouts : Opened(w, c)' => Opened(w, c)
    BY <2>1 DEF Opened
  <2> QED
    BY <2>1, <2>3, <2>4, <2>5, <2>6, <2>8, <2>9, StoreInv DEF SubInv
<1> QED
  BY <1>1, <1>2

\* handle_webhook saves the row it loaded, changed by the event.
LEMMA ApplyInv == ASSUME NEW w \in Workers, SubInv, Apply(w) PROVE SubInv'
<1> DEFINE e == event[w]
           n == Applied(e, loaded[w])
<1>1. /\ pc[w] = "apply" /\ Store(loaded[w], n) /\ handled' = handled \cup {e}
      /\ pc' = [pc EXCEPT ![w] = "mark"] /\ loaded' = [loaded EXCEPT ![w] = NoRow]
      /\ UNCHANGED <<cached, stripe, ending, sent, marked, requests, job, wanted, event>>
  BY DEF Apply, At, Goto, Load
<1>2. /\ Progress(w) /\ WasCommitted(loaded[w])
      /\ loaded[w] \in Rows /\ e \in sent /\ e \in Events /\ Concerns(e, loaded[w])
  BY <1>1 DEF SubInv, SubTypes, Progress, Canceling
<1>3. /\ n \in Rows
      /\ n.plan = IF e.type = "updated" THEN PriceId ELSE loaded[w].plan
      /\ n.ref = IF e.type = "completed" THEN Subscription(e.of) ELSE loaded[w].ref
  BY <1>2, AppliedFields
<1> HIDE DEF n
<1>4. loaded[w].plan # "none"
  <2>1. e.of \in Checkouts
    BY <1>2, EventFields
  <2>2. loaded[w].ref \in {"session", "subscription"} \X Checkouts
    BY <1>2, <2>1 DEF Concerns, Session, Subscription
  <2>3. loaded[w] # NoRow
    BY <2>2, NoRowFields, SubscriptionsAssumption
  <2> QED
    BY <1>2, <2>3 DEF SubInv, RowsTrue, WasCommitted
<1>5. n.plan # "none"
  BY <1>3, <1>4, SubscriptionsAssumption
<1>6. /\ row' \in Rows /\ row' # NoRow /\ row'.plan # "none"
      /\ row'.ref = IF n.ref # loaded[w].ref THEN n.ref ELSE row.ref
      /\ committed' = committed \cup {row'} /\ replaced' \subseteq Checkouts
      /\ \A c \in Checkouts :
           /\ Held(c) => Held(c)'
           /\ row.ref = Subscription(c) \/ c \in replaced
                => row'.ref = Subscription(c) \/ c \in replaced'
  BY <1>1, <1>2, <1>3, <1>4, <1>5, StoreFields
<1>7. PaymentFound'
  <2>1. SUFFICES ASSUME NEW d \in handled', d.type = "completed"
                 PROVE  row'.ref = Subscription(d.of) \/ d.of \in replaced'
    BY DEF PaymentFound
  <2>2. CASE d = e
    <3>1. Subscription(e.of) # Session(e.of)
      BY DEF Subscription, Session
    <3> QED
      BY <1>2, <1>3, <1>6, <2>1, <2>2, <3>1 DEF Concerns
  <2>3. CASE d # e
    <3>1. d \in handled /\ d.of \in Checkouts
      BY <1>1, <2>3, EventFields DEF SubInv, SubTypes
    <3> QED
      BY <1>6, <2>1, <3>1 DEF SubInv, PaymentFound
  <2> QED
    BY <2>2, <2>3
<1>8. pc'[w] = "mark" /\ loaded'[w] = NoRow /\ OthersKeep(w)
  BY <1>1 DEF SubInv, SubTypes, OthersKeep
<1>9. SubTypes'
  BY <1>1, <1>2, <1>6, <1>8, NoRowFields DEF SubInv, SubTypes
<1>10. \A c \in Checkouts : Opened(w, c)' => Opened(w, c)
  BY <1>1 DEF Opened
<1>11. Progress(w)'
  BY <1>1, <1>2, <1>8, <1>10 DEF Progress, Canceling, WasCommitted
<1> QED
  BY <1>1, <1>2, <1>6, <1>7, <1>8, <1>9, <1>10, <1>11, StoreInv DEF SubInv

-----------------------------------------------------------------------------
(* Steps that change what Stripe knows                                     *)

\* Checkouts move on, and events of what has happened are added; a checkout some
\* request has opened is left alone, unless it is the request that steps.
LEMMA StripeInv ==
  ASSUME SubInv, UNCHANGED <<row, committed, replaced, marked, handled>>,
         cached' \in {cached, NoRow}, SubTypes', sent \subseteq sent', EventsTrue', OneCheckout',
         \A c \in Checkouts : stripe'[c] \notin {"none", "open"} => Held(c),
         \A v \in Workers : Progress(v)'
  PROVE  SubInv'
<1>1. RowsTrue'
  BY DEF SubInv, RowsTrue, WasCommitted, Held
<1>2. PaymentFound' /\ marked' \subseteq handled' /\ handled' \subseteq sent'
  BY DEF SubInv, PaymentFound
<1> QED
  BY <1>1, <1>2 DEF SubInv

\* A step outside the requests.
LEMMA OutsideInv ==
  ASSUME SubInv, UNCHANGED <<row, committed, replaced, marked, handled, reqs>>,
         cached' \in {cached, NoRow}, SubTypes', sent \subseteq sent', EventsTrue',
         \A c \in Checkouts : Over(c) => Over(c)',
         \A c \in Checkouts : stripe[c] = "open" => stripe'[c] = "open",
         \A c \in Checkouts : stripe'[c] # stripe[c] => stripe[c] # "none"
  PROVE  SubInv'
<1>1. Grown
  BY DEF Grown, Held
<1>2. OneCheckout'
  BY DEF SubInv, OneCheckout, Opened, reqs
<1>3. \A v \in Workers : Progress(v)'
  <2>1. SUFFICES ASSUME NEW v \in Workers PROVE Progress(v)'
    OBVIOUS
  <2>2. Progress(v)
    BY DEF SubInv
  <2>3. \A c \in Checkouts : Opened(v, c) => stripe'[c] = stripe[c]
    BY <2>2 DEF Progress, Canceling
  <2> QED
    BY <1>1, <2>2, <2>3, LeftAlone DEF reqs
<1>4. \A c \in Checkouts : stripe'[c] \notin {"none", "open"} => Held(c)
  BY DEF SubInv, RowsTrue
<1> QED
  BY <1>2, <1>3, <1>4, StripeInv

\* Stripe raises an event, or leaves it for later than the model runs.
LEMMA RaisesFields ==
  ASSUME NEW type, NEW c, NEW status, Raises(type, c, status)
  PROVE  sent \subseteq sent' /\ sent' \subseteq sent \cup {Raise(type, c, status)}
BY DEF Raises

\* A checkout that is offered or a subscription moves on, and an event tells of it.
Moves(c, s, e) ==
  /\ stripe[c] \in {"offered", "active", "past_due"}
  /\ stripe' = [stripe EXCEPT ![c] = s]
  /\ sent \subseteq sent' /\ sent' \subseteq sent \cup {e} /\ e.of = c
  /\ e.type = "completed" => s = "active"
  /\ e.type = "deleted" => s = "deleted"
  /\ UNCHANGED <<row, committed, replaced, cached, ending, handled, marked, requests, reqs>>

\* Such a step keeps the invariant.
LEMMA MovesInv ==
  ASSUME SubInv, NEW c \in Checkouts, NEW s \in {"active", "past_due", "deleted"},
         NEW e \in Events, Moves(c, s, e)
  PROVE  SubInv'
<1> USE DEF Moves
<1>1. /\ stripe'[c] = s
      /\ \A d \in Checkouts : d # c => stripe'[d] = stripe[d]
  BY DEF SubInv, SubTypes
<1>2. SubTypes'
  BY DEF SubInv, SubTypes, reqs
<1>3. \A d \in Checkouts : Over(d) => Over(d)'
  BY <1>1 DEF Over
<1>4. EventsTrue'
  <2>1. SUFFICES ASSUME NEW d \in sent'
                 PROVE  /\ d.type = "completed" => stripe'[d.of] \in {"active", "past_due", "deleted"}
                        /\ d.type = "deleted" => stripe'[d.of] = "deleted"
    BY DEF EventsTrue
  <2>2. CASE d = e
    BY <1>1, <2>2
  <2>3. CASE d # e
    <3>1. d \in sent /\ d \in Events /\ d.of \in Checkouts
      BY <2>3, EventFields DEF SubInv, SubTypes
    <3> QED
      BY <1>1, <3>1 DEF SubInv, EventsTrue
  <2> QED
    BY <2>2, <2>3
<1>5. \A d \in Checkouts : /\ stripe[d] = "open" => stripe'[d] = "open"
                          /\ stripe'[d] # stripe[d] => stripe[d] # "none"
  BY <1>1
<1> QED
  BY <1>2, <1>3, <1>4, <1>5, OutsideInv

\* Payments, their failure, the end of a subscription, the timeout of the entry.
LEMMA AroundInv == ASSUME SubInv, Around PROVE SubInv'
<1>1. CASE Expire
  BY <1>1, OutsideInv, NoRowFields
  DEF Expire, SubInv, SubTypes, EventsTrue, Over, reqs
<1>2. \A c \in Checkouts :
        /\ Raise("completed", c, "active") \in Events /\ Raise("paid", c, "active") \in Events
        /\ Raise("failed", c, "past_due") \in Events /\ Raise("updated", c, "past_due") \in Events
        /\ Raise("deleted", c, "canceled") \in Events
  BY DEF Events
<1>3. CASE Pay
  <2>1. PICK c \in Checkouts :
          /\ stripe[c] = "offered" /\ stripe' = [stripe EXCEPT ![c] = "active"]
          /\ Raises("completed", c, "active")
          /\ UNCHANGED <<row, committed, replaced, cached, ending, handled, marked, requests, reqs>>
    BY <1>3 DEF Pay
  <2>2. Moves(c, "active", Raise("completed", c, "active"))
    BY <2>1, RaisesFields DEF Moves, Raise
  <2> QED
    BY <1>2, <2>2, MovesInv
<1>4. CASE PayInvoice
  <2>1. PICK c \in Checkouts :
          /\ stripe[c] \in {"active", "past_due"} /\ stripe' = [stripe EXCEPT ![c] = "active"]
          /\ Raises("paid", c, "active")
          /\ UNCHANGED <<row, committed, replaced, cached, ending, handled, marked, requests, reqs>>
    BY <1>4 DEF PayInvoice
  <2>2. Moves(c, "active", Raise("paid", c, "active"))
    BY <2>1, RaisesFields DEF Moves, Raise
  <2> QED
    BY <1>2, <2>2, MovesInv
<1>5. CASE FailToPay
  <2>1. PICK c \in Checkouts :
          /\ stripe[c] = "active" /\ stripe' = [stripe EXCEPT ![c] = "past_due"]
          /\ Raises("failed", c, "past_due") \/ Raises("updated", c, "past_due")
          /\ UNCHANGED <<row, committed, replaced, cached, ending, handled, marked, requests, reqs>>
    BY <1>5 DEF FailToPay
  <2>2. \/ Moves(c, "past_due", Raise("failed", c, "past_due"))
        \/ Moves(c, "past_due", Raise("updated", c, "past_due"))
    BY <2>1, RaisesFields DEF Moves, Raise
  <2> QED
    BY <1>2, <2>2, MovesInv
<1>6. CASE EndSubscription
  <2>1. PICK c \in Checkouts :
          /\ stripe[c] \in {"active", "past_due"} /\ stripe' = [stripe EXCEPT ![c] = "deleted"]
          /\ Raises("deleted", c, "canceled")
          /\ UNCHANGED <<row, committed, replaced, cached, ending, handled, marked, requests, reqs>>
    BY <1>6 DEF EndSubscription
  <2>2. Moves(c, "deleted", Raise("deleted", c, "canceled"))
    BY <2>1, RaisesFields DEF Moves, Raise
  <2> QED
    BY <1>2, <2>2, MovesInv
<1> QED
  BY <1>1, <1>3, <1>4, <1>5, <1>6 DEF Around

\* A checkout is opened at Stripe: it is nobody else's.
LEMMA SubscribeInv == ASSUME NEW w \in Workers, SubInv, Subscribe(w) PROVE SubInv'
<1>1. /\ pc[w] = "idle" /\ pc' = [pc EXCEPT ![w] = "query"]
      /\ job' = [job EXCEPT ![w] = "subscribe"]
      /\ requests < MaxRequests /\ requests' = requests + 1
      /\ UNCHANGED <<row, committed, replaced, cached, ending, sent, handled, marked, loaded, event>>
  BY DEF Subscribe, Request, Serve, At, Goto
<1>2. loaded[w] = NoRow
  BY <1>1 DEF SubInv, SubTypes
<1>3. ASSUME NEW u \in Bodies, wanted' = [wanted EXCEPT ![w] = Sub("free", "active", u.ref)],
             UNCHANGED stripe
      PROVE  SubInv'
  <2>1. /\ pc'[w] = "query" /\ job'[w] = "subscribe" /\ OthersKeep(w)
        /\ wanted'[w] = Sub("free", "active", u.ref)
    BY <1>1, <1>3 DEF SubInv, SubTypes, OthersKeep
  <2>2. SubTypes'
    BY <1>1, <1>3, RowsWanted, SubscriptionsAssumption DEF SubInv, SubTypes
  <2>3. \A c \in Checkouts : ~ Opened(w, c)'
    BY <2>1 DEF Opened, Pending, Sub
  <2>4. Progress(w)'
    BY <1>1, <1>2, <2>1, <2>3, NoRowFields DEF Progress, Canceling, WasCommitted, Pending, Sub
  <2> QED
    BY <1>1, <1>3, <2>1, <2>2, <2>3, <2>4, Quiet
<1>4. ASSUME NEW c \in Checkouts, stripe[c] = "none", stripe' = [stripe EXCEPT ![c] = "open"],
             wanted' = [wanted EXCEPT ![w] = Pending(c)]
      PROVE  SubInv'
  <2>1. /\ pc'[w] = "query" /\ job'[w] = "subscribe" /\ OthersKeep(w)
        /\ wanted'[w] = Pending(c)
        /\ stripe'[c] = "open" /\ \A d \in Checkouts : d # c => stripe'[d] = stripe[d]
    BY <1>1, <1>4 DEF SubInv, SubTypes, OthersKeep
  <2>2. SubTypes'
    BY <1>1, <1>4, RowsWanted, SubscriptionsAssumption DEF SubInv, SubTypes
  <2>3. \A d \in Checkouts : Opened(w, d)' => d = c
    BY <2>1 DEF Opened, Pending, Sub, Session
  <2>4. \A v \in Workers : ~ Opened(v, c)
    BY <1>4 DEF SubInv, Progress, Canceling
  <2>5. \A d \in Checkouts : Over(d) => Over(d)'
    BY <1>1, <1>4, <2>1 DEF Over
  <2>6. EventsTrue'
    BY <1>1, <1>4, <2>1, EventFields DEF SubInv, SubTypes, EventsTrue
  <2>7. OneCheckout'
    BY <2>1, <2>3, <2>4 DEF SubInv, OneCheckout, Opened, OthersKeep
  <2>8. Progress(w)'
    BY <1>1, <1>2, <2>1, <2>3, NoRowFields DEF Progress, Canceling, WasCommitted, Pending, Sub
  <2>9. \A v \in Workers : Progress(v)'
    <3>1. Grown
      BY <1>1, <2>5 DEF Grown, Held
    <3>2. SUFFICES ASSUME NEW v \in Workers, v # w PROVE Progress(v)'
      BY <2>8
    <3>3. \A d \in Checkouts : Opened(v, d) => stripe'[d] = stripe[d]
      BY <2>1, <2>4
    <3> QED
      BY <2>1, <3>1, <3>2, <3>3, LeftAlone DEF SubInv, OthersKeep
  <2>10. \A d \in Checkouts : stripe'[d] \notin {"none", "open"} => Held(d)
    BY <2>1 DEF SubInv, RowsTrue
  <2> QED
    BY <1>1, <2>2, <2>6, <2>7, <2>9, <2>10, StripeInv
<1> QED
  BY <1>3, <1>4 DEF Subscribe, Want, Sendable

\* get_subscription has cached the row, and the route goes on with it; or a row that
\* was saved is answered, with the id of the checkout it has opened.
LEMMA KeepInv == ASSUME NEW w \in Workers, SubInv, Keep(w) PROVE SubInv'
<1>1. /\ pc[w] = "keep" /\ cached' = loaded[w] /\ loaded[w] # NoRow
      /\ UNCHANGED <<row, committed, replaced, ending, sent, handled, marked, requests>>
      /\ stripe' = [c \in Checkouts |-> IF job[w] = "subscribe" /\ wanted[w] = Pending(c)
                                      THEN "offered" ELSE stripe[c]]
      /\ Progress(w) /\ loaded[w] \in Rows
  BY DEF SubInv, SubTypes, Progress, Canceling, Keep, At
<1>2. \A c \in Checkouts : /\ Opened(w, c) => stripe[c] = "open" /\ stripe'[c] = "offered"
                           /\ ~ Opened(w, c) => stripe'[c] = stripe[c]
  BY <1>1 DEF Progress, Canceling, Opened
<1>3. stripe' \in [Checkouts -> {"none", "open", "offered", "active", "past_due", "deleted"}]
  BY <1>1 DEF SubInv, SubTypes
<1>4. CASE End(w)
  <2>1. /\ OthersKeep(w) /\ Progress(w)' /\ \A c \in Checkouts : ~ Opened(w, c)'
    BY <1>4, EndProgress
  <2>2. SubTypes'
    BY <1>1, <1>3, <1>4, EndProgress DEF SubInv, SubTypes
  <2>3. \A c \in Checkouts : Over(c) => Over(c)'
    BY <1>1, <1>2 DEF Over
  <2>4. EventsTrue'
    <3>1. SUFFICES ASSUME NEW e \in sent
                   PROVE  /\ e.type = "completed" => stripe'[e.of] \in {"active", "past_due", "deleted"}
                          /\ e.type = "deleted" => stripe'[e.of] = "deleted"
      BY <1>1 DEF EventsTrue
    <3>2. e.of \in Checkouts
      BY EventFields DEF SubInv, SubTypes
    <3> QED
      BY <1>2, <3>2 DEF SubInv, EventsTrue
  <2>5. OneCheckout'
    BY <2>1 DEF SubInv, OneCheckout, Opened, OthersKeep
  <2>6. \A v \in Workers : Progress(v)'
    <3>1. Grown
      BY <1>1, <2>3 DEF Grown, Held
    <3>2. SUFFICES ASSUME NEW v \in Workers, v # w PROVE Progress(v)'
      BY <2>1
    <3>3. \A c \in Checkouts : Opened(v, c) => stripe'[c] = stripe[c]
      BY <1>2, <3>2 DEF SubInv, OneCheckout
    <3> QED
      BY <2>1, <3>1, <3>2, <3>3, LeftAlone DEF SubInv, OthersKeep
  <2>7. RowsTrue'
    <3>1. \A c \in Checkouts : stripe'[c] \notin {"none", "open"} => Held(c)
      BY <1>1, <1>2 DEF SubInv, RowsTrue, Progress, Canceling
    <3> QED
      BY <1>1, <3>1 DEF SubInv, RowsTrue, Progress, Canceling, WasCommitted, Held
  <2>8. PaymentFound' /\ marked' \subseteq handled' /\ handled' \subseteq sent'
    BY <1>1 DEF SubInv, PaymentFound
  <2> QED
    BY <2>2, <2>4, <2>5, <2>6, <2>7, <2>8 DEF SubInv
<1>5. CASE ~ End(w)
  <2>1. wanted[w] = NoRow /\ AfterGet(w)
    BY <1>5 DEF Keep
  <2>2. \A c \in Checkouts : ~ Opened(w, c)
    BY <2>1, NoRowFields DEF Opened, Pending, Sub
  <2>3. stripe' = stripe
    BY <1>1, <1>2, <1>3, <2>2 DEF SubInv, SubTypes
  <2>4. ASSUME NEW u \in Bodies, job[w] = "upgrade",
               wanted' = [wanted EXCEPT ![w] = Updated(loaded[w], u)],
               pc' = [pc EXCEPT ![w] = "save"], UNCHANGED <<job, loaded, event>>
        PROVE  SubInv'
    <3>1. /\ pc'[w] = "save" /\ OthersKeep(w)
          /\ wanted'[w] = Updated(loaded[w], u) /\ wanted'[w] \in Rows
      BY <1>1, <2>4, RowsWanted DEF SubInv, SubTypes, OthersKeep
    <3>2. wanted'[w].plan # "none"
      BY <1>1, <3>1 DEF SubInv, RowsTrue, Progress, Canceling, WasCommitted, Updated, Sub
    <3>3. SubTypes'
      BY <1>1, <2>3, <2>4, <3>1 DEF SubInv, SubTypes
    <3>4. Progress(w)'
      BY <1>1, <2>3, <2>4, <3>1, <3>2, NoRowFields DEF Progress, Canceling, WasCommitted, Opened
    <3> QED
      BY <1>1, <2>3, <2>4, <3>1, <3>3, <3>4, Quiet DEF Opened
  <2>5. CASE /\ job[w] = "cancelling"
             /\ wanted' = [wanted EXCEPT ![w] = [loaded[w] EXCEPT !.status = "canceled"]]
             /\ pc' = [pc EXCEPT ![w] = "save"]
             /\ UNCHANGED <<job, loaded, event>>
    <3>1. /\ pc'[w] = "save" /\ OthersKeep(w)
          /\ wanted'[w] = [loaded[w] EXCEPT !.status = "canceled"] /\ wanted'[w] \in Rows
      BY <1>1, <2>5, RowsWanted DEF SubInv, SubTypes, OthersKeep
    <3>2. wanted'[w].plan = loaded[w].plan /\ wanted'[w].plan # "none"
      BY <1>1, <3>1 DEF SubInv, RowsTrue, Progress, Canceling, WasCommitted, Rows
    <3>3. SubTypes'
      BY <1>1, <2>3, <2>5, <3>1 DEF SubInv, SubTypes
    <3>4. Progress(w)'
      BY <1>1, <2>1, <2>3, <2>5, <3>1, <3>2, NoRowFields
      DEF Progress, Canceling, WasCommitted, Opened, Over
    <3> QED
      BY <1>1, <2>3, <2>5, <3>1, <3>3, <3>4, Quiet DEF Opened
  <2>6. CASE /\ pc' \in {[pc EXCEPT ![w] = "modify"], [pc EXCEPT ![w] = "settings"]}
             /\ UNCHANGED <<job, loaded, wanted, event>>
    <3>1. pc'[w] \in {"modify", "settings"} /\ OthersKeep(w)
      BY <1>1, <2>6 DEF SubInv, SubTypes, OthersKeep
    <3>2. SubTypes'
      BY <1>1, <2>3, <2>6, <3>1 DEF SubInv, SubTypes
    <3>3. Progress(w)'
      BY <1>1, <2>1, <2>3, <2>6, <3>1 DEF Progress, Canceling, WasCommitted, Opened, Held, Over
    <3> QED
      BY <1>1, <2>3, <2>6, <3>1, <3>2, <3>3, Quiet DEF Opened
  <2> QED
    BY <1>5, <2>1, <2>4, <2>5, <2>6 DEF AfterGet, Want, Goto, Sendable
<1> QED
  BY <1>4, <1>5

\* Stripe is told to end the subscription.
LEMMA ModifyInv == ASSUME NEW w \in Workers, SubInv, Modify(w) PROVE SubInv'
<1>1. PICK c \in Modifiable(loaded[w].ref) :
        /\ ending' = ending \cup {c}
        /\ UNCHANGED sent \/ Raises("updated", c, stripe[c])
  BY DEF Modify
<1>2. /\ pc[w] = "modify" /\ pc' = [pc EXCEPT ![w] = "again"]
      /\ job' = [job EXCEPT ![w] = "cancelling"]
      /\ UNCHANGED <<row, committed, replaced, cached, stripe, handled, marked, requests, loaded, wanted, event>>
  BY DEF Modify, At, Goto
<1>3. c \in Checkouts /\ stripe[c] \in {"active", "past_due"} /\ loaded[w].ref = Subscription(c)
  BY DEF Modifiable
<1> DEFINE e == Raise("updated", c, stripe[c])
<1>4. e \in Events /\ e.type = "updated" /\ sent \subseteq sent' /\ sent' \subseteq sent \cup {e}
  BY <1>1, <1>3, RaisesFields DEF Events, Raise
<1> HIDE DEF e
<1>5. /\ pc'[w] = "again" /\ job'[w] = "cancelling" /\ OthersKeep(w)
  BY <1>2 DEF SubInv, SubTypes, OthersKeep
<1>6. Over(c)' /\ \A d \in Checkouts : Over(d) => Over(d)'
  BY <1>1, <1>2, <1>3 DEF Over
<1>7. SubTypes'
  BY <1>1, <1>2, <1>3, <1>4 DEF SubInv, SubTypes
<1>8. EventsTrue'
  BY <1>2, <1>4 DEF SubInv, EventsTrue
<1>9. OneCheckout'
  BY <1>2, <1>5 DEF SubInv, OneCheckout, Opened, OthersKeep
<1>10. \A v \in Workers : Progress(v)'
  <2>1. Grown
    BY <1>2, <1>4, <1>6 DEF Grown, Held
  <2>2. Progress(w)'
    BY <1>2, <1>3, <1>5, <1>6 DEF SubInv, Progress, Canceling, WasCommitted, Opened
  <2>3. \A v \in Workers \ {w} : Progress(v)'
    BY <1>2, <1>5, <2>1, LeftAlone DEF SubInv, OthersKeep
  <2> QED
    BY <2>2, <2>3
<1> QED
  BY <1>2, <1>4, <1>7, <1>8, <1>9, <1>10
  DEF SubInv, RowsTrue, WasCommitted, Held, PaymentFound

-----------------------------------------------------------------------------
(* Webhook deliveries                                                      *)

\* A delivery begins: an event that concerns no row counts as handled, and one that
\* completes a checkout the row still waits for concerns the row.
LEMMA WebhookInv ==
  ASSUME NEW w \in Workers, SubInv, NEW e \in Events, Webhook(w, e)
  PROVE  SubInv'
<1>1. /\ e \in sent /\ pc[w] = "idle" /\ job' = [job EXCEPT ![w] = "webhook"]
      /\ event' = [event EXCEPT ![w] = e]
      /\ UNCHANGED <<row, committed, replaced, cached, stripe, ending, sent, marked, requests, wanted>>
  BY DEF Webhook, Serve, At
<1>2. /\ job'[w] = "webhook" /\ event'[w] = e /\ wanted[w] = NoRow /\ loaded[w] = NoRow
  BY <1>1 DEF SubInv, SubTypes
<1>3. CASE /\ Concerns(e, row) /\ pc' = [pc EXCEPT ![w] = "apply"]
           /\ loaded' = [loaded EXCEPT ![w] = row] /\ UNCHANGED handled
  <2>1. pc'[w] = "apply" /\ loaded'[w] = row /\ OthersKeep(w)
    BY <1>1, <1>3 DEF SubInv, SubTypes, OthersKeep
  <2>2. SubTypes'
    BY <1>1, <1>3 DEF SubInv, SubTypes
  <2>3. Progress(w)'
    BY <1>1, <1>2, <1>3, <2>1, NoRowFields
    DEF SubInv, RowsTrue, Progress, Canceling, WasCommitted, Opened, Held, Over, Pending, Sub, Concerns
  <2> QED
    BY <1>1, <1>2, <1>3, <2>1, <2>2, <2>3, Quiet DEF Opened
<1>4. CASE /\ ~ Concerns(e, row) /\ pc' = [pc EXCEPT ![w] = "mark"]
           /\ handled' = handled \cup {e} /\ UNCHANGED loaded
  <2>1. pc'[w] = "mark" /\ OthersKeep(w)
    BY <1>1, <1>4 DEF SubInv, SubTypes, OthersKeep
  <2>2. SubTypes'
    BY <1>1, <1>4 DEF SubInv, SubTypes
  <2>3. PaymentFound'
    <3>1. ASSUME e.type = "completed"
          PROVE  row.ref = Subscription(e.of) \/ e.of \in replaced
      <4>1. e.of \in Checkouts /\ stripe[e.of] \in {"active", "past_due", "deleted"}
        BY <1>1, <3>1, EventFields DEF SubInv, EventsTrue
      <4> QED
        BY <1>4, <3>1, <4>1 DEF SubInv, RowsTrue, Held, Concerns
    <3> QED
      BY <1>1, <1>4, <3>1 DEF SubInv, PaymentFound
  <2>4. OneCheckout'
    BY <1>1, <1>2, <2>1 DEF SubInv, OneCheckout, Opened, OthersKeep
  <2>5. Progress(w)'
    BY <1>1, <1>2, <1>4, <2>1, NoRowFields
    DEF Progress, Canceling, WasCommitted, Opened
  <2>6. Grown
    BY <1>1, <1>4 DEF Grown, Held, Over
  <2>7. \A v \in Workers : Progress(v)'
    BY <1>1, <2>1, <2>5, <2>6, LeftAlone DEF SubInv, OthersKeep
  <2>8. EventsTrue' /\ marked' \subseteq handled' /\ handled' \subseteq sent'
    BY <1>1, <1>4 DEF SubInv, EventsTrue
  <2>9. RowsTrue'
    BY <1>1 DEF SubInv, RowsTrue, WasCommitted, Held
  <2> QED
    BY <2>2, <2>3, <2>4, <2>7, <2>8, <2>9 DEF SubInv
<1> QED
  BY <1>3, <1>4 DEF Webhook, Goto, Load

\* The event is marked after its effect was committed.
LEMMA MarkInv == ASSUME NEW w \in Workers, SubInv, Mark(w) PROVE SubInv'
<1>1. /\ event[w] \in handled /\ marked' = marked \cup {event[w]} /\ End(w)
      /\ UNCHANGED <<row, committed, replaced, cached, stripe, ending, sent, handled, requests>>
  BY DEF Mark, At, SubInv, Progress, Canceling
<1>2. OthersKeep(w) /\ Progress(w)' /\ (\A c \in Checkouts : ~ Opened(w, c)')
  BY <1>1, EndProgress
<1>3. SubTypes'
  BY <1>1, EndProgress DEF SubInv, SubTypes
<1>4. OneCheckout'
  BY <1>2 DEF SubInv, OneCheckout, Opened, OthersKeep
<1>5. Grown
  BY <1>1 DEF Grown, Held, Over
<1>6. \A v \in Workers : Progress(v)'
  BY <1>1, <1>2, <1>5, LeftAlone DEF SubInv, OthersKeep
<1>7. EventsTrue' /\ PaymentFound' /\ marked' \subseteq handled' /\ handled' \subseteq sent'
  BY <1>1 DEF SubInv, EventsTrue, PaymentFound
<1>8. RowsTrue'
  BY <1>1 DEF SubInv, RowsTrue, WasCommitted, Held
<1> QED
  BY <1>3, <1>4, <1>6, <1>7, <1>8 DEF SubInv

\* Every step of a request that is not about settings.
LEMMA SubStepInv == ASSUME NEW w \in Workers, SubInv, SubStep(w) PROVE SubInv'
BY SubscribeInv, QueryInv, SaveInv, RefreshInv, KeepInv, GetInv, ModifyInv, EndInv, GetAgainInv,
   WebhookInv, ApplyInv, MarkInv DEF SubStep, ModifyFails, Abort

-----------------------------------------------------------------------------
(* The settings                                                            *)

\* What the settings need to know of the other steps of a request.
LEMMA SubStepFrame ==
  ASSUME NEW w \in Workers, SubInv, SubStep(w)
  PROVE  /\ OthersKeep(w) /\ (WasPremium => WasPremium')
         /\ pc'[w] \notin {"change", "drop", "keepsettings"}
         /\ pc'[w] = "settings" => WasPremium
         /\ pc[w] \in {"settings", "change", "drop", "keepsettings"} => pc'[w] = "idle"
<1>0. WasPremium => WasPremium'
  BY DEF SubStep, Subscribe, Query, Save, Refresh, Keep, Get, Modify, ModifyFails, GetAgain, Webhook,
         Apply, Mark, Abort, Store, subs, WasPremium
<1> USE DEF SubInv, SubTypes, OthersKeep, At, Goto, Load, Want, Serve, Request
<1>1. CASE Subscribe(w) \/ Query(w) \/ Refresh(w) \/ Get(w) \/ Modify(w)
  <2>1. CASE Subscribe(w)
    BY <1>0, <2>1 DEF Subscribe
  <2>2. CASE Query(w) \/ Refresh(w)
    BY <1>0, <2>2 DEF Query, Refresh, subs
  <2>3. CASE Get(w)
    BY <1>0, <2>3 DEF Get
  <2>4. CASE Modify(w)
    BY <1>0, <2>4 DEF Modify
  <2> QED
    BY <1>1, <2>1, <2>2, <2>3, <2>4
<1>2. CASE ~ End(w) /\ (Save(w) \/ GetAgain(w))
  BY <1>0, <1>2 DEF Save, GetAgain, subs
<1>3. CASE ~ End(w) /\ Keep(w)
  <2>1. AfterGet(w) /\ pc[w] = "keep"
    BY <1>3 DEF Keep
  <2>2. Premium(loaded[w]) => WasPremium
    BY NoRowFields DEF Progress, Canceling, WasCommitted, WasPremium
  <2> QED
    BY <1>0, <1>3, <2>1, <2>2 DEF AfterGet
<1>4. CASE \E e \in Events : Webhook(w, e)
  BY <1>0, <1>4 DEF Webhook
<1>5. CASE End(w) /\ (Save(w) \/ Keep(w) \/ GetAgain(w) \/ ModifyFails(w) \/ Mark(w) \/ Abort(w))
  BY <1>0, <1>5 DEF End
<1>6. CASE Apply(w)
  BY <1>0, <1>6 DEF Apply
<1>7. ModifyFails(w) \/ Mark(w) \/ Abort(w) => End(w)
  BY DEF ModifyFails, Mark, Abort
<1> HIDE DEF SubInv, SubTypes, OthersKeep, At, Goto, Load, Want, Serve, Request
<1> QED
  BY <1>0, <1>1, <1>2, <1>3, <1>4, <1>5, <1>6, <1>7 DEF SubStep

\* Such a step leaves the settings alone, and a request that ends holds none.
LEMMA RequestStepInv ==
  ASSUME NEW w \in Workers, IInv, RequestStep(w)
  PROVE  IInv'
<1>1. SubInv' /\ SubTypes
  BY SubStepInv DEF IInv, SubInv, RequestStep
<1>2. /\ OthersKeep(w) /\ (WasPremium => WasPremium')
      /\ pc'[w] \notin {"change", "drop", "keepsettings"}
      /\ pc'[w] = "settings" => WasPremium
      /\ pc[w] \in {"settings", "change", "drop", "keepsettings"} => pc'[w] = "idle"
  BY SubStepFrame DEF IInv, RequestStep
<1>3. UNCHANGED <<settings, cachedSettings>>
  BY DEF RequestStep, ai
<1>4. /\ base' \in [Workers -> Settings] /\ copy' \in [Workers -> Settings]
      /\ \A v \in Workers \ {w} : base'[v] = base[v] /\ copy'[v] = copy[v]
      /\ pc'[w] = "idle" => base'[w] = Missing /\ copy'[w] = Missing
      /\ pc'[w] # "idle" => base'[w] = base[w] /\ copy'[w] = copy[w]
  BY DEF IInv, SetInv, RequestStep, Fresh, Settings
<1>5. AtSettings(w)'
  BY <1>2, <1>3, <1>4 DEF IInv, SetInv, AtSettings
<1>6. \A v \in Workers \ {w} : AtSettings(v)'
  BY <1>2, <1>3, <1>4 DEF IInv, SetInv, AtSettings, OthersKeep
<1>7. SettingsNeedPremium'
  BY <1>2, <1>3 DEF IInv, SetInv, SettingsNeedPremium
<1> QED
  BY <1>1, <1>3, <1>4, <1>5, <1>6, <1>7 DEF IInv, SetInv

\* A step about the settings leaves the subscription alone.
LEMMA SettingsFrame ==
  ASSUME NEW w \in Workers, IInv, SettingsStep(w)
  PROVE  SubInv' /\ OthersKeep(w) /\ UNCHANGED committed
<1> USE DEF IInv, SubInv, SubTypes, OthersKeep, At, Goto, Serve, Request, LoadSettings
<1>1. CASE End(w) /\ UNCHANGED subs
  BY <1>1, EndInv, EndProgress DEF subs
<1>2. CASE ReadSettings(w)
  <2>1. /\ pc[w] = "idle" /\ pc'[w] = "keepsettings" /\ job'[w] = "read" /\ OthersKeep(w)
        /\ UNCHANGED <<row, committed, replaced, cached, stripe, ending, sent, handled, marked, loaded,
                       wanted, event>>
    BY <1>2 DEF ReadSettings
  <2>2. SubTypes'
    BY <1>2, SubscriptionsAssumption DEF ReadSettings
  <2>3. Progress(w)' /\ \A c \in Checkouts : ~ Opened(w, c)'
    BY <2>1 DEF Progress, Canceling, WasCommitted, Opened, Held, Over
  <2> QED
    BY <2>1, <2>2, <2>3, Quiet
<1>3. CASE ~ End(w) /\ (GetSettings(w) \/ KeepSettings(w) \/ LookUpSettings(w)
                        \/ SaveSettings(w) \/ DropSettings(w))
  <2>1. /\ pc[w] \in {"settings", "keepsettings", "change", "drop"}
        /\ pc'[w] \in {"keepsettings", "change", "drop"} /\ job'[w] \in {job[w], "saved"}
        /\ OthersKeep(w) /\ UNCHANGED <<subs, loaded, wanted, event>>
    BY <1>3 DEF GetSettings, KeepSettings, LookUpSettings, SaveSettings, DropSettings, reqs
  <2>2. SubTypes'
    BY <1>3, <2>1
    DEF GetSettings, KeepSettings, LookUpSettings, SaveSettings, DropSettings, subs, reqs
  <2>3. Progress(w)' /\ \A c \in Checkouts : Opened(w, c)' => Opened(w, c)
    BY <2>1 DEF Progress, Canceling, WasCommitted, Opened, Held, Over, subs
  <2> QED
    BY <2>1, <2>2, <2>3, Quiet DEF subs
<1> QED
  BY <1>1, <1>2, <1>3
  DEF SettingsStep, GetSettings, KeepSettings, LookUpSettings, SaveSettings, DropSettings, subs

\* What is left to show of a step about the settings.
LEMMA SettingsInv ==
  ASSUME NEW w \in Workers, IInv, SettingsStep(w),
         settings' \in Settings, cachedSettings' \in Settings,
         base' \in [Workers -> Settings], copy' \in [Workers -> Settings],
         \A v \in Workers \ {w} : base'[v] = base[v] /\ copy'[v] = copy[v],
         settings # Missing => settings' # Missing,
         cachedSettings' # Missing => settings' # Missing,
         SettingsNeedPremium', AtSettings(w)'
  PROVE  IInv'
<1>1. SubInv' /\ OthersKeep(w) /\ UNCHANGED committed
  BY SettingsFrame
<1>2. \A v \in Workers \ {w} : AtSettings(v)'
  BY <1>1 DEF IInv, SetInv, AtSettings, OthersKeep, WasPremium
<1> QED
  BY <1>1, <1>2 DEF IInv, SetInv

\* The settings are loaded.
LEMMA LoadSettingsInv ==
  ASSUME NEW w \in Workers, IInv, ReadSettings(w) \/ GetSettings(w)
  PROVE  IInv'
<1> USE DEF IInv, SubInv, SubTypes, SetInv, At, Goto, Serve, Request, LoadSettings
<1>1. UNCHANGED <<settings, cachedSettings>> /\ SettingsStep(w) /\ UNCHANGED committed
  BY DEF ReadSettings, GetSettings, ai, subs, SettingsStep
<1>2. /\ base' \in [Workers -> Settings] /\ copy' \in [Workers -> Settings]
      /\ \A v \in Workers \ {w} : base'[v] = base[v] /\ copy'[v] = copy[v]
  BY DEF ReadSettings, GetSettings
<1>3. SettingsNeedPremium'
  BY <1>1 DEF SettingsNeedPremium, WasPremium
<1>4. AtSettings(w)'
  <2>1. CASE ReadSettings(w)
    BY <2>1, <1>1 DEF ReadSettings, AtSettings, SettingsNeedPremium, WasPremium
  <2>2. CASE GetSettings(w) /\ ~ End(w)
    BY <2>2, <1>1 DEF GetSettings, AtSettings, SettingsNeedPremium, WasPremium
  <2>3. CASE GetSettings(w) /\ End(w)
    BY <2>3, <1>1 DEF GetSettings, AtSettings, End
  <2> QED
    BY <2>1, <2>2, <2>3
<1> QED
  BY <1>1, <1>2, <1>3, <1>4, SettingsInv

\* They are cached.
LEMMA KeepSettingsInv == ASSUME NEW w \in Workers, IInv, KeepSettings(w) PROVE IInv'
<1> USE DEF IInv, SubInv, SubTypes, SetInv, At, Goto
<1>1. /\ UNCHANGED <<settings, committed>> /\ cachedSettings' = base[w] /\ pc[w] = "keepsettings"
      /\ SettingsStep(w)
  BY DEF KeepSettings, subs, SettingsStep
<1>2. /\ base' \in [Workers -> Settings] /\ copy' \in [Workers -> Settings]
      /\ \A v \in Workers \ {w} : base'[v] = base[v] /\ copy'[v] = copy[v]
  BY DEF KeepSettings, Fresh, Settings
<1>3. base[w] # Missing /\ settings # Missing /\ (~ WasPremium => base[w] = Defaults)
  BY <1>1 DEF AtSettings
<1>4. SettingsNeedPremium'
  BY <1>1, <1>3 DEF SettingsNeedPremium, WasPremium
<1>5. AtSettings(w)'
  <2>1. CASE job[w] = "settings"
    BY <1>1, <1>3, <2>1 DEF KeepSettings, AtSettings, WasPremium
  <2>2. CASE job[w] # "settings"
    BY <1>1, <2>2 DEF KeepSettings, AtSettings, End, Fresh
  <2> QED
    BY <2>1, <2>2
<1> QED
  BY <1>1, <1>2, <1>3, <1>4, <1>5, SettingsInv

\* The row a detached copy is compared with is looked up.
LEMMA LookUpSettingsInv == ASSUME NEW w \in Workers, IInv, LookUpSettings(w) PROVE IInv'
<1> USE DEF IInv, SubInv, SubTypes, SetInv, At
<1>1. /\ UNCHANGED <<settings, cachedSettings, committed, copy, job, pc>> /\ pc[w] = "change"
      /\ base' = [base EXCEPT ![w] = settings] /\ SettingsStep(w)
  BY DEF LookUpSettings, subs, reqs, ai, SettingsStep
<1>2. SettingsNeedPremium'
  BY <1>1 DEF SettingsNeedPremium, WasPremium
<1>3. AtSettings(w)'
  BY <1>1 DEF AtSettings, SettingsNeedPremium, WasPremium
<1> QED
  BY <1>1, <1>2, <1>3, SettingsInv DEF Settings

\* A toggle is changed, for a user who was premium.
LEMMA SaveSettingsInv == ASSUME NEW w \in Workers, IInv, SaveSettings(w) PROVE IInv'
<1> USE DEF IInv, SubInv, SubTypes, SetInv, At, Goto
<1>1. /\ UNCHANGED <<cachedSettings, committed, base, copy, job>> /\ pc[w] = "change"
      /\ pc' = [pc EXCEPT ![w] = "drop"] /\ SettingsStep(w)
  BY DEF SaveSettings, subs, SettingsStep
<1>2. WasPremium /\ settings \in SUBSET Toggles
  BY <1>1 DEF AtSettings, Settings
<1>3. settings' \in SUBSET Toggles
  <2>1. PICK t \in Toggles :
          LET work == IF copy[w] = Missing THEN base[w] ELSE copy[w]
              new  == IF t \in work THEN work \ {t} ELSE work \cup {t}
          IN  settings' = AssignToggles(base[w], new, settings)
    BY DEF SaveSettings
  <2>2. /\ base[w] \in SUBSET Toggles
        /\ copy[w] # Missing => copy[w] \in SUBSET Toggles
    BY DEF SaveSettings, Settings
  <2> QED
    BY <1>2, <2>1, <2>2 DEF AssignToggles
<1>4. settings' \in Settings /\ settings' # Missing
  BY <1>3, MissingAssumption DEF Settings
<1>5. SettingsNeedPremium' /\ AtSettings(w)'
  BY <1>1, <1>2, <1>4 DEF SettingsNeedPremium, AtSettings, WasPremium
<1> QED
  BY <1>1, <1>4, <1>5, SettingsInv

\* The row is read again, and the entry deleted.
LEMMA DropSettingsInv == ASSUME NEW w \in Workers, IInv, DropSettings(w) PROVE IInv'
<1> USE DEF IInv, SubInv, SubTypes, SetInv, At, Goto
<1>1. /\ UNCHANGED <<settings, committed, copy>> /\ cachedSettings' = Missing
      /\ pc[w] = "drop" /\ pc' = [pc EXCEPT ![w] = "keepsettings"]
      /\ base' = [base EXCEPT ![w] = settings] /\ job' = [job EXCEPT ![w] = "saved"]
      /\ SettingsStep(w)
  BY DEF DropSettings, subs, SettingsStep
<1>2. WasPremium /\ settings # Missing
  BY <1>1 DEF AtSettings
<1>3. SettingsNeedPremium' /\ AtSettings(w)'
  BY <1>1, <1>2 DEF SettingsNeedPremium, AtSettings, WasPremium
<1> QED
  BY <1>1, <1>2, <1>3, SettingsInv DEF Settings

-----------------------------------------------------------------------------
(* The theorems                                                            *)

\* Nothing has been bought at first, or one subscription.
LEMMA InitInv == Init => IInv
<1> SUFFICES ASSUME Init PROVE IInv
  OBVIOUS
<1>1. /\ row \in Rows /\ sent \subseteq Events
      /\ stripe \in [Checkouts -> {"none", "open", "offered", "active", "past_due", "deleted"}]
      /\ row # NoRow => row.plan # "none"
      /\ \A e \in sent : /\ e.type = "completed" /\ stripe[e.of] = "active"
                        /\ row.ref = Subscription(e.of)
      /\ \A c \in Checkouts : stripe[c] # "none" => row.ref = Subscription(c)
      /\ \A c \in Checkouts : row.ref \notin {Session(c)}
  <2>1. CASE row = NoRow /\ stripe = [c \in Checkouts |-> "none"] /\ sent = {}
    BY <2>1, NoRowFields, SubscriptionsAssumption DEF Session
  <2>2. ASSUME NEW c \in Checkouts, row = Sub("premium", "active", Subscription(c)),
               stripe = [d \in Checkouts |-> IF d = c THEN "active" ELSE "none"],
               sent = {Raise("completed", c, "active")}
        PROVE  <1>1!:
    BY <2>2 DEF Sub, Rows, Subscription, Session, Raise, Events
  <2> QED
    BY <2>1, <2>2 DEF Init, Init0
<1>2. SubTypes
  <2>1. requests \in 0 .. MaxRequests
    BY SubscriptionsAssumption DEF Init, Init0
  <2> QED
    BY <1>1, <2>1, NoRowFields DEF Init, Init0, SubTypes
<1>3. RowsTrue
  BY <1>1 DEF Init, Init0, RowsTrue, WasCommitted, Held
<1>4. \A w \in Workers : Progress(w)
  BY NoRowFields DEF Init, Init0, WasCommitted, Progress, Canceling, Opened
<1>5. EventsTrue /\ PaymentFound /\ marked \subseteq handled /\ handled \subseteq sent
  BY <1>1 DEF Init, Init0, EventsTrue, PaymentFound
<1>6. OneCheckout
  BY DEF Init, Init0, OneCheckout, Opened
<1>7. SetInv
  BY DEF Init, Init0, SetInv, Settings, Defaults, SettingsNeedPremium, AtSettings
<1> QED
  BY <1>2, <1>3, <1>4, <1>5, <1>6, <1>7 DEF IInv, SubInv

\* Every step keeps the invariant.
LEMMA NextInv == IInv /\ [Next]_vars => IInv'
<1> SUFFICES ASSUME IInv, [Next]_vars PROVE IInv'
  OBVIOUS
<1>1. ASSUME NEW w \in Workers, RequestStep(w) PROVE IInv'
  BY <1>1, RequestStepInv
<1>2. ASSUME NEW w \in Workers, SettingsStep(w) PROVE IInv'
  BY <1>2, LoadSettingsInv, KeepSettingsInv, LookUpSettingsInv, SaveSettingsInv,
     DropSettingsInv DEF SettingsStep
<1>3. CASE Around /\ UNCHANGED <<ai, base, copy>>
  <2>1. SubInv'
    BY <1>3, AroundInv DEF IInv
  <2>2. UNCHANGED <<committed, pc, job>>
    BY <1>3 DEF Around, Pay, PayInvoice, FailToPay, EndSubscription, Expire, reqs
  <2>3. SetInv'
    BY <1>3, <2>2 DEF IInv, SetInv, AtSettings, SettingsNeedPremium, ai, WasPremium
  <2> QED
    BY <2>1, <2>3 DEF IInv
<1>4. CASE SettingsExpire \/ UNCHANGED vars
  <2>1. /\ UNCHANGED <<subVars, settings, base, copy>>
        /\ cachedSettings' \in {cachedSettings, Missing}
    BY <1>4 DEF SettingsExpire, vars, ai
  <2>2. SubInv'
    <3>1. UNCHANGED <<row, committed, replaced, cached, stripe, ending, sent, handled, marked, requests, reqs>>
      BY <2>1 DEF subVars, subs
    <3>2. SubTypes'
      BY <3>1 DEF IInv, SubInv, SubTypes, reqs
    <3>3. \A c \in Checkouts : Over(c) => Over(c)'
      BY <3>1 DEF Over
    <3>4. EventsTrue'
      BY <3>1 DEF IInv, SubInv, EventsTrue
    <3> QED
      BY <3>1, <3>2, <3>3, <3>4, OutsideInv DEF IInv
  <2>3. UNCHANGED <<committed, pc, job>>
    BY <2>1 DEF subVars, subs, reqs
  <2>4. SetInv'
    BY <2>1, <2>3 DEF IInv, SetInv, AtSettings, SettingsNeedPremium, Settings, WasPremium
  <2> QED
    BY <2>2, <2>4 DEF IInv
<1> QED
  BY <1>1, <1>2, <1>3, <1>4 DEF Next

\* The inductive invariant holds in every reachable state of AISettings, for any
\* number of threads, checkouts and toggles and any bounds.
THEOREM Invariance == Spec => []IInv
<1> QED
  BY InitInv, NextInv, PTL DEF Spec

\* Every variable keeps its type, and a request that has ended holds nothing.
THEOREM TypeCorrect == Spec => []TypeOK
<1>1. IInv => TypeOK
  BY DEF IInv, SubInv, SubTypes, SetInv, AtSettings, TypeOK
<1> QED
  BY <1>1, Invariance, PTL

\* The cached subscription is a row that was committed, in every column:
\* get_subscription and create_or_update cache what they read after a commit.
THEOREM CacheIsBehind == Spec => []CacheNeverAhead
<1>1. IInv => CacheNeverAhead
  BY DEF IInv, SubInv, RowsTrue, WasCommitted, CacheNeverAhead
<1> QED
  BY <1>1, Invariance, PTL

\* Only a commit changes the row, and what it may set to canceled.
LEMMA CanceledStep ==
  ASSUME IInv, Next, row.status # "canceled", row'.status = "canceled"
  PROVE  \E w \in Workers :
           /\ pc'[w] # pc[w]
           /\ \/ EndedAtStripe(loaded[w].ref)
              \/ job[w] = "upgrade" /\ loaded[w].status # wanted[w].status
<1>1. row' # row
  OBVIOUS
<1>2. ~ Around /\ ~ SettingsExpire /\ \A w \in Workers : ~ SettingsStep(w)
  BY <1>1 DEF Around, Pay, PayInvoice, FailToPay, EndSubscription, Expire, SettingsExpire,
              SettingsStep, ReadSettings, GetSettings, KeepSettings, LookUpSettings, SaveSettings,
              DropSettings, subVars, subs
<1>3. PICK w \in Workers : SubStep(w)
  BY <1>2 DEF Next, RequestStep
<1>4. (Save(w) /\ Store(loaded[w], wanted[w])) \/ Apply(w)
  BY <1>1, <1>3 DEF SubStep, Subscribe, Query, Save, Refresh, Keep, Get, Modify, ModifyFails, GetAgain,
                    Webhook, Mark, Abort, subs
<1>5. /\ Progress(w) /\ row \in Rows /\ loaded[w] \in Rows /\ wanted[w] \in Rows
      /\ pc \in [Workers -> {"idle", "query", "save", "refresh", "keep", "modify", "again",
                          "apply", "mark", "settings", "change", "drop", "keepsettings"}]
  BY DEF IInv, SubInv, SubTypes
<1>6. CASE Save(w) /\ Store(loaded[w], wanted[w])
  <2>1. wanted[w].status = "canceled" /\ loaded[w].status # "canceled"
    BY <1>5, <1>6, AssignFields DEF Store
  <2>2. pc[w] = "save" /\ pc'[w] # "save"
    BY <1>5, <1>6 DEF Save, At, Goto, End
  <2>3. job[w] # "upgrade" => EndedAtStripe(loaded[w].ref)
    BY <1>5, <2>1, <2>2 DEF Progress, Canceling, Over, EndedAtStripe
  <2> QED
    BY <2>1, <2>2, <2>3
<1>7. CASE Apply(w)
  <2> DEFINE n == Applied(event[w], loaded[w])
  <2>1. /\ pc[w] = "apply" /\ pc'[w] = "mark" /\ row' = Assign(loaded[w], n, row)
        /\ event[w] \in sent /\ event[w] \in Events /\ Concerns(event[w], loaded[w])
    BY <1>5, <1>7 DEF Apply, At, Goto, Store, Progress, IInv, SubInv, SubTypes
  <2>2. n \in Rows /\ (n.status = "canceled" => event[w].type = "deleted")
    BY <1>5, <2>1, AppliedFields
  <2> HIDE DEF n
  <2>3. n.status = "canceled"
    BY <1>5, <2>1, <2>2, AssignFields
  <2>4. EndedAtStripe(loaded[w].ref)
    BY <2>1, <2>2, <2>3, EventFields DEF IInv, SubInv, EventsTrue, Concerns, EndedAtStripe
  <2> QED
    BY <2>1, <2>4
<1> QED
  BY <1>4, <1>6, <1>7

\* A row becomes canceled only by a request that found in it a subscription that
\* Stripe has ended or was told to end, or whose client sent this status: /cancel
\* goes on with the row it loaded before it told Stripe, and the event of a deletion
\* is applied to a row with that subscription's id.
THEOREM CanceledIsTold == Spec => CanceledAtStripe
<1>1. IInv /\ [Next]_vars =>
        [row.status # "canceled" /\ row'.status = "canceled" =>
           \E w \in Workers :
             /\ pc'[w] # pc[w]
             /\ \/ EndedAtStripe(loaded[w].ref)
                \/ job[w] = "upgrade" /\ loaded[w].status # wanted[w].status]_vars
  BY CanceledStep DEF vars
<1> QED
  BY <1>1, Invariance, PTL DEF Spec, CanceledAtStripe

\* Once a completed checkout is handled its subscription is in the row, or its id was
\* overwritten by another: the id of a session the user was told was committed, and a
\* request that does not write an id leaves the row's to what it is at the commit.
THEOREM PaymentIsFound == Spec => []PaymentFound
<1>1. IInv => PaymentFound
  BY DEF IInv, SubInv
<1> QED
  BY <1>1, Invariance, PTL

\* The settings of a user who never was premium are the defaults.
THEOREM SettingsArePremium == Spec => []SettingsNeedPremium
<1>1. IInv => SettingsNeedPremium
  BY DEF IInv, SetInv
<1> QED
  BY <1>1, Invariance, PTL

\* An event is marked only after its effect was committed, or it concerned no row.
THEOREM MarkedWasHandled == Spec => []MarkedIsHandled
<1>1. IInv => MarkedIsHandled
  BY DEF IInv, SubInv, MarkedIsHandled
<1> QED
  BY <1>1, Invariance, PTL

=============================================================================
