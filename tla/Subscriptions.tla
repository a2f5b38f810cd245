--------------------------- MODULE Subscriptions ---------------------------
(***************************************************************************)
(* The subscription of one user and the events Stripe sends about it       *)
(* (app/subscriptions: routes/api.py, services/service.py,                 *)
(* repositories/repository.py).                                            *)
(*                                                                         *)
(* Three parties write: requests of the user, webhook deliveries, and      *)
(* Stripe, which repeats an event until it is answered, in any order.  A   *)
(* save commits at once and writes only the columns that differ from what  *)
(* the request loaded.  Dates are left out: no step depends on one.        *)
(***************************************************************************)
EXTENDS Integers, FiniteSets

CONSTANTS
  Workers,     \* the server threads a request can run in
  Checkouts,   \* Stripe checkout sessions, each with the subscription it leads to
  NoRef,       \* stripe_id is NULL, or left out of a request
  OtherRef,    \* a stripe_id that is none of the user's checkouts
  PriceId,     \* the Stripe price of the premium plan, which is not a plan_type
  NoEvent,     \* the request is not a webhook delivery
  Bodies,      \* what a client sends; "none" and NoRef are left out
  MaxRequests, \* the bound on the user's requests
  MaxEvents    \* the bound on the events Stripe raises

ASSUME SubscriptionsAssumption ==
  /\ MaxRequests \in Nat /\ MaxEvents \in Nat
  /\ PriceId \notin {"none", "free", "premium"} /\ NoRef # OtherRef
  /\ {NoRef, OtherRef} \cap ({"session", "subscription"} \X Checkouts) = {}

VARIABLES
  row,         \* the committed row of user_subscriptions
  committed,   \* the rows that have been committed so far (history)
  replaced,    \* checkouts whose id the row held until another was written (history)
  cached,      \* subscriptions:<user id>; NoRow is no entry
  stripe,      \* what Stripe knows of each checkout
  ending,      \* subscriptions Stripe was told to end (cancel_at_period_end)
  sent,        \* events Stripe has raised
  handled,     \* events whose effect was committed, or that concern no row (history)
  marked,      \* events with an entry stripe:event:<id>, which outlives Stripe's repeats
  requests,    \* how many requests the user has made
  pc,          \* what each request does next
  job,         \* the route each request runs
  loaded,      \* the row each request has loaded
  wanted,      \* the row each request is about to save
  event        \* the event each webhook delivery carries

subs == <<row, committed, replaced, cached, stripe, ending, sent, handled, marked, requests>>
reqs == <<pc, job, loaded, wanted, event>>
subVars == <<subs, reqs>>

-----------------------------------------------------------------------------
Session(c) == <<"session", c>>
Subscription(c) == <<"subscription", c>>

Sub(plan, status, ref) == [plan |-> plan, status |-> status, ref |-> ref]
NoRow == Sub("none", "none", NoRef)
Pending(c) == Sub("premium", "pending", Session(c))

\* "free" stands for every plan_type but the premium plan and its price.
Rows == [plan : {"none", "free", "premium", PriceId},
         status : {"none", "pending", "active", "past_due", "canceled"},
         ref : {NoRef, OtherRef} \cup ({"session", "subscription"} \X Checkouts)]

ASSUME BodiesAssumption == Bodies \subseteq Rows

Premium(r) == r.plan = "premium" /\ r.status = "active"
WasPremium == \E r \in committed : Premium(r)

\* The events Stripe raises.
Raise(type, c, status) == [type |-> type, of |-> c, status |-> status]

Events ==
  {Raise(k, c, "active") : k \in {"completed", "paid", "updated"}, c \in Checkouts}
    \cup {Raise(k, c, "past_due") : k \in {"failed", "updated"}, c \in Checkouts}
    \cup {Raise("deleted", c, "canceled") : c \in Checkouts}

\* The user has no subscription yet, or has paid one, and Stripe was answered.
Init0 ==
  /\ \/ row = NoRow /\ stripe = [c \in Checkouts |-> "none"] /\ sent = {}
     \/ \E c \in Checkouts : /\ row = Sub("premium", "active", Subscription(c))
                             /\ stripe = [d \in Checkouts |-> IF d = c THEN "active" ELSE "none"]
                             /\ sent = {Raise("completed", c, "active")}
  /\ committed = {row} \ {NoRow} /\ replaced = {} /\ cached = NoRow
  /\ ending = {} /\ handled = sent /\ marked = sent
  /\ requests = 0
  /\ pc = [w \in Workers |-> "idle"]
  /\ job = [w \in Workers |-> "none"]
  /\ loaded = [w \in Workers |-> NoRow]
  /\ wanted = [w \in Workers |-> NoRow]
  /\ event = [w \in Workers |-> NoEvent]

At(w, from) == pc[w] = from
Goto(w, to) == pc' = [pc EXCEPT ![w] = to]
Load(w, r) == loaded' = [loaded EXCEPT ![w] = r]
Want(w, r) == wanted' = [wanted EXCEPT ![w] = r]
Serve(w, route) == At(w, "idle") /\ job' = [job EXCEPT ![w] = route]

\* The user sends a request.
Request(w, route) ==
  /\ requests < MaxRequests
  /\ requests' = requests + 1
  /\ Serve(w, route)

\* Mutant: the session is kept for the next request.
EndKeepingSession(w) ==
  /\ Goto(w, "idle")
  /\ job' = [job EXCEPT ![w] = "none"]
  /\ event' = [event EXCEPT ![w] = NoEvent]
  /\ UNCHANGED <<loaded, wanted>>

\* The request is answered, or fails; its session is removed.
End(w) ==
  /\ Goto(w, "idle")
  /\ job' = [job EXCEPT ![w] = "none"]
  /\ Load(w, NoRow)
  /\ Want(w, NoRow)
  /\ event' = [event EXCEPT ![w] = NoEvent]

-----------------------------------------------------------------------------
\* SubscriptionsRepository.create_or_update: the row is looked up ...
Query(w) ==
  /\ At(w, "query")
  /\ Load(w, row)
  /\ Goto(w, "save")
  /\ UNCHANGED <<subs, job, wanted, event>>

\* Mutant: the UPDATE sets every column.
AssignAll(old, new, r) == new

\* What an UPDATE makes of row r: it sets the columns in which new differs from
\* what was loaded.
Assign(old, new, r) == [k \in DOMAIN r |-> IF new[k] # old[k] THEN new[k] ELSE r[k]]

\* The checkouts whose id is overwritten, but not by the subscription they led to.
Overwritten(old, new) ==
  {c \in Checkouts : /\ new.ref # old.ref
                     /\ row.ref \in {Session(c), Subscription(c)}
                     /\ new.ref # Subscription(c)}

\* A session that has loaded old commits new.
Store(old, new) ==
  /\ row' = Assign(old, new, row)
  /\ committed' = committed \cup {row'}
  /\ replaced' = replaced \cup Overwritten(old, new)

\* ... and updated or inserted, and committed.  user_id is unique: an INSERT fails
\* when the row has come to exist since the look-up.
Save(w) ==
  /\ At(w, "save")
  /\ IF loaded[w] = NoRow /\ row # NoRow
     THEN End(w) /\ UNCHANGED <<row, committed, replaced>>
     ELSE /\ Store(loaded[w], wanted[w])
          /\ Goto(w, "refresh")
          /\ Load(w, NoRow)
          /\ UNCHANGED <<job, wanted, event>>
  /\ UNCHANGED <<cached, stripe, ending, sent, handled, marked, requests>>

\* db.refresh: the row is read again.
Refresh(w) ==
  /\ At(w, "refresh")
  /\ Load(w, row)
  /\ Goto(w, "keep")
  /\ UNCHANGED <<subs, job, wanted, event>>

\* What the client can send: of the ids of checkouts, those its row has held.
Sendable == {u \in Bodies : u.ref \in {NoRef, OtherRef} \cup {r.ref : r \in committed}}

\* Mutant: update_settings does not ask is_premium.
AfterGetAskingNothing(w) ==
  IF job[w] = "settings"
  THEN Goto(w, "settings") /\ UNCHANGED <<job, loaded, wanted, event>>
  ELSE End(w)

\* What update_subscription makes of row r: it sets the fields that are given.
Updated(r, u) ==
  Sub(IF u.plan = "none" THEN r.plan ELSE u.plan,
      IF u.status = "none" THEN r.status ELSE u.status,
      IF u.ref = NoRef THEN r.ref ELSE u.ref)

\* What follows get_subscription in each route that goes on with the row.  job
\* "cancelling" is the second call, in the update_subscription of /cancel.
AfterGet(w) ==
  CASE job[w] = "upgrade" ->
         (\E u \in Sendable : Want(w, Updated(loaded[w], u)))
           /\ Goto(w, "save") /\ UNCHANGED <<job, loaded, event>>
    [] job[w] = "cancel" /\ loaded[w].plan = "premium" ->
         Goto(w, "modify") /\ UNCHANGED <<job, loaded, wanted, event>>
    [] job[w] = "cancelling" ->
         Want(w, [loaded[w] EXCEPT !.status = "canceled"])
           /\ Goto(w, "save") /\ UNCHANGED <<job, loaded, event>>
    [] job[w] = "settings" /\ Premium(loaded[w]) ->
         Goto(w, "settings") /\ UNCHANGED <<job, loaded, wanted, event>>
    [] OTHER -> End(w)

\* _cache_subscription; a row that was saved is then answered, or the id of the
\* checkout session.
Keep(w) ==
  /\ At(w, "keep")
  /\ cached' = loaded[w]
  /\ IF wanted[w] = NoRow THEN AfterGet(w) ELSE End(w)
  /\ stripe' = [c \in Checkouts |-> IF job[w] = "subscribe" /\ wanted[w] = Pending(c)
                                   THEN "offered" ELSE stripe[c]]
  /\ UNCHANGED <<row, committed, replaced, ending, sent, handled, marked, requests>>

\* Mutant: the row is cached before it is committed.
SubscribeCaching(w) ==
  /\ Request(w, "subscribe")
  /\ \/ /\ \E u \in Sendable : /\ Want(w, Sub("free", "active", u.ref))
                               /\ cached' = Sub("free", "active", u.ref)
        /\ UNCHANGED stripe
     \/ \E c \in Checkouts : /\ stripe[c] = "none"
                             /\ stripe' = [stripe EXCEPT ![c] = "open"]
                             /\ Want(w, Pending(c)) /\ cached' = Pending(c)
  /\ Goto(w, "query")
  /\ UNCHANGED <<row, committed, replaced, ending, sent, handled, marked, loaded, event>>

\* POST /subscribe.  A premium plan opens a checkout session at Stripe, and its id
\* is kept until the subscription has one; with another plan the client may send
\* an id.
Subscribe(w) ==
  /\ Request(w, "subscribe")
  /\ \/ (\E u \in Sendable : Want(w, Sub("free", "active", u.ref))) /\ UNCHANGED stripe
     \/ \E c \in Checkouts : /\ stripe[c] = "none"
                             /\ stripe' = [stripe EXCEPT ![c] = "open"]
                             /\ Want(w, Pending(c))
  /\ Goto(w, "query")
  /\ UNCHANGED <<row, committed, replaced, cached, ending, sent, handled, marked, loaded, event>>

\* GET /status, POST /upgrade, POST /cancel and the is_premium of the AI settings
\* begin with get_subscription, which loads the row and caches it.  With a cache
\* entry they fail, and change nothing: the entry holds _sa_instance_state, which
\* the constructor refuses.
Get(w) ==
  /\ row # NoRow
  /\ cached = NoRow
  /\ \E route \in {"status", "upgrade", "cancel", "settings"} : Request(w, route)
  /\ Load(w, row)
  /\ Goto(w, "keep")
  /\ UNCHANGED <<row, committed, replaced, cached, stripe, ending, sent, handled, marked, wanted, event>>

-----------------------------------------------------------------------------
\* Stripe raises an event, up to the bound.  One that is not delivered as long as the
\* model runs may be left out.
Raises(type, c, status) ==
  sent' \in {sent} \cup {s \in {sent \cup {Raise(type, c, status)}} : Cardinality(s) <= MaxEvents}

Modifiable(ref) ==
  {c \in Checkouts : ref = Subscription(c) /\ stripe[c] \in {"active", "past_due"}}

\* Mutant: the row is updated without telling Stripe.
ModifyNothing(w) ==
  /\ At(w, "modify")
  /\ Modifiable(loaded[w].ref) # {}
  /\ job' = [job EXCEPT ![w] = "cancelling"]
  /\ Goto(w, "again")
  /\ UNCHANGED <<subs, loaded, wanted, event>>

\* stripe.Subscription.modify, which refuses the id of a session.
Modify(w) ==
  /\ At(w, "modify")
  /\ \E c \in Modifiable(loaded[w].ref) :
       /\ ending' = ending \cup {c}
       /\ IF c \in ending THEN UNCHANGED sent ELSE Raises("updated", c, stripe[c])
  /\ job' = [job EXCEPT ![w] = "cancelling"]
  /\ Goto(w, "again")
  /\ UNCHANGED <<row, committed, replaced, cached, stripe, handled, marked, requests, loaded, wanted, event>>

ModifyFails(w) ==
  /\ At(w, "modify")
  /\ Modifiable(loaded[w].ref) = {}
  /\ End(w)
  /\ UNCHANGED subs

\* update_subscription calls get_subscription a second time.  It finds the entry
\* that the first call made, and fails, unless the entry has gone meanwhile: then
\* the session still has the row as it was loaded before.
GetAgain(w) ==
  /\ At(w, "again")
  /\ IF cached # NoRow
     THEN End(w)
     ELSE Goto(w, "keep") /\ UNCHANGED <<job, loaded, wanted, event>>
  /\ UNCHANGED subs

-----------------------------------------------------------------------------
\* The row an event concerns: a completed checkout is looked up by its session,
\* the others by the subscription.
Concerns(e, r) ==
  r.ref = IF e.type = "completed" THEN Session(e.of) ELSE Subscription(e.of)

\* What handle_webhook makes of the row.
Applied(e, r) ==
  CASE e.type = "completed" -> [r EXCEPT !.status = "active", !.ref = Subscription(e.of)]
    [] e.type = "paid"      -> [r EXCEPT !.status = "active"]
    [] e.type = "failed"    -> [r EXCEPT !.status = "past_due"]
    [] e.type = "updated"   -> [r EXCEPT !.status = e.status, !.plan = PriceId]
    [] e.type = "deleted"   -> [r EXCEPT !.status = "canceled"]

\* Mutant: the event is marked at once.
WebhookMarking(w, e) ==
  /\ e \in sent \ marked
  /\ Serve(w, "webhook")
  /\ event' = [event EXCEPT ![w] = e]
  /\ IF Concerns(e, row)
     THEN Goto(w, "apply") /\ Load(w, row) /\ UNCHANGED handled
     ELSE Goto(w, "mark") /\ handled' = handled \cup {e} /\ UNCHANGED loaded
  /\ marked' = marked \cup {e}
  /\ UNCHANGED <<row, committed, replaced, cached, stripe, ending, sent, requests, wanted>>

\* POST /stripe-webhook.  A marked event is answered and changes nothing.  Otherwise
\* the row it concerns is loaded, if there is one.
Webhook(w, e) ==
  /\ e \in sent \ marked
  /\ Serve(w, "webhook")
  /\ event' = [event EXCEPT ![w] = e]
  /\ IF Concerns(e, row)
     THEN Goto(w, "apply") /\ Load(w, row) /\ UNCHANGED handled
     ELSE Goto(w, "mark") /\ handled' = handled \cup {e} /\ UNCHANGED loaded
  /\ UNCHANGED <<row, committed, replaced, cached, stripe, ending, sent, marked, requests, wanted>>

\* It is changed and saved; the cached row is not.
Apply(w) ==
  /\ At(w, "apply")
  /\ Store(loaded[w], Applied(event[w], loaded[w]))
  /\ handled' = handled \cup {event[w]}
  /\ Goto(w, "mark")
  /\ Load(w, NoRow)
  /\ UNCHANGED <<cached, stripe, ending, sent, marked, requests, job, wanted, event>>

\* The event is marked, after the commit, and answered.
Mark(w) ==
  /\ At(w, "mark")
  /\ marked' = marked \cup {event[w]}
  /\ End(w)
  /\ UNCHANGED <<row, committed, replaced, cached, stripe, ending, sent, handled, requests>>

-----------------------------------------------------------------------------
\* The user pays in the checkout whose id the answer to /subscribe carried.
Pay ==
  \E c \in Checkouts :
    /\ stripe[c] = "offered"
    /\ stripe' = [stripe EXCEPT ![c] = "active"]
    /\ Raises("completed", c, "active")
    /\ UNCHANGED <<row, committed, replaced, cached, ending, handled, marked, requests, reqs>>

\* The invoice of a period is paid ...
PayInvoice ==
  \E c \in Checkouts :
    /\ stripe[c] \in {"active", "past_due"}
    /\ stripe' = [stripe EXCEPT ![c] = "active"]
    /\ Raises("paid", c, "active")
    /\ UNCHANGED <<row, committed, replaced, cached, ending, handled, marked, requests, reqs>>

\* ... or not.
FailToPay ==
  \E c \in Checkouts :
    /\ stripe[c] = "active"
    /\ stripe' = [stripe EXCEPT ![c] = "past_due"]
    /\ Raises("failed", c, "past_due") \/ Raises("updated", c, "past_due")
    /\ UNCHANGED <<row, committed, replaced, cached, ending, handled, marked, requests, reqs>>

\* A subscription ends: at the end of its period, or because it was not paid.
EndSubscription ==
  \E c \in Checkouts :
    /\ \/ stripe[c] = "past_due"
       \/ stripe[c] = "active" /\ c \in ending
    /\ stripe' = [stripe EXCEPT ![c] = "deleted"]
    /\ Raises("deleted", c, "canceled")
    /\ UNCHANGED <<row, committed, replaced, cached, ending, handled, marked, requests, reqs>>

\* The database or the cache fails, or the server stops.
Abort(w) ==
  /\ ~ At(w, "idle")
  /\ End(w)
  /\ UNCHANGED subs

\* The entry times out, after a day, or is evicted.
Expire ==
  /\ cached # NoRow
  /\ cached' = NoRow
  /\ UNCHANGED <<row, committed, replaced, stripe, ending, sent, handled, marked, requests, reqs>>

SubStep(w) ==
  \/ Subscribe(w) \/ Query(w) \/ Save(w) \/ Refresh(w) \/ Keep(w) \/ Get(w)
  \/ Modify(w) \/ ModifyFails(w) \/ GetAgain(w)
  \/ (\E e \in Events : Webhook(w, e)) \/ Apply(w) \/ Mark(w) \/ Abort(w)

\* What happens outside the requests.
Around == Pay \/ PayInvoice \/ FailToPay \/ EndSubscription \/ Expire

=============================================================================
