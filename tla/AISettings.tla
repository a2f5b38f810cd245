----------------------------- MODULE AISettings -----------------------------
(***************************************************************************)
(* The AI settings of the user of module Subscriptions (app/features),     *)
(* which only a premium user may change.  A settings row is the set of the *)
(* toggles that are off: all are on by default.                            *)
(***************************************************************************)
EXTENDS Subscriptions

CONSTANTS
  Toggles,     \* the fields of AISettingsUpdate
  Missing      \* no settings row, no cache entry, or nothing loaded

ASSUME MissingAssumption == \A s \in SUBSET Toggles : s # Missing

VARIABLES
  settings,         \* the committed row of user_ai_settings, or Missing
  cachedSettings,   \* features:ai_settings:<user id>
  base,             \* the settings row each request's session holds
  copy              \* the settings each request works on, when they are not that row

ai == <<settings, cachedSettings>>
vars == <<subVars, ai, base, copy>>

Fresh(w) == base' = [base EXCEPT ![w] = Missing] /\ copy' = [copy EXCEPT ![w] = Missing]

\* A new row: every toggle is on.
Defaults == {}

\* Signup commits the defaults; the account made by an Apple sign-in has none
\* (AppleSettle in module Account).
Init ==
  /\ Init0
  /\ settings \in {Missing, Defaults}
  /\ cachedSettings = Missing
  /\ base = [w \in Workers |-> Missing]
  /\ copy = [w \in Workers |-> Missing]

\* get_settings finds no entry and loads the row; without one it fails.
LoadSettings(w) ==
  /\ cachedSettings = Missing
  /\ settings # Missing
  /\ base' = [base EXCEPT ![w] = settings]
  /\ Goto(w, "keepsettings")

\* GET /ai-settings; with a cache entry it changes nothing.
ReadSettings(w) ==
  /\ Request(w, "read")
  /\ LoadSettings(w)
  /\ UNCHANGED <<row, committed, replaced, cached, stripe, ending, sent, handled, marked, ai, loaded, wanted, event, copy>>

\* POST /ai-settings of a premium user.  Settings from the cache are a detached copy.
GetSettings(w) ==
  /\ At(w, "settings")
  /\ \/ LoadSettings(w) /\ UNCHANGED <<job, loaded, wanted, event, copy>>
     \/ /\ cachedSettings # Missing
        /\ copy' = [copy EXCEPT ![w] = cachedSettings]
        /\ Goto(w, "change")
        /\ UNCHANGED <<job, loaded, wanted, event, base>>
     \/ /\ cachedSettings = Missing
        /\ settings = Missing
        /\ End(w)
        /\ UNCHANGED <<base, copy>>
  /\ UNCHANGED <<subs, ai>>

\* _cache_settings: after a look-up, and after an update.
KeepSettings(w) ==
  /\ At(w, "keepsettings")
  /\ cachedSettings' = base[w]
  /\ IF job[w] = "settings"
     THEN Goto(w, "change") /\ UNCHANGED <<job, loaded, wanted, event, base, copy>>
     ELSE End(w) /\ Fresh(w)
  /\ UNCHANGED <<subs, settings>>

\* What an UPDATE makes of s, old being what was loaded.
AssignToggles(old, new, s) == (s \ (old \ new)) \cup (new \ old)

\* With a detached copy, the row it is to be compared with is looked up.
LookUpSettings(w) ==
  /\ At(w, "change")
  /\ base[w] = Missing
  /\ base' = [base EXCEPT ![w] = settings]
  /\ UNCHANGED <<subs, ai, reqs, copy>>

\* One toggle is changed, and the row saved and committed: the columns in which
\* the settings the request works on differ from the row its session holds.
SaveSettings(w) ==
  /\ At(w, "change")
  /\ base[w] # Missing
  /\ \E t \in Toggles :
       LET work == IF copy[w] = Missing THEN base[w] ELSE copy[w]
           new  == IF t \in work THEN work \ {t} ELSE work \cup {t}
       IN  settings' = AssignToggles(base[w], new, settings)
  /\ Goto(w, "drop")
  /\ UNCHANGED <<subs, cachedSettings, job, loaded, wanted, event, base, copy>>

\* The row is read again, the entry deleted, and then made anew.
DropSettings(w) ==
  /\ At(w, "drop")
  /\ base' = [base EXCEPT ![w] = settings]
  /\ job' = [job EXCEPT ![w] = "saved"]
  /\ cachedSettings' = Missing
  /\ Goto(w, "keepsettings")
  /\ UNCHANGED <<subs, settings, loaded, wanted, event, copy>>

\* The entry times out, after an hour.
SettingsExpire ==
  /\ cachedSettings # Missing
  /\ cachedSettings' = Missing
  /\ UNCHANGED <<subVars, settings, base, copy>>

SettingsStep(w) ==
  \/ ReadSettings(w) \/ GetSettings(w) \/ KeepSettings(w)
  \/ LookUpSettings(w) \/ SaveSettings(w) \/ DropSettings(w)

\* A step of module Subscriptions; a request that ends takes its session with it.
RequestStep(w) ==
  /\ SubStep(w)
  /\ IF pc'[w] = "idle" THEN Fresh(w) ELSE UNCHANGED <<base, copy>>
  /\ UNCHANGED ai

Next ==
  \/ \E w \in Workers : RequestStep(w) \/ SettingsStep(w)
  \/ Around /\ UNCHANGED <<ai, base, copy>>
  \/ SettingsExpire

Spec == Init /\ [][Next]_vars

-----------------------------------------------------------------------------
Settings == {Missing} \cup SUBSET Toggles

\* The type of every variable; a request that has ended holds nothing.
TypeOK ==
  /\ row \in Rows /\ cached \in Rows /\ committed \subseteq Rows /\ replaced \subseteq Checkouts
  /\ stripe \in [Checkouts -> {"none", "open", "offered", "active", "past_due", "deleted"}]
  /\ ending \subseteq Checkouts
  /\ sent \cup handled \cup marked \subseteq Events
  /\ pc \in [Workers -> {"idle", "query", "save", "refresh", "keep", "modify", "again",
                          "apply", "mark", "settings", "change", "drop", "keepsettings"}]
  /\ job \in [Workers -> {"none", "subscribe", "status", "upgrade", "cancel", "cancelling",
                           "webhook", "settings", "read", "saved"}]
  /\ loaded \in [Workers -> Rows] /\ wanted \in [Workers -> Rows]
  /\ event \in [Workers -> Events \cup {NoEvent}]
  /\ requests \in 0 .. MaxRequests
  /\ settings \in Settings /\ cachedSettings \in Settings
  /\ base \in [Workers -> Settings] /\ copy \in [Workers -> Settings]
  /\ \A w \in Workers :
       pc[w] = "idle" => /\ job[w] = "none" /\ loaded[w] = NoRow /\ wanted[w] = NoRow
                         /\ event[w] = NoEvent /\ base[w] = Missing /\ copy[w] = Missing

\* The cached subscription may be a day behind the table, but it is never ahead: it
\* is a row that was committed, the same in every column, never what a save that
\* failed or was not made yet wanted.
CacheNeverAhead == cached \in committed \cup {NoRow}

EndedAtStripe(ref) ==
  \E c \in Checkouts : ref = Subscription(c) /\ (c \in ending \/ stripe[c] = "deleted")

\* A row becomes canceled only by a request that loaded it with a subscription Stripe
\* has ended or was told to end, that very one and not another of the user's, or
\* by a client that sent this status to /upgrade.  (Another request may have written
\* another id between that load and the save.)
CanceledAtStripe ==
  [][row.status # "canceled" /\ row'.status = "canceled" =>
       \E w \in Workers :
         /\ pc'[w] # pc[w]
         /\ \/ EndedAtStripe(loaded[w].ref)
            \/ job[w] = "upgrade" /\ loaded[w].status # wanted[w].status]_vars

\* Once the completed checkout of a payment has been handled the row has its
\* subscription, whatever upgrade, cancellation or event had loaded the row before
\* and saves it after, unless some request wrote another id over the one the row
\* held for this checkout: then the payment never reaches the row, or is lost to it.
PaymentFound ==
  \A e \in handled :
    e.type = "completed" => row.ref = Subscription(e.of) \/ e.of \in replaced

\* The AI settings, in the table and in the cache, stay the defaults until a row by
\* which the user is premium has been committed: none that a save only wants, or
\* that failed, opens them.  Afterwards nothing is said: premium may have ended.
SettingsNeedPremium ==
  ~ WasPremium => {settings, cachedSettings} \subseteq {Missing, Defaults}

\* An event is not lost: it is marked, and from then on its repeats are ignored, only
\* when its effect is committed or it concerned no row, however deliveries overlap
\* and fail on the way.
MarkedIsHandled == marked \subseteq handled
=============================================================================
