------------------------------ MODULE Account ------------------------------
(***************************************************************************)
(* The account of one e-mail address: signup, e-mail verification, login,  *)
(* Apple sign-in and password reset (app/auth/routes/api.py,               *)
(* app/auth/session_manager, app/auth/email_verification).                 *)
(*                                                                         *)
(* Three stores are written at different moments: PostgreSQL at the        *)
(* route's commit, the cache at once, and the mailbox at once.  What a     *)
(* route flushes and does not commit is rolled back when the request ends  *)
(* (shutdown_session in app/__init__.py); until then it holds the lock of  *)
(* the row it wrote, or, for an INSERT, of the address in the unique index.*)
(***************************************************************************)
EXTENDS Integers, FiniteSets

CONSTANTS
  Workers,               \* the server threads a request can run in
  Passwords,             \* what people type
  NoPassword,            \* the hash of an account made by Apple sign-in: ""
  Links,                 \* e-mail verification tokens, never drawn twice
  Resets,                \* password reset tokens, never drawn twice
  Apple,                 \* an Apple id token for the address
  Untouched,             \* a transaction has not written the users row
  FailedLoginThreshold   \* failed_login_threshold

ASSUME AccountAssumption ==
  /\ NoPassword \notin Passwords
  /\ Links \cap Resets = {}
  /\ Passwords \cap (Links \cup Resets) = {}   \* what is typed is no token
  /\ Apple \notin Passwords \cup Links \cup Resets
  /\ FailedLoginThreshold \in Nat \ {0}

VARIABLES
  user,      \* the committed row of the address
  links,     \* committed rows of verification_tokens
  resets,    \* committed rows of password_reset_tokens
  lapsed,    \* stored links past their expires_at
  cached,    \* auth:user:email:<email>; Absent is no entry
  checked,   \* the links with an entry auth:verification_token:<token>
  mailed,    \* tokens that left in a mail
  pc,        \* what each request does next
  given,     \* the credential each request came with
  seen,      \* the user each request works on
  txn,       \* what each request has flushed
  sessions,  \* history: the credentials session cookies were handed out for
  refused    \* history: the reset tokens that were mailed and refused within their hour

db == <<user, links, resets>>
vars == <<user, links, resets, lapsed, cached, checked, mailed, pc, given, seen, txn,
          sessions, refused>>

-----------------------------------------------------------------------------
Absent == [present |-> FALSE, verified |-> FALSE, password |-> NoPassword, failed |-> 0]

\* The row of a new account.
NewUser(verified, password) ==
  [present |-> TRUE, verified |-> verified, password |-> password, failed |-> 0]

\* A transaction: the users row it wrote, the tokens it inserted, those it deleted.
Nothing == [row |-> Untouched, added |-> {}, spent |-> {}]

\* No other transaction holds the users row or the tokens ts.
Free(w, ts) ==
  \A v \in Workers \ {w} : txn[v].row = Untouched /\ txn[v].spent \cap ts = {}

\* Tokens somebody has drawn.
Drawn == mailed \cup UNION {txn[w].added : w \in Workers}

\* The bound: a signup starts only while there is a token left for it.
LinkLeft == Cardinality({w \in Workers : pc[w] = "insert"}) < Cardinality(Links \ Drawn)

Init ==
  /\ user = Absent
  /\ links = {}
  /\ resets = {}
  /\ lapsed = {}
  /\ cached = Absent
  /\ checked = {}
  /\ mailed = {}
  /\ pc = [w \in Workers |-> "idle"]
  /\ given = [w \in Workers |-> NoPassword]
  /\ seen = [w \in Workers |-> Absent]
  /\ txn = [w \in Workers |-> Nothing]
  /\ sessions = {}
  /\ refused = {}

\* A request with credential c has found u, and goes on at label.
Begin(w, label, c, u) ==
  /\ pc[w] = "idle"
  /\ pc' = [pc EXCEPT ![w] = label]
  /\ given' = [given EXCEPT ![w] = c]
  /\ seen' = [seen EXCEPT ![w] = u]

Goto(w, from, to) == pc[w] = from /\ pc' = [pc EXCEPT ![w] = to]

\* The request has flushed these changes.
Flushed(w, row, added, spent) ==
  txn' = [txn EXCEPT ![w] = [row |-> row, added |-> added, spent |-> spent]]

\* g.db.commit()
Commit(w) ==
  /\ user' = IF txn[w].row = Untouched THEN user ELSE txn[w].row
  /\ links' = (links \cup (txn[w].added \cap Links)) \ txn[w].spent
  /\ resets' = (resets \cup (txn[w].added \cap Resets)) \ txn[w].spent
  /\ lapsed' = lapsed \ txn[w].spent

\* Mutant: the session is not removed, and its transaction stays open.
EndKeepingSession(w) ==
  /\ pc' = [pc EXCEPT ![w] = "idle"]
  /\ given' = [given EXCEPT ![w] = NoPassword]
  /\ seen' = [seen EXCEPT ![w] = Absent]
  /\ UNCHANGED txn

\* The request ends: its session is removed, with what it has not committed.
End(w) ==
  /\ pc' = [pc EXCEPT ![w] = "idle"]
  /\ given' = [given EXCEPT ![w] = NoPassword]
  /\ seen' = [seen EXCEPT ![w] = Absent]
  /\ txn' = [txn EXCEPT ![w] = Nothing]

-----------------------------------------------------------------------------
\* Requests that are refused without a change are left out: the first action of
\* each route has the conditions under which the route goes on.

\* POST /signup: the address is not taken.
SignupCheck(w) ==
  /\ ~ user.present
  /\ LinkLeft
  /\ \E p \in Passwords : Begin(w, "insert", p, user)
  /\ UNCHANGED <<db, lapsed, cached, checked, mailed, txn, sessions, refused>>

\* Mutant: no unique index on users.email.
SignupInsertOver(w) ==
  /\ Free(w, {})
  /\ Goto(w, "insert", "mail")
  /\ \E t \in Links \ Drawn :
       Flushed(w, NewUser(FALSE, given[w]), {t}, {})
  /\ cached' = Absent
  /\ UNCHANGED <<db, lapsed, checked, mailed, given, seen, sessions, refused>>

\* Mutant: the new row is cached instead of dropped from the cache.
SignupInsertCaching(w) ==
  /\ ~ user.present
  /\ Free(w, {})
  /\ Goto(w, "insert", "mail")
  /\ \E t \in Links \ Drawn :
       Flushed(w, NewUser(FALSE, given[w]), {t}, {})
  /\ cached' = NewUser(FALSE, given[w])
  /\ UNCHANGED <<db, lapsed, checked, mailed, given, seen, sessions, refused>>

\* The INSERT waits for another of the same address, and fails if that one was
\* committed; default settings and the token go into the same transaction.
SignupInsert(w) ==
  /\ ~ user.present
  /\ Free(w, {})
  /\ Goto(w, "insert", "mail")
  /\ \E t \in Links \ Drawn :
       Flushed(w, NewUser(FALSE, given[w]), {t}, {})
  /\ cached' = Absent
  /\ UNCHANGED <<db, lapsed, checked, mailed, given, seen, sessions, refused>>

\* IntegrityError: the address has been taken meanwhile.
InsertFails(w) ==
  /\ pc[w] \in {"insert", "apple"}
  /\ user.present
  /\ Free(w, {})
  /\ End(w)
  /\ UNCHANGED <<db, lapsed, cached, checked, mailed, sessions, refused>>

SignupMail(w) ==
  /\ Goto(w, "mail", "commit")
  /\ mailed' = mailed \cup txn[w].added
  /\ UNCHANGED <<db, lapsed, cached, checked, given, seen, txn, sessions, refused>>

\* Mutant: the account is kept when the mail fails.
MailFailsKeeping(w) ==
  /\ pc[w] = "mail"
  /\ Commit(w)
  /\ mailed' \in {mailed, mailed \cup txn[w].added}
  /\ End(w)
  /\ UNCHANGED <<cached, checked, sessions, refused>>

\* ServiceUnavailableError; the mail may have left all the same.
MailFails(w) ==
  /\ pc[w] = "mail"
  /\ mailed' \in {mailed, mailed \cup txn[w].added}
  /\ End(w)
  /\ UNCHANGED <<db, lapsed, cached, checked, sessions, refused>>

SignupCommit(w) ==
  /\ pc[w] = "commit"
  /\ Commit(w)
  /\ End(w)
  /\ UNCHANGED <<cached, checked, mailed, sessions, refused>>

-----------------------------------------------------------------------------
\* POST /verify: the link is not in the cache (a cached entry is a dict, on which
\* vt.user_id fails), but in the table, and has not expired.
VerifyRead(w) ==
  /\ \E t \in (mailed \cap links) \ (checked \cup lapsed) : Begin(w, "remember", t, user)
  /\ UNCHANGED <<db, lapsed, cached, checked, mailed, txn, sessions, refused>>

VerifyRemember(w) ==
  /\ Goto(w, "remember", "spend")
  /\ checked' = checked \cup {given[w]}
  /\ UNCHANGED <<db, lapsed, cached, mailed, given, seen, txn, sessions, refused>>

\* Mutant: the cache entry alone keeps a link from being used again.
VerifyKeepingLink(w) ==
  /\ Free(w, {given[w]})
  /\ Goto(w, "spend", "settle")
  /\ Flushed(w, [user EXCEPT !.verified = TRUE], {}, {})
  /\ UNCHANGED <<db, lapsed, cached, checked, mailed, given, seen, sessions, refused>>

\* The link is deleted and the row updated (UserRepository.update_verified).
VerifySpend(w) ==
  /\ Free(w, {given[w]})
  /\ Goto(w, "spend", "settle")
  /\ Flushed(w, [user EXCEPT !.verified = TRUE], {}, {given[w]})
  /\ UNCHANGED <<db, lapsed, cached, checked, mailed, given, seen, sessions, refused>>

\* The commit, and the cookies; the answer may be lost.  Nothing deletes the
\* cached row: the route goes past AuthenticationService.update_verified.
VerifyCommit(w) ==
  /\ pc[w] = "settle"
  /\ Commit(w)
  /\ sessions' \in {sessions, sessions \cup {given[w]}}
  /\ End(w)
  /\ UNCHANGED <<cached, checked, mailed, refused>>

-----------------------------------------------------------------------------
\* Mutant: a hit renews the entry.
LoginCachedRenewing(w) ==
  /\ cached.present
  /\ \E p \in Passwords : Begin(w, "fill", p, cached)
  /\ UNCHANGED <<db, lapsed, cached, checked, mailed, txn, sessions, refused>>

\* POST /login with the cached row ...
LoginCached(w) ==
  /\ cached.present
  /\ \E p \in Passwords : Begin(w, "password", p, cached)
  /\ UNCHANGED <<db, lapsed, cached, checked, mailed, txn, sessions, refused>>

\* ... or with the row in the table, which is then cached.
LoginRead(w) ==
  /\ ~ cached.present
  /\ user.present
  /\ \E p \in Passwords : Begin(w, "fill", p, user)
  /\ UNCHANGED <<db, lapsed, cached, checked, mailed, txn, sessions, refused>>

LoginFill(w) ==
  /\ Goto(w, "fill", "password")
  /\ cached' = seen[w]
  /\ UNCHANGED <<db, lapsed, checked, mailed, given, seen, txn, sessions, refused>>

\* The password is compared and failed_logins written, which the route never
\* commits: the limit is never reached.
LoginPassword(w) ==
  /\ pc[w] = "password"
  /\ IF seen[w].failed >= FailedLoginThreshold
     THEN End(w)
     ELSE /\ Free(w, {})
          /\ Goto(w, "password", "answer")
          /\ Flushed(w, [user EXCEPT !.failed = IF given[w] = seen[w].password THEN 0
                                                ELSE seen[w].failed + 1], {}, {})
          /\ UNCHANGED <<given, seen>>
  /\ UNCHANGED <<db, lapsed, cached, checked, mailed, sessions, refused>>

\* Mutant: an account need not be verified.
LoginAnswerUnverified(w) ==
  /\ pc[w] = "answer"
  /\ sessions' = IF given[w] = seen[w].password THEN sessions \cup {given[w]} ELSE sessions
  /\ End(w)
  /\ UNCHANGED <<db, lapsed, cached, checked, mailed, refused>>

\* The right password of a verified account gets the cookies, unless a second
\* factor is asked for.
LoginAnswer(w) ==
  /\ pc[w] = "answer"
  /\ \E secondFactor \in BOOLEAN :
       sessions' = IF /\ given[w] = seen[w].password
                      /\ seen[w].verified
                      /\ ~ secondFactor
                   THEN sessions \cup {given[w]} ELSE sessions
  /\ End(w)
  /\ UNCHANGED <<db, lapsed, cached, checked, mailed, refused>>

-----------------------------------------------------------------------------
\* POST /apple-signin with an account, verified or not, hands out cookies.
AppleSignIn(w) ==
  /\ pc[w] = "idle"
  /\ user.present
  /\ sessions' = sessions \cup {Apple}
  /\ UNCHANGED <<db, lapsed, cached, checked, mailed, pc, given, seen, txn, refused>>

\* Without one it makes a verified account.
AppleCheck(w) ==
  /\ ~ user.present
  /\ Begin(w, "apple", Apple, user)
  /\ UNCHANGED <<db, lapsed, cached, checked, mailed, txn, sessions, refused>>

AppleInsert(w) ==
  /\ ~ user.present
  /\ Free(w, {})
  /\ Goto(w, "apple", "applecommit")
  /\ Flushed(w, NewUser(TRUE, NoPassword), {}, {})
  /\ UNCHANGED <<db, lapsed, cached, checked, mailed, given, seen, sessions, refused>>

AppleCommit(w) ==
  /\ Goto(w, "applecommit", "applesettle")
  /\ Commit(w)
  /\ txn' = [txn EXCEPT ![w] = Nothing]
  /\ UNCHANGED <<cached, checked, mailed, given, seen, sessions, refused>>

\* Default settings, not committed; the cached row goes; the cookies.
AppleSettle(w) ==
  /\ pc[w] = "applesettle"
  /\ cached' = Absent
  /\ sessions' = sessions \cup {Apple}
  /\ End(w)
  /\ UNCHANGED <<db, lapsed, checked, mailed, refused>>

-----------------------------------------------------------------------------
\* POST /reset-password of a verified account: the token is inserted ...
RequestReset(w) ==
  /\ user.present /\ user.verified
  /\ \E t \in Resets \ Drawn :
       /\ Begin(w, "resetmail", t, user)
       /\ Flushed(w, Untouched, {t}, {})
  /\ UNCHANGED <<db, lapsed, cached, checked, mailed, sessions, refused>>

\* ... and mailed.  The route ends without a commit, and so it does when the mail
\* fails (Abort).
ResetMail(w) ==
  /\ pc[w] = "resetmail"
  /\ mailed' = mailed \cup txn[w].added
  /\ End(w)
  /\ UNCHANGED <<db, lapsed, cached, checked, sessions, refused>>

\* validate_reset_token, within the token's hour.
ValidReset(t) == t \in resets

\* POST /reset-password/confirm within the token's hour.  With a stored token it
\* would write the password, delete the token, drop the cached row and hand out
\* cookies, again without a commit; otherwise it answers 400.
ConfirmReset(w) ==
  /\ pc[w] = "idle"
  /\ \E t \in mailed \cap Resets :
       IF ValidReset(t)
       THEN /\ Free(w, {t})
            /\ cached' = Absent
            /\ sessions' = sessions \cup {t}
            /\ UNCHANGED refused
       ELSE /\ refused' = refused \cup {t}
            /\ UNCHANGED <<cached, sessions>>
  /\ UNCHANGED <<db, lapsed, checked, mailed, pc, given, seen, txn>>

-----------------------------------------------------------------------------
\* The database fails, or the server stops: the transaction is rolled back.
Abort(w) ==
  /\ pc[w] # "idle"
  /\ End(w)
  /\ UNCHANGED <<db, lapsed, cached, checked, mailed, sessions, refused>>

\* The timeouts of the cache, 300 s ...
RowExpires ==
  /\ cached.present
  /\ cached' = Absent
  /\ UNCHANGED <<db, lapsed, checked, mailed, pc, given, seen, txn, sessions, refused>>

LinkExpires ==
  /\ \E t \in checked : checked' = checked \ {t}
  /\ UNCHANGED <<db, lapsed, cached, mailed, pc, given, seen, txn, sessions, refused>>

\* ... and of the links, 24 hours.
Lapse ==
  /\ \E t \in links \ lapsed : lapsed' = lapsed \cup {t}
  /\ UNCHANGED <<db, cached, checked, mailed, pc, given, seen, txn, sessions, refused>>

Start(w) ==
  \/ SignupCheck(w) \/ VerifyRead(w) \/ LoginCached(w) \/ LoginRead(w)
  \/ AppleSignIn(w) \/ AppleCheck(w)
  \/ RequestReset(w) \/ ConfirmReset(w)

\* What may have to wait for a lock.
Write(w) ==
  SignupInsert(w) \/ InsertFails(w) \/ VerifySpend(w) \/ LoginPassword(w) \/ AppleInsert(w)

Step(w) ==
  \/ SignupMail(w) \/ MailFails(w) \/ SignupCommit(w)
  \/ VerifyRemember(w) \/ VerifyCommit(w)
  \/ LoginFill(w) \/ LoginAnswer(w)
  \/ AppleCommit(w) \/ AppleSettle(w) \/ ResetMail(w)

Next ==
  \/ \E w \in Workers : Start(w) \/ Write(w) \/ Step(w) \/ Abort(w)
  \/ RowExpires \/ LinkExpires \/ Lapse

Spec == Init /\ [][Next]_vars

\* The threads run, PostgreSQL gives a lock to those who wait for it in turn, and
\* a cache entry times out.
Fairness ==
  /\ \A w \in Workers : WF_vars(Step(w)) /\ SF_vars(Write(w))
  /\ WF_vars(RowExpires)

FairSpec == Spec /\ Fairness

-----------------------------------------------------------------------------
Row == [present : BOOLEAN, verified : BOOLEAN, password : Passwords \cup {NoPassword},
        failed : 0 .. FailedLoginThreshold]

ASSUME UntouchedAssumption == Untouched \notin Row

Transaction == [row : Row \cup {Untouched}, added : SUBSET (Links \cup Resets),
                spent : SUBSET Links]

\* The type of every variable; a thread without a request has nothing flushed.
TypeOK ==
  /\ user \in Row /\ cached \in Row
  /\ links \subseteq Links /\ resets \subseteq Resets /\ checked \subseteq Links
  /\ mailed \subseteq Links \cup Resets /\ lapsed \subseteq Links
  /\ pc \in [Workers -> {"idle", "insert", "mail", "commit", "remember", "spend", "settle",
                          "fill", "password", "answer", "apple", "applecommit",
                          "applesettle", "resetmail"}]
  /\ given \in [Workers -> Passwords \cup Links \cup Resets \cup {Apple, NoPassword}]
  /\ seen \in [Workers -> Row]
  /\ txn \in [Workers -> Transaction]
  /\ \A w \in Workers : pc[w] = "idle" => txn[w] = Nothing
  /\ sessions \subseteq Passwords \cup Links \cup Resets \cup {Apple}
  /\ refused \subseteq mailed \cap Resets

\* The link of an unverified account is in the table, and it is in a mail that was
\* sent, however signups, mail failures, verifications and rollbacks overlap.  It
\* may have lapsed: no route makes another.
UnverifiedHasLink ==
  user.present /\ ~ user.verified => links # {} /\ links \subseteq mailed

\* The row and the token table agree: the link goes exactly when the account
\* becomes verified (verify_token deletes it in the transaction that
\* update_verified writes in), and no link is stored without an account.
LinkSpentIffVerified == (links = {}) <=> (user.present => user.verified)

\* The cached row may be behind the table but never ahead of it, nor another
\* account's: it holds no uncommitted signup, verification or login count.  So do
\* the rows the logins in progress decide on.
RowsNeverAhead ==
  \A r \in {cached} \cup {seen[w] : w \in Workers} :
    r.present => /\ user.present
                 /\ r.password = user.password
                 /\ r.failed = user.failed
                 /\ r.verified => user.verified

\* Cookies are for an account that is there.  A password got them only if it is the
\* one of the account and the account is verified, and a link only if it was mailed
\* and is spent, whatever row or link the login or the verification read before.
\* An Apple id token got them for any account.  /refresh, and /2fa/verify for a
\* second factor set up with cookies, hand out more and are not recorded.
SessionsEarned ==
  \A c \in sessions :
    /\ user.present
    /\ c \in Passwords => user.verified /\ c = user.password
    /\ c \in Links => user.verified /\ c \in mailed \ links

\* An account, once made, is nobody else's: no signup or Apple sign-in that
\* checked the address before replaces its password or takes its verification
\* back.
Kept == user.present => /\ user'.present
                        /\ user'.password = user.password
                        /\ user.verified => user'.verified

AccountKept == [][Kept]_vars

\* A verified account is not refused as unverified forever: the rows cached
\* before, also by a login still in progress, go.
StaleRowsEnd == <>[](user.verified /\ cached.present => cached.verified)

\* Every request ends, and gives the lock back.
RequestsEnd == \A w \in Workers : pc[w] # "idle" ~> pc[w] = "idle"

\* test_password_reset_success (tests/auth/test_auth_routes_2.py): the token made by
\* POST /reset-password is accepted by POST /reset-password/confirm.
ResetLinkWorks == refused = {}
=============================================================================
