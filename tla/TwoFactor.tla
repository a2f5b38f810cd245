----------------------------- MODULE TwoFactor -----------------------------
(***************************************************************************)
(* The two-factor row of one user and the requests that change it          *)
(* (app/auth/two_factor/Service.py, app/auth/two_factor/repository.py,     *)
(* app/auth/routes/TwoFactor.py).                                          *)
(*                                                                         *)
(* A request works on the row as it first loaded it: SQLAlchemy's identity *)
(* map gives the loaded object back to every later query of the request.   *)
(* Its UPDATE writes the columns whose value differs from the loaded one,  *)
(* takes the row's lock (PostgreSQL, READ COMMITTED), and becomes visible  *)
(* at the commit -- if the route commits: what a route leaves uncommitted  *)
(* is rolled back when the request ends (shutdown_session in               *)
(* app/__init__.py).                                                       *)
(***************************************************************************)
EXTENDS Integers, FiniteSets

CONSTANTS
  Workers,    \* the server threads a request of this user can run in
  Secrets,    \* the TOTP secrets setup can generate, never the same twice
  NoSecret,   \* secret is NULL
  Batches,    \* the sets of backup codes that can be generated, never the
              \* same twice: a batch stands for the codes <<batch, index>>
  BatchSize,  \* BACKUP_CODE_COUNT
  NoWorker    \* nobody holds the row's lock

ASSUME TwoFactorAssumption ==
  /\ NoSecret \notin Secrets
  /\ NoWorker \notin Workers
  /\ BatchSize \in Nat

VARIABLES
  row,       \* the committed row
  lock,      \* the request whose uncommitted write holds the row's lock
  pc,        \* what each request does next
  seen,      \* the row as the request first loaded it, and decided on
  change,    \* the columns the request writes, and their values
  issued,    \* secrets made by a setup
  batches,   \* batches generated
  proven,    \* secrets a committed verify_setup saw a valid code of
  spent,     \* backup codes a login was accepted for
  reused,    \* backup codes more than one login was accepted for
  stale      \* some request committed over a row that had changed since it
             \* loaded it

vars == <<row, lock, pc, seen, change, issued, batches, proven, spent, reused, stale>>

-----------------------------------------------------------------------------
BackupCodes == Batches \X (1 .. BatchSize)

CodesOf(b) == {b} \X (1 .. BatchSize)

\* A missing row; its other columns are those get_or_create would insert.
Blank == [present |-> FALSE, secret |-> NoSecret, enabled |-> FALSE, codes |-> {}]

\* The UPDATE of an object loaded as old: only the columns that differ.
Differing(new, old) == [col \in {c \in DOMAIN new : new[c] # old[c]} |-> new[col]]

\* The row once the columns of chg are written.
Written(chg, old) == [col \in DOMAIN old |-> IF col \in DOMAIN chg THEN chg[col] ELSE old[col]]

NoChange == [col \in {} |-> TRUE]

Init ==
  /\ row = Blank
  /\ lock = NoWorker
  /\ pc = [w \in Workers |-> "idle"]
  /\ seen = [w \in Workers |-> Blank]
  /\ change = [w \in Workers |-> NoChange]
  /\ issued = {}
  /\ batches = {}
  /\ proven = {}
  /\ spent = {}
  /\ reused = {}
  /\ stale = FALSE

\* The request loads the row and goes on with label, to write chg.
Load(w, label, chg) ==
  /\ pc[w] = "idle"
  /\ pc' = [pc EXCEPT ![w] = label]
  /\ seen' = [seen EXCEPT ![w] = row]
  /\ change' = [change EXCEPT ![w] = chg]
  /\ UNCHANGED <<row, lock, proven, spent, reused, stale>>

\* The request answers and its session is removed, with what it has not committed.
End(w) ==
  /\ pc' = [pc EXCEPT ![w] = "idle"]
  /\ seen' = [seen EXCEPT ![w] = Blank]
  /\ change' = [change EXCEPT ![w] = NoChange]
  /\ lock' = IF lock = w THEN NoWorker ELSE lock

-----------------------------------------------------------------------------
\* Requests that are refused, or find nothing to do, change nothing and are
\* left out: every action below starts with the conditions the code checks.

\* Mutant: setup starts over whether 2FA is enabled or not.
SetupCheckNothing(w) ==
  /\ \E s \in Secrets \ issued : issued' = issued \cup {s} /\ Load(w, "find", [secret |-> s])
  /\ UNCHANGED batches

\* GET /2fa/setup: is_enabled is false, and a secret is made.  The object that
\* is_enabled loaded is let go.
SetupCheck(w) ==
  /\ ~ row.enabled
  /\ \E s \in Secrets \ issued : issued' = issued \cup {s} /\ Load(w, "find", [secret |-> s])
  /\ UNCHANGED batches

\* set_secret, get_or_create: the row is loaded afresh; the new secret goes
\* into it, or into a new row.  Setup does not ask whether 2FA is enabled again.
SetupFind(w) ==
  /\ pc[w] = "find"
  /\ change' = [change EXCEPT ![w] =
       Differing([row EXCEPT !.present = TRUE, !.secret = change[w].secret], row)]
  /\ pc' = [pc EXCEPT ![w] = "setup"]
  /\ UNCHANGED <<row, lock, seen, issued, batches, proven, spent, reused, stale>>

\* Mutant: verify_setup does not look whether there is a secret.
VerifySetupAnySecret(w) ==
  /\ row.present
  /\ ~ row.enabled
  /\ \E b \in Batches \ batches :
       /\ batches' = batches \cup {b}
       /\ Load(w, "verify", Differing([row EXCEPT !.enabled = TRUE, !.codes = CodesOf(b)], row))
  /\ UNCHANGED issued

\* POST /2fa/setup/verify with a valid code for the secret in the row, which
\* the user has from the answer of a setup.
VerifySetup(w) ==
  /\ row.present /\ row.secret # NoSecret
  /\ ~ row.enabled
  /\ \E b \in Batches \ batches :
       /\ batches' = batches \cup {b}
       /\ Load(w, "verify", Differing([row EXCEPT !.enabled = TRUE, !.codes = CodesOf(b)], row))
  /\ UNCHANGED issued

\* Mutant: the codes outlive the secret.
DisableKeepingCodes(w) ==
  /\ row.present
  /\ Load(w, "disable", Differing([row EXCEPT !.enabled = FALSE, !.secret = NoSecret], row))
  /\ UNCHANGED <<issued, batches>>

\* DELETE /2fa.
Disable(w) ==
  /\ row.present
  /\ Load(w, "disable", Differing([row EXCEPT !.enabled = FALSE, !.secret = NoSecret, !.codes = {}], row))
  /\ UNCHANGED <<issued, batches>>

\* POST /2fa/backup-codes.
Regenerate(w) ==
  /\ row.enabled /\ row.secret # NoSecret
  /\ \E b \in Batches \ batches :
       /\ batches' = batches \cup {b}
       /\ Load(w, "regenerate", Differing([row EXCEPT !.codes = CodesOf(b)], row))
  /\ UNCHANGED issued

\* POST /2fa/verify with a backup code the row holds (a TOTP code changes nothing).
LoginWithBackupCode(w) ==
  /\ row.enabled
  /\ \E c \in row.codes : Load(w, "login", [codes |-> row.codes \ {c}])
  /\ UNCHANGED <<issued, batches>>

-----------------------------------------------------------------------------
\* The UPDATE (or INSERT) waits for the row's lock and keeps it.
Flush(w) ==
  /\ pc[w] \in {"setup", "verify", "disable", "regenerate", "login"}
  /\ lock = NoWorker
  /\ ~ ("present" \in DOMAIN change[w] /\ row.present)
  /\ lock' = w
  /\ pc' = [pc EXCEPT ![w] = IF @ = "login" THEN "accept" ELSE "commit"]
  /\ UNCHANGED <<row, seen, change, issued, batches, proven, spent, reused, stale>>

\* The INSERT meets the row another request has inserted meanwhile.
InsertFails(w) ==
  /\ pc[w] = "setup"
  /\ lock = NoWorker
  /\ "present" \in DOMAIN change[w] /\ row.present
  /\ End(w)
  /\ UNCHANGED <<row, issued, batches, proven, spent, reused, stale>>

\* The route commits, and answers.
Commit(w) ==
  /\ pc[w] = "commit"
  /\ row' = Written(change[w], row)
  /\ proven' = IF "enabled" \in DOMAIN change[w] /\ change[w].enabled
               THEN proven \cup {seen[w].secret} ELSE proven
  /\ stale' = (stale \/ row # seen[w])
  /\ End(w)
  /\ UNCHANGED <<issued, batches, spent, reused>>

\* Mutant: the session is not removed, and its transaction stays open.
AcceptKeepingSession(w) ==
  /\ pc[w] = "accept"
  /\ LET used == seen[w].codes \ change[w].codes IN
       /\ spent' = spent \cup used
       /\ reused' = reused \cup (used \cap spent)
  /\ pc' = [pc EXCEPT ![w] = "idle"]
  /\ seen' = [seen EXCEPT ![w] = Blank]
  /\ change' = [change EXCEPT ![w] = NoChange]
  /\ UNCHANGED <<row, lock, issued, batches, proven, stale>>

\* POST /2fa/verify answers 200 without a commit: shutdown_session rolls back
\* what consume_backup_code wrote.
Accept(w) ==
  /\ pc[w] = "accept"
  /\ LET used == seen[w].codes \ change[w].codes IN
       /\ spent' = spent \cup used
       /\ reused' = reused \cup (used \cap spent)
  /\ End(w)
  /\ UNCHANGED <<row, issued, batches, proven, stale>>

\* The database fails, or the server stops: the transaction is rolled back.
Abort(w) ==
  /\ pc[w] # "idle"
  /\ End(w)
  /\ UNCHANGED <<row, issued, batches, proven, spent, reused, stale>>

Start(w) ==
  SetupCheck(w) \/ VerifySetup(w) \/ Disable(w) \/ Regenerate(w) \/ LoginWithBackupCode(w)

Step(w) == SetupFind(w) \/ Flush(w) \/ InsertFails(w) \/ Commit(w) \/ Accept(w)

Next == \E w \in Workers : Start(w) \/ Step(w) \/ Abort(w)

Spec == Init /\ [][Next]_vars

\* The threads run, and PostgreSQL gives a row's lock to those who wait for it
\* in turn.
Fairness ==
  \A w \in Workers : WF_vars(Step(w)) /\ SF_vars(Flush(w)) /\ SF_vars(InsertFails(w))

FairSpec == Spec /\ Fairness

-----------------------------------------------------------------------------
Row == [present : BOOLEAN, secret : Secrets \cup {NoSecret}, enabled : BOOLEAN,
        codes : SUBSET BackupCodes]

\* The type of every variable.
TypeOK ==
  /\ row \in Row
  /\ lock \in Workers \cup {NoWorker}
  /\ pc \in [Workers -> {"idle", "find", "setup", "verify", "disable", "regenerate",
                        "login", "commit", "accept"}]
  /\ seen \in [Workers -> Row]
  /\ DOMAIN change = Workers
  /\ \A w \in Workers : /\ DOMAIN change[w] \subseteq DOMAIN Blank
                         /\ Written(change[w], Blank) \in Row
  /\ issued \subseteq Secrets
  /\ batches \subseteq Batches
  /\ proven \subseteq Secrets
  /\ spent \subseteq BackupCodes
  /\ reused \subseteq spent
  /\ stale \in BOOLEAN

\* As long as no request has committed over a row that changed under it, 2FA is
\* enabled only with a secret the user has proved to hold, whatever requests
\* overlap, fail or are rolled back.
EnabledIsProven == ~ stale => (row.enabled => row.secret \in proven)

\* Likewise, a row that is not enabled holds no backup codes.
NoCodesWhileDisabled == ~ stale => (~ row.enabled => row.codes = {})

\* Likewise, the secret in use is not replaced while 2FA is enabled: setup works
\* on a disabled row only.
SecretKept == (row.enabled /\ row'.enabled /\ ~ stale') => row'.secret = row.secret

SecretKeptWhileEnabled == [][SecretKept]_vars

\* Every request ends: none keeps the row's lock, and none waits for it forever.
RequestsEnd == \A w \in Workers : pc[w] # "idle" ~> pc[w] = "idle"

\* "Raises DatabaseError if: The row has no secret (cannot enable without a
\* secret)." (TwoFactorRepository.enable): no row is enabled without a secret.
EnabledHasSecret == row.enabled => row.secret # NoSecret

\* "Returns True if a code matched and was consumed"
\* (TwoFactorRepository.consume_backup_code): no code is accepted twice.
BackupCodesConsumed == reused = {}
=============================================================================
