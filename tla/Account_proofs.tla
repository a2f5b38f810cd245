--------------------------- MODULE Account_proofs ---------------------------
(***************************************************************************)
(* Proofs about Account for any number of threads, passwords and tokens.   *)
(***************************************************************************)
EXTENDS Account, TLAPS

-----------------------------------------------------------------------------
(* The inductive invariant                                                 *)

\* What request w has, by the step it is at.  A request that is about to insert or
\* update the row holds its lock, so the committed row is still as it was then.
AtSignup(w) ==
  /\ pc[w] = "insert" => given[w] \in Passwords
  /\ pc[w] \in {"mail", "commit"} =>
       /\ given[w] \in Passwords
       /\ ~ user.present
       /\ \E t \in Links : txn[w] = [row |-> NewUser(FALSE, given[w]), added |-> {t}, spent |-> {}]
  /\ pc[w] = "commit" => txn[w].added \subseteq mailed

AtVerify(w) ==
  /\ pc[w] \in {"remember", "spend", "settle"} =>
       /\ given[w] \in Links \cap mailed
       /\ user.present
       /\ links \subseteq {given[w]}
  /\ pc[w] = "settle" =>
       txn[w] = [row |-> [user EXCEPT !.verified = TRUE], added |-> {}, spent |-> {given[w]}]

AtLogin(w) ==
  /\ pc[w] \in {"fill", "password", "answer"} => given[w] \in Passwords /\ seen[w].present
  /\ pc[w] = "answer" => txn[w].row # Untouched

AtApple(w) ==
  /\ pc[w] = "applecommit" =>
       /\ ~ user.present
       /\ txn[w] = [row |-> NewUser(TRUE, NoPassword), added |-> {}, spent |-> {}]
  /\ pc[w] = "applesettle" => user.present

AtReset(w) ==
  pc[w] = "resetmail" => txn[w].added \subseteq Resets

\* A request that has flushed nothing.
AtRest(w) ==
  pc[w] \in {"idle", "insert", "remember", "spend", "fill", "password", "apple", "applesettle"} =>
    txn[w] = Nothing

Progress(w) ==
  AtSignup(w) /\ AtVerify(w) /\ AtLogin(w) /\ AtApple(w) /\ AtReset(w) /\ AtRest(w)

\* One transaction at a time has written the row.
OneWriter ==
  \A v, w \in Workers : txn[v].row # Untouched /\ txn[w].row # Untouched => v = w

\* There is one link at most, it was mailed, and no reset token is ever stored.
Tokens ==
  /\ \A s, t \in links : s = t
  /\ links \subseteq mailed
  /\ resets = {}

IInv ==
  /\ TypeOK
  /\ Tokens
  /\ LinkSpentIffVerified
  /\ RowsNeverAhead
  /\ SessionsEarned
  /\ OneWriter
  /\ \A w \in Workers : Progress(w)

-----------------------------------------------------------------------------
\* Before the first request there is no row, no token and nothing flushed.
LEMMA InitInv == Init => IInv
<1> SUFFICES ASSUME Init PROVE IInv
  OBVIOUS
<1> USE AccountAssumption, UntouchedAssumption
<1>1. Absent \in Row /\ Nothing \in Transaction
  BY DEF Absent, Row, Nothing, Transaction
<1>2. TypeOK
  BY <1>1 DEF Init, TypeOK
<1>3. Tokens /\ LinkSpentIffVerified /\ SessionsEarned
  BY DEF Init, Tokens, LinkSpentIffVerified, SessionsEarned, Absent
<1>4. RowsNeverAhead
  BY DEF Init, RowsNeverAhead, Absent
<1>5. OneWriter /\ \A w \in Workers : Progress(w)
  BY DEF Init, OneWriter, Nothing, Progress, AtSignup, AtVerify, AtLogin, AtApple, AtReset, AtRest
<1> QED
  BY <1>2, <1>3, <1>4, <1>5 DEF IInv

-----------------------------------------------------------------------------
(* Rows and transactions                                                   *)

\* What the requests write are rows.
LEMMA RowsWritten ==
  /\ Absent \in Row /\ Nothing \in Transaction /\ ~ Absent.present /\ Nothing.row = Untouched
  /\ \A p \in Passwords \cup {NoPassword} : NewUser(FALSE, p) \in Row /\ NewUser(TRUE, p) \in Row
  /\ \A u \in Row : [u EXCEPT !.verified = TRUE] \in Row
  /\ \A u \in Row, n \in 0 .. FailedLoginThreshold : [u EXCEPT !.failed = n] \in Row
<1> USE AccountAssumption
<1>1. \A u \in Row : [u EXCEPT !.verified = TRUE] \in Row
  BY DEF Row
<1>2. \A u \in Row, n \in 0 .. FailedLoginThreshold : [u EXCEPT !.failed = n] \in Row
  BY DEF Row
<1> QED
  BY <1>1, <1>2 DEF Absent, Row, Nothing, Transaction, NewUser

\* The row of a new account is one.
LEMMA NewUserWritten ==
  \A p \in Passwords \cup {NoPassword} :
    /\ NewUser(FALSE, p) \in Row /\ NewUser(FALSE, p) # Untouched
    /\ NewUser(TRUE, p) \in Row /\ NewUser(TRUE, p) # Untouched
<1>1. \A p \in Passwords \cup {NoPassword} : NewUser(FALSE, p) \in Row /\ NewUser(TRUE, p) \in Row
  BY AccountAssumption DEF NewUser, Row
<1> QED
  BY <1>1, UntouchedAssumption

\* What a request flushes is a transaction.
LEMMA TransactionsFlushed ==
  ASSUME NEW r \in Row \cup {Untouched}, NEW a \in SUBSET (Links \cup Resets), NEW s \in SUBSET Links
  PROVE  [row |-> r, added |-> a, spent |-> s] \in Transaction
BY DEF Transaction

-----------------------------------------------------------------------------
(* Steps that commit nothing                                               *)

\* The other requests are left alone.
OthersKeep(w) ==
  \A v \in Workers \ {w} :
    /\ pc'[v] = pc[v] /\ given'[v] = given[v]
    /\ seen'[v] = seen[v] /\ txn'[v] = txn[v]

\* A request that is left alone is where it was, if the row stays.
LEMMA LeftAlone ==
  ASSUME NEW v \in Workers, Progress(v), user' = user, links' \subseteq links, mailed \subseteq mailed',
         pc'[v] = pc[v], given'[v] = given[v], seen'[v] = seen[v], txn'[v] = txn[v]
  PROVE  Progress(v)'
BY DEF Progress, AtSignup, AtVerify, AtLogin, AtApple, AtReset, AtRest

\* A step of w that commits nothing, and takes the row's lock only if it is free,
\* keeps the invariant, if what w does next fits it.
LEMMA Uncommitted ==
  ASSUME NEW w \in Workers, IInv, OthersKeep(w), UNCHANGED db, mailed \subseteq mailed',
         cached' \in {cached, Absent, seen[w]},
         seen'[w] \in {seen[w], Absent, user, cached},
         txn'[w].row # Untouched => txn[w].row # Untouched \/ Free(w, {}),
         TypeOK', SessionsEarned', Progress(w)'
  PROVE  IInv'
<1>1. Tokens' /\ LinkSpentIffVerified'
  BY DEF IInv, Tokens, LinkSpentIffVerified, db
<1>2. RowsNeverAhead'
  <2>1. SUFFICES ASSUME NEW r \in {cached'} \cup {seen'[v] : v \in Workers}, r.present
                 PROVE  /\ user.present /\ r.password = user.password
                        /\ r.failed = user.failed /\ (r.verified => user.verified)
    BY DEF RowsNeverAhead, db
  <2>2. r \in {cached, Absent, user} \cup {seen[v] : v \in Workers}
    BY <2>1 DEF OthersKeep
  <2> QED
    BY <2>1, <2>2 DEF IInv, RowsNeverAhead, Absent
<1>3. OneWriter'
  <2>1. SUFFICES ASSUME NEW u \in Workers, NEW v \in Workers,
                        txn'[u].row # Untouched, txn'[v].row # Untouched
                 PROVE  u = v
    BY DEF OneWriter
  <2> QED
    BY <2>1 DEF IInv, OneWriter, OthersKeep, Free
<1>4. \A v \in Workers : Progress(v)'
  BY LeftAlone DEF IInv, OthersKeep, db
<1> QED
  BY <1>1, <1>2, <1>3, <1>4 DEF IInv

\* The request ends: Abort, and the last step of several routes.
LEMMA EndInv ==
  ASSUME NEW w \in Workers, IInv, End(w), UNCHANGED db, mailed \subseteq mailed',
         mailed' \subseteq Links \cup Resets, cached' \in {cached, Absent},
         SessionsEarned', sessions' \subseteq Passwords \cup Links \cup Resets \cup {Apple},
         UNCHANGED <<lapsed, checked, refused>>
  PROVE  IInv'
<1> USE AccountAssumption, UntouchedAssumption
<1>1. /\ OthersKeep(w) /\ seen'[w] = Absent /\ txn'[w] = Nothing /\ pc'[w] = "idle"
  BY DEF IInv, TypeOK, End, OthersKeep
<1>2. Absent \in Row /\ Nothing \in Transaction
  BY DEF Absent, Row, Nothing, Transaction
<1>3. TypeOK'
  BY <1>1, <1>2 DEF IInv, TypeOK, End, db
<1>4. Progress(w)'
  BY <1>1 DEF Progress, AtSignup, AtVerify, AtLogin, AtApple, AtReset, AtRest
<1> QED
  BY <1>1, <1>3, <1>4, Uncommitted DEF Nothing

\* A signup has found the address free.
LEMMA SignupCheckInv == ASSUME NEW w \in Workers, IInv, SignupCheck(w) PROVE IInv'
<1> USE AccountAssumption, UntouchedAssumption
<1>1. TypeOK'
  BY DEF IInv, TypeOK, Progress, AtRest, SignupCheck, Begin, db
<1>2. SessionsEarned'
  BY DEF IInv, SessionsEarned, SignupCheck, db
<1>3. Progress(w)'
  <2>1. pc'[w] = "insert" /\ given'[w] \in Passwords /\ txn'[w] = Nothing
    BY DEF IInv, TypeOK, Progress, AtRest, Begin, SignupCheck, db
  <2> QED
    BY <2>1 DEF Progress, AtSignup, AtVerify, AtLogin, AtApple, AtReset, AtRest
<1>4. /\ OthersKeep(w) /\ UNCHANGED db /\ mailed \subseteq mailed'
      /\ cached' \in {cached, Absent, seen[w]} /\ seen'[w] \in {seen[w], Absent, user, cached}
      /\ txn'[w].row # Untouched => txn[w].row # Untouched \/ Free(w, {})
  BY DEF IInv, TypeOK, OthersKeep, SignupCheck, Begin, db
<1> QED
  BY <1>1, <1>2, <1>3, <1>4, Uncommitted

\* It inserts the row with a fresh link.
LEMMA SignupInsertInv == ASSUME NEW w \in Workers, IInv, SignupInsert(w) PROVE IInv'
<1> USE AccountAssumption, UntouchedAssumption
<1>1. given[w] \in Passwords
  BY DEF IInv, Progress, AtSignup, SignupInsert, Goto
<1>2. PICK t \in Links : txn' = [txn EXCEPT ![w] =
       [row |-> NewUser(FALSE, given[w]), added |-> {t}, spent |-> {}]]
  BY <1>1 DEF SignupInsert, Flushed
<1>3. /\ NewUser(FALSE, given[w]) \in Row \cup {Untouched}
      /\ {t} \in SUBSET (Links \cup Resets) /\ {} \in SUBSET Links
  BY <1>1, RowsWritten DEF IInv, TypeOK
<1>4. [row |-> NewUser(FALSE, given[w]), added |-> {t}, spent |-> {}] \in Transaction
  BY <1>3, TransactionsFlushed
<1>5. TypeOK'
  BY <1>1, <1>2, <1>4, RowsWritten DEF IInv, TypeOK, SignupInsert, Goto, db
<1>6. SessionsEarned'
  BY DEF IInv, SessionsEarned, SignupInsert, db
<1>7. Progress(w)'
  <2>1. /\ pc'[w] = "mail" /\ given'[w] \in Passwords /\ ~ user'.present
        /\ txn'[w] = [row |-> NewUser(FALSE, given'[w]), added |-> {t}, spent |-> {}]
    BY <1>1, <1>2 DEF IInv, TypeOK, SignupInsert, Goto, db
  <2> QED
    BY <2>1 DEF Progress, AtSignup, AtVerify, AtLogin, AtApple, AtReset, AtRest
<1>8. /\ OthersKeep(w) /\ UNCHANGED db /\ mailed \subseteq mailed'
      /\ cached' \in {cached, Absent, seen[w]} /\ seen'[w] \in {seen[w], Absent, user, cached}
      /\ txn'[w].row # Untouched => txn[w].row # Untouched \/ Free(w, {})
  BY <1>2 DEF IInv, TypeOK, OthersKeep, SignupInsert, Goto, db, Free
<1> QED
  BY <1>5, <1>6, <1>7, <1>8, Uncommitted

\* The link is mailed.
LEMMA SignupMailInv == ASSUME NEW w \in Workers, IInv, SignupMail(w) PROVE IInv'
<1> USE AccountAssumption, UntouchedAssumption
<1>1. txn[w].added \subseteq Links \cup Resets
  BY DEF IInv, TypeOK, Transaction
<1>2. TypeOK'
  BY <1>1 DEF IInv, TypeOK, SignupMail, Goto, db
<1>3. SessionsEarned'
  BY DEF IInv, SessionsEarned, SignupMail, db
<1>4. Progress(w)'
  <2>1. /\ pc[w] = "mail" /\ pc'[w] = "commit" /\ txn'[w].added \subseteq mailed'
        /\ UNCHANGED <<user, given, txn>>
    BY DEF IInv, TypeOK, SignupMail, Goto, db
  <2> QED
    BY <2>1 DEF IInv, Progress, AtSignup, AtVerify, AtLogin, AtApple, AtReset, AtRest
<1>5. /\ OthersKeep(w) /\ UNCHANGED db /\ mailed \subseteq mailed'
      /\ cached' \in {cached, Absent, seen[w]} /\ seen'[w] \in {seen[w], Absent, user, cached}
      /\ txn'[w].row # Untouched => txn[w].row # Untouched \/ Free(w, {})
  BY DEF IInv, TypeOK, OthersKeep, SignupMail, Goto, db
<1> QED
  BY <1>2, <1>3, <1>4, <1>5, Uncommitted

\* A verification has found its link: it is the only one there is.
LEMMA VerifyReadInv == ASSUME NEW w \in Workers, IInv, VerifyRead(w) PROVE IInv'
<1> USE AccountAssumption, UntouchedAssumption
<1>1. /\ user.present /\ txn[w] = Nothing /\ pc' = [pc EXCEPT ![w] = "remember"]
      /\ \E t \in mailed \cap links :
           given' = [given EXCEPT ![w] = t] /\ links \subseteq {t}
  BY DEF IInv, Tokens, LinkSpentIffVerified, TypeOK, VerifyRead, Begin
<1>2. TypeOK'
  BY <1>1 DEF IInv, TypeOK, VerifyRead, Begin, db
<1>3. SessionsEarned'
  BY DEF IInv, SessionsEarned, VerifyRead, db
<1>4. Progress(w)'
  <2>1. /\ pc'[w] = "remember" /\ given'[w] \in Links \cap mailed'
        /\ user'.present /\ links' \subseteq {given'[w]} /\ txn'[w] = Nothing
    BY <1>1 DEF IInv, TypeOK, VerifyRead, db
  <2> QED
    BY <2>1 DEF Progress, AtSignup, AtVerify, AtLogin, AtApple, AtReset, AtRest
<1>5. /\ OthersKeep(w) /\ UNCHANGED db /\ mailed \subseteq mailed'
      /\ cached' \in {cached, Absent, seen[w]} /\ seen'[w] \in {seen[w], Absent, user, cached}
      /\ txn'[w].row # Untouched => txn[w].row # Untouched \/ Free(w, {})
  BY DEF IInv, TypeOK, OthersKeep, VerifyRead, Begin, db
<1> QED
  BY <1>2, <1>3, <1>4, <1>5, Uncommitted

\* The link is remembered.
LEMMA VerifyRememberInv == ASSUME NEW w \in Workers, IInv, VerifyRemember(w) PROVE IInv'
<1> USE AccountAssumption, UntouchedAssumption
<1>1. given[w] \in Links
  BY DEF IInv, Progress, AtVerify, VerifyRemember, Goto
<1>2. TypeOK'
  BY <1>1 DEF IInv, TypeOK, VerifyRemember, Goto, db
<1>3. SessionsEarned'
  BY DEF IInv, SessionsEarned, VerifyRemember, db
<1>4. Progress(w)'
  <2>1. /\ pc'[w] = "spend" /\ given'[w] \in Links \cap mailed'
        /\ user'.present /\ links' \subseteq {given'[w]} /\ txn'[w] = Nothing
    BY <1>1 DEF IInv, TypeOK, Progress, AtVerify, AtRest, VerifyRemember, Goto, db
  <2> QED
    BY <2>1 DEF Progress, AtSignup, AtVerify, AtLogin, AtApple, AtReset, AtRest
<1>5. /\ OthersKeep(w) /\ UNCHANGED db /\ mailed \subseteq mailed'
      /\ cached' \in {cached, Absent, seen[w]} /\ seen'[w] \in {seen[w], Absent, user, cached}
      /\ txn'[w].row # Untouched => txn[w].row # Untouched \/ Free(w, {})
  BY DEF IInv, TypeOK, OthersKeep, VerifyRemember, Goto, db
<1> QED
  BY <1>2, <1>3, <1>4, <1>5, Uncommitted

\* The link is deleted and the row marked, for a row that nobody else is writing.
LEMMA VerifySpendInv == ASSUME NEW w \in Workers, IInv, VerifySpend(w) PROVE IInv'
<1> USE AccountAssumption, UntouchedAssumption
<1>1. given[w] \in Links
  BY DEF IInv, Progress, AtVerify, VerifySpend, Goto
<1>2. txn' = [txn EXCEPT ![w] =
       [row |-> [user EXCEPT !.verified = TRUE], added |-> {}, spent |-> {given[w]}]]
  BY <1>1 DEF VerifySpend, Flushed
<1>3. /\ [user EXCEPT !.verified = TRUE] \in Row \cup {Untouched}
      /\ {} \in SUBSET (Links \cup Resets) /\ {given[w]} \in SUBSET Links
  BY <1>1, RowsWritten DEF IInv, TypeOK
<1>4. [row |-> [user EXCEPT !.verified = TRUE], added |-> {}, spent |-> {given[w]}] \in Transaction
  BY <1>3, TransactionsFlushed
<1>5. TypeOK'
  BY <1>1, <1>2, <1>4 DEF IInv, TypeOK, VerifySpend, Goto, db
<1>6. SessionsEarned'
  BY DEF IInv, SessionsEarned, VerifySpend, db
<1>7. Progress(w)'
  <2>1. /\ pc'[w] = "settle" /\ given'[w] \in Links \cap mailed'
        /\ user'.present /\ links' \subseteq {given'[w]}
        /\ txn'[w] = [row |-> [user' EXCEPT !.verified = TRUE], added |-> {}, spent |-> {given'[w]}]
    BY <1>1, <1>2 DEF IInv, TypeOK, Progress, AtVerify, VerifySpend, Goto, db
  <2> QED
    BY <2>1 DEF Progress, AtSignup, AtVerify, AtLogin, AtApple, AtReset, AtRest
<1>8. /\ OthersKeep(w) /\ UNCHANGED db /\ mailed \subseteq mailed'
      /\ cached' \in {cached, Absent, seen[w]} /\ seen'[w] \in {seen[w], Absent, user, cached}
      /\ txn'[w].row # Untouched => txn[w].row # Untouched \/ Free(w, {})
  BY <1>2 DEF IInv, TypeOK, OthersKeep, VerifySpend, Goto, db, Free
<1> QED
  BY <1>5, <1>6, <1>7, <1>8, Uncommitted

\* A login has found the cached row.
LEMMA LoginCachedInv == ASSUME NEW w \in Workers, IInv, LoginCached(w) PROVE IInv'
<1> USE AccountAssumption, UntouchedAssumption
<1>1. TypeOK'
  BY DEF IInv, TypeOK, Progress, AtRest, LoginCached, Begin, db
<1>2. SessionsEarned'
  BY DEF IInv, SessionsEarned, LoginCached, db
<1>3. Progress(w)'
  <2>1. /\ pc'[w] = "password" /\ given'[w] \in Passwords
        /\ seen'[w].present /\ txn'[w] = Nothing
    BY DEF IInv, TypeOK, Progress, AtRest, Begin, LoginCached, db
  <2> QED
    BY <2>1 DEF Progress, AtSignup, AtVerify, AtLogin, AtApple, AtReset, AtRest
<1>4. /\ OthersKeep(w) /\ UNCHANGED db /\ mailed \subseteq mailed'
      /\ cached' \in {cached, Absent, seen[w]} /\ seen'[w] \in {seen[w], Absent, user, cached}
      /\ txn'[w].row # Untouched => txn[w].row # Untouched \/ Free(w, {})
  BY DEF IInv, TypeOK, OthersKeep, LoginCached, Begin, db
<1> QED
  BY <1>1, <1>2, <1>3, <1>4, Uncommitted

\* A login has found the committed row.
LEMMA LoginReadInv == ASSUME NEW w \in Workers, IInv, LoginRead(w) PROVE IInv'
<1> USE AccountAssumption, UntouchedAssumption
<1>1. TypeOK'
  BY DEF IInv, TypeOK, Progress, AtRest, LoginRead, Begin, db
<1>2. SessionsEarned'
  BY DEF IInv, SessionsEarned, LoginRead, db
<1>3. Progress(w)'
  <2>1. /\ pc'[w] = "fill" /\ given'[w] \in Passwords
        /\ seen'[w].present /\ txn'[w] = Nothing
    BY DEF IInv, TypeOK, Progress, AtRest, Begin, LoginRead, db
  <2> QED
    BY <2>1 DEF Progress, AtSignup, AtVerify, AtLogin, AtApple, AtReset, AtRest
<1>4. /\ OthersKeep(w) /\ UNCHANGED db /\ mailed \subseteq mailed'
      /\ cached' \in {cached, Absent, seen[w]} /\ seen'[w] \in {seen[w], Absent, user, cached}
      /\ txn'[w].row # Untouched => txn[w].row # Untouched \/ Free(w, {})
  BY DEF IInv, TypeOK, OthersKeep, LoginRead, Begin, db
<1> QED
  BY <1>1, <1>2, <1>3, <1>4, Uncommitted

\* That row is cached.
LEMMA LoginFillInv == ASSUME NEW w \in Workers, IInv, LoginFill(w) PROVE IInv'
<1> USE AccountAssumption, UntouchedAssumption
<1>1. TypeOK'
  BY DEF IInv, TypeOK, Progress, AtRest, LoginFill, Goto, db
<1>2. SessionsEarned'
  BY DEF IInv, SessionsEarned, LoginFill, db
<1>3. Progress(w)'
  <2>1. /\ pc'[w] = "password" /\ given'[w] \in Passwords
        /\ seen'[w].present /\ txn'[w] = Nothing
    BY DEF IInv, TypeOK, Progress, AtLogin, AtRest, Goto, LoginFill, db
  <2> QED
    BY <2>1 DEF Progress, AtSignup, AtVerify, AtLogin, AtApple, AtReset, AtRest
<1>4. /\ OthersKeep(w) /\ UNCHANGED db /\ mailed \subseteq mailed'
      /\ cached' \in {cached, Absent, seen[w]} /\ seen'[w] \in {seen[w], Absent, user, cached}
      /\ txn'[w].row # Untouched => txn[w].row # Untouched \/ Free(w, {})
  BY DEF IInv, TypeOK, OthersKeep, LoginFill, Goto, db
<1> QED
  BY <1>1, <1>2, <1>3, <1>4, Uncommitted

\* An Apple sign-in has found the address free.
LEMMA AppleCheckInv == ASSUME NEW w \in Workers, IInv, AppleCheck(w) PROVE IInv'
<1> USE AccountAssumption, UntouchedAssumption
<1>1. TypeOK'
  BY DEF IInv, TypeOK, Progress, AtRest, AppleCheck, Begin, db
<1>2. SessionsEarned'
  BY DEF IInv, SessionsEarned, AppleCheck, db
<1>3. Progress(w)'
  <2>1. pc'[w] = "apple" /\ txn'[w] = Nothing
    BY DEF IInv, TypeOK, Progress, AtRest, Begin, AppleCheck, db
  <2> QED
    BY <2>1 DEF Progress, AtSignup, AtVerify, AtLogin, AtApple, AtReset, AtRest
<1>4. /\ OthersKeep(w) /\ UNCHANGED db /\ mailed \subseteq mailed'
      /\ cached' \in {cached, Absent, seen[w]} /\ seen'[w] \in {seen[w], Absent, user, cached}
      /\ txn'[w].row # Untouched => txn[w].row # Untouched \/ Free(w, {})
  BY DEF IInv, TypeOK, OthersKeep, AppleCheck, Begin, db
<1> QED
  BY <1>1, <1>2, <1>3, <1>4, Uncommitted

\* It inserts the row.
LEMMA AppleInsertInv == ASSUME NEW w \in Workers, IInv, AppleInsert(w) PROVE IInv'
<1> USE AccountAssumption, UntouchedAssumption
<1>1. txn' = [txn EXCEPT ![w] =
       [row |-> NewUser(TRUE, NoPassword), added |-> {}, spent |-> {}]]
  BY DEF AppleInsert, Flushed
<1>2. /\ NewUser(TRUE, NoPassword) \in Row \cup {Untouched}
      /\ {} \in SUBSET (Links \cup Resets) /\ {} \in SUBSET Links
  BY RowsWritten DEF IInv, TypeOK
<1>3. [row |-> NewUser(TRUE, NoPassword), added |-> {}, spent |-> {}] \in Transaction
  BY <1>2, TransactionsFlushed
<1>4. TypeOK'
  BY <1>1, <1>3 DEF IInv, TypeOK, Progress, AtRest, AppleInsert, Goto, db
<1>5. SessionsEarned'
  BY DEF IInv, SessionsEarned, AppleInsert, db
<1>6. Progress(w)'
  <2>1. /\ pc'[w] = "applecommit" /\ ~ user'.present
        /\ txn'[w] = [row |-> NewUser(TRUE, NoPassword), added |-> {}, spent |-> {}]
    BY <1>1 DEF IInv, TypeOK, AppleInsert, Goto, db
  <2> QED
    BY <2>1 DEF Progress, AtSignup, AtVerify, AtLogin, AtApple, AtReset, AtRest
<1>7. /\ OthersKeep(w) /\ UNCHANGED db /\ mailed \subseteq mailed'
      /\ cached' \in {cached, Absent, seen[w]} /\ seen'[w] \in {seen[w], Absent, user, cached}
      /\ txn'[w].row # Untouched => txn[w].row # Untouched \/ Free(w, {})
  BY <1>1 DEF IInv, TypeOK, OthersKeep, AppleInsert, Goto, db, Free
<1> QED
  BY <1>4, <1>5, <1>6, <1>7, Uncommitted

\* A reset token is flushed.
LEMMA RequestResetInv == ASSUME NEW w \in Workers, IInv, RequestReset(w) PROVE IInv'
<1> USE AccountAssumption, UntouchedAssumption
<1>1. PICK t \in Resets : txn' = [txn EXCEPT ![w] =
       [row |-> Untouched, added |-> {t}, spent |-> {}]]
  BY DEF RequestReset, Flushed
<1>2. /\ Untouched \in Row \cup {Untouched}
      /\ {t} \in SUBSET (Links \cup Resets) /\ {} \in SUBSET Links
  BY RowsWritten DEF IInv, TypeOK
<1>3. [row |-> Untouched, added |-> {t}, spent |-> {}] \in Transaction
  BY <1>2, TransactionsFlushed
<1>4. TypeOK'
  BY <1>1, <1>3 DEF IInv, TypeOK, Progress, AtRest, RequestReset, Begin, db
<1>5. SessionsEarned'
  BY DEF IInv, SessionsEarned, RequestReset, db
<1>6. Progress(w)'
  <2>1. pc'[w] = "resetmail" /\ txn'[w].added \subseteq Resets
    BY <1>1 DEF IInv, TypeOK, RequestReset, Begin, db
  <2> QED
    BY <2>1 DEF Progress, AtSignup, AtVerify, AtLogin, AtApple, AtReset, AtRest
<1>7. /\ OthersKeep(w) /\ UNCHANGED db /\ mailed \subseteq mailed'
      /\ cached' \in {cached, Absent, seen[w]} /\ seen'[w] \in {seen[w], Absent, user, cached}
      /\ txn'[w].row # Untouched => txn[w].row # Untouched \/ Free(w, {})
  BY <1>1 DEF IInv, TypeOK, OthersKeep, RequestReset, Begin, db, Free
<1> QED
  BY <1>4, <1>5, <1>6, <1>7, Uncommitted

\* The password is compared, and the count written but not committed.
LEMMA LoginPasswordInv == ASSUME NEW w \in Workers, IInv, LoginPassword(w) PROVE IInv'
<1> USE AccountAssumption, UntouchedAssumption
<1>1. SessionsEarned' /\ UNCHANGED db
  BY DEF IInv, SessionsEarned, LoginPassword, db
<1>2. CASE End(w)
  BY <1>1, <1>2, EndInv DEF IInv, TypeOK, LoginPassword
<1>3. CASE ~ End(w)
  <2> DEFINE n == IF given[w] = seen[w].password THEN 0 ELSE seen[w].failed + 1
             t == [row |-> [user EXCEPT !.failed = n], added |-> {}, spent |-> {}]
  <2>1. /\ seen[w].failed < FailedLoginThreshold /\ Free(w, {}) /\ Goto(w, "password", "answer")
        /\ txn' = [txn EXCEPT ![w] = t]
        /\ UNCHANGED <<given, seen, lapsed, cached, checked, mailed, sessions, refused>>
    BY <1>3 DEF LoginPassword, Flushed, IInv, TypeOK, Row
  <2>2. n \in 0 .. FailedLoginThreshold
    BY <2>1 DEF IInv, TypeOK, Row
  <2> HIDE DEF n
  <2>3. t \in Transaction /\ t.row \in Row /\ t.row # Untouched
    <3>1. [user EXCEPT !.failed = n] \in Row
      BY <2>2, RowsWritten DEF IInv, TypeOK
    <3> QED
      BY <3>1, TransactionsFlushed
  <2> HIDE DEF t
  <2>4. TypeOK'
    BY <1>1, <2>1, <2>3 DEF IInv, TypeOK, Goto, db
  <2>5. Progress(w)'
    BY <2>1, <2>3 DEF IInv, TypeOK, Progress, AtSignup, AtVerify, AtLogin, AtApple, AtReset, AtRest, Goto
  <2>6. OthersKeep(w)
    BY <2>1 DEF IInv, TypeOK, OthersKeep, Goto
  <2> QED
    BY <1>1, <2>1, <2>4, <2>5, <2>6, Uncommitted DEF IInv, TypeOK
<1> QED
  BY <1>2, <1>3

\* The right password of a verified account: the row in hand is not ahead of the
\* committed one.
LEMMA LoginAnswerInv == ASSUME NEW w \in Workers, IInv, LoginAnswer(w) PROVE IInv'
<1> USE AccountAssumption
<1>1. sessions' = sessions \/ (/\ sessions' = sessions \cup {given[w]}
                               /\ given[w] = seen[w].password /\ seen[w].verified)
  BY DEF LoginAnswer
<1>2. given[w] \in Passwords /\ seen[w].present
  BY DEF LoginAnswer, IInv, Progress, AtLogin
<1>3. /\ user.present /\ seen[w].password = user.password
      /\ seen[w].verified => user.verified
  BY <1>2 DEF IInv, RowsNeverAhead
<1>4. SessionsEarned' /\ sessions' \subseteq Passwords \cup Links \cup Resets \cup {Apple}
  BY <1>1, <1>2, <1>3 DEF IInv, TypeOK, SessionsEarned, LoginAnswer, db
<1> QED
  BY <1>4, EndInv DEF LoginAnswer, IInv, TypeOK

\* The other steps that end a request.
LEMMA EndingInv ==
  ASSUME NEW w \in Workers, IInv,
         InsertFails(w) \/ MailFails(w) \/ ResetMail(w) \/ Abort(w)
  PROVE  IInv'
<1>1. /\ End(w) /\ UNCHANGED <<db, lapsed, checked, sessions, refused>>
      /\ mailed' \in {mailed, mailed \cup txn[w].added}
      /\ cached' \in {cached, Absent}
  BY DEF InsertFails, MailFails, ResetMail, Abort
<1>2. mailed' \subseteq Links \cup Resets /\ mailed \subseteq mailed'
  BY <1>1 DEF IInv, TypeOK, Transaction
<1>3. SessionsEarned' /\ sessions' \subseteq Passwords \cup Links \cup Resets \cup {Apple}
  BY <1>1, <1>2 DEF IInv, TypeOK, SessionsEarned, db
<1> QED
  BY <1>1, <1>2, <1>3, EndInv

\* The cookies of an Apple sign-in that has made the account.
LEMMA AppleSettleInv == ASSUME NEW w \in Workers, IInv, AppleSettle(w) PROVE IInv'
<1>1. /\ End(w) /\ UNCHANGED <<db, lapsed, checked, mailed, refused>>
      /\ sessions' = sessions \cup {Apple} /\ cached' = Absent /\ user.present
  BY DEF AppleSettle, IInv, Progress, AtApple
<1>2. SessionsEarned' /\ sessions' \subseteq Passwords \cup Links \cup Resets \cup {Apple}
  BY <1>1, AccountAssumption DEF IInv, TypeOK, SessionsEarned, db
<1> QED
  BY <1>1, <1>2, EndInv DEF IInv, TypeOK

\* Those of one that has found it.
LEMMA AppleSignInInv == ASSUME NEW w \in Workers, IInv, AppleSignIn(w) PROVE IInv'
<1>1. /\ UNCHANGED <<db, lapsed, cached, checked, mailed, pc, given, seen, txn, refused>>
      /\ sessions' = sessions \cup {Apple} /\ user.present
  BY DEF AppleSignIn
<1>2. TypeOK'
  BY <1>1 DEF IInv, TypeOK, db
<1>3. Tokens' /\ LinkSpentIffVerified' /\ OneWriter'
  BY <1>1 DEF IInv, Tokens, LinkSpentIffVerified, OneWriter, db
<1>4. RowsNeverAhead'
  BY <1>1 DEF IInv, RowsNeverAhead, db
<1>5. SessionsEarned'
  BY <1>1, AccountAssumption DEF IInv, SessionsEarned, db
<1>6. \A v \in Workers : Progress(v)'
  BY <1>1, LeftAlone DEF IInv, db
<1> QED
  BY <1>2, <1>3, <1>4, <1>5, <1>6 DEF IInv

\* A reset token is refused: none is stored.
LEMMA ConfirmResetInv == ASSUME NEW w \in Workers, IInv, ConfirmReset(w) PROVE IInv'
<1>1. /\ refused' \subseteq mailed \cap Resets
      /\ UNCHANGED <<db, lapsed, cached, checked, mailed, pc, given, seen, txn, sessions>>
  BY DEF ConfirmReset, ValidReset, IInv, Tokens, TypeOK
<1>2. TypeOK'
  BY <1>1 DEF IInv, TypeOK, db
<1>3. Tokens' /\ LinkSpentIffVerified' /\ SessionsEarned' /\ OneWriter'
  BY <1>1 DEF IInv, Tokens, LinkSpentIffVerified, SessionsEarned, OneWriter, db
<1>4. RowsNeverAhead'
  BY <1>1 DEF IInv, RowsNeverAhead, db
<1>5. \A v \in Workers : Progress(v)'
  BY <1>1, LeftAlone DEF IInv, db
<1> QED
  BY <1>2, <1>3, <1>4, <1>5 DEF IInv

\* The timeouts.
LEMMA TimeoutInv == ASSUME IInv, RowExpires \/ LinkExpires \/ Lapse PROVE IInv'
<1>1. /\ cached' \in {cached, Absent} /\ checked' \subseteq checked
      /\ lapsed' \subseteq lapsed \cup links
      /\ UNCHANGED <<db, mailed, pc, given, seen, txn, sessions, refused>>
  BY DEF RowExpires, LinkExpires, Lapse
<1>2. TypeOK'
  BY <1>1, RowsWritten DEF IInv, TypeOK, db
<1>3. Tokens' /\ LinkSpentIffVerified' /\ SessionsEarned' /\ OneWriter'
  BY <1>1 DEF IInv, Tokens, LinkSpentIffVerified, SessionsEarned, OneWriter, db
<1>4. RowsNeverAhead'
  BY <1>1, RowsWritten DEF IInv, RowsNeverAhead, db
<1>5. \A v \in Workers : Progress(v)'
  BY <1>1, LeftAlone DEF IInv, db
<1> QED
  BY <1>2, <1>3, <1>4, <1>5 DEF IInv

-----------------------------------------------------------------------------
(* Commits                                                                 *)

\* While one request has written a row that is not there yet, the others have
\* written none, and no verification is under way.
LEMMA Alone ==
  ASSUME NEW w \in Workers, NEW v \in Workers \ {w}, IInv, txn[w].row # Untouched
  PROVE  /\ pc[v] \notin {"mail", "commit", "answer", "applecommit", "settle"}
         /\ txn[v].row = Untouched
         /\ ~ user.present => pc[v] \notin {"remember", "spend", "settle"}
<1> USE AccountAssumption, UntouchedAssumption
<1>1. txn[v].row = Untouched
  BY DEF IInv, OneWriter
<1>2. Progress(v)
  BY DEF IInv
<1>3. pc[v] \notin {"mail", "commit"}
  <2> SUFFICES ASSUME pc[v] \in {"mail", "commit"} PROVE FALSE
    OBVIOUS
  <2>1. /\ given[v] \in Passwords
        /\ \E t \in Links : txn[v] = [row |-> NewUser(FALSE, given[v]), added |-> {t}, spent |-> {}]
    BY <1>2 DEF Progress, AtSignup
  <2>2. txn[v].row = NewUser(FALSE, given[v])
    BY <2>1
  <2> QED
    BY <1>1, <2>1, <2>2, NewUserWritten
<1>4. pc[v] # "applecommit"
  <2> SUFFICES ASSUME pc[v] = "applecommit" PROVE FALSE
    OBVIOUS
  <2>1. txn[v] = [row |-> NewUser(TRUE, NoPassword), added |-> {}, spent |-> {}]
    BY <1>2 DEF Progress, AtApple
  <2>2. txn[v].row = NewUser(TRUE, NoPassword)
    BY <2>1
  <2> QED
    BY <1>1, <2>2, NewUserWritten
<1>5. pc[v] # "settle"
  <2> SUFFICES ASSUME pc[v] = "settle" PROVE FALSE
    OBVIOUS
  <2>1. txn[v] = [row |-> [user EXCEPT !.verified = TRUE], added |-> {}, spent |-> {given[v]}]
    BY <1>2 DEF Progress, AtVerify
  <2>2. txn[v].row = [user EXCEPT !.verified = TRUE]
    BY <2>1
  <2>3. [user EXCEPT !.verified = TRUE] \in Row
    BY RowsWritten DEF IInv, TypeOK
  <2> QED
    BY <1>1, <2>2, <2>3
<1> QED
  BY <1>1, <1>2, <1>3, <1>4, <1>5 DEF Progress, AtVerify, AtLogin

\* Another request stays where it is when the row is committed: it has written
\* no row, and if it verifies, the row was there before and its link stays.
LEMMA OthersCommitted ==
  ASSUME NEW w \in Workers, NEW v \in Workers \ {w}, IInv, txn[w].row # Untouched,
         OthersKeep(w), UNCHANGED mailed,
         ~ user.present \/ (user'.present /\ links' \subseteq links)
  PROVE  Progress(v)'
<1>1. Progress(v)
  BY DEF IInv
<1>2. /\ pc[v] \notin {"mail", "commit", "answer", "applecommit", "settle"}
      /\ ~ user.present => pc[v] \notin {"remember", "spend", "settle"}
  BY Alone
<1>3. /\ pc'[v] = pc[v] /\ given'[v] = given[v] /\ seen'[v] = seen[v] /\ txn'[v] = txn[v]
  BY DEF OthersKeep
<1> QED
  BY <1>1, <1>2, <1>3
  DEF Progress, AtSignup, AtVerify, AtLogin, AtApple, AtReset, AtRest

\* Rows read before a commit that makes the account: there are none.
LEMMA NoRowYet ==
  ASSUME IInv, ~ user.present
  PROVE  /\ ~ cached.present /\ links = {} /\ sessions = {}
         /\ \A v \in Workers : ~ seen[v].present
BY AccountAssumption DEF IInv, RowsNeverAhead, LinkSpentIffVerified, SessionsEarned, TypeOK

\* The commit of a signup: the only account of the address, and its only link.
LEMMA SignupCommitInv == ASSUME NEW w \in Workers, IInv, SignupCommit(w) PROVE IInv'
<1> USE AccountAssumption, UntouchedAssumption
<1> DEFINE r == NewUser(FALSE, given[w])
<1>1. /\ ~ user.present /\ given[w] \in Passwords /\ txn[w].added \subseteq mailed
      /\ \E t \in Links : txn[w] = [row |-> r, added |-> {t}, spent |-> {}]
  BY DEF IInv, Progress, AtSignup, SignupCommit
<1>2. PICK t \in Links : txn[w] = [row |-> r, added |-> {t}, spent |-> {}]
  BY <1>1
<1>3. r \in Row /\ r # Untouched /\ txn[w].row # Untouched
  <2>1. txn[w].row = r
    BY <1>2
  <2> QED
    BY <1>1, <2>1, NewUserWritten
<1>4. r.present /\ ~ r.verified
  BY DEF NewUser
<1> HIDE DEF r
<1>5. user' = r /\ links' = {t} /\ resets' = {} /\ t \in mailed
  BY <1>1, <1>2, <1>3, NoRowYet DEF SignupCommit, Commit, IInv, Tokens
<1>6. OthersKeep(w) /\ seen'[w] = Absent /\ txn'[w] = Nothing /\ pc'[w] = "idle"
  BY DEF IInv, TypeOK, SignupCommit, End, OthersKeep
<1>7. TypeOK'
  BY <1>3, <1>5, <1>6, RowsWritten DEF IInv, TypeOK, SignupCommit, Commit, End
<1>8. Tokens' /\ LinkSpentIffVerified'
  BY <1>4, <1>5 DEF Tokens, LinkSpentIffVerified, SignupCommit
<1>9. SessionsEarned'
  BY <1>1, NoRowYet DEF SessionsEarned, SignupCommit
<1>10. RowsNeverAhead'
  <2>1. ~ cached'.present /\ \A v \in Workers : ~ seen'[v].present
    BY <1>1, <1>6, NoRowYet, RowsWritten DEF OthersKeep, SignupCommit
  <2> QED
    BY <2>1 DEF RowsNeverAhead
<1>11. OneWriter'
  BY <1>6, RowsWritten DEF IInv, OneWriter, OthersKeep
<1>12. \A v \in Workers : Progress(v)'
  <2>1. Progress(w)'
    BY <1>6 DEF Progress, AtSignup, AtVerify, AtLogin, AtApple, AtReset, AtRest
  <2>2. \A v \in Workers \ {w} : Progress(v)'
    BY <1>1, <1>3, <1>6, OthersCommitted DEF SignupCommit
  <2> QED
    BY <2>1, <2>2
<1> QED
  BY <1>7, <1>8, <1>9, <1>10, <1>11, <1>12 DEF IInv

\* The commit of an Apple sign-in: a verified account without a link.
LEMMA AppleCommitInv == ASSUME NEW w \in Workers, IInv, AppleCommit(w) PROVE IInv'
<1> USE AccountAssumption, UntouchedAssumption
<1> DEFINE r == NewUser(TRUE, NoPassword)
<1>1. ~ user.present /\ txn[w] = [row |-> r, added |-> {}, spent |-> {}]
  BY DEF IInv, Progress, AtApple, AppleCommit, Goto
<1>2. r \in Row /\ r # Untouched /\ txn[w].row # Untouched
  <2>1. txn[w].row = r
    BY <1>1
  <2> QED
    BY <2>1, NewUserWritten
<1>3. r.present /\ r.verified
  BY DEF NewUser
<1> HIDE DEF r
<1>4. user' = r /\ links' = {} /\ resets' = {}
  BY <1>1, <1>2, NoRowYet DEF AppleCommit, Commit, IInv, Tokens
<1>5. OthersKeep(w) /\ seen'[w] = seen[w] /\ txn'[w] = Nothing /\ pc'[w] = "applesettle"
  BY DEF IInv, TypeOK, AppleCommit, Goto, OthersKeep
<1>6. TypeOK'
  BY <1>2, <1>4, <1>5, RowsWritten DEF IInv, TypeOK, AppleCommit, Commit, Goto
<1>7. Tokens' /\ LinkSpentIffVerified'
  BY <1>3, <1>4 DEF Tokens, LinkSpentIffVerified, AppleCommit
<1>8. SessionsEarned'
  BY <1>1, NoRowYet DEF SessionsEarned, AppleCommit
<1>9. RowsNeverAhead'
  BY <1>1, NoRowYet DEF RowsNeverAhead, AppleCommit
<1>10. OneWriter'
  BY <1>5, RowsWritten DEF IInv, OneWriter, OthersKeep
<1>11. \A v \in Workers : Progress(v)'
  <2>1. Progress(w)'
    BY <1>3, <1>4, <1>5 DEF Progress, AtSignup, AtVerify, AtLogin, AtApple, AtReset, AtRest
  <2>2. \A v \in Workers \ {w} : Progress(v)'
    BY <1>1, <1>2, <1>5, OthersCommitted DEF AppleCommit
  <2> QED
    BY <2>1, <2>2
<1> QED
  BY <1>6, <1>7, <1>8, <1>9, <1>10, <1>11 DEF IInv

\* The commit of a verification: the link goes and the row is marked at once.
LEMMA VerifyCommitInv == ASSUME NEW w \in Workers, IInv, VerifyCommit(w) PROVE IInv'
<1> USE AccountAssumption, UntouchedAssumption
<1> DEFINE r == [user EXCEPT !.verified = TRUE]
<1>1. /\ given[w] \in Links \cap mailed /\ user.present /\ links \subseteq {given[w]}
      /\ txn[w] = [row |-> r, added |-> {}, spent |-> {given[w]}]
  BY DEF IInv, Progress, AtVerify, VerifyCommit
<1>2. r \in Row /\ r # Untouched /\ txn[w].row # Untouched
  BY <1>1, RowsWritten DEF IInv, TypeOK
<1>3. r.present /\ r.verified /\ r.password = user.password /\ r.failed = user.failed
  BY <1>1 DEF IInv, TypeOK, Row
<1> HIDE DEF r
<1>4. user' = r /\ links' = {} /\ resets' = {}
  BY <1>1, <1>2 DEF VerifyCommit, Commit, IInv, Tokens
<1>5. OthersKeep(w) /\ seen'[w] = Absent /\ txn'[w] = Nothing /\ pc'[w] = "idle"
  BY DEF IInv, TypeOK, VerifyCommit, End, OthersKeep
<1>6. TypeOK'
  <2>1. sessions' \subseteq Passwords \cup Links \cup Resets \cup {Apple}
    BY <1>1 DEF IInv, TypeOK, VerifyCommit
  <2> QED
    BY <1>2, <1>4, <1>5, <2>1, RowsWritten DEF IInv, TypeOK, VerifyCommit, Commit, End
<1>7. Tokens' /\ LinkSpentIffVerified'
  BY <1>3, <1>4 DEF Tokens, LinkSpentIffVerified, VerifyCommit
<1>8. SessionsEarned'
  BY <1>1, <1>3, <1>4 DEF IInv, SessionsEarned, VerifyCommit
<1>9. RowsNeverAhead'
  <2>1. SUFFICES ASSUME NEW s \in {cached'} \cup {seen'[v] : v \in Workers}, s.present
                 PROVE  /\ r.present /\ s.password = r.password
                        /\ s.failed = r.failed /\ (s.verified => r.verified)
    BY <1>4 DEF RowsNeverAhead
  <2>2. s \in {cached, Absent} \cup {seen[v] : v \in Workers}
    BY <1>5 DEF OthersKeep, VerifyCommit
  <2> QED
    BY <1>3, <2>1, <2>2, RowsWritten DEF IInv, RowsNeverAhead
<1>10. OneWriter'
  BY <1>5, RowsWritten DEF IInv, OneWriter, OthersKeep
<1>11. \A v \in Workers : Progress(v)'
  <2>1. Progress(w)'
    BY <1>5 DEF Progress, AtSignup, AtVerify, AtLogin, AtApple, AtReset, AtRest
  <2>2. \A v \in Workers \ {w} : Progress(v)'
    BY <1>2, <1>3, <1>4, <1>5, OthersCommitted DEF VerifyCommit
  <2> QED
    BY <2>1, <2>2
<1> QED
  BY <1>6, <1>7, <1>8, <1>9, <1>10, <1>11 DEF IInv

-----------------------------------------------------------------------------
(* The theorems                                                            *)

\* A stuttering step keeps the invariant.
LEMMA StutterInv == ASSUME IInv, UNCHANGED vars PROVE IInv'
<1>1. UNCHANGED <<db, lapsed, cached, checked, mailed, pc, given, seen, txn, sessions, refused>>
  BY DEF vars, db
<1>2. TypeOK'
  BY <1>1 DEF IInv, TypeOK, db
<1>3. Tokens' /\ LinkSpentIffVerified' /\ SessionsEarned' /\ OneWriter'
  BY <1>1 DEF IInv, Tokens, LinkSpentIffVerified, SessionsEarned, OneWriter, db
<1>4. RowsNeverAhead'
  BY <1>1 DEF IInv, RowsNeverAhead, db
<1>5. \A v \in Workers : Progress(v)'
  BY <1>1, LeftAlone DEF IInv, db
<1> QED
  BY <1>2, <1>3, <1>4, <1>5 DEF IInv

\* Every step keeps the invariant.
LEMMA NextInv == IInv /\ [Next]_vars => IInv'
<1> SUFFICES ASSUME IInv, [Next]_vars PROVE IInv'
  OBVIOUS
<1>1. ASSUME NEW w \in Workers, Start(w) PROVE IInv'
  BY <1>1, SignupCheckInv, VerifyReadInv, LoginCachedInv, LoginReadInv, AppleSignInInv,
     AppleCheckInv, RequestResetInv, ConfirmResetInv DEF Start
<1>2. ASSUME NEW w \in Workers, Write(w) PROVE IInv'
  BY <1>2, SignupInsertInv, EndingInv, VerifySpendInv, LoginPasswordInv, AppleInsertInv
  DEF Write
<1>3. ASSUME NEW w \in Workers, Step(w) PROVE IInv'
  BY <1>3, SignupMailInv, EndingInv, SignupCommitInv, VerifyRememberInv, VerifyCommitInv,
     LoginFillInv, LoginAnswerInv, AppleCommitInv, AppleSettleInv DEF Step
<1>4. ASSUME NEW w \in Workers, Abort(w) PROVE IInv'
  BY <1>4, EndingInv
<1>5. CASE RowExpires \/ LinkExpires \/ Lapse
  BY <1>5, TimeoutInv
<1>6. CASE UNCHANGED vars
  BY <1>6, StutterInv
<1> QED
  BY <1>1, <1>2, <1>3, <1>4, <1>5, <1>6 DEF Next

\* The inductive invariant holds in every reachable state of Account, for any
\* number of threads, passwords and tokens.
THEOREM Invariance == Spec => []IInv
<1> QED
  BY InitInv, NextInv, PTL DEF Spec

\* Every variable keeps its type; a thread without a request has nothing flushed.
THEOREM TypeCorrect == Spec => []TypeOK
<1>1. IInv => TypeOK
  BY DEF IInv
<1> QED
  BY <1>1, Invariance, PTL

\* The link of an unverified account is in the table and in a mail that was sent:
\* the route mails it before it commits, and nobody else deletes it.
THEOREM LinkKept == Spec => []UnverifiedHasLink
<1>1. IInv => UnverifiedHasLink
  BY DEF IInv, Tokens, LinkSpentIffVerified, UnverifiedHasLink
<1> QED
  BY <1>1, Invariance, PTL

\* The link is deleted in the transaction that marks the account verified, and no
\* link is stored without an account.
THEOREM LinkSpent == Spec => []LinkSpentIffVerified
<1>1. IInv => LinkSpentIffVerified
  BY DEF IInv
<1> QED
  BY <1>1, Invariance, PTL

\* The cached row, and the rows logins decide on, hold nothing uncommitted: each
\* was the committed row at some time, and the row only gains its verification.
THEOREM CacheBehind == Spec => []RowsNeverAhead
<1>1. IInv => RowsNeverAhead
  BY DEF IInv
<1> QED
  BY <1>1, Invariance, PTL

\* A password that got cookies is the one of the verified account, a link that got
\* them was mailed and is spent, and whatever got them, there is an account: the
\* rows that logins decide on are never ahead of the table, a verification commits
\* before it answers, and nothing takes an account or its verification back.
THEOREM CookiesEarned == Spec => []SessionsEarned
<1>1. IInv => SessionsEarned
  BY DEF IInv
<1> QED
  BY <1>1, Invariance, PTL

\* No step replaces the password of an account or takes its verification back: the
\* only commits are those of a signup and an Apple sign-in, which found no account,
\* and of a verification, whose row is the committed one with the mark.
THEOREM AccountIsKept == Spec => AccountKept
<1>1. IInv /\ [Next]_vars => [Kept]_vars
  <2> SUFFICES ASSUME IInv, [Next]_vars, user.present PROVE Kept
    BY DEF Kept
  <2>1. UNCHANGED user \/ \E w \in Workers : SignupCommit(w) \/ AppleCommit(w) \/ VerifyCommit(w)
    BY DEF Next, Start, Write, Step, SignupCheck, VerifyRead, LoginCached, LoginRead, AppleSignIn,
       AppleCheck, RequestReset, ConfirmReset, SignupInsert, InsertFails, VerifySpend, LoginPassword,
       AppleInsert, SignupMail, MailFails, VerifyRemember, LoginFill, LoginAnswer, AppleSettle,
       ResetMail, Abort, RowExpires, LinkExpires, Lapse, vars, db
  <2>2. CASE UNCHANGED user
    BY <2>2 DEF Kept
  <2>3. ASSUME NEW w \in Workers, SignupCommit(w) \/ AppleCommit(w) PROVE FALSE
    BY <2>3 DEF IInv, Progress, AtSignup, AtApple, SignupCommit, AppleCommit, Goto
  <2>4. ASSUME NEW w \in Workers, VerifyCommit(w) PROVE Kept
    <3>1. txn[w] = [row |-> [user EXCEPT !.verified = TRUE], added |-> {}, spent |-> {given[w]}]
      BY <2>4 DEF IInv, Progress, AtVerify, VerifyCommit
    <3>2. [user EXCEPT !.verified = TRUE] # Untouched
      BY RowsWritten, UntouchedAssumption DEF IInv, TypeOK
    <3>3. user' = [user EXCEPT !.verified = TRUE]
      BY <2>4, <3>1, <3>2 DEF VerifyCommit, Commit
    <3> QED
      BY <3>3 DEF Kept, IInv, TypeOK, Row
  <2> QED
    BY <2>1, <2>2, <2>3, <2>4
<1> QED
  BY <1>1, Invariance, PTL DEF Spec, AccountKept

=============================================================================
