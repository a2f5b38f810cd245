-------------------------- MODULE TwoFactor_proofs --------------------------
(***************************************************************************)
(* Proofs about TwoFactor for any number of threads, secrets and batches.  *)
(***************************************************************************)
EXTENDS TwoFactor, TLAPS

-----------------------------------------------------------------------------
(* The inductive invariant                                                 *)

\* What each kind of request is about to write, over the row it decided on.
ToSetup(w) ==
  /\ ~ seen[w].enabled
  /\ DOMAIN change[w] \subseteq {"present", "secret"}

ToVerify(w) ==
  /\ ~ seen[w].enabled /\ seen[w].secret \in Secrets
  /\ DOMAIN change[w] \subseteq {"enabled", "codes"}
  /\ "enabled" \in DOMAIN change[w] /\ change[w]["enabled"] = TRUE

ToDisable(w) ==
  /\ "enabled" \in DOMAIN change[w] => change[w]["enabled"] = FALSE
  /\ LET new == Written(change[w], seen[w]) IN new.enabled = FALSE /\ new.codes = {}

ToRegenerate(w) ==
  /\ seen[w].enabled
  /\ DOMAIN change[w] \subseteq {"codes"}

\* What each request has, by the step it is at.
Progress(w) ==
  /\ pc[w] = "find" => ~ seen[w].enabled /\ change[w]["secret"] \in Secrets
  /\ pc[w] = "setup" => ToSetup(w)
  /\ pc[w] = "verify" => ToVerify(w)
  /\ pc[w] = "disable" => ToDisable(w)
  /\ pc[w] = "regenerate" => ToRegenerate(w)
  /\ pc[w] = "commit" => ToSetup(w) \/ ToVerify(w) \/ ToDisable(w) \/ ToRegenerate(w)

IInv ==
  /\ TypeOK
  /\ EnabledIsProven
  /\ NoCodesWhileDisabled
  /\ \A w \in Workers : Progress(w)

-----------------------------------------------------------------------------
(* Columns                                                                 *)

\* A row is a function on the names of its columns.
LEMMA RowColumns ==
  ASSUME NEW r \in Row
  PROVE  /\ DOMAIN r = {"present", "secret", "enabled", "codes"}
         /\ r["present"] \in BOOLEAN /\ r["secret"] \in Secrets \cup {NoSecret}
         /\ r["enabled"] \in BOOLEAN /\ r["codes"] \in SUBSET BackupCodes
BY DEF Row

\* So is the missing row.
LEMMA BlankRow == Blank \in Row
BY DEF Blank, Row

\* Columns that can be written over one row can be written over any.
LEMMA WrittenRow ==
  ASSUME NEW chg, DOMAIN chg \subseteq DOMAIN Blank, Written(chg, Blank) \in Row, NEW r \in Row
  PROVE  Written(chg, r) \in Row
BY RowColumns, BlankRow DEF Row, Written

\* The UPDATE of a row from old to new writes the columns that differ, and makes it
\* new if it was still old.
LEMMA DifferingWritten ==
  ASSUME NEW new \in Row, NEW old \in Row
  PROVE  /\ DOMAIN Differing(new, old) = {c \in DOMAIN new : new[c] # old[c]}
         /\ DOMAIN Differing(new, old) \subseteq DOMAIN Blank
         /\ Written(Differing(new, old), old) = new
         /\ Written(Differing(new, old), Blank) \in Row
BY BlankRow DEF Row, Written, Differing

\* A request that writes nothing.
LEMMA NoChangeWritten ==
  /\ DOMAIN NoChange = {} /\ DOMAIN NoChange \subseteq DOMAIN Blank
  /\ Written(NoChange, Blank) = Blank
BY DEF NoChange, Written, Blank

\* A request that writes one column.
LEMMA OneColumn ==
  /\ \A s \in Secrets \cup {NoSecret} :
       /\ DOMAIN [secret |-> s] = {"secret"} /\ [secret |-> s]["secret"] = s
       /\ DOMAIN [secret |-> s] \subseteq DOMAIN Blank
       /\ Written([secret |-> s], Blank) \in Row
  /\ \A c \in SUBSET BackupCodes :
       /\ DOMAIN [codes |-> c] = {"codes"}
       /\ DOMAIN [codes |-> c] \subseteq DOMAIN Blank
       /\ Written([codes |-> c], Blank) \in Row
BY DEF Written, Blank, Row

-----------------------------------------------------------------------------
(* The initial states, and the steps that commit nothing                   *)

\* Two-factor authentication is off at first.
LEMMA InitInv == Init => IInv
<1> SUFFICES ASSUME Init PROVE IInv
  OBVIOUS
<1>1. TypeOK
  BY BlankRow, NoChangeWritten DEF Init, TypeOK
<1>2. EnabledIsProven /\ NoCodesWhileDisabled
  BY DEF Init, EnabledIsProven, NoCodesWhileDisabled, Blank
<1>3. \A w \in Workers : Progress(w)
  BY DEF Init, Progress
<1> QED
  BY <1>1, <1>2, <1>3 DEF IInv

\* What becomes of the requests other than w.
OthersKeep(w) ==
  \A v \in Workers \ {w} : pc'[v] = pc[v] /\ seen'[v] = seen[v] /\ change'[v] = change[v]

\* The other requests are where they were.
LEMMA OthersProgress ==
  ASSUME NEW w \in Workers, IInv, OthersKeep(w)
  PROVE  \A v \in Workers \ {w} : Progress(v)'
BY DEF IInv, OthersKeep, Progress, ToSetup, ToVerify, ToDisable, ToRegenerate

\* A step that commits nothing keeps what is said of the row.
LEMMA Uncommitted ==
  ASSUME NEW w \in Workers, IInv, OthersKeep(w), UNCHANGED <<row, proven, stale>>,
         TypeOK', Progress(w)'
  PROVE  IInv'
<1>1. EnabledIsProven' /\ NoCodesWhileDisabled'
  BY DEF IInv, EnabledIsProven, NoCodesWhileDisabled
<1> QED
  BY <1>1, OthersProgress DEF IInv

\* A request that has ended has nothing to write.
LEMMA EndProgress ==
  ASSUME NEW w \in Workers, TypeOK, End(w)
  PROVE  /\ OthersKeep(w) /\ Progress(w)'
         /\ pc' \in [Workers -> {"idle", "find", "setup", "verify", "disable", "regenerate",
                                 "login", "commit", "accept"}]
         /\ seen' \in [Workers -> Row]
         /\ lock' \in Workers \cup {NoWorker}
         /\ DOMAIN change' = Workers
         /\ \A v \in Workers : /\ DOMAIN change'[v] \subseteq DOMAIN Blank
                               /\ Written(change'[v], Blank) \in Row
<1>1. OthersKeep(w) /\ pc'[w] = "idle"
  BY DEF End, OthersKeep, TypeOK
<1> QED
  BY <1>1, BlankRow, NoChangeWritten DEF End, TypeOK, Progress

\* Abort, and the INSERT that fails.
LEMMA EndInv ==
  ASSUME NEW w \in Workers, IInv, Abort(w) \/ InsertFails(w)
  PROVE  IInv'
<1>1. End(w) /\ UNCHANGED <<row, issued, batches, proven, spent, reused, stale>>
  BY DEF Abort, InsertFails
<1>2. TypeOK'
  BY <1>1, EndProgress DEF IInv, TypeOK
<1> QED
  BY <1>1, <1>2, EndProgress, Uncommitted DEF IInv

\* A request that starts: what it decided on is the committed row.
LEMMA LoadInv ==
  ASSUME NEW w \in Workers, IInv, NEW label \in {"find", "verify", "disable", "regenerate", "login"},
         NEW chg, Load(w, label, chg), DOMAIN chg \subseteq DOMAIN Blank, Written(chg, Blank) \in Row,
         issued' \subseteq Secrets, batches' \subseteq Batches, Progress(w)'
  PROVE  IInv'
<1>1. TypeOK'
  BY DEF IInv, TypeOK, Load
<1>2. OthersKeep(w) /\ UNCHANGED <<row, proven, stale>>
  BY DEF IInv, TypeOK, Load, OthersKeep
<1> QED
  BY <1>1, <1>2, Uncommitted

\* Setup has found 2FA disabled.
LEMMA SetupCheckInv == ASSUME NEW w \in Workers, IInv, SetupCheck(w) PROVE IInv'
<1>1. PICK s \in Secrets \ issued : issued' = issued \cup {s} /\ Load(w, "find", [secret |-> s])
  BY DEF SetupCheck
<1>2. pc'[w] = "find" /\ seen'[w] = row /\ change'[w] = [secret |-> s]
  BY <1>1 DEF Load, IInv, TypeOK
<1>3. Progress(w)'
  BY <1>2, OneColumn DEF Progress, SetupCheck
<1>4. issued' \subseteq Secrets /\ batches' \subseteq Batches
  BY <1>1 DEF IInv, TypeOK, SetupCheck
<1> QED
  BY <1>1, <1>3, <1>4, LoadInv, OneColumn

\* Enabling: the row the request decided on has a secret.
LEMMA VerifySetupInv == ASSUME NEW w \in Workers, IInv, VerifySetup(w) PROVE IInv'
<1>1. PICK b \in Batches \ batches :
        /\ batches' = batches \cup {b}
        /\ Load(w, "verify", Differing([row EXCEPT !.enabled = TRUE, !.codes = CodesOf(b)], row))
  BY DEF VerifySetup
<1> DEFINE new == [row EXCEPT !.enabled = TRUE, !.codes = CodesOf(b)]
           chg == Differing(new, row)
<1>2. row \in Row /\ ~ row.enabled /\ row.secret \in Secrets
  BY DEF IInv, TypeOK, VerifySetup, Row
<1>3. CodesOf(b) \in SUBSET BackupCodes
  BY DEF CodesOf, BackupCodes
<1>4. /\ new \in Row /\ new["enabled"] = TRUE
      /\ new["present"] = row["present"] /\ new["secret"] = row["secret"]
  BY <1>2, <1>3 DEF Row
<1> HIDE DEF new
<1>5. /\ DOMAIN chg = {c \in DOMAIN new : new[c] # row[c]}
      /\ \A c \in DOMAIN chg : chg[c] = new[c]
      /\ DOMAIN chg \subseteq DOMAIN Blank /\ Written(chg, Blank) \in Row
  BY <1>2, <1>4, DifferingWritten DEF Differing
<1>6. DOMAIN chg \subseteq {"enabled", "codes"} /\ "enabled" \in DOMAIN chg /\ chg["enabled"] = TRUE
  BY <1>2, <1>4, <1>5, RowColumns
<1>7. Load(w, "verify", chg)
  BY <1>1 DEF new
<1> HIDE DEF chg
<1>8. pc'[w] = "verify" /\ seen'[w] = row /\ change'[w] = chg
  BY <1>7 DEF Load, IInv, TypeOK
<1>9. Progress(w)'
  BY <1>2, <1>6, <1>8 DEF Progress, ToVerify
<1>10. issued' \subseteq Secrets /\ batches' \subseteq Batches
  BY <1>1 DEF IInv, TypeOK, VerifySetup
<1> QED
  BY <1>5, <1>7, <1>9, <1>10, LoadInv

\* Disabling.
LEMMA DisableInv == ASSUME NEW w \in Workers, IInv, Disable(w) PROVE IInv'
<1> DEFINE new == [row EXCEPT !.enabled = FALSE, !.secret = NoSecret, !.codes = {}]
           chg == Differing(new, row)
<1>1. row \in Row
  BY DEF IInv, TypeOK
<1>2. new \in Row /\ new["enabled"] = FALSE /\ new["codes"] = {}
  BY <1>1 DEF Row
<1>3. Load(w, "disable", chg)
  BY DEF Disable
<1> HIDE DEF new
<1>4. /\ Written(chg, row) = new
      /\ \A c \in DOMAIN chg : chg[c] = new[c]
      /\ DOMAIN chg \subseteq DOMAIN Blank /\ Written(chg, Blank) \in Row
  BY <1>1, <1>2, DifferingWritten DEF Differing
<1> HIDE DEF chg
<1>5. pc'[w] = "disable" /\ seen'[w] = row /\ change'[w] = chg
  BY <1>3 DEF Load, IInv, TypeOK
<1>6. Progress(w)'
  BY <1>2, <1>4, <1>5 DEF Progress, ToDisable
<1>7. issued' \subseteq Secrets /\ batches' \subseteq Batches
  BY DEF IInv, TypeOK, Disable
<1> QED
  BY <1>3, <1>4, <1>6, <1>7, LoadInv

\* New backup codes.
LEMMA RegenerateInv == ASSUME NEW w \in Workers, IInv, Regenerate(w) PROVE IInv'
<1>1. PICK b \in Batches \ batches :
        /\ batches' = batches \cup {b}
        /\ Load(w, "regenerate", Differing([row EXCEPT !.codes = CodesOf(b)], row))
  BY DEF Regenerate
<1> DEFINE new == [row EXCEPT !.codes = CodesOf(b)]
           chg == Differing(new, row)
<1>2. row \in Row /\ row.enabled
  BY DEF IInv, TypeOK, Regenerate
<1>3. CodesOf(b) \in SUBSET BackupCodes
  BY DEF CodesOf, BackupCodes
<1>4. /\ new \in Row /\ new["present"] = row["present"] /\ new["secret"] = row["secret"]
      /\ new["enabled"] = row["enabled"]
  BY <1>2, <1>3 DEF Row
<1> HIDE DEF new
<1>5. /\ DOMAIN chg = {c \in DOMAIN new : new[c] # row[c]}
      /\ DOMAIN chg \subseteq DOMAIN Blank /\ Written(chg, Blank) \in Row
  BY <1>2, <1>4, DifferingWritten
<1>6. DOMAIN chg \subseteq {"codes"}
  BY <1>2, <1>4, <1>5, RowColumns
<1>7. Load(w, "regenerate", chg)
  BY <1>1 DEF new
<1> HIDE DEF chg
<1>8. pc'[w] = "regenerate" /\ seen'[w] = row /\ change'[w] = chg
  BY <1>7 DEF Load, IInv, TypeOK
<1>9. Progress(w)'
  BY <1>2, <1>6, <1>8 DEF Progress, ToRegenerate
<1>10. issued' \subseteq Secrets /\ batches' \subseteq Batches
  BY <1>1 DEF IInv, TypeOK, Regenerate
<1> QED
  BY <1>5, <1>7, <1>9, <1>10, LoadInv

\* A login with a backup code.
LEMMA LoginInv == ASSUME NEW w \in Workers, IInv, LoginWithBackupCode(w) PROVE IInv'
<1>1. PICK c \in row.codes : Load(w, "login", [codes |-> row.codes \ {c}])
  BY DEF LoginWithBackupCode
<1>2. row.codes \ {c} \in SUBSET BackupCodes
  BY DEF IInv, TypeOK, Row
<1>3. pc'[w] = "login"
  BY <1>1 DEF Load, IInv, TypeOK
<1>4. Progress(w)'
  BY <1>3 DEF Progress
<1>5. issued' \subseteq Secrets /\ batches' \subseteq Batches
  BY DEF IInv, TypeOK, LoginWithBackupCode
<1> QED
  BY <1>1, <1>2, <1>4, <1>5, LoadInv, OneColumn

\* Setup has loaded the row afresh: it writes the secret, and nothing else of a row
\* that is there.
LEMMA SetupFindInv == ASSUME NEW w \in Workers, IInv, SetupFind(w) PROVE IInv'
<1> DEFINE s == change[w]["secret"]
           new == [row EXCEPT !.present = TRUE, !.secret = s]
           chg == Differing(new, row)
<1>1. row \in Row /\ s \in Secrets /\ ~ seen[w].enabled
  BY DEF IInv, TypeOK, Progress, SetupFind
<1>2. change' = [change EXCEPT ![w] = chg]
  BY DEF SetupFind
<1> HIDE DEF s
<1>3. new \in Row /\ new["enabled"] = row["enabled"] /\ new["codes"] = row["codes"]
  BY <1>1 DEF Row
<1> HIDE DEF new
<1>4. /\ DOMAIN chg = {c \in DOMAIN new : new[c] # row[c]}
      /\ DOMAIN chg \subseteq DOMAIN Blank /\ Written(chg, Blank) \in Row
  BY <1>1, <1>3, DifferingWritten
<1>5. DOMAIN chg \subseteq {"present", "secret"}
  BY <1>1, <1>3, <1>4, RowColumns
<1> HIDE DEF chg
<1>6. pc'[w] = "setup" /\ seen'[w] = seen[w] /\ change'[w] = chg /\ OthersKeep(w)
  BY <1>2 DEF SetupFind, IInv, TypeOK, OthersKeep
<1>7. TypeOK'
  BY <1>2, <1>4 DEF IInv, TypeOK, SetupFind
<1>8. Progress(w)'
  BY <1>1, <1>5, <1>6 DEF Progress, ToSetup
<1> QED
  BY <1>6, <1>7, <1>8, Uncommitted DEF SetupFind

\* The UPDATE is sent: what it writes stays.
LEMMA FlushInv == ASSUME NEW w \in Workers, IInv, Flush(w) PROVE IInv'
<1>1. /\ pc'[w] \in {"commit", "accept"}
      /\ pc'[w] = "commit" => pc[w] # "login"
      /\ pc[w] \in {"setup", "verify", "disable", "regenerate", "login"}
      /\ OthersKeep(w) /\ UNCHANGED <<row, seen, change, proven, stale>>
  BY DEF Flush, IInv, TypeOK, OthersKeep
<1>2. TypeOK'
  BY DEF IInv, TypeOK, Flush
<1>3. Progress(w)'
  <2>1. pc'[w] = "commit" => ToSetup(w) \/ ToVerify(w) \/ ToDisable(w) \/ ToRegenerate(w)
    BY <1>1 DEF IInv, Progress
  <2>2. pc'[w] = "commit" => ToSetup(w)' \/ ToVerify(w)' \/ ToDisable(w)' \/ ToRegenerate(w)'
    BY <1>1, <2>1 DEF ToSetup, ToVerify, ToDisable, ToRegenerate
  <2> QED
    BY <1>1, <2>2 DEF Progress
<1> QED
  BY <1>1, <1>2, <1>3, Uncommitted

\* A backup code is accepted, and its removal rolled back.
LEMMA AcceptInv == ASSUME NEW w \in Workers, IInv, Accept(w) PROVE IInv'
<1>1. End(w) /\ UNCHANGED <<row, issued, batches, proven, stale>>
  BY DEF Accept
<1>2. seen[w].codes \subseteq BackupCodes
  BY DEF IInv, TypeOK, Row
<1>3. spent' \subseteq BackupCodes /\ reused' \subseteq spent'
  BY <1>2 DEF Accept, IInv, TypeOK
<1>4. TypeOK'
  BY <1>1, <1>3, EndProgress DEF IInv, TypeOK
<1> QED
  BY <1>1, <1>4, EndProgress, Uncommitted DEF IInv

-----------------------------------------------------------------------------
(* The commit                                                              *)

\* What a commit over a row nobody has changed makes of it.
LEMMA Committed ==
  ASSUME NEW w \in Workers, IInv, Commit(w), ~ stale'
  PROVE  /\ ~ stale /\ row \in Row /\ row' \in Row
         /\ ToSetup(w) => ~ row.enabled /\ ~ row'.enabled /\ row'.codes = row.codes
         /\ ToVerify(w) => ~ row.enabled /\ row'.enabled /\ row'.secret \in proven'
         /\ ToDisable(w) => ~ row'.enabled /\ row'.codes = {}
         /\ ToRegenerate(w) => row.enabled /\ row'.enabled /\ row'.secret = row.secret
<1>1. row = seen[w] /\ ~ stale /\ row' = Written(change[w], row)
  BY DEF Commit
<1>2. row \in Row /\ row' \in Row
  BY <1>1, WrittenRow DEF IInv, TypeOK
<1>3. \A col \in {"present", "secret", "enabled", "codes"} :
        row'[col] = IF col \in DOMAIN change[w] THEN change[w][col] ELSE row[col]
  BY <1>1, <1>2, RowColumns DEF Written
<1>4. ToVerify(w) => proven' = proven \cup {seen[w].secret}
  BY DEF Commit, ToVerify
<1>5. ToSetup(w) => ~ row.enabled /\ ~ row'.enabled /\ row'.codes = row.codes
  BY <1>1, <1>3 DEF ToSetup
<1>6. ToVerify(w) => ~ row.enabled /\ row'.enabled /\ row'.secret \in proven'
  BY <1>1, <1>3, <1>4 DEF ToVerify
<1>7. ToDisable(w) => ~ row'.enabled /\ row'.codes = {}
  BY <1>1 DEF ToDisable
<1>8. ToRegenerate(w) => row.enabled /\ row'.enabled /\ row'.secret = row.secret
  BY <1>1, <1>3 DEF ToRegenerate
<1> QED
  BY <1>1, <1>2, <1>5, <1>6, <1>7, <1>8

\* A commit writes what the request has flushed; if the row has changed under it,
\* stale says so.
LEMMA CommitInv == ASSUME NEW w \in Workers, IInv, Commit(w) PROVE IInv'
<1>1. ToSetup(w) \/ ToVerify(w) \/ ToDisable(w) \/ ToRegenerate(w)
  BY DEF IInv, Progress, Commit
<1>2. End(w) /\ UNCHANGED <<issued, batches, spent, reused>> /\ proven \subseteq proven'
  BY DEF Commit
<1>3. row' \in Row
  BY WrittenRow DEF Commit, IInv, TypeOK
<1>4. proven' \subseteq Secrets
  <2>1. CASE "enabled" \in DOMAIN change[w] /\ change[w].enabled
    <3>1. ToVerify(w)
      BY <1>1, <2>1 DEF ToSetup, ToDisable, ToRegenerate
    <3> QED
      BY <3>1 DEF ToVerify, Commit, IInv, TypeOK
  <2>2. CASE ~ ("enabled" \in DOMAIN change[w] /\ change[w].enabled)
    BY <2>2 DEF Commit, IInv, TypeOK
  <2> QED
    BY <2>1, <2>2
<1>5. stale' \in BOOLEAN
  BY DEF Commit, IInv, TypeOK
<1>6. TypeOK'
  BY <1>2, <1>3, <1>4, <1>5, EndProgress DEF IInv, TypeOK
<1>7. EnabledIsProven' /\ NoCodesWhileDisabled'
  <2> SUFFICES ASSUME ~ stale'
               PROVE  /\ row'.enabled => row'.secret \in proven'
                      /\ ~ row'.enabled => row'.codes = {}
    BY DEF EnabledIsProven, NoCodesWhileDisabled
  <2>1. CASE ToSetup(w)
    BY <2>1, Committed DEF IInv, NoCodesWhileDisabled
  <2>2. CASE ToVerify(w)
    BY <2>2, Committed
  <2>3. CASE ToDisable(w)
    BY <2>3, Committed
  <2>4. CASE ToRegenerate(w)
    BY <2>4, <1>2, Committed DEF IInv, EnabledIsProven
  <2> QED
    BY <1>1, <2>1, <2>2, <2>3, <2>4
<1>8. \A v \in Workers : Progress(v)'
  BY <1>2, EndProgress, OthersProgress DEF IInv
<1> QED
  BY <1>6, <1>7, <1>8 DEF IInv

-----------------------------------------------------------------------------
(* The theorems                                                            *)

\* Every step keeps the invariant.
LEMMA NextInv == IInv /\ [Next]_vars => IInv'
<1> SUFFICES ASSUME IInv, [Next]_vars PROVE IInv'
  OBVIOUS
<1>1. ASSUME NEW w \in Workers, Start(w) PROVE IInv'
  BY <1>1, SetupCheckInv, VerifySetupInv, DisableInv, RegenerateInv, LoginInv DEF Start
<1>2. ASSUME NEW w \in Workers, Step(w) PROVE IInv'
  BY <1>2, SetupFindInv, FlushInv, EndInv, CommitInv, AcceptInv DEF Step
<1>3. ASSUME NEW w \in Workers, Abort(w) PROVE IInv'
  BY <1>3, EndInv
<1>4. CASE UNCHANGED vars
  BY <1>4 DEF vars, IInv, TypeOK, EnabledIsProven, NoCodesWhileDisabled, Progress, ToSetup,
     ToVerify, ToDisable, ToRegenerate
<1> QED
  BY <1>1, <1>2, <1>3, <1>4 DEF Next

\* The inductive invariant holds in every reachable state of TwoFactor, for any
\* number of threads, secrets and batches.
THEOREM Invariance == Spec => []IInv
<1> QED
  BY InitInv, NextInv, PTL DEF Spec

\* Every variable keeps its type: what a request writes are columns of the row.
THEOREM TypeCorrect == Spec => []TypeOK
<1>1. IInv => TypeOK
  BY DEF IInv
<1> QED
  BY <1>1, Invariance, PTL

\* Unless a request has committed over a row that changed under it, 2FA is enabled
\* only with a secret that verify_setup saw a code of.
THEOREM AlwaysProven == Spec => []EnabledIsProven
<1>1. IInv => EnabledIsProven
  BY DEF IInv
<1> QED
  BY <1>1, Invariance, PTL

\* Likewise, the codes go when 2FA is disabled.
THEOREM CodesGo == Spec => []NoCodesWhileDisabled
<1>1. IInv => NoCodesWhileDisabled
  BY DEF IInv
<1> QED
  BY <1>1, Invariance, PTL

\* Likewise, no step replaces the secret of a row that stays enabled: only a
\* commit changes the row, and one that writes the secret found it disabled or
\* disables it.
THEOREM SecretIsKept == Spec => SecretKeptWhileEnabled
<1>1. IInv /\ [Next]_vars => [SecretKept]_vars
  <2> SUFFICES ASSUME IInv, [Next]_vars, row.enabled, row'.enabled, ~ stale'
               PROVE  row'.secret = row.secret
    BY DEF SecretKept
  <2>1. UNCHANGED row \/ \E w \in Workers : Commit(w)
    BY DEF Next, Start, Step, SetupCheck, VerifySetup, Disable, Regenerate, LoginWithBackupCode,
       Load, SetupFind, Flush, InsertFails, Accept, Abort, vars
  <2>2. ASSUME NEW w \in Workers, Commit(w) PROVE row'.secret = row.secret
    <3>1. ToSetup(w) \/ ToVerify(w) \/ ToDisable(w) \/ ToRegenerate(w)
      BY <2>2 DEF IInv, Progress, Commit
    <3> QED
      BY <2>2, <3>1, Committed
  <2> QED
    BY <2>1, <2>2
<1> QED
  BY <1>1, Invariance, PTL DEF Spec, SecretKeptWhileEnabled

=============================================================================
