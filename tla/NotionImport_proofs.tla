------------------------ MODULE NotionImport_proofs ------------------------
(***************************************************************************)
(* Proofs about NotionImport, and with it NotionConnection, for any number *)
(* of threads, authorizations and tokens and any contents of the database. *)
(***************************************************************************)
EXTENDS NotionImport, SequenceTheorems, TLAPS

-----------------------------------------------------------------------------
(* The inductive invariant                                                 *)

\* A connection with tokens.
Real == [of : Grants, no : 1 .. MaxTokens, workspace : Grants]

\* What each request has, by the step it is at.
Progress(w) ==
  /\ pc[w] = "exchange" => base[w] \in Real /\ base[w].no < MaxTokens /\ job[w] = "refresh"
  /\ pc[w] \in {"find", "save"} =>
       held[w] \in Real /\ job[w] \in {"callback", "connect", "refresh"}
  /\ pc[w] = "find" => job[w] # "refresh"
  /\ pc[w] = "save" /\ job[w] = "refresh" => base[w] # NoConn
  /\ base[w] # NoConn => row # NoConn /\ base[w].no \leq issued[base[w].of]

\* A request that has got a token and has not saved it.
Carrying(w) == pc[w] \in {"find", "save"}

\* It has the newest token of its authorization, and it alone: the row and the rows
\* other requests start from have older ones.
Newest(w) ==
  /\ held[w].no = issued[held[w].of]
  /\ row.of = held[w].of => row.no < held[w].no
  /\ \A v \in Workers : base[v].of = held[w].of => base[v].no < held[w].no
  /\ \A v \in Workers \ {w} : Carrying(v) => held[v].of # held[w].of

ConnInv ==
  /\ row \in Real \cup {NoConn} /\ cachedConn \in Conns
  /\ listing \in Grants \cup {NoGrant}
  /\ issued \in [Grants -> Nat]
  /\ open \subseteq Grants /\ lost \subseteq Grants
  /\ row # NoConn => row.no \leq issued[row.of]
  /\ RefreshTokenKept
  /\ \A w \in Workers : Progress(w)
  /\ \A w \in Workers : Carrying(w) => Newest(w)

\* The threads.
ReqTypes ==
  /\ pc \in [Workers -> {"idle", "find", "save", "reload", "exchange", "keep", "seal", "drop",
                          "list", "fill", "end", "map", "feedback", "schema", "rows",
                          "generate", "sections", "store", "answer"}]
  /\ job \in [Workers -> {"none", "callback", "connect", "refresh", "read", "databases",
                           "import", "map"}]
  /\ held \in [Workers -> Real \cup {NoConn}] /\ base \in [Workers -> Real \cup {NoConn}]
  /\ \A w \in Workers :
       At(w, "idle") => job[w] = "none" /\ held[w] = NoConn /\ base[w] = NoConn

\* The candidates x.tasks are those of the rows x.rows.
MadeOf(x) ==
  LET rows == Truncated(x.rows) IN
    /\ Len(x.tasks) = Len(rows)
    /\ \A i \in DOMAIN x.tasks :
         /\ rows[i].title = "absent" => x.tasks[i].title = NoTitle
         /\ rows[i].title # "absent" =>
              (x.tasks[i].title = "Untitled" <=> rows[i].title = "blank")

\* What each request has read and made.
AtImport(w) ==
  /\ pc[w] \notin {"generate", "store", "answer"} => work[w] = Nothing
  /\ pc[w] \in {"store", "answer"} => MadeOf(work[w])
  /\ pc[w] = "answer" => \A i \in DOMAIN work[w].tasks : work[w].tasks[i].title # NoTitle

WorkInv ==
  /\ mapping \in Mappings \cup {NoMapping}
  /\ work \in [Workers -> [rows : Seq(DbRow), tasks : Seq(Candidate)]]
  /\ \A w \in Workers : AtImport(w)

IInv == ReqTypes /\ ConnInv /\ WorkInv


-----------------------------------------------------------------------------
(* Steps that change neither the row nor what Notion has issued            *)

\* The part of the connection, and of the requests for it.
CInv == ReqTypes /\ ConnInv

\* The requests other than w stay as they are.
OthersKeep(w) ==
  \A v \in Workers \ {w} :
    pc'[v] = pc[v] /\ job'[v] = job[v] /\ held'[v] = held[v] /\ base'[v] = base[v]

\* NoConn and Sealed are no tokens of an authorization.
LEMMA NotReal ==
  /\ NoConn.of = NoGrant /\ NoConn \notin Real /\ Sealed \notin Real
  /\ Sealed # NoConn
  /\ Conns = {NoConn, Sealed} \cup Real /\ Conns \ {Sealed} = Real \cup {NoConn}
BY NotionAssumption DEF NoConn, Sealed, Conn, Conns, Real

\* The fields of a connection with tokens.
LEMMA RealFields ==
  ASSUME NEW c \in Real
  PROVE  c.of \in Grants /\ c.no \in Nat /\ c.no > 0 /\ c.no \leq MaxTokens
BY NotionAssumption DEF Real

\* A request that is left alone has what it had, if the row does not vanish and no
\* token is taken back.
LEMMA LeftAlone ==
  ASSUME NEW v \in Workers, ReqTypes, ConnInv, issued' \in [Grants -> Nat],
         pc'[v] = pc[v], job'[v] = job[v], held'[v] = held[v], base'[v] = base[v],
         row # NoConn => row' # NoConn,
         \A a \in Grants : issued[a] \leq issued'[a]
  PROVE  Progress(v)'
<1>1. base[v] \in Real \cup {NoConn} /\ Progress(v)
  BY DEF ReqTypes, ConnInv
<1>2. base[v] # NoConn => base[v].of \in Grants /\ base[v].no \in Nat
  BY <1>1, RealFields
<1> QED
  BY <1>1, <1>2 DEF Progress, ConnInv

\* A step of w that leaves the row and the tokens alone keeps the invariant, if what
\* w does next fits it, it does not take up a token, and the one it had is lost when
\* w does not go on to save it.
LEMMA Quiet ==
  ASSUME NEW w \in Workers, CInv, OthersKeep(w), UNCHANGED <<row, issued>>,
         cachedConn' \in Conns, listing' \in Grants \cup {NoGrant},
         open' \subseteq Grants, lost \subseteq lost', lost' \subseteq Grants,
         ReqTypes', Progress(w)', base'[w] \in {base[w], NoConn, row},
         Carrying(w)' => Carrying(w) /\ held'[w] = held[w],
         Unsaved(w) => (Unsaved(w)' /\ held'[w] = held[w]) \/ held[w].of \in lost'
  PROVE  CInv'
<1>1. \A v \in Workers : Progress(v)'
  BY LeftAlone DEF CInv, ConnInv, OthersKeep
<1>2. ASSUME NEW v \in Workers, Carrying(v)' PROVE Newest(v)'
  <2>1. Carrying(v) /\ held'[v] = held[v] /\ Newest(v)
    BY <1>2 DEF CInv, ConnInv, OthersKeep, Carrying
  <2>2. held[v].of \in Grants
    BY <2>1, RealFields DEF CInv, ConnInv, Progress, Carrying
  <2>3. ASSUME NEW u \in Workers, base'[u].of = held[v].of PROVE base'[u].no < held[v].no
    <3>1. base'[u] \in {base[u], NoConn, row}
      BY DEF OthersKeep
    <3>2. base'[u] # NoConn
      BY <2>2, <2>3, NotReal, NotionAssumption
    <3> QED
      BY <2>1, <2>3, <3>1, <3>2 DEF Newest
  <2>4. ASSUME NEW u \in Workers \ {v}, Carrying(u)' PROVE held'[u].of # held'[v].of
    <3>1. Carrying(u) /\ held'[u] = held[u]
      BY <2>4 DEF OthersKeep, Carrying
    <3> QED
      BY <2>1, <3>1 DEF Newest
  <2> QED
    BY <2>1, <2>3, <2>4 DEF Newest
<1>3. RefreshTokenKept'
  <2>1. CASE \E v \in Workers : Unsaved(v) /\ held[v].of = row.of /\ held[v].no = issued[row.of]
    BY <2>1 DEF RefreshTokenKept, OthersKeep, Unsaved, At
  <2> QED
    BY <2>1 DEF CInv, ConnInv, RefreshTokenKept
<1> QED
  BY <1>1, <1>2, <1>3 DEF CInv, ConnInv

\* A step outside the requests.
LEMMA Outside ==
  ASSUME CInv, UNCHANGED <<row, issued, lost, connReqs>>,
         cachedConn' \in Conns, listing' \in Grants \cup {NoGrant}, open' \subseteq Grants
  PROVE  CInv'
<1>1. UNCHANGED <<pc, job, held, base>>
  BY DEF connReqs
<1>2. ReqTypes'
  BY <1>1 DEF CInv, ReqTypes, At
<1>3. \A v \in Workers : Progress(v)'
  BY <1>1 DEF CInv, ConnInv, Progress
<1>4. \A v \in Workers : Carrying(v)' => Newest(v)'
  BY <1>1 DEF CInv, ConnInv, Carrying, Newest
<1>5. RefreshTokenKept'
  BY <1>1 DEF CInv, ConnInv, RefreshTokenKept, Unsaved, At
<1> QED
  BY <1>2, <1>3, <1>4, <1>5 DEF CInv, ConnInv

\* Where a request that ends has got.
LEMMA Ends ==
  ASSUME NEW w \in Workers, CInv, End(w)
  PROVE  ReqTypes' /\ Progress(w)' /\ OthersKeep(w) /\ ~ Carrying(w)'
         /\ base'[w] = NoConn /\ pc'[w] = "idle"
BY DEF CInv, ReqTypes, End, Goto, Hold, Load, At, Progress, OthersKeep, Carrying

\* A request may end at any step, if it saves no refreshed token, or leaves the
\* authorization among the lost ones.
LEMMA EndInv ==
  ASSUME NEW w \in Workers, CInv, End(w), UNCHANGED <<row, issued, open>>,
         cachedConn' \in Conns, listing' \in Grants \cup {NoGrant},
         lost \subseteq lost', lost' \subseteq Grants,
         Unsaved(w) => held[w].of \in lost'
  PROVE  CInv'
<1>1. open' \subseteq Grants
  BY DEF CInv, ConnInv
<1> QED
  BY <1>1, Ends, Quiet

-----------------------------------------------------------------------------
(* The steps of a request for the connection                               *)

\* The first tokens of an authorization: no row and no request has one of it.
LEMMA AuthorizeInv ==
  ASSUME NEW w \in Workers, NEW a \in Grants, NEW route \in {"callback", "connect"},
         CInv, Authorize(w, a, route)
  PROVE  CInv'
<1> USE NotReal
<1> DEFINE c == Conn(a, 1, a)
<1>1. /\ issued[a] = 0 /\ issued' = [issued EXCEPT ![a] = 1] /\ open' = open \ {a}
      /\ UNCHANGED <<row, cachedConn, listing, lost, base>>
      /\ pc[w] = "idle" /\ pc' = [pc EXCEPT ![w] = "find"]
      /\ job' = [job EXCEPT ![w] = route] /\ held' = [held EXCEPT ![w] = c]
  BY DEF Authorize, IsNext, Serve, At, Goto, Hold
<1>2. c \in Real /\ c.of = a /\ c.no = 1
  BY NotionAssumption DEF Conn, Real
<1> HIDE DEF c
<1>3. base[w] = NoConn
  BY <1>1 DEF CInv, ReqTypes, At
<1>4. OthersKeep(w) /\ pc'[w] = "find" /\ job'[w] = route /\ held'[w] = c /\ base'[w] = NoConn
  BY <1>1, <1>3 DEF CInv, ReqTypes, OthersKeep
<1>5. ReqTypes'
  BY <1>1, <1>2 DEF CInv, ReqTypes, At
<1>6. issued' \in [Grants -> Nat] /\ \A b \in Grants : issued'[b] = IF b = a THEN 1 ELSE issued[b]
  BY <1>1 DEF CInv, ConnInv
<1>7. row # NoConn => row.of \in Grants /\ row.of # a /\ row.no \leq issued'[row.of]
  BY <1>1, <1>6, RealFields DEF CInv, ConnInv
<1>8. \A v \in Workers : base[v] # NoConn => base[v].of # a
  BY <1>1, RealFields DEF CInv, ConnInv, ReqTypes, Progress
<1>9. \A v \in Workers : Carrying(v) => held[v].of \in Grants /\ held[v].of # a
  BY <1>1, RealFields DEF CInv, ConnInv, Progress, Carrying, Newest
<1>10. \A v \in Workers : Progress(v)'
  <2>1. Progress(w)'
    BY <1>2, <1>4 DEF Progress
  <2>2. \A b \in Grants : issued[b] \leq issued'[b]
    BY <1>1, <1>6 DEF CInv, ConnInv
  <2>3. ASSUME NEW v \in Workers \ {w} PROVE Progress(v)'
    BY <1>1, <1>4, <1>6, <2>2, LeftAlone DEF CInv, OthersKeep
  <2> QED
    BY <2>1, <2>3
<1>11. ASSUME NEW v \in Workers, Carrying(v)' PROVE Newest(v)'
  <2>1. CASE v = w
    <3>1. held'[v].of = a /\ held'[v].no = 1 /\ issued'[a] = 1
      BY <1>2, <1>4, <1>6, <2>1
    <3>2. row'.of # a
      BY <1>1, <1>7, NotionAssumption
    <3>3. \A u \in Workers : base'[u].of # a
      BY <1>1, <1>8, NotionAssumption
    <3>4. \A u \in Workers \ {v} : Carrying(u)' => held'[u].of # a
      BY <1>4, <1>9, <2>1 DEF OthersKeep, Carrying
    <3> QED
      BY <3>1, <3>2, <3>3, <3>4 DEF Newest
  <2>2. CASE v # w
    <3>1. Carrying(v) /\ held'[v] = held[v] /\ Newest(v)
      BY <1>4, <1>11, <2>2 DEF CInv, ConnInv, OthersKeep, Carrying
    <3>2. held[v].of \in Grants /\ held[v].of # a
      BY <1>9, <3>1
    <3>3. ASSUME NEW u \in Workers \ {v}, Carrying(u)' PROVE held'[u].of # held[v].of
      BY <1>2, <1>4, <3>1, <3>2, <3>3 DEF OthersKeep, Carrying, Newest
    <3> QED
      BY <1>1, <1>6, <3>1, <3>2, <3>3 DEF Newest
  <2> QED
    BY <2>1, <2>2
<1>12. RefreshTokenKept'
  <2>1. row # NoConn => issued'[row.of] = issued[row.of]
    BY <1>6, <1>7
  <2>2. \A v \in Workers : Unsaved(v) => v # w /\ Unsaved(v)' /\ held'[v] = held[v]
    BY <1>1, <1>4 DEF Unsaved, At, OthersKeep
  <2> QED
    BY <1>1, <2>1, <2>2 DEF CInv, ConnInv, RefreshTokenKept
<1> QED
  BY <1>1, <1>5, <1>6, <1>7, <1>10, <1>11, <1>12 DEF CInv, ConnInv

\* What is loaded for the update is the row.
LEMMA FindInv == ASSUME NEW w \in Workers, CInv, Find(w) PROVE CInv'
<1> USE NotReal
<1>1. /\ UNCHANGED <<row, cachedConn, listing, issued, open, lost, job, held>>
      /\ pc[w] = "find" /\ pc' = [pc EXCEPT ![w] = "save"] /\ base' = [base EXCEPT ![w] = row]
  BY DEF Find, connVars, At, Goto, Load
<1>2. OthersKeep(w) /\ pc'[w] = "save" /\ base'[w] = row
  BY <1>1 DEF CInv, ReqTypes, OthersKeep
<1>3. ReqTypes'
  BY <1>1 DEF CInv, ConnInv, ReqTypes, At
<1>4. Progress(w)'
  BY <1>1, <1>2 DEF CInv, ConnInv, Progress
<1>5. ~ Unsaved(w) /\ Carrying(w)
  BY <1>1 DEF Unsaved, At, Carrying
<1> QED
  BY <1>1, <1>2, <1>3, <1>4, <1>5, Quiet DEF CInv, ConnInv

\* The row gets the newest token of its authorization, and no other request has one
\* of it.
LEMMA SaveInv == ASSUME NEW w \in Workers, CInv, Save(w) PROVE CInv'
<1> USE NotReal
<1>1. UNCHANGED <<cachedConn, listing, issued, open, lost>> /\ pc[w] = "save"
  BY DEF Save, At
<1>2. Carrying(w) /\ Newest(w) /\ held[w] \in Real
  BY <1>1 DEF CInv, ConnInv, Carrying, Progress
<1>3. CASE End(w) /\ row' = row
  <2>1. base[w] = NoConn
    <3>1. ASSUME base[w] # NoConn PROVE row'.of = held[w].of /\ row'.no = held[w].no
      BY <3>1, <1>2 DEF Save, Real
    <3>2. row.of = held[w].of => row.no < held[w].no
      BY <1>2 DEF Newest
    <3> QED
      BY <1>2, <1>3, <3>1, <3>2, RealFields DEF CInv, ConnInv
  <2>2. ~ Unsaved(w)
    BY <1>1, <2>1 DEF CInv, ConnInv, Progress, Unsaved, At
  <2> QED
    BY <1>1, <1>3, <2>2, EndInv DEF CInv, ConnInv
<1>4. CASE ~ (End(w) /\ row' = row)
  <2>1. row' \in Real /\ row'.of = held[w].of /\ row'.no = held[w].no
    <3>1. CASE base[w] = NoConn
      BY <1>2, <1>4, <3>1 DEF Save
    <3>2. CASE base[w] # NoConn
      <4>1. row # NoConn /\ row \in Real
        BY <3>2 DEF CInv, ConnInv, Progress
      <4>2. PICK ws \in Grants : row' = [held[w] EXCEPT !.workspace = ws]
        BY <1>2, <3>2, <4>1 DEF Save, Real
      <4> QED
        BY <1>2, <4>2 DEF Real
    <3> QED
      BY <3>1, <3>2
  <2>2. Stored(w) \/ End(w)
    BY DEF Save
  <2>3. /\ OthersKeep(w) /\ ReqTypes' /\ pc'[w] \in {"reload", "idle"}
        /\ held'[w] = NoConn /\ base'[w] = NoConn
    BY <2>2 DEF Stored, End, Goto, Hold, Load, At, CInv, ReqTypes, OthersKeep
  <2>4. row' # NoConn
    BY <2>1
  <2>5. row'.of \in Grants /\ row'.no = issued'[row'.of]
    BY <1>1, <1>2, <2>1, RealFields DEF Newest
  <2>6. issued' \in [Grants -> Nat] /\ \A b \in Grants : issued[b] \leq issued'[b]
    BY <1>1 DEF CInv, ConnInv
  <2>7. \A v \in Workers : Progress(v)'
    <3>1. Progress(w)'
      BY <2>3 DEF Progress
    <3>2. ASSUME NEW v \in Workers \ {w} PROVE Progress(v)'
      BY <2>3, <2>4, <2>6, LeftAlone DEF CInv, OthersKeep
    <3> QED
      BY <3>1, <3>2
  <2>8. ASSUME NEW v \in Workers, Carrying(v)' PROVE Newest(v)'
    <3>1. v # w /\ Carrying(v) /\ held'[v] = held[v] /\ Newest(v)
      BY <2>3, <2>8 DEF CInv, ConnInv, OthersKeep, Carrying
    <3>2. row'.of # held[v].of
      BY <1>2, <2>1, <3>1 DEF Newest
    <3>3. held[v].of \in Grants
      BY <3>1, RealFields DEF CInv, ConnInv, Progress, Carrying
    <3>4. ASSUME NEW u \in Workers, base'[u].of = held[v].of PROVE base'[u].no < held[v].no
      <4>1. u # w
        BY <2>3, <3>3, <3>4, NotionAssumption
      <4> QED
        BY <2>3, <3>1, <3>4, <4>1 DEF Newest, OthersKeep
    <3>5. ASSUME NEW u \in Workers \ {v}, Carrying(u)' PROVE held'[u].of # held[v].of
      BY <2>3, <3>1, <3>5 DEF Newest, OthersKeep, Carrying
    <3> QED
      BY <1>1, <3>1, <3>2, <3>4, <3>5 DEF Newest
  <2>9. RefreshTokenKept'
    BY <2>5 DEF RefreshTokenKept
  <2>10. row'.no \leq issued'[row'.of]
    BY <2>5, <2>6
  <2> QED
    BY <1>1, <2>1, <2>3, <2>6, <2>7, <2>8, <2>9, <2>10 DEF CInv, ConnInv
<1> QED
  BY <1>3, <1>4

\* The committed row is read.
LEMMA ReloadInv == ASSUME NEW w \in Workers, CInv, Reload(w) PROVE CInv'
<1> USE NotReal
<1>1. /\ UNCHANGED <<row, cachedConn, listing, issued, open, lost, job, base>>
      /\ pc[w] = "reload" /\ pc' = [pc EXCEPT ![w] = "keep"] /\ held' = [held EXCEPT ![w] = row]
  BY DEF Reload, connVars, At, Goto, Hold
<1>2. OthersKeep(w) /\ pc'[w] = "keep"
  BY <1>1 DEF CInv, ReqTypes, OthersKeep
<1>3. ReqTypes' /\ Progress(w)' /\ ~ Unsaved(w) /\ ~ Carrying(w)'
  BY <1>1, <1>2 DEF CInv, ConnInv, ReqTypes, At, Progress, Unsaved, Carrying
<1> QED
  BY <1>1, <1>2, <1>3, Quiet DEF CInv, ConnInv

\* The token to exchange is the row's.
LEMMA RefreshLoadInv == ASSUME NEW w \in Workers, CInv, RefreshLoad(w) PROVE CInv'
<1> USE NotReal
<1>1. /\ row # NoConn /\ issued[row.of] < MaxTokens
      /\ UNCHANGED <<row, cachedConn, listing, issued, open, lost, held>>
      /\ pc[w] = "idle" /\ pc' = [pc EXCEPT ![w] = "exchange"]
      /\ job' = [job EXCEPT ![w] = "refresh"] /\ base' = [base EXCEPT ![w] = row]
  BY DEF RefreshLoad, connVars, Serve, At, Goto, Load
<1>2. OthersKeep(w) /\ pc'[w] = "exchange" /\ job'[w] = "refresh" /\ base'[w] = row
  BY <1>1 DEF CInv, ReqTypes, OthersKeep
<1>3. row.of \in Grants /\ row.no \in Nat /\ row \in Real
  BY <1>1, RealFields DEF CInv, ConnInv
<1>4. row.no < MaxTokens
  <2>1. row.no \leq issued[row.of] /\ issued[row.of] \in Nat
    BY <1>1, <1>3 DEF CInv, ConnInv
  <2> QED
    BY <1>1, <1>3, <2>1, NotionAssumption
<1>5. ReqTypes' /\ ~ Unsaved(w) /\ ~ Carrying(w)'
  BY <1>1, <1>2 DEF CInv, ConnInv, ReqTypes, At, Unsaved, Carrying
<1>6. Progress(w)'
  BY <1>1, <1>2, <1>3, <1>4 DEF CInv, ConnInv, Progress
<1> QED
  BY <1>1, <1>2, <1>5, <1>6, Quiet DEF CInv, ConnInv

\* The next token of an authorization goes to a request that had the newest.
LEMMA ExchangeInv == ASSUME NEW w \in Workers, CInv, Exchange(w) PROVE CInv'
<1> USE NotReal
<1> DEFINE a == base[w].of
           n == issued[a] + 1
           c == Conn(a, n, a)
<1>1. pc[w] = "exchange" /\ UNCHANGED <<row, cachedConn, listing, open, lost>>
  BY DEF Exchange, At
<1>2. base[w] \in Real /\ base[w].no < MaxTokens /\ job[w] = "refresh" /\ row # NoConn
  BY <1>1 DEF CInv, ConnInv, Progress
<1>3. a \in Grants /\ base[w].no \in Nat /\ issued[a] \in Nat
  BY <1>2, RealFields DEF CInv, ConnInv
<1>4. CASE base[w].no # issued[a]
  <2>1. End(w) /\ issued' = issued
    BY <1>4 DEF Exchange
  <2>2. ~ Unsaved(w)
    BY <1>1 DEF Unsaved, At
  <2> QED
    BY <1>1, <2>1, <2>2, EndInv DEF CInv, ConnInv
<1>5. CASE base[w].no = issued[a]
  <2>1. /\ issued' = [issued EXCEPT ![a] = n] /\ held' = [held EXCEPT ![w] = c]
        /\ pc' = [pc EXCEPT ![w] = "save"] /\ UNCHANGED <<job, base>>
    BY <1>5 DEF Exchange, Hold, Goto
  <2>2. c \in Real /\ c.of = a /\ c.no = n /\ n \in Nat /\ n > issued[a]
    BY <1>2, <1>3, <1>5, NotionAssumption DEF Conn, Real
  <2>3. a = base[w].of
    OBVIOUS
  <2> HIDE DEF c, n, a
  <2>4. OthersKeep(w) /\ pc'[w] = "save" /\ job'[w] = "refresh" /\ held'[w] = c /\ base'[w] = base[w]
    BY <1>2, <2>1 DEF CInv, ReqTypes, OthersKeep
  <2>5. ReqTypes'
    BY <1>1, <1>2, <2>1, <2>2 DEF CInv, ReqTypes, At
  <2>6. issued' \in [Grants -> Nat] /\ \A b \in Grants : issued'[b] = IF b = a THEN n ELSE issued[b]
    BY <2>1, <2>2 DEF CInv, ConnInv
  <2>7. \A b \in Grants : issued[b] \leq issued'[b]
    BY <1>3, <2>2, <2>6 DEF CInv, ConnInv
  <2>8. row.of \in Grants /\ row.no \in Nat /\ row.no \leq issued[row.of]
    BY <1>2, RealFields DEF CInv, ConnInv
  <2>9. row'.no \leq issued'[row'.of]
    BY <1>1, <1>3, <2>2, <2>6, <2>8 DEF CInv, ConnInv
  <2>10. \A v \in Workers : Progress(v)'
    <3>1. Progress(w)'
      <4>1. base[w].no \leq issued'[a]
        BY <1>3, <1>5, <2>2, <2>6
      <4> QED
        BY <1>1, <1>2, <2>2, <2>3, <2>4, <4>1 DEF Progress
    <3>2. ASSUME NEW v \in Workers \ {w} PROVE Progress(v)'
      BY <1>1, <2>4, <2>6, <2>7, LeftAlone DEF CInv, OthersKeep
    <3> QED
      BY <3>1, <3>2
  <2>11. \A v \in Workers : Carrying(v) => held[v].of \in Grants /\ held[v].of # a
    <3>1. ASSUME NEW v \in Workers, Carrying(v) PROVE held[v].of \in Grants /\ held[v].of # a
      <4>1. Newest(v) /\ held[v].of \in Grants
        BY <3>1, RealFields DEF CInv, ConnInv, Progress, Carrying
      <4>2. base[w].of = held[v].of => base[w].no < held[v].no /\ held[v].no = issued[held[v].of]
        BY <4>1 DEF Newest
      <4> QED
        BY <1>3, <1>5, <2>3, <4>1, <4>2
    <3> QED
      BY <3>1
  <2>12. \A v \in Workers : base[v].of = a => base[v].no < n
    <3>1. ASSUME NEW v \in Workers, base[v].of = a PROVE base[v].no < n
      <4>1. base[v] \in Real
        BY <1>3, <3>1, NotionAssumption DEF CInv, ReqTypes
      <4>2. base[v].no \leq issued[a] /\ base[v].no \in Nat
        BY <3>1, <4>1, RealFields DEF CInv, ConnInv, Progress
      <4> QED
        BY <1>3, <2>2, <4>2
    <3> QED
      BY <3>1
  <2>13. ASSUME NEW v \in Workers, Carrying(v)' PROVE Newest(v)'
    <3>1. CASE v = w
      <4>1. held'[v].of = a /\ held'[v].no = n /\ issued'[a] = n
        BY <1>3, <2>2, <2>4, <2>6, <3>1
      <4>2. row'.of = a => row'.no < n
        BY <1>1, <1>3, <2>2, <2>8
      <4>3. \A u \in Workers \ {v} : Carrying(u)' => held'[u].of # a
        BY <2>4, <2>11, <3>1 DEF OthersKeep, Carrying
      <4> QED
        BY <2>1, <2>12, <4>1, <4>2, <4>3 DEF Newest
    <3>2. CASE v # w
      <4>1. Carrying(v) /\ held'[v] = held[v] /\ Newest(v)
        BY <2>4, <2>13, <3>2 DEF CInv, ConnInv, OthersKeep, Carrying
      <4>2. held[v].of \in Grants /\ held[v].of # a
        BY <2>11, <4>1
      <4>3. ASSUME NEW u \in Workers \ {v}, Carrying(u)' PROVE held'[u].of # held[v].of
        BY <2>2, <2>4, <4>1, <4>2, <4>3 DEF OthersKeep, Carrying, Newest
      <4> QED
        BY <1>1, <2>1, <2>6, <4>1, <4>2, <4>3 DEF Newest
    <3> QED
      BY <3>1, <3>2
  <2>14. RefreshTokenKept'
    <3>1. CASE row.of = a
      <4>1. Unsaved(w)' /\ held'[w].of = row'.of /\ held'[w].no = issued'[row'.of]
        BY <1>1, <1>3, <2>2, <2>4, <2>6, <3>1 DEF Unsaved, At
      <4> QED
        BY <4>1 DEF RefreshTokenKept
    <3>2. CASE row.of # a
      <4>1. issued'[row.of] = issued[row.of]
        BY <2>6, <2>8, <3>2
      <4>2. \A v \in Workers : Unsaved(v) => v # w /\ Unsaved(v)' /\ held'[v] = held[v]
        BY <1>1, <2>4 DEF Unsaved, At, OthersKeep
      <4> QED
        BY <1>1, <4>1, <4>2 DEF CInv, ConnInv, RefreshTokenKept
    <3> QED
      BY <3>1, <3>2
  <2> QED
    BY <1>1, <2>5, <2>6, <2>9, <2>10, <2>13, <2>14 DEF CInv, ConnInv
<1> QED
  BY <1>4, <1>5

\* Where get_connection leaves a request.
LEMMA AfterSteps == \A route : After(route) \in {"drop", "seal", "list", "schema", "end"}
BY DEF After

\* A request that goes on with the connection.
LEMMA ContinueInv ==
  ASSUME NEW w \in Workers, CInv, NEW route \in {"callback", "connect", "refresh", "read",
                                                  "databases", "import", "map", "none"},
         NEW c \in Real \cup {NoConn},
         Continue(w, route, c), UNCHANGED <<row, listing, issued, open, lost, base>>,
         cachedConn' \in Conns, job' = [job EXCEPT ![w] = route], ~ Unsaved(w)
  PROVE  CInv'
<1> DEFINE next == After(route)
<1>1. next \in {"drop", "seal", "list", "schema", "end"}
  BY AfterSteps
<1>2. pc' = [pc EXCEPT ![w] = next]
  BY DEF Continue, Goto
<1> HIDE DEF next
<1>3. PICK x \in Real \cup {NoConn} : held' = [held EXCEPT ![w] = x]
  BY NotReal DEF Continue, Hold
<1>4. OthersKeep(w) /\ pc'[w] = next
  BY <1>2, <1>3 DEF CInv, ReqTypes, OthersKeep
<1>5. ReqTypes'
  BY <1>1, <1>2, <1>3 DEF CInv, ReqTypes, At
<1>6. Progress(w)' /\ ~ Carrying(w)'
  BY <1>1, <1>4 DEF CInv, ConnInv, Progress, Carrying
<1> QED
  BY <1>4, <1>5, <1>6, Quiet DEF CInv, ConnInv

\* The entry has no token, or one.
LEMMA GetCachedInv ==
  ASSUME NEW w \in Workers, NEW route \in {"databases", "import"}, CInv, GetCached(w, route)
  PROVE  CInv'
<1>1. cachedConn \in Real
  BY NotReal DEF CInv, ConnInv, GetCached
<1>2. /\ Continue(w, route, cachedConn) /\ job' = [job EXCEPT ![w] = route] /\ ~ Unsaved(w)
      /\ UNCHANGED <<row, cachedConn, listing, issued, open, lost, base>>
  BY DEF GetCached, Serve, At, Unsaved, connVars
<1> QED
  BY <1>1, <1>2, ContinueInv DEF CInv, ConnInv

\* The request works with the row.
LEMMA GetRowInv ==
  ASSUME NEW w \in Workers, NEW route \in Routes, CInv, GetRow(w, route)
  PROVE  CInv'
<1> USE NotReal
<1>1. /\ UNCHANGED <<row, cachedConn, listing, issued, open, lost, base>>
      /\ pc[w] = "idle" /\ pc' = [pc EXCEPT ![w] = "keep"]
      /\ job' = [job EXCEPT ![w] = route] /\ held' = [held EXCEPT ![w] = row]
  BY DEF GetRow, connVars, Serve, At, Goto, Hold
<1>2. OthersKeep(w) /\ pc'[w] = "keep"
  BY <1>1 DEF CInv, ReqTypes, OthersKeep
<1>3. ReqTypes' /\ Progress(w)' /\ ~ Unsaved(w) /\ ~ Carrying(w)'
  BY <1>1, <1>2 DEF CInv, ConnInv, ReqTypes, At, Progress, Unsaved, Carrying, Routes
<1> QED
  BY <1>1, <1>2, <1>3, Quiet DEF CInv, ConnInv

\* What is kept is the row, or was.
LEMMA KeepInv == ASSUME NEW w \in Workers, CInv, Keep(w) PROVE CInv'
<1>1. /\ UNCHANGED <<row, listing, issued, open, lost, job, base>> /\ cachedConn' = held[w]
      /\ Continue(w, job[w], held[w]) /\ ~ Unsaved(w)
  BY DEF Keep, At, Unsaved
<1>2. job' = [job EXCEPT ![w] = job[w]] /\ held[w] \in Real \cup {NoConn}
  BY <1>1 DEF CInv, ReqTypes
<1>3. job[w] \in {"callback", "connect", "refresh", "read", "databases", "import", "map", "none"}
  BY DEF CInv, ReqTypes
<1> QED
  BY <1>1, <1>2, <1>3, NotReal, ContinueInv

\* The entry is sealed.
LEMMA SealInv == ASSUME NEW w \in Workers, CInv, Seal(w) PROVE CInv'
<1>1. /\ UNCHANGED <<row, listing, issued, open, lost, job, held, base>>
      /\ cachedConn' = Sealed /\ pc[w] = "seal" /\ pc' = [pc EXCEPT ![w] = "drop"]
  BY DEF Seal, At, Goto
<1>2. OthersKeep(w) /\ pc'[w] = "drop"
  BY <1>1 DEF CInv, ReqTypes, OthersKeep
<1>3. ReqTypes' /\ Progress(w)' /\ ~ Unsaved(w) /\ ~ Carrying(w)'
  BY <1>1, <1>2 DEF CInv, ConnInv, ReqTypes, At, Progress, Unsaved, Carrying
<1> QED
  BY <1>1, <1>2, <1>3, NotReal, Quiet DEF CInv, ConnInv

\* The list of databases is dropped, and the request ends.
LEMMA DropInv == ASSUME NEW w \in Workers, CInv, Drop(w) PROVE CInv'
<1>1. /\ UNCHANGED <<row, cachedConn, issued, open, lost>> /\ listing' = NoGrant
      /\ End(w) /\ ~ Unsaved(w)
  BY DEF Drop, At, Unsaved
<1> QED
  BY <1>1, EndInv DEF CInv, ConnInv

\* The list of databases is read.
LEMMA ListCachedInv == ASSUME NEW w \in Workers, CInv, ListCached(w) PROVE CInv'
<1>1. /\ UNCHANGED <<row, cachedConn, listing, issued, open, lost>>
      /\ pc[w] = "list" /\ ~ Unsaved(w)
  BY DEF ListCached, connVars, At, Unsaved
<1>2. CASE End(w)
  BY <1>1, <1>2, EndInv DEF CInv, ConnInv
<1>3. CASE ~ End(w)
  <2>1. pc' = [pc EXCEPT ![w] = "fill"] /\ UNCHANGED <<job, held, base>>
    BY <1>3 DEF ListCached, Goto
  <2>2. OthersKeep(w) /\ pc'[w] = "fill"
    BY <2>1 DEF CInv, ReqTypes, OthersKeep
  <2>3. ReqTypes' /\ Progress(w)' /\ ~ Carrying(w)'
    BY <1>1, <2>1, <2>2 DEF CInv, ConnInv, ReqTypes, At, Progress, Carrying
  <2> QED
    BY <1>1, <2>1, <2>2, <2>3, Quiet DEF CInv, ConnInv
<1> QED
  BY <1>2, <1>3

\* It is kept for the workspace of the connection, or of none.
LEMMA ListFillInv == ASSUME NEW w \in Workers, CInv, ListFill(w) PROVE CInv'
<1>1. /\ UNCHANGED <<row, cachedConn, issued, open, lost>> /\ listing' = held[w].of
      /\ End(w) /\ ~ Unsaved(w)
  BY DEF ListFill, At, Unsaved
<1>2. held[w].of \in Grants \cup {NoGrant}
  BY RealFields, NotReal DEF CInv, ReqTypes
<1> QED
  BY <1>1, <1>2, EndInv DEF CInv, ConnInv

\* The other routes answer.
LEMMA AnswerInv == ASSUME NEW w \in Workers, CInv, Answer(w) PROVE CInv'
<1>1. /\ UNCHANGED <<row, cachedConn, listing, issued, open, lost>>
      /\ End(w) /\ ~ Unsaved(w)
  BY DEF Answer, At, Unsaved, connVars
<1> QED
  BY <1>1, EndInv DEF CInv, ConnInv

\* A refreshed token that dies with its request is among the lost.
LEMMA AbortInv == ASSUME NEW w \in Workers, CInv, Abort(w) PROVE CInv'
<1>1. /\ UNCHANGED <<row, cachedConn, listing, issued, open>> /\ End(w)
      /\ lost' = IF Unsaved(w) THEN lost \cup {held[w].of} ELSE lost
  BY DEF Abort
<1>2. Unsaved(w) => held[w].of \in Grants
  BY RealFields DEF CInv, ConnInv, Progress, Unsaved, At
<1> QED
  BY <1>1, <1>2, EndInv DEF CInv, ConnInv

\* What happens outside the requests.
LEMMA ElsewhereInv == ASSUME CInv, Elsewhere PROVE CInv'
<1> USE NotReal
<1>1. ASSUME NEW a \in Grants, OAuthStart(a) \/ StateExpires(a) PROVE CInv'
  <2>1. UNCHANGED <<row, cachedConn, listing, issued, lost, connReqs>> /\ open' \subseteq Grants
    BY <1>1 DEF OAuthStart, StateExpires, CInv, ConnInv
  <2> QED
    BY <2>1, Outside DEF CInv, ConnInv
<1>2. CASE ConnExpires \/ ListExpires
  <2>1. /\ UNCHANGED <<row, issued, open, lost, connReqs>>
        /\ cachedConn' \in Conns /\ listing' \in Grants \cup {NoGrant}
    BY <1>2 DEF ConnExpires, ListExpires, CInv, ConnInv
  <2> QED
    BY <2>1, Outside DEF CInv, ConnInv
<1> QED
  BY <1>1, <1>2 DEF Elsewhere

\* A request for the connection begins.
LEMMA BeginInv == ASSUME NEW w \in Workers, CInv, Begin(w) PROVE CInv'
<1>1. ASSUME NEW a \in Grants, NEW route \in {"callback", "connect"}, Authorize(w, a, route)
      PROVE  CInv'
  BY <1>1, AuthorizeInv
<1>2. ASSUME NEW route \in {"databases", "import"}, GetCached(w, route) PROVE CInv'
  BY <1>2, GetCachedInv
<1>3. ASSUME NEW route \in Routes, GetRow(w, route) PROVE CInv'
  BY <1>3, GetRowInv
<1> QED
  BY <1>1, <1>2, <1>3, RefreshLoadInv DEF Begin

\* It goes on.
LEMMA ProceedInv == ASSUME NEW w \in Workers, CInv, Proceed(w) PROVE CInv'
BY FindInv, SaveInv, ReloadInv, ExchangeInv, KeepInv, SealInv, DropInv, ListCachedInv,
   ListFillInv, AnswerInv, AbortInv
DEF Proceed

-----------------------------------------------------------------------------
(* The imports                                                             *)

\* A step of w that leaves the connection and what its requests have alone, and does
\* not go near the row.
LEMMA ImportGoesOn ==
  ASSUME NEW w \in Workers, CInv, UNCHANGED <<connVars, held, base>>,
         pc[w] \notin {"find", "save", "exchange"},
         NEW next \in {"map", "feedback", "rows", "generate", "sections", "store", "answer"},
         pc' = [pc EXCEPT ![w] = next],
         job' = job \/ job' = [job EXCEPT ![w] = "map"]
  PROVE  CInv'
<1>1. UNCHANGED <<row, cachedConn, listing, issued, open, lost, held, base>>
  BY DEF connVars
<1>2. OthersKeep(w) /\ pc'[w] = next
  BY <1>1 DEF CInv, ReqTypes, OthersKeep
<1>3. ReqTypes'
  BY <1>1 DEF CInv, ReqTypes, At
<1>4. Progress(w)' /\ ~ Unsaved(w) /\ ~ Carrying(w)'
  BY <1>1, <1>2 DEF CInv, ConnInv, Progress, Unsaved, At, Carrying
<1> QED
  BY <1>1, <1>2, <1>3, <1>4, Quiet DEF CInv, ConnInv

\* A request for an import ends.
LEMMA ImportEnds ==
  ASSUME NEW w \in Workers, CInv, UNCHANGED connVars, End(w),
         pc[w] \notin {"find", "save", "exchange"}
  PROVE  CInv'
<1>1. UNCHANGED <<row, cachedConn, listing, issued, open, lost>> /\ ~ Unsaved(w)
  BY DEF connVars, Unsaved, At
<1> QED
  BY <1>1, EndInv DEF CInv, ConnInv

\* The mapping, the schema, the rows and the candidates do not concern the connection.
LEMMA ImportConn ==
  ASSUME NEW w \in Workers, CInv, MapSchema(w) \/ ImportStep(w)
  PROVE  CInv'
<1>1. CASE MapSchema(w)
  BY <1>1, ImportGoesOn DEF MapSchema, Serve, At, Goto
<1>2. CASE KeepMapping(w) \/ FetchSchema(w) \/ (\E rows \in Tables : FetchRows(w, rows))
            \/ GenerateFromPage(w)
  BY <1>2, ImportGoesOn
  DEF KeepMapping, FetchSchema, FetchRows, GenerateFromPage, FetchBlocks, ExtractSections, At, Goto
<1>3. CASE Feedback(w) \/ Preview(w) \/ AnswerImport(w)
  BY <1>3, ImportEnds DEF Feedback, Preview, AnswerImport, At
<1>4. CASE Generate(w)
  <2>1. pc[w] = "generate" /\ UNCHANGED connVars
    BY <1>4 DEF Generate, At
  <2>2. CASE End(w)
    BY <2>1, <2>2, ImportEnds
  <2>3. CASE ~ End(w)
    <3>1. pc' = [pc EXCEPT ![w] = "store"] /\ UNCHANGED <<job, held, base>>
      BY <1>4, <2>3 DEF Generate, Goto
    <3> QED
      BY <2>1, <3>1, ImportGoesOn
  <2> QED
    BY <2>2, <2>3
<1>5. CASE Store(w)
  <2>1. pc[w] = "store" /\ UNCHANGED connVars
    BY <1>5 DEF Store, At
  <2>2. CASE End(w)
    BY <2>1, <2>2, ImportEnds
  <2>3. CASE ~ End(w)
    <3>1. pc' = [pc EXCEPT ![w] = "answer"] /\ UNCHANGED <<job, held, base>>
      BY <1>5, <2>3 DEF Store, Goto
    <3> QED
      BY <2>1, <3>1, ImportGoesOn
  <2> QED
    BY <2>2, <2>3
<1> QED
  BY <1>1, <1>2, <1>3, <1>4, <1>5 DEF ImportStep

\* The rows up to the cap.
LEMMA TruncatedRows ==
  ASSUME NEW rows \in Seq(DbRow)
  PROVE  Truncated(rows) \in Seq(DbRow) /\ (rows = <<>> => Len(Truncated(rows)) = 0)
<1> DEFINE n == IF Len(rows) > MaxRows THEN MaxRows ELSE Len(rows)
<1>1. n \in Nat /\ n \leq Len(rows) /\ (rows = <<>> => n = 0)
  BY ImportAssumption
<1> HIDE DEF n
<1>2. \A i \in 1 .. n : rows[i] \in DbRow
  BY <1>1
<1>3. SubSeq(rows, 1, n) \in Seq(DbRow) /\ Len(SubSeq(rows, 1, n)) = IF 1 \leq n THEN n ELSE 0
  <2>1. n - 1 + 1 = n
    BY <1>1
  <2> QED
    BY <1>1, <1>2, <2>1, SubSeqProperties
<1> QED
  BY <1>1, <1>3 DEF Truncated, n

\* A request that has read no row has made no candidate.
LEMMA NothingMade == Nothing \in [rows : Seq(DbRow), tasks : Seq(Candidate)] /\ MadeOf(Nothing)
<1>1. <<>> \in Seq(DbRow) /\ <<>> \in Seq(Candidate) /\ Nothing.rows = <<>> /\ Nothing.tasks = <<>>
  BY DEF Nothing
<1>2. Len(Truncated(Nothing.rows)) = 0
  BY <1>1, TruncatedRows
<1> QED
  BY <1>1, <1>2 DEF Nothing, MadeOf

\* What one row becomes.
LEMMA Built ==
  ASSUME NEW r \in DbRow, NEW m
  PROVE  /\ BuildFromRow(r, m) \in Candidate
         /\ r.title = "absent" => BuildFromRow(r, m).title = NoTitle
         /\ r.title # "absent" =>
              (BuildFromRow(r, m).title = "Untitled" <=> r.title = "blank")
<1>1. /\ BuildFromRow(r, m).issues \in BOOLEAN
      /\ BuildFromRow(r, m) = [title |-> BuildFromRow(r, m).title, issues |-> BuildFromRow(r, m).issues]
  BY DEF BuildFromRow, DueIssue
<1>2. CASE r.title = "absent"
  BY <1>1, <1>2 DEF BuildFromRow, Candidate
<1>3. CASE r.title = "blank"
  BY <1>1, <1>3 DEF BuildFromRow, Candidate
<1>4. CASE r.title \notin {"absent", "blank"}
  BY <1>1, <1>4 DEF BuildFromRow, Candidate
<1> QED
  BY <1>2, <1>3, <1>4

\* The candidates of the rows, one for each.
LEMMA BuiltRows ==
  ASSUME NEW rows \in Seq(DbRow), NEW m
  PROVE  LET rs == Truncated(rows)
             ts == [i \in DOMAIN rs |-> BuildFromRow(rs[i], m)]
         IN  ts \in Seq(Candidate) /\ MadeOf([rows |-> rows, tasks |-> ts])
<1> DEFINE rs == Truncated(rows)
           ts == [i \in DOMAIN rs |-> BuildFromRow(rs[i], m)]
<1>1. rs \in Seq(DbRow) /\ DOMAIN rs = 1 .. Len(rs) /\ Len(rs) \in Nat
  BY TruncatedRows
<1>2. \A i \in DOMAIN rs : rs[i] \in DbRow
  BY <1>1
<1>3. \A i \in 1 .. Len(rs) : ts[i] \in Candidate /\ ts[i] = BuildFromRow(rs[i], m)
  BY <1>1, <1>2, Built
<1>4. ts \in [1 .. Len(rs) -> Candidate]
  BY <1>1, <1>3
<1>5. ts \in Seq(Candidate) /\ Len(ts) = Len(rs) /\ DOMAIN ts = 1 .. Len(rs)
  BY <1>1, <1>4
<1>6. \A i \in DOMAIN ts :
        /\ rs[i].title = "absent" => ts[i].title = NoTitle
        /\ rs[i].title # "absent" => (ts[i].title = "Untitled" <=> rs[i].title = "blank")
  BY <1>1, <1>2, <1>3, <1>5, Built
<1> HIDE DEF ts
<1>7. MadeOf([rows |-> rows, tasks |-> ts])
  BY <1>5, <1>6 DEF MadeOf
<1> QED
  BY <1>5, <1>7 DEF ts

\* What a request has made, after a step of w.
LEMMA WorkStep ==
  ASSUME NEW w \in Workers, ReqTypes, WorkInv, mapping' \in Mappings \cup {NoMapping},
         NEW x \in [rows : Seq(DbRow), tasks : Seq(Candidate)], Work(w, x),
         NEW next, pc' = [pc EXCEPT ![w] = next],
         next \notin {"generate", "store", "answer"} => x = Nothing,
         next \in {"store", "answer"} => MadeOf(x),
         next = "answer" => \A i \in DOMAIN x.tasks : x.tasks[i].title # NoTitle
  PROVE  WorkInv'
<1>1. pc'[w] = next /\ work'[w] = x
  BY DEF ReqTypes, WorkInv, Work
<1>2. \A v \in Workers \ {w} : pc'[v] = pc[v] /\ work'[v] = work[v]
  BY DEF ReqTypes, WorkInv, Work
<1>3. work' \in [Workers -> [rows : Seq(DbRow), tasks : Seq(Candidate)]]
  BY DEF WorkInv, Work
<1>4. AtImport(w)'
  BY <1>1 DEF AtImport, MadeOf
<1>5. ASSUME NEW v \in Workers \ {w} PROVE AtImport(v)'
  BY <1>2 DEF WorkInv, AtImport, MadeOf
<1> QED
  BY <1>3, <1>4, <1>5 DEF WorkInv

\* A step that leaves what w has made as it is, or at most drops it when w ends.
LEMMA WorkKeeps ==
  ASSUME NEW w \in Workers, ReqTypes, WorkInv, mapping' \in Mappings \cup {NoMapping},
         NEW next, pc' = [pc EXCEPT ![w] = next],
         next \notin {"generate", "store", "answer"},
         (UNCHANGED work /\ pc[w] \notin {"generate", "store", "answer"}) \/ Work(w, Nothing)
  PROVE  WorkInv'
<1>1. work' = [work EXCEPT ![w] = Nothing]
  <2>1. CASE UNCHANGED work /\ pc[w] \notin {"generate", "store", "answer"}
    <3>1. work[w] = Nothing
      BY <2>1 DEF WorkInv, AtImport
    <3> QED
      BY <2>1, <3>1 DEF WorkInv
  <2> QED
    BY <2>1 DEF Work
<1> QED
  BY <1>1, NothingMade, WorkStep DEF Work

\* Where a step of the connection's requests leads: not into an import.
LEMMA BeginsAt ==
  ASSUME NEW w \in Workers, Begin(w)
  PROVE  pc[w] = "idle" /\ \E next \in {"find", "exchange", "keep", "drop", "seal", "list",
                                        "schema", "end"} : pc' = [pc EXCEPT ![w] = next]
<1>1. ASSUME NEW a \in Grants, NEW route \in {"callback", "connect"}, Authorize(w, a, route)
      PROVE  pc[w] = "idle" /\ pc' = [pc EXCEPT ![w] = "find"]
  BY <1>1 DEF Authorize, Serve, At, Goto
<1>2. CASE RefreshLoad(w)
  BY <1>2 DEF RefreshLoad, Serve, At, Goto
<1>3. ASSUME NEW route \in {"databases", "import"}, GetCached(w, route)
      PROVE  pc[w] = "idle" /\ pc' = [pc EXCEPT ![w] = After(route)]
  BY <1>3 DEF GetCached, Serve, At, Continue, Goto
<1>4. ASSUME NEW route \in Routes, GetRow(w, route)
      PROVE  pc[w] = "idle" /\ pc' = [pc EXCEPT ![w] = "keep"]
  BY <1>4 DEF GetRow, Serve, At, Goto
<1> QED
  BY <1>1, <1>2, <1>3, <1>4, AfterSteps DEF Begin

\* A request that goes on ends, or does not come into an import.
LEMMA ProceedsTo ==
  ASSUME NEW w \in Workers, Proceed(w)
  PROVE  \/ pc' = [pc EXCEPT ![w] = "idle"]
         \/ /\ pc[w] \notin {"generate", "store", "answer"}
            /\ \E next \in {"save", "reload", "keep", "drop", "seal", "list", "schema", "end",
                            "fill"} : pc' = [pc EXCEPT ![w] = next]
<1>1. CASE Find(w) \/ Reload(w) \/ Seal(w)
  BY <1>1 DEF Find, Reload, Seal, At, Goto
<1>2. CASE Save(w)
  BY <1>2 DEF Save, Stored, End, At, Goto
<1>3. CASE Exchange(w)
  BY <1>3 DEF Exchange, End, At, Goto
<1>4. CASE Keep(w)
  BY <1>4, AfterSteps DEF Keep, Continue, At, Goto
<1>5. CASE ListCached(w)
  BY <1>5 DEF ListCached, End, At, Goto
<1>6. CASE Drop(w) \/ ListFill(w) \/ Answer(w) \/ Abort(w)
  BY <1>6 DEF Drop, ListFill, Answer, Abort, End, Goto
<1> QED
  BY <1>1, <1>2, <1>3, <1>4, <1>5, <1>6 DEF Proceed

\* The connection's requests build no candidates.
LEMMA ConnectionWork ==
  ASSUME NEW w \in Workers, ReqTypes, WorkInv, BeginConnection(w) \/ ConnectionStep(w)
  PROVE  WorkInv'
<1>1. mapping' \in Mappings \cup {NoMapping}
  BY DEF WorkInv, BeginConnection, ConnectionStep
<1>2. CASE BeginConnection(w)
  <2>1. /\ pc[w] = "idle" /\ UNCHANGED work
        /\ \E next \in {"find", "exchange", "keep", "drop", "seal", "list", "schema", "end"} :
             pc' = [pc EXCEPT ![w] = next]
    BY <1>2, BeginsAt DEF BeginConnection
  <2> QED
    BY <1>1, <2>1, WorkKeeps
<1>3. CASE ConnectionStep(w) /\ pc' = [pc EXCEPT ![w] = "idle"]
  <2>1. Work(w, Nothing)
    BY <1>3 DEF ConnectionStep, ReqTypes
  <2> QED
    BY <1>1, <1>3, <2>1, WorkKeeps
<1>4. CASE ConnectionStep(w) /\ pc' # [pc EXCEPT ![w] = "idle"]
  <2>1. PICK next \in {"save", "reload", "keep", "drop", "seal", "list", "schema", "end", "fill"} :
          pc[w] \notin {"generate", "store", "answer"} /\ pc' = [pc EXCEPT ![w] = next]
    BY <1>4, ProceedsTo DEF ConnectionStep
  <2>2. UNCHANGED work
    BY <1>4, <2>1 DEF ConnectionStep, ReqTypes, WorkInv, Work
  <2> QED
    BY <1>1, <2>1, <2>2, WorkKeeps
<1> QED
  BY <1>2, <1>3, <1>4

\* The rows that were read become candidates, all of them, or none is left.
LEMMA GenerateWork ==
  ASSUME NEW w \in Workers, ReqTypes, WorkInv, Generate(w)
  PROVE  WorkInv'
<1> DEFINE rows == work[w].rows
           some == [i \in DOMAIN Truncated(rows) |-> BuildFromRow(Truncated(rows)[i], mapping)]
           x == [rows |-> rows, tasks |-> some]
<1>1. rows \in Seq(DbRow) /\ work[w] = [rows |-> rows, tasks |-> work[w].tasks]
  BY DEF WorkInv
<1>2. mapping' \in Mappings \cup {NoMapping}
  BY DEF WorkInv, Generate
<1>3. CASE End(w) /\ Work(w, Nothing)
  BY <1>2, <1>3, WorkKeeps DEF End, Goto
<1>4. CASE ~ (End(w) /\ Work(w, Nothing))
  <2>1. pc' = [pc EXCEPT ![w] = "store"] /\ Work(w, [work[w] EXCEPT !.tasks = some])
    BY <1>4 DEF Generate, Goto
  <2>2. [work[w] EXCEPT !.tasks = some] = x
    BY <1>1
  <2>3. some \in Seq(Candidate) /\ MadeOf(x)
    BY <1>1, BuiltRows
  <2> HIDE DEF some
  <2>4. x \in [rows : Seq(DbRow), tasks : Seq(Candidate)]
    BY <1>1, <2>3
  <2> HIDE DEF x
  <2> QED
    BY <1>2, <2>1, <2>2, <2>3, <2>4, WorkStep
<1> QED
  BY <1>3, <1>4

\* The candidates are stored if all of them have a title.
LEMMA StoreWork ==
  ASSUME NEW w \in Workers, ReqTypes, WorkInv, Store(w)
  PROVE  WorkInv'
<1>1. pc[w] = "store" /\ mapping' \in Mappings \cup {NoMapping}
  BY DEF Store, At, WorkInv
<1>2. CASE End(w) /\ Work(w, Nothing)
  BY <1>1, <1>2, WorkKeeps DEF End, Goto
<1>3. CASE ~ (End(w) /\ Work(w, Nothing))
  <2>1. /\ \A i \in DOMAIN work[w].tasks : work[w].tasks[i].title # NoTitle
        /\ pc' = [pc EXCEPT ![w] = "answer"] /\ UNCHANGED work
    BY <1>3 DEF Store, Goto
  <2>2. work[w] \in [rows : Seq(DbRow), tasks : Seq(Candidate)] /\ MadeOf(work[w])
    BY <1>1 DEF WorkInv, AtImport
  <2>3. Work(w, work[w])
    BY <2>1 DEF WorkInv, Work
  <2> QED
    BY <1>1, <2>1, <2>2, <2>3, WorkStep
<1> QED
  BY <1>2, <1>3

\* The other steps of an import.
LEMMA ImportWork ==
  ASSUME NEW w \in Workers, ReqTypes, WorkInv, MapSchema(w) \/ ImportStep(w)
  PROVE  WorkInv'
<1>1. CASE MapSchema(w) \/ KeepMapping(w) \/ FetchSchema(w) \/ FetchBlocks(w)
  <2>1. UNCHANGED work /\ mapping' \in Mappings \cup {NoMapping}
    BY <1>1 DEF MapSchema, KeepMapping, FetchSchema, FetchBlocks, WorkInv
  <2>2. /\ pc[w] \notin {"generate", "store", "answer"}
        /\ \E next \in {"map", "feedback", "rows", "sections"} : pc' = [pc EXCEPT ![w] = next]
    BY <1>1 DEF MapSchema, Serve, KeepMapping, FetchSchema, FetchBlocks, At, Goto
  <2> QED
    BY <2>1, <2>2, WorkKeeps
<1>2. CASE Feedback(w) \/ Preview(w)
  <2>1. UNCHANGED work /\ mapping' \in Mappings \cup {NoMapping}
    BY <1>2 DEF Feedback, Preview, WorkInv
  <2>2. pc[w] \notin {"generate", "store", "answer"} /\ pc' = [pc EXCEPT ![w] = "idle"]
    BY <1>2 DEF Feedback, Preview, At, End, Goto
  <2> QED
    BY <2>1, <2>2, WorkKeeps
<1>3. ASSUME NEW rows \in Tables, FetchRows(w, rows) PROVE WorkInv'
  <2>1. rows \in Seq(DbRow) /\ <<>> \in Seq(Candidate)
    BY ImportAssumption
  <2>2. mapping' \in Mappings \cup {NoMapping} /\ pc' = [pc EXCEPT ![w] = "generate"]
        /\ Work(w, [rows |-> rows, tasks |-> <<>>])
    BY <1>3 DEF FetchRows, WorkInv, Goto
  <2>3. [rows |-> rows, tasks |-> <<>>] \in [rows : Seq(DbRow), tasks : Seq(Candidate)]
    BY <2>1
  <2> QED
    BY <2>2, <2>3, WorkStep
<1>4. CASE ExtractSections(w)
  <2>1. /\ mapping' \in Mappings \cup {NoMapping} /\ UNCHANGED work
        /\ pc[w] = "sections" /\ pc' = [pc EXCEPT ![w] = "store"]
    BY <1>4 DEF ExtractSections, WorkInv, At, Goto
  <2>2. work[w] = Nothing
    BY <2>1 DEF WorkInv, AtImport
  <2>3. Work(w, Nothing)
    BY <2>1, <2>2 DEF WorkInv, Work
  <2> QED
    BY <2>1, <2>3, NothingMade, WorkStep
<1>5. CASE AnswerImport(w)
  <2>1. /\ mapping' \in Mappings \cup {NoMapping} /\ Work(w, Nothing)
        /\ pc' = [pc EXCEPT ![w] = "idle"]
    BY <1>5 DEF AnswerImport, WorkInv, End, Goto
  <2> QED
    BY <2>1, WorkKeeps
<1> QED
  BY <1>1, <1>2, <1>3, <1>4, <1>5, GenerateWork, StoreWork DEF ImportStep, GenerateFromPage

-----------------------------------------------------------------------------
(* The theorems                                                            *)

\* Nobody is connected at first.
LEMMA InitInv == Init => IInv
<1> SUFFICES ASSUME Init PROVE IInv
  OBVIOUS
<1>1. ReqTypes
  BY DEF Init, InitConnection, ReqTypes
<1>2. ConnInv
  BY NotReal DEF Init, InitConnection, ConnInv, RefreshTokenKept, Progress, Carrying
<1>3. WorkInv
  BY NothingMade DEF Init, InitConnection, WorkInv, AtImport
<1> QED
  BY <1>1, <1>2, <1>3 DEF IInv

\* Every step keeps the invariant.
LEMMA NextInv == IInv /\ [Next]_vars => IInv'
<1> SUFFICES ASSUME IInv, [Next]_vars PROVE IInv'
  OBVIOUS
<1> USE DEF IInv
<1>1. ASSUME NEW w \in Workers, BeginConnection(w) PROVE IInv'
  BY <1>1, BeginInv, ConnectionWork DEF BeginConnection, CInv
<1>2. ASSUME NEW w \in Workers, ConnectionStep(w) PROVE IInv'
  BY <1>2, ProceedInv, ConnectionWork DEF ConnectionStep, CInv
<1>3. ASSUME NEW w \in Workers, MapSchema(w) \/ ImportStep(w) PROVE IInv'
  BY <1>3, ImportConn, ImportWork DEF CInv
<1>4. CASE Elsewhere /\ UNCHANGED <<mapping, work>>
  <2>1. pc' = pc
    BY <1>4 DEF Elsewhere, OAuthStart, StateExpires, ConnExpires, ListExpires, connReqs
  <2>2. WorkInv'
    BY <1>4, <2>1 DEF WorkInv, AtImport, MadeOf
  <2> QED
    BY <1>4, <2>2, ElsewhereInv DEF CInv
<1>5. CASE MappingExpires \/ UNCHANGED vars
  <2>1. UNCHANGED <<row, cachedConn, listing, issued, open, lost, connReqs, pc, work>>
        /\ mapping' \in {mapping, NoMapping}
    BY <1>5 DEF MappingExpires, vars, connVars, connReqs
  <2>2. WorkInv'
    BY <2>1 DEF WorkInv, AtImport, MadeOf
  <2>3. CInv'
    BY <2>1, Outside DEF CInv, ConnInv
  <2> QED
    BY <2>2, <2>3 DEF CInv
<1> QED
  BY <1>1, <1>2, <1>3, <1>4, <1>5 DEF Next, Step

\* The inductive invariant holds in every reachable state of NotionImport, for any
\* number of threads and authorizations, any bound on the tokens and any tables.
THEOREM Invariance == Spec => []IInv
<1> QED
  BY InitInv, NextInv, PTL DEF Spec

\* Every variable keeps its type, and a request that has ended holds nothing.
THEOREM TypeCorrect == Spec => []TypeOK
<1>1. IInv => TypeOK
  BY NotReal DEF IInv, ReqTypes, ConnInv, WorkInv, AtImport, At, TypeOK
<1> QED
  BY <1>1, Invariance, PTL

\* No refresh and no new authorization leaves an old token in the row: whoever gets
\* the newest token of an authorization is alone with it until it is saved, as
\* Notion takes each token once, and nobody else saves one of that authorization.
THEOREM RefreshTokenIsKept == Spec => []RefreshTokenKept
<1>1. IInv => RefreshTokenKept
  BY DEF IInv, ConnInv
<1> QED
  BY <1>1, Invariance, PTL

\* An import that answers has a titled candidate for each row up to the cap:
\* generate_candidates makes all or raises, and one NULL title fails the flush.
THEOREM ImportsAreComplete == Spec => []ImportComplete
<1>1. ASSUME IInv, NEW w \in Workers, At(w, "answer")
      PROVE  LET rows == Truncated(work[w].rows)  tasks == work[w].tasks IN
               /\ Len(tasks) = Len(rows)
               /\ \A i \in DOMAIN tasks :
                    /\ tasks[i].title # NoTitle /\ rows[i].title # "absent"
                    /\ tasks[i].title = "Untitled" <=> rows[i].title = "blank"
  <2>1. AtImport(w) /\ pc[w] = "answer"
    BY <1>1 DEF IInv, WorkInv, At
  <2> QED
    BY <2>1 DEF AtImport, MadeOf
<1>2. IInv => ImportComplete
  BY <1>1 DEF ImportComplete
<1> QED
  BY <1>2, Invariance, PTL

=============================================================================
