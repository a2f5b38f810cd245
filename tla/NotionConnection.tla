-------------------------- MODULE NotionConnection --------------------------
(***************************************************************************)
(* The Notion connection of one user (app/notion: auth/service.py,         *)
(* auth/oauth_state_service.py, routes/api.py): the row, its cache entry,  *)
(* the cached list of databases, and the tokens as Notion knows them.      *)
(*                                                                         *)
(* An authorization gives its first tokens for a code, once; each refresh  *)
(* token is good for one exchange, which gives the next.  An access token  *)
(* reads what its authorization granted.  Requests run in several threads. *)
(***************************************************************************)
EXTENDS Integers

CONSTANTS
  Workers,     \* the server threads a request can run in
  Grants,      \* authorizations the user gives, each for a workspace of its own,
               \* numbered in the order in which Notion issues their first tokens
  NoGrant,     \* no workspace, and no list of databases
  MaxTokens    \* the bound on the tokens issued for one authorization

ASSUME NotionAssumption ==
  /\ Grants \subseteq Nat
  /\ NoGrant \notin Grants
  /\ MaxTokens \in Nat \ {0}

VARIABLES
  row,         \* the committed row of notion_connections
  cachedConn,  \* notion:connection:<user id>
  listing,     \* notion:databases:<user id>: the workspace it lists, or NoGrant
  issued,      \* how many tokens Notion has issued for each authorization
  open,        \* authorizations whose OAuth state is in the cache, and of use
  lost,        \* authorizations whose refreshed token died with a request (history)
  pc,          \* what each request does next
  job,         \* the route each request runs
  held,        \* the connection each request works with
  base         \* the row each request loaded before it saves

connVars == <<row, cachedConn, listing, issued, open, lost>>
connReqs == <<pc, job, held, base>>

-----------------------------------------------------------------------------
\* The n-th access and refresh token of authorization a, with the workspace the
\* row names.
Conn(a, n, workspace) == [of |-> a, no |-> n, workspace |-> workspace]
NoConn == Conn(NoGrant, 0, NoGrant)

\* What encrypt=True makes of a connection: a string in which no field is found.
Sealed == Conn(NoGrant, 1, NoGrant)

InitConnection ==
  /\ row = NoConn /\ cachedConn = NoConn /\ listing = NoGrant
  /\ issued = [a \in Grants |-> 0]
  /\ open = {} /\ lost = {}
  /\ pc = [w \in Workers |-> "idle"]
  /\ job = [w \in Workers |-> "none"]
  /\ held = [w \in Workers |-> NoConn]
  /\ base = [w \in Workers |-> NoConn]

At(w, from) == pc[w] = from
Goto(w, to) == pc' = [pc EXCEPT ![w] = to]
Hold(w, c) == held' = [held EXCEPT ![w] = c]
Load(w, r) == base' = [base EXCEPT ![w] = r]
Serve(w, route) == At(w, "idle") /\ job' = [job EXCEPT ![w] = route]

\* Mutant: the session is kept for the next request.
EndKeepingSession(w) ==
  /\ Goto(w, "idle")
  /\ job' = [job EXCEPT ![w] = "none"]
  /\ UNCHANGED <<held, base>>

\* The request is answered, or fails; its session is removed.
End(w) ==
  /\ Goto(w, "idle")
  /\ job' = [job EXCEPT ![w] = "none"]
  /\ Hold(w, NoConn)
  /\ Load(w, NoConn)

\* A refreshed token that is not in the row yet: it dies if the request does.
Unsaved(w) == At(w, "save") /\ job[w] = "refresh"

-----------------------------------------------------------------------------
\* Authorization a is the next to get tokens.
IsNext(a) == issued[a] = 0 /\ \A b \in Grants : b < a => issued[b] > 0

\* GET /oauth/start keeps a state for five minutes.  It may be used more than once,
\* but not the code: the state of a used code is left out.  One authorization is open
\* at a time.
OAuthStart(a) ==
  /\ IsNext(a)
  /\ open = {}
  /\ open' = open \cup {a}
  /\ UNCHANGED <<row, cachedConn, listing, issued, lost, connReqs>>

StateExpires(a) ==
  /\ a \in open
  /\ open' = open \ {a}
  /\ UNCHANGED <<row, cachedConn, listing, issued, lost, connReqs>>

\* store_access_token, by the callback of an OAuth start whose state is still known
\* or by POST /connect: Notion gives the tokens for the code.  It refuses a code
\* that was used, and the request then changes nothing.
Authorize(w, a, route) ==
  /\ route = "callback" => a \in open
  /\ IsNext(a)
  /\ Serve(w, route)
  /\ issued' = [issued EXCEPT ![a] = 1]
  /\ open' = open \ {a}
  /\ Hold(w, Conn(a, 1, a))
  /\ Goto(w, "find")
  /\ UNCHANGED <<row, cachedConn, listing, lost, base>>

\* save_connection looks the row up ...
Find(w) ==
  /\ At(w, "find")
  /\ Load(w, row)
  /\ Goto(w, "save")
  /\ UNCHANGED <<connVars, job, held>>

\* The request goes on with the row it has committed.
Stored(w) ==
  /\ Goto(w, "reload")
  /\ Hold(w, NoConn)
  /\ Load(w, NoConn)
  /\ UNCHANGED job

\* Mutant: a refreshed connection is flushed and not committed.
SaveUncommitted(w) ==
  /\ At(w, "save")
  /\ IF base[w] = NoConn /\ row = NoConn
     THEN row' = held[w] /\ Stored(w)
     ELSE End(w) /\ UNCHANGED row
  /\ UNCHANGED <<cachedConn, listing, issued, open, lost>>

\* ... and it is inserted or updated, and committed.  An INSERT fails when the row
\* has come to exist.  An UPDATE sets the tokens, and the workspace when it differs
\* from what was loaded.  After it a new authorization fails: the object it goes on
\* with was never stored and has no created_at to write to the cache.
Save(w) ==
  /\ At(w, "save")
  /\ IF base[w] = NoConn
     THEN IF row = NoConn
          THEN row' = held[w] /\ Stored(w)
          ELSE End(w) /\ UNCHANGED row
     ELSE /\ row' = [held[w] EXCEPT !.workspace =
                       IF @ # base[w].workspace THEN @ ELSE row.workspace]
          /\ IF job[w] = "refresh" THEN Stored(w) ELSE End(w)
  /\ UNCHANGED <<cachedConn, listing, issued, open, lost>>

\* The committed object is read again when it is used.
Reload(w) ==
  /\ At(w, "reload")
  /\ Hold(w, row)
  /\ Goto(w, "keep")
  /\ UNCHANGED <<connVars, job, base>>

\* POST /refresh-token starts from the row, and not from its copy in the cache.
\* Authorizations are refreshed up to a bound.
RefreshLoad(w) ==
  /\ row # NoConn
  /\ issued[row.of] < MaxTokens
  /\ Serve(w, "refresh")
  /\ Load(w, row)
  /\ Goto(w, "exchange")
  /\ UNCHANGED <<connVars, held>>

\* Notion takes the newest refresh token and no other.
Exchange(w) ==
  /\ At(w, "exchange")
  /\ LET a == base[w].of IN
       IF base[w].no = issued[a]
       THEN /\ issued' = [issued EXCEPT ![a] = @ + 1]
            /\ Hold(w, Conn(a, issued[a] + 1, a))
            /\ Goto(w, "save")
            /\ UNCHANGED <<job, base>>
       ELSE End(w) /\ UNCHANGED issued
  /\ UNCHANGED <<row, cachedConn, listing, open, lost>>

-----------------------------------------------------------------------------
\* What each route does after get_connection, or with a connection it saved.
After(route) ==
  CASE route = "connect"   -> "drop"
    [] route = "refresh"   -> "seal"
    [] route = "databases" -> "list"
    [] route = "import"    -> "schema"
    [] OTHER               -> "end"

\* The connection is kept where a later step reads it.
Continue(w, route, c) ==
  /\ Goto(w, After(route))
  /\ Hold(w, IF route = "databases" THEN c ELSE NoConn)

\* Mutant: a hit renews the entry.
GetCachedRenewing(w, route) ==
  /\ cachedConn \notin {NoConn, Sealed}
  /\ Serve(w, route)
  /\ Hold(w, cachedConn)
  /\ Goto(w, "keep")
  /\ UNCHANGED <<connVars, base>>

\* get_connection, with which the other routes begin: the entry, if it is whole ...
GetCached(w, route) ==
  /\ cachedConn \notin {NoConn, Sealed}
  /\ Serve(w, route)
  /\ Continue(w, route, cachedConn)
  /\ UNCHANGED <<connVars, base>>

\* ... or the row.  Without a row the request changes nothing.
GetRow(w, route) ==
  /\ cachedConn \in {NoConn, Sealed}
  /\ row # NoConn
  /\ Serve(w, route)
  /\ Hold(w, row)
  /\ Goto(w, "keep")
  /\ UNCHANGED <<connVars, base>>

\* The entry is made, for a day.
Keep(w) ==
  /\ At(w, "keep")
  /\ cachedConn' = held[w]
  /\ Continue(w, job[w], held[w])
  /\ UNCHANGED <<row, listing, issued, open, lost, job, base>>

\* /refresh-token writes it again, encrypted.
Seal(w) ==
  /\ At(w, "seal")
  /\ cachedConn' = Sealed
  /\ Goto(w, "drop")
  /\ UNCHANGED <<row, listing, issued, open, lost, job, held, base>>

\* /connect and /refresh-token drop the list of databases.
Drop(w) ==
  /\ At(w, "drop")
  /\ listing' = NoGrant
  /\ End(w)
  /\ UNCHANGED <<row, cachedConn, issued, open, lost>>

\* GET /databases answers from the cache ...
ListCached(w) ==
  /\ At(w, "list")
  /\ IF listing = NoGrant THEN Goto(w, "fill") /\ UNCHANGED <<job, held, base>> ELSE End(w)
  /\ UNCHANGED connVars

\* ... or asks Notion, and keeps the answer for a day.
ListFill(w) ==
  /\ At(w, "fill")
  /\ listing' = held[w].of
  /\ End(w)
  /\ UNCHANGED <<row, cachedConn, issued, open, lost>>

Answer(w) == At(w, "end") /\ End(w) /\ UNCHANGED connVars

\* Notion, the database or the cache fails, or the server stops.
Abort(w) ==
  /\ ~ At(w, "idle")
  /\ End(w)
  /\ lost' = IF Unsaved(w) THEN lost \cup {held[w].of} ELSE lost
  /\ UNCHANGED <<row, cachedConn, listing, issued, open>>

\* The entries time out.
ConnExpires ==
  /\ cachedConn # NoConn
  /\ cachedConn' = NoConn
  /\ UNCHANGED <<row, listing, issued, open, lost, connReqs>>

ListExpires ==
  /\ listing # NoGrant
  /\ listing' = NoGrant
  /\ UNCHANGED <<row, cachedConn, issued, open, lost, connReqs>>

\* "read" stands for GET /connection, /preview-mapping and /generate-from-page, which
\* only answer; they change nothing when they find the entry.
Routes == {"read", "databases", "import"}

Begin(w) ==
  \/ \E a \in Grants, route \in {"callback", "connect"} : Authorize(w, a, route)
  \/ RefreshLoad(w)
  \/ \E route \in {"databases", "import"} : GetCached(w, route)
  \/ \E route \in Routes : GetRow(w, route)

Proceed(w) ==
  \/ Find(w) \/ Save(w) \/ Reload(w) \/ Exchange(w) \/ Keep(w) \/ Seal(w)
  \/ Drop(w) \/ ListCached(w) \/ ListFill(w) \/ Answer(w) \/ Abort(w)

Elsewhere ==
  \/ \E a \in Grants : OAuthStart(a) \/ StateExpires(a)
  \/ ConnExpires \/ ListExpires
=============================================================================
