---------------------------- MODULE NotionImport ----------------------------
(***************************************************************************)
(* The routes that read a Notion database or page with the connection of   *)
(* module NotionConnection (app/notion: routes/api.py, mapping_storage,    *)
(* smart_mapping): the mapping of the database's fields, the import of its *)
(* rows as task candidates, the preview of a mapping, and a page.          *)
(*                                                                         *)
(* None of them commits: what they flush is rolled back when the request   *)
(* ends, and what they leave is in the cache.  (A due date is read in the  *)
(* time zone of the preferences, whose defaults may be committed with what *)
(* the detectors have logged; neither is read again here.)  The schema,    *)
(* the rows and the blocks come from the cache or from Notion, which is    *)
(* all the same to what follows.                                           *)
(***************************************************************************)
EXTENDS NotionConnection, Sequences

CONSTANTS
  Tables,      \* what the database may hold: sequences of rows
  Mappings,    \* the optional fields, "due" and "duration", a mapping may name
  NoMapping,   \* no cache entry
  NoTitle,     \* title is NULL
  MaxRows      \* the 100 of generate_candidates

\* A row has a title, a due date and a duration, as the fields of the mapping find
\* them: "absent" when there is no such field, "empty" for a title without text
\* objects, "blank" for one with an empty text, "null" for no date.
DbRow == [title : {"absent", "empty", "blank", "text"},
          due : {"absent", "null", "bad", "date"},
          duration : {"absent", "number"}]

ASSUME ImportAssumption ==
  /\ Tables \subseteq Seq(DbRow) \ {<<>>}
  /\ Mappings \subseteq SUBSET {"due", "duration"}
  /\ NoMapping \notin Mappings
  /\ MaxRows \in Nat \ {0}

VARIABLES
  mapping,     \* notion:mapping:<user id>:<database id>
  work         \* the rows each request has read, and the candidates it made of them

vars == <<connVars, connReqs, mapping, work>>

Nothing == [rows |-> <<>>, tasks |-> <<>>]
Work(w, x) == work' = [work EXCEPT ![w] = x]

Init ==
  /\ InitConnection
  /\ mapping = NoMapping
  /\ work = [w \in Workers |-> Nothing]

-----------------------------------------------------------------------------
\* POST /map-schema flushes the mapping.  The pair of user and database is unique:
\* an insert waits for the transaction of another request to end.
MapSchema(w) ==
  /\ \A v \in Workers : pc[v] \notin {"map", "feedback"}
  /\ Serve(w, "map")
  /\ Goto(w, "map")
  /\ UNCHANGED <<connVars, held, base, mapping, work>>

\* The mapping is kept for a week: in the cache, not in the table.
KeepMapping(w) ==
  /\ At(w, "map")
  /\ mapping' \in Mappings
  /\ Goto(w, "feedback")
  /\ UNCHANGED <<connVars, job, held, base, work>>

\* The corrections are logged, each in a savepoint.
Feedback(w) ==
  /\ At(w, "feedback")
  /\ End(w)
  /\ UNCHANGED <<connVars, mapping, work>>

MappingExpires ==
  /\ mapping # NoMapping
  /\ mapping' = NoMapping
  /\ UNCHANGED <<connVars, connReqs, work>>

-----------------------------------------------------------------------------
\* What _parse_due_date cannot read, or finds no preferences for, is an issue of the
\* candidate.
DueIssue(r, m) == "due" \in m /\ r.due \in {"absent", "bad"}

\* Reading a date that is null raises, and so does the first text of a title that
\* has none.
Unreadable(r, m) == r.title = "empty" \/ ("due" \in m /\ r.due = "null")

\* build_from_row: the title and whether the candidate has issues, on which its
\* confidence depends.
BuildFromRow(r, m) ==
  [title |-> CASE r.title = "absent" -> NoTitle
               [] r.title = "blank"  -> "Untitled"
               [] OTHER              -> "text",
   issues |-> r.title = "absent" \/ DueIssue(r, m)
                \/ ("duration" \in m /\ r.duration = "absent")]

\* No more than MaxRows rows are imported.
Truncated(rows) == SubSeq(rows, 1, IF Len(rows) > MaxRows THEN MaxRows ELSE Len(rows))

\* The schema is read, from the cache or from Notion.
FetchSchema(w) ==
  /\ At(w, "schema")
  /\ Goto(w, "rows")
  /\ UNCHANGED <<connVars, job, held, base, mapping, work>>

\* The rows are.
FetchRows(w, rows) ==
  /\ At(w, "rows")
  /\ Work(w, [rows |-> rows, tasks |-> <<>>])
  /\ Goto(w, "generate")
  /\ UNCHANGED <<connVars, job, held, base, mapping>>

\* Mutant: a row that cannot be read is skipped.
GenerateSkipping(w) ==
  /\ At(w, "generate")
  /\ mapping # NoMapping
  /\ LET some == SelectSeq(Truncated(work[w].rows), LAMBDA r : ~ Unreadable(r, mapping)) IN
       Work(w, [work[w] EXCEPT !.tasks = [i \in DOMAIN some |-> BuildFromRow(some[i], mapping)]])
  /\ Goto(w, "store")
  /\ UNCHANGED <<connVars, job, held, base, mapping>>

\* The candidates are made from the rows with the cached mapping, all or none.
Generate(w) ==
  /\ At(w, "generate")
  /\ LET rows == Truncated(work[w].rows) IN
       IF mapping # NoMapping /\ \A i \in DOMAIN rows : ~ Unreadable(rows[i], mapping)
       THEN /\ Work(w, [work[w] EXCEPT !.tasks = [i \in DOMAIN rows |-> BuildFromRow(rows[i], mapping)]])
            /\ Goto(w, "store")
            /\ UNCHANGED <<job, held, base>>
       ELSE End(w) /\ Work(w, Nothing)
  /\ UNCHANGED <<connVars, mapping>>

\* The preview answers the fields it would match in the schema.
Preview(w) ==
  /\ At(w, "end") /\ job[w] = "read"
  /\ End(w)
  /\ UNCHANGED <<connVars, mapping, work>>

\* A page is read, its blocks with all they contain ...
FetchBlocks(w) ==
  /\ At(w, "end") /\ job[w] = "read"
  /\ Goto(w, "sections")
  /\ UNCHANGED <<connVars, job, held, base, mapping, work>>

\* ... and no candidates are found in it: the AI settings have no field
\* use_sentence_splitter, so each section with a block raises, and is passed over.
ExtractSections(w) ==
  /\ At(w, "sections")
  /\ Goto(w, "store")
  /\ UNCHANGED <<connVars, job, held, base, mapping, work>>

\* POST /pages/generate-candidates goes on as an import does, with no candidates.
GenerateFromPage(w) == FetchBlocks(w) \/ ExtractSections(w)

\* save_task_candidates flushes them, in one savepoint: a NULL title fails them all.
Store(w) ==
  /\ At(w, "store")
  /\ IF \E i \in DOMAIN work[w].tasks : work[w].tasks[i].title = NoTitle
     THEN End(w) /\ Work(w, Nothing)
     ELSE Goto(w, "answer") /\ UNCHANGED <<job, held, base, work>>
  /\ UNCHANGED <<connVars, mapping>>

AnswerImport(w) ==
  /\ At(w, "answer")
  /\ End(w)
  /\ Work(w, Nothing)
  /\ UNCHANGED <<connVars, mapping>>

-----------------------------------------------------------------------------
BeginConnection(w) == Begin(w) /\ UNCHANGED <<mapping, work>>

\* A request that ends drops what it has built.
ConnectionStep(w) ==
  /\ Proceed(w)
  /\ Work(w, IF pc'[w] = "idle" THEN Nothing ELSE work[w])
  /\ UNCHANGED mapping

ImportStep(w) ==
  \/ KeepMapping(w) \/ Feedback(w)
  \/ FetchSchema(w) \/ (\E rows \in Tables : FetchRows(w, rows)) \/ Generate(w)
  \/ Preview(w) \/ GenerateFromPage(w)
  \/ Store(w) \/ AnswerImport(w)

Step(w) == ConnectionStep(w) \/ ImportStep(w)

Next ==
  \/ \E w \in Workers : BeginConnection(w) \/ MapSchema(w) \/ Step(w)
  \/ Elsewhere /\ UNCHANGED <<mapping, work>>
  \/ MappingExpires

\* The entries of the connection time out a day after they were made, whatever the
\* requests do.
Fairness ==
  /\ WF_vars(ConnExpires /\ UNCHANGED <<mapping, work>>)
  /\ WF_vars(ListExpires /\ UNCHANGED <<mapping, work>>)

Spec == Init /\ [][Next]_vars /\ Fairness

-----------------------------------------------------------------------------
Conns == {NoConn, Sealed}
           \cup [of : Grants, no : 1 .. MaxTokens, workspace : Grants]

Candidate == [title : {NoTitle, "Untitled", "text"}, issues : BOOLEAN]

\* The type of every variable; a request that has ended holds nothing.
TypeOK ==
  /\ row \in Conns \ {Sealed} /\ cachedConn \in Conns
  /\ listing \in Grants \cup {NoGrant}
  /\ issued \in [Grants -> Nat]
  /\ open \subseteq Grants /\ lost \subseteq Grants
  /\ mapping \in Mappings \cup {NoMapping}
  /\ pc \in [Workers -> {"idle", "find", "save", "reload", "exchange", "keep", "seal", "drop",
                          "list", "fill", "end", "map", "feedback", "schema", "rows",
                          "generate", "sections", "store", "answer"}]
  /\ job \in [Workers -> {"none", "callback", "connect", "refresh", "read", "databases",
                           "import", "map"}]
  /\ work \in [Workers -> [rows : Seq(DbRow), tasks : Seq(Candidate)]]
  /\ held \in [Workers -> Conns \ {Sealed}] /\ base \in [Workers -> Conns \ {Sealed}]
  /\ \A w \in Workers :
       At(w, "idle") => /\ job[w] = "none" /\ held[w] = NoConn /\ base[w] = NoConn
                        /\ work[w] = Nothing

\* The connection is not lost by a refresh.  Notion takes each refresh token once, so
\* the row must hold the newest one of its authorization, however refreshes and new
\* authorizations overlap: unless the request that got the newest is still on its
\* way to save it, or failed before it could.
RefreshTokenKept ==
  \/ row = NoConn
  \/ row.no = issued[row.of]
  \/ row.of \in lost
  \/ \E w \in Workers : Unsaved(w) /\ held[w].of = row.of /\ held[w].no = issued[row.of]

\* An import is complete: when it answers, there is a candidate for every row up to
\* the cap, in order and with its title, although a row may be unreadable or without
\* one; and no candidate of a page is among them.
ImportComplete ==
  \A w \in Workers : At(w, "answer") =>
    LET rows == Truncated(work[w].rows)  tasks == work[w].tasks IN
      /\ Len(tasks) = Len(rows)
      /\ \A i \in DOMAIN tasks :
           /\ tasks[i].title # NoTitle /\ rows[i].title # "absent"
           /\ tasks[i].title = "Untitled" <=> rows[i].title = "blank"

\* A connection that was replaced, and the databases of another workspace, are
\* served from the cache no longer than until the entries time out: what a request
\* has read before is not put back for ever.
StaleConnectionEnds ==
  <>[](cachedConn \in {NoConn, Sealed, row} /\ listing \in {NoGrant, row.of})
=============================================================================
