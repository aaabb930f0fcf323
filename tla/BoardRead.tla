----------------------------- MODULE BoardRead -----------------------------
(***************************************************************************)
(* What a board or a list reads once its throttled write is over           *)
(* (stompy_ticketing/board_view.py; service.py, list_tickets), the two     *)
(* caches of the database's catalog a board goes by, and the retry of the  *)
(* ticket_board tool (mcp_tools.py, db_error_answer.py).                   *)
(*                                                                         *)
(* Every statement has a snapshot of its own: between two of them tickets  *)
(* enter and leave the column, and a migration may add what the catalog    *)
(* did not have.  The caches are dictionaries of the process; their        *)
(* deadlines are kept as the ticks that are left.                          *)
(***************************************************************************)
EXTENDS ReadThrottle, Integers

CONSTANTS
  Limit,     \* effective_limit of the one column that is read
  MaxSize,   \* bound: tickets in that column
  Scenarios  \* bound: what moves in one behaviour, one scenario each

\* tickets stands for its lease columns and created_by, which older schemas
\* lack; ticket_context_links for the table.
Relations == {"tickets", "ticket_context_links"}

\* The views of a board, and the list as one of its own.
Views == {"kanban", "compact", "summary", "list"}

ASSUME BoardBoundsAssumption == Limit \in Nat \ {0} /\ MaxSize \in Nat
ASSUME BoardScenariosAssumption ==
  Scenarios \subseteq [readers : SUBSET Readers, asked : SUBSET Ops,
                       views : SUBSET Views, aging : BOOLEAN, moving : BOOLEAN,
                       pending : SUBSET Relations, faulty : BOOLEAN]

VARIABLES
  scenario,  \* who asks for which operations, whether tickets go stale, columns
             \* change and things go wrong, and which migrations are to come
  size,      \* tickets in the column, of each database
  landed,    \* landed[relation][database]: the migration has been run
  since,     \* history variable: ticks since then
  cache,     \* what the process remembers of the catalogs
  page       \* each reader's board or list

boardVars == <<scenario, size, landed, since, cache, page>>
vars == <<throttleVars, boardVars>>

----------------------------------------------------------------------------

Sizes == 0..MaxSize

\* An entry that says absent counts for left more ticks, and for nothing
\* afterwards; one that says present counts for good.
Entry == [present : BOOLEAN, left : Ages]
NoEntry == [present |-> FALSE, left |-> 0]

\* count, rows: the statements over the column; lookup, catalog, store: how a
\* board learns about a relation; use: the statement that depends on it.
Steps == {"none", "count", "rows", "lookup", "catalog", "store", "use", "answered"}

Codes == {"none", "ok", "TOOL_DB_TIMEOUT", "CONNECTION_DROPPED"}

\* attempt counts from 1; counted and shown are results of the statements;
\* seen: history, the column's sizes since the first of them; found, took:
\* what the catalog said, and how old the clock reading before it is.
Page == [step : Steps, view : Views, attempt : 1..2, counted : Sizes, shown : 0..Limit,
         seen : SUBSET Sizes, rel : Relations, found : BOOLEAN, took : Ages, code : Codes]

NoPage == [step |-> "none", view |-> "kanban", attempt |-> 1, counted |-> 0, shown |-> 0,
           seen |-> {}, rel |-> "tickets", found |-> FALSE, took |-> 0, code |-> "none"]

BoardTypeOK ==
  /\ TypeOK
  /\ scenario \in Scenarios
  /\ size \in [Databases -> Sizes]
  /\ landed \in [Relations -> [Databases -> BOOLEAN]]
  /\ since \in [Relations -> [Databases -> Ages]]
  /\ cache \in [Relations -> [Databases -> Entry]]
  /\ page \in [Readers -> Page]

----------------------------------------------------------------------------
(* Answers *)

Smaller(m, n) == IF m < n THEN m ELSE n
Larger(m, n) == IF m > n THEN m ELSE n

\* Mutant of BoardCount: the rows of the second statement are taken at face value.
BoardCountAsShown(p) == p.shown

\* The column's count is what the first statement counted, or the rows of the
\* second when it brings more.
BoardCount(p) == Larger(p.counted, p.shown)

Count(p) == IF p.view \in {"list", "summary"} THEN p.counted ELSE BoardCount(p)

\* Mutant of HasMore: a page that is full has more.
HasMoreWhenFull(p) == p.shown = Limit

HasMore(p) == IF p.view = "list" THEN Limit < p.counted ELSE BoardCount(p) > p.shown

Answered(r, code) ==
  [page EXCEPT ![r] = [NoPage EXCEPT !.step = "answered", !.code = code,
                         !.view = page[r].view, !.attempt = page[r].attempt]]

----------------------------------------------------------------------------
(* A call *)

\* Mutant of Remembered: both dictionaries are one.
RememberedShared(rel, db) == cache["tickets"][db]

\* The entry of a relation.
Remembered(rel, db) == cache[rel][db]

Hit(entry) == entry.present \/ entry.left > 0

\* Mutant of Deadline: the sum has the wrong sign.
DeadlineLater(p) == Interval + p.took

\* Mutant of Deadline: counted from the moment the entry is stored.
DeadlineFromStore(p) == Interval

\* The deadline counts from the clock reading before the catalog was read.
Deadline(p) == Interval - p.took

StartPage(r, view) ==
  /\ view \in scenario.views
  /\ reader[r].pc = "read"
  /\ reader[r].op \in {"board", "list"}
  /\ (view = "list") <=> (reader[r].op = "list")
  /\ page[r].step = "none"
  /\ page[r].attempt = 1 \/ view = page[r].view
  /\ page' = [page EXCEPT ![r].step = IF view = "list" THEN "rows" ELSE "count",
                          ![r].view = view]
  /\ UNCHANGED <<throttleVars, scenario, size, landed, since, cache>>

\* Every statement below needs the connection.
Sound(r) == reader[r].conn = "ok"

CountRows(r) ==
  /\ page[r].step = "count"
  /\ Sound(r)
  /\ LET db == reader[r].db
         counted == [page[r] EXCEPT !.counted = size[db], !.seen = @ \cup {size[db]}]
     IN  page' = [page EXCEPT ![r] =
           [counted EXCEPT !.step = CASE counted.view = "kanban"  -> "lookup"
                                      [] counted.view = "compact" -> "rows"
                                      [] OTHER                    -> "answered",
                           !.code = IF counted.view \in {"summary", "list"} THEN "ok" ELSE @]]
  /\ UNCHANGED <<throttleVars, scenario, size, landed, since, cache>>

\* A compact board names only columns that every schema has; a list counts
\* after its rows.
ReadRows(r) ==
  /\ page[r].step = "rows"
  /\ Sound(r)
  /\ LET db == reader[r].db
     IN  page' = [page EXCEPT ![r].shown = Smaller(size[db], Limit),
                              ![r].seen = @ \cup {size[db]},
                              ![r].step = IF page[r].view = "list" THEN "count" ELSE "answered",
                              ![r].code = IF page[r].view = "list" THEN @ ELSE "ok"]
  /\ UNCHANGED <<throttleVars, scenario, size, landed, since, cache>>

\* Without a database there is no key, neither to look up nor to store.
Lookup(r) ==
  /\ page[r].step = "lookup"
  /\ LET entry == Remembered(page[r].rel, reader[r].db)
     IN  page' = [page EXCEPT ![r] =
           IF reader[r].named /\ Hit(entry)
           THEN [@ EXCEPT !.step = "use", !.found = entry.present]
           ELSE [@ EXCEPT !.step = "catalog", !.took = 0]]
  /\ UNCHANGED <<throttleVars, scenario, size, landed, since, cache>>

ReadCatalog(r) ==
  /\ page[r].step = "catalog"
  /\ Sound(r)
  /\ page' = [page EXCEPT ![r].found = landed[page[r].rel][reader[r].db],
                          ![r].step = IF reader[r].named THEN "store" ELSE "use"]
  /\ UNCHANGED <<throttleVars, scenario, size, landed, since, cache>>

Store(r) ==
  /\ page[r].step = "store"
  /\ cache' = [cache EXCEPT ![page[r].rel][reader[r].db] =
                 [present |-> page[r].found,
                  left |-> IF page[r].found THEN 0 ELSE Deadline(page[r])]]
  /\ page' = [page EXCEPT ![r].step = "use", ![r].took = 0]
  /\ UNCHANGED <<throttleVars, scenario, size, landed, since>>

\* The rows, with NULL for the columns that are absent; then, when there are
\* any, their links (of which the ones to contexts ask the catalog first).
UseColumns(r) ==
  /\ page[r].step = "use"
  /\ page[r].rel = "tickets"
  /\ Sound(r)
  /\ LET db == reader[r].db
         read == [page[r] EXCEPT !.shown = Smaller(size[db], Limit),
                                 !.seen = @ \cup {size[db]}, !.found = FALSE]
     IN  page' = [page EXCEPT ![r] =
           IF size[db] = 0 THEN [read EXCEPT !.step = "answered", !.code = "ok"]
           ELSE [read EXCEPT !.step = "lookup", !.rel = "ticket_context_links"]]
  /\ UNCHANGED <<throttleVars, scenario, size, landed, since, cache>>

UseContextLinks(r) ==
  /\ page[r].step = "use"
  /\ page[r].rel = "ticket_context_links"
  /\ page[r].found => Sound(r)
  /\ page' = [page EXCEPT ![r].step = "answered", ![r].code = "ok", ![r].found = FALSE]
  /\ UNCHANGED <<throttleVars, scenario, size, landed, since, cache>>

Statement(r) == \/ page[r].step \in {"count", "rows", "catalog"}
                \/ page[r].step = "use" /\ (page[r].rel = "tickets" \/ page[r].found)

\* The server cancels a statement: an OperationalError too, but the tool does
\* not ask again.
StatementCancelled(r) ==
  /\ Statement(r)
  /\ Sound(r)
  /\ Faults(1)
  /\ page' = Answered(r, "TOOL_DB_TIMEOUT")
  /\ UNCHANGED <<backlog, age, reader, lone, scenario, size, landed, since, cache>>

\* The statement finds the connection lost: an OperationalError, after which a
\* board's first attempt starts over with a connection of its own.
StatementFindsConnectionLost(r) ==
  /\ Statement(r)
  /\ reader[r].conn \in {"ok", "gone"}
  /\ Faults(IF reader[r].conn = "gone" THEN 0 ELSE 1)
  /\ IF reader[r].op = "board" /\ page[r].attempt = 1
     THEN /\ page' = [page EXCEPT ![r] = [NoPage EXCEPT !.view = page[r].view, !.attempt = 2]]
          /\ reader' = [reader EXCEPT ![r].pc = "check", ![r].conn = "ok", ![r].named = TRUE,
                                      ![r].left = Len(Writes["board"])]
     ELSE /\ page' = Answered(r, "CONNECTION_DROPPED")
          /\ UNCHANGED reader
  /\ UNCHANGED <<backlog, age, lone, scenario, size, landed, since, cache>>

\* The client knows that the connection is closed: the first cursor raises an
\* InterfaceError, which the loop of the tool does not catch.
CursorFindsConnectionClosed(r) ==
  /\ page[r].step \in {"count", "rows"}
  /\ reader[r].conn = "closed"
  /\ page' = Answered(r, "CONNECTION_DROPPED")
  /\ UNCHANGED <<throttleVars, scenario, size, landed, since, cache>>

Leave(r) ==
  /\ \/ page[r].step = "answered"
     \/ reader[r].op = "search"
  /\ Answer(r)
  /\ page' = [page EXCEPT ![r] = NoPage]
  /\ UNCHANGED <<scenario, size, landed, since, cache>>

Read(r) == \/ \E view \in Views : StartPage(r, view)
           \/ CountRows(r) \/ ReadRows(r) \/ Lookup(r) \/ ReadCatalog(r) \/ Store(r)
           \/ UseColumns(r) \/ UseContextLinks(r)
           \/ StatementCancelled(r) \/ StatementFindsConnectionLost(r)
           \/ CursorFindsConnectionClosed(r) \/ Leave(r)

----------------------------------------------------------------------------
(* The world around *)

\* r is between its two statements over the column.
Reading(r, db) == /\ reader[r].db = db
                  /\ page[r].seen # {}
                  /\ page[r].step # "answered"
                  /\ page[r].rel = "tickets"

\* Tickets enter a column one by one, and leave it in any number (a sweep).
\* Only what happens while somebody reads can be told.
Resize(db) ==
  /\ scenario.moving
  /\ \E r \in Readers : Reading(r, db)
  /\ \E n \in Sizes :
       /\ n =< size[db] + 1
       /\ n # size[db]
       /\ size' = [size EXCEPT ![db] = n]
       /\ page' = [r \in Readers |-> IF Reading(r, db)
                                     THEN [page[r] EXCEPT !.seen = @ \cup {n}] ELSE page[r]]
  /\ UNCHANGED <<throttleVars, scenario, landed, since, cache>>

AgeOut(db, row) ==
  /\ scenario.aging
  /\ GoStale(db, row)
  /\ UNCHANGED boardVars

\* Relations are only ever added.
Migrate(rel, db) ==
  /\ ~landed[rel][db]
  /\ landed' = [landed EXCEPT ![rel][db] = TRUE]
  /\ since' = [since EXCEPT ![rel][db] = 0]
  /\ UNCHANGED <<throttleVars, scenario, size, cache, page>>

PassTime ==
  /\ Tick
  /\ since' = [rel \in Relations |-> [db \in Databases |-> Older(since[rel][db])]]
  /\ cache' = [rel \in Relations |-> [db \in Databases |->
                 [cache[rel][db] EXCEPT !.left = Larger(@ - 1, 0)]]]
  /\ page' = [r \in Readers |-> IF page[r].step \in {"catalog", "store"}
                                THEN [page[r] EXCEPT !.took = Older(@)] ELSE page[r]]
  /\ UNCHANGED <<scenario, size, landed>>

Emptied == [rel \in Relations |-> [db \in Databases |-> NoEntry]]

RestartAll ==
  /\ Restart
  /\ cache' = Emptied
  /\ page' = [r \in Readers |-> NoPage]
  /\ UNCHANGED <<scenario, size, landed, since>>

Arrive(r, op, db, named, conn) ==
  /\ r \in scenario.readers
  /\ op \in scenario.asked
  /\ Begin(r, op, db, named, conn)
  /\ UNCHANGED boardVars

BoardInit ==
  /\ Init
  /\ scenario \in Scenarios
  /\ size \in [Databases -> Sizes]
  /\ landed = [rel \in Relations |-> [db \in Databases |-> rel \notin scenario.pending]]
  /\ scenario.moving \/ size = [db \in Databases |-> MaxSize]
  /\ faults = IF scenario.faulty THEN 0 ELSE MaxFaults
  /\ scenario.aging \/ backlog.stale_sweep = [db \in Databases |-> {}]
  /\ "search" \in scenario.asked \/ backlog.tsvector_backfill = [db \in Databases |-> {}]
  /\ since = [rel \in Relations |-> [db \in Databases |-> Interval]]
  /\ cache = Emptied
  /\ page = [r \in Readers |-> NoPage]

BoardNext ==
  \/ \E r \in Readers : Continue(r) /\ UNCHANGED boardVars
  \/ \E r \in Readers : Read(r)
  \/ \E r \in Readers, op \in Ops, db \in Databases, named \in BOOLEAN,
        conn \in {"ok", "gone"} : Arrive(r, op, db, named, conn)
  \/ \E db \in Databases, row \in Aging : AgeOut(db, row)
  \/ \E db \in Databases : Resize(db)
  \/ \E rel \in Relations, db \in Databases : Migrate(rel, db)
  \/ PassTime
  \/ RestartAll

BoardSpec == BoardInit /\ [][BoardNext]_vars

\* Calls run on by themselves and time passes; nobody has to call.
FairBoardSpec ==
  /\ BoardSpec
  /\ \A r \in Readers : WF_vars(Continue(r) /\ UNCHANGED boardVars) /\ WF_vars(Read(r))
  /\ WF_vars(PassTime)

----------------------------------------------------------------------------
(* Properties *)

\* Counts and rows come from two statements without a snapshot between them.
\* Still, the count that is answered was the size of the column at some
\* moment between the two, is never less than the rows beside it on a board,
\* and has_more is true only if the column held more than the rows answered
\* (board_view's "a row landing between them", list_tickets' total).
CountWasTrue ==
  \A r \in Readers : page[r].code = "ok" =>
    /\ Count(page[r]) \in page[r].seen
    /\ HasMore(page[r]) => \E n \in page[r].seen : n > page[r].shown
    /\ page[r].view \in {"kanban", "compact"} => page[r].shown =< Count(page[r])

\* A migration that lands in the life of a process is seen by it when the
\* window is over, whatever the readers that asked the catalog before it do
\* afterwards (the comment on _table_columns).
AbsenceIsForgottenInTime ==
  \A rel \in Relations, db \in Databases :
    landed[rel][db] /\ ~cache[rel][db].present /\ cache[rel][db].left > 0 =>
      since[rel][db] + cache[rel][db].left =< Interval

\* No statement names a column or a table that its database does not have,
\* which would abort the caller's transaction.
StatementsNameWhatExists ==
  \A r \in Readers : page[r].step = "use" /\ page[r].found =>
    landed[page[r].rel][reader[r].db]

\* A board whose connection turns out to be lost is asked once more, with a
\* fresh one, before the caller is told ("One retry on Neon idle-conn drop").
DroppedConnectionIsRetried ==
  \A r \in Readers :
    reader[r].op = "board" /\ page[r].code = "CONNECTION_DROPPED" => page[r].attempt = 2

=============================================================================
