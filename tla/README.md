# Stompy ticketing in TLA+

Specifications of [stompy-ticketing](../src/README.md): the state machines of its
tickets, and what happens to tickets, their audit trail, their text, links, leases
and archival when several callers share the PostgreSQL database, and what the reads and
answers are worth while that goes on. TLC checks the specifications on small
instances, and TLAPS proves what they say about searches, references, hints, lifecycle,
audit trail, content, links, leases, archival, throttle and boards for every number of
tickets, sessions and calls.

Paths below are relative to `src/stompy_ticketing/` unless they say otherwise.

## The system

The plugin is a library inside a host process. MCP tools (`mcp_tools.py`) and REST
routes (`api_routes.py`) are two doors to one stateless `TicketService`
(`service.py`); each call gets a connection of its own to the project's schema and
runs straight through its statements. All shared state is in the database, under
PostgreSQL's default READ COMMITTED isolation, with two exceptions, both process
dictionaries without a lock: the throttle of the read paths' writes and the caches of
the catalog.

| component | code | state | operations | what is hard | what makes it correct | module |
|---|---|---|---|---|---|---|
| type state machines, close paths | `service.py` 98-235, 1544-1604 | none (tables) | `validate_transition`, `find_transition_path`, `_find_close_path` | two breadth-first searches that must agree with the tables | walks are legal, shortest, reach what was asked, stay out of parked and other terminals | TicketTypes, ClosePath |
| ticket lifecycle | `service.py` create, transition, close, batch_*, update | `tickets` status, type, closed_at, metadata; `ticket_history` | create, move, park, close, batch_move, batch_close, edits of type and metadata | SELECT, decide, UPDATE without a lock or a condition; walks commit step by step; batches go on after failures | status changes are edges of the machine; closed_at and audit trail agree with the status; parks can be told from the history, whatever metadata callers send | TicketLifecycle |
| ticket content | `service.py` append_description, update_ticket, get_ticket | description, other plain columns, updated_at | get, append, update with two guards | compare-and-swap on a timestamp that several writers set, and on the text | nothing appended is lost; a guarded edit lands on what its caller read | AtomicText, TicketText |
| links | `service.py` add_link to remove_context_link | `ticket_links`, `ticket_context_links` | add, remove | look-then-insert; two id sequences behind one door | no mutual blocks, one related link per pair, a removal removes what it names | TicketLinks |
| leases | `leases.py`, `lease_actions.py` | claimed_by, claimed_at, claimed_until | claim, renew, claim_next, release | time taken before the wait for a row; SKIP LOCKED; expiry | a lease that was answered is honoured until it ends | TicketLease |
| targeted archival | `archival.py`, `archive_actions.py` | archived_at, history | archive, unarchive, batch_archive | row locks beside writers that take none | nothing open is hidden; the trail alternates; a batch reports the truth | TicketArchive |
| stale sweep and throttle | `stale_archive.py`, `service.py` search_tickets, _backfill_null_tsvectors | archived_at, content_tsvector; `_last_sweep` | sweep, backfill, `run_if_due` | one statement over many rows that may wait; an unlocked dictionary; re-arming; writes that fail in front of a read | a bounded rate of writes, a backlog that drains, a read that is not hurt | TicketArchive (sweep), ReadThrottle |
| board and catalog caches | `board_view.py`, `service.py` list_tickets | `_table_columns`, `_context_links_present` | board in four views, list | two statements without a snapshot; caches older than a migration; a lost connection and its retry | counts that were true, absence forgotten in time, statements that name what exists | BoardRead |
| search, tags | `service.py` | none | queries | - | their SQL | throttled writes in ReadThrottle |
| duplicate hints | `duplicates.py` | content_hash, content_tsvector | the check after a create | racing creates; a hash older than the text | of those who file the same, at most one is not told | DuplicateHints |
| references | `refs.py` | none | parse, combine with the project argument | five forms, lists, links, two sources of a project | a call is carried out in the one project it names | TicketRefs |
| doors | `mcp_tools.py`, `api_routes.py`, `plugin.py` | none | dispatch, error answers, board retry | two doors with different arguments | both give the service what it needs | with the calls they make |
| schema | `schema.py`, `migrations.py` | DDL | - | - | constraints the handlers meet | with the handlers |
| error answers | `db_error_answer.py`, `errors.py` | none | classify | what is retried, and what only looks like it | a lost connection is retried | BoardRead |
| actors, projection, models, logging, regex | five small files | none | conversions | - | - | not modelled |

Components meet in the `tickets` row: moves, edits, appends, leases and archival
all write it, each its own columns, and most of them `updated_at`. They do not call
each other, but for a create that asks for duplicate hints, reads that may sweep
first, and the doors.

## Modules

```
TicketTypes   <- ClosePath    <- ClosePathProofs, ClosePathMC
ClosePath     <- TicketLifecycle <- LifecycleMC
TicketLifecycle, ClosePathProofs <- TicketLifecycleProofs
ClosePathMC, TicketRefs, DuplicateHints <- QuestionsMC
QuestionsMC, ClosePathProofs  <- QuestionsProofs
AtomicText    <- TicketText   <- TicketTextProofs
                              ^- TextMC
LeaseRegister <- TicketLease  <- TicketLeaseProofs
                              ^- LeaseMC
TicketLinks   <- TicketLinksProofs      TicketArchive <- TicketArchiveProofs
              ^- LinksMC                              ^- ArchiveMC
ReadThrottle  <- BoardRead    <- BoardReadProofs (about both)
                              ^- BoardReadMC
```

An `MC` module only adds symmetry sets and scenarios (ClosePathMC and QuestionsMC
also pose the questions). A
definition whose comment begins "Mutant of" is a plausible mistake in the definition
it names: replacing that definition by it must break a property. Mutants are used
by no specification.

**TicketTypes** holds `STATE_MACHINES`, the terminals and `validate_transition`.

**ClosePath** has the search with the queue and the visiting order of the code, since
`_find_close_path` depends on it. `Visit` is one successor, `Expand` one pass of the
while loop, `Passes` the loop. The passes are recursive functions, each of whose
values is the set of the one state the search is in then; `MaxPasses` is enough of them,
because a status is queued once (proved). `Within` and `Distance` are the reference it is
held against: layers of the graph, without a queue.

**TicketLifecycle.** A session is one call. Every SELECT is a step. An UPDATE, the
history INSERTs after it and the COMMIT are one step: the row lock is held until the
COMMIT, the INSERTs read nothing, and nobody sees them earlier. `call[s]` holds the
handler's local variables: `seen` is the row it read, `target` and `now` what it
computed. `Move`, `WalkRead` and `BatchLook` read, `MoveWrite` and `EditWrite` write;
`WalkRefused` is a raised `InvalidTransitionError` or `ParkArgumentError`.
`path[s]` is the rest of a close walk, planned once. `StatementFails` rolls back one
statement's transaction (a batch books it and goes on), `Crash` ends the call.
metadata is split into the `parked` key (`stamp`, its parked_at) and the rest (`note`),
because `_park_metadata` writes both back from the row it read. A create and an update
store the metadata that their caller sends, either part of it: `Sent` bounds what that is.
An update compares metadata as text, so that one which sends what is there, in another
order, writes too (`Annotate`). Dry runs and calls that are
refused before their first write change nothing and are left out.

**AtomicText / TicketText.** AtomicText says what the writers of a description are
promised: each append, edit and read happens at one instant. TicketText has the
handlers: the read of `update_ticket`, its UPDATE with the guards the caller and
the description call for, the missed UPDATE and the second read that a `Conflict`
reports, `append_description`'s single UPDATE, and moves, which change `updated_at`
only. It EXTENDS AtomicText and has its variables, so the refinement mapping is the
identity and `ASpec` is a property of a run. Texts are sequences of pieces; the
substring test of the replace guard is `Within`.

**TicketLinks.** `AddLook` is `add_link` up to its INSERT, `AddInsert` and
`AddRejected` the INSERT under the UNIQUE and FOREIGN KEY constraints, `AddAnswer`
the lookup of the existing id. `RemoveLink` then `RemoveContextLink` is the
removal both doors build from the two tables.

**TicketLease.** Here row locks are explicit, because statements wait for them
with a time in hand that grows old, and `claim_next` passes over locked rows. A
`claim` locks the row in the first half of its statement and updates it in the
second. In READ COMMITTED the second half wants the row to match both as it was
when the statement began and as it is under the lock; `ClaimWaits` keeps the first
answer in `found`, which is how the refusal "Ticket changed during claim" arises.
A release of a row that does not match as committed is not waited for, and reads
the row again in a second statement. `Move` is any writer of status or archived_at.
Tickets are numbered in the order `claim_next` prefers them, and have one assignee.
`told` is a history variable: until when each holder was last answered it has a
ticket.

**LeaseRegister** says what agents are promised: a free ticket can be taken, a lease
is prolonged or given up by its holder, and time ends it. It has no calls, locks or
rows. TicketLease instantiates it with the lease that a row stands for (`Held`: none
once `claimed_until` is reached) and implements it: `Finish` of a claim is `Take` or
`Prolong`, of a release `GiveUp`, everything else stutters, and a lapsing row becomes
free in the tick that ends it. A renewal that comes after its lease has lapsed shows
as a `Take` with an earlier claimed_at, which is why `Take` says nothing of `since`.

**TicketArchive.** `LockItem` and `FinishItem` are one item of an archive,
unarchive or confirmed batch; a batch is the same with more ids. The sweep takes
its time, scans (`SweepStart`), waits for rows one by one and looks at them again
(`SweepRow`), and commits all at once with the history its RETURNING feeds
(`SweepCommit`). `MoveRead` and `MoveWrite` are `transition_ticket`, which leaves
`archived_at` alone. `Fail` is every exception other than `ArchiveRefused`, which
batches do not catch. Status is reduced to open, parked and closed.

**ReadThrottle.** Reads of several threads of one process, each with its
`run_if_due` calls: `Skip` and `GoAhead` are the look at the dictionary, `Stamp` the
entry, `Write` and `Commit` the write itself, `Rearm` the removal after a full batch.
They are separate steps, since nothing is locked. The write of a sweep is one pair of
steps here (TicketArchive has its rows one by one); the backfill takes any `Batch` rows.
A statement may fail (`WriteFails`), the connection may turn out lost, also at the
COMMIT (`WriteFindsConnectionLost`), may not tell its database, and the process may
end (`Restart`). Times are kept as ages that stop at `Interval`: an entry that old
throttles nothing, like none. `lone` is a history variable, how the last attempt
without rivals ended.

**BoardRead** goes on where ReadThrottle's reads begin. It has `board_view` statement
by statement (`CountRows`, the catalog, `UseColumns`, `UseContextLinks`), a list with
its rows before its total (`ReadRows`), `_relation_columns` and `context_links_present`
as one operator with a dictionary each (`Lookup`, `ReadCatalog`, `Store`), and the
retry of the tool's loop with the errors it does and does not catch. Around it,
columns grow and shrink, migrations land, tickets go stale and time passes. One
column stands for all columns of a board; the results of its statements are sizes.
A step of BoardRead is a step of ReadThrottle or leaves its variables alone, except
that a statement of the read that is cancelled, or finds its connection lost, counts a
fault, and the retry that may follow gives the reader a fresh connection and starts it
over. BoardReadProofs shows that these, too, keep what is proved of ReadThrottle.

**TicketRefs.** A reference is what parsing makes of it: form, number, prefix, and the
address it is wrapped in. `Coerce` is `coerce_ticket_ref`; `TicketCall` and `LinkCall`
are what the two tools do with one, with a list, and with source and target. `Names` is
the reference: the project that a reference names by itself. `AskCall` makes any call
whose references are one of `Lists`.

**DuplicateHints.** Creates that race (the row is not seen before its COMMIT), then
the query of `find_possible_duplicates` with its three caps, between edits, closes and
reopenings. `hash` is the text of the INSERT, `text` the one of now. Scores are a
table over texts. Which of the candidates are the most recently updated is left open,
since the caps' order by time is all that depends on it. A call that leaves after its
COMMIT is one of the REST route, which asks for no hints.

## Runs

| run | module, cfg | question |
|---|---|---|
| `questions` | Questions | every type, status (foreign ones too) and target: are hints shortest legal walks, does a close reach its resolution the shortest way and stay open until its end? Every reference, list and link target: is the call carried out in the project it names? Two filers, three tickets, two changes: who is told of duplicates? |
| `lifecycle_serial` | LifecycleSerial | one session, a bug and a task, a bug that may be edited to a task, batches of two, one failure: state machine, audit chain, history order, closing of batches, an answer to every call |
| `lifecycle_races` | LifecycleRaces | two sessions, edits of the type, metadata sent with and without a `parked` key, one failure: what survives every interleaving, and where the rest comes from |
| `text_races` | TextRaces | a plain, a guarded and an overwriting client: refinement of AtomicText, updated_at, history, conflicts |
| `links_serial` | LinksSerial | one session: no mutual blocks, no double related link after any adds and removals |
| `lease_races` | LeaseRaces | two holders, two sessions, two tickets, four ticks: a lease is honoured and kept; refinement of LeaseRegister |
| `archive_races` | ArchiveRaces | two sessions, two tickets, one failure: targeted archival, batches, the sweep and moves |
| `board_reads` | BoardReads | two readers, one fault: throttle, backlog, counts, caches beside migrations |
| `lifecycle_race_move` | LifecycleRaceMove | finds an illegal status change by two racing moves |
| `links_race_cycle` | LinksRaceCycle | finds two tickets that block each other |
| `links_removal` | LinksRemoval | finds a removal that takes a link of the other table |
| `board_retry` | BoardRetry | finds a board that is not asked again although its connection was dropped |

### What they show

*Close paths.* Every walk that `close_ticket` can take is legal, as short as any,
never visits parked (which would be refused for want of a reason, half way) and
visits no terminal but its last. From every open status of its own type a ticket can
be closed with every resolution. Foreign statuses are included because editing a
type can produce them; no path leads out of those.

*Lifecycle.* With one session (`lifecycle_serial`) the machine, the audit trail and the
closing of batches are what the documentation says, failures and crashes in the middle of
walks and batches included. With two, parts of this fail:
`transition_ticket` decides on a row it has read and updates `WHERE id = %s`. The status
change may be illegal (`NoInvalidStateChange`, the finding), and two history rows may name
the same old value (`AuditIsAChain`). What survives (`lifecycle_races`): closed_at is set
exactly in terminal statuses (`ClosedIffTerminal`, on which the sweep relies), the last
status row names the status the ticket has (`AuditEndsAtStatus`), and an illegal change is
always the write of a session whose row has changed since it read it
(`OnlyStaleWritesBreakTheMachine`), so a condition on the status in the WHERE clause
would be enough to exclude it. `NewestRowIsCurrent` is about calls that do not overlap:
of two that do, the older time may be committed last.

`metadata.parked` is not tied to the status, not even with one session: a caller may send
one with a create or an update, as when it writes back after a reopening what it read
before. `StampsStrayInTwoWays` says where a `parked` key on a ticket that is not parked
comes from: a caller has sent it, or a move has written that had read the ticket before a
park. (A ticket may also be created with one.) On a parked ticket the key may be missing
or another park's, when a caller has replaced the metadata; `ParkedTellsWhy` says that the
history has the reason all the same, with the time of the last status row, and which write
the stamp is from: that park, or the last update of the metadata after it. The caller's other keys are lost to a park or
reopening with a stale row and to nothing else (`OnlyStaleMovesLoseNotes`).

Editing a type can leave a ticket in a status its new machine does not have, where
no move is valid and no close finds a path. `OnlyRetypedTicketsAreStranded` says that
nothing else does, races included, and that the history of such a ticket has the edit.
`CloseCloses` says that a close or a batch, without failures and rivals, has
closed every ticket it was given; stranded tickets, and resolutions of another type, are
its exceptions. Every call comes to an answer (`EveryCallAnswers`).

*Content.* Appends are never lost, whatever races with them; an update without
`confirm` keeps the text it finds; a guarded update lands on what its caller read.
The guard is an equality of timestamps, and `StampNamesTheContent` says why that is
enough although timestamps can go back: a client whose copy has the row's
`updated_at` has the row's content. This needs `time.time()` of two calls to differ.

*Links, leases, archival.* One call at a time, links keep their rules; two calls can
pass the SELECT for the reverse link together. Leases and archival decide inside the
statement or under the row lock, and hold with any interleaving in the instances.
A lease that was answered is honoured also when the ticket is moved, closed or
archived under it, and all that the handlers do to leases is what LeaseRegister allows.
The sweep never hides a ticket that was reopened while it waited.

*Reads.* The throttle's race costs extra writes and no more: what an attempt without
rivals came to decides the next one (`OutcomeDecidesTheNextRead`), and where reads
keep coming every backlog drains (`NoRowIsLeftBehind`), a batch per read. With rivals, a
slow thread can set the entry back to its own earlier clock reading, so that a window
sees up to two extra writes, where the comment says one. A failed write leaves
no aborted transaction to the read. Counts and rows of a board come from two
statements, and yet what is answered was true at some moment between them
(`CountWasTrue`); only the number cut off may be of rows that have left. Caches of
absence end in time even when a thread stores an answer that was overtaken by the
migration (`AbsenceIsForgottenInTime`): the deadline counts from before the catalog was
asked.

*References.* In all combinations of forms, a call is carried out in the one project
that its argument, reference and list name, or refused. A link whose target is a bare
number is refused when the project came with its source's prefix, since the number
could be meant in another one.

*Duplicates.* The check comes after the commit, so of racing creates of one text the
later one sees the earlier, whatever edits followed, for the hash is the one of the
INSERT. The exceptions are in the property: tickets that were closed meanwhile, and
the caps.

### Bounds

Every counter that could grow without end has a constant: `MaxCalls` (calls begun),
`MaxFailures`, `MaxTime`, `MaxText`, `BatchMax`. `Sent` holds the metadata that
callers send: none at all, and a `parked` key beside another key whose stamp may be that of
the park of now, of one before, or of none. Calls are independent of each other
but through a row, so two sessions on one or two tickets meet every pair of
handlers at every pair of steps; a third session adds a third stale row, not a new kind
of step. Three or four calls are what the hazards take: create, two that race, and one
that meets the result. Bugs and tasks are the types used, since bug and feature
machines differ in names only, and decision is the smallest; `questions` has all
four. Two pieces of text and two titles tell any two writers apart. Tick bounds
leave room for a lease to be granted, outlived, and taken over, and for a TTL of
one tick to pass after a closing and before and during a sweep. Batches of two can
name two tickets or one twice. Readers: two threads meet in every order at the dictionary; three rows and batches of
two leave a rest, and `Interval` 2 lets an attempt be as old as half a window. Ages
beyond it cannot be told apart by the code. One fault (`MaxFaults`) at a time, at any
step; a second one in the retry would be answered as any first one elsewhere. Columns
of up to three tickets with a limit of two are under, at and over the limit. What
changes in a column, in the catalog and in the backlog never meets in one statement,
so the scenarios of BoardReadMC vary one of them and let the others rest. References
go to `MaxId + 1`, on both sides of the limit, over two projects and an unknown
prefix; lists have two references, which can agree or differ. Duplicates: three
tickets make pairs, and a third that is as similar when there is room for one hint; two
changes edit a ticket and close another. `SYMMETRY` is over sessions, holders, pieces,
filers and tickets, only in runs without liveness. Deadlock is not checked: when
the calls are used up nothing has to happen.

### Fairness

Handlers are straight-line code that waits for the database only, so TicketLifecycle
has weak fairness of each session's `Continue`, and BoardRead of each reader's steps
and of time. There is no fairness on making calls, on failing or on crashing: nobody
has to call, and no failure has to happen. `NoRowIsLeftBehind` therefore is about reads
that keep coming: it supposes that infinitely often a reader comes to the throttle for
that write, which is what the throttle decides from. No action of the two
models waits for another session (the locks an UPDATE takes are held for one
step), so weak fairness is enough. `EveryCallAnswers` is checked with one session:
the walk and the batch that must end are one session's own, and the next move of
another session can only end a walk earlier.

## Findings

The four violated runs are findings in PROJECT.json, with the line of code and the
sentence it disagrees with. Differences of the same kinds that were met on the way
and have no run of their own:

- `_park_metadata`'s docstring (`service.py` 240-242) says of `metadata.parked` that it is
  "present only while status == parked". A single caller can bring one to a ticket that is
  not parked: create (398) and update (657-661) store the metadata they are given. Under a
  race the unguarded UPDATE leaves one behind too (`StampsStrayInTwoWays` has both).
- the same UPDATE repeats old values in the history under a race (above).
- `tests/test_parked_1746.py` 18-19 has reason and date "live in metadata.parked while
  parked"; `service.py` 657-661 replaces the whole metadata, so a metadata update of a
  parked ticket may lose both or put those of an older park there. The history keeps the reason (`ParkedTellsWhy`).
- two sessions can relate two tickets in opposite directions; `service.py` 1651 says
  they "are one link".
- editing a type strands a ticket in a status of another machine, although README line
  51 says "No invalid state changes are possible" (`OnlyRetypedTicketsAreStranded`).
- `service.py` 753 says a reason is "ignored otherwise"; `_validate_park_args`
  refuses a reason with any other target.
- `service.py` 663 returns before the guard is evaluated when an update changes
  nothing, and the guard at 675 is exact equality; the docstring (592-593) says
  it refuses when updated_at "differs (>1ms)".
- README line 172 has a close go to the "first reachable terminal status";
  `_find_close_path` prefers the positive terminal, however far.
- `validate_transition` recommends a close that "walks it in one call"
  (`service.py` 310); a ticket that is closed already is answered without a walk.
- every IntegrityError of `add_link` is answered as already linked, also for a
  ticket that does not exist (`service.py` 1691).
- MCP `batch_close` passes no `changed_by` (`mcp_tools.py` 669); its history rows
  have no actor.
- a release that found nothing may tell the live holder that "Only the live
  lease holder can release it" (`leases.py` 198), when its own claim commits
  between the two statements.
- a column that loses rows between the board's two statements is answered with
  has_more and a truncated_count although nothing was cut; a list's total is of another
  moment than its rows.
- `stale_archive.py` 19 says that a race of two threads costs "one extra write"; a
  thread whose clock reading is old also sets the entry back, which costs another.
- `refs.py` 29-30 says "Id range parity across ALL input forms"; `PREFIX-0` is
  taken, as id 0, where `0` is refused.
- `refs.py` 12-13 says that an address "wins over the passed one"; the tools refuse an
  address of another project than the one passed.
- `refs.py` 4 has bare numbers mean the current project; in a batch with a
  prefixed reference and no project they go to the prefix's project.
- no edit refreshes `content_hash`: a hint may score 1.0 for a ticket that now says
  something else, and the re-file of what a ticket was edited to is no exact match,
  although `duplicates.py` 37-38 says "A byte-identical re-file scores 1.0 even when its
  text stems to nothing".
- `duplicates.py` 5 says "Every create door now names the nearest OPEN tickets"; the
  REST route does not ask.
- a long-closed ticket that is restored is archived again by the next sweep, and a
  hidden ticket that is reopened stays hidden.

## Proofs

Every theorem below holds for every value of the constants that the named assumptions
of its module allow. Those about a single session also suppose `SoleSession`, that any
two sessions are one. Each argument is an inductive invariant, checked by cases of the
next-state relation, one lemma per action or group of actions that do the same.

TicketLifecycleProofs proves about TicketLifecycle, for every value of its
constants (any number of tickets, sessions, calls and failures, batches of any
length, any subset of the types):

- `TypeCorrect`: `Spec => [](TypeOK /\ PendingWrites)`
- `ClosedCorrect`: `Spec => []ClosedIffTerminal`
- `StaleWritesOnly`: `Spec => OnlyStaleWritesBreakTheMachine`
- `SerialMovesAreValid`: with a single session, `Spec => NoInvalidStateChange`

Assumptions are those of the module on its constants: types are types of the
tables, `Nobody` is not a session, bounds are naturals, and what callers send (`Sent`) is
metadata, with any stamp.

`TypeOK` alone is not inductive: a write puts `target` into the row, and only
`PendingWrites` knows that `target` is a status. `PendingWrites` says of every session
about to write that its target was allowed by the row it read (an edge of the
machine from `seen.status`, or a value that edits accept) and that its ticket
exists. It is preserved because a read establishes it from the guards
(`ReadStep`, `EditReadStep`), other sessions' steps do not touch `call[s]` and never
remove a ticket (`OthersStayLicensed`), and a write leaves the state it speaks of
(`WriteStep`). The step lemmas have one case per action; `TypeStep` joins them.

`ClosedIffTerminal` follows in one more step: a move writes closed_at by the
terminals of the type it *read*, and `PendingWrites` makes the target a status of
that type. `TerminalIsGlobal` is the fact about the tables that makes this right
after a retype: no status is terminal in one type and open in another. Edits leave
both columns.

`StaleWritesOnly` needs no further invariant: if the `seen` of the session that writes is
the row still, `PendingWrites` makes its change an edge of the row. `SerialMovesAreValid` adds
`SnapshotIsCurrent`: with one session, nobody changes the row between its read and its
write.

It goes on with the audit trail and the metadata:

- `AuditCorrect`, `ParkedTold`: `Spec => []AuditEndsAtStatus`, `Spec => []ParkedTellsWhy`
- `StraysAreSentOrStale`, `NotesAreLostByStaleMoves`: `Spec => StampsStrayInTwoWays`,
  `Spec => OnlyStaleMovesLoseNotes`
- `StrandedByRetypeOnly`: `Spec => []OnlyRetypedTicketsAreStranded`
- with a single session, `SerialTrailCorrect`: `Spec => [](AuditIsAChain /\
  NewestRowIsCurrent)`

The status and its history row are written by one step, so `AuditEndsAtStatus` only needs
`NoHistoryBeforeCreate`. `ParkedTellsWhy` goes with it: a park writes its three marks at
once, and any later update of the metadata is a row behind them that has the stamp it
brought. Strays and lost keys are read off the writes (`StrayStep`, `NotesStep`): what a
move puts into the metadata is what it read, and what it read is a row (`PendingWrites`). That a ticket is stranded by an edit of its type and nothing else
is not visible at the write: a move judged by the type it read may find the type
edited. `SeenTypesAreRecorded` carries the fact over: what a pending write takes for the
type is the type, or the history has an edit of it. The serial results add
`SnapshotIsCurrent` and `RowsAreOlder`, by which a pending write is later than all rows of
the history, so that the last row is also the newest (`SerialTrail`).

- with a single session, `SerialClosesClose`: `Spec => CloseCloses`

A close plans its walk once and then goes on blindly, so the invariant (`ClosesGoOn`)
says what the rest of the walk is worth: it leads from where the ticket is to a terminal
of its type and through no status that hides tickets, for such a step would be refused
(`Closing`), and the items of the batch before the current one are done. A plan
establishes it by what ClosePathProofs says of the search (`CloseWalk`); a write uses up
the head of the walk, and the next read finds the ticket there (`SnapshotIsCurrent`), so
nothing is refused (`WalkGoesOn`). The invariant is only about behaviours where nothing has
failed yet.

TicketLeaseProofs proves about TicketLease, for any number of tickets, holders,
sessions and calls, any lifetimes and any bound on the clock:

- `LeaseTypesCorrect`: `Spec => [](TypeOK /\ LocksAreHeld /\ PendingRows)`
- `LeaseHonoured`: `Spec => []LeaseIsHonoured`
- `LiveLeaseKept`: `Spec => LiveLeaseIsKept`
- `RegisterImplemented`: `Spec => ImplementsRegister`, the refinement of LeaseRegister

It assumes of the constants that ids are naturals, that lifetimes are positive, and
that `Nobody` is no holder and `Free` no session.

The invariant is `Consistent`. `CallsHaveStarted` keeps the one fact about time the
argument needs: a call's `now` is never later than the clock. `LocksAreHeld` makes
the row that a call decided on the row it commits over. `PendingRows` says what a call
holding a lock may commit (`Licensed`): a claim's row takes a lease that had ended at
the call's own `now`, or renews its holder's; a release ends its holder's; a move
leaves the three columns. A statement establishes its licence as it gets the lock
(`GrantedIsLicensed` is where the WHERE and SET clauses of a claim meet), no other
call can touch the row while it is locked, and a COMMIT uses the licence up.

The two properties then need only look at `Finish` (`OnlyFinishWrites`). If a lease is
live by the clock, it is live by the `now` of every call, which is earlier: so a claim
that commits over it is its holder's, and its end moves later.

The refinement maps a row to the lease it shows at the clock. `CommitIsOnRegister` is the
licence of `PendingRows` read as a step of the register: a licensed row takes a free
lease, prolongs or gives up the writer's own, or does not show. `TickEndsLeases` is the
one other step that shows; the rest leave rows and clock alone.

TicketTextProofs proves about TicketText, for any number of clients and any pieces:

- `TypesHold`, `StampIsTrustworthy`, `ConflictIsTrue`: `Spec => []TypeOK`,
  `[]StampNamesTheContent`, `[]ConflictShowsTheChange`
- `HistoryIsComplete`: `Spec => []HistoryRebuildsTheText`
- `WritesImplementAtomicText`: `Spec => WritesAreAtomic`, the refinement of AtomicText

`StampNamesTheContent` speaks of clients' copies; it is kept because the time of a write
is in no other place, although it was taken before the wait for the row (`TimesAreFresh`,
which rests on `TimesHavePassed`). `CallsArePrepared` says what an update about to write
knows: a `seenAt` that is the row's stamp still makes `seen` the row. The refinement
mapping is the identity. Only an update's write needs the invariant to be an edit
that AtomicText allows (`UpdateWriteIsAnEdit`).

`HistoryRebuildsTheText` folds the whole history. The invariant (`Tells`) is about every
function that obeys the equation of the fold, and says that there is one: adding a row to
a history that tells the text gives one that tells what the row makes of it
(`IsReplay`, `Replay`), and each write adds the rows that make the new text of the old. An
update that changes title and text adds two, only one of which says anything of the text.

TicketLinksProofs proves about TicketLinks, with a single session, that no sequence of
adds and removals makes two tickets block each other (`SerialLinksAreAcyclic`) or relates
them twice (`SerialRelatedIsOneLink`). `LinksInv` holds for any number of sessions;
`LookIsCurrent`, that the SELECT's answer is true still at the INSERT, is what the second
session breaks in `links_race_cycle`.

TicketArchiveProofs proves about TicketArchive, for any number of sessions:

- `ArchiveTypesCorrect`, `TrailCorrect`: `Spec => []TypeOK`, `[]ArchiveTrailAlternates`
- `HiddenWorkIsFinished`: `Spec => OnlyFinishedWorkIsHidden`
- `ReportsAreTrue`: `Spec => []BatchReportIsTrue`

`LocksAndCalls` says that a call has the locks its place in the program implies and that
rows a sweep holds are stale until it commits; the trail is part of the invariant, since
an archival is recorded as a change of what was read under the lock. For the reports,
`Books` ties what a batch has booked so far to the history: call numbers are in use once
(`OwnNumber`), and an item is booked exactly when a row with the number exists.

BoardReadProofs proves of ReadThrottle's own `Spec` its types, that no read finds an
aborted transaction, and `OutcomeDecidesTheNextRead`; then the same of
`BoardSpec`, and there `CountWasTrue`, `AbsenceIsForgottenInTime` and
`StatementsNameWhatExists` (`CountsWereTrue`, `AbsenceEnds`, `StatementsAreGood`).

The dictionary has no lock, so the argument is about who knows of whom. Of two threads
that attempt one write, both are marked as raced (`RivalsAreRaced`), so an attempt without
rivals finds its own entry (`EntryIsOwn`), and leaves an entry that agrees with what it came
to: none after a full batch, else one no older than the attempt (`EntryTellsOutcome`). From
an invariant state, each step then decides as the property wants (`ContinueDecides`).
`BoardInv` adds what a page knows at each statement. Between its count and its rows a
column changes one by one, so it has had every size between what was counted and what it
has now (`Steady`), and what the rows bring beside the count was true at some moment
(`Fits`, `Told`). A page that found a relation present is right for good; one that found
it absent has taken its time before any migration since (`CatalogOK`), which is why an
entry ends within its window of the migration.

ClosePathProofs proves about the searches, for any type, any status to start from and any
set of targets:

- `SearchFindsAShortestWalk`: the result is a legal walk into the targets that no legal
  walk is shorter than; there is none only if no target can be reached
- `HintsAreShortestWalks`: a hint is as long as the layers of the graph say

`Searched` is the loop invariant between passes, `Expanding` the one within a pass. What is
visited and has left the queue has its successors visited; paths on the queue are
shortest, in order of length, differ by one at most, and all that is nearer has been
visited (`Layered`); no target has (`Explored`). So the first target met is met by a
shortest walk. Each pass takes one entry off the queue, and as many statuses are
visited as were taken or still wait, which bounds the passes by the statuses of the type:
after `MaxPasses` an empty queue is left, and what was visited is closed under transitions.
The provers cannot take an induction theorem with a predicate as parameter, so the
inductions are over sets of naturals: the set of counterexamples has a least member, by the
library's theorem that the naturals are well-founded (`Induction`, `Least`). A recursive
function needs, besides, a proof that there is a function with its equation. `CloseWalk`
adds the tables: from each open status of a type each of its terminals is reached by a
shortest walk that meets no status which hides tickets, and from a foreign status there
is none.

QuestionsProofs takes this to the properties of run `questions`, and proves those of
references and hints:

- `HintsCanBeWalked`, `ClosesReachTheirResolution`: `Spec => []HintIsShortestWalk`,
  `[]CloseReachesItsResolution` (ClosePathMC's `Spec`)
- `CallsAreCarriedOutWhereTheySay`, `LinksStayInAProject`: `CallSpec =>
  []CallsReachTheProjectTheyName`, `[]LinkEndsShareAProject`, for any projects, prefixes,
  largest id, and lists of any length
- `OneIsNotToldAtMost`: `FilingSpec => []OnlyOneIsNotTold`, for any filers, texts, scores,
  numbers of tickets and caps
- `AllQuestionsAreAnswered`: the five of QuestionsMC's own specification, where the three
  interleave

It assumes that there is a project, that owners of prefixes are projects, that the threshold
of the hints is a percentage and the caps are naturals. For a batch the
question is how many projects its references come to: `Named` is finite, and more than one
exactly when two references differ. For hints the invariant (`FilingInv`) says that of two
tickets with one hash which were both checked and not put away, and whose answers left no
match out for want of room, one was told of the other (`TwinsAreTold`), because who has been checked is visible
(`CheckedAreShown`) and the query leaves out an exact match only when its caps are full
(`TopHasTheFirst`).

### Only model-checked

- Liveness (`EveryCallAnswers`, `NoRowIsLeftBehind`), which this prover does not do.
- The violated properties of the four findings are false and have no proof;
  `NoInvalidStateChange` and `NoMutualBlocks` are proved for a single session.

All other properties of the runs are stated by a theorem.

## What is assumed

- READ COMMITTED, and row locks that are held until the end of a transaction.
- `time.time()` differs between calls (a call's time is one tick after any other's).
  Leases need no such assumption and have a clock of their own.
- A statement that does not wait is one step. An update whose rows can be waited for
  is split where a property depends on it (leases, archival); elsewhere the wait is
  the step being taken later.
- The sweep and batches visit rows in one order, so they do not deadlock. PostgreSQL
  would end a deadlock with an error, which is `Fail`.

## What is not modelled

Text of messages, logging and layout; the SQL of search, tags and of the filters of
lists; fields, previews and links of a card; DDL and the SQL of triggers; the score of
two texts; parsing of arguments other than references; actors, projections and the
other conversions of single values. A board without a limit, a catalog that does not
answer, and a connection that cannot be made are left out. The post to the host's
board after a lease is committed changes nothing here and its failure is swallowed.
Invalidation of the host's cache is outside this repository. The lease columns'
effect on `updated_at` is that of the moves in TicketText. In TicketArchive a closed
ticket is closed for archival and sweep alike; a ticket whose type was edited after
closing is closed for the sweep only.

## Plan

What is left, and what it would need:

1. A conflict of an update that changes nothing, the second statement of a release, and
   the sweep's return after a restore are in the models without a property; each would
   need a promise in the docs to hold them to.
2. The serial results of lifecycle and links for the calls of several sessions on
   different tickets, which a weaker assumption than `SoleSession` would give: that no two
   calls on one ticket overlap.
