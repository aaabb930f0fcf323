--------------------------- MODULE TicketArchive ---------------------------
(***************************************************************************)
(* Archival: archived tickets leave the board, the lists and the search    *)
(* (stompy_ticketing/archival.py, stale_archive.py, archive_actions.py).   *)
(*                                                                         *)
(* Three writers share the rows: targeted calls lock one row, decide and   *)
(* commit, item by item; the sweep is one statement over all rows, whose   *)
(* locks it gathers until its COMMIT; moves read a row without a lock and  *)
(* update it later.  A sweep that waits for a row looks at it again when   *)
(* it has the lock (READ COMMITTED).                                       *)
(*                                                                         *)
(* The status of a ticket is only what archival tells apart.  Tickets are  *)
(* numbered in the order in which batches and scans visit them.            *)
(***************************************************************************)
EXTENDS Sequences, SequencesExt, Integers

CONSTANTS
  Tickets,     \* ids, in scan order
  Sessions,    \* calls that can run at the same time
  Free,        \* no session has the row locked
  TTL,         \* ttl_seconds of the sweep, in ticks
  MaxTime,     \* bound: the last tick
  MaxCalls,    \* bound: calls started in one behaviour
  MaxFailures  \* bound: calls that fail or die half way

ASSUME ArchiveTicketsAssumption == Tickets \subseteq Nat
ASSUME ArchiveFreeAssumption == Free \notin Sessions
ASSUME ArchiveBoundsAssumption == {TTL, MaxTime, MaxCalls, MaxFailures} \subseteq Nat

VARIABLES
  rows,     \* the tickets as they are committed
  history,  \* the archived_at rows of ticket_history, in the order of their commits
  lock,     \* the session that has each row locked
  call,     \* what each session is doing
  report,   \* the result of each session's last batch
  clock,    \* time.time()
  calls,    \* calls started so far
  failures  \* calls that have failed so far

vars == <<rows, history, lock, call, report, clock, calls, failures>>

----------------------------------------------------------------------------

\* open: every status that is neither parked nor terminal.
Stages == {"open", "parked", "closed"}

\* NULL is 0 in closed (closed_at) and archived (archived_at).
Row == [stage : Stages, closed : Nat, archived : Nat]

\* changed_by is the number of the call; the sweep is 0, system:auto_archive.
AutoArchive == 0

Entry == [old : Nat, new : Nat, by : Nat]

\* archive stands for one item (archive) and several (batch_archive, confirmed).
Ops == {"archive", "unarchive", "sweep", "move"}

\* ready:    has begun (a sweep has taken its time), no statement has run
\* locked:   SELECT ... FOR UPDATE has the row of item
\* scanning: the sweep has begun its scan; held are the rows it has updated
\* write:    a move has validated what it read and is about to UPDATE
PCs == {"idle", "ready", "locked", "scanning", "write"}

Call == [pc : PCs, op : Ops \cup {"none"}, id : Nat, ids : SUBSET Tickets, todo : SUBSET Tickets,
         item : Tickets \cup {0}, held : SUBSET Tickets, done : SUBSET Tickets, now : Nat,
         stage : Stages]

Idle == [pc |-> "idle", op |-> "none", id |-> 0, ids |-> {}, todo |-> {}, item |-> 0,
         held |-> {}, done |-> {}, now |-> 0, stage |-> "open"]

Report == [id : Nat, ids : SUBSET Tickets, done : SUBSET Tickets]

TypeOK ==
  /\ rows \in [Tickets -> Row]
  /\ history \in [Tickets -> Seq(Entry)]
  /\ lock \in [Tickets -> Sessions \cup {Free}]
  /\ call \in [Sessions -> Call]
  /\ report \in [Sessions -> Report]
  /\ {clock, calls, failures} \subseteq Nat
  /\ \A t \in Tickets, s \in Sessions :
       /\ lock[t] = s => call[s].pc \in {"locked", "scanning"}
       /\ t \in call[s].held => lock[t] = s

\* Tickets that are open, or were closed at time 1.
Init ==
  /\ rows \in [Tickets -> { [stage |-> "open", closed |-> 0, archived |-> 0],
                           [stage |-> "closed", closed |-> 1, archived |-> 0] }]
  /\ history = [t \in Tickets |-> <<>>]
  /\ lock = [t \in Tickets |-> Free]
  /\ call = [s \in Sessions |-> Idle]
  /\ report = [s \in Sessions |-> [id |-> 0, ids |-> {}, done |-> {}]]
  /\ clock = 1
  /\ calls = 0
  /\ failures = 0

----------------------------------------------------------------------------

Begin(s, request) ==
  /\ call[s].pc = "idle"
  /\ calls < MaxCalls
  /\ calls' = calls + 1
  /\ call' = [call EXCEPT ![s] = [request EXCEPT !.pc = "ready", !.id = calls + 1, !.now = clock]]
  /\ UNCHANGED <<rows, history, lock, report, clock, failures>>

Request(s) ==
  \/ \E ids \in SUBSET Tickets \ {{}} :
       Begin(s, [Idle EXCEPT !.op = "archive", !.ids = ids, !.todo = ids])
  \/ \E t \in Tickets : Begin(s, [Idle EXCEPT !.op = "unarchive", !.ids = {t}, !.todo = {t}])
  \/ Begin(s, [Idle EXCEPT !.op = "sweep"])
  \/ \E t \in Tickets, stage \in Stages :
       Begin(s, [Idle EXCEPT !.op = "move", !.item = t, !.stage = stage])

First(S) == { t \in S : \A u \in S : t =< u }

\* Mutant of Unlocked: the call ends without COMMIT or ROLLBACK.
UnlockedNever(s) == lock

Unlocked(s) == [t \in Tickets |-> IF lock[t] = s THEN Free ELSE lock[t]]

\* The row and the history of an archived_at that becomes value.
Stored(row, value) == [row EXCEPT !.archived = value]

Recorded(row, value, by) == [old |-> row.archived, new |-> value, by |-> by]

----------------------------------------------------------------------------
(* Targeted archival *)

\* Mutant of Allowed: the state of the ticket is not looked at.
AllowedWhileOpen(op, row) == IF op = "unarchive" THEN row.archived # 0 ELSE row.archived = 0

\* _refuse
Allowed(op, row) ==
  IF op = "unarchive" THEN row.archived # 0
  ELSE row.archived = 0 /\ row.stage \in {"parked", "closed"}

\* Mutant of Booked: what a batch was asked for is what it reports.
BookedRegardless(c, ok) == c.done \cup {c.item}

\* The results of the batch so far.
Booked(c, ok) == IF ok THEN c.done \cup {c.item} ELSE c.done

LockItem(s) ==
  /\ call[s].pc = "ready"
  /\ call[s].op \in {"archive", "unarchive"}
  /\ \E t \in First(call[s].todo) :
       /\ lock[t] = Free
       /\ lock' = [lock EXCEPT ![t] = s]
       /\ call' = [call EXCEPT ![s].pc = "locked", ![s].item = t]
  /\ UNCHANGED <<rows, history, report, clock, calls, failures>>

\* COMMIT of the item, or ROLLBACK when it is refused; the batch goes on.
FinishItem(s) ==
  LET c == call[s]
      t == c.item
      value == IF c.op = "unarchive" THEN 0 ELSE clock
      ok == Allowed(c.op, rows[t])
      done == Booked(c, ok)
      todo == c.todo \ {t}
  IN  /\ c.pc = "locked"
      /\ rows' = IF ok THEN [rows EXCEPT ![t] = Stored(@, value)] ELSE rows
      /\ history' = IF ok THEN [history EXCEPT ![t] = Append(@, Recorded(rows[t], value, c.id))]
                    ELSE history
      /\ lock' = [lock EXCEPT ![t] = Free]
      /\ \/ /\ todo # {}
            /\ call' = [call EXCEPT ![s].pc = "ready", ![s].todo = todo, ![s].done = done]
            /\ UNCHANGED report
         \/ /\ todo = {}
            /\ call' = [call EXCEPT ![s] = Idle]
            /\ report' = [report EXCEPT ![s] = [id |-> c.id, ids |-> c.ids, done |-> done]]
      /\ UNCHANGED <<clock, calls, failures>>

----------------------------------------------------------------------------
(* The sweep *)

\* The WHERE clause, with the cutoff of a sweep that began at time now.
Stale(row, now) ==
  /\ row.closed # 0
  /\ row.closed < now - TTL
  /\ row.archived = 0
  /\ row.stage = "closed"

\* Mutant of Rechecked: the rows are those that the scan saw.
RecheckedNever(row, now) == TRUE

\* What the sweep asks of a row once it has the lock, which it keeps also when
\* the answer is no.
Rechecked(row, now) == Stale(row, now)

SweepStart(s) ==
  LET c == call[s]
  IN  /\ c.pc = "ready"
      /\ c.op = "sweep"
      /\ call' = [call EXCEPT ![s].pc = "scanning",
                              ![s].todo = { t \in Tickets : Stale(rows[t], c.now) }]
      /\ UNCHANGED <<rows, history, lock, report, clock, calls, failures>>

SweepRow(s) ==
  LET c == call[s]
  IN  /\ c.pc = "scanning"
      /\ \E t \in First(c.todo) :
           /\ lock[t] = Free
           /\ lock' = [lock EXCEPT ![t] = s]
           /\ call' = [call EXCEPT ![s].todo = @ \ {t},
                                   ![s].held = IF Rechecked(rows[t], c.now) THEN @ \cup {t} ELSE @]
      /\ UNCHANGED <<rows, history, report, clock, calls, failures>>

\* The history INSERT is fed by the UPDATE's RETURNING.  A sweep that archived
\* nothing does not COMMIT; its transaction ends with the read it was part of.
SweepCommit(s) ==
  LET c == call[s]
  IN  /\ c.pc = "scanning"
      /\ c.todo = {}
      /\ rows' = [t \in Tickets |-> IF t \in c.held THEN Stored(rows[t], c.now) ELSE rows[t]]
      /\ history' = [t \in Tickets |->
           IF t \in c.held THEN Append(history[t], Recorded(rows[t], c.now, AutoArchive))
           ELSE history[t]]
      /\ lock' = Unlocked(s)
      /\ call' = [call EXCEPT ![s] = Idle]
      /\ UNCHANGED <<report, clock, calls, failures>>

----------------------------------------------------------------------------
(* Moves, which leave archived_at alone *)

MoveRead(s) ==
  LET c == call[s]
  IN  /\ c.pc = "ready"
      /\ c.op = "move"
      /\ call' = IF "open" \in {c.stage, rows[c.item].stage}
                 THEN [call EXCEPT ![s].pc = "write", ![s].now = clock]
                 ELSE [call EXCEPT ![s] = Idle]  \* InvalidTransitionError
      /\ UNCHANGED <<rows, history, lock, report, clock, calls, failures>>

MoveWrite(s) ==
  LET c == call[s]
  IN  /\ c.pc = "write"
      /\ lock[c.item] = Free
      /\ rows' = [rows EXCEPT ![c.item].stage = c.stage,
                              ![c.item].closed = IF c.stage = "closed" THEN c.now ELSE 0]
      /\ call' = [call EXCEPT ![s] = Idle]
      /\ UNCHANGED <<history, lock, report, clock, calls, failures>>

----------------------------------------------------------------------------

\* Any failure but a refusal ends the call, a batch after the items it has
\* committed: ROLLBACK, and no result.  So does the end of the process.
Fail(s) ==
  /\ failures < MaxFailures
  /\ call[s].pc # "idle"
  /\ failures' = failures + 1
  /\ lock' = Unlocked(s)
  /\ call' = [call EXCEPT ![s] = Idle]
  /\ UNCHANGED <<rows, history, report, clock, calls>>

Tick ==
  /\ clock < MaxTime
  /\ clock' = clock + 1
  /\ UNCHANGED <<rows, history, lock, call, report, calls, failures>>

Continue(s) ==
  \/ LockItem(s)
  \/ FinishItem(s)
  \/ SweepStart(s)
  \/ SweepRow(s)
  \/ SweepCommit(s)
  \/ MoveRead(s)
  \/ MoveWrite(s)

Next == Tick \/ \E s \in Sessions : Request(s) \/ Continue(s) \/ Fail(s)

Spec == Init /\ [][Next]_vars

----------------------------------------------------------------------------
(* Properties *)

\* The audit trail of archived_at is an alternation of archivals and restores
\* that ends where the ticket is: no ticket is archived twice and none is
\* restored twice, whichever of the three writers race.
ArchiveTrailAlternates ==
  \A t \in Tickets :
    /\ \A i \in DOMAIN history[t] : (history[t][i].old = 0) # (history[t][i].new = 0)
    /\ \A i \in 2..Len(history[t]) : history[t][i].old = history[t][i - 1].new
    /\ rows[t].archived = IF history[t] = <<>> THEN 0 ELSE Last(history[t]).new

\* Nobody's work in progress disappears: in the step that hides a ticket it is
\* parked or closed, and when the sweep hides it, it has been closed for the
\* whole TTL, also when it was reopened after the sweep had begun.
OnlyFinishedWorkIsHidden ==
  [][\A t \in Tickets : rows[t].archived = 0 /\ rows'[t].archived # 0 =>
       /\ rows[t].stage # "open"
       /\ Last(history'[t]).by = AutoArchive => rows[t].closed # 0 /\ rows[t].closed < clock - TTL]_vars

\* What a batch reports as archived is what it has archived, and the rest of
\* what it was given it has left alone, whatever other calls did meanwhile.
BatchReportIsTrue ==
  \A s \in Sessions : \A t \in report[s].ids :
    t \in report[s].done <=> \E i \in DOMAIN history[t] : history[t][i].by = report[s].id

=============================================================================
