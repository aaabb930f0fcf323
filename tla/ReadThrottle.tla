---------------------------- MODULE ReadThrottle ----------------------------
(***************************************************************************)
(* The writes that reads make first, and the throttle they run through     *)
(* (stompy_ticketing/stale_archive.py, run_if_due and sweep_if_due;        *)
(* service.py, search_tickets and _backfill_null_tsvectors).               *)
(*                                                                         *)
(* A board, a list and a search sweep stale tickets before they read, and  *)
(* a search fills missing search vectors, each at most once per window for *)
(* a database.  The throttle is a dictionary of the process, without a     *)
(* lock: between a reader's look at it and its own entry, other readers    *)
(* run.  Only the write may fail, never the read behind it.                *)
(*                                                                         *)
(* Times are kept as ages, in ticks, and end at Interval: an entry that    *)
(* old throttles nothing, as if there were none.                           *)
(***************************************************************************)
EXTENDS Naturals, Sequences, FiniteSets, FiniteSetsExt

CONSTANTS
  Readers,      \* calls that can run at the same time, in threads of one process
  Databases,    \* the tenants' databases, whose schemas have the same name
  Rows,         \* tickets of each database
  Aging,        \* the tickets among them that are closed and can go stale
  Batch,        \* TSVECTOR_BACKFILL_LIMIT
  Interval,     \* SWEEP_INTERVAL_SECONDS, in ticks
  MaxFaults     \* bound: statements that fail, connections that are lost or do
                \* not tell their database, and restarts, together

ASSUME ThrottleBatchAssumption == Batch \in Nat \ {0}
ASSUME ThrottleIntervalAssumption == Interval \in Nat \ {0}
ASSUME ThrottleAgingAssumption == Aging \subseteq Rows
ASSUME ThrottleBoundsAssumption == MaxFaults \in Nat
ASSUME ThrottleDatabasesAssumption == Databases # {}

VARIABLES
  backlog,   \* backlog[kind][database]: the rows that kind of write is for
  age,       \* age[kind][database]: how old the entry of _last_sweep is
  reader,    \* what each reader is doing
  lone,      \* history variable: how the last attempt that had no rival ended
  faults     \* what has gone wrong so far; a behaviour may begin with less to come

throttleVars == <<backlog, age, reader, lone, faults>>

----------------------------------------------------------------------------

Kinds == {"stale_sweep", "tsvector_backfill"}
Ops == {"board", "list", "search"}
Ages == 0..Interval

\* The writes of each kind of read, in their order.
Writes ==
  [ board  |-> <<"stale_sweep">>,
    list   |-> <<"stale_sweep">>,
    search |-> <<"stale_sweep", "tsvector_backfill">> ]

\* check:  run_if_due is called for the next write
\* stamp:  it was due, the entry is not set yet
\* write:  the write is called
\* commit: its statement has run
\* rearm:  it returned True, the entry is not removed yet
\* read:   the writes are over
Attempting == {"stamp", "write", "commit", "rearm"}
PCs == {"idle", "check", "read"} \cup Attempting

\* gone:    lost, and the client does not know it yet
\* closed:  the client has found out
\* aborted: a statement failed and its transaction was not rolled back
Conns == {"ok", "gone", "closed", "aborted"}

\* named: the connection tells which database it is on; took: how old the
\* clock reading is; picked: the rows of the statement that has run; raced:
\* another reader attempts the same write at the same time.
Reader == [pc : PCs, op : Ops, db : Databases, named : BOOLEAN, left : 0..2,
           took : Ages, picked : SUBSET Rows, raced : BOOLEAN, conn : Conns]

Outcome == [full : BOOLEAN, age : Ages]

TypeOK ==
  /\ backlog \in [Kinds -> [Databases -> SUBSET Rows]]
  /\ age \in [Kinds -> [Databases -> Ages]]
  /\ reader \in [Readers -> Reader]
  /\ lone \in [Kinds -> [Databases -> Outcome]]
  /\ faults \in 0..MaxFaults

----------------------------------------------------------------------------
(* A reader and its writes *)

Idle == [pc |-> "idle", op |-> "list", db |-> CHOOSE db \in Databases : TRUE, named |-> TRUE,
         left |-> 0, took |-> 0, picked |-> {}, raced |-> FALSE, conn |-> "ok"]

NoOutcome == [full |-> FALSE, age |-> Interval]

\* n more things go wrong.
Faults(n) == faults + n =< MaxFaults /\ faults' = faults + n

Older(n) == IF n < Interval THEN n + 1 ELSE n

\* The write a reader is at: left counts the ones still to come, it included.
Kind(r) == LET writes == Writes[reader[r].op]
           IN  writes[Len(writes) + 1 - reader[r].left]

AtCheck(r, kind, db) ==
  /\ reader[r].pc = "check"
  /\ reader[r].db = db
  /\ Kind(r) = kind

\* Other readers between their look at r's entry and the end of their write.
Rivals(r) == { s \in Readers \ {r} : /\ reader[s].pc \in Attempting
                                     /\ reader[s].named
                                     /\ reader[s].db = reader[r].db
                                     /\ Kind(s) = Kind(r) }

\* Mutant of Due: the kinds of write share one entry.
DueSharesEntry(r) == \/ ~reader[r].named
                     \/ \A kind \in Kinds : age[kind][reader[r].db] >= Interval

\* Not throttled: an unknown database never is, else the window must be over.
Due(r) == \/ ~reader[r].named
          \/ age[Kind(r)][reader[r].db] >= Interval

FullBatch(r) == /\ Kind(r) = "tsvector_backfill"
                /\ Cardinality(reader[r].picked) >= Batch

\* Mutant of Remains: any result that counts as true re-arms the window.
RemainsIfAny(r) == reader[r].picked # {}

\* The write returns True: only the backfill does, for a full batch; the sweep
\* returns a number, which is not True.
Remains(r) == FullBatch(r)

\* Mutant of Stamped: the entry is set when the write has succeeded.
StampedLater(r) == age[Kind(r)][reader[r].db]

\* An attempt counts from the clock reading it was decided with.
Stamped(r) == reader[r].took

\* Mutant of RolledBack: the failed transaction is left open.
RolledBackNever(r) == "aborted"

\* The connection after a handler's rollback of a failed statement.
RolledBack(r) == reader[r].conn

\* What a statement can pick: the sweep takes all there are, the backfill any
\* rows up to its LIMIT (there is no ORDER BY).
Picks(r) ==
  LET due == backlog[Kind(r)][reader[r].db]
  IN  IF Kind(r) = "stale_sweep" \/ Cardinality(due) =< Batch THEN {due}
      ELSE kSubset(Batch, due)

\* A closed connection cannot tell its database any more.
PastWrite(r, conn) ==
  [reader[r] EXCEPT !.pc = IF reader[r].left > 1 THEN "check" ELSE "read",
                    !.left = @ - 1, !.took = 0, !.picked = {}, !.raced = FALSE,
                    !.conn = conn, !.named = @ /\ conn # "closed"]

\* The attempt is over: work remains or not.  Attempts that were raced, or of
\* which the throttle knows nothing, tell nothing about its next decision.
Settle(r, full) ==
  lone' = IF reader[r].raced \/ ~reader[r].named THEN lone
          ELSE [lone EXCEPT ![Kind(r)][reader[r].db] =
                              [full |-> full, age |-> reader[r].took]]

----------------------------------------------------------------------------
(* Reads *)

\* A call comes with a connection of its own, which an idle time may have cost.
Begin(r, op, db, named, conn) ==
  /\ reader[r].pc = "idle"
  /\ Faults((IF conn = "gone" THEN 1 ELSE 0) + (IF named THEN 0 ELSE 1))
  /\ reader' = [reader EXCEPT ![r] = [Idle EXCEPT !.pc = "check", !.op = op, !.db = db,
                                        !.named = named, !.conn = conn,
                                        !.left = Len(Writes[op])]]
  /\ UNCHANGED <<backlog, age, lone>>

Skip(r) ==
  /\ reader[r].pc = "check"
  /\ ~Due(r)
  /\ reader' = [reader EXCEPT ![r] = PastWrite(r, @.conn)]
  /\ UNCHANGED <<backlog, age, lone, faults>>

\* The look at the entry, with the clock reading that goes into it.  All who
\* attempt the same write at the same time are rivals.
GoAhead(r) ==
  /\ reader[r].pc = "check"
  /\ Due(r)
  /\ LET rivals == IF reader[r].named THEN Rivals(r) ELSE {}
     IN  reader' = [s \in Readers |->
           IF s = r THEN [reader[r] EXCEPT !.pc = IF reader[r].named THEN "stamp" ELSE "write",
                                           !.raced = rivals # {}]
           ELSE [reader[s] EXCEPT !.raced = @ \/ s \in rivals]]
  /\ lone' = IF reader[r].named
             THEN [lone EXCEPT ![Kind(r)][reader[r].db] = NoOutcome] ELSE lone
  /\ UNCHANGED <<backlog, age, faults>>

Stamp(r) ==
  /\ reader[r].pc = "stamp"
  /\ age' = [age EXCEPT ![Kind(r)][reader[r].db] = Stamped(r)]
  /\ reader' = [reader EXCEPT ![r].pc = "write"]
  /\ UNCHANGED <<backlog, lone, faults>>

\* The statement of the write runs; without rows nothing is committed.
Write(r) ==
  /\ reader[r].pc = "write"
  /\ reader[r].conn = "ok"
  /\ \E picked \in Picks(r) :
       IF picked = {}
       THEN /\ Settle(r, FALSE)
            /\ reader' = [reader EXCEPT ![r] = PastWrite(r, @.conn)]
       ELSE /\ reader' = [reader EXCEPT ![r].pc = "commit", ![r].picked = picked]
            /\ UNCHANGED lone
  /\ UNCHANGED <<backlog, age, faults>>

\* A row that another reader's statement has dealt with meanwhile stays so.
Commit(r) ==
  /\ reader[r].pc = "commit"
  /\ backlog' = [backlog EXCEPT ![Kind(r)][reader[r].db] = @ \ reader[r].picked]
  /\ IF Remains(r)
     THEN /\ reader' = [reader EXCEPT ![r].pc = "rearm"]
          /\ UNCHANGED lone
     ELSE /\ Settle(r, FullBatch(r))
          /\ reader' = [reader EXCEPT ![r] = PastWrite(r, @.conn)]
  /\ UNCHANGED <<age, faults>>

\* The entry is removed, for a database that has one.
Rearm(r) ==
  /\ reader[r].pc = "rearm"
  /\ age' = IF reader[r].named
            THEN [age EXCEPT ![Kind(r)][reader[r].db] = Interval] ELSE age
  /\ Settle(r, FullBatch(r))
  /\ reader' = [reader EXCEPT ![r] = PastWrite(r, @.conn)]
  /\ UNCHANGED <<backlog, faults>>

\* The server ends the statement with an error (a timeout, a deadlock): the
\* handler rolls back and raises, run_if_due swallows it.
WriteFails(r) ==
  /\ reader[r].pc = "write"
  /\ reader[r].conn \in {"ok", "aborted"}
  /\ Faults(IF reader[r].conn = "ok" THEN 1 ELSE 0)
  /\ Settle(r, FALSE)
  /\ reader' = [reader EXCEPT ![r] = PastWrite(r, RolledBack(r))]
  /\ UNCHANGED <<backlog, age>>

\* A write on a lost connection raises and so does the rollback: both are
\* swallowed, and the client now knows that the connection is closed.  A
\* COMMIT whose answer is lost may have been carried out.
WriteFindsConnectionLost(r) ==
  /\ \/ /\ reader[r].pc = "write"
        /\ reader[r].conn \in {"gone", "closed"}
        /\ UNCHANGED <<backlog, faults>>
     \/ /\ reader[r].pc = "commit"
        /\ Faults(1)
        /\ \/ UNCHANGED backlog
           \/ backlog' = [backlog EXCEPT ![Kind(r)][reader[r].db] = @ \ reader[r].picked]
  /\ Settle(r, FALSE)
  /\ reader' = [reader EXCEPT ![r] = PastWrite(r, "closed")]
  /\ UNCHANGED <<age>>

Continue(r) == \/ Skip(r) \/ GoAhead(r) \/ Stamp(r) \/ Write(r) \/ Commit(r) \/ Rearm(r)
               \/ WriteFails(r) \/ WriteFindsConnectionLost(r)

\* The read itself, which changes nothing here.
Answer(r) ==
  /\ reader[r].pc = "read"
  /\ reader' = [reader EXCEPT ![r] = Idle]
  /\ UNCHANGED <<backlog, age, lone, faults>>

----------------------------------------------------------------------------
(* The world around *)

\* A closed ticket passes its TTL.  (The trigger fills every new search
\* vector, so the other backlog never grows.)
GoStale(db, row) ==
  /\ backlog' = [backlog EXCEPT !["stale_sweep"][db] = @ \cup {row}]
  /\ UNCHANGED <<age, reader, lone, faults>>

AgesOlder ==
  /\ age' = [kind \in Kinds |-> [db \in Databases |-> Older(age[kind][db])]]
  /\ reader' = [r \in Readers |->
                  IF reader[r].pc \in Attempting /\ reader[r].named
                  THEN [reader[r] EXCEPT !.took = Older(@)] ELSE reader[r]]
  /\ lone' = [kind \in Kinds |-> [db \in Databases |->
                [lone[kind][db] EXCEPT !.age = Older(@)]]]

Tick ==
  /\ AgesOlder
  /\ UNCHANGED <<backlog, faults>>

\* The process ends with its readers and its dictionary; the data stays.
Restart ==
  /\ Faults(1)
  /\ age' = [kind \in Kinds |-> [db \in Databases |-> Interval]]
  /\ reader' = [r \in Readers |-> Idle]
  /\ lone' = [kind \in Kinds |-> [db \in Databases |-> NoOutcome]]
  /\ UNCHANGED <<backlog>>

\* The rows a kind of write can be for.
Affected == [stale_sweep |-> Aging, tsvector_backfill |-> Rows]

Backlogs == [stale_sweep : [Databases -> SUBSET Affected.stale_sweep],
             tsvector_backfill : [Databases -> SUBSET Affected.tsvector_backfill]]

Init ==
  /\ backlog \in Backlogs
  /\ age = [kind \in Kinds |-> [db \in Databases |-> Interval]]
  /\ reader = [r \in Readers |-> Idle]
  /\ lone = [kind \in Kinds |-> [db \in Databases |-> NoOutcome]]
  /\ faults \in 0..MaxFaults

Next ==
  \/ \E r \in Readers : Continue(r) \/ Answer(r)
  \/ \E r \in Readers, op \in Ops, db \in Databases, named \in BOOLEAN,
        conn \in {"ok", "gone"} : Begin(r, op, db, named, conn)
  \/ \E db \in Databases, row \in Aging : GoStale(db, row)
  \/ Tick
  \/ Restart

Spec == Init /\ [][Next]_throttleVars

----------------------------------------------------------------------------
(* Properties *)

\* A write that fails does not fail the read behind it: its transaction has
\* been ended when the read begins (run_if_due's "never let it fail the
\* read"; the rollbacks of archive_stale and _backfill_null_tsvectors).
ReadsFindNoAbortedTransaction ==
  \A r \in Readers : reader[r].pc = "read" => reader[r].conn # "aborted"

\* The step takes r past its next write without an attempt.
Throttled(r) == /\ reader[r].pc = "check" /\ reader'[r].pc \in {"check", "read"}
                /\ reader'[r].left < reader[r].left

\* What an attempt without rivals decides about the next read: after a full
\* batch it goes on with the backlog; after anything else, failures included,
\* it is throttled until the window is over.
OutcomeDecidesTheNextRead ==
  [][\A r \in Readers :
       reader[r].pc = "check" /\ reader[r].named =>
         LET last == lone[Kind(r)][reader[r].db]
         IN  /\ last.full => ~Throttled(r)
             /\ reader'[r].pc = "stamp" => last.full \/ last.age >= Interval]_throttleVars

\* However the readers race for the throttle, and whatever fails a bounded
\* number of times: where reads keep coming, every stale ticket is archived
\* and every missing search vector is filled in the end, also when there are
\* more than a batch.
NoRowIsLeftBehind ==
  \A kind \in Kinds, db \in Databases : \A row \in Affected[kind] :
    ([]<>\E r \in Readers : AtCheck(r, kind, db)) => []<>(row \notin backlog[kind][db])

=============================================================================
