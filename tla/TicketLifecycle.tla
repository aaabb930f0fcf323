-------------------------- MODULE TicketLifecycle --------------------------
(***************************************************************************)
(* How tickets change status, type and metadata when several callers share *)
(* the database (stompy_ticketing/service.py: create_ticket,               *)
(* transition_ticket, close_ticket, batch_transition, batch_close and the  *)
(* type and metadata part of update_ticket).                               *)
(*                                                                         *)
(* A session is one call running on its own connection.  The connection is *)
(* in PostgreSQL's default READ COMMITTED isolation and every handler      *)
(* reads with a plain SELECT, so between a handler's SELECT and its UPDATE *)
(* any other session may commit.  Each SELECT is a step.  An UPDATE, the   *)
(* history INSERTs that follow it and the COMMIT are one step: the UPDATE  *)
(* holds the row lock until the COMMIT, the INSERTs read nothing, and no   *)
(* reader sees them earlier.                                               *)
(*                                                                         *)
(* A dry run of a batch only reads and is left out, as is a call that is   *)
(* refused before it has written anything: neither changes the state.      *)
(***************************************************************************)
EXTENDS ClosePath, Integers

CONSTANTS
  Tickets,      \* ids that can be given out
  Sessions,     \* calls that can run at the same time
  NewTypes,     \* types of the tickets that are created
  EditTypes,    \* types an update may set
  Notes,        \* contents of the metadata keys other than "parked"
  Sent,         \* bound: the metadata that callers send
  Nobody,       \* changed_by is NULL
  BatchMax,     \* service.py BATCH_MAX, the longest batch
  MaxCalls,     \* bound: calls started in one behaviour
  MaxFailures   \* bound: failing statements and crashes in one behaviour

ASSUME TypesAssumption == NewTypes \subseteq TypeNames /\ EditTypes \subseteq TypeNames
ASSUME ActorAssumption == Nobody \notin Sessions
ASSUME BoundAssumption == {BatchMax, MaxCalls, MaxFailures} \subseteq Nat

VARIABLES
  tickets,   \* the tickets table
  history,   \* the ticket_history rows of each ticket, in commit order
  call,      \* what each session is doing
  path,      \* the statuses its current item has still to be moved to
  clock,     \* time.time()
  calls,     \* calls started so far
  failures   \* failures so far

vars == <<tickets, history, call, path, clock, calls, failures>>

----------------------------------------------------------------------------
(* State *)

EmptyNote == "empty"

\* closed: closed_at is set.  stamp: metadata.parked.parked_at, 0 when the
\* metadata has no "parked" key.  note: the rest of the metadata.
Row == [type : TypeNames, status : StatusNames, closed : BOOLEAN,
        stamp : Nat, note : Notes \cup {EmptyNote}]

NoTicket == [type |-> "none", status |-> "none", closed |-> FALSE,
             stamp |-> 0, note |-> EmptyNote]

\* Callers send metadata with a create or an update.  Nothing keeps them from
\* sending a "parked" key: the one they have read, an old one, or one of their
\* own, whose stamp is no time of a park.
Metadata == [note : Notes \cup {EmptyNote}, stamp : Nat]

ASSUME SentAssumption == Sent \subseteq Metadata

NoMetadata == [note |-> EmptyNote, stamp |-> 0]

\* What a call can ask for and a history row can hold.
Values == StatusNames \cup TypeNames \cup Notes \cup {EmptyNote, NoResolution, "reason"}

\* stamp: of a metadata row, the stamp in its new value; 0 in all others.
HistoryRow == [field : {"status", "parked_reason", "type", "metadata"},
               old : Values, new : Values, stamp : Nat, at : Nat,
               by : Sessions \cup {Nobody}]

MoveOps == {"move", "close", "batch_move", "batch_close"}
EditOps == {"retype", "annotate"}
Ops == MoveOps \cup EditOps

\* look:  about to SELECT type and status of the current item
\* step:  about to enter transition_ticket for the next status of the path
\* write: has read the row and validated, about to UPDATE
PCs == {"idle", "look", "step", "write"}

\* ids, goal, stamp and by are the call's arguments (goal: the status,
\* resolution, type or note asked for; stamp: in the metadata sent); item is the
\* place in ids; target, seen and now are the local variables of
\* transition_ticket and update_ticket.
Call == [pc : PCs, op : Ops \cup {"none"}, ids : Seq(Tickets), item : Nat,
         goal : Values, stamp : Nat, by : Sessions \cup {Nobody},
         target : Values, seen : Row \cup {NoTicket}, now : Nat]

Idle == [pc |-> "idle", op |-> "none", ids |-> <<>>, item |-> 0, goal |-> NoResolution,
         stamp |-> 0, by |-> Nobody, target |-> NoResolution, seen |-> NoTicket, now |-> 0]

Exists(t) == tickets[t] # NoTicket

Item(c) == c.ids[c.item]

\* A call that has begun is at one of its items; only moves walk, and only
\* they have several items.
WellFormed(c) ==
  /\ c \in Call
  /\ c.pc # "idle" => c.item \in DOMAIN c.ids
  /\ c.pc \in {"look", "step"} \/ Len(c.ids) > 1 => c.op \in MoveOps

\* The statuses a walk goes through are typed where they are used: each is
\* validated against the row before it is written.
TypeOK ==
  /\ tickets \in [Tickets -> Row \cup {NoTicket}]
  /\ history \in [Tickets -> Seq(HistoryRow)]
  /\ call \in [Sessions -> Call]
  /\ \A s \in Sessions : WellFormed(call[s])
  /\ DOMAIN path = Sessions
  /\ clock \in Nat
  /\ calls \in Nat
  /\ failures \in Nat

Init ==
  /\ tickets = [t \in Tickets |-> NoTicket]
  /\ history = [t \in Tickets |-> <<>>]
  /\ call = [s \in Sessions |-> Idle]
  /\ path = [s \in Sessions |-> NoPath]
  /\ clock = 0
  /\ calls = 0
  /\ failures = 0

----------------------------------------------------------------------------
(* create_ticket: one INSERT with the metadata as given, no history row.    *)

MayBegin(s) == call[s].pc = "idle" /\ calls < MaxCalls

Begin(s) == MayBegin(s) /\ calls' = calls + 1

Create(s, t, type, meta) ==
  /\ Begin(s)
  /\ ~ Exists(t)
  /\ tickets' = [tickets EXCEPT ![t] =
       [type |-> type, status |-> InitialStatus[type], closed |-> FALSE,
        stamp |-> meta.stamp, note |-> meta.note]]
  /\ UNCHANGED <<history, call, path, clock, failures>>

----------------------------------------------------------------------------
(* transition_ticket, as a call of its own and as a step of a walk. *)

\* _validate_park_args, with reason standing for a usable reason: parking needs
\* one, and no other move may carry one.
ValidParkArgs(target, reason) == reason <=> target = Parked

\* The reads of transition_ticket: SELECT, validate_transition, then the time
\* is taken and the park arguments are checked.
ReadForMove(s, c, target, reason) ==
  LET row == tickets[Item(c)]
  IN  /\ Exists(Item(c))
      /\ ValidTransition(row.type, row.status, target)
      /\ ValidParkArgs(target, reason)
      /\ clock' = clock + 1
      /\ call' = [call EXCEPT ![s] =
           [c EXCEPT !.pc = "write", !.target = target, !.seen = row, !.now = clock + 1]]

Start(s, op, ids, goal) ==
  [Idle EXCEPT !.op = op, !.ids = ids, !.item = 1, !.goal = goal, !.by = s]

Move(s, t, target, reason) ==
  /\ Begin(s)
  /\ ReadForMove(s, Start(s, "move", <<t>>, target), target, reason)
  /\ path' = [path EXCEPT ![s] = <<target>>]
  /\ UNCHANGED <<tickets, history, failures>>

\* What the call does when its current item is over, done or refused: a batch
\* goes on to its next id, anything else answers.
Between(c, pc) == [c EXCEPT !.pc = pc, !.target = NoResolution, !.seen = NoTicket, !.now = 0]

\* Mutant of NextItem: goes one item too far.
NextItemPastEnd(c) ==
  IF c.item =< Len(c.ids) THEN [Between(c, "look") EXCEPT !.item = @ + 1] ELSE Idle

\* Mutant of NextItem: a batch looks at the same item again.
NextItemRetries(c) == IF Len(c.ids) > 1 THEN Between(c, "look") ELSE Idle

NextItem(c) ==
  IF c.item < Len(c.ids) THEN [Between(c, "look") EXCEPT !.item = @ + 1] ELSE Idle

\* Mutant of NextStep: the walk returns after its first step.
NextStepOnce(c, rest) == NextItem(c)

NextStep(c, rest) == IF rest = NoPath THEN NextItem(c) ELSE Between(c, "step")

\* A close passes no reason to its steps.  A batch to parked has one for all of
\* its items, checked before the first.
StepReason(c) == c.op = "batch_move" /\ c.goal = Parked

\* A walk enters transition_ticket for the next status of its path.
WalkRead(s) ==
  /\ call[s].pc = "step"
  /\ ReadForMove(s, call[s], Head(path[s]), StepReason(call[s]))
  /\ UNCHANGED <<tickets, history, path, calls, failures>>

\* transition_ticket raises: the row is no longer where the path was planned
\* from.  close_ticket lets the exception through and leaves the ticket where
\* the walk got to; a batch books the item as failed and goes on.
WalkRefused(s) ==
  LET row == tickets[Item(call[s])]
      target == Head(path[s])
  IN  /\ call[s].pc = "step"
      /\ \/ ~ ValidTransition(row.type, row.status, target)
         \/ ~ ValidParkArgs(target, StepReason(call[s]))
      /\ call' = [call EXCEPT ![s] = NextItem(@)]
      /\ path' = [path EXCEPT ![s] = NoPath]
      /\ UNCHANGED <<tickets, history, clock, calls, failures>>

\* Mutant of MovedRow: reopening leaves closed_at.
MovedRowStaysClosed(row, c) ==
  [row EXCEPT !.status = c.target,
              !.closed = @ \/ c.target \in TerminalStatuses[c.seen.type],
              !.stamp = IF c.target = Parked THEN c.now
                        ELSE IF c.seen.status = Parked THEN 0 ELSE @]

\* Mutant of MovedRow: leaving parked forgets to pop metadata.parked.
MovedRowKeepsStamp(row, c) ==
  [row EXCEPT !.status = c.target,
              !.closed = c.target \in TerminalStatuses[c.seen.type],
              !.stamp = IF c.target = Parked THEN c.now ELSE @]

\* Mutant of MovedRow: a park writes its stamp over the whole metadata.
MovedRowDropsNotes(row, c) ==
  [row EXCEPT !.status = c.target,
              !.closed = c.target \in TerminalStatuses[c.seen.type],
              !.stamp = IF c.target = Parked THEN c.now
                        ELSE IF c.seen.status = Parked THEN 0 ELSE @,
              !.note = IF c.target = Parked THEN EmptyNote ELSE @]

\* _park_metadata, applied to the row: entering parked and leaving it rewrite
\* the whole metadata from the row that was read; other moves leave the
\* column alone.
MovedRow(row, c) ==
  LET moved == [row EXCEPT !.status = c.target,
                           !.closed = c.target \in TerminalStatuses[c.seen.type]]
  IN  CASE c.target = Parked      -> [moved EXCEPT !.stamp = c.now, !.note = c.seen.note]
        [] c.target # Parked /\ c.seen.status = Parked
                                  -> [moved EXCEPT !.stamp = 0, !.note = c.seen.note]
        [] OTHER                  -> moved

\* Mutant of HistoryEntry: changed_at loses its resolution.
HistoryEntryCoarse(c, field, old, new) ==
  [field |-> field, old |-> old, new |-> new, stamp |-> c.stamp, at |-> c.now \div 2,
   by |-> c.by]

HistoryEntry(c, field, old, new) ==
  [field |-> field, old |-> old, new |-> new, stamp |-> c.stamp, at |-> c.now, by |-> c.by]

\* Mutant of MoveEntries: the steps of a walk are recorded only at its end.
MoveEntriesAtEnd(c) ==
  IF c.op \in {"close", "batch_close"} /\ c.target \notin AllTerminalStatuses THEN <<>>
  ELSE <<HistoryEntry(c, "status", c.seen.status, c.target)>>

\* Mutant of MoveEntries: the trail names the status that was asked for.
MoveEntriesRequested(c) ==
  <<HistoryEntry(c, "status", c.seen.status, c.goal)>> \o
  (IF c.target = Parked THEN <<HistoryEntry(c, "parked_reason", NoResolution, "reason")>> ELSE <<>>)

MoveEntries(c) ==
  <<HistoryEntry(c, "status", c.seen.status, c.target)>> \o
  (IF c.target = Parked THEN <<HistoryEntry(c, "parked_reason", NoResolution, "reason")>> ELSE <<>>)

\* UPDATE tickets ... WHERE id = %s, the history rows, COMMIT.
MoveWrite(s) ==
  LET c == call[s]
      t == Item(c)
      rest == Tail(path[s])
  IN  /\ c.pc = "write"
      /\ c.op \in MoveOps
      /\ tickets' = [tickets EXCEPT ![t] = MovedRow(@, c)]
      /\ history' = [history EXCEPT ![t] = @ \o MoveEntries(c)]
      /\ path' = [path EXCEPT ![s] = rest]
      /\ call' = [call EXCEPT ![s] = NextStep(c, rest)]
      /\ UNCHANGED <<clock, calls, failures>>

----------------------------------------------------------------------------
(* close_ticket and the batches. *)

\* The statuses a close will commit, from the type and status just read: none
\* when the ticket is missing or closed, or the resolution is not of its type.
PlannedWalk(t, resolution) ==
  LET row == tickets[t]
  IN  IF /\ Exists(t)
         /\ row.status \notin TerminalStatuses[row.type]
         /\ resolution \in TerminalStatuses[row.type] \cup {NoResolution}
      THEN FindClosePath(row.type, row.status, resolution) ELSE NoPath

Close(s, t, resolution) ==
  /\ Begin(s)
  /\ PlannedWalk(t, resolution) # NoPath
  /\ path' = [path EXCEPT ![s] = PlannedWalk(t, resolution)]
  /\ call' = [call EXCEPT ![s] =
       [Start(s, "close", <<t>>, resolution) EXCEPT !.pc = "step"]]
  /\ UNCHANGED <<tickets, history, clock, failures>>

BatchIds == UNION { [1..n -> Tickets] : n \in 1..BatchMax }

BatchMove(s, ids, target) ==
  /\ Begin(s)
  /\ call' = [call EXCEPT ![s] =
       [Start(s, "batch_move", ids, target) EXCEPT !.pc = "look"]]
  /\ UNCHANGED <<tickets, history, path, clock, failures>>

\* The REST door has no resolution to pass; the MCP door passes no changed_by.
BatchClose(s, ids, resolution, door) ==
  /\ Begin(s)
  /\ door = "rest" => resolution = NoResolution
  /\ call' = [call EXCEPT ![s] =
       [Start(s, "batch_close", ids, resolution) EXCEPT
          !.pc = "look", !.by = IF door = "mcp" THEN Nobody ELSE s]]
  /\ UNCHANGED <<tickets, history, path, clock, failures>>

ItemWalk(c) ==
  LET row == tickets[Item(c)]
  IN  IF c.op = "batch_close" THEN PlannedWalk(Item(c), c.goal)
      ELSE IF Exists(Item(c)) /\ ValidTransition(row.type, row.status, c.goal)
           THEN <<c.goal>> ELSE NoPath

\* A batch reads its current item and plans the walk; an item with nothing to
\* walk (missing, closed, not allowed) is booked and passed over.
BatchLook(s) ==
  LET walk == ItemWalk(call[s])
  IN  /\ call[s].pc = "look"
      /\ path' = [path EXCEPT ![s] = walk]
      /\ call' = [call EXCEPT ![s] = NextStep(@, walk)]
      /\ UNCHANGED <<tickets, history, clock, calls, failures>>

----------------------------------------------------------------------------
(* update_ticket with a type or with metadata, no expected_updated_at: the  *)
(* read feeds the difference and the history, the UPDATE is unconditional.  *)

StartEdit(s, op, t, value, stamp) ==
  [Start(s, op, <<t>>, value) EXCEPT !.stamp = stamp]

EditRead(s, t, op, value, stamp) ==
  /\ Begin(s)
  /\ Exists(t)
  /\ clock' = clock + 1
  /\ call' = [call EXCEPT ![s] = [StartEdit(s, op, t, value, stamp) EXCEPT
       !.pc = "write", !.target = value, !.seen = tickets[t], !.now = clock + 1]]
  /\ UNCHANGED <<tickets, history, path, failures>>

Retype(s, t, type) ==
  /\ type # tickets[t].type
  /\ EditRead(s, t, "retype", type, 0)

\* The caller sends the whole metadata.  It is compared as text: what is there
\* already is written all the same when it is put in another order.
Annotate(s, t, meta) == EditRead(s, t, "annotate", meta.note, meta.stamp)

\* What was sent is stored, whatever it makes of the "parked" key.
EditedRow(row, c) ==
  IF c.op = "retype" THEN [row EXCEPT !.type = c.target]
  ELSE [row EXCEPT !.note = c.target, !.stamp = c.stamp]

EditEntry(c) ==
  IF c.op = "retype" THEN HistoryEntry(c, "type", c.seen.type, c.target)
  ELSE HistoryEntry(c, "metadata", c.seen.note, c.target)

EditWrite(s) ==
  LET c == call[s]
      t == Item(c)
  IN  /\ c.pc = "write"
      /\ c.op \in EditOps
      /\ tickets' = [tickets EXCEPT ![t] = EditedRow(@, c)]
      /\ history' = [history EXCEPT ![t] = Append(@, EditEntry(c))]
      /\ call' = [call EXCEPT ![s] = Idle]
      /\ UNCHANGED <<path, clock, calls, failures>>

----------------------------------------------------------------------------
(* Failures *)

Fail == failures < MaxFailures /\ failures' = failures + 1

\* A statement of transition_ticket or update_ticket fails: ROLLBACK, raise.
\* A batch catches it per item.
StatementFails(s) ==
  /\ Fail
  /\ call[s].pc \in {"step", "write"}
  /\ call' = [call EXCEPT ![s] = NextItem(@)]
  /\ path' = [path EXCEPT ![s] = NoPath]
  /\ UNCHANGED <<tickets, history, clock, calls>>

\* The host process or the connection dies: the open transaction is rolled
\* back, the steps that were committed stay.
Crash(s) ==
  /\ Fail
  /\ call[s].pc # "idle"
  /\ call' = [call EXCEPT ![s] = Idle]
  /\ path' = [path EXCEPT ![s] = NoPath]
  /\ UNCHANGED <<tickets, history, clock, calls>>

----------------------------------------------------------------------------

Request(s) ==
  /\ MayBegin(s)
  /\ \/ \E t \in Tickets, type \in NewTypes, meta \in Sent \cup {NoMetadata} :
          Create(s, t, type, meta)
     \/ \E t \in Tickets, target \in StatusNames, reason \in BOOLEAN : Move(s, t, target, reason)
     \/ \E t \in Tickets, resolution \in AllTerminalStatuses \cup {NoResolution} :
          Close(s, t, resolution)
     \/ \E ids \in BatchIds, target \in StatusNames : BatchMove(s, ids, target)
     \/ \E ids \in BatchIds, resolution \in AllTerminalStatuses \cup {NoResolution},
           door \in {"mcp", "rest"} : BatchClose(s, ids, resolution, door)
     \/ \E t \in Tickets, type \in EditTypes : Retype(s, t, type)
     \/ \E t \in Tickets, meta \in Sent : Annotate(s, t, meta)

Continue(s) ==
  WalkRead(s) \/ WalkRefused(s) \/ MoveWrite(s) \/ BatchLook(s) \/ EditWrite(s)

Next == \E s \in Sessions : Request(s) \/ Continue(s) \/ StatementFails(s) \/ Crash(s)

\* A handler is straight-line code that waits only for the database, so a call
\* that has begun keeps running; nobody has to make a call, and no failure has
\* to happen.
Fairness == \A s \in Sessions : WF_vars(Continue(s))

Spec == Init /\ [][Next]_vars /\ Fairness

----------------------------------------------------------------------------
(* Properties that hold whatever the sessions do *)

\* What a session is about to write was allowed by the row it read: a move is
\* an edge of the machine of the type it read, from the status it read.  With
\* TypeOK this is what makes the properties below inductive.
Licensed(c) ==
  /\ c.seen \in Row
  /\ Exists(Item(c))
  /\ \/ c.op \in MoveOps /\ c.target \in Range(NextStatuses(c.seen.type, c.seen.status))
     \/ c.op = "retype" /\ c.target \in TypeNames
     \/ c.op = "annotate" /\ c.target \in Notes \cup {EmptyNote}

PendingWrites == \A s \in Sessions : call[s].pc = "write" => Licensed(call[s])

\* closed_at is set exactly while the ticket sits in a terminal status, also
\* when moves race, a walk is cut short or the type is edited under a move.
\* (The stale sweep and the lists trust closed_at alone.)
ClosedIffTerminal ==
  \A t \in Tickets : tickets[t].closed <=> tickets[t].status \in AllTerminalStatuses

\* Where the status rows of a ticket are in its history, and the last of them.
StatusRows(t) == {i \in DOMAIN history[t] : history[t][i].field = "status"}

IsLastStatusRow(t, i) == i \in StatusRows(t) /\ \A j \in StatusRows(t) : j =< i

\* The audit trail ends where the ticket is: the last status row committed
\* names the current status, and without one the ticket never left the
\* initial status of a type.
AuditEndsAtStatus ==
  \A t \in Tickets : Exists(t) =>
    \/ \E i \in StatusRows(t) : IsLastStatusRow(t, i) /\ history[t][i].new = tickets[t].status
    \/ StatusRows(t) = {} /\ tickets[t].status \in Range(InitialStatus)

\* The history rows of the writes that set the stamp of a parked ticket.
StampRows(t) == {k \in DOMAIN history[t] : history[t][k].field \in {"parked_reason", "metadata"}}

\* A parked ticket says why: the park that its last status row records left
\* its reason in the history, and the metadata has the stamp of that park,
\* unless a caller has replaced the metadata since: then the history has the
\* replacement, and the metadata the stamp that its last replacement brought.
ParkedTellsWhy ==
  \A t \in Tickets : tickets[t].status = Parked =>
    \E i \in StatusRows(t), j, k \in StampRows(t) :
      /\ IsLastStatusRow(t, i)
      /\ history[t][j].field = "parked_reason"
      /\ history[t][j].at = history[t][i].at
      /\ j =< k /\ \A l \in StampRows(t) : l =< k
      /\ tickets[t].stamp = IF k = j THEN history[t][j].at ELSE history[t][k].stamp

\* In this step s writes the row of t.
Writes(s, t) == call[s].pc = "write" /\ Item(call[s]) = t /\ call'[s] # call[s]

\* A status change outside the state machine is always the write of a session
\* whose row has changed since it read it: no other way leads to one.
StatusMoves(t) == Exists(t) /\ tickets'[t].status # tickets[t].status
LegalMove(t) ==
  tickets'[t].status \in Range(NextStatuses(tickets[t].type, tickets[t].status))

OnlyStaleWritesBreakTheMachine ==
  [][\A t \in Tickets : StatusMoves(t) /\ ~ LegalMove(t) =>
       \E s \in Sessions : Writes(s, t) /\ call[s].seen # tickets[t]]_vars

\* The metadata of a ticket that is not parked has a "parked" key.
Stray(t) == tickets[t].status # Parked /\ tickets[t].stamp # 0

\* metadata.parked is to be there only while the status is parked.  The code
\* leaves it behind in two ways and no other: a caller brings one along, or a
\* move that has read the ticket before a park takes it out of parked.
StampsStrayInTwoWays ==
  [][\A t \in Tickets : Exists(t) /\ ~ Stray(t) /\ Stray(t)' =>
       \E s \in Sessions :
         /\ Writes(s, t)
         /\ \/ call[s].op = "annotate" /\ call[s].stamp # 0
            \/ call[s].seen.status # Parked /\ tickets[t].status = Parked]_vars

\* Moves, parks and reopenings leave the caller's keys of the metadata alone.
\* Only an update of the metadata changes them, or a park or reopening that
\* writes back the ones it read although an update has replaced them since.
OnlyStaleMovesLoseNotes ==
  [][\A t \in Tickets : Exists(t) /\ tickets'[t].note # tickets[t].note =>
       \E s \in Sessions :
         /\ Writes(s, t)
         /\ \/ call[s].op = "annotate"
            \/ /\ call[s].seen.note # tickets[t].note
               /\ Parked \in {call[s].seen.status, call[s].target}]_vars

\* A ticket whose status its type does not have, so that no move and no close
\* leads anywhere, has been retyped, and its history says so: neither a create
\* nor a move, however stale, strands a ticket.
OnlyRetypedTicketsAreStranded ==
  \A t \in Tickets : Exists(t) /\ tickets[t].status \notin AllStatuses(tickets[t].type) =>
    \E i \in DOMAIN history[t] : history[t][i].field = "type"

\* Every call that has begun answers: no batch waits on a failing item and no
\* walk goes on for ever.
EveryCallAnswers == \A s \in Sessions : call[s].pc # "idle" ~> call[s].pc = "idle"

----------------------------------------------------------------------------
(* Properties of one session at a time; racing sessions break them *)

\* README: no invalid state changes are possible.
NoInvalidStateChange ==
  [][\A t \in Tickets : StatusMoves(t) => LegalMove(t)]_vars

\* README: every change is recorded with its old value.  The status rows of a
\* ticket form one chain: each starts where the one before it ended.
AuditIsAChain ==
  \A t \in Tickets : \A i, j \in StatusRows(t) :
    i < j /\ (\A k \in StatusRows(t) : k =< i \/ j =< k)
      => history[t][j].old = history[t][i].new

\* History is returned ordered by changed_at, newest first: its newest status
\* row is the one that was committed last.
NewestRowIsCurrent ==
  \A t \in Tickets : \A i, j \in StatusRows(t) :
    i < j => history[t][i].at < history[t][j].at

\* Where nothing fails, a close or batch_close that has run to its end has
\* closed every ticket it was given, duplicates included, unless the resolution
\* does not belong to the ticket's type or an edit of the type has left the
\* ticket in a status that this type does not have.
CloseCloses ==
  [][\A s \in Sessions :
       /\ call[s].op \in {"close", "batch_close"}
       /\ call'[s].pc = "idle"
       /\ failures' = 0
       => \A t \in Range(call[s].ids) :
            /\ Exists(t)
            /\ call[s].goal \in TerminalStatuses[tickets[t].type] \cup {NoResolution}
            /\ tickets[t].status \in AllStatuses(tickets[t].type)
            => tickets'[t].closed]_vars

=============================================================================
