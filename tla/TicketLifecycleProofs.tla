----------------------- MODULE TicketLifecycleProofs ------------------------
(***************************************************************************)
(* What module TicketLifecycle guarantees for any number of tickets and    *)
(* sessions, any batch size and any number of calls and failures: how a    *)
(* status can change, and what the ticket_history rows are worth, however  *)
(* calls race and where one call runs at a time.                           *)
(***************************************************************************)
EXTENDS TicketLifecycle, ClosePathProofs, SequenceTheorems

----------------------------------------------------------------------------
(* Facts about the tables of TicketTypes *)

LEMMA InitialIsOpen ==
  ASSUME NEW type \in TypeNames
  PROVE  /\ InitialStatus[type] \in AllStatuses(type)
         /\ InitialStatus[type] \notin AllTerminalStatuses
         /\ InitialStatus[type] # Parked
BY SMTT(30) DEF TypeNames, InitialStatus, AllStatuses, Transitions, AllTerminalStatuses,
       TerminalStatuses, Parked

\* A status of a type is terminal for that type or for none: no type uses
\* another's terminal as an open status.  This is why closed_at can be
\* computed from the type that was read, and still be right once it changes.
LEMMA TerminalIsGlobal ==
  ASSUME NEW type \in TypeNames, NEW status \in AllStatuses(type)
  PROVE  status \in TerminalStatuses[type] <=> status \in AllTerminalStatuses
<1>1. AllTerminalStatuses = {"done", "cancelled", "resolved", "wont_fix",
                             "shipped", "rejected", "decided", "deferred"}
  BY DEF AllTerminalStatuses, TypeNames, TerminalStatuses
<1>2. QED  BY SMTT(30), <1>1 DEF TypeNames, AllStatuses, Transitions, TerminalStatuses

----------------------------------------------------------------------------
(* Calls *)

LEMMA BlankIsAValue == NoResolution \in Values
BY DEF Values

LEMMA IdleIsWellFormed == WellFormed(Idle)
BY BlankIsAValue DEF WellFormed, Idle, Call, PCs

LEMMA SentIsMetadata == Sent \cup {NoMetadata} \subseteq Metadata
BY SentAssumption DEF NoMetadata, Metadata

LEMMA BetweenIsACall ==
  ASSUME NEW c \in Call, NEW pc \in PCs
  PROVE  LET b == Between(c, pc)
         IN  b \in Call /\ b.pc = pc /\ b.item = c.item /\ b.ids = c.ids /\ b.op = c.op
BY BlankIsAValue DEF Between, Call

LEMMA ItemIsATicket ==
  ASSUME NEW c, WellFormed(c), c.pc # "idle"
  PROVE  Item(c) \in Tickets
BY DEF WellFormed, Call, Item

LEMMA BatchesAreSequences == BatchIds \subseteq Seq(Tickets)
BY BoundAssumption DEF BatchIds

LEMMA ResolutionIsAValue == AllTerminalStatuses \cup {NoResolution} \subseteq Values
BY DEF Values, StatusNames, AllTerminalStatuses, TerminalStatuses, AllStatuses, TypeNames, Transitions

LEMMA BatchesAreNotEmpty == <<>> \notin BatchIds
BY BoundAssumption DEF BatchIds

\* A call that has just begun is at its first item.
LEMMA StartIsWellFormed ==
  ASSUME NEW s \in Sessions, NEW op \in Ops, NEW goal \in Values,
         NEW ids \in Seq(Tickets), ids # <<>>, NEW c, c = Start(s, op, ids, goal)
  PROVE  /\ c \in Call
         /\ c.item \in DOMAIN c.ids
         /\ c.op = op /\ c.goal = goal /\ c.ids = ids /\ c.item = 1
<1>1. Idle \in Call  BY IdleIsWellFormed DEF WellFormed
<1>2. 1 \in DOMAIN ids  OBVIOUS
<1>3. QED  BY <1>1, <1>2 DEF Start, Call

\* A batch that is about to look at its first item, or a close about to walk.
LEMMA WalkIsWellFormed ==
  ASSUME NEW c \in Call, c.item \in DOMAIN c.ids, c.op \in MoveOps,
         NEW pc \in {"look", "step"}, NEW by \in Sessions \cup {Nobody}, NEW w,
         w = [c EXCEPT !.pc = pc] \/ w = [c EXCEPT !.pc = pc, !.by = by]
  PROVE  WellFormed(w) /\ w.pc # "write"
<1>1. /\ w \in Call /\ w.pc = pc /\ w.op = c.op /\ w.ids = c.ids /\ w.item = c.item
  BY DEF Call, PCs
<1>2. QED  BY <1>1 DEF WellFormed

LEMMA SingleIsWellFormed ==
  ASSUME NEW s \in Sessions, NEW op \in Ops, NEW goal \in Values,
         NEW t \in Tickets, NEW c, c = Start(s, op, <<t>>, goal)
  PROVE  /\ c \in Call /\ c.item \in DOMAIN c.ids
         /\ c.op = op /\ c.ids = <<t>> /\ c.item = 1 /\ Len(c.ids) = 1
<1> DEFINE ids == <<t>>
<1>1. ids \in Seq(Tickets) /\ ids # <<>> /\ Len(ids) = 1  OBVIOUS
<1>2. c = Start(s, op, ids, goal)  OBVIOUS
<1> HIDE DEF ids
<1>3. c \in Call /\ c.item \in DOMAIN c.ids /\ c.op = op /\ c.ids = ids /\ c.item = 1
  BY <1>1, <1>2, StartIsWellFormed
<1>4. QED  BY <1>1, <1>3 DEF ids

LEMMA EditIsWellFormed ==
  ASSUME NEW s \in Sessions, NEW op \in Ops, NEW value \in Values, NEW stamp \in Nat,
         NEW t \in Tickets, NEW c, c = StartEdit(s, op, t, value, stamp)
  PROVE  /\ c \in Call /\ c.item \in DOMAIN c.ids
         /\ c.op = op /\ c.ids = <<t>> /\ c.item = 1 /\ Len(c.ids) = 1
<1>1. PICK b : b = Start(s, op, <<t>>, value)  OBVIOUS
<1>2. /\ b \in Call /\ b.item \in DOMAIN b.ids
      /\ b.op = op /\ b.ids = <<t>> /\ b.item = 1 /\ Len(b.ids) = 1
  BY <1>1, SingleIsWellFormed
<1>3. c = [b EXCEPT !.stamp = stamp]  BY <1>1 DEF StartEdit
<1>4. QED  BY <1>2, <1>3 DEF Call

LEMMA NextItemIsWellFormed ==
  ASSUME NEW c, WellFormed(c), c.pc # "idle"
  PROVE  WellFormed(NextItem(c)) /\ NextItem(c).pc # "write"
<1>1. CASE c.item < Len(c.ids)
  <2> DEFINE b == Between(c, "look")
  <2>1. c \in Call /\ c.item \in DOMAIN c.ids  BY DEF WellFormed
  <2>2. b \in Call /\ b.pc = "look" /\ b.item = c.item /\ b.ids = c.ids /\ b.op = c.op
    BY <2>1, BetweenIsACall DEF PCs
  <2>3. c.ids \in Seq(Tickets) /\ c.item \in Nat  BY <2>1 DEF Call
  <2>4. c.item + 1 \in DOMAIN c.ids /\ Len(c.ids) > 1  BY <1>1, <2>1, <2>3
  <2>5. c.op \in MoveOps  BY <2>4 DEF WellFormed
  <2>6. NextItem(c) = [b EXCEPT !.item = @ + 1]  BY <1>1 DEF NextItem
  <2> HIDE DEF b
  <2>7. QED  BY SMTT(30), <2>2, <2>3, <2>4, <2>5, <2>6 DEF WellFormed, Call
<1>2. CASE ~ (c.item < Len(c.ids))
  BY <1>2, IdleIsWellFormed DEF NextItem, Idle
<1>3. QED  BY <1>1, <1>2

LEMMA NextStepIsWellFormed ==
  ASSUME NEW c, NEW rest, WellFormed(c), c.pc # "idle", c.op \in MoveOps
  PROVE  WellFormed(NextStep(c, rest)) /\ NextStep(c, rest).pc # "write"
<1>1. CASE rest = NoPath  BY <1>1, NextItemIsWellFormed DEF NextStep
<1>2. CASE rest # NoPath
  BY <1>2, BetweenIsACall DEF NextStep, WellFormed, PCs
<1>3. QED  BY <1>1, <1>2

----------------------------------------------------------------------------
(* Type correctness, together with what pending writes carry *)

LEMMA CallsStayWellFormed ==
  ASSUME TypeOK, NEW s \in Sessions, NEW c, WellFormed(c),
         call' = [call EXCEPT ![s] = c]
  PROVE  call' \in [Sessions -> Call] /\ \A r \in Sessions : WellFormed(call'[r])
BY DEF TypeOK, WellFormed

LEMMA RunningCalls ==
  ASSUME TypeOK, NEW s \in Sessions
  PROVE  WellFormed(call[s])
BY DEF TypeOK

LEMMA OpenRows ==
  ASSUME TypeOK, NEW t \in Tickets, Exists(t)
  PROVE  tickets[t] \in Row
BY DEF TypeOK, Exists

LEMMA NoTicketIsNotARow == NoTicket \notin Row
BY DEF NoTicket, Row, TypeNames

LEMMA InitIsTyped == Init => TypeOK /\ PendingWrites
<1> SUFFICES ASSUME Init PROVE TypeOK /\ PendingWrites  OBVIOUS
<1>1. WellFormed(Idle) /\ Idle.pc = "idle"  BY IdleIsWellFormed DEF Idle
<1>2. Idle \in Call  BY <1>1 DEF WellFormed
<1>3. TypeOK  BY <1>1, <1>2 DEF Init, TypeOK
<1>4. PendingWrites  BY <1>1 DEF Init, PendingWrites
<1>5. QED  BY <1>3, <1>4

\* A session's step leaves the other sessions' pending writes licensed, as long
\* as no ticket disappears.
LEMMA OthersStayLicensed ==
  ASSUME TypeOK, PendingWrites, NEW s \in Sessions, NEW c,
         call' = [call EXCEPT ![s] = c],
         \A t \in Tickets : Exists(t) => Exists(t)',
         c.pc = "write" => Licensed(c)'
  PROVE  PendingWrites'
<1>1. ASSUME NEW r \in Sessions, (call[r].pc = "write")'
      PROVE  Licensed(call[r])'
  <2>1. CASE r = s
    <3>1. call'[r] = c  BY <2>1 DEF TypeOK
    <3>2. QED  BY <1>1, <3>1 DEF Licensed, Item
  <2>2. CASE r # s
    <3>1. call'[r] = call[r]  BY <2>2 DEF TypeOK
    <3>2. Licensed(call[r])  BY <1>1, <3>1 DEF PendingWrites
    <3>3. Item(call[r]) \in Tickets  BY <1>1, <3>1, RunningCalls, ItemIsATicket
    <3>4. Exists(Item(call[r]))'  BY <3>1, <3>2, <3>3 DEF Licensed, Item, Exists
    <3>5. QED  BY <3>1, <3>2, <3>4 DEF Licensed
  <2>3. QED  BY <2>1, <2>2
<1>2. QED  BY <1>1 DEF PendingWrites

\* The same for a step that touches no ticket and leaves a well-formed call.
LEMMA QuietStep ==
  ASSUME TypeOK, PendingWrites, NEW s \in Sessions, NEW c, WellFormed(c),
         c.pc = "write" => Licensed(c),
         call' = [call EXCEPT ![s] = c],
         UNCHANGED <<tickets, history>>,
         DOMAIN path' = Sessions, clock' \in Nat, calls' \in Nat, failures' \in Nat
  PROVE  TypeOK' /\ PendingWrites'
<1>1. TypeOK'  BY CallsStayWellFormed DEF TypeOK
<1>2. \A t \in Tickets : Exists(t) => Exists(t)'  BY DEF Exists
<1>3. c.pc = "write" => Licensed(c)'  BY DEF Licensed, Exists
<1>4. PendingWrites'  BY <1>2, <1>3, OthersStayLicensed
<1>5. QED  BY <1>1, <1>4

\* The read of transition_ticket leaves a well-formed, licensed call behind.
LEMMA ReadStep ==
  ASSUME TypeOK, PendingWrites, NEW s \in Sessions,
         NEW c \in Call, c.item \in DOMAIN c.ids, c.op \in MoveOps,
         NEW target, NEW reason, ReadForMove(s, c, target, reason),
         UNCHANGED <<tickets, history, failures>>,
         DOMAIN path' = Sessions, calls' \in Nat
  PROVE  TypeOK' /\ PendingWrites'
<1> DEFINE row == tickets[Item(c)]
           w == [c EXCEPT !.pc = "write", !.target = target, !.seen = row, !.now = clock + 1]
<1>1. Item(c) \in Tickets  BY DEF Item, Call
<1>2. /\ Exists(Item(c)) /\ ValidTransition(row.type, row.status, target)
      /\ call' = [call EXCEPT ![s] = w]
      /\ clock' = clock + 1
  BY DEF ReadForMove
<1>3. row \in Row  BY <1>1, <1>2, OpenRows
<1>4. row.type \in TypeNames  BY <1>3 DEF Row
<1>5. target \in StatusNames  BY <1>2, <1>4, MovesNameStatuses
<1>6. target \in Range(NextStatuses(row.type, row.status))
  BY <1>2 DEF ValidTransition, NextStatuses
<1>7. clock + 1 \in Nat /\ failures' \in Nat  BY DEF TypeOK
<1>8. w \in Call  BY <1>3, <1>5, <1>7 DEF Call, PCs, Values
<1>9. /\ w.pc = "write" /\ w.target = target /\ w.seen = row
      /\ w.ids = c.ids /\ w.item = c.item /\ w.op = c.op
  BY DEF Call
<1> HIDE DEF w
<1>10. WellFormed(w)  BY <1>8, <1>9 DEF WellFormed
<1>11. Licensed(w)  BY <1>2, <1>3, <1>6, <1>9 DEF Licensed, Item
<1>12. QED  BY <1>2, <1>7, <1>10, <1>11, QuietStep

\* The same for the step that writes a row, its history and ends the write.
LEMMA WriteStep ==
  ASSUME TypeOK, PendingWrites, NEW s \in Sessions, NEW t \in Tickets,
         NEW row \in Row, NEW entries \in Seq(HistoryRow),
         NEW c, WellFormed(c), c.pc # "write",
         tickets' = [tickets EXCEPT ![t] = row],
         history' = [history EXCEPT ![t] = @ \o entries],
         call' = [call EXCEPT ![s] = c],
         DOMAIN path' = Sessions, UNCHANGED <<clock, calls, failures>>
  PROVE  TypeOK' /\ PendingWrites'
<1>1. history' \in [Tickets -> Seq(HistoryRow)]
  <2>1. history[t] \o entries \in Seq(HistoryRow)  BY DEF TypeOK
  <2>2. QED  BY <2>1 DEF TypeOK
<1>2. tickets' \in [Tickets -> Row \cup {NoTicket}]  BY DEF TypeOK
<1>3. TypeOK'  BY <1>1, <1>2, CallsStayWellFormed DEF TypeOK
<1>4. \A u \in Tickets : Exists(u) => Exists(u)'
  BY NoTicketIsNotARow DEF Exists, TypeOK
<1>5. PendingWrites'  BY <1>4, OthersStayLicensed
<1>6. QED  BY <1>3, <1>5

LEMMA PendingWriteIsTyped ==
  ASSUME TypeOK, PendingWrites, NEW s \in Sessions, call[s].pc = "write"
  PROVE  LET c == call[s]
         IN  /\ WellFormed(c) /\ c \in Call /\ Licensed(c)
             /\ Item(c) \in Tickets /\ tickets[Item(c)] \in Row
             /\ c.seen \in Row /\ c.now \in Nat /\ c.by \in Sessions \cup {Nobody}
<1>1. WellFormed(call[s])  BY RunningCalls
<1>2. Item(call[s]) \in Tickets  BY <1>1, ItemIsATicket
<1>3. Licensed(call[s])  BY DEF PendingWrites
<1>4. tickets[Item(call[s])] \in Row  BY <1>2, <1>3, OpenRows DEF Licensed
<1>5. QED  BY <1>1, <1>2, <1>3, <1>4 DEF WellFormed, Call, Licensed

\* What a licensed move writes.
LEMMA LicensedMove ==
  ASSUME NEW c \in Call, Licensed(c), c.op \in MoveOps
  PROVE  /\ c.seen.type \in TypeNames
         /\ ValidTransition(c.seen.type, c.seen.status, c.target)
         /\ c.target \in StatusNames
<1>1. c.seen.type \in TypeNames  BY DEF Licensed, Row
<1>2. c.target \in Range(NextStatuses(c.seen.type, c.seen.status))
  BY DEF Licensed, MoveOps
<1>3. c.seen.status \in AllStatuses(c.seen.type)
  BY <1>2 DEF NextStatuses, Range
<1>4. ValidTransition(c.seen.type, c.seen.status, c.target)
  BY <1>2, <1>3 DEF ValidTransition, NextStatuses
<1>5. QED  BY <1>1, <1>4, MovesNameStatuses

LEMMA MovedRowIsARow ==
  ASSUME NEW c \in Call, c.seen \in Row, c.target \in StatusNames, NEW row \in Row
  PROVE  /\ MovedRow(row, c) \in Row
         /\ MovedRow(row, c).type = row.type
         /\ MovedRow(row, c).status = c.target
         /\ MovedRow(row, c).closed <=> c.target \in TerminalStatuses[c.seen.type]
<1> DEFINE closes == c.target \in TerminalStatuses[c.seen.type]
           moved == [row EXCEPT !.status = c.target, !.closed = closes]
<1>0. closes \in BOOLEAN  OBVIOUS
<1> HIDE DEF closes
<1>1. /\ moved \in Row /\ moved.type = row.type /\ moved.status = c.target
      /\ moved.closed = closes
  BY <1>0 DEF Row
<1>2. c.now \in Nat /\ 0 \in Nat /\ c.seen.note \in Notes \cup {EmptyNote}  BY DEF Call, Row
<1>3. \/ MovedRow(row, c) = [moved EXCEPT !.stamp = c.now, !.note = c.seen.note]
      \/ MovedRow(row, c) = [moved EXCEPT !.stamp = 0, !.note = c.seen.note]
      \/ MovedRow(row, c) = moved
  BY DEF MovedRow, closes
<1> HIDE DEF moved
<1>4. /\ MovedRow(row, c) \in Row
      /\ MovedRow(row, c).type = row.type
      /\ MovedRow(row, c).status = c.target
      /\ MovedRow(row, c).closed = closes
  <2>1. ASSUME NEW stamp \in Nat, NEW note \in Notes \cup {EmptyNote}, NEW r,
               r = [moved EXCEPT !.stamp = stamp, !.note = note]
        PROVE  r \in Row /\ r.type = row.type /\ r.status = c.target /\ r.closed = closes
    BY <1>1, <2>1 DEF Row
  <2>2. CASE MovedRow(row, c) = [moved EXCEPT !.stamp = c.now, !.note = c.seen.note]
    BY ZenonT(60), <1>2, <2>1, <2>2
  <2>3. CASE MovedRow(row, c) = [moved EXCEPT !.stamp = 0, !.note = c.seen.note]
    BY ZenonT(60), <1>2, <2>1, <2>3
  <2>4. CASE MovedRow(row, c) = moved
    BY <1>1, <2>4
  <2>5. QED  BY <1>3, <2>2, <2>3, <2>4
<1>5. QED  BY <1>4 DEF closes

LEMMA EntriesAreRows ==
  ASSUME NEW c \in Call, c.seen \in Row
  PROVE  /\ MoveEntries(c) \in Seq(HistoryRow)
         /\ c.op \in EditOps => EditEntry(c) \in HistoryRow
<1>1. /\ c.now \in Nat /\ c.stamp \in Nat /\ c.by \in Sessions \cup {Nobody} /\ c.target \in Values
      /\ c.seen.status \in Values /\ c.seen.type \in Values /\ c.seen.note \in Values
      /\ NoResolution \in Values /\ "reason" \in Values
  BY DEF Call, Row, Values
<1>2. /\ HistoryEntry(c, "status", c.seen.status, c.target) \in HistoryRow
      /\ HistoryEntry(c, "parked_reason", NoResolution, "reason") \in HistoryRow
      /\ HistoryEntry(c, "type", c.seen.type, c.target) \in HistoryRow
      /\ HistoryEntry(c, "metadata", c.seen.note, c.target) \in HistoryRow
  BY <1>1 DEF HistoryEntry, HistoryRow
<1>3. QED  BY <1>2 DEF MoveEntries, EditEntry

LEMMA EditedRowIsARow ==
  ASSUME NEW c \in Call, Licensed(c), c.op \in EditOps, NEW row \in Row
  PROVE  /\ EditedRow(row, c) \in Row
         /\ EditedRow(row, c).status = row.status
         /\ EditedRow(row, c).closed = row.closed
<1>1. CASE c.op = "retype"
  <2>1. c.target \in TypeNames  BY <1>1 DEF Licensed, MoveOps
  <2>2. EditedRow(row, c) = [row EXCEPT !.type = c.target]  BY <1>1 DEF EditedRow
  <2>3. ASSUME NEW r, r = [row EXCEPT !.type = c.target]
        PROVE  r \in Row /\ r.status = row.status /\ r.closed = row.closed
    BY <2>1, <2>3 DEF Row
  <2>4. QED  BY <2>2, <2>3
<1>2. CASE c.op = "annotate"
  <2>1. c.target \in Notes \cup {EmptyNote} /\ c.stamp \in Nat
    BY <1>2 DEF Licensed, MoveOps, Call
  <2>2. EditedRow(row, c) = [row EXCEPT !.note = c.target, !.stamp = c.stamp]
    BY <1>2 DEF EditedRow
  <2>3. ASSUME NEW r, r = [row EXCEPT !.note = c.target, !.stamp = c.stamp]
        PROVE  r \in Row /\ r.status = row.status /\ r.closed = row.closed
    BY <2>1, <2>3 DEF Row
  <2>4. QED  BY <2>2, <2>3
<1>3. QED  BY <1>1, <1>2 DEF EditOps

----------------------------------------------------------------------------
(* One lemma per kind of step *)

LEMMA CreateStep ==
  ASSUME TypeOK, PendingWrites, NEW s \in Sessions, NEW t \in Tickets,
         NEW type \in NewTypes, NEW meta \in Sent \cup {NoMetadata},
         Create(s, t, type, meta)
  PROVE  TypeOK' /\ PendingWrites'
<1> DEFINE row == [type |-> type, status |-> InitialStatus[type], closed |-> FALSE,
                   stamp |-> meta.stamp, note |-> meta.note]
<1>1. type \in TypeNames  BY TypesAssumption
<1>2. InitialStatus[type] \in StatusNames  BY <1>1, InitialIsOpen, StatusesAreNames
<1>3. row \in Row  BY <1>1, <1>2, SentIsMetadata DEF Row, Metadata
<1>4. tickets' = [tickets EXCEPT ![t] = row]  BY DEF Create
<1> HIDE DEF row
<1>5. tickets' \in [Tickets -> Row \cup {NoTicket}]  BY <1>3, <1>4 DEF TypeOK
<1>6. /\ UNCHANGED <<history, call, path, clock, failures>> /\ calls' \in Nat
  BY DEF Create, Begin, MayBegin, TypeOK
<1>7. TypeOK'  BY <1>5, <1>6 DEF TypeOK
<1>8. \A u \in Tickets : Exists(u) => Exists(u)'
  BY <1>3, <1>4, NoTicketIsNotARow DEF Exists, TypeOK
<1>9. call' = [call EXCEPT ![s] = call[s]]  BY <1>6 DEF TypeOK
<1>10. call[s].pc # "write"  BY DEF Create, Begin, MayBegin
<1>11. PendingWrites'  BY <1>8, <1>9, <1>10, OthersStayLicensed
<1>12. QED  BY <1>7, <1>11

\* The read of update_ticket.
LEMMA EditReadStep ==
  ASSUME TypeOK, PendingWrites, NEW s \in Sessions, NEW t \in Tickets,
         NEW op, NEW value, NEW stamp \in Nat, EditRead(s, t, op, value, stamp),
         \/ op = "retype" /\ value \in TypeNames
         \/ op = "annotate" /\ value \in Notes \cup {EmptyNote}
  PROVE  TypeOK' /\ PendingWrites'
<1> DEFINE row == tickets[t]
           c == StartEdit(s, op, t, value, stamp)
           w == [c EXCEPT !.pc = "write", !.target = value, !.seen = row, !.now = clock + 1]
<1>1. op \in Ops /\ value \in Values  BY DEF Ops, EditOps, Values
<1>2. /\ c \in Call /\ c.item \in DOMAIN c.ids
      /\ c.op = op /\ c.ids = <<t>> /\ c.item = 1 /\ Len(c.ids) = 1
  <2> c = StartEdit(s, op, t, value, stamp)  OBVIOUS
  <2> HIDE DEF c
  <2> QED  BY <1>1, EditIsWellFormed
<1>3. /\ Exists(t) /\ call' = [call EXCEPT ![s] = w] /\ clock' = clock + 1
      /\ calls' \in Nat /\ UNCHANGED <<tickets, history, path, failures>>
  BY DEF EditRead, Begin, MayBegin, TypeOK
<1>4. row \in Row  BY <1>3, OpenRows
<1>5. clock' \in Nat /\ failures' \in Nat /\ DOMAIN path' = Sessions  BY <1>3 DEF TypeOK
<1> HIDE DEF c
<1>6. w \in Call  BY <1>1, <1>2, <1>3, <1>4, <1>5 DEF Call, PCs
<1>7. /\ w.pc = "write" /\ w.target = value /\ w.seen = row
      /\ w.ids = c.ids /\ w.item = c.item /\ w.op = c.op
  BY <1>2 DEF Call
<1> HIDE DEF w
<1>8. WellFormed(w)  BY <1>2, <1>6, <1>7 DEF WellFormed
<1>9. Licensed(w)  BY <1>2, <1>3, <1>4, <1>7 DEF Licensed, Item
<1>10. QED  BY <1>3, <1>5, <1>8, <1>9, QuietStep

\* Every request but Create: the call begins and its first read, if it has one
\* of its own, is done.
LEMMA RequestStep ==
  ASSUME TypeOK, PendingWrites, NEW s \in Sessions, Request(s)
  PROVE  TypeOK' /\ PendingWrites'
<1>1. ASSUME NEW t \in Tickets, NEW type \in NewTypes, NEW meta \in Sent \cup {NoMetadata},
             Create(s, t, type, meta)
      PROVE  TypeOK' /\ PendingWrites'
  BY <1>1, CreateStep
<1>2. ASSUME NEW t \in Tickets, NEW target \in StatusNames, NEW reason \in BOOLEAN,
             Move(s, t, target, reason)
      PROVE  TypeOK' /\ PendingWrites'
  <2> DEFINE c == Start(s, "move", <<t>>, target)
  <2>1. "move" \in Ops /\ "move" \in MoveOps  BY DEF Ops, MoveOps
  <2>2. target \in Values  BY DEF Values
  <2>3. c \in Call /\ c.item \in DOMAIN c.ids /\ c.op \in MoveOps
    <3> c = Start(s, "move", <<t>>, target)  OBVIOUS
    <3> HIDE DEF c
    <3> QED  BY <2>1, <2>2, SingleIsWellFormed
  <2>4. ReadForMove(s, c, target, reason)  BY <1>2 DEF Move
  <2>5. UNCHANGED <<tickets, history, failures>> /\ DOMAIN path' = Sessions /\ calls' \in Nat
    BY <1>2 DEF Move, Begin, MayBegin, TypeOK
  <2> HIDE DEF c
  <2>6. QED  BY <2>3, <2>4, <2>5, ReadStep
<1>3. ASSUME NEW t \in Tickets, NEW resolution \in AllTerminalStatuses \cup {NoResolution},
             Close(s, t, resolution)
      PROVE  TypeOK' /\ PendingWrites'
  <2> DEFINE c == Start(s, "close", <<t>>, resolution)
             w == [c EXCEPT !.pc = "step"]
  <2>1. "close" \in Ops /\ "close" \in MoveOps  BY DEF Ops, MoveOps
  <2>2. c \in Call /\ c.item \in DOMAIN c.ids /\ c.op \in MoveOps
    <3> c = Start(s, "close", <<t>>, resolution)  OBVIOUS
    <3> HIDE DEF c
    <3> resolution \in Values  BY ResolutionIsAValue
    <3> QED  BY <2>1, SingleIsWellFormed
  <2>3. call' = [call EXCEPT ![s] = w]  BY <1>3 DEF Close
  <2>4. /\ UNCHANGED <<tickets, history>> /\ DOMAIN path' = Sessions
        /\ clock' \in Nat /\ calls' \in Nat /\ failures' \in Nat
    BY <1>3 DEF Close, Begin, MayBegin, TypeOK
  <2> HIDE DEF c
  <2>5. WellFormed(w) /\ w.pc # "write"  BY <2>2, WalkIsWellFormed
  <2> HIDE DEF w
  <2>6. QED  BY <2>3, <2>4, <2>5, QuietStep
<1>4. ASSUME NEW ids \in BatchIds, NEW target \in StatusNames, BatchMove(s, ids, target)
      PROVE  TypeOK' /\ PendingWrites'
  <2> DEFINE c == Start(s, "batch_move", ids, target)
             w == [c EXCEPT !.pc = "look"]
  <2>1. "batch_move" \in Ops /\ "batch_move" \in MoveOps /\ target \in Values
    BY DEF Ops, MoveOps, Values
  <2>2. c \in Call /\ c.item \in DOMAIN c.ids /\ c.op \in MoveOps
    <3> c = Start(s, "batch_move", ids, target)  OBVIOUS
    <3> HIDE DEF c
    <3> QED  BY <2>1, BatchesAreSequences, BatchesAreNotEmpty, StartIsWellFormed
  <2>3. call' = [call EXCEPT ![s] = w]  BY <1>4 DEF BatchMove
  <2>4. /\ UNCHANGED <<tickets, history>> /\ DOMAIN path' = Sessions
        /\ clock' \in Nat /\ calls' \in Nat /\ failures' \in Nat
    BY <1>4 DEF BatchMove, Begin, MayBegin, TypeOK
  <2> HIDE DEF c
  <2>5. WellFormed(w) /\ w.pc # "write"  BY <2>2, WalkIsWellFormed
  <2> HIDE DEF w
  <2>6. QED  BY <2>3, <2>4, <2>5, QuietStep
<1>5. ASSUME NEW ids \in BatchIds, NEW resolution \in AllTerminalStatuses \cup {NoResolution},
             NEW door \in {"mcp", "rest"}, BatchClose(s, ids, resolution, door)
      PROVE  TypeOK' /\ PendingWrites'
  <2> DEFINE c == Start(s, "batch_close", ids, resolution)
             by == IF door = "mcp" THEN Nobody ELSE s
             w == [c EXCEPT !.pc = "look", !.by = by]
  <2>1. "batch_close" \in Ops /\ "batch_close" \in MoveOps  BY DEF Ops, MoveOps
  <2>2. c \in Call /\ c.item \in DOMAIN c.ids /\ c.op \in MoveOps
    <3> c = Start(s, "batch_close", ids, resolution)  OBVIOUS
    <3> HIDE DEF c
    <3> resolution \in Values  BY ResolutionIsAValue
    <3> QED  BY <2>1, BatchesAreSequences, BatchesAreNotEmpty, StartIsWellFormed
  <2>3. call' = [call EXCEPT ![s] = w]  BY <1>5 DEF BatchClose
  <2>4. /\ UNCHANGED <<tickets, history>> /\ DOMAIN path' = Sessions
        /\ clock' \in Nat /\ calls' \in Nat /\ failures' \in Nat
    BY <1>5 DEF BatchClose, Begin, MayBegin, TypeOK
  <2>5. by \in Sessions \cup {Nobody}  OBVIOUS
  <2> HIDE DEF c, by
  <2>6. WellFormed(w) /\ w.pc # "write"  BY <2>2, <2>5, WalkIsWellFormed
  <2> HIDE DEF w
  <2>7. QED  BY <2>3, <2>4, <2>6, QuietStep
<1>6. ASSUME NEW t \in Tickets, NEW type \in EditTypes, Retype(s, t, type)
      PROVE  TypeOK' /\ PendingWrites'
  <2>1. type \in TypeNames  BY TypesAssumption
  <2>2. EditRead(s, t, "retype", type, 0)  BY <1>6 DEF Retype
  <2>3. QED  BY <2>1, <2>2, EditReadStep
<1>7. ASSUME NEW t \in Tickets, NEW meta \in Sent, Annotate(s, t, meta)
      PROVE  TypeOK' /\ PendingWrites'
  <2>1. meta.note \in Notes \cup {EmptyNote} /\ meta.stamp \in Nat
    BY SentAssumption DEF Metadata
  <2>2. EditRead(s, t, "annotate", meta.note, meta.stamp)  BY <1>7 DEF Annotate
  <2>3. QED  BY <2>1, <2>2, EditReadStep
<1>8. QED  BY <1>1, <1>2, <1>3, <1>4, <1>5, <1>6, <1>7 DEF Request

LEMMA ContinueStep ==
  ASSUME TypeOK, PendingWrites, NEW s \in Sessions, Continue(s)
  PROVE  TypeOK' /\ PendingWrites'
<1>0. WellFormed(call[s])  BY RunningCalls
<1>1. CASE WalkRead(s)
  <2>1. call[s] \in Call /\ call[s].item \in DOMAIN call[s].ids
    BY <1>0, <1>1 DEF WalkRead, WellFormed
  <2>2. call[s].op \in MoveOps  BY <1>0, <1>1 DEF WalkRead, WellFormed
  <2>3. QED  BY <1>1, <2>1, <2>2, ReadStep DEF WalkRead, TypeOK
<1>2. CASE WalkRefused(s)
  <2>1. /\ call[s].pc = "step" /\ call' = [call EXCEPT ![s] = NextItem(call[s])]
        /\ UNCHANGED <<tickets, history, clock, calls, failures>>
        /\ DOMAIN path' = Sessions
    BY <1>2 DEF WalkRefused, TypeOK
  <2>2. WellFormed(NextItem(call[s])) /\ NextItem(call[s]).pc # "write"
    BY <1>0, <2>1, NextItemIsWellFormed
  <2>3. QED  BY <2>1, <2>2, QuietStep DEF TypeOK
<1>3. CASE MoveWrite(s)
  <2> DEFINE c == call[s]
             t == Item(c)
             row == MovedRow(tickets[t], c)
             next == NextStep(c, Tail(path[s]))
  <2>1. /\ c.pc = "write" /\ c.op \in MoveOps
        /\ tickets' = [tickets EXCEPT ![t] = row]
        /\ history' = [history EXCEPT ![t] = @ \o MoveEntries(c)]
        /\ call' = [call EXCEPT ![s] = next]
        /\ UNCHANGED <<clock, calls, failures>>
        /\ DOMAIN path' = Sessions
    BY <1>3 DEF MoveWrite, TypeOK
  <2>2. /\ c \in Call /\ Licensed(c) /\ t \in Tickets /\ tickets[t] \in Row /\ c.seen \in Row
    BY <2>1, PendingWriteIsTyped
  <2>3. row \in Row  BY <2>1, <2>2, LicensedMove, MovedRowIsARow
  <2>4. MoveEntries(c) \in Seq(HistoryRow)  BY <2>2, EntriesAreRows
  <2>5. WellFormed(next) /\ next.pc # "write"  BY <1>0, <2>1, NextStepIsWellFormed
  <2> HIDE DEF c, t, row, next
  <2>6. QED  BY <2>1, <2>2, <2>3, <2>4, <2>5, WriteStep
<1>4. CASE BatchLook(s)
  <2> DEFINE next == NextStep(call[s], ItemWalk(call[s]))
  <2>1. /\ call[s].pc = "look" /\ call' = [call EXCEPT ![s] = next]
        /\ UNCHANGED <<tickets, history, clock, calls, failures>>
        /\ DOMAIN path' = Sessions
    BY <1>4 DEF BatchLook, TypeOK
  <2>2. call[s].op \in MoveOps  BY <1>0, <2>1 DEF WellFormed
  <2>3. WellFormed(next) /\ next.pc # "write"  BY <1>0, <2>1, <2>2, NextStepIsWellFormed
  <2> HIDE DEF next
  <2>4. QED  BY <2>1, <2>3, QuietStep DEF TypeOK
<1>5. CASE EditWrite(s)
  <2> DEFINE c == call[s]
             t == Item(c)
             row == EditedRow(tickets[t], c)
             entries == <<EditEntry(c)>>
  <2>1. /\ c.pc = "write" /\ c.op \in EditOps
        /\ tickets' = [tickets EXCEPT ![t] = row]
        /\ history' = [history EXCEPT ![t] = Append(@, EditEntry(c))]
        /\ call' = [call EXCEPT ![s] = Idle]
        /\ UNCHANGED <<path, clock, calls, failures>>
    BY <1>5 DEF EditWrite
  <2>2. /\ c \in Call /\ Licensed(c) /\ t \in Tickets /\ tickets[t] \in Row /\ c.seen \in Row
    BY <2>1, PendingWriteIsTyped
  <2>3. row \in Row  BY <2>1, <2>2, EditedRowIsARow
  <2>4. EditEntry(c) \in HistoryRow  BY <2>1, <2>2, EntriesAreRows
  <2>5. entries \in Seq(HistoryRow)  BY <2>4
  <2>6. history' = [history EXCEPT ![t] = @ \o entries]
    <3>1. history[t] \in Seq(HistoryRow)  BY <2>2 DEF TypeOK
    <3>2. Append(history[t], EditEntry(c)) = history[t] \o entries  BY <2>4, <3>1
    <3>3. QED  BY <2>1, <3>2
  <2>7. WellFormed(Idle) /\ Idle.pc # "write"  BY IdleIsWellFormed DEF Idle
  <2>8. DOMAIN path' = Sessions  BY <2>1 DEF TypeOK
  <2> HIDE DEF c, t, row, entries
  <2>9. QED  BY <2>1, <2>2, <2>3, <2>5, <2>6, <2>7, <2>8, WriteStep
<1>6. QED  BY <1>1, <1>2, <1>3, <1>4, <1>5 DEF Continue

LEMMA FailureStep ==
  ASSUME TypeOK, PendingWrites, NEW s \in Sessions, StatementFails(s) \/ Crash(s)
  PROVE  TypeOK' /\ PendingWrites'
<1>0. failures' \in Nat  BY DEF StatementFails, Crash, Fail, TypeOK
<1>1. CASE StatementFails(s)
  <2>1. /\ call[s].pc # "idle" /\ call' = [call EXCEPT ![s] = NextItem(call[s])]
        /\ UNCHANGED <<tickets, history, clock, calls>> /\ DOMAIN path' = Sessions
    BY <1>1 DEF StatementFails, TypeOK
  <2>2. WellFormed(NextItem(call[s])) /\ NextItem(call[s]).pc # "write"
    BY <2>1, RunningCalls, NextItemIsWellFormed
  <2>3. QED  BY <1>0, <2>1, <2>2, QuietStep DEF TypeOK
<1>2. CASE Crash(s)
  <2>1. /\ call' = [call EXCEPT ![s] = Idle]
        /\ UNCHANGED <<tickets, history, clock, calls>> /\ DOMAIN path' = Sessions
    BY <1>2 DEF Crash, TypeOK
  <2>2. WellFormed(Idle) /\ Idle.pc # "write"  BY IdleIsWellFormed DEF Idle
  <2>3. QED  BY <1>0, <2>1, <2>2, QuietStep DEF TypeOK
<1>3. QED  BY <1>1, <1>2

LEMMA TypeStep == TypeOK /\ PendingWrites /\ [Next]_vars => TypeOK' /\ PendingWrites'
<1> SUFFICES ASSUME TypeOK, PendingWrites, [Next]_vars
             PROVE  TypeOK' /\ PendingWrites'
  OBVIOUS
<1>1. CASE UNCHANGED vars
  BY <1>1 DEF vars, TypeOK, PendingWrites, Licensed, Exists, Item
<1>2. CASE Next
  BY <1>2, RequestStep, ContinueStep, FailureStep DEF Next
<1>3. QED  BY <1>1, <1>2

\* Whatever the sessions do, the state stays well-formed and every pending
\* write is one that the row it read allowed: update_ticket and
\* transition_ticket write nothing they have not validated against a row they
\* read, even when that row has changed since.
THEOREM TypeCorrect == Spec => [](TypeOK /\ PendingWrites)
BY InitIsTyped, TypeStep, PTL DEF Spec

----------------------------------------------------------------------------
(* What can happen to the tickets in one step *)

\* The row that a move in progress is about to write.
LEMMA MoveWrites ==
  ASSUME TypeOK, PendingWrites, NEW s \in Sessions, MoveWrite(s)
  PROVE  LET c == call[s]
             t == Item(c)
         IN  /\ c.pc = "write" /\ t \in Tickets /\ tickets[t] \in Row
             /\ c.seen \in Row /\ c.seen.type \in TypeNames
             /\ ValidTransition(c.seen.type, c.seen.status, c.target)
             /\ tickets' = [tickets EXCEPT ![t] = MovedRow(tickets[t], c)]
             /\ tickets'[t].status = c.target
             /\ tickets'[t].closed <=> c.target \in TerminalStatuses[c.seen.type]
<1> DEFINE c == call[s]
           t == Item(c)
           row == MovedRow(tickets[t], c)
<1>1. c.pc = "write" /\ c.op \in MoveOps /\ tickets' = [tickets EXCEPT ![t] = row]
  BY DEF MoveWrite
<1>2. /\ c \in Call /\ Licensed(c) /\ t \in Tickets /\ tickets[t] \in Row /\ c.seen \in Row
  BY <1>1, PendingWriteIsTyped
<1>3. /\ c.seen.type \in TypeNames /\ c.target \in StatusNames
      /\ ValidTransition(c.seen.type, c.seen.status, c.target)
  BY <1>1, <1>2, LicensedMove
<1>4. row.status = c.target /\ (row.closed <=> c.target \in TerminalStatuses[c.seen.type])
  BY <1>2, <1>3, MovedRowIsARow
<1> HIDE DEF row
<1>5. tickets'[t] = row  BY <1>1, <1>2 DEF TypeOK
<1>6. QED  BY <1>1, <1>2, <1>3, <1>4, <1>5 DEF row

LEMMA EditWrites ==
  ASSUME TypeOK, PendingWrites, NEW s \in Sessions, EditWrite(s)
  PROVE  LET c == call[s]
             t == Item(c)
         IN  /\ c.pc = "write" /\ t \in Tickets /\ tickets[t] \in Row
             /\ tickets' = [tickets EXCEPT ![t] = EditedRow(tickets[t], c)]
             /\ tickets'[t].status = tickets[t].status
             /\ tickets'[t].closed = tickets[t].closed
<1> DEFINE c == call[s]
           t == Item(c)
           row == EditedRow(tickets[t], c)
<1>1. c.pc = "write" /\ c.op \in EditOps /\ tickets' = [tickets EXCEPT ![t] = row]
  BY DEF EditWrite
<1>2. c \in Call /\ Licensed(c) /\ t \in Tickets /\ tickets[t] \in Row
  BY <1>1, PendingWriteIsTyped
<1>3. row.status = tickets[t].status /\ row.closed = tickets[t].closed
  BY <1>1, <1>2, EditedRowIsARow
<1> HIDE DEF row
<1>4. tickets'[t] = row  BY <1>1, <1>2 DEF TypeOK
<1>5. QED  BY <1>1, <1>2, <1>3, <1>4 DEF row

\* The call goes on after its write, or answers.
LEMMA WriteEnds ==
  ASSUME TypeOK, NEW s \in Sessions, MoveWrite(s) \/ EditWrite(s)
  PROVE  call'[s].pc # "write" /\ clock' = clock
<1>1. WellFormed(call[s])  BY RunningCalls
<1>2. CASE MoveWrite(s)
  <2>1. /\ call[s].pc = "write" /\ call[s].op \in MoveOps /\ clock' = clock
        /\ call'[s] = NextStep(call[s], Tail(path[s]))
    BY <1>2 DEF MoveWrite, TypeOK
  <2>2. QED  BY <1>1, <2>1, NextStepIsWellFormed
<1>3. CASE EditWrite(s)
  BY <1>3 DEF EditWrite, TypeOK, Idle
<1>4. QED  BY <1>2, <1>3

\* Only three kinds of step write to the tickets.
LEMMA WhoWrites ==
  ASSUME [Next]_vars
  PROVE  \/ tickets' = tickets
         \/ \E s \in Sessions, t \in Tickets, type \in NewTypes, meta \in Sent \cup {NoMetadata} :
              Create(s, t, type, meta)
         \/ \E s \in Sessions : MoveWrite(s)
         \/ \E s \in Sessions : EditWrite(s)
<1>1. ASSUME NEW s \in Sessions, Request(s), tickets' # tickets
      PROVE  \E t \in Tickets, type \in NewTypes, meta \in Sent \cup {NoMetadata} :
                  Create(s, t, type, meta)
  BY <1>1 DEF Request, Move, Close, BatchMove, BatchClose, Retype, Annotate, EditRead
<1>2. ASSUME NEW s \in Sessions, Continue(s), tickets' # tickets
      PROVE  MoveWrite(s) \/ EditWrite(s)
  BY <1>2 DEF Continue, WalkRead, WalkRefused, BatchLook
<1>3. ASSUME NEW s \in Sessions, StatementFails(s) \/ Crash(s)
      PROVE  tickets' = tickets
  BY <1>3 DEF StatementFails, Crash
<1>4. QED  BY <1>1, <1>2, <1>3 DEF Next, vars

----------------------------------------------------------------------------
(* Safety *)

LEMMA ClosedStep ==
  ASSUME TypeOK, PendingWrites, ClosedIffTerminal, [Next]_vars
  PROVE  ClosedIffTerminal'
<1>1. CASE tickets' = tickets  BY <1>1 DEF ClosedIffTerminal
<1>2. ASSUME NEW s \in Sessions, NEW t \in Tickets, NEW type \in NewTypes, NEW meta \in Sent \cup {NoMetadata},
             Create(s, t, type, meta)
      PROVE  ClosedIffTerminal'
  <2>1. type \in TypeNames  BY TypesAssumption
  <2>2. /\ \A u \in Tickets \ {t} : tickets'[u] = tickets[u]
        /\ tickets'[t].status = InitialStatus[type] /\ tickets'[t].closed = FALSE
    BY <1>2 DEF Create, TypeOK
  <2>3. tickets'[t].status \notin AllTerminalStatuses  BY <2>1, <2>2, InitialIsOpen
  <2>4. QED  BY <2>2, <2>3 DEF ClosedIffTerminal
<1>3. ASSUME NEW s \in Sessions, MoveWrite(s)
      PROVE  ClosedIffTerminal'
  <2> DEFINE c == call[s]
             t == Item(c)
  <2>1. /\ t \in Tickets /\ c.seen.type \in TypeNames
        /\ ValidTransition(c.seen.type, c.seen.status, c.target)
        /\ tickets' = [tickets EXCEPT ![t] = MovedRow(tickets[t], c)]
        /\ tickets'[t].status = c.target
        /\ tickets'[t].closed <=> c.target \in TerminalStatuses[c.seen.type]
    BY <1>3, MoveWrites
  <2>2. c.target \in AllStatuses(c.seen.type)  BY <2>1, TransitionsStayInType
  <2>3. c.target \in TerminalStatuses[c.seen.type] <=> c.target \in AllTerminalStatuses
    BY <2>1, <2>2, TerminalIsGlobal
  <2> HIDE DEF t, c
  <2>4. \A u \in Tickets \ {t} : tickets'[u] = tickets[u]  BY <2>1 DEF TypeOK
  <2>5. QED  BY <2>1, <2>3, <2>4 DEF ClosedIffTerminal
<1>4. ASSUME NEW s \in Sessions, EditWrite(s)
      PROVE  ClosedIffTerminal'
  <2> DEFINE t == Item(call[s])
  <2>1. /\ t \in Tickets
        /\ tickets' = [tickets EXCEPT ![t] = EditedRow(tickets[t], call[s])]
        /\ tickets'[t].status = tickets[t].status /\ tickets'[t].closed = tickets[t].closed
    BY <1>4, EditWrites
  <2> HIDE DEF t
  <2>2. \A u \in Tickets \ {t} : tickets'[u] = tickets[u]  BY <2>1 DEF TypeOK
  <2>3. QED  BY <2>1, <2>2 DEF ClosedIffTerminal
<1>5. QED  BY <1>1, <1>2, <1>3, <1>4, WhoWrites

\* closed_at is set exactly while the status is a terminal one, for any number
\* of racing callers: transition_ticket computes it from the type it read, and
\* a terminal status of one type is never an open status of another.
THEOREM ClosedCorrect == Spec => []ClosedIffTerminal
<1>1. Init => ClosedIffTerminal
  <2>1. "none" \notin AllTerminalStatuses
    BY DEF AllTerminalStatuses, TerminalStatuses, TypeNames
  <2>2. QED  BY <2>1 DEF Init, ClosedIffTerminal, NoTicket
<1>2. TypeOK /\ PendingWrites /\ ClosedIffTerminal /\ [Next]_vars => ClosedIffTerminal'
  BY ClosedStep
<1>3. QED  BY <1>1, <1>2, TypeCorrect, PTL DEF Spec

\* What a step may do to a status: an edge of the ticket's own machine, or the
\* write of a session whose row is stale.
LEMMA StatusStep ==
  ASSUME TypeOK, PendingWrites, [Next]_vars, NEW t \in Tickets,
         StatusMoves(t), ~ LegalMove(t)
  PROVE  \E s \in Sessions : Writes(s, t) /\ call[s].seen # tickets[t]
<1>0. Exists(t) /\ tickets'[t].status # tickets[t].status  BY DEF StatusMoves
<1>1. CASE tickets' = tickets  BY <1>0, <1>1
<1>2. ASSUME NEW s \in Sessions, NEW u \in Tickets, NEW type \in NewTypes, NEW meta \in Sent \cup {NoMetadata},
             Create(s, u, type, meta)
      PROVE  FALSE
  <2>1. u # t  BY <1>0, <1>2 DEF Create
  <2>2. tickets'[t] = tickets[t]  BY <1>2, <2>1 DEF Create, TypeOK
  <2>3. QED  BY <1>0, <2>2
<1>3. ASSUME NEW s \in Sessions, MoveWrite(s)
      PROVE  Writes(s, t) /\ call[s].seen # tickets[t]
  <2> DEFINE c == call[s]
             u == Item(c)
  <2>1. /\ c.pc = "write" /\ u \in Tickets
        /\ ValidTransition(c.seen.type, c.seen.status, c.target)
        /\ tickets' = [tickets EXCEPT ![u] = MovedRow(tickets[u], c)]
        /\ tickets'[u].status = c.target
    BY <1>3, MoveWrites
  <2>2. c.target \in Range(NextStatuses(c.seen.type, c.seen.status))
    BY <2>1 DEF ValidTransition, NextStatuses
  <2> HIDE DEF u, c
  <2>3. u = t  BY <1>0, <2>1 DEF TypeOK
  <2>4. c.seen # tickets[t]  BY <2>1, <2>2, <2>3 DEF LegalMove
  <2>5. call[s].pc = "write" /\ Item(call[s]) = t  BY <2>1, <2>3 DEF u, c
  <2>6. call'[s] # call[s]  BY <1>3, <2>5, WriteEnds
  <2>7. QED  BY <2>4, <2>5, <2>6 DEF c, Writes
<1>4. ASSUME NEW s \in Sessions, EditWrite(s)
      PROVE  FALSE
  <2> DEFINE u == Item(call[s])
  <2>1. /\ u \in Tickets
        /\ tickets' = [tickets EXCEPT ![u] = EditedRow(tickets[u], call[s])]
        /\ tickets'[u].status = tickets[u].status
    BY <1>4, EditWrites
  <2> HIDE DEF u
  <2>2. tickets'[t].status = tickets[t].status  BY <2>1 DEF TypeOK
  <2>3. QED  BY <1>0, <2>2
<1>5. QED  BY <1>1, <1>2, <1>3, <1>4, WhoWrites

\* The state machine is broken in one way only, for any number of callers:
\* transition_ticket reads the row without a lock, another session commits, and
\* the UPDATE then writes a status that the row it overwrites does not lead to.
THEOREM StaleWritesOnly == Spec => OnlyStaleWritesBreakTheMachine
<1> DEFINE Stale(t) == \E s \in Sessions : Writes(s, t) /\ call[s].seen # tickets[t]
           Step == \A t \in Tickets : StatusMoves(t) /\ ~ LegalMove(t) => Stale(t)
<1>1. TypeOK /\ PendingWrites /\ [Next]_vars => [Step]_vars
  BY StatusStep
<1>2. QED  BY <1>1, TypeCorrect, PTL DEF Spec, OnlyStaleWritesBreakTheMachine

----------------------------------------------------------------------------
(* One call at a time: the snapshots are then current *)

SoleSession == \A r, s \in Sessions : r = s

SnapshotIsCurrent ==
  \A s \in Sessions : call[s].pc = "write" => call[s].seen = tickets[Item(call[s])]

\* In this step s reads: the call has the row as it is, and the time.
HasJustRead(s) ==
  /\ call'[s].seen = tickets'[Item(call'[s])]
  /\ call'[s].now = clock + 1
  /\ clock' = clock + 1
  /\ UNCHANGED <<tickets, history>>

\* A read leaves the row it found in the call.
LEMMA SnapshotTaken ==
  ASSUME TypeOK, NEW s \in Sessions, NEW c \in Call, NEW target,
         call' = [call EXCEPT ![s] = [c EXCEPT !.pc = "write", !.target = target,
                                               !.seen = tickets[Item(c)], !.now = clock + 1]],
         clock' = clock + 1, UNCHANGED <<tickets, history>>
  PROVE  HasJustRead(s)
<1> DEFINE row == tickets[Item(c)]
           now == clock + 1
           w == [c EXCEPT !.pc = "write", !.target = target, !.seen = row, !.now = now]
<1>1. call'[s] = w  BY DEF TypeOK
<1> HIDE DEF row, now
<1>2. w.seen = row /\ w.ids = c.ids /\ w.item = c.item /\ w.now = now  BY DEF Call
<1> HIDE DEF w
<1>3. QED  BY <1>1, <1>2 DEF Item, HasJustRead, row, now

LEMMA SnapshotRequested ==
  ASSUME TypeOK, NEW s \in Sessions, Request(s), call'[s].pc = "write"
  PROVE  HasJustRead(s)
<1>0. call[s].pc = "idle"
  BY DEF Request, Create, Move, Close, BatchMove, BatchClose, Retype, Annotate, EditRead, Begin, MayBegin
<1>1. ASSUME NEW t \in Tickets, NEW type \in NewTypes, NEW meta \in Sent \cup {NoMetadata},
             Create(s, t, type, meta)
      PROVE  FALSE
  BY <1>0, <1>1 DEF Create
<1>2. ASSUME NEW t \in Tickets, NEW target \in StatusNames, NEW reason \in BOOLEAN,
             Move(s, t, target, reason)
      PROVE  HasJustRead(s)
  <2> DEFINE c == Start(s, "move", <<t>>, target)
  <2>1. c \in Call
    <3> c = Start(s, "move", <<t>>, target)  OBVIOUS
    <3> HIDE DEF c
    <3> target \in Values /\ "move" \in Ops  BY DEF Values, Ops, MoveOps
    <3> QED  BY SingleIsWellFormed
  <2>2. /\ call' = [call EXCEPT ![s] = [c EXCEPT !.pc = "write", !.target = target,
                                        !.seen = tickets[Item(c)], !.now = clock + 1]]
        /\ clock' = clock + 1 /\ UNCHANGED <<tickets, history>>
    BY <1>2 DEF Move, ReadForMove
  <2> HIDE DEF c
  <2>3. QED  BY <2>1, <2>2, SnapshotTaken
<1>3. ASSUME NEW t \in Tickets, NEW op \in EditOps, NEW value \in Values, NEW stamp \in Nat,
             EditRead(s, t, op, value, stamp)
      PROVE  HasJustRead(s)
  <2> DEFINE c == StartEdit(s, op, t, value, stamp)
  <2>1. c \in Call /\ c.ids = <<t>> /\ c.item = 1
    <3> c = StartEdit(s, op, t, value, stamp)  OBVIOUS
    <3> HIDE DEF c
    <3> op \in Ops  BY DEF Ops
    <3> QED  BY EditIsWellFormed
  <2>2. Item(c) = t  BY <2>1 DEF Item
  <2>3. /\ call' = [call EXCEPT ![s] = [c EXCEPT !.pc = "write", !.target = value,
                                        !.seen = tickets[t], !.now = clock + 1]]
        /\ clock' = clock + 1 /\ UNCHANGED <<tickets, history>>
    BY <1>3 DEF EditRead
  <2> HIDE DEF c
  <2>4. QED  BY <2>1, <2>2, <2>3, SnapshotTaken
<1>4. ASSUME NEW pc \in {"look", "step"}, NEW c \in Call, NEW by,
             \/ call' = [call EXCEPT ![s] = [c EXCEPT !.pc = pc]]
             \/ call' = [call EXCEPT ![s] = [c EXCEPT !.pc = pc, !.by = by]]
      PROVE  FALSE
  <2>1. call'[s].pc = pc  BY <1>4 DEF TypeOK, Call
  <2>2. QED  BY <2>1
<1>5. ASSUME NEW t \in Tickets, NEW resolution \in AllTerminalStatuses \cup {NoResolution},
             Close(s, t, resolution)
      PROVE  FALSE
  <2> DEFINE c == Start(s, "close", <<t>>, resolution)
  <2>1. c \in Call
    <3> c = Start(s, "close", <<t>>, resolution)  OBVIOUS
    <3> HIDE DEF c
    <3> resolution \in Values /\ "close" \in Ops  BY ResolutionIsAValue DEF Ops, MoveOps
    <3> QED  BY SingleIsWellFormed
  <2>2. call' = [call EXCEPT ![s] = [c EXCEPT !.pc = "step"]]  BY <1>5 DEF Close
  <2> HIDE DEF c
  <2>3. QED  BY <1>4, <2>1, <2>2
<1>6. ASSUME NEW ids \in BatchIds, NEW target \in StatusNames, BatchMove(s, ids, target)
      PROVE  FALSE
  <2> DEFINE c == Start(s, "batch_move", ids, target)
  <2>1. c \in Call
    <3> c = Start(s, "batch_move", ids, target)  OBVIOUS
    <3> HIDE DEF c
    <3> target \in Values /\ "batch_move" \in Ops  BY DEF Values, Ops, MoveOps
    <3> QED  BY BatchesAreSequences, BatchesAreNotEmpty, StartIsWellFormed
  <2>2. call' = [call EXCEPT ![s] = [c EXCEPT !.pc = "look"]]  BY <1>6 DEF BatchMove
  <2> HIDE DEF c
  <2>3. QED  BY <1>4, <2>1, <2>2
<1>7. ASSUME NEW ids \in BatchIds, NEW resolution \in AllTerminalStatuses \cup {NoResolution},
             NEW door \in {"mcp", "rest"}, BatchClose(s, ids, resolution, door)
      PROVE  FALSE
  <2> DEFINE c == Start(s, "batch_close", ids, resolution)
             by == IF door = "mcp" THEN Nobody ELSE s
  <2>1. c \in Call
    <3> c = Start(s, "batch_close", ids, resolution)  OBVIOUS
    <3> HIDE DEF c
    <3> resolution \in Values /\ "batch_close" \in Ops  BY ResolutionIsAValue DEF Ops, MoveOps
    <3> QED  BY BatchesAreSequences, BatchesAreNotEmpty, StartIsWellFormed
  <2>2. call' = [call EXCEPT ![s] = [c EXCEPT !.pc = "look", !.by = by]]
    BY <1>7 DEF BatchClose
  <2> HIDE DEF c, by
  <2>3. QED  BY <1>4, <2>1, <2>2
<1>8. ASSUME NEW t \in Tickets, NEW type \in EditTypes, Retype(s, t, type)
      PROVE  HasJustRead(s)
  <2>1. type \in Values /\ "retype" \in EditOps  BY TypesAssumption DEF Values, EditOps
  <2>2. EditRead(s, t, "retype", type, 0)  BY <1>8 DEF Retype
  <2>3. QED  BY <1>3, <2>1, <2>2
<1>9. ASSUME NEW t \in Tickets, NEW meta \in Sent, Annotate(s, t, meta)
      PROVE  HasJustRead(s)
  <2>1. meta.note \in Values /\ meta.stamp \in Nat /\ "annotate" \in EditOps
    BY SentAssumption DEF Metadata, Values, EditOps
  <2>2. EditRead(s, t, "annotate", meta.note, meta.stamp)  BY <1>9 DEF Annotate
  <2>3. QED  BY <1>3, <2>1, <2>2
<1>10. QED  BY <1>1, <1>2, <1>5, <1>6, <1>7, <1>8, <1>9 DEF Request

LEMMA SnapshotContinued ==
  ASSUME TypeOK, NEW s \in Sessions, Continue(s) \/ StatementFails(s) \/ Crash(s),
         call'[s].pc = "write"
  PROVE  HasJustRead(s)
<1>0. WellFormed(call[s]) /\ call[s] \in Call  BY RunningCalls DEF WellFormed
<1>1. CASE WalkRead(s)
  BY <1>0, <1>1, SnapshotTaken DEF WalkRead, ReadForMove
<1>2. CASE WalkRefused(s) \/ StatementFails(s)
  <2>1. call[s].pc # "idle" /\ call'[s] = NextItem(call[s])
    BY <1>2 DEF WalkRefused, StatementFails, TypeOK
  <2>2. QED  BY <1>0, <2>1, NextItemIsWellFormed
<1>3. CASE MoveWrite(s) \/ BatchLook(s)
  <2>1. call[s].pc # "idle" /\ call[s].op \in MoveOps
    BY <1>0, <1>3 DEF MoveWrite, BatchLook, WellFormed
  <2>2. PICK rest : call'[s] = NextStep(call[s], rest)
    BY <1>3 DEF MoveWrite, BatchLook, TypeOK
  <2>3. QED  BY <1>0, <2>1, <2>2, NextStepIsWellFormed
<1>4. CASE EditWrite(s) \/ Crash(s)
  <2>1. call'[s] = Idle  BY <1>4 DEF EditWrite, Crash, TypeOK
  <2>2. QED  BY <2>1 DEF Idle
<1>5. QED  BY <1>1, <1>2, <1>3, <1>4 DEF Continue

LEMMA SnapshotStep ==
  ASSUME SoleSession, TypeOK, SnapshotIsCurrent, [Next]_vars
  PROVE  SnapshotIsCurrent'
<1> SUFFICES ASSUME NEW s \in Sessions, call'[s].pc = "write"
             PROVE  call'[s].seen = tickets'[Item(call'[s])]
  BY DEF SnapshotIsCurrent, Item
<1>1. CASE UNCHANGED vars  BY <1>1 DEF vars, SnapshotIsCurrent, Item
<1>2. CASE Next
  <2>1. Request(s) \/ Continue(s) \/ StatementFails(s) \/ Crash(s)
    BY <1>2 DEF Next, SoleSession
  <2>2. QED  BY <2>1, SnapshotRequested, SnapshotContinued DEF HasJustRead
<1>3. QED  BY <1>1, <1>2

\* Where only one call runs at a time, the README's promise holds without
\* exception: every change of status is an edge of the ticket's state machine.
THEOREM SerialMovesAreValid ==
  ASSUME SoleSession
  PROVE  Spec => NoInvalidStateChange
<1> DEFINE Step == \A t \in Tickets : StatusMoves(t) => LegalMove(t)
<1>1. Init => SnapshotIsCurrent  BY DEF Init, SnapshotIsCurrent, Idle
<1>2. TypeOK /\ SnapshotIsCurrent /\ [Next]_vars => SnapshotIsCurrent'
  BY SnapshotStep
<1>3. TypeOK /\ PendingWrites /\ SnapshotIsCurrent /\ [Next]_vars => [Step]_vars
  BY StatusStep DEF SnapshotIsCurrent, Writes
<1>4. QED  BY <1>1, <1>2, <1>3, TypeCorrect, PTL DEF Spec, NoInvalidStateChange

----------------------------------------------------------------------------
(* How a history grows *)

\* What is appended to a history leaves the rows before it where they were.
LEMMA RowsAreAppended ==
  ASSUME NEW h \in Seq(HistoryRow), NEW entries \in Seq(HistoryRow), NEW g, g = h \o entries
  PROVE  /\ Len(h) \in Nat /\ DOMAIN h = 1..Len(h)
         /\ DOMAIN g = 1..(Len(h) + Len(entries))
         /\ \A i \in 1..Len(h) : g[i] = h[i]
         /\ \A i \in 1..Len(entries) : g[Len(h) + i] = entries[i]
OBVIOUS

\* The rows of a move: the status row, and the reason of a park.
LEMMA MoveEntriesAre ==
  ASSUME NEW c
  PROVE  /\ c.target = Parked =>
              /\ Len(MoveEntries(c)) = 2
              /\ MoveEntries(c)[1] = HistoryEntry(c, "status", c.seen.status, c.target)
              /\ MoveEntries(c)[2] = HistoryEntry(c, "parked_reason", NoResolution, "reason")
         /\ c.target # Parked =>
              /\ Len(MoveEntries(c)) = 1
              /\ MoveEntries(c)[1] = HistoryEntry(c, "status", c.seen.status, c.target)
<1> DEFINE a == HistoryEntry(c, "status", c.seen.status, c.target)
<1> DEFINE b == HistoryEntry(c, "parked_reason", NoResolution, "reason")
<1>1. c.target = Parked => MoveEntries(c) = <<a>> \o <<b>>  BY DEF MoveEntries
<1>2. c.target # Parked => MoveEntries(c) = <<a>> \o <<>>  BY DEF MoveEntries
<1> HIDE DEF a, b
<1>3. <<a>> \in Seq({a, b}) /\ <<b>> \in Seq({a, b}) /\ <<>> \in Seq({a, b})
  OBVIOUS
<1>4. /\ Len(<<a>> \o <<b>>) = 2 /\ (<<a>> \o <<b>>)[1] = a /\ (<<a>> \o <<b>>)[2] = b
      /\ Len(<<a>> \o <<>>) = 1 /\ (<<a>> \o <<>>)[1] = a
  BY <1>3, ConcatProperties
<1>5. QED  BY <1>1, <1>2, <1>4 DEF a, b

\* A move by c adds its status row to h, and the reason after it when it parks.
RecordsMove(g, h, c) ==
  LET n == Len(h)
  IN  /\ n \in Nat /\ DOMAIN h = 1..n
      /\ \A i \in 1..n : g[i] = h[i]
      /\ g[n + 1].field = "status" /\ g[n + 1].old = c.seen.status
      /\ g[n + 1].new = c.target /\ g[n + 1].at = c.now
      /\ c.target # Parked => DOMAIN g = 1..(n + 1)
      /\ c.target = Parked => /\ DOMAIN g = 1..(n + 2)
                              /\ g[n + 2].field = "parked_reason" /\ g[n + 2].at = c.now

\* An update by c adds one row, which is about no status.
RecordsEdit(g, h, c) ==
  LET n == Len(h)
  IN  /\ n \in Nat /\ DOMAIN h = 1..n /\ DOMAIN g = 1..(n + 1)
      /\ \A i \in 1..n : g[i] = h[i]
      /\ g[n + 1].field = (IF c.op = "retype" THEN "type" ELSE "metadata")
      /\ g[n + 1].stamp = c.stamp /\ g[n + 1].at = c.now

LEMMA MoveIsRecorded ==
  ASSUME TypeOK, PendingWrites, NEW s \in Sessions, MoveWrite(s), NEW c, c = call[s], NEW t, t = Item(c)
  PROVE  /\ t \in Tickets /\ c.pc = "write" /\ c.seen \in Row /\ c.target \in AllStatuses(c.seen.type)
         /\ tickets[t] \in Row /\ tickets'[t] = MovedRow(tickets[t], c) /\ tickets'[t] \in Row
         /\ tickets'[t].status = c.target
         /\ \A u \in Tickets \ {t} : tickets'[u] = tickets[u] /\ history'[u] = history[u]
         /\ RecordsMove(history'[t], history[t], c)
<1>1. /\ c.pc = "write" /\ t \in Tickets /\ tickets[t] \in Row /\ c.seen \in Row
      /\ c.seen.type \in TypeNames /\ ValidTransition(c.seen.type, c.seen.status, c.target)
      /\ tickets' = [tickets EXCEPT ![t] = MovedRow(tickets[t], c)]
      /\ tickets'[t].status = c.target
  BY MoveWrites
<1>2. c \in Call /\ Licensed(c)  BY <1>1, PendingWriteIsTyped
<1>3. history' = [history EXCEPT ![t] = history[t] \o MoveEntries(c)]  BY DEF MoveWrite
<1>4. history[t] \in Seq(HistoryRow) /\ MoveEntries(c) \in Seq(HistoryRow)
  BY <1>1, <1>2, EntriesAreRows DEF TypeOK
<1>5. \A u \in Tickets \ {t} : tickets'[u] = tickets[u] /\ history'[u] = history[u]
  BY <1>1, <1>3 DEF TypeOK
<1>6. history'[t] = history[t] \o MoveEntries(c)  BY <1>1, <1>3 DEF TypeOK
<1>7. RecordsMove(history'[t], history[t], c)
  <2> DEFINE h == history[t]
             g == history'[t]
             entries == MoveEntries(c)
             n == Len(h)
  <2>0. h \in Seq(HistoryRow) /\ entries \in Seq(HistoryRow) /\ g = h \o entries
    BY <1>4, <1>6
  <2> HIDE DEF h, g, entries
  <2>1. /\ n \in Nat /\ DOMAIN h = 1..n /\ DOMAIN g = 1..(n + Len(entries))
        /\ \A i \in 1..n : g[i] = h[i]
        /\ \A i \in 1..Len(entries) : g[n + i] = entries[i]
    BY <2>0, RowsAreAppended
  <2>2. /\ c.target = Parked => /\ Len(entries) = 2
                                /\ entries[2] = HistoryEntry(c, "parked_reason", NoResolution, "reason")
        /\ c.target # Parked => Len(entries) = 1
        /\ entries[1] = HistoryEntry(c, "status", c.seen.status, c.target)
    BY MoveEntriesAre DEF entries
  <2> HIDE DEF n
  <2>3. /\ g[n + 1] = HistoryEntry(c, "status", c.seen.status, c.target)
        /\ c.target = Parked => g[n + 2] = HistoryEntry(c, "parked_reason", NoResolution, "reason")
    BY <2>1, <2>2
  <2>4. /\ g[n + 1].field = "status" /\ g[n + 1].old = c.seen.status
        /\ g[n + 1].new = c.target /\ g[n + 1].at = c.now
        /\ c.target = Parked => g[n + 2].field = "parked_reason" /\ g[n + 2].at = c.now
    BY <2>3 DEF HistoryEntry
  <2>5. QED  BY <2>1, <2>2, <2>4 DEF RecordsMove, h, g, n
<1>8. c.target \in AllStatuses(c.seen.type)  BY <1>1, TransitionsStayInType
<1>9. tickets'[t] = MovedRow(tickets[t], c) /\ tickets'[t] \in Row
  <2>1. tickets'[t] = MovedRow(tickets[t], c)  BY <1>1 DEF TypeOK
  <2>2. c.target \in StatusNames  BY <1>1, <1>8, StatusesAreNames
  <2>3. QED  BY <1>1, <1>2, <2>1, <2>2, MovedRowIsARow
<1>10. QED  BY <1>1, <1>5, <1>7, <1>8, <1>9

LEMMA EditIsRecorded ==
  ASSUME TypeOK, PendingWrites, NEW s \in Sessions, EditWrite(s), NEW c, c = call[s], NEW t, t = Item(c)
  PROVE  /\ t \in Tickets /\ c.pc = "write" /\ c.op \in EditOps /\ tickets[t] \in Row
         /\ tickets'[t] = EditedRow(tickets[t], c) /\ tickets'[t] \in Row
         /\ tickets'[t].status = tickets[t].status
         /\ \A u \in Tickets \ {t} : tickets'[u] = tickets[u] /\ history'[u] = history[u]
         /\ RecordsEdit(history'[t], history[t], c)
<1>1. /\ c.pc = "write" /\ t \in Tickets /\ tickets[t] \in Row /\ c.op \in EditOps
      /\ tickets' = [tickets EXCEPT ![t] = EditedRow(tickets[t], c)]
      /\ tickets'[t].status = tickets[t].status
  BY EditWrites DEF EditWrite
<1>2. c \in Call /\ c.seen \in Row /\ Licensed(c)  BY <1>1, PendingWriteIsTyped
<1>3. history' = [history EXCEPT ![t] = Append(history[t], EditEntry(c))]  BY DEF EditWrite
<1>4. history[t] \in Seq(HistoryRow) /\ EditEntry(c) \in HistoryRow
  BY <1>1, <1>2, EntriesAreRows DEF TypeOK
<1>5. \A u \in Tickets \ {t} : tickets'[u] = tickets[u] /\ history'[u] = history[u]
  BY <1>1, <1>3 DEF TypeOK
<1>6. history'[t] = Append(history[t], EditEntry(c))  BY <1>1, <1>3 DEF TypeOK
<1>7. RecordsEdit(history'[t], history[t], c)
  <2>1. /\ EditEntry(c).field = (IF c.op = "retype" THEN "type" ELSE "metadata")
        /\ EditEntry(c).stamp = c.stamp /\ EditEntry(c).at = c.now
    BY DEF EditEntry, HistoryEntry
  <2>2. QED  BY <1>4, <1>6, <2>1 DEF RecordsEdit
<1>8. tickets'[t] = EditedRow(tickets[t], c) /\ tickets'[t] \in Row
  <2>1. tickets'[t] = EditedRow(tickets[t], c)  BY <1>1 DEF TypeOK
  <2>2. QED  BY <1>1, <1>2, <2>1, EditedRowIsARow
<1>9. QED  BY <1>1, <1>5, <1>7, <1>8

\* A new ticket has the row of its INSERT and adds no history.
LEMMA CreateIsNotRecorded ==
  ASSUME TypeOK, NEW s \in Sessions, NEW t \in Tickets, NEW type \in NewTypes, NEW meta \in Sent \cup {NoMetadata},
         Create(s, t, type, meta)
  PROVE  /\ type \in TypeNames
         /\ ~ Exists(t) /\ history' = history /\ call' = call
         /\ tickets'[t].status = InitialStatus[type] /\ tickets'[t].type = type
         /\ \A u \in Tickets \ {t} : tickets'[u] = tickets[u]
BY TypesAssumption DEF Create, TypeOK

\* Nothing else writes to the history, or to the tickets.
LEMMA WhoRecords ==
  ASSUME [Next]_vars
  PROVE  \/ tickets' = tickets /\ history' = history
         \/ \E s \in Sessions, t \in Tickets, type \in NewTypes, meta \in Sent \cup {NoMetadata} :
              Create(s, t, type, meta)
         \/ \E s \in Sessions : MoveWrite(s)
         \/ \E s \in Sessions : EditWrite(s)
<1>1. ASSUME NEW s \in Sessions, Request(s)
      PROVE  \/ tickets' = tickets /\ history' = history
             \/ \E t \in Tickets, type \in NewTypes, meta \in Sent \cup {NoMetadata} :
                  Create(s, t, type, meta)
  BY <1>1 DEF Request, Move, Close, BatchMove, BatchClose, Retype, Annotate, EditRead
<1>2. ASSUME NEW s \in Sessions, Continue(s)
      PROVE  \/ tickets' = tickets /\ history' = history
             \/ MoveWrite(s) \/ EditWrite(s)
  BY <1>2 DEF Continue, WalkRead, WalkRefused, BatchLook
<1>3. ASSUME NEW s \in Sessions, StatementFails(s) \/ Crash(s)
      PROVE  tickets' = tickets /\ history' = history
  BY <1>3 DEF StatementFails, Crash
<1>4. QED  BY SMTT(30), <1>1, <1>2, <1>3 DEF Next, vars

----------------------------------------------------------------------------
(* The trail of a ticket ends where the ticket is *)

NoHistoryBeforeCreate == \A t \in Tickets : ~ Exists(t) => history[t] = <<>>

\* A status row that is appended is the last one, whatever follows it.
LEMMA MoveIsLast ==
  ASSUME NEW g, NEW h, NEW c, RecordsMove(g, h, c)
  PROVE  /\ Len(h) + 1 \in DOMAIN g
         /\ g[Len(h) + 1].field = "status" /\ g[Len(h) + 1].new = c.target
         /\ g[Len(h) + 1].at = c.now
         /\ \A j \in DOMAIN g : g[j].field = "status" => j =< Len(h) + 1
<1>1. CASE c.target = Parked
  <2>1. \A j \in DOMAIN g : j =< Len(h) + 1 \/ j = Len(h) + 2  BY <1>1 DEF RecordsMove
  <2>2. QED  BY <1>1, <2>1 DEF RecordsMove
<1>2. CASE c.target # Parked
  BY <1>2 DEF RecordsMove
<1>3. QED  BY <1>1, <1>2

LEMMA EditKeepsStatusRows ==
  ASSUME NEW g, NEW h, NEW c, RecordsEdit(g, h, c)
  PROVE  /\ DOMAIN h \subseteq DOMAIN g
         /\ \A i \in DOMAIN h : g[i] = h[i]
         /\ {i \in DOMAIN g : g[i].field = "status"} = {i \in DOMAIN h : h[i].field = "status"}
<1>1. g[Len(h) + 1].field # "status"  BY DEF RecordsEdit
<1>2. DOMAIN g = DOMAIN h \cup {Len(h) + 1}  BY DEF RecordsEdit
<1>3. \A i \in DOMAIN h : g[i] = h[i]  BY DEF RecordsEdit
<1>4. QED  BY <1>1, <1>2, <1>3

LEMMA AuditStep ==
  ASSUME TypeOK, PendingWrites, NoHistoryBeforeCreate, AuditEndsAtStatus, [Next]_vars
  PROVE  NoHistoryBeforeCreate' /\ AuditEndsAtStatus'
<1>1. CASE tickets' = tickets /\ history' = history
  BY <1>1 DEF NoHistoryBeforeCreate, AuditEndsAtStatus, Exists, IsLastStatusRow, StatusRows
<1>2. ASSUME NEW s \in Sessions, NEW t \in Tickets, NEW type \in NewTypes, NEW meta \in Sent \cup {NoMetadata},
             Create(s, t, type, meta)
      PROVE  NoHistoryBeforeCreate' /\ AuditEndsAtStatus'
  <2>1. /\ type \in TypeNames /\ ~ Exists(t) /\ history' = history
        /\ tickets'[t].status = InitialStatus[type] /\ tickets'[t].type = type
        /\ \A u \in Tickets \ {t} : tickets'[u] = tickets[u]
    BY <1>2, CreateIsNotRecorded
  <2>2. Exists(t)'  BY <2>1 DEF Exists, NoTicket, TypeNames
  <2>3. NoHistoryBeforeCreate'  BY <2>1, <2>2 DEF NoHistoryBeforeCreate, Exists
  <2>4. history'[t] = <<>>  BY <2>1 DEF NoHistoryBeforeCreate
  <2>5. StatusRows(t)' = {}  BY <2>4 DEF StatusRows
  <2>6. tickets'[t].status \in Range(InitialStatus)
    BY <2>1 DEF Range, InitialStatus, TypeNames
  <2>7. ASSUME NEW u \in Tickets, u # t, Exists(u)'
        PROVE  \/ \E i \in StatusRows(u)' : IsLastStatusRow(u, i)' /\ history'[u][i].new = tickets'[u].status
               \/ StatusRows(u)' = {} /\ tickets'[u].status \in Range(InitialStatus)
    BY <2>1, <2>7 DEF AuditEndsAtStatus, Exists, IsLastStatusRow, StatusRows
  <2>8. AuditEndsAtStatus'  BY <2>5, <2>6, <2>7 DEF AuditEndsAtStatus
  <2>9. QED  BY <2>3, <2>8
<1>3. ASSUME NEW s \in Sessions, MoveWrite(s)
      PROVE  NoHistoryBeforeCreate' /\ AuditEndsAtStatus'
  <2>0. PICK c : c = call[s]  OBVIOUS
  <2>1. PICK t : t = Item(c)  OBVIOUS
  <2>2. /\ t \in Tickets /\ tickets[t] \in Row /\ tickets'[t] \in Row
        /\ tickets'[t].status = c.target
        /\ \A u \in Tickets \ {t} : tickets'[u] = tickets[u] /\ history'[u] = history[u]
        /\ RecordsMove(history'[t], history[t], c)
    BY <1>3, <2>0, <2>1, MoveIsRecorded
  <2>3. PICK n : n = Len(history[t]) + 1  OBVIOUS
  <2>4. /\ n \in DOMAIN history'[t]
        /\ history'[t][n].field = "status" /\ history'[t][n].new = c.target
        /\ \A j \in DOMAIN history'[t] : history'[t][j].field = "status" => j =< n
    BY <2>2, <2>3, MoveIsLast
  <2>5. n \in StatusRows(t)' /\ IsLastStatusRow(t, n)'  BY <2>4 DEF IsLastStatusRow, StatusRows
  <2>6. Exists(t)'  BY <2>2, NoTicketIsNotARow DEF Exists
  <2>7. NoHistoryBeforeCreate'  BY <2>2, <2>6 DEF NoHistoryBeforeCreate, Exists
  <2>8. ASSUME NEW u \in Tickets, u # t, Exists(u)'
        PROVE  \/ \E i \in StatusRows(u)' : IsLastStatusRow(u, i)' /\ history'[u][i].new = tickets'[u].status
               \/ StatusRows(u)' = {} /\ tickets'[u].status \in Range(InitialStatus)
    BY <2>2, <2>8 DEF AuditEndsAtStatus, Exists, IsLastStatusRow, StatusRows
  <2>9. AuditEndsAtStatus'  BY <2>2, <2>4, <2>5, <2>8 DEF AuditEndsAtStatus
  <2>10. QED  BY <2>7, <2>9
<1>4. ASSUME NEW s \in Sessions, EditWrite(s)
      PROVE  NoHistoryBeforeCreate' /\ AuditEndsAtStatus'
  <2>0. PICK c : c = call[s]  OBVIOUS
  <2>1. PICK t : t = Item(c)  OBVIOUS
  <2>2. /\ t \in Tickets /\ tickets[t] \in Row /\ tickets'[t] \in Row
        /\ tickets'[t].status = tickets[t].status
        /\ \A u \in Tickets \ {t} : tickets'[u] = tickets[u] /\ history'[u] = history[u]
        /\ RecordsEdit(history'[t], history[t], c)
    BY <1>4, <2>0, <2>1, EditIsRecorded
  <2>3. StatusRows(t)' = StatusRows(t) /\ \A i \in StatusRows(t) : history'[t][i] = history[t][i]
    BY <2>2, EditKeepsStatusRows DEF StatusRows
  <2>4. Exists(t)  BY <2>2, NoTicketIsNotARow DEF Exists
  <2>5. Exists(t)'  BY <2>2, NoTicketIsNotARow DEF Exists
  <2>6. NoHistoryBeforeCreate'  BY <2>2, <2>5 DEF NoHistoryBeforeCreate, Exists
  <2>7. \/ \E i \in StatusRows(t)' : IsLastStatusRow(t, i)' /\ history'[t][i].new = tickets'[t].status
        \/ StatusRows(t)' = {} /\ tickets'[t].status \in Range(InitialStatus)
    BY <2>2, <2>3, <2>4 DEF AuditEndsAtStatus, IsLastStatusRow
  <2>8. ASSUME NEW u \in Tickets, u # t, Exists(u)'
        PROVE  \/ \E i \in StatusRows(u)' : IsLastStatusRow(u, i)' /\ history'[u][i].new = tickets'[u].status
               \/ StatusRows(u)' = {} /\ tickets'[u].status \in Range(InitialStatus)
    BY <2>2, <2>8 DEF AuditEndsAtStatus, Exists, IsLastStatusRow, StatusRows
  <2>9. AuditEndsAtStatus'  BY <2>7, <2>8 DEF AuditEndsAtStatus
  <2>10. QED  BY <2>6, <2>9
<1>5. QED  BY <1>1, <1>2, <1>3, <1>4, WhoRecords

\* The history ends where the ticket is, for any number of racing calls: the
\* status and its row are written by one transaction, also where the row's old
\* value is one that another call has replaced meanwhile.
THEOREM AuditCorrect == Spec => []AuditEndsAtStatus
<1>1. Init => NoHistoryBeforeCreate /\ AuditEndsAtStatus
  BY DEF Init, NoHistoryBeforeCreate, AuditEndsAtStatus, Exists
<1>2. /\ TypeOK /\ PendingWrites /\ NoHistoryBeforeCreate /\ AuditEndsAtStatus /\ [Next]_vars
      => NoHistoryBeforeCreate' /\ AuditEndsAtStatus'
  BY AuditStep
<1>3. QED  BY <1>1, <1>2, TypeCorrect, PTL DEF Spec

----------------------------------------------------------------------------
(* A parked ticket tells why *)

\* What ParkedTellsWhy asks of one ticket.
TellsWhy(t) ==
  \E i \in StatusRows(t), j, k \in StampRows(t) :
    /\ IsLastStatusRow(t, i)
    /\ history[t][j].field = "parked_reason"
    /\ history[t][j].at = history[t][i].at
    /\ j =< k /\ \A l \in StampRows(t) : l =< k
    /\ tickets[t].stamp = IF k = j THEN history[t][j].at ELSE history[t][k].stamp

LEMMA ParkedStep ==
  ASSUME TypeOK, PendingWrites, ParkedTellsWhy, [Next]_vars
  PROVE  ParkedTellsWhy'
<1>0. ASSUME NEW t \in Tickets, tickets'[t] = tickets[t], history'[t] = history[t],
             tickets'[t].status = Parked
      PROVE  TellsWhy(t)'
  BY <1>0 DEF ParkedTellsWhy, TellsWhy, IsLastStatusRow, StatusRows, StampRows
<1>1. CASE tickets' = tickets /\ history' = history
  BY <1>0, <1>1 DEF ParkedTellsWhy, TellsWhy
<1>2. ASSUME NEW s \in Sessions, NEW t \in Tickets, NEW type \in NewTypes, NEW meta \in Sent \cup {NoMetadata},
             Create(s, t, type, meta)
      PROVE  ParkedTellsWhy'
  <2>1. /\ type \in TypeNames /\ history' = history
        /\ tickets'[t].status = InitialStatus[type]
        /\ \A u \in Tickets \ {t} : tickets'[u] = tickets[u]
    BY <1>2, CreateIsNotRecorded
  <2>2. tickets'[t].status # Parked  BY <2>1, InitialIsOpen
  <2>3. ASSUME NEW u \in Tickets, tickets'[u].status = Parked
        PROVE  TellsWhy(u)'
    BY <1>0, <2>1, <2>2, <2>3
  <2>4. QED  BY <2>3 DEF ParkedTellsWhy, TellsWhy
<1>3. ASSUME NEW s \in Sessions, MoveWrite(s)
      PROVE  ParkedTellsWhy'
  <2>0. PICK c : c = call[s]  OBVIOUS
  <2>1. PICK t : t = Item(c)  OBVIOUS
  <2>2. /\ t \in Tickets /\ c.pc = "write" /\ tickets[t] \in Row
        /\ tickets'[t] = MovedRow(tickets[t], c) /\ tickets'[t].status = c.target
        /\ \A u \in Tickets \ {t} : tickets'[u] = tickets[u] /\ history'[u] = history[u]
        /\ RecordsMove(history'[t], history[t], c)
    BY <1>3, <2>0, <2>1, MoveIsRecorded
  <2>3. PICK n : n = Len(history[t]) + 1  OBVIOUS
  <2>4. /\ n \in DOMAIN history'[t]
        /\ history'[t][n].field = "status" /\ history'[t][n].at = c.now
        /\ \A j \in DOMAIN history'[t] : history'[t][j].field = "status" => j =< n
    BY <2>2, <2>3, MoveIsLast
  <2>5. IsLastStatusRow(t, n)'  BY <2>4 DEF IsLastStatusRow, StatusRows
  <2>6. ASSUME tickets'[t].status = Parked
        PROVE  TellsWhy(t)'
    <3>1. c.target = Parked  BY <2>2, <2>6
    <3>2. tickets'[t].stamp = c.now  BY <2>2, <3>1 DEF MovedRow, Row
    <3>3. PICK m : m = Len(history[t]) + 2  OBVIOUS
    <3>4. /\ m \in DOMAIN history'[t] /\ \A l \in DOMAIN history'[t] : l =< m
          /\ history'[t][m].field = "parked_reason" /\ history'[t][m].at = c.now
      BY <2>2, <3>1, <3>3 DEF RecordsMove
    <3>5. m \in StampRows(t)' /\ m =< m /\ \A l \in StampRows(t)' : l =< m
      <4>1. m \in Nat  BY <2>2, <3>3 DEF RecordsMove
      <4>2. QED  BY <3>4, <4>1 DEF StampRows
    <3>6. n \in StatusRows(t)'  BY <2>5 DEF IsLastStatusRow
    <3>7. QED  BY <2>4, <2>5, <3>2, <3>4, <3>5, <3>6 DEF TellsWhy
  <2>7. ASSUME NEW u \in Tickets, tickets'[u].status = Parked
        PROVE  TellsWhy(u)'
    BY <1>0, <2>2, <2>6, <2>7
  <2>8. QED  BY <2>7 DEF ParkedTellsWhy, TellsWhy
<1>4. ASSUME NEW s \in Sessions, EditWrite(s)
      PROVE  ParkedTellsWhy'
  <2>0. PICK c : c = call[s]  OBVIOUS
  <2>1. PICK t : t = Item(c)  OBVIOUS
  <2>2. /\ t \in Tickets /\ c.op \in EditOps /\ tickets[t] \in Row
        /\ tickets'[t] = EditedRow(tickets[t], c)
        /\ tickets'[t].status = tickets[t].status
        /\ \A u \in Tickets \ {t} : tickets'[u] = tickets[u] /\ history'[u] = history[u]
        /\ RecordsEdit(history'[t], history[t], c)
    BY <1>4, <2>0, <2>1, EditIsRecorded
  <2>3. /\ DOMAIN history[t] \subseteq DOMAIN history'[t]
        /\ \A i \in DOMAIN history[t] : history'[t][i] = history[t][i]
        /\ StatusRows(t)' = StatusRows(t)
    BY <2>2, EditKeepsStatusRows DEF StatusRows
  <2>4. ASSUME tickets'[t].status = Parked
        PROVE  TellsWhy(t)'
    <3>1. TellsWhy(t)  BY <2>2, <2>4 DEF ParkedTellsWhy, TellsWhy
    <3>2. PICK i \in StatusRows(t), j \in StampRows(t), k \in StampRows(t) :
            /\ IsLastStatusRow(t, i)
            /\ history[t][j].field = "parked_reason"
            /\ history[t][j].at = history[t][i].at
            /\ j =< k /\ \A l \in StampRows(t) : l =< k
            /\ tickets[t].stamp = IF k = j THEN history[t][j].at ELSE history[t][k].stamp
      BY <3>1 DEF TellsWhy
    <3>3. /\ IsLastStatusRow(t, i)' /\ i \in StatusRows(t)' /\ j \in StampRows(t)'
          /\ history'[t][j].field = "parked_reason"
          /\ history'[t][j].at = history'[t][i].at
          /\ history'[t][j] = history[t][j] /\ history'[t][k] = history[t][k]
      BY <2>3, <3>2 DEF IsLastStatusRow, StatusRows, StampRows
    <3>4. CASE c.op = "retype"
      <4>1. tickets'[t].stamp = tickets[t].stamp  BY <2>2, <3>4 DEF EditedRow, Row
      <4>2. StampRows(t)' = StampRows(t)
        <5>1. /\ DOMAIN history'[t] = DOMAIN history[t] \cup {Len(history[t]) + 1}
              /\ history'[t][Len(history[t]) + 1].field = "type"
              /\ Len(history[t]) + 1 \notin DOMAIN history[t]
          BY <2>2, <3>4 DEF RecordsEdit
        <5>2. QED  BY <2>3, <5>1 DEF StampRows
      <4>3. QED  BY <3>2, <3>3, <4>1, <4>2 DEF TellsWhy
    <3>5. CASE c.op = "annotate"
      <4>1. tickets'[t].stamp = c.stamp  BY <2>2, <3>5 DEF EditedRow, Row
      <4>2. PICK n : n = Len(history[t]) + 1  OBVIOUS
      <4>3. /\ n \in Nat /\ n \in DOMAIN history'[t] /\ history'[t][n].field = "metadata"
            /\ history'[t][n].stamp = c.stamp
            /\ \A l \in DOMAIN history'[t] : l =< n
            /\ \A l \in DOMAIN history[t] : l < n
        BY <2>2, <3>5, <4>2 DEF RecordsEdit
      <4>4. n \in StampRows(t)' /\ \A l \in StampRows(t)' : l =< n
        BY <4>3 DEF StampRows
      <4>5. j \in Nat /\ j < n  BY <2>2, <4>2, <4>3, <3>2 DEF StampRows, RecordsEdit
      <4>6. j =< n /\ n # j  BY <4>3, <4>5
      <4>7. QED  BY <3>3, <4>1, <4>3, <4>4, <4>6 DEF TellsWhy
    <3>6. QED  BY <2>2, <3>4, <3>5 DEF EditOps
  <2>5. ASSUME NEW u \in Tickets, tickets'[u].status = Parked
        PROVE  TellsWhy(u)'
    BY <1>0, <2>2, <2>4, <2>5
  <2>6. QED  BY <2>5 DEF ParkedTellsWhy, TellsWhy
<1>5. QED  BY <1>1, <1>2, <1>3, <1>4, WhoRecords

\* A parked ticket tells why, for any number of racing calls: the reason is in
\* the history with the time of its last status row, and the stamp in the
\* metadata is that of this park, or the one of the last update of the metadata
\* after it.
THEOREM ParkedTold == Spec => []ParkedTellsWhy
<1>1. Init => ParkedTellsWhy  BY DEF Init, ParkedTellsWhy, NoTicket, Parked
<1>2. TypeOK /\ PendingWrites /\ ParkedTellsWhy /\ [Next]_vars => ParkedTellsWhy'
  BY ParkedStep
<1>3. QED  BY <1>1, <1>2, TypeCorrect, PTL DEF Spec

----------------------------------------------------------------------------
(* What strays, and what is lost, of the metadata *)

\* The metadata a move leaves: a park and a reopening write what they read, any
\* other move leaves what it finds.
LEMMA MovedMetadata ==
  ASSUME NEW c, NEW row \in Row, c.seen \in Row
  PROVE  /\ Parked \in {c.seen.status, c.target} => MovedRow(row, c).note = c.seen.note
         /\ Parked \notin {c.seen.status, c.target} =>
              MovedRow(row, c).note = row.note /\ MovedRow(row, c).stamp = row.stamp
         /\ c.target # Parked /\ c.seen.status = Parked => MovedRow(row, c).stamp = 0
<1> DEFINE moved == [row EXCEPT !.status = c.target,
                                !.closed = c.target \in TerminalStatuses[c.seen.type]]
<1>1. /\ DOMAIN moved = DOMAIN row /\ {"stamp", "note"} \subseteq DOMAIN row
      /\ moved.note = row.note /\ moved.stamp = row.stamp
  BY DEF Row
<1>2. MovedRow(row, c) =
        CASE c.target = Parked      -> [moved EXCEPT !.stamp = c.now, !.note = c.seen.note]
          [] c.target # Parked /\ c.seen.status = Parked
                                    -> [moved EXCEPT !.stamp = 0, !.note = c.seen.note]
          [] OTHER                  -> moved
  BY DEF MovedRow
<1> HIDE DEF moved
<1>3. CASE c.target = Parked
  <2>1. MovedRow(row, c) = [moved EXCEPT !.stamp = c.now, !.note = c.seen.note]
    BY <1>2, <1>3
  <2>2. QED  BY <1>1, <1>3, <2>1
<1>4. CASE c.target # Parked /\ c.seen.status = Parked
  <2>1. MovedRow(row, c) = [moved EXCEPT !.stamp = 0, !.note = c.seen.note]
    BY <1>2, <1>4
  <2>2. QED  BY <1>1, <1>4, <2>1
<1>5. CASE c.target # Parked /\ c.seen.status # Parked
  <2>1. MovedRow(row, c) = moved  BY <1>2, <1>5
  <2>2. QED  BY <1>1, <1>5, <2>1
<1>6. QED  BY <1>3, <1>4, <1>5

LEMMA StrayStep ==
  ASSUME TypeOK, PendingWrites, [Next]_vars, NEW t \in Tickets,
         Exists(t), ~ Stray(t), Stray(t)'
  PROVE  \E s \in Sessions :
           /\ Writes(s, t)
           /\ \/ call[s].op = "annotate" /\ call[s].stamp # 0
              \/ call[s].seen.status # Parked /\ tickets[t].status = Parked
<1>0. tickets'[t] # tickets[t]  BY DEF Stray
<1>1. ASSUME NEW s \in Sessions, NEW u \in Tickets, NEW type \in NewTypes, NEW meta \in Sent \cup {NoMetadata},
             Create(s, u, type, meta)
      PROVE  FALSE
  BY <1>0, <1>1, CreateIsNotRecorded
<1>2. ASSUME NEW s \in Sessions, MoveWrite(s)
      PROVE  /\ Writes(s, t)
             /\ call[s].seen.status # Parked /\ tickets[t].status = Parked
  <2>0. PICK c : c = call[s]  OBVIOUS
  <2>1. PICK u : u = Item(c)  OBVIOUS
  <2>2. /\ u \in Tickets /\ c.pc = "write" /\ tickets[u] \in Row /\ c.seen \in Row
        /\ tickets'[u] = MovedRow(tickets[u], c) /\ tickets'[u].status = c.target
        /\ \A w \in Tickets \ {u} : tickets'[w] = tickets[w]
    BY <1>2, <2>0, <2>1, MoveIsRecorded
  <2>3. u = t  BY <1>0, <2>2
  <2>4. c.target # Parked /\ tickets'[t].stamp # 0  BY <2>2, <2>3 DEF Stray
  <2>5. c.seen.status # Parked  BY <2>2, <2>3, <2>4, MovedMetadata
  <2>6. tickets[t].stamp # 0  BY <2>2, <2>3, <2>4, <2>5, MovedMetadata
  <2>7. tickets[t].status = Parked  BY <2>6 DEF Stray
  <2>8. Writes(s, t)  BY <1>2, <2>0, <2>1, <2>2, <2>3, WriteEnds DEF Writes
  <2>9. QED  BY <2>0, <2>5, <2>7, <2>8
<1>3. ASSUME NEW s \in Sessions, EditWrite(s)
      PROVE  Writes(s, t) /\ call[s].op = "annotate" /\ call[s].stamp # 0
  <2>0. PICK c : c = call[s]  OBVIOUS
  <2>1. PICK u : u = Item(c)  OBVIOUS
  <2>2. /\ u \in Tickets /\ c.pc = "write" /\ c.op \in EditOps /\ tickets[u] \in Row
        /\ tickets'[u] = EditedRow(tickets[u], c) /\ tickets'[u].status = tickets[u].status
        /\ \A w \in Tickets \ {u} : tickets'[w] = tickets[w]
    BY <1>3, <2>0, <2>1, EditIsRecorded
  <2>3. u = t  BY <1>0, <2>2
  <2>4. tickets[t].stamp = 0 /\ tickets'[t].stamp # 0  BY <2>2, <2>3 DEF Stray
  <2>5. c.op # "retype"  BY <2>2, <2>3, <2>4 DEF EditedRow, Row
  <2>6. c.op = "annotate"  BY <2>2, <2>5 DEF EditOps
  <2>7. tickets'[t].stamp = c.stamp  BY <2>2, <2>3, <2>6 DEF EditedRow, Row
  <2>8. Writes(s, t)  BY <1>3, <2>0, <2>1, <2>2, <2>3, WriteEnds DEF Writes
  <2>9. QED  BY <2>0, <2>4, <2>6, <2>7, <2>8
<1>4. QED  BY <1>0, <1>1, <1>2, <1>3, WhoWrites

\* metadata.parked outlives its park in two ways only, for any number of racing
\* calls: a caller has sent the key, or a move that has read the ticket before
\* the park ends it.
THEOREM StraysAreSentOrStale == Spec => StampsStrayInTwoWays
<1> DEFINE Strayed(t) == \E s \in Sessions :
             /\ Writes(s, t)
             /\ \/ call[s].op = "annotate" /\ call[s].stamp # 0
                \/ call[s].seen.status # Parked /\ tickets[t].status = Parked
           Step == \A t \in Tickets : Exists(t) /\ ~ Stray(t) /\ Stray(t)' => Strayed(t)
<1>1. TypeOK /\ PendingWrites /\ [Next]_vars => [Step]_vars
  BY StrayStep
<1>2. QED  BY <1>1, TypeCorrect, PTL DEF Spec, StampsStrayInTwoWays

LEMMA NotesStep ==
  ASSUME TypeOK, PendingWrites, [Next]_vars, NEW t \in Tickets,
         Exists(t), tickets'[t].note # tickets[t].note
  PROVE  \E s \in Sessions :
           /\ Writes(s, t)
           /\ \/ call[s].op = "annotate"
              \/ /\ call[s].seen.note # tickets[t].note
                 /\ Parked \in {call[s].seen.status, call[s].target}
<1>1. ASSUME NEW s \in Sessions, NEW u \in Tickets, NEW type \in NewTypes, NEW meta \in Sent \cup {NoMetadata},
             Create(s, u, type, meta)
      PROVE  FALSE
  BY <1>1, CreateIsNotRecorded
<1>2. ASSUME NEW s \in Sessions, MoveWrite(s)
      PROVE  /\ Writes(s, t) /\ call[s].seen.note # tickets[t].note
             /\ Parked \in {call[s].seen.status, call[s].target}
  <2>0. PICK c : c = call[s]  OBVIOUS
  <2>1. PICK u : u = Item(c)  OBVIOUS
  <2>2. /\ u \in Tickets /\ c.pc = "write" /\ tickets[u] \in Row /\ c.seen \in Row
        /\ tickets'[u] = MovedRow(tickets[u], c)
        /\ \A w \in Tickets \ {u} : tickets'[w] = tickets[w]
    BY <1>2, <2>0, <2>1, MoveIsRecorded
  <2>3. u = t  BY <2>2
  <2>4. Parked \in {c.seen.status, c.target}  BY <2>2, <2>3, MovedMetadata
  <2>5. tickets'[t].note = c.seen.note  BY <2>2, <2>3, <2>4, MovedMetadata
  <2>6. Writes(s, t)  BY <1>2, <2>0, <2>1, <2>2, <2>3, WriteEnds DEF Writes
  <2>7. QED  BY <2>0, <2>4, <2>5, <2>6
<1>3. ASSUME NEW s \in Sessions, EditWrite(s)
      PROVE  Writes(s, t) /\ call[s].op = "annotate"
  <2>0. PICK c : c = call[s]  OBVIOUS
  <2>1. PICK u : u = Item(c)  OBVIOUS
  <2>2. /\ u \in Tickets /\ c.pc = "write" /\ c.op \in EditOps /\ tickets[u] \in Row
        /\ tickets'[u] = EditedRow(tickets[u], c)
        /\ \A w \in Tickets \ {u} : tickets'[w] = tickets[w]
    BY <1>3, <2>0, <2>1, EditIsRecorded
  <2>3. u = t  BY <2>2
  <2>4. c.op # "retype"  BY <2>2, <2>3 DEF EditedRow, Row
  <2>5. Writes(s, t)  BY <1>3, <2>0, <2>1, <2>2, <2>3, WriteEnds DEF Writes
  <2>6. QED  BY <2>0, <2>2, <2>4, <2>5 DEF EditOps
<1>4. QED  BY <1>1, <1>2, <1>3, WhoWrites

\* What a caller has put into the metadata is lost by an update of it, or by a
\* park or reopening that had read other metadata, for any number of calls.
THEOREM NotesAreLostByStaleMoves == Spec => OnlyStaleMovesLoseNotes
<1> DEFINE Lost(t) == \E s \in Sessions :
             /\ Writes(s, t)
             /\ \/ call[s].op = "annotate"
                \/ /\ call[s].seen.note # tickets[t].note
                   /\ Parked \in {call[s].seen.status, call[s].target}
           Step == \A t \in Tickets : Exists(t) /\ tickets'[t].note # tickets[t].note => Lost(t)
<1>1. TypeOK /\ PendingWrites /\ [Next]_vars => [Step]_vars
  BY NotesStep
<1>2. QED  BY <1>1, TypeCorrect, PTL DEF Spec, OnlyStaleMovesLoseNotes

----------------------------------------------------------------------------
(* Only an edit of the type strands a ticket *)

Retyped(t) == \E i \in DOMAIN history[t] : history[t][i].field = "type"

\* What a pending write takes for the type of its ticket is the type, unless
\* the history has an edit of it.
SeenTypesAreRecorded ==
  \A s \in Sessions : call[s].pc = "write" =>
    \/ call[s].seen.type = tickets[Item(call[s])].type
    \/ Retyped(Item(call[s]))

\* A session about to write is one that was, or one that has just read.
LEMMA WhoIsAboutToWrite ==
  ASSUME TypeOK, [Next]_vars, NEW s \in Sessions, call'[s].pc = "write"
  PROVE  \/ call'[s] = call[s]
         \/ HasJustRead(s)
<1>1. CASE UNCHANGED vars  BY <1>1 DEF vars
<1>2. CASE Next
  <2>1. PICK r \in Sessions : Request(r) \/ Continue(r) \/ StatementFails(r) \/ Crash(r)
    BY <1>2 DEF Next
  <2>2. CASE r = s
    BY <2>1, <2>2, SnapshotRequested, SnapshotContinued
  <2>3. CASE r # s
    <3>1. call' = call \/ \E c : call' = [call EXCEPT ![r] = c]
      BY <2>1 DEF Request, Create, Move, Close, BatchMove, BatchClose, Retype, Annotate, EditRead,
                  ReadForMove, Continue, WalkRead, WalkRefused, MoveWrite, BatchLook, EditWrite,
                  StatementFails, Crash
    <3>2. call'[s] = call[s]  BY <2>3, <3>1 DEF TypeOK
    <3>3. QED  BY SMTT(30), <3>2
  <2>4. QED  BY <2>2, <2>3
<1>3. QED  BY <1>1, <1>2

\* An edit of a type is in the history, and stays there.
LEMMA RetypesAreRecorded ==
  ASSUME TypeOK, PendingWrites, [Next]_vars, NEW t \in Tickets
  PROVE  /\ Retyped(t) => Retyped(t)'
         /\ Exists(t) => Exists(t)' /\ (tickets'[t].type = tickets[t].type \/ Retyped(t)')
<1>1. CASE tickets' = tickets /\ history' = history
  BY <1>1 DEF Retyped, Exists
<1>2. ASSUME NEW s \in Sessions, NEW u \in Tickets, NEW type \in NewTypes, NEW meta \in Sent \cup {NoMetadata},
             Create(s, u, type, meta)
      PROVE  /\ history' = history
             /\ Exists(t) => tickets'[t] = tickets[t]
  BY <1>2, CreateIsNotRecorded
<1>3. ASSUME NEW s \in Sessions, MoveWrite(s)
      PROVE  /\ Retyped(t) => Retyped(t)'
             /\ Exists(t) => Exists(t)' /\ tickets'[t].type = tickets[t].type
  <2>0. PICK c : c = call[s]  OBVIOUS
  <2>1. PICK u : u = Item(c)  OBVIOUS
  <2>2. /\ u \in Tickets /\ tickets[u] \in Row /\ tickets'[u] \in Row
        /\ tickets'[u] = MovedRow(tickets[u], c)
        /\ c.seen.type \in TypeNames /\ c.seen \in Row /\ c.target \in StatusNames /\ c \in Call
        /\ \A w \in Tickets \ {u} : tickets'[w] = tickets[w] /\ history'[w] = history[w]
        /\ RecordsMove(history'[u], history[u], c)
    <3>1. /\ u \in Tickets /\ c.pc = "write" /\ c.seen \in Row /\ c.target \in AllStatuses(c.seen.type)
          /\ tickets[u] \in Row /\ tickets'[u] \in Row
          /\ tickets'[u] = MovedRow(tickets[u], c)
          /\ \A w \in Tickets \ {u} : tickets'[w] = tickets[w] /\ history'[w] = history[w]
          /\ RecordsMove(history'[u], history[u], c)
      BY <1>3, <2>0, <2>1, MoveIsRecorded
    <3>2. c.seen.type \in TypeNames  BY <3>1 DEF Row
    <3>3. c \in Call  BY <2>0, <3>1, PendingWriteIsTyped
    <3>4. QED  BY <3>1, <3>2, <3>3, StatusesAreNames
  <2>3. tickets'[u].type = tickets[u].type  BY <2>2, MovedRowIsARow
  <2>4. Exists(u)'  BY <2>2, NoTicketIsNotARow DEF Exists
  <2>5. /\ DOMAIN history[u] \subseteq DOMAIN history'[u]
        /\ \A i \in DOMAIN history[u] : history'[u][i] = history[u][i]
    BY <2>2 DEF RecordsMove
  <2>6. QED  BY <2>2, <2>3, <2>4, <2>5 DEF Retyped, Exists
<1>4. ASSUME NEW s \in Sessions, EditWrite(s)
      PROVE  /\ Retyped(t) => Retyped(t)'
             /\ Exists(t) => Exists(t)' /\ (tickets'[t].type = tickets[t].type \/ Retyped(t)')
  <2>0. PICK c : c = call[s]  OBVIOUS
  <2>1. PICK u : u = Item(c)  OBVIOUS
  <2>2. /\ u \in Tickets /\ c.op \in EditOps /\ tickets[u] \in Row /\ tickets'[u] \in Row
        /\ tickets'[u] = EditedRow(tickets[u], c)
        /\ \A w \in Tickets \ {u} : tickets'[w] = tickets[w] /\ history'[w] = history[w]
        /\ RecordsEdit(history'[u], history[u], c)
    BY <1>4, <2>0, <2>1, EditIsRecorded
  <2>3. Exists(u)'  BY <2>2, NoTicketIsNotARow DEF Exists
  <2>4. /\ DOMAIN history[u] \subseteq DOMAIN history'[u]
        /\ \A i \in DOMAIN history[u] : history'[u][i] = history[u][i]
    BY <2>2, EditKeepsStatusRows
  <2>5. tickets'[u].type = tickets[u].type \/ Retyped(u)'
    <3>1. CASE c.op = "retype"
      <4>1. Len(history[u]) + 1 \in DOMAIN history'[u] /\ history'[u][Len(history[u]) + 1].field = "type"
        BY <2>2, <3>1 DEF RecordsEdit
      <4>2. QED  BY <4>1 DEF Retyped
    <3>2. CASE c.op = "annotate"  BY <2>2, <3>2 DEF EditedRow, Row
    <3>3. QED  BY <2>2, <3>1, <3>2 DEF EditOps
  <2>6. QED  BY <2>2, <2>3, <2>4, <2>5 DEF Retyped, Exists
<1>5. QED  BY <1>1, <1>2, <1>3, <1>4, WhoRecords DEF Retyped, Exists

LEMMA SeenTypesStep ==
  ASSUME TypeOK, PendingWrites, SeenTypesAreRecorded, [Next]_vars
  PROVE  SeenTypesAreRecorded'
<1>1. ASSUME NEW s \in Sessions, call'[s].pc = "write"
      PROVE  \/ call'[s].seen.type = tickets'[Item(call'[s])].type
             \/ Retyped(Item(call[s]))'
  <2>1. CASE HasJustRead(s)  BY <2>1 DEF HasJustRead
  <2>2. CASE call'[s] = call[s]
    <3>1. PICK t : t = Item(call[s])  OBVIOUS
    <3>2. t \in Tickets /\ Exists(t)  BY <1>1, <2>2, <3>1, PendingWriteIsTyped DEF Licensed
    <3>3. call[s].seen.type = tickets[t].type \/ Retyped(t)
      BY <1>1, <2>2, <3>1 DEF SeenTypesAreRecorded
    <3>4. call[s].seen.type = tickets'[t].type \/ Retyped(t)'
      BY <3>2, <3>3, RetypesAreRecorded
    <3>5. Item(call'[s]) = t  BY <2>2, <3>1 DEF Item
    <3>6. Retyped(t)' => Retyped(Item(call[s]))'  BY <3>5 DEF Retyped, Item
    <3>7. QED  BY <2>2, <3>4, <3>5, <3>6
  <2>3. QED  BY <1>1, <2>1, <2>2, WhoIsAboutToWrite
<1>2. QED  BY <1>1 DEF SeenTypesAreRecorded

LEMMA StrandedStep ==
  ASSUME TypeOK, PendingWrites, SeenTypesAreRecorded, OnlyRetypedTicketsAreStranded, [Next]_vars
  PROVE  OnlyRetypedTicketsAreStranded'
<1> SUFFICES ASSUME NEW t \in Tickets, Exists(t)', ~ Retyped(t)'
             PROVE  tickets'[t].status \in AllStatuses(tickets'[t].type)
  BY DEF OnlyRetypedTicketsAreStranded, Retyped
<1>0. ~ Retyped(t)  BY RetypesAreRecorded
<1>1. CASE tickets'[t] = tickets[t]
  BY <1>0, <1>1 DEF OnlyRetypedTicketsAreStranded, Retyped, Exists
<1>2. ASSUME NEW s \in Sessions, NEW u \in Tickets, NEW type \in NewTypes, NEW meta \in Sent \cup {NoMetadata},
             Create(s, u, type, meta)
      PROVE  tickets'[t].status \in AllStatuses(tickets'[t].type)
  <2>1. /\ type \in TypeNames /\ tickets'[u].status = InitialStatus[type] /\ tickets'[u].type = type
        /\ \A w \in Tickets \ {u} : tickets'[w] = tickets[w]
    BY <1>2, CreateIsNotRecorded
  <2>2. QED  BY <1>1, <2>1, InitialIsOpen
<1>3. ASSUME NEW s \in Sessions, MoveWrite(s)
      PROVE  tickets'[t].status \in AllStatuses(tickets'[t].type)
  <2>0. PICK c : c = call[s]  OBVIOUS
  <2>1. PICK u : u = Item(c)  OBVIOUS
  <2>2. /\ u \in Tickets /\ c.pc = "write" /\ c.target \in AllStatuses(c.seen.type)
        /\ tickets[u] \in Row /\ tickets'[u].status = c.target
        /\ \A w \in Tickets \ {u} : tickets'[w] = tickets[w]
    BY <1>3, <2>0, <2>1, MoveIsRecorded
  <2>3. Exists(u)  BY <2>2, NoTicketIsNotARow DEF Exists
  <2>4. CASE u = t
    <3>1. c.seen.type = tickets[t].type
      BY <1>0, <2>0, <2>1, <2>2, <2>4 DEF SeenTypesAreRecorded
    <3>2. tickets'[t].type = tickets[t].type  BY <2>3, <2>4, RetypesAreRecorded
    <3>3. QED  BY <2>2, <2>4, <3>1, <3>2
  <2>5. QED  BY <1>1, <2>2, <2>4
<1>4. ASSUME NEW s \in Sessions, EditWrite(s)
      PROVE  tickets'[t].status \in AllStatuses(tickets'[t].type)
  <2>0. PICK c : c = call[s]  OBVIOUS
  <2>1. PICK u : u = Item(c)  OBVIOUS
  <2>2. /\ u \in Tickets /\ tickets[u] \in Row /\ tickets'[u].status = tickets[u].status
        /\ \A w \in Tickets \ {u} : tickets'[w] = tickets[w]
    BY <1>4, <2>0, <2>1, EditIsRecorded
  <2>3. Exists(u)  BY <2>2, NoTicketIsNotARow DEF Exists
  <2>4. CASE u = t
    <3>1. tickets'[t].type = tickets[t].type  BY <2>3, <2>4, RetypesAreRecorded
    <3>2. tickets[t].status \in AllStatuses(tickets[t].type)
      BY <1>0, <2>3, <2>4 DEF OnlyRetypedTicketsAreStranded, Retyped
    <3>3. QED  BY <2>2, <2>4, <3>1, <3>2
  <2>5. QED  BY <1>1, <2>2, <2>4
<1>5. QED  BY <1>1, <1>2, <1>3, <1>4, WhoRecords

\* No create and no move, however stale the row it was decided on, takes a
\* ticket out of its state machine: a ticket without a way out has an edit of
\* its type in the history.
THEOREM StrandedByRetypeOnly == Spec => []OnlyRetypedTicketsAreStranded
<1>1. Init => SeenTypesAreRecorded /\ OnlyRetypedTicketsAreStranded
  BY DEF Init, SeenTypesAreRecorded, OnlyRetypedTicketsAreStranded, Exists, Idle
<1>2. TypeOK /\ PendingWrites /\ SeenTypesAreRecorded /\ [Next]_vars => SeenTypesAreRecorded'
  BY SeenTypesStep
<1>3. TypeOK /\ PendingWrites /\ SeenTypesAreRecorded /\ OnlyRetypedTicketsAreStranded /\ [Next]_vars
      => OnlyRetypedTicketsAreStranded'
  BY StrandedStep
<1>4. QED  BY <1>1, <1>2, <1>3, TypeCorrect, PTL DEF Spec

----------------------------------------------------------------------------
(* One call at a time: the rows *)

\* The rows of the history are from the past, and a write that is pending is
\* later than all of them.
RowsAreOlder ==
  /\ \A t \in Tickets : \A i \in DOMAIN history[t] : history[t][i].at =< clock
  /\ \A s \in Sessions : call[s].pc = "write" =>
       /\ call[s].now =< clock
       /\ \A t \in Tickets : \A i \in DOMAIN history[t] : history[t][i].at < call[s].now

LEMMA ClockGoesOn ==
  ASSUME TypeOK, [Next]_vars
  PROVE  clock' = clock \/ clock' = clock + 1
<1>1. ASSUME NEW s \in Sessions, Request(s)
      PROVE  clock' = clock \/ clock' = clock + 1
  BY <1>1 DEF Request, Create, Move, ReadForMove, Close, BatchMove, BatchClose, Retype, Annotate, EditRead
<1>2. ASSUME NEW s \in Sessions, Continue(s) \/ StatementFails(s) \/ Crash(s)
      PROVE  clock' = clock \/ clock' = clock + 1
  BY <1>2 DEF Continue, WalkRead, ReadForMove, WalkRefused, MoveWrite, BatchLook, EditWrite,
              StatementFails, Crash
<1>3. QED  BY <1>1, <1>2 DEF vars, Next

LEMMA OlderStep ==
  ASSUME SoleSession, TypeOK, PendingWrites, RowsAreOlder, [Next]_vars
  PROVE  RowsAreOlder'
<1>0. /\ clock \in Nat /\ (clock' = clock \/ clock' = clock + 1)
      /\ \A t \in Tickets : history[t] \in Seq(HistoryRow)
  BY ClockGoesOn DEF TypeOK
<1>1. ASSUME NEW t \in Tickets, NEW i \in DOMAIN history[t]
      PROVE  history[t][i].at \in Nat
  <2>1. history[t][i] \in HistoryRow  BY <1>0, ElementOfSeq, LenProperties
  <2>2. QED  BY <2>1 DEF HistoryRow
<1>2. ASSUME history' = history
      PROVE  RowsAreOlder'
  <2>1. ASSUME NEW s \in Sessions, call'[s].pc = "write"
        PROVE  /\ call'[s].now =< clock'
               /\ \A t \in Tickets : \A i \in DOMAIN history[t] : history[t][i].at < call'[s].now
    <3>1. CASE call'[s] = call[s]
      <4>1. call[s].now \in Nat  BY DEF TypeOK, Call
      <4>2. QED  BY <1>0, <2>1, <3>1, <4>1 DEF RowsAreOlder
    <3>2. CASE HasJustRead(s)
      BY <1>0, <1>1, <3>2 DEF HasJustRead, RowsAreOlder
    <3>3. QED  BY <2>1, <3>1, <3>2, WhoIsAboutToWrite
  <2>2. \A t \in Tickets : \A i \in DOMAIN history[t] : history[t][i].at =< clock'
    BY <1>0, <1>1 DEF RowsAreOlder
  <2>3. QED  BY <1>2, <2>1, <2>2 DEF RowsAreOlder
<1>3. ASSUME NEW s \in Sessions, MoveWrite(s) \/ EditWrite(s)
      PROVE  RowsAreOlder'
  <2>0. PICK c : c = call[s]  OBVIOUS
  <2>1. PICK t : t = Item(c)  OBVIOUS
  <2>2. clock' = clock /\ \A r \in Sessions : call'[r].pc # "write"
    BY <1>3, WriteEnds DEF SoleSession
  <2>3. /\ t \in Tickets /\ c.pc = "write"
        /\ \A u \in Tickets \ {t} : history'[u] = history[u]
        /\ \/ RecordsMove(history'[t], history[t], c)
           \/ RecordsEdit(history'[t], history[t], c)
    <3>1. CASE MoveWrite(s)  BY <2>0, <2>1, <3>1, MoveIsRecorded
    <3>2. CASE EditWrite(s)  BY <2>0, <2>1, <3>2, EditIsRecorded
    <3>3. QED  BY <1>3, <3>1, <3>2
  <2>4. c.now =< clock  BY <2>0, <2>3 DEF RowsAreOlder
  <2>5. ASSUME NEW i \in DOMAIN history'[t]
        PROVE  history'[t][i].at =< clock
    <3>1. \/ i \in DOMAIN history[t] /\ history'[t][i] = history[t][i]
          \/ history'[t][i].at = c.now
      <4>1. CASE RecordsMove(history'[t], history[t], c)
        <5>1. CASE c.target = Parked
          <6>1. i \in 1..Len(history[t]) \/ i = Len(history[t]) + 1 \/ i = Len(history[t]) + 2
            BY <4>1, <5>1 DEF RecordsMove
          <6>2. QED  BY <4>1, <5>1, <6>1 DEF RecordsMove
        <5>2. CASE c.target # Parked  BY <4>1, <5>2 DEF RecordsMove
        <5>3. QED  BY <5>1, <5>2
      <4>2. CASE RecordsEdit(history'[t], history[t], c)  BY <4>2 DEF RecordsEdit
      <4>3. QED  BY <2>3, <4>1, <4>2
    <3>2. QED  BY <2>3, <2>4, <3>1 DEF RowsAreOlder
  <2>6. QED  BY <2>2, <2>3, <2>5 DEF RowsAreOlder
<1>4. QED  BY <1>2, <1>3, WhoRecords DEF Create

\* What a move adds to the status rows.
LEMMA StatusRowsGrow ==
  ASSUME NEW t \in Tickets, NEW c, RecordsMove(history'[t], history[t], c), NEW n, n = Len(history[t]) + 1
  PROVE  /\ StatusRows(t)' = StatusRows(t) \cup {n}
         /\ \A i \in StatusRows(t) : i < n /\ history'[t][i] = history[t][i]
         /\ history'[t][n].old = c.seen.status /\ history'[t][n].at = c.now
<1>1. CASE c.target = Parked
  <2>1. /\ DOMAIN history'[t] = DOMAIN history[t] \cup {n, n + 1}
        /\ history'[t][n].field = "status" /\ history'[t][n + 1].field # "status"
        /\ \A i \in DOMAIN history[t] : i < n /\ history'[t][i] = history[t][i]
        /\ history'[t][n].old = c.seen.status /\ history'[t][n].at = c.now
    BY <1>1 DEF RecordsMove
  <2>2. QED  BY <2>1 DEF StatusRows
<1>2. CASE c.target # Parked
  <2>1. /\ DOMAIN history'[t] = DOMAIN history[t] \cup {n}
        /\ history'[t][n].field = "status"
        /\ \A i \in DOMAIN history[t] : i < n /\ history'[t][i] = history[t][i]
        /\ history'[t][n].old = c.seen.status /\ history'[t][n].at = c.now
    BY <1>2 DEF RecordsMove
  <2>2. QED  BY <2>1 DEF StatusRows
<1>3. QED  BY <1>1, <1>2

\* Everything one call at a time makes true of the trail.
SerialTrail == AuditIsAChain /\ NewestRowIsCurrent

LEMMA SerialMove ==
  ASSUME TypeOK, PendingWrites, AuditEndsAtStatus, SnapshotIsCurrent, RowsAreOlder, SerialTrail,
         NEW s \in Sessions, MoveWrite(s)
  PROVE  SerialTrail'
<1>0. PICK c : c = call[s]  OBVIOUS
<1>1. PICK t : t = Item(c)  OBVIOUS
<1>2. /\ t \in Tickets /\ c.pc = "write" /\ tickets[t] \in Row /\ c.seen \in Row
      /\ tickets'[t] = MovedRow(tickets[t], c) /\ tickets'[t].status = c.target
      /\ \A u \in Tickets \ {t} : tickets'[u] = tickets[u] /\ history'[u] = history[u]
      /\ RecordsMove(history'[t], history[t], c)
  BY <1>0, <1>1, MoveIsRecorded
<1>3. PICK n : n = Len(history[t]) + 1  OBVIOUS
<1>4. /\ StatusRows(t)' = StatusRows(t) \cup {n}
      /\ \A i \in StatusRows(t) : i < n /\ history'[t][i] = history[t][i]
      /\ history'[t][n].old = c.seen.status /\ history'[t][n].at = c.now
  BY <1>2, <1>3, StatusRowsGrow
<1>5. c.seen = tickets[t]  BY <1>0, <1>1, <1>2 DEF SnapshotIsCurrent
<1>6. n \in Nat /\ \A i \in StatusRows(t) : i \in Nat
  BY <1>2, <1>3 DEF RecordsMove, StatusRows
<1>7. AuditIsAChain'
  <2>1. ASSUME NEW i \in StatusRows(t)', NEW j \in StatusRows(t)', i < j,
               \A k \in StatusRows(t)' : k =< i \/ j =< k
        PROVE  history'[t][j].old = history'[t][i].new
    <3>1. i \in StatusRows(t)  BY <1>4, <1>6, <2>1
    <3>2. CASE j \in StatusRows(t)
      BY <1>2, <1>4, <2>1, <3>1, <3>2 DEF SerialTrail, AuditIsAChain
    <3>3. CASE j = n
      <4>1. IsLastStatusRow(t, i)
        BY <1>4, <1>6, <2>1, <3>1, <3>3 DEF IsLastStatusRow
      <4>2. Exists(t)  BY <1>2, NoTicketIsNotARow DEF Exists
      <4>3. PICK l \in StatusRows(t) : IsLastStatusRow(t, l) /\ history[t][l].new = tickets[t].status
        BY <1>2, <3>1, <4>2 DEF AuditEndsAtStatus
      <4>4. l = i  BY <1>6, <3>1, <4>1, <4>3 DEF IsLastStatusRow
      <4>5. QED  BY <1>4, <1>5, <3>1, <3>3, <4>3, <4>4
    <3>4. QED  BY <1>4, <3>2, <3>3
  <2>2. ASSUME NEW u \in Tickets, u # t, NEW i \in StatusRows(u)', NEW j \in StatusRows(u)', i < j,
               \A k \in StatusRows(u)' : k =< i \/ j =< k
        PROVE  history'[u][j].old = history'[u][i].new
    <3>1. StatusRows(u)' = StatusRows(u)  BY <1>2, <2>2 DEF StatusRows
    <3>2. QED  BY <1>2, <2>2, <3>1 DEF SerialTrail, AuditIsAChain
  <2>3. QED  BY <2>1, <2>2 DEF AuditIsAChain
<1>8. NewestRowIsCurrent'
  <2>1. ASSUME NEW i \in StatusRows(t)', NEW j \in StatusRows(t)', i < j
        PROVE  history'[t][i].at < history'[t][j].at
    <3>1. i \in StatusRows(t)  BY <1>4, <1>6, <2>1
    <3>2. CASE j \in StatusRows(t)
      BY <1>2, <1>4, <2>1, <3>1, <3>2 DEF SerialTrail, NewestRowIsCurrent
    <3>3. CASE j = n
      BY <1>0, <1>2, <1>4, <3>1, <3>3 DEF RowsAreOlder, StatusRows
    <3>4. QED  BY <1>4, <3>2, <3>3
  <2>2. ASSUME NEW u \in Tickets, u # t, NEW i \in StatusRows(u)', NEW j \in StatusRows(u)', i < j
        PROVE  history'[u][i].at < history'[u][j].at
    <3>1. StatusRows(u)' = StatusRows(u)  BY <1>2, <2>2 DEF StatusRows
    <3>2. QED  BY <1>2, <2>2, <3>1 DEF SerialTrail, NewestRowIsCurrent
  <2>3. QED  BY <2>1, <2>2 DEF NewestRowIsCurrent
<1>9. QED  BY <1>7, <1>8 DEF SerialTrail

LEMMA SerialEdit ==
  ASSUME TypeOK, PendingWrites, SerialTrail, NEW s \in Sessions, EditWrite(s)
  PROVE  SerialTrail'
<1>0. PICK c : c = call[s]  OBVIOUS
<1>1. PICK t : t = Item(c)  OBVIOUS
<1>2. /\ t \in Tickets /\ c.op \in EditOps /\ tickets[t] \in Row
      /\ tickets'[t] = EditedRow(tickets[t], c) /\ tickets'[t].status = tickets[t].status
      /\ \A u \in Tickets \ {t} : tickets'[u] = tickets[u] /\ history'[u] = history[u]
      /\ RecordsEdit(history'[t], history[t], c)
  BY <1>0, <1>1, EditIsRecorded
<1>3. ASSUME NEW u \in Tickets
      PROVE  StatusRows(u)' = StatusRows(u) /\ \A i \in StatusRows(u) : history'[u][i] = history[u][i]
  BY <1>2, EditKeepsStatusRows DEF StatusRows
<1>4. QED  BY <1>3 DEF SerialTrail, AuditIsAChain, NewestRowIsCurrent

LEMMA SerialStep ==
  ASSUME TypeOK, PendingWrites, AuditEndsAtStatus, SnapshotIsCurrent, RowsAreOlder, SerialTrail,
         [Next]_vars
  PROVE  SerialTrail'
<1>1. CASE tickets' = tickets /\ history' = history
  BY <1>1 DEF SerialTrail, AuditIsAChain, NewestRowIsCurrent, StatusRows
<1>2. ASSUME NEW s \in Sessions, NEW t \in Tickets, NEW type \in NewTypes, NEW meta \in Sent \cup {NoMetadata},
             Create(s, t, type, meta)
      PROVE  SerialTrail'
  <2>1. history' = history  BY <1>2, CreateIsNotRecorded
  <2>2. QED  BY <2>1 DEF SerialTrail, AuditIsAChain, NewestRowIsCurrent, StatusRows
<1>3. QED  BY <1>1, <1>2, SerialMove, SerialEdit, WhoRecords

\* Where one call runs at a time, the status rows form one chain in the order of
\* their times, walks that fail half way and batches included.
THEOREM SerialTrailCorrect ==
  ASSUME SoleSession
  PROVE  Spec => [](AuditIsAChain /\ NewestRowIsCurrent)
<1>1. Init => SnapshotIsCurrent /\ RowsAreOlder /\ SerialTrail
  BY DEF Init, SnapshotIsCurrent, RowsAreOlder, Idle, SerialTrail, AuditIsAChain,
         NewestRowIsCurrent, StatusRows
<1>2. TypeOK /\ SnapshotIsCurrent /\ [Next]_vars => SnapshotIsCurrent'
  BY SnapshotStep
<1>3. TypeOK /\ PendingWrites /\ RowsAreOlder /\ [Next]_vars => RowsAreOlder'
  BY OlderStep
<1>4. /\ TypeOK /\ PendingWrites /\ AuditEndsAtStatus /\ SnapshotIsCurrent /\ RowsAreOlder
      /\ SerialTrail /\ [Next]_vars
      => SerialTrail'
  BY SerialStep
<1>5. SerialTrail => AuditIsAChain /\ NewestRowIsCurrent
  BY DEF SerialTrail
<1>6. QED  BY <1>1, <1>2, <1>3, <1>4, <1>5, TypeCorrect, AuditCorrect, PTL DEF Spec

\* One by one: each status row names as its old value the new value of the one
\* before it,
THEOREM SerialAuditIsAChain ==
  ASSUME SoleSession
  PROVE  Spec => []AuditIsAChain
<1>1. QED  BY SerialTrailCorrect, PTL

\* and a reader who orders the history by time finds the current status newest.
THEOREM SerialNewestIsCurrent ==
  ASSUME SoleSession
  PROVE  Spec => []NewestRowIsCurrent
<1>1. QED  BY SerialTrailCorrect, PTL

----------------------------------------------------------------------------
(* One call at a time: a close closes *)

CloseOps == {"close", "batch_close"}

\* The tickets a close with this resolution does not answer itself.
Takes(row, goal) ==
  row # NoTicket /\ goal \in TerminalStatuses[row.type] \cup {NoResolution}

Done(row, goal) ==
  Takes(row, goal) /\ row.status \in AllStatuses(row.type)
    => row.status \in TerminalStatuses[row.type]

\* What is left of the walk leads from where the ticket is to a terminal of its
\* type, and through no status that a step without a reason cannot be given.
Closing(row, goal, walk) ==
  /\ Takes(row, goal)
  /\ row.status \notin TerminalStatuses[row.type]
  /\ walk \in Seq(StatusNames) /\ walk # NoPath
  /\ Legal(row.type, row.status, walk)
  /\ walk[Len(walk)] \in TerminalStatuses[row.type]
  /\ \A i \in 1..Len(walk) - 1 : walk[i] \notin HiddenStatuses(row.type)

\* A close in its course: the items before the current one are done, and the
\* current one has its walk.
ClosesOn(c, walk, rows) ==
  c.op \in CloseOps =>
    /\ c.pc # "idle"
    /\ c.op = "close" => Len(c.ids) = 1 /\ c.pc # "look"
    /\ \A k \in 1..c.item - 1 : Done(rows[c.ids[k]], c.goal)
    /\ c.pc \in {"step", "write"} => Closing(rows[Item(c)], c.goal, walk)
    /\ c.pc = "write" => c.target = Head(walk)

ClosesGoOn == failures = 0 => \A s \in Sessions : ClosesOn(call[s], path[s], tickets)

\* A walk of the search is one that closes, and it finds one for every ticket
\* that can be closed.
LEMMA PlannedWalkCloses ==
  ASSUME TypeOK, NEW t \in Tickets, NEW goal
  PROVE  IF PlannedWalk(t, goal) = NoPath THEN Done(tickets[t], goal)
         ELSE Closing(tickets[t], goal, PlannedWalk(t, goal))
<1> DEFINE row == tickets[t]
           walk == PlannedWalk(t, goal)
<1>1. CASE Takes(row, goal) /\ row.status \notin TerminalStatuses[row.type]
  <2>1. row \in Row
    BY <1>1 DEF TypeOK, Takes
  <2>2. walk = FindClosePath(row.type, row.status, goal)
    BY <1>1 DEF PlannedWalk, Takes, Exists
  <2>3. /\ row.type \in TypeNames /\ row.status \in StatusNames \ TerminalStatuses[row.type]
        /\ goal \in TerminalStatuses[row.type] \cup {NoResolution}
    BY <1>1, <2>1 DEF Row, Takes
  <2> HIDE DEF row, walk
  <2>4. CASE row.status \in AllStatuses(row.type)
    <3> DEFINE wanted == IF goal = NoResolution THEN PositiveTerminal[row.type] ELSE goal
    <3>1. /\ wanted \in TerminalStatuses[row.type]
          /\ Shortest(row.type, row.status, {wanted}, walk)
          /\ \A i \in 1..Len(walk) - 1 : walk[i] \notin HiddenStatuses(row.type)
      BY <2>2, <2>3, <2>4, CloseWalk
    <3> HIDE DEF wanted
    <3>2. Closing(row, goal, walk) /\ walk # NoPath
      BY <1>1, <3>1 DEF Closing, Shortest
    <3>3. QED  BY <3>2 DEF row, walk
  <2>5. CASE row.status \notin AllStatuses(row.type)
    <3>1. walk = NoPath
      BY <2>2, <2>3, <2>5, CloseWalk
    <3>2. QED  BY <2>5, <3>1 DEF Done, row, walk
  <2>6. QED  BY <2>4, <2>5
<1>2. CASE ~ (Takes(row, goal) /\ row.status \notin TerminalStatuses[row.type])
  <2>1. walk = NoPath
    BY <1>2 DEF PlannedWalk, Takes, Exists
  <2>2. QED  BY <1>2, <2>1 DEF Done
<1>3. QED  BY <1>1, <1>2

\* A step of the walk is never refused, and leaves the rest of it to walk.
LEMMA WalkGoesOn ==
  ASSUME NEW row \in Row, NEW goal, NEW walk, Closing(row, goal, walk),
         NEW moved \in Row, moved.type = row.type, moved.status = Head(walk)
  PROVE  /\ ValidTransition(row.type, row.status, Head(walk))
         /\ Head(walk) # Parked
         /\ Tail(walk) = NoPath => moved.status \in TerminalStatuses[moved.type]
         /\ Tail(walk) # NoPath => Closing(moved, goal, Tail(walk))
<1> DEFINE l == Len(walk)
           rest == Tail(walk)
<1>1. walk \in Seq(StatusNames) /\ walk # <<>> /\ row.type \in TypeNames
  BY DEF Closing, NoPath, Row
<1>2. /\ l \in Nat \ {0} /\ Head(walk) = walk[1] /\ 1 \in 1..l
      /\ rest \in Seq(StatusNames) /\ Len(rest) = l - 1
      /\ \A i \in 1..l - 1 : rest[i] = walk[i + 1]
  BY <1>1
<1>3. rest = NoPath <=> l = 1
  <2> HIDE DEF l, rest
  <2>1. rest = <<>> <=> Len(rest) = 0
    BY <1>2
  <2>2. QED  BY <1>2, <2>1 DEF NoPath
<1>4. Parked \notin TerminalStatuses[row.type]
  BY <1>1 DEF TypeNames, TerminalStatuses, Parked
<1> HIDE DEF l, rest
<1>5. ValidTransition(row.type, row.status, walk[1])
  BY <1>2 DEF Closing, Legal, l
<1>6. CASE l = 1
  <2>1. walk[1] \in TerminalStatuses[row.type]
    BY <1>6 DEF Closing, l
  <2>2. QED  BY <1>2, <1>3, <1>4, <1>5, <1>6, <2>1 DEF rest
<1>7. CASE l # 1
  <2>1. walk[1] \notin HiddenStatuses(row.type)
    BY <1>2, <1>7 DEF Closing, l
  <2>2. moved.status \notin TerminalStatuses[moved.type] /\ Head(walk) # Parked
    BY <1>2, <2>1 DEF HiddenStatuses
  <2>3. Takes(moved, goal)
    BY NoTicketIsNotARow DEF Closing, Takes
  <2>4. Legal(moved.type, moved.status, rest)
    <3>1. ASSUME NEW i \in 1..Len(rest)
          PROVE  ValidTransition(moved.type, IF i = 1 THEN moved.status ELSE rest[i - 1], rest[i])
      <4>1. /\ i + 1 \in 1..l /\ i + 1 # 1 /\ i + 1 - 1 = i /\ rest[i] = walk[i + 1]
            /\ i # 1 => rest[i - 1] = walk[i]
        <5>1. i \in 1..l - 1 /\ (i # 1 => i - 1 \in 1..l - 1 /\ i - 1 + 1 = i)
          BY <1>2
        <5>2. QED  BY <1>2, <5>1
      <4>2. ValidTransition(row.type, IF i + 1 = 1 THEN row.status ELSE walk[i + 1 - 1], walk[i + 1])
        BY <4>1 DEF Closing, Legal, l
      <4>3. ValidTransition(row.type, walk[i], walk[i + 1])
        BY <4>1, <4>2
      <4>4. (IF i = 1 THEN moved.status ELSE rest[i - 1]) = walk[i]
        BY <1>2, <4>1
      <4>5. QED  BY <4>1, <4>3, <4>4
    <3>2. QED  BY <3>1 DEF Legal
  <2>5. rest[Len(rest)] \in TerminalStatuses[moved.type]
    <3>1. Len(rest) \in 1..l - 1 /\ Len(rest) + 1 = l
      BY <1>2, <1>7
    <3>2. rest[Len(rest)] = walk[l]
      BY <1>2, <3>1
    <3>3. QED  BY <3>2 DEF Closing, l
  <2>6. ASSUME NEW i \in 1..Len(rest) - 1 PROVE rest[i] \notin HiddenStatuses(moved.type)
    <3>1. i \in 1..l - 1 /\ i + 1 \in 1..l - 1
      BY <1>2
    <3>2. rest[i] = walk[i + 1]
      BY <1>2, <3>1
    <3>3. QED  BY <3>1, <3>2 DEF Closing, l
  <2>7. rest # NoPath => Closing(moved, goal, rest)
    BY <1>2, <2>2, <2>3, <2>4, <2>5, <2>6 DEF Closing
  <2>8. QED  BY <1>2, <1>3, <1>5, <1>7, <2>2, <2>7 DEF rest
<1>8. QED  BY <1>6, <1>7

\* The current item is done with, and so the call is, or it goes on.
LEMMA ItemIsDone ==
  ASSUME NEW c \in Call, c.item \in DOMAIN c.ids, NEW rows, NEW walk,
         c.op = "close" => Len(c.ids) = 1,
         c.op \in CloseOps =>
           \A k \in 1..c.item : Done(rows[c.ids[k]], c.goal)
  PROVE  /\ ClosesOn(NextItem(c), walk, rows)
         /\ c.op \in CloseOps /\ NextItem(c).pc = "idle" =>
              \A k \in DOMAIN c.ids : Done(rows[c.ids[k]], c.goal)
<1>1. c.ids \in Seq(Tickets) /\ c.item \in Nat /\ Len(c.ids) \in Nat /\ DOMAIN c.ids = 1..Len(c.ids)
  BY DEF Call
<1>2. CASE c.item < Len(c.ids)
  <2> DEFINE n == NextItem(c)
  <2>1. /\ n.pc = "look" /\ n.op = c.op /\ n.ids = c.ids /\ n.goal = c.goal
        /\ n.item = c.item + 1
    BY <1>2 DEF NextItem, Between, Call
  <2> HIDE DEF n
  <2>2. 1..n.item - 1 = 1..c.item
    BY <1>1, <2>1
  <2>3. c.op # "close"
    <3>1. 1 =< c.item
      BY <1>1
    <3>2. Len(c.ids) # 1
      <4>1. \A m, l \in Nat : 1 =< m /\ m < l => l # 1
        OBVIOUS
      <4>2. QED  BY <1>1, <1>2, <3>1, <4>1
    <3>3. QED  BY <3>2
  <2>4. c.op \in CloseOps => \A k \in 1..n.item - 1 : Done(rows[n.ids[k]], n.goal)
    BY <2>1, <2>2
  <2>5. ClosesOn(n, walk, rows) /\ n.pc # "idle"
    BY <2>1, <2>3, <2>4 DEF ClosesOn
  <2>6. QED  BY <2>5 DEF n
<1>3. CASE ~ (c.item < Len(c.ids))
  <2>1. NextItem(c) = Idle
    BY <1>3 DEF NextItem
  <2>2. DOMAIN c.ids = 1..c.item
    BY <1>1, <1>3
  <2>3. QED  BY <2>1, <2>2 DEF ClosesOn, Idle, CloseOps
<1>4. QED  BY <1>2, <1>3

\* What a step of s does for the tickets of its close.
ClosedBy(s) ==
  /\ ClosesOn(call'[s], path'[s], tickets')
  /\ call[s].op \in CloseOps /\ call'[s].pc = "idle" =>
       \A k \in DOMAIN call[s].ids :
         LET row == tickets[call[s].ids[k]]
         IN  Takes(row, call[s].goal) /\ row.status \in AllStatuses(row.type)
               => tickets'[call[s].ids[k]].status \in AllTerminalStatuses

LEMMA CloseRequested ==
  ASSUME TypeOK, NEW s \in Sessions, ClosesOn(call[s], path[s], tickets), Request(s)
  PROVE  ClosedBy(s)
<1>0. call[s].pc = "idle"
  BY DEF Request, Create, Move, Close, BatchMove, BatchClose, Retype, Annotate, EditRead, Begin, MayBegin
<1>1. call[s].op \notin CloseOps
  BY <1>0 DEF ClosesOn
<1>2. SUFFICES ClosesOn(call'[s], path'[s], tickets')
  BY <1>1 DEF ClosedBy
<1>3. ASSUME NEW t \in Tickets, NEW type \in NewTypes, NEW meta \in Sent \cup {NoMetadata},
             Create(s, t, type, meta)
      PROVE  ClosesOn(call'[s], path'[s], tickets')
  BY <1>1, <1>3 DEF Create, ClosesOn
<1>4. ASSUME NEW t \in Tickets, NEW target \in StatusNames, NEW reason \in BOOLEAN,
             Move(s, t, target, reason)
      PROVE  ClosesOn(call'[s], path'[s], tickets')
  <2>1. call'[s].op = "move"
    BY <1>4 DEF Move, ReadForMove, Start, Idle, TypeOK
  <2>2. QED  BY <2>1 DEF ClosesOn, CloseOps
<1>5. ASSUME NEW t \in Tickets, NEW op \in EditOps, NEW value, NEW stamp,
             EditRead(s, t, op, value, stamp)
      PROVE  ClosesOn(call'[s], path'[s], tickets')
  <2>1. call'[s].op = op
    BY <1>5 DEF EditRead, StartEdit, Start, Idle, TypeOK
  <2>2. QED  BY <2>1 DEF ClosesOn, CloseOps, EditOps
<1>6. ASSUME NEW t \in Tickets, NEW resolution \in AllTerminalStatuses \cup {NoResolution},
             Close(s, t, resolution)
      PROVE  ClosesOn(call'[s], path'[s], tickets')
  <2> DEFINE c == call'[s]
             walk == PlannedWalk(t, resolution)
  <2>1. /\ c.op = "close" /\ c.pc = "step" /\ c.ids = <<t>> /\ c.item = 1 /\ c.goal = resolution
        /\ path'[s] = walk /\ walk # NoPath /\ tickets' = tickets
    BY <1>6 DEF Close, Start, Idle, TypeOK
  <2>2. Closing(tickets[t], resolution, walk)
    BY <2>1, PlannedWalkCloses
  <2> HIDE DEF c, walk
  <2>3. Item(c) = t
    BY <2>1 DEF Item
  <2>4. 1..c.item - 1 = {}
    BY <2>1
  <2>5. Len(c.ids) = 1
    BY <2>1
  <2>6. QED  BY <2>1, <2>2, <2>3, <2>4, <2>5 DEF ClosesOn, c
<1>7. ASSUME NEW ids \in BatchIds, NEW target \in StatusNames, BatchMove(s, ids, target)
      PROVE  ClosesOn(call'[s], path'[s], tickets')
  <2>1. call'[s].op = "batch_move"
    BY <1>7 DEF BatchMove, Start, Idle, TypeOK
  <2>2. QED  BY <2>1 DEF ClosesOn, CloseOps
<1>8. ASSUME NEW ids \in BatchIds, NEW resolution \in AllTerminalStatuses \cup {NoResolution},
             NEW door \in {"mcp", "rest"}, BatchClose(s, ids, resolution, door)
      PROVE  ClosesOn(call'[s], path'[s], tickets')
  <2>1. call'[s].pc = "look" /\ call'[s].item = 1 /\ call'[s].op = "batch_close"
    BY <1>8 DEF BatchClose, Start, Idle, TypeOK
  <2>2. 1..call'[s].item - 1 = {}
    BY <2>1
  <2>3. QED  BY <2>1, <2>2 DEF ClosesOn
<1>9. "retype" \in EditOps /\ "annotate" \in EditOps
  BY DEF EditOps
<1>10. QED  BY SMTT(30), <1>3, <1>4, <1>5, <1>6, <1>7, <1>8, <1>9 DEF Request, Retype, Annotate

LEMMA TerminalOfType ==
  ASSUME NEW row \in Row, row.status \in TerminalStatuses[row.type]
  PROVE  row.status \in AllTerminalStatuses
BY DEF Row, AllTerminalStatuses

LEMMA CloseContinued ==
  ASSUME TypeOK, PendingWrites, SnapshotIsCurrent, NEW s \in Sessions,
         ClosesOn(call[s], path[s], tickets), Continue(s)
  PROVE  ClosedBy(s)
<1> DEFINE c == call[s]
           walk == path[s]
           t == Item(c)
<1>0. /\ c.pc # "idle" /\ WellFormed(c) /\ c \in Call /\ c.item \in DOMAIN c.ids
      /\ t \in Tickets
  <2>1. c.pc # "idle"
    BY DEF Continue, WalkRead, WalkRefused, MoveWrite, BatchLook, EditWrite
  <2>2. WellFormed(c)
    BY RunningCalls
  <2>3. QED  BY <2>1, <2>2, ItemIsATicket DEF WellFormed
<1>1. /\ c.ids \in Seq(Tickets) /\ c.item \in Nat /\ DOMAIN c.ids = 1..Len(c.ids)
      /\ Len(c.ids) \in Nat /\ c.ids[c.item] = t
      /\ \A k \in DOMAIN c.ids : c.ids[k] \in Tickets
  BY <1>0 DEF Call, Item
<1>2. ASSUME c.op \in CloseOps
      PROVE  /\ c.op = "close" => Len(c.ids) = 1 /\ c.pc # "look"
             /\ \A k \in 1..c.item - 1 : Done(tickets[c.ids[k]], c.goal)
             /\ c.pc \in {"step", "write"} => Closing(tickets[t], c.goal, walk)
             /\ c.pc = "write" => c.target = Head(walk)
  BY <1>2 DEF ClosesOn
<1>3. ASSUME c.op \notin CloseOps, call'[s].op \in {c.op, "none"}
      PROVE  ClosedBy(s)
  BY <1>3 DEF ClosedBy, ClosesOn, CloseOps
<1> HIDE DEF c, t, walk
<1>4. CASE WalkRead(s)
  <2>1. /\ call'[s].op = c.op /\ call'[s].ids = c.ids /\ call'[s].item = c.item
        /\ call'[s].goal = c.goal /\ call'[s].pc = "write" /\ call'[s].target = Head(walk)
        /\ tickets' = tickets /\ path' = path /\ c.pc = "step"
    BY <1>0, <1>4 DEF WalkRead, ReadForMove, TypeOK, Call, c, walk
  <2>2. Item(call'[s]) = t
    BY <2>1 DEF Item, t
  <2>3. QED  BY <1>2, <1>3, <2>1, <2>2 DEF ClosedBy, ClosesOn, c, walk
<1>5. CASE WalkRefused(s)
  <2>1. /\ c.pc = "step" /\ call'[s] = NextItem(c)
        /\ \/ ~ ValidTransition(tickets[t].type, tickets[t].status, Head(walk))
           \/ ~ ValidParkArgs(Head(walk), StepReason(c))
    BY <1>5 DEF WalkRefused, TypeOK, c, walk, t
  <2>2. CASE c.op \in CloseOps
    <3>1. Closing(tickets[t], c.goal, walk)
      BY <1>2, <2>1, <2>2
    <3>2. tickets[t] \in Row
      BY <1>0, <3>1 DEF Closing, Takes, TypeOK
    <3>3. PICK row : row = [tickets[t] EXCEPT !.status = Head(walk)]
      OBVIOUS
    <3>4. Head(walk) \in StatusNames
      BY <3>1 DEF Closing, NoPath
    <3>5. row \in Row /\ row.type = tickets[t].type /\ row.status = Head(walk)
      BY <3>2, <3>3, <3>4 DEF Row
    <3>6. ValidTransition(tickets[t].type, tickets[t].status, Head(walk)) /\ Head(walk) # Parked
      BY <3>1, <3>2, <3>5, WalkGoesOn
    <3>7. ~ StepReason(c)
      BY <2>2 DEF StepReason, CloseOps
    <3>8. QED  BY <2>1, <3>6, <3>7 DEF ValidParkArgs
  <2>3. CASE c.op \notin CloseOps
    <3>1. call'[s].op \in {c.op, "none"}
      BY <1>0, <2>1 DEF NextItem, Between, Idle, Call
    <3>2. QED  BY <1>3, <2>3, <3>1
  <2>4. QED  BY <2>2, <2>3
<1>6. CASE BatchLook(s)
  <2> DEFINE found == ItemWalk(c)
  <2>1. /\ c.pc = "look" /\ call'[s] = NextStep(c, found) /\ path'[s] = found /\ tickets' = tickets
    BY <1>6 DEF BatchLook, TypeOK, c
  <2> HIDE DEF found
  <2>2. CASE c.op \notin CloseOps
    <3>1. call'[s].op \in {c.op, "none"}
      BY <1>0, <2>1 DEF NextStep, NextItem, Between, Idle, Call
    <3>2. QED  BY <1>3, <2>2, <3>1
  <2>3. CASE c.op \in CloseOps
    <3>1. found = PlannedWalk(t, c.goal)
      <4>1. c.op = "batch_close"
        BY <1>2, <2>1, <2>3 DEF CloseOps
      <4>2. QED  BY <4>1 DEF ItemWalk, found, t
    <3>2. CASE found # NoPath
      <4>1. Closing(tickets[t], c.goal, found)
        BY <1>0, <3>1, <3>2, PlannedWalkCloses
      <4>2. /\ call'[s].pc = "step" /\ call'[s].op = c.op /\ call'[s].ids = c.ids
            /\ call'[s].item = c.item /\ call'[s].goal = c.goal
        BY <1>0, <2>1, <3>2 DEF NextStep, Between, Call
      <4>3. Item(call'[s]) = t
        BY <4>2 DEF Item, t
      <4>4. QED  BY <1>2, <2>1, <2>3, <4>1, <4>2, <4>3 DEF ClosedBy, ClosesOn
    <3>3. CASE found = NoPath
      <4>1. Done(tickets[t], c.goal)
        BY <1>0, <3>1, <3>3, PlannedWalkCloses
      <4>2. \A k \in 1..c.item : Done(tickets[c.ids[k]], c.goal)
        <5>1. ASSUME NEW k \in 1..c.item PROVE k \in 1..c.item - 1 \/ k = c.item
          BY <1>1
        <5>2. QED  BY <1>1, <1>2, <2>3, <4>1, <5>1
      <4>3. call'[s] = NextItem(c)
        BY <2>1, <3>3 DEF NextStep
      <4>4. /\ ClosesOn(NextItem(c), path'[s], tickets)
            /\ NextItem(c).pc = "idle" => \A k \in DOMAIN c.ids : Done(tickets[c.ids[k]], c.goal)
        BY <1>0, <1>2, <2>3, <4>2, ItemIsDone
      <4>5. ASSUME NextItem(c).pc = "idle", NEW k \in DOMAIN c.ids,
                   Takes(tickets[c.ids[k]], c.goal),
                   tickets[c.ids[k]].status \in AllStatuses(tickets[c.ids[k]].type)
            PROVE  tickets[c.ids[k]].status \in AllTerminalStatuses
        <5>1. tickets[c.ids[k]] \in Row
          BY <1>1, <4>5 DEF Takes, TypeOK
        <5>2. QED  BY <4>4, <4>5, <5>1, TerminalOfType DEF Done
      <4>6. QED  BY <2>1, <4>3, <4>4, <4>5 DEF ClosedBy, c
    <3>4. QED  BY <3>2, <3>3
  <2>4. QED  BY <2>2, <2>3
<1>7. CASE MoveWrite(s)
  <2> DEFINE rest == Tail(walk)
  <2>1. /\ c.pc = "write" /\ call'[s] = NextStep(c, rest) /\ path'[s] = rest
    BY <1>7 DEF MoveWrite, TypeOK, c, walk
  <2>2. /\ tickets[t] \in Row /\ tickets'[t] \in Row /\ tickets'[t].status = c.target
        /\ tickets'[t] = MovedRow(tickets[t], c) /\ c.seen \in Row
        /\ c.target \in AllStatuses(c.seen.type)
        /\ \A u \in Tickets \ {t} : tickets'[u] = tickets[u]
    BY <1>7, MoveIsRecorded DEF c, t
  <2>3. tickets'[t].type = tickets[t].type
    <3>1. c.target \in StatusNames
      BY <2>2, StatusesAreNames DEF Row
    <3>2. QED  BY <1>0, <2>2, <3>1, MovedRowIsARow
  <2> HIDE DEF rest
  <2>4. CASE c.op \notin CloseOps
    <3>1. call'[s].op \in {c.op, "none"}
      BY <1>0, <2>1 DEF NextStep, NextItem, Between, Idle, Call
    <3>2. QED  BY <1>3, <2>4, <3>1
  <2>5. CASE c.op \in CloseOps
    <3>1. Closing(tickets[t], c.goal, walk) /\ c.target = Head(walk)
      BY <1>2, <2>1, <2>5
    <3>2. /\ rest = NoPath => tickets'[t].status \in TerminalStatuses[tickets'[t].type]
          /\ rest # NoPath => Closing(tickets'[t], c.goal, rest)
          /\ ValidTransition(tickets[t].type, tickets[t].status, Head(walk))
      BY <2>2, <2>3, <3>1, WalkGoesOn DEF rest
    \* An item before this one is another ticket: it is done, this one is open.
    <3>3. ASSUME NEW k \in 1..c.item - 1 PROVE c.ids[k] # t
      <4>1. Done(tickets[c.ids[k]], c.goal)
        BY <1>2, <2>5
      <4>2. ~ Done(tickets[t], c.goal)
        BY <3>1, <3>2 DEF Done, Closing, ValidTransition
      <4>3. QED  BY <4>1, <4>2
    <3>4. \A k \in 1..c.item - 1 : Done(tickets'[c.ids[k]], c.goal)
      <4>1. ASSUME NEW k \in 1..c.item - 1 PROVE Done(tickets'[c.ids[k]], c.goal)
        <5>1. k \in DOMAIN c.ids
          BY <1>0, <1>1
        <5>2. tickets'[c.ids[k]] = tickets[c.ids[k]]
          BY <1>1, <2>2, <3>3, <5>1
        <5>3. QED  BY <1>2, <2>5, <5>2
      <4>2. QED  BY <4>1
    <3>5. CASE rest # NoPath
      <4>1. /\ call'[s].pc = "step" /\ call'[s].op = c.op /\ call'[s].ids = c.ids
            /\ call'[s].item = c.item /\ call'[s].goal = c.goal
        BY <1>0, <2>1, <3>5 DEF NextStep, Between, Call
      <4>2. Item(call'[s]) = t
        BY <4>1 DEF Item, t
      <4>3. QED  BY <1>2, <2>1, <2>5, <3>2, <3>4, <3>5, <4>1, <4>2 DEF ClosedBy, ClosesOn
    <3>6. CASE rest = NoPath
      <4>1. Done(tickets'[t], c.goal)
        BY <3>2, <3>6 DEF Done
      <4>2. \A k \in 1..c.item : Done(tickets'[c.ids[k]], c.goal)
        <5>1. ASSUME NEW k \in 1..c.item PROVE k \in 1..c.item - 1 \/ k = c.item
          BY <1>1
        <5>2. QED  BY <1>1, <3>4, <4>1, <5>1
      <4>3. call'[s] = NextItem(c)
        BY <2>1, <3>6 DEF NextStep
      <4>4. /\ ClosesOn(NextItem(c), path'[s], tickets')
            /\ NextItem(c).pc = "idle" => \A k \in DOMAIN c.ids : Done(tickets'[c.ids[k]], c.goal)
        BY <1>0, <1>2, <2>5, <4>2, ItemIsDone
      <4>5. ASSUME NextItem(c).pc = "idle", NEW k \in DOMAIN c.ids,
                   Takes(tickets[c.ids[k]], c.goal),
                   tickets[c.ids[k]].status \in AllStatuses(tickets[c.ids[k]].type)
            PROVE  tickets'[c.ids[k]].status \in AllTerminalStatuses
        <5>1. CASE c.ids[k] = t
          BY <2>2, <3>2, <3>6, <5>1, TerminalOfType
        <5>2. CASE c.ids[k] # t
          <6>1. tickets'[c.ids[k]] = tickets[c.ids[k]] /\ tickets[c.ids[k]] \in Row
            BY <1>1, <2>2, <4>5, <5>2 DEF Takes, TypeOK
          <6>2. QED  BY <4>4, <4>5, <6>1, TerminalOfType DEF Done
        <5>3. QED  BY <5>1, <5>2
      <4>6. QED  BY <4>3, <4>4, <4>5 DEF ClosedBy, c
    <3>7. QED  BY <3>5, <3>6
  <2>6. QED  BY <2>4, <2>5
<1>8. CASE EditWrite(s)
  <2>1. c.op \notin CloseOps /\ call'[s].op = "none"
    BY <1>8 DEF EditWrite, EditOps, CloseOps, Idle, TypeOK, c
  <2>2. QED  BY <1>3, <2>1
<1>9. QED  BY <1>4, <1>5, <1>6, <1>7, <1>8 DEF Continue

LEMMA CloseStep ==
  ASSUME SoleSession, TypeOK, PendingWrites, SnapshotIsCurrent, ClosesGoOn, Next,
         failures' = 0, NEW s \in Sessions
  PROVE  ClosedBy(s)
<1>1. PICK r \in Sessions : Request(r) \/ Continue(r) \/ StatementFails(r) \/ Crash(r)
  BY DEF Next
<1>2. r = s
  BY DEF SoleSession
<1>3. ~ StatementFails(s) /\ ~ Crash(s)
  BY DEF StatementFails, Crash, Fail, TypeOK
<1>4. Request(s) \/ Continue(s)
  BY SMTT(30), <1>1, <1>2, <1>3
<1>5. failures = 0
  BY <1>4 DEF Request, Create, Move, Close, BatchMove, BatchClose, Retype, Annotate, EditRead,
              Continue, WalkRead, WalkRefused, MoveWrite, BatchLook, EditWrite
<1>6. ClosesOn(call[s], path[s], tickets)
  BY <1>5 DEF ClosesGoOn
<1>7. QED  BY <1>4, <1>6, CloseRequested, CloseContinued

\* Where one call runs at a time and nothing fails, a close or a batch_close
\* that has answered has closed all its tickets, whatever batches, duplicates
\* and earlier edits there are (close_ticket, batch_close).
THEOREM SerialClosesClose ==
  ASSUME SoleSession
  PROVE  Spec => CloseCloses
<1> DEFINE Step == \A s \in Sessions :
             /\ call[s].op \in {"close", "batch_close"}
             /\ call'[s].pc = "idle"
             /\ failures' = 0
             => \A t \in Range(call[s].ids) :
                  /\ Exists(t)
                  /\ call[s].goal \in TerminalStatuses[tickets[t].type] \cup {NoResolution}
                  /\ tickets[t].status \in AllStatuses(tickets[t].type)
                  => tickets'[t].closed
<1>1. Init => SnapshotIsCurrent /\ ClosesGoOn
  BY DEF Init, SnapshotIsCurrent, Idle, ClosesGoOn, ClosesOn, CloseOps
<1>2. TypeOK /\ SnapshotIsCurrent /\ [Next]_vars => SnapshotIsCurrent'
  BY SnapshotStep
<1>3. TypeOK /\ PendingWrites /\ SnapshotIsCurrent /\ ClosesGoOn /\ [Next]_vars => ClosesGoOn'
  <2>1. CASE UNCHANGED vars
    BY <2>1 DEF vars, ClosesGoOn, ClosesOn, Item
  <2>2. CASE Next
    BY <2>2, CloseStep DEF ClosesGoOn, ClosedBy
  <2>3. QED  BY <2>1, <2>2
<1>4. TypeOK /\ PendingWrites /\ SnapshotIsCurrent /\ ClosesGoOn /\ TypeOK'
      /\ ClosedIffTerminal' /\ [Next]_vars => [Step]_vars
  <2>1. SUFFICES ASSUME TypeOK, PendingWrites, SnapshotIsCurrent, ClosesGoOn, TypeOK',
                        ClosedIffTerminal', Next, NEW s \in Sessions,
                        call[s].op \in {"close", "batch_close"}, call'[s].pc = "idle",
                        failures' = 0, NEW t \in Range(call[s].ids), Exists(t),
                        call[s].goal \in TerminalStatuses[tickets[t].type] \cup {NoResolution},
                        tickets[t].status \in AllStatuses(tickets[t].type)
                 PROVE  tickets'[t].closed
    OBVIOUS
  <2>2. PICK k \in DOMAIN call[s].ids : t = call[s].ids[k]
    BY DEF Range
  <2>3. t \in Tickets
    <3>1. call[s].ids \in Seq(Tickets)
      BY <2>1 DEF TypeOK, Call
    <3>2. QED  BY <2>2, <3>1
  <2>4. ClosedBy(s)
    BY SMTT(30), <2>1, CloseStep
  <2>5. tickets'[t].status \in AllTerminalStatuses
    BY <2>1, <2>2, <2>4 DEF ClosedBy, CloseOps, Takes, Exists
  <2>6. QED  BY <2>1, <2>3, <2>5 DEF ClosedIffTerminal
<1>5. QED  BY <1>1, <1>2, <1>3, <1>4, TypeCorrect, ClosedCorrect, PTL DEF Spec, CloseCloses

=============================================================================
