------------------------ MODULE TicketArchiveProofs ------------------------
(***************************************************************************)
(* Proofs about TicketArchive: for any number of tickets, calls and        *)
(* sweeps, what is hidden is finished, and the trail and the batches'      *)
(* reports tell what happened.                                             *)
(***************************************************************************)
EXTENDS TicketArchive, SequenceTheorems, TLAPS

(* The invariant *)

Types ==
  /\ rows \in [Tickets -> Row]
  /\ history \in [Tickets -> Seq(Entry)]
  /\ lock \in [Tickets -> Sessions \cup {Free}]
  /\ call \in [Sessions -> Call]
  /\ report \in [Sessions -> Report]
  /\ clock \in Nat /\ calls \in Nat /\ failures \in Nat

\* What a call needs to know of itself.
Started(s) ==
  /\ call[s].now =< clock
  /\ call[s].pc # "idle" => call[s].id \in 1..calls
  /\ call[s].pc # "idle" /\ call[s].op = "move" => call[s].item \in Tickets
  /\ call[s].pc # "scanning" => call[s].held = {}
  /\ call[s].pc = "locked" => call[s].item \in Tickets /\ call[s].op \in {"archive", "unarchive"}

\* A call in pc locked has exactly the lock of its item, and a sweep has the
\* lock of every row that it is about to archive, which is stale until then.
HoldsItsLocks(s) ==
  /\ \A t \in Tickets : lock[t] = s => call[s].pc \in {"locked", "scanning"}
  /\ call[s].pc = "locked" => \A t \in Tickets : lock[t] = s <=> t = call[s].item
  /\ \A t \in call[s].held : lock[t] = s /\ Stale(rows[t], call[s].now)

LocksAndCalls ==
  /\ clock >= 1
  /\ \A s \in Sessions : Started(s) /\ HoldsItsLocks(s)

ArchiveInv == Types /\ LocksAndCalls /\ ArchiveTrailAlternates

----------------------------------------------------------------------------

LEMMA IdleType == Idle \in Call
BY DEF Idle, Call, PCs, Stages

LEMMA InitHolds == ASSUME Init PROVE ArchiveInv
<1>1. Types
  BY IdleType DEF Init, Types, Row, Stages, Report
<1>2. LocksAndCalls
  BY ArchiveFreeAssumption DEF Init, LocksAndCalls, Started, HoldsItsLocks, Idle
<1>3. ArchiveTrailAlternates
  BY DEF Init, ArchiveTrailAlternates
<1> QED BY <1>1, <1>2, <1>3 DEF ArchiveInv

\* A step of one session.
Step(s) == Request(s) \/ Continue(s) \/ Fail(s)

\* A call begins, with nothing done.
Requests(s) ==
  /\ UNCHANGED <<rows, history, lock, report, clock, failures>>
  /\ calls' = calls + 1
  /\ call[s].pc = "idle"
  /\ \A d \in Sessions \ {s} : call'[d] = call[d]
  /\ call'[s] \in Call
  /\ call'[s].pc = "ready" /\ call'[s].id = calls + 1 /\ call'[s].now = clock
  /\ call'[s].held = {} /\ call'[s].done = {}
  /\ call'[s].op \in {"archive", "unarchive"} => call'[s].todo = call'[s].ids
  /\ call'[s].op = "move" => call'[s].item \in Tickets

LEMMA RequestedCall ==
  ASSUME Types, NEW s \in Sessions, Request(s)
  PROVE  Requests(s)
<1> DEFINE next == calls + 1
<1>0. next \in Nat
  BY DEF Types
<1>1. ASSUME NEW request \in Call, Begin(s, request), request.held = {}, request.done = {},
             request.op \in {"archive", "unarchive"} => request.todo = request.ids,
             request.op = "move" => request.item \in Tickets
      PROVE  Requests(s)
  <2>1. call' = [call EXCEPT ![s] = [request EXCEPT !.pc = "ready", !.id = next, !.now = clock]]
    BY <1>1 DEF Begin
  <2>2. calls' = next /\ call[s].pc = "idle" /\ UNCHANGED <<rows, history, lock, report, clock, failures>>
    BY <1>1 DEF Begin
  <2> DEFINE given == [request EXCEPT !.pc = "ready", !.id = next, !.now = clock]
  <2>3. /\ given \in Call /\ given.pc = "ready" /\ given.id = next /\ given.now = clock
        /\ given.held = {} /\ given.done = {}
        /\ given.op = request.op /\ given.item = request.item
        /\ given.todo = request.todo /\ given.ids = request.ids
    <3> HIDE DEF next
    <3> QED BY <1>0, <1>1 DEF Types, Call, PCs
  <2>4. call'[s] = given /\ \A d \in Sessions \ {s} : call'[d] = call[d]
    BY <2>1 DEF Types
  <2> HIDE DEF given
  <2> QED BY <1>1, <2>2, <2>3, <2>4 DEF Requests
<1> HIDE DEF next
<1>2. ASSUME NEW ids \in SUBSET Tickets, Begin(s, [Idle EXCEPT !.op = "archive", !.ids = ids, !.todo = ids])
      PROVE  \E request \in Call : /\ Begin(s, request) /\ request.held = {} /\ request.done = {}
                                   /\ request.todo = request.ids /\ request.op # "move"
  <2> DEFINE request == [Idle EXCEPT !.op = "archive", !.ids = ids, !.todo = ids]
  <2>1. request \in Call /\ request.held = {} /\ request.done = {} /\ request.todo = request.ids
        /\ request.op # "move"
    BY DEF Idle, Call, PCs, Ops, Stages
  <2> HIDE DEF request
  <2>2. Begin(s, request)
    BY <1>2 DEF request
  <2> QED BY <2>1, <2>2
<1>3. ASSUME NEW t \in Tickets, Begin(s, [Idle EXCEPT !.op = "unarchive", !.ids = {t}, !.todo = {t}])
      PROVE  \E request \in Call : /\ Begin(s, request) /\ request.held = {} /\ request.done = {}
                                   /\ request.todo = request.ids /\ request.op # "move"
  <2> DEFINE request == [Idle EXCEPT !.op = "unarchive", !.ids = {t}, !.todo = {t}]
  <2>1. request \in Call /\ request.held = {} /\ request.done = {} /\ request.todo = request.ids
        /\ request.op # "move"
    BY DEF Idle, Call, PCs, Ops, Stages
  <2> HIDE DEF request
  <2>2. Begin(s, request)
    BY <1>3 DEF request
  <2> QED BY <2>1, <2>2
<1>4. ASSUME Begin(s, [Idle EXCEPT !.op = "sweep"])
      PROVE  \E request \in Call : /\ Begin(s, request) /\ request.held = {} /\ request.done = {}
                                   /\ request.op = "sweep"
  <2> DEFINE request == [Idle EXCEPT !.op = "sweep"]
  <2>1. request \in Call /\ request.held = {} /\ request.done = {} /\ request.op = "sweep"
    BY DEF Idle, Call, PCs, Ops, Stages
  <2> HIDE DEF request
  <2>2. Begin(s, request)
    BY <1>4 DEF request
  <2> QED BY <2>1, <2>2
<1>5. ASSUME NEW t \in Tickets, NEW stage \in Stages,
             Begin(s, [Idle EXCEPT !.op = "move", !.item = t, !.stage = stage])
      PROVE  \E request \in Call : /\ Begin(s, request) /\ request.held = {} /\ request.done = {}
                                   /\ request.op = "move" /\ request.item \in Tickets
  <2> DEFINE request == [Idle EXCEPT !.op = "move", !.item = t, !.stage = stage]
  <2>1. request \in Call /\ request.held = {} /\ request.done = {} /\ request.op = "move"
        /\ request.item \in Tickets
    BY DEF Idle, Call, PCs, Ops, Stages
  <2> HIDE DEF request
  <2>2. Begin(s, request)
    BY <1>5 DEF request
  <2> QED BY <2>1, <2>2
<1>6. \E request \in Call : /\ Begin(s, request) /\ request.held = {} /\ request.done = {}
                            /\ request.op \in {"archive", "unarchive"} => request.todo = request.ids
                            /\ request.op = "move" => request.item \in Tickets
  BY <1>2, <1>3, <1>4, <1>5 DEF Request
<1> QED BY <1>1, <1>6

LEMMA UnlockedTypes ==
  ASSUME Types, NEW s \in Sessions
  PROVE  Unlocked(s) \in [Tickets -> Sessions \cup {Free}]
BY DEF Unlocked, Types

\* What changes in one row and its history: nothing that archival is about, or
\* archived_at together with a history row that tells of it.
Leaves(t) == rows'[t].archived = rows[t].archived /\ history'[t] = history[t]

Archives(t, value, by) ==
  /\ (rows[t].archived = 0) # (value = 0)
  /\ rows'[t] = Stored(rows[t], value)
  /\ history'[t] = Append(history[t], Recorded(rows[t], value, by))

LEMMA FinishedItem ==
  ASSUME ArchiveInv, NEW s \in Sessions, FinishItem(s)
  PROVE  LET c == call[s]
             ok == Allowed(c.op, rows[c.item])
         IN  /\ c.item \in Tickets /\ c.id \in 1..calls
             /\ \A t \in Tickets \ {c.item} : rows'[t] = rows[t] /\ history'[t] = history[t]
             /\ ~ok => rows' = rows /\ history' = history
             /\ ok => Archives(c.item, IF c.op = "unarchive" THEN 0 ELSE clock, c.id)
<1> DEFINE c == call[s]
           t == c.item
           value == IF c.op = "unarchive" THEN 0 ELSE clock
           ok == Allowed(c.op, rows[t])
<1>1. c.pc = "locked" /\ t \in Tickets /\ c.op \in {"archive", "unarchive"} /\ c.id \in 1..calls
  BY DEF FinishItem, ArchiveInv, LocksAndCalls, Started
<1>2. /\ rows' = IF ok THEN [rows EXCEPT ![t] = Stored(@, value)] ELSE rows
      /\ history' = IF ok THEN [history EXCEPT ![t] = Append(@, Recorded(rows[t], value, c.id))]
                    ELSE history
  BY DEF FinishItem
<1>3. rows \in [Tickets -> Row] /\ history \in [Tickets -> Seq(Entry)] /\ clock >= 1
  BY DEF ArchiveInv, Types, LocksAndCalls
<1>4. ok => (rows[t].archived = 0) # (value = 0)
  BY <1>1, <1>3 DEF Allowed
<1> HIDE DEF t, value, ok
<1> QED BY <1>1, <1>2, <1>3, <1>4 DEF Archives, t, value, ok

LEMMA SweptRows ==
  ASSUME ArchiveInv, NEW s \in Sessions, SweepCommit(s)
  PROVE  LET c == call[s]
         IN  /\ \A t \in Tickets \ c.held : rows'[t] = rows[t] /\ history'[t] = history[t]
             /\ \A t \in c.held : /\ t \in Tickets /\ Stale(rows[t], c.now)
                                  /\ Archives(t, c.now, AutoArchive)
             /\ c.now =< clock
<1> DEFINE c == call[s]
<1>1. c.held \subseteq Tickets /\ c.now \in Nat /\ c.now =< clock
  BY DEF ArchiveInv, Types, Call, LocksAndCalls, Started
<1>2. ASSUME NEW t \in c.held PROVE Stale(rows[t], c.now) /\ (rows[t].archived = 0) # (c.now = 0)
  <2>1. Stale(rows[t], c.now)
    BY DEF ArchiveInv, LocksAndCalls, HoldsItsLocks
  <2>2. rows[t].closed \in Nat /\ TTL \in Nat
    BY <1>1, ArchiveBoundsAssumption DEF ArchiveInv, Types, Row
  <2> QED BY <1>1, <2>1, <2>2 DEF Stale
<1>3. \A t \in Tickets : /\ rows'[t] = IF t \in c.held THEN Stored(rows[t], c.now) ELSE rows[t]
                         /\ history'[t] = IF t \in c.held
                              THEN Append(history[t], Recorded(rows[t], c.now, AutoArchive))
                              ELSE history[t]
  BY DEF SweepCommit
<1> QED BY <1>1, <1>2, <1>3 DEF Archives

LEMMA ArchivesTypes ==
  ASSUME Types, NEW t \in Tickets, NEW value \in Nat, NEW by \in Nat
  PROVE  Stored(rows[t], value) \in Row /\ Recorded(rows[t], value, by) \in Entry
BY DEF Types, Row, Stored, Recorded, Entry

LEMMA TypesStep == ASSUME ArchiveInv, NEW s \in Sessions, Step(s) PROVE Types'
<1> USE DEF ArchiveInv
<1>1. CASE Request(s)
  <2>1. Requests(s)
    BY <1>1, RequestedCall
  <2>2. call' \in [Sessions -> Call]
    BY <1>1, <2>1 DEF Requests, Request, Begin, Types
  <2> QED BY <2>1, <2>2 DEF Requests, Types
<1>2. CASE LockItem(s)
  <2>1. PICK t \in Tickets : /\ lock' = [lock EXCEPT ![t] = s]
                             /\ call' = [call EXCEPT ![s].pc = "locked", ![s].item = t]
    BY <1>2 DEF LockItem, First, Types, Call
  <2>2. [call[s] EXCEPT !.pc = "locked", !.item = t] \in Call
    BY ZenonT(60) DEF Types, Call, PCs
  <2> QED BY <1>2, <2>1, <2>2 DEF LockItem, Types
<1>3. CASE FinishItem(s)
  <2> DEFINE c == call[s]
             value == IF c.op = "unarchive" THEN 0 ELSE clock
             ok == Allowed(c.op, rows[c.item])
  <2>1. value \in Nat /\ c.id \in Nat /\ c.item \in Tickets
    BY <1>3, FinishedItem DEF Types
  <2>2. Stored(rows[c.item], value) \in Row /\ Recorded(rows[c.item], value, c.id) \in Entry
    BY <2>1, ArchivesTypes
  <2>3. rows' \in [Tickets -> Row] /\ history' \in [Tickets -> Seq(Entry)]
    <3>1. /\ rows' = IF ok THEN [rows EXCEPT ![c.item] = Stored(@, value)] ELSE rows
          /\ history' = IF ok THEN [history EXCEPT ![c.item] = Append(@, Recorded(rows[c.item], value, c.id))]
                        ELSE history
      BY <1>3 DEF FinishItem
    <3> HIDE DEF c, value, ok
    <3> QED BY <2>1, <2>2, <3>1 DEF Types
  <2>4. lock' \in [Tickets -> Sessions \cup {Free}]
    BY <1>3 DEF FinishItem, Types
  <2>5. \A done, todo \in SUBSET Tickets :
          [call[s] EXCEPT !.pc = "ready", !.todo = todo, !.done = done] \in Call
    BY ZenonT(60) DEF Types, Call, PCs
  <2>6. Booked(c, ok) \in SUBSET Tickets /\ c.todo \ {c.item} \in SUBSET Tickets
        /\ c.ids \in SUBSET Tickets
    BY <2>1 DEF Booked, Types, Call
  <2>7. call' \in [Sessions -> Call] /\ report' \in [Sessions -> Report]
    <3>1. \/ /\ call' = [call EXCEPT ![s].pc = "ready", ![s].todo = c.todo \ {c.item},
                                    ![s].done = Booked(c, ok)]
             /\ UNCHANGED report
          \/ /\ call' = [call EXCEPT ![s] = Idle]
             /\ report' = [report EXCEPT ![s] = [id |-> c.id, ids |-> c.ids, done |-> Booked(c, ok)]]
      BY <1>3 DEF FinishItem
    <3> DEFINE done == Booked(c, ok)
               todo == c.todo \ {c.item}
    <3>2. [call[s] EXCEPT !.pc = "ready", !.todo = todo, !.done = done] \in Call
      BY <2>5, <2>6
    <3>3. [id |-> c.id, ids |-> c.ids, done |-> done] \in Report
      BY <2>1, <2>6 DEF Report
    <3>4. call' = [call EXCEPT ![s] = [call[s] EXCEPT !.pc = "ready", !.todo = todo, !.done = done]]
          \/ call' = [call EXCEPT ![s] = Idle]
      BY <3>1 DEF Types
    <3>5. call' \in [Sessions -> Call]
      <4> HIDE DEF todo, done
      <4> QED BY <3>2, <3>4, IdleType DEF Types
    <3>6. UNCHANGED report
          \/ report' = [report EXCEPT ![s] = [id |-> c.id, ids |-> c.ids, done |-> done]]
      BY <3>1
    <3> HIDE DEF ok, done, todo, c
    <3> QED BY <3>3, <3>5, <3>6 DEF Types
  <2> QED BY <1>3, <2>3, <2>4, <2>7 DEF FinishItem, Types
<1>4. CASE SweepStart(s)
  <2>1. \A todo \in SUBSET Tickets : [call[s] EXCEPT !.pc = "scanning", !.todo = todo] \in Call
    BY ZenonT(60) DEF Types, Call, PCs
  <2> QED BY <1>4, <2>1 DEF SweepStart, Types
<1>5. CASE SweepRow(s)
  <2>1. PICK t \in Tickets : lock' = [lock EXCEPT ![t] = s]
    BY <1>5 DEF SweepRow, First, Types, Call
  <2>2. \A todo, held \in SUBSET Tickets : [call[s] EXCEPT !.todo = todo, !.held = held] \in Call
    BY DEF Types, Call
  <2>3. call' \in [Sessions -> Call]
    <3>1. PICK u \in Tickets : call' = [call EXCEPT ![s].todo = @ \ {u},
            ![s].held = IF Rechecked(rows[u], call[s].now) THEN @ \cup {u} ELSE @]
      BY <1>5 DEF SweepRow, First, Types, Call
    <3> DEFINE todo == call[s].todo \ {u}
               held == IF Rechecked(rows[u], call[s].now) THEN call[s].held \cup {u}
                       ELSE call[s].held
    <3>2. todo \in SUBSET Tickets /\ held \in SUBSET Tickets
      BY DEF Types, Call
    <3>3. call' = [call EXCEPT ![s] = [call[s] EXCEPT !.todo = todo, !.held = held]]
      BY <3>1 DEF Types, Call
    <3> HIDE DEF todo, held
    <3> QED BY <2>2, <3>2, <3>3 DEF Types
  <2> QED BY <1>5, <2>1, <2>3 DEF SweepRow, Types
<1>6. CASE SweepCommit(s)
  <2>1. call[s].now \in Nat /\ call[s].held \subseteq Tickets /\ AutoArchive \in Nat
    BY DEF Types, Call, AutoArchive
  <2>2. \A t \in Tickets : /\ Stored(rows[t], call[s].now) \in Row
                           /\ Recorded(rows[t], call[s].now, AutoArchive) \in Entry
    BY <2>1, ArchivesTypes
  <2>3. rows' \in [Tickets -> Row] /\ history' \in [Tickets -> Seq(Entry)]
    BY <1>6, <2>2 DEF SweepCommit, Types
  <2> QED BY <1>6, <2>3, UnlockedTypes, IdleType DEF SweepCommit, Types
<1>7. CASE MoveRead(s)
  <2>1. [call[s] EXCEPT !.pc = "write", !.now = clock] \in Call
    BY ZenonT(60) DEF Types, Call, PCs
  <2> QED BY <1>7, <2>1, IdleType DEF MoveRead, Types
<1>8. CASE MoveWrite(s)
  <2> DEFINE closed == IF call[s].stage = "closed" THEN call[s].now ELSE 0
  <2>1. closed \in Nat /\ call[s].stage \in Stages
    BY DEF Types, Call
  <2>2. \A t \in Tickets : [rows[t] EXCEPT !.stage = call[s].stage, !.closed = closed] \in Row
    BY <2>1 DEF Types, Row
  <2>3. rows' = [rows EXCEPT ![call[s].item].stage = call[s].stage, ![call[s].item].closed = closed]
    BY <1>8 DEF MoveWrite
  <2> HIDE DEF closed
  <2>4. rows' \in [Tickets -> Row]
    BY <2>2, <2>3 DEF Types
  <2> QED BY <1>8, <2>4, IdleType DEF MoveWrite, Types
<1>9. CASE Fail(s)
  BY <1>9, UnlockedTypes, IdleType DEF Fail, Types
<1> QED BY <1>1, <1>2, <1>3, <1>4, <1>5, <1>6, <1>7, <1>8, <1>9 DEF Step, Continue

\* A step of one session leaves the locks of the others alone, and the rows
\* they have locked.
LEMMA OthersKeepTheirLocks ==
  ASSUME ArchiveInv, NEW s \in Sessions, Step(s), NEW d \in Sessions, d # s
  PROVE  /\ call'[d] = call[d]
         /\ \A t \in Tickets : /\ lock'[t] = d <=> lock[t] = d
                               /\ lock[t] = d => rows'[t] = rows[t]
<1> USE DEF ArchiveInv
<1>0. d # Free /\ s # Free
  BY ArchiveFreeAssumption
<1>1. CASE Request(s)
  BY <1>1, RequestedCall DEF Requests
<1>2. CASE LockItem(s)
  <2>1. PICK t \in Tickets : lock[t] = Free /\ lock' = [lock EXCEPT ![t] = s]
    BY <1>2 DEF LockItem, First, Types, Call
  <2> QED BY <1>0, <1>2, <2>1 DEF LockItem, Types
<1>3. CASE FinishItem(s)
  <2>1. call[s].item \in Tickets /\ lock[call[s].item] = s
    BY <1>3 DEF FinishItem, LocksAndCalls, Started, HoldsItsLocks
  <2>2. \A t \in Tickets \ {call[s].item} : rows'[t] = rows[t]
    BY <1>3, FinishedItem
  <2>3. lock' = [lock EXCEPT ![call[s].item] = Free] /\ call'[d] = call[d]
    BY <1>3 DEF FinishItem, Types
  <2> QED BY <1>0, <2>1, <2>2, <2>3 DEF Types
<1>4. CASE SweepStart(s)
  BY <1>4 DEF SweepStart, Types
<1>5. CASE SweepRow(s)
  <2>1. PICK t \in Tickets : lock[t] = Free /\ lock' = [lock EXCEPT ![t] = s]
    BY <1>5 DEF SweepRow, First, Types, Call
  <2>2. call'[d] = call[d]
    BY <1>5 DEF SweepRow, Types
  <2> QED BY <1>0, <1>5, <2>1, <2>2 DEF SweepRow, Types
<1>6. CASE SweepCommit(s)
  <2>1. \A t \in call[s].held : lock[t] = s
    BY DEF LocksAndCalls, HoldsItsLocks
  <2>2. \A t \in Tickets \ call[s].held : rows'[t] = rows[t]
    BY <1>6, SweptRows
  <2> QED BY <1>0, <1>6, <2>1, <2>2 DEF SweepCommit, Unlocked, Types
<1>7. CASE MoveRead(s)
  BY <1>7 DEF MoveRead, Types
<1>8. CASE MoveWrite(s)
  BY <1>0, <1>8 DEF MoveWrite, Types
<1>9. CASE Fail(s)
  BY SMTT(30), <1>0, <1>9 DEF Fail, Unlocked, Types
<1> QED BY <1>1, <1>2, <1>3, <1>4, <1>5, <1>6, <1>7, <1>8, <1>9 DEF Step, Continue

LEMMA ClockAndCalls ==
  ASSUME ArchiveInv, NEW s \in Sessions, Step(s)
  PROVE  clock' = clock /\ calls' \in {calls, calls + 1}
BY DEF Step, Continue, Request, Begin, LockItem, FinishItem, SweepStart, SweepRow, SweepCommit,
       MoveRead, MoveWrite, Fail

LEMMA OwnLocks ==
  ASSUME ArchiveInv, NEW s \in Sessions, Step(s)
  PROVE  Started(s)' /\ HoldsItsLocks(s)'
<1> USE DEF ArchiveInv
<1>0. /\ Started(s) /\ HoldsItsLocks(s) /\ s # Free /\ clock' = clock /\ clock \in Nat
      /\ calls \in Nat /\ calls' \in {calls, calls + 1} /\ call[s] \in Call
  BY ArchiveFreeAssumption, ClockAndCalls DEF LocksAndCalls, Types
<1>1. Idle.pc = "idle" /\ Idle.held = {} /\ Idle.now = 0
  BY DEF Idle
\* A call that ends keeps no lock.
<1>2. ASSUME call'[s] = Idle, \A t \in Tickets : lock'[t] # s
      PROVE  Started(s)' /\ HoldsItsLocks(s)'
  BY <1>0, <1>1, <1>2 DEF Started, HoldsItsLocks
<1>3. CASE Request(s)
  <2>1. Requests(s)
    BY <1>3, RequestedCall
  <2>2. \A t \in Tickets : lock'[t] # s
    BY <1>0, <2>1 DEF Requests, HoldsItsLocks
  <2>3. Started(s)'
    BY <1>0, <2>1 DEF Requests, Started
  <2>4. HoldsItsLocks(s)'
    BY <2>1, <2>2 DEF Requests, HoldsItsLocks
  <2> QED BY <2>3, <2>4
<1>4. CASE LockItem(s)
  <2>1. PICK t \in Tickets : /\ lock' = [lock EXCEPT ![t] = s]
                             /\ call' = [call EXCEPT ![s].pc = "locked", ![s].item = t]
    BY <1>4 DEF LockItem, First, Types, Call
  <2>2. /\ call'[s].pc = "locked" /\ call'[s].item = t /\ call'[s].op = call[s].op
        /\ call'[s].now = call[s].now /\ call'[s].id = call[s].id /\ call'[s].held = call[s].held
    BY <2>1 DEF Types, Call
  <2>3. call[s].pc = "ready" /\ call[s].op \in {"archive", "unarchive"} /\ calls' = calls
    BY <1>4 DEF LockItem
  <2>4. \A u \in Tickets : lock'[u] = s <=> u = t
    BY <1>0, <2>1, <2>3 DEF HoldsItsLocks, Types
  <2>5. Started(s)'
    BY <1>0, <2>2, <2>3 DEF Started
  <2>6. HoldsItsLocks(s)'
    BY <1>0, <2>2, <2>3, <2>4 DEF HoldsItsLocks, Started
  <2> QED BY <2>5, <2>6
<1>5. CASE FinishItem(s)
  <2>1. call[s].pc = "locked" /\ lock' = [lock EXCEPT ![call[s].item] = Free] /\ calls' = calls
    BY <1>5 DEF FinishItem
  <2>2. \A t \in Tickets : lock'[t] # s
    BY <1>0, <2>1 DEF HoldsItsLocks, Started, Types
  <2>3. CASE call' = [call EXCEPT ![s] = Idle]
    BY <1>2, <2>2, <2>3 DEF Types
  <2>4. CASE call' # [call EXCEPT ![s] = Idle]
    <3>1. PICK todo, done : call' = [call EXCEPT ![s].pc = "ready", ![s].todo = todo, ![s].done = done]
      BY <1>5, <2>4 DEF FinishItem
    <3>2. /\ call'[s].pc = "ready" /\ call'[s].item = call[s].item /\ call'[s].op = call[s].op
          /\ call'[s].now = call[s].now /\ call'[s].id = call[s].id /\ call'[s].held = call[s].held
      BY <3>1 DEF Types, Call
    <3>3. Started(s)'
      BY <1>0, <2>1, <3>2 DEF Started
    <3>4. HoldsItsLocks(s)'
      BY <1>0, <2>1, <2>2, <3>2 DEF HoldsItsLocks, Started
    <3> QED BY <3>3, <3>4
  <2> QED BY <2>3, <2>4
<1>6. CASE SweepStart(s)
  <2>1. PICK todo : call' = [call EXCEPT ![s].pc = "scanning", ![s].todo = todo]
    BY <1>6 DEF SweepStart
  <2>2. /\ call'[s].pc = "scanning" /\ call'[s].item = call[s].item /\ call'[s].op = call[s].op
        /\ call'[s].now = call[s].now /\ call'[s].id = call[s].id /\ call'[s].held = call[s].held
    BY <2>1 DEF Types, Call
  <2>3. call[s].pc = "ready" /\ call[s].op = "sweep" /\ UNCHANGED <<rows, lock, calls>>
    BY <1>6 DEF SweepStart
  <2>4. Started(s)'
    BY <1>0, <2>2, <2>3 DEF Started
  <2>5. HoldsItsLocks(s)'
    BY <1>0, <2>2, <2>3 DEF HoldsItsLocks, Started
  <2> QED BY <2>4, <2>5
<1>7. CASE SweepRow(s)
  <2>1. PICK u \in Tickets :
          /\ lock' = [lock EXCEPT ![u] = s]
          /\ call' = [call EXCEPT ![s].todo = @ \ {u},
               ![s].held = IF Rechecked(rows[u], call[s].now) THEN @ \cup {u} ELSE @]
    BY <1>7 DEF SweepRow, First, Types, Call
  <2>2. /\ call'[s].pc = call[s].pc /\ call'[s].item = call[s].item /\ call'[s].op = call[s].op
        /\ call'[s].now = call[s].now /\ call'[s].id = call[s].id
        /\ call'[s].held = IF Rechecked(rows[u], call[s].now) THEN call[s].held \cup {u}
                           ELSE call[s].held
    BY <2>1 DEF Types, Call
  <2>3. call[s].pc = "scanning" /\ UNCHANGED <<rows, calls>>
    BY <1>7 DEF SweepRow
  <2>4. Started(s)'
    BY <1>0, <2>2, <2>3 DEF Started
  <2>5. \A t \in Tickets : lock'[t] = s <=> t = u \/ lock[t] = s
    BY <2>1 DEF Types
  <2>6. call[s].held \subseteq Tickets
    BY <1>0 DEF Call
  <2>7. HoldsItsLocks(s)'
    BY <1>0, <2>2, <2>3, <2>5, <2>6 DEF HoldsItsLocks, Rechecked
  <2> QED BY <2>4, <2>7
<1>8. CASE SweepCommit(s)
  BY <1>0, <1>2, <1>8 DEF SweepCommit, Unlocked, Types
<1>9. CASE MoveRead(s)
  <2>1. call[s].pc = "ready" /\ call[s].op = "move" /\ UNCHANGED <<rows, lock, calls>>
    BY <1>9 DEF MoveRead
  <2>2. \A t \in Tickets : lock'[t] # s
    BY <1>0, <2>1 DEF HoldsItsLocks
  <2>3. CASE call' = [call EXCEPT ![s] = Idle]
    BY <1>2, <2>2, <2>3 DEF Types
  <2>4. CASE call' = [call EXCEPT ![s].pc = "write", ![s].now = clock]
    <3>1. /\ call'[s].pc = "write" /\ call'[s].item = call[s].item /\ call'[s].op = call[s].op
          /\ call'[s].now = clock /\ call'[s].id = call[s].id /\ call'[s].held = call[s].held
      BY <2>4 DEF Types, Call
    <3>2. Started(s)'
      BY <1>0, <2>1, <3>1 DEF Started
    <3>3. HoldsItsLocks(s)'
      BY <1>0, <2>1, <2>2, <3>1 DEF HoldsItsLocks, Started
    <3> QED BY <3>2, <3>3
  <2> QED BY <1>9, <2>3, <2>4 DEF MoveRead
<1>10. CASE MoveWrite(s)
  <2>1. \A t \in Tickets : lock'[t] # s
    BY <1>0, <1>10 DEF HoldsItsLocks, MoveWrite
  <2> QED BY <1>2, <1>10, <2>1 DEF MoveWrite, Types
<1>11. CASE Fail(s)
  BY <1>0, <1>2, <1>11 DEF Fail, Unlocked, Types
<1> QED BY <1>3, <1>4, <1>5, <1>6, <1>7, <1>8, <1>9, <1>10, <1>11 DEF Step, Continue

LEMMA LocksStep ==
  ASSUME ArchiveInv, NEW s \in Sessions, Step(s)
  PROVE  LocksAndCalls'
<1>1. ASSUME NEW d \in Sessions, d # s PROVE Started(d)' /\ HoldsItsLocks(d)'
  <2>1. /\ call'[d] = call[d]
        /\ \A t \in Tickets : /\ lock'[t] = d <=> lock[t] = d
                              /\ lock[t] = d => rows'[t] = rows[t]
    BY <1>1, OthersKeepTheirLocks
  <2>2. Started(d) /\ HoldsItsLocks(d) /\ call[d].held \subseteq Tickets
    BY DEF ArchiveInv, LocksAndCalls, Types, Call
  <2>3. clock' = clock /\ calls \in Nat /\ calls' \in {calls, calls + 1}
    BY ClockAndCalls DEF ArchiveInv, Types
  <2>4. Started(d)'
    BY <2>1, <2>2, <2>3 DEF Started
  <2>5. HoldsItsLocks(d)'
    BY <2>1, <2>2 DEF HoldsItsLocks
  <2> QED BY <2>4, <2>5
<1>2. clock' >= 1
  BY ClockAndCalls DEF ArchiveInv, LocksAndCalls
<1> QED BY <1>1, <1>2, OwnLocks DEF LocksAndCalls

----------------------------------------------------------------------------
(* The trail and what is hidden *)

LEMMA StepLeavesOrArchives ==
  ASSUME ArchiveInv, NEW s \in Sessions, Step(s), NEW t \in Tickets
  PROVE  Leaves(t) \/ \E value, by \in Nat : Archives(t, value, by)
<1> USE DEF ArchiveInv
<1>1. CASE UNCHANGED <<rows, history>>
  BY <1>1 DEF Leaves
<1>2. CASE FinishItem(s)
  <2>1. clock \in Nat /\ call[s].id \in Nat /\ 0 \in Nat
    BY DEF Types, Call
  <2> QED BY <1>2, <2>1, FinishedItem DEF Leaves
<1>3. CASE SweepCommit(s)
  <2>1. call[s].now \in Nat /\ AutoArchive \in Nat
    BY DEF Types, Call, AutoArchive
  <2> QED BY <1>3, <2>1, SweptRows DEF Leaves
<1>4. CASE MoveWrite(s)
  <2>1. rows'[t].archived = rows[t].archived
    BY <1>4 DEF MoveWrite, Types, Row
  <2> QED BY <1>4, <2>1 DEF MoveWrite, Leaves
<1> QED BY <1>1, <1>2, <1>3, <1>4, RequestedCall
        DEF Step, Continue, Requests, LockItem, SweepStart, SweepRow, MoveRead, Fail

\* The part of ArchiveTrailAlternates about one ticket.
Alternates(t) ==
  /\ \A i \in DOMAIN history[t] : (history[t][i].old = 0) # (history[t][i].new = 0)
  /\ \A i \in 2..Len(history[t]) : history[t][i].old = history[t][i - 1].new
  /\ rows[t].archived = IF history[t] = <<>> THEN 0 ELSE Last(history[t]).new

LEMMA TrailStep ==
  ASSUME ArchiveInv, NEW t \in Tickets, Leaves(t) \/ \E value, by \in Nat : Archives(t, value, by)
  PROVE  Alternates(t)'
<1>0. Alternates(t) /\ history[t] \in Seq(Entry) /\ rows[t] \in Row
  BY DEF ArchiveInv, ArchiveTrailAlternates, Alternates, Types
<1>1. CASE Leaves(t)
  BY <1>0, <1>1 DEF Alternates, Leaves
<1>2. ASSUME NEW value \in Nat, NEW by \in Nat, Archives(t, value, by) PROVE Alternates(t)'
  <2> DEFINE h == history[t]
             e == Recorded(rows[t], value, by)
  <2>1. e \in Entry /\ e.old = rows[t].archived /\ e.new = value
    BY <1>0 DEF Recorded, Entry, Row
  <2>2. history'[t] = Append(h, e) /\ rows'[t].archived = value
        /\ (rows[t].archived = 0) # (value = 0)
    BY <1>0, <1>2 DEF Archives, Stored, Row
  <2>3. h # <<>> => rows[t].archived = h[Len(h)].new
    BY <1>0 DEF Alternates, Last
  <2>4. h = <<>> => rows[t].archived = 0
    BY <1>0 DEF Alternates
  <2> HIDE DEF e
  <2>5. /\ Len(Append(h, e)) = Len(h) + 1 /\ Append(h, e)[Len(h) + 1] = e
        /\ \A i \in 1..Len(h) : Append(h, e)[i] = h[i]
        /\ DOMAIN Append(h, e) = 1..(Len(h) + 1) /\ DOMAIN h = 1..Len(h)
        /\ Len(h) \in Nat /\ Append(h, e) # <<>>
    BY <1>0, <2>1
  <2>6. \A i \in 1..(Len(h) + 1) : i \in 1..Len(h) \/ i = Len(h) + 1
    BY <2>5
  <2>7. \A i \in DOMAIN Append(h, e) :
          (Append(h, e)[i].old = 0) # (Append(h, e)[i].new = 0)
    BY <1>0, <2>1, <2>2, <2>5, <2>6 DEF Alternates
  <2>8. ASSUME NEW i \in 2..Len(Append(h, e))
        PROVE  Append(h, e)[i].old = Append(h, e)[i - 1].new
    <3>1. CASE i =< Len(h)
      <4>1. i \in 2..Len(h) /\ i \in 1..Len(h) /\ i - 1 \in 1..Len(h)
        BY <2>5, <3>1
      <4> QED BY <1>0, <2>5, <4>1 DEF Alternates
    <3>2. CASE i = Len(h) + 1
      <4>1. i - 1 = Len(h) /\ Len(h) \in 1..Len(h) /\ h # <<>>
        BY <2>5, <3>2
      <4> QED BY <2>1, <2>3, <2>5, <3>2, <4>1
    <3> QED BY <2>5, <3>1, <3>2
  <2>9. Last(Append(h, e)).new = value
    BY <2>1, <2>5 DEF Last
  <2> HIDE DEF h
  <2> QED BY <2>2, <2>5, <2>7, <2>8, <2>9 DEF Alternates
<1> QED BY <1>1, <1>2

\* The part of OnlyFinishedWorkIsHidden about one ticket.
HiddenIsFinished(t) ==
  rows[t].archived = 0 /\ rows'[t].archived # 0 =>
    /\ rows[t].stage # "open"
    /\ Last(history'[t]).by = AutoArchive => rows[t].closed # 0 /\ rows[t].closed < clock - TTL

LEMMA HidingStep ==
  ASSUME ArchiveInv, NEW s \in Sessions, Step(s), NEW t \in Tickets
  PROVE  HiddenIsFinished(t)
<1> USE DEF ArchiveInv
<1>1. CASE UNCHANGED rows
  BY <1>1 DEF HiddenIsFinished
<1>2. CASE FinishItem(s)
  <2>1. CASE t = call[s].item /\ Allowed(call[s].op, rows[t])
    <3> DEFINE value == IF call[s].op = "unarchive" THEN 0 ELSE clock
               e == Recorded(rows[t], value, call[s].id)
    <3>1. Archives(t, value, call[s].id) /\ call[s].id \in 1..calls /\ calls \in Nat
      BY <1>2, <2>1, FinishedItem DEF Types
    <3>2. e \in Entry /\ e.by # AutoArchive
      BY <3>1 DEF Recorded, Entry, Types, Row, AutoArchive
    <3>3. history'[t] = Append(history[t], e) /\ history[t] \in Seq(Entry)
      BY <3>1 DEF Archives, Types
    <3> HIDE DEF e
    <3>4. Last(history'[t]) = e
      BY <3>2, <3>3 DEF Last
    <3>5. rows'[t].archived = value
      BY <3>1 DEF Archives, Stored, Types, Row
    <3>6. rows[t].archived = 0 => rows[t].stage # "open"
      BY <2>1 DEF Allowed
    <3> QED BY <3>2, <3>4, <3>6 DEF HiddenIsFinished
  <2>2. CASE rows'[t] = rows[t]
    BY <2>2 DEF HiddenIsFinished
  <2> QED BY <1>2, <2>1, <2>2, FinishedItem
<1>3. CASE SweepCommit(s)
  <2>1. CASE t \in call[s].held
    <3>1. Stale(rows[t], call[s].now) /\ call[s].now =< clock
      BY <1>3, <2>1, SweptRows
    <3>2. /\ rows[t].closed \in Nat /\ call[s].now \in Nat /\ clock \in Nat /\ TTL \in Nat
      BY ArchiveBoundsAssumption DEF Types, Row, Call
    <3> QED BY <3>1, <3>2 DEF Stale, HiddenIsFinished
  <2>2. CASE t \notin call[s].held
    BY <1>3, <2>2, SweptRows DEF HiddenIsFinished
  <2> QED BY <2>1, <2>2
<1>4. CASE MoveWrite(s)
  <2>1. rows'[t].archived = rows[t].archived
    BY <1>4 DEF MoveWrite, Types, Row
  <2> QED BY <2>1 DEF HiddenIsFinished
<1> QED BY <1>1, <1>2, <1>3, <1>4, RequestedCall
        DEF Step, Continue, Requests, LockItem, SweepStart, SweepRow, MoveRead, Fail

----------------------------------------------------------------------------

LEMMA TickKeeps ==
  ASSUME ArchiveInv, Tick \/ UNCHANGED vars
  PROVE  ArchiveInv'
<1>1. /\ UNCHANGED <<rows, history, lock, call, report, calls, failures>>
      /\ clock' \in {clock, clock + 1}
  BY DEF Tick, vars
<1>2. Types'
  BY <1>1 DEF ArchiveInv, Types
<1>3. \A s \in Sessions : call[s].now \in Nat
  BY DEF ArchiveInv, Types, Call
<1>4. ASSUME NEW s \in Sessions PROVE Started(s)' /\ HoldsItsLocks(s)'
  <2>1. Started(s) /\ HoldsItsLocks(s) /\ clock \in Nat
    BY DEF ArchiveInv, LocksAndCalls, Types
  <2>2. Started(s)'
    BY <1>1, <1>3, <2>1 DEF Started
  <2>3. HoldsItsLocks(s)'
    BY <1>1, <2>1 DEF HoldsItsLocks
  <2> QED BY <2>2, <2>3
<1>5. clock' >= 1
  BY <1>1 DEF ArchiveInv, LocksAndCalls, Types
<1>6. ArchiveTrailAlternates'
  BY <1>1 DEF ArchiveInv, ArchiveTrailAlternates
<1> QED BY <1>2, <1>4, <1>5, <1>6 DEF ArchiveInv, LocksAndCalls

LEMMA InvStep == ASSUME ArchiveInv, [Next]_vars PROVE ArchiveInv'
<1>1. ASSUME NEW s \in Sessions, Step(s) PROVE ArchiveInv'
  <2>1. Types' /\ LocksAndCalls'
    BY <1>1, TypesStep, LocksStep
  <2>2. \A t \in Tickets : Alternates(t)'
    BY <1>1, StepLeavesOrArchives, TrailStep
  <2>3. ArchiveTrailAlternates'
    BY <2>2 DEF Alternates, ArchiveTrailAlternates
  <2> QED BY <2>1, <2>3 DEF ArchiveInv
<1> QED BY <1>1, TickKeeps DEF Next, Step

LEMMA ArchiveInvHolds == Spec => []ArchiveInv
BY InitHolds, InvStep, PTL DEF Spec

\* Types hold, and a row that is locked is locked by a call that knows: an
\* archival on it, or a sweep that has it among its rows.
THEOREM ArchiveTypesCorrect == Spec => []TypeOK
<1>1. ArchiveInv => TypeOK
  <2> SUFFICES ASSUME ArchiveInv PROVE TypeOK
    OBVIOUS
  <2>1. \A t \in Tickets, s \in Sessions :
          /\ lock[t] = s => call[s].pc \in {"locked", "scanning"}
          /\ t \in call[s].held => lock[t] = s
    BY DEF ArchiveInv, LocksAndCalls, HoldsItsLocks
  <2> QED BY <2>1 DEF ArchiveInv, Types, TypeOK
<1> QED BY <1>1, ArchiveInvHolds, PTL

\* The trail of archived_at alternates and ends where the ticket is, however
\* archivals, restores and sweeps meet, wait and die.
THEOREM TrailCorrect == Spec => []ArchiveTrailAlternates
<1>1. ArchiveInv => ArchiveTrailAlternates
  BY DEF ArchiveInv
<1> QED BY <1>1, ArchiveInvHolds, PTL

\* No step hides open work, and the sweep hides only what has been closed for
\* the whole TTL: the second look at a row under its lock is what it takes.
THEOREM HiddenWorkIsFinished == Spec => OnlyFinishedWorkIsHidden
<1> DEFINE Hides == \A t \in Tickets : rows[t].archived = 0 /\ rows'[t].archived # 0 =>
             /\ rows[t].stage # "open"
             /\ Last(history'[t]).by = AutoArchive =>
                  rows[t].closed # 0 /\ rows[t].closed < clock - TTL
<1>1. ASSUME ArchiveInv, [Next]_vars PROVE [Hides]_vars
  <2>1. ASSUME NEW s \in Sessions, Step(s) PROVE Hides
    BY <1>1, <2>1, HidingStep DEF HiddenIsFinished
  <2>2. CASE Tick
    BY <2>2 DEF Tick
  <2> QED BY <1>1, <2>1, <2>2 DEF Next, Step
<1> QED BY <1>1, ArchiveInvHolds, PTL DEF Spec, OnlyFinishedWorkIsHidden

----------------------------------------------------------------------------
(* The reports of batches *)

\* The history of t has a row of call id.
Told(t, id) == \E i \in DOMAIN history[t] : history[t][i].by = id

\* What a batch has booked so far is what the history tells of it.
KeepsBook(s) ==
  call[s].pc # "idle" /\ call[s].op \in {"archive", "unarchive"} =>
    /\ call[s].todo \cap call[s].done = {}
    /\ call[s].pc = "locked" => call[s].item \in call[s].todo
    /\ \A t \in Tickets : t \in call[s].done <=> Told(t, call[s].id)

ReportIsTrue(s) ==
  /\ report[s].id =< calls
  /\ report[s].ids # {} => report[s].id # 0
  /\ \A t \in report[s].ids : t \in report[s].done <=> Told(t, report[s].id)

\* No two calls have one number, nor has a report that of a call to come.
OwnNumber(s) ==
  call[s].pc # "idle" =>
    \A d \in Sessions : /\ report[d].id # call[s].id
                        /\ d # s /\ call[d].pc # "idle" => call[d].id # call[s].id

Books ==
  /\ \A t \in Tickets, id \in Nat : id > calls => ~ Told(t, id)
  /\ \A s \in Sessions : KeepsBook(s) /\ ReportIsTrue(s) /\ OwnNumber(s)

LEMMA BooksInit == ASSUME Init PROVE Books
<1>1. \A t \in Tickets : DOMAIN history[t] = {}
  BY DEF Init
<1>2. \A s \in Sessions : call[s].pc = "idle" /\ report[s].id = 0 /\ report[s].ids = {}
  BY DEF Init, Idle
<1>3. calls = 0
  BY DEF Init
<1> QED BY <1>1, <1>2, <1>3 DEF Books, KeepsBook, ReportIsTrue, OwnNumber, Told

LEMMA ToldOnAppend ==
  ASSUME NEW t \in Tickets, NEW e \in Entry, NEW id, history[t] \in Seq(Entry),
         history'[t] = Append(history[t], e)
  PROVE  Told(t, id)' <=> Told(t, id) \/ e.by = id
<1> DEFINE h == history[t]
<1>1. /\ DOMAIN Append(h, e) = 1..(Len(h) + 1) /\ DOMAIN h = 1..Len(h) /\ Len(h) \in Nat
      /\ \A i \in 1..Len(h) : Append(h, e)[i] = h[i]
      /\ Append(h, e)[Len(h) + 1] = e
  OBVIOUS
<1>2. \A i \in 1..(Len(h) + 1) : i \in 1..Len(h) \/ i = Len(h) + 1
  BY <1>1
<1>3. 1..Len(h) \subseteq 1..(Len(h) + 1) /\ Len(h) + 1 \in 1..(Len(h) + 1)
  BY <1>1
<1> HIDE DEF h
<1> QED BY <1>1, <1>2, <1>3 DEF Told, h

\* A step adds history rows of the call that takes it, or of the sweep.
LEMMA ToldStep ==
  ASSUME ArchiveInv, NEW s \in Sessions, Step(s), NEW t \in Tickets, NEW id \in Nat \ {0},
         ~ (/\ FinishItem(s) /\ t = call[s].item /\ id = call[s].id
            /\ Allowed(call[s].op, rows[t]))
  PROVE  Told(t, id)' <=> Told(t, id)
<1> USE DEF ArchiveInv
<1>1. CASE history'[t] = history[t]
  BY <1>1 DEF Told
<1>2. CASE FinishItem(s) /\ t = call[s].item /\ Allowed(call[s].op, rows[t])
  <2> DEFINE value == IF call[s].op = "unarchive" THEN 0 ELSE clock
             e == Recorded(rows[t], value, call[s].id)
  <2>1. Archives(t, value, call[s].id) /\ call[s].id \in Nat /\ value \in Nat
    BY <1>2, FinishedItem DEF Types
  <2>2. e \in Entry /\ e.by = call[s].id
    BY <2>1 DEF Recorded, Entry, Types, Row
  <2>3. history'[t] = Append(history[t], e) /\ history[t] \in Seq(Entry)
    BY <2>1 DEF Archives, Types
  <2> HIDE DEF e
  <2> QED BY <1>2, <2>2, <2>3, ToldOnAppend
<1>3. CASE SweepCommit(s) /\ t \in call[s].held
  <2> DEFINE e == Recorded(rows[t], call[s].now, AutoArchive)
  <2>1. Archives(t, call[s].now, AutoArchive) /\ call[s].now \in Nat
    BY <1>3, SweptRows DEF Types, Call
  <2>2. e \in Entry /\ e.by = 0
    BY <2>1 DEF Recorded, Entry, Types, Row, AutoArchive
  <2>3. history'[t] = Append(history[t], e) /\ history[t] \in Seq(Entry)
    BY <2>1 DEF Archives, Types
  <2> HIDE DEF e
  <2> QED BY <2>2, <2>3, ToldOnAppend
<1>4. \/ history'[t] = history[t]
      \/ FinishItem(s) /\ t = call[s].item /\ Allowed(call[s].op, rows[t])
      \/ SweepCommit(s) /\ t \in call[s].held
  <2>1. ASSUME FinishItem(s), ~ (t = call[s].item /\ Allowed(call[s].op, rows[t]))
        PROVE  history'[t] = history[t]
    <3>1. CASE t = call[s].item
      <4>1. ~ Allowed(call[s].op, rows[call[s].item])
        BY <2>1, <3>1
      <4>2. history' = history
        BY <2>1, <4>1, FinishedItem
      <4> QED BY <4>2
    <3>2. CASE t # call[s].item
      BY <2>1, <3>2, FinishedItem
    <3> QED BY <3>1, <3>2
  <2>2. ASSUME SweepCommit(s), t \notin call[s].held PROVE history'[t] = history[t]
    BY <2>2, SweptRows
  <2>3. UNCHANGED history \/ FinishItem(s) \/ SweepCommit(s)
    BY RequestedCall
       DEF Step, Continue, Requests, LockItem, SweepStart, SweepRow, MoveRead, MoveWrite, Fail
  <2> QED BY <2>1, <2>2, <2>3
<1> QED BY <1>1, <1>2, <1>3, <1>4

\* What FinishItem books is what it has recorded.
LEMMA ItemIsBooked ==
  ASSUME ArchiveInv, Books, NEW s \in Sessions, FinishItem(s), NEW id, id = call[s].id
  PROVE  LET c == call[s]
             done == Booked(c, Allowed(c.op, rows[c.item]))
         IN  /\ (c.todo \ {c.item}) \cap done = {}
             /\ \A t \in Tickets : t \in done <=> Told(t, id)'
<1> DEFINE c == call[s]
           ok == Allowed(c.op, rows[c.item])
           done == Booked(c, ok)
<1>1. /\ c.pc = "locked" /\ c.op \in {"archive", "unarchive"}
      /\ c.item \in Tickets /\ id \in Nat \ {0}
  <2>1. c.pc = "locked" /\ c.op \in {"archive", "unarchive"} /\ calls \in Nat
    BY DEF FinishItem, ArchiveInv, LocksAndCalls, Started, Types
  <2>2. c.item \in Tickets /\ id \in 1..calls
    BY FinishedItem
  <2> QED BY <2>1, <2>2
<1>2. /\ c.todo \cap c.done = {} /\ c.item \in c.todo
      /\ \A t \in Tickets : t \in c.done <=> Told(t, id)
  BY <1>1 DEF Books, KeepsBook
<1>3. Step(s)
  BY DEF Step, Continue
<1>4. ASSUME NEW t \in Tickets PROVE t \in done <=> Told(t, id)'
  <2>1. CASE t = c.item /\ ok
    <3> DEFINE value == IF c.op = "unarchive" THEN 0 ELSE clock
               e == Recorded(rows[t], value, c.id)
    <3>1. Archives(t, value, c.id) /\ value \in Nat
      BY <2>1, FinishedItem DEF ArchiveInv, Types
    <3>2. e \in Entry /\ e.by = id
      BY <1>1, <3>1 DEF Recorded, Entry, ArchiveInv, Types, Row
    <3>3. history'[t] = Append(history[t], e) /\ history[t] \in Seq(Entry)
      BY <3>1 DEF Archives, ArchiveInv, Types
    <3> HIDE DEF e
    <3>4. Told(t, id)'
      BY <3>2, <3>3, ToldOnAppend
    <3> QED BY <2>1, <3>4 DEF Booked
  <2>2. CASE ~ (t = c.item /\ ok)
    <3>1. Told(t, id)' <=> Told(t, id)
      <4>1. ~ (/\ FinishItem(s) /\ t = call[s].item /\ id = call[s].id
               /\ Allowed(call[s].op, rows[t]))
        BY <2>2
      <4> QED BY <1>1, <1>3, <4>1, ToldStep
    <3>2. t \in done <=> t \in c.done
      BY <1>2, <2>2 DEF Booked
    <3> QED BY <1>2, <3>1, <3>2
  <2> QED BY <2>1, <2>2
<1>5. (c.todo \ {c.item}) \cap done = {}
  BY <1>2 DEF Booked
<1> QED BY <1>4, <1>5

\* The call goes on with the book it has.
GoesOn(s) ==
  /\ call[s].pc # "idle" /\ call'[s].pc # "idle"
  /\ call'[s].id = call[s].id /\ call'[s].op = call[s].op /\ call'[s].done = call[s].done
  /\ call'[s].todo \subseteq call[s].todo \/ call'[s].op = "sweep"
  /\ call'[s].pc = "locked" => call'[s].item \in call'[s].todo

LEMMA WhatBecomesOfTheCall ==
  ASSUME ArchiveInv, NEW s \in Sessions, Step(s)
  PROVE  \/ FinishItem(s)
         \/ Requests(s)
         \/ UNCHANGED <<report, calls>> /\ call'[s] = Idle
         \/ UNCHANGED <<report, calls>> /\ GoesOn(s)
<1> USE DEF ArchiveInv
<1>1. CASE Request(s)
  BY <1>1, RequestedCall
<1>2. CASE LockItem(s)
  <2>1. PICK t \in call[s].todo : call' = [call EXCEPT ![s].pc = "locked", ![s].item = t]
    BY <1>2 DEF LockItem, First
  <2>2. /\ call'[s].pc = "locked" /\ call'[s].item = t /\ call'[s].op = call[s].op
        /\ call'[s].id = call[s].id /\ call'[s].todo = call[s].todo /\ call'[s].done = call[s].done
    BY <2>1 DEF Types, Call
  <2> QED BY <1>2, <2>2 DEF LockItem, GoesOn
<1>3. CASE SweepStart(s)
  <2>1. PICK todo : call' = [call EXCEPT ![s].pc = "scanning", ![s].todo = todo]
    BY <1>3 DEF SweepStart
  <2>2. /\ call'[s].pc = "scanning" /\ call'[s].op = call[s].op
        /\ call'[s].id = call[s].id /\ call'[s].done = call[s].done
    BY <2>1 DEF Types, Call
  <2> QED BY <1>3, <2>2 DEF SweepStart, GoesOn
<1>4. CASE SweepRow(s)
  <2>1. PICK u, held : call' = [call EXCEPT ![s].todo = @ \ {u}, ![s].held = held]
    BY <1>4 DEF SweepRow, Types
  <2>2. /\ call'[s].pc = call[s].pc /\ call'[s].op = call[s].op /\ call'[s].id = call[s].id
        /\ call'[s].todo = call[s].todo \ {u} /\ call'[s].done = call[s].done
    BY <2>1 DEF Types, Call
  <2> QED BY <1>4, <2>2 DEF SweepRow, GoesOn
<1>5. CASE MoveRead(s)
  <2>1. CASE call' = [call EXCEPT ![s].pc = "write", ![s].now = clock]
    <3>1. /\ call'[s].pc = "write" /\ call'[s].op = call[s].op /\ call'[s].id = call[s].id
          /\ call'[s].todo = call[s].todo /\ call'[s].done = call[s].done
      BY <2>1 DEF Types, Call
    <3> QED BY <1>5, <3>1 DEF MoveRead, GoesOn
  <2>2. CASE call' = [call EXCEPT ![s] = Idle]
    BY <1>5, <2>2 DEF MoveRead, Types
  <2> QED BY <1>5, <2>1, <2>2 DEF MoveRead
<1>6. CASE SweepCommit(s)
  BY <1>6 DEF SweepCommit, Types
<1>7. CASE MoveWrite(s)
  BY <1>7 DEF MoveWrite, Types
<1>8. CASE Fail(s)
  BY SMTT(30), <1>8 DEF Fail, Types
<1> QED BY <1>1, <1>2, <1>3, <1>4, <1>5, <1>6, <1>7, <1>8 DEF Step, Continue

LEMMA ReportsOfOthers ==
  ASSUME ArchiveInv, NEW s \in Sessions, Step(s), NEW d \in Sessions, d # s
  PROVE  report'[d] = report[d]
BY RequestedCall DEF ArchiveInv, Types, Requests, Step, Continue, LockItem, FinishItem, SweepStart,
     SweepRow, SweepCommit, MoveRead, MoveWrite, Fail

LEMMA FinishedReport ==
  ASSUME ArchiveInv, NEW s \in Sessions, FinishItem(s)
  PROVE  LET c == call[s]
             done == Booked(c, Allowed(c.op, rows[c.item]))
         IN  \/ /\ report' = report /\ call'[s].pc = "ready"
                /\ call'[s].id = c.id /\ call'[s].op = c.op
                /\ call'[s].todo = c.todo \ {c.item} /\ call'[s].done = done
             \/ /\ report'[s] = [id |-> c.id, ids |-> c.ids, done |-> done]
                /\ call'[s].pc = "idle"
<1> DEFINE c == call[s]
           done == Booked(c, Allowed(c.op, rows[c.item]))
           todo == c.todo \ {c.item}
<1>1. \/ report' = report /\ call' = [call EXCEPT ![s].pc = "ready", ![s].todo = todo, ![s].done = done]
      \/ /\ call' = [call EXCEPT ![s] = Idle]
         /\ report' = [report EXCEPT ![s] = [id |-> c.id, ids |-> c.ids, done |-> done]]
  BY DEF FinishItem
<1> HIDE DEF done, todo
<1>2. call \in [Sessions -> Call] /\ report \in [Sessions -> Report]
  BY DEF ArchiveInv, Types
<1>3. CASE report' = report /\ call' = [call EXCEPT ![s].pc = "ready", ![s].todo = todo, ![s].done = done]
  <2>1. /\ call'[s].pc = "ready" /\ call'[s].id = c.id /\ call'[s].op = c.op
        /\ call'[s].todo = todo /\ call'[s].done = done
    BY <1>2, <1>3 DEF Call
  <2> QED BY <1>3, <2>1 DEF todo, done
<1>4. CASE /\ call' = [call EXCEPT ![s] = Idle]
           /\ report' = [report EXCEPT ![s] = [id |-> c.id, ids |-> c.ids, done |-> done]]
  BY <1>2, <1>4 DEF Idle, done
<1> QED BY <1>1, <1>3, <1>4

\* Numbers that are in use have been given out.
LEMMA NumbersInUse ==
  ASSUME ArchiveInv, NEW s \in Sessions
  PROVE  /\ calls \in Nat /\ call[s].id \in Nat /\ report[s].id \in Nat
         /\ call[s].pc # "idle" => call[s].id \in 1..calls
BY DEF ArchiveInv, Types, Call, Report, LocksAndCalls, Started

LEMMA OthersBooks ==
  ASSUME ArchiveInv, Books, NEW s \in Sessions, Step(s), NEW d \in Sessions, d # s
  PROVE  KeepsBook(d)' /\ ReportIsTrue(d)'
<1>1. call'[d] = call[d] /\ report'[d] = report[d] /\ calls \in Nat /\ calls' \in {calls, calls + 1}
  BY OthersKeepTheirLocks, ReportsOfOthers, ClockAndCalls, NumbersInUse
<1>2. FinishItem(s) => call[s].pc # "idle"
  BY DEF FinishItem
<1>3. OwnNumber(s) /\ KeepsBook(d) /\ ReportIsTrue(d)
  BY DEF Books
<1>4. ASSUME NEW t \in Tickets, NEW id \in Nat \ {0}, FinishItem(s) => id # call[s].id
      PROVE  Told(t, id)' <=> Told(t, id)
  BY <1>4, ToldStep
<1>5. KeepsBook(d)'
  <2>1. CASE call[d].pc # "idle"
    <3>1. PICK id : id = call[d].id
      OBVIOUS
    <3>2. id \in Nat \ {0} /\ (FinishItem(s) => id # call[s].id)
      BY <1>2, <1>3, <2>1, <3>1, NumbersInUse DEF OwnNumber
    <3>3. \A t \in Tickets : Told(t, id)' <=> Told(t, id)
      BY <1>4, <3>2
    <3>4. call'[d].id = id
      BY <1>1, <3>1
    <3> QED BY <1>1, <1>3, <3>1, <3>3, <3>4 DEF KeepsBook
  <2>2. CASE call[d].pc = "idle"
    BY <1>1, <2>2 DEF KeepsBook
  <2> QED BY <2>1, <2>2
<1>6. ReportIsTrue(d)'
  <2>1. PICK id : id = report[d].id
    OBVIOUS
  <2>2. id \in Nat /\ (FinishItem(s) => id # call[s].id) /\ report[d].ids \subseteq Tickets
    BY <1>2, <1>3, <2>1, NumbersInUse DEF OwnNumber, ArchiveInv, Types, Report
  <2>3. \A t \in report[d].ids : Told(t, id)' <=> Told(t, id)
    BY <1>3, <1>4, <2>1, <2>2 DEF ReportIsTrue
  <2>4. report'[d].id = id
    BY <1>1, <2>1
  <2> QED BY <1>1, <1>3, <2>1, <2>2, <2>3, <2>4 DEF ReportIsTrue
<1> QED BY <1>5, <1>6

LEMMA OwnBook ==
  ASSUME ArchiveInv, Books, NEW s \in Sessions, Step(s)
  PROVE  KeepsBook(s)' /\ ReportIsTrue(s)'
<1>1. KeepsBook(s) /\ ReportIsTrue(s) /\ OwnNumber(s) /\ calls' \in {calls, calls + 1}
  BY ClockAndCalls DEF Books
<1>2. PICK id, told : id = call[s].id /\ told = report[s].id
  OBVIOUS
<1>3. /\ calls \in Nat /\ id \in Nat /\ told \in Nat /\ report[s].ids \subseteq Tickets
      /\ call[s].pc # "idle" => id \in 1..calls /\ id # 0 /\ told # id
  BY <1>1, <1>2, NumbersInUse DEF OwnNumber, ArchiveInv, Types, Report
\* As long as the report stays, it stays true.
<1>4. ASSUME report'[s] = report[s] PROVE ReportIsTrue(s)'
  <2>1. FinishItem(s) => told # call[s].id
    BY <1>2, <1>3 DEF FinishItem
  <2>2. \A t \in report[s].ids : Told(t, told)' <=> Told(t, told)
    BY <1>1, <1>2, <1>3, <2>1, ToldStep DEF ReportIsTrue
  <2>3. report'[s].id = told
    BY <1>2, <1>4
  <2> QED BY <1>1, <1>2, <1>3, <1>4, <2>2, <2>3 DEF ReportIsTrue
<1>5. CASE FinishItem(s)
  <2> DEFINE c == call[s]
             done == Booked(c, Allowed(c.op, rows[c.item]))
  <2>1. /\ (c.todo \ {c.item}) \cap done = {}
        /\ \A t \in Tickets : t \in done <=> Told(t, id)'
    BY <1>2, <1>5, ItemIsBooked
  <2>2. c.pc # "idle" /\ c.ids \subseteq Tickets
    BY <1>5 DEF FinishItem, ArchiveInv, Types, Call
  <2>3. CASE /\ report' = report /\ call'[s].pc = "ready"
             /\ call'[s].id = c.id /\ call'[s].op = c.op
             /\ call'[s].todo = c.todo \ {c.item} /\ call'[s].done = done
    <3> HIDE DEF done
    <3>1. KeepsBook(s)'
      BY <1>2, <2>1, <2>3 DEF KeepsBook
    <3> QED BY <1>4, <2>3, <3>1
  <2>4. CASE /\ report'[s] = [id |-> c.id, ids |-> c.ids, done |-> done]
             /\ call'[s].pc = "idle"
    <3> HIDE DEF done
    <3>1. report'[s].id = id /\ report'[s].ids = c.ids /\ report'[s].done = done
      BY <1>2, <2>4
    <3>2. ReportIsTrue(s)'
      BY <1>1, <1>3, <2>1, <2>2, <3>1 DEF ReportIsTrue
    <3>3. KeepsBook(s)'
      BY <2>4 DEF KeepsBook
    <3> QED BY <3>2, <3>3
  <2> QED BY <1>5, <2>3, <2>4, FinishedReport
<1>6. CASE Requests(s)
  <2>1. /\ call'[s].id = calls + 1 /\ call'[s].done = {} /\ call'[s].pc = "ready"
        /\ UNCHANGED <<history, report>>
    BY <1>6 DEF Requests
  <2>2. PICK new : new = calls + 1
    OBVIOUS
  <2>3. \A t \in Tickets : ~ Told(t, new)
    BY <1>3, <2>2 DEF Books
  <2>4. KeepsBook(s)'
    BY <2>1, <2>2, <2>3 DEF KeepsBook, Told
  <2> QED BY <1>4, <2>1, <2>4
<1>7. CASE ~ FinishItem(s) /\ UNCHANGED <<report, calls>> /\ call'[s] = Idle
  <2>1. KeepsBook(s)'
    BY <1>7 DEF KeepsBook, Idle
  <2> QED BY <1>4, <1>7, <2>1
<1>8. CASE ~ FinishItem(s) /\ UNCHANGED <<report, calls>> /\ GoesOn(s)
  <2>1. \A t \in Tickets : Told(t, id)' <=> Told(t, id)
    BY <1>3, <1>8, ToldStep DEF GoesOn
  <2>2. call'[s].id = id /\ call'[s].op = call[s].op /\ call'[s].done = call[s].done
    BY <1>2, <1>8 DEF GoesOn
  <2>3. KeepsBook(s)'
    BY <1>1, <1>2, <1>8, <2>1, <2>2 DEF KeepsBook, GoesOn
  <2> QED BY <1>4, <1>8, <2>3
<1> QED BY <1>5, <1>6, <1>7, <1>8, WhatBecomesOfTheCall

LEMMA NumbersStep ==
  ASSUME ArchiveInv, Books, NEW s \in Sessions, Step(s)
  PROVE  /\ \A d \in Sessions : OwnNumber(d)'
         /\ \A t \in Tickets, id \in Nat : id > calls' => ~ Told(t, id)'
<1>0. calls \in Nat /\ calls' \in {calls, calls + 1}
  BY ClockAndCalls, NumbersInUse
<1>1. \A d \in Sessions :
        /\ d # s => call'[d] = call[d] /\ report'[d] = report[d]
        /\ call[d].id \in Nat /\ report[d].id \in Nat /\ report[d].id =< calls
        /\ call[d].pc # "idle" => call[d].id \in 1..calls
        /\ OwnNumber(d)
  BY OthersKeepTheirLocks, ReportsOfOthers, NumbersInUse DEF Books, ReportIsTrue
\* The call keeps its number, ends, or gets a new one; a report has an old number.
<1>2. /\ \/ call'[s].pc = "idle"
         \/ call'[s].id = call[s].id /\ call[s].pc # "idle"
         \/ call'[s].id = calls + 1
      /\ \/ report'[s].id = report[s].id
         \/ report'[s].id = call[s].id /\ call[s].pc # "idle" /\ call'[s].pc = "idle"
  <2>1. FinishItem(s) => call[s].pc # "idle"
    BY DEF FinishItem
  <2>2. Idle.pc = "idle"
    BY DEF Idle
  <2>3. CASE FinishItem(s)
    <3>1. \/ report' = report /\ call'[s].id = call[s].id
          \/ report'[s].id = call[s].id /\ call'[s].pc = "idle"
      <4> DEFINE c == call[s]
                 done == Booked(c, Allowed(c.op, rows[c.item]))
      <4>1. CASE report' = report /\ call'[s].id = c.id
        BY <4>1
      <4>2. CASE report'[s] = [id |-> c.id, ids |-> c.ids, done |-> done] /\ call'[s].pc = "idle"
        <5> HIDE DEF done
        <5> QED BY <4>2
      <4> QED BY <2>3, <4>1, <4>2, FinishedReport
    <3> QED BY <2>1, <2>3, <3>1
  <2>4. CASE Requests(s)
    BY <2>4 DEF Requests
  <2>5. CASE UNCHANGED <<report, calls>> /\ call'[s] = Idle
    BY <2>2, <2>5
  <2>6. CASE UNCHANGED <<report, calls>> /\ GoesOn(s)
    BY <2>6 DEF GoesOn
  <2> QED BY <2>3, <2>4, <2>5, <2>6, WhatBecomesOfTheCall
<1>3. ASSUME NEW d \in Sessions PROVE OwnNumber(d)'
  BY <1>0, <1>1, <1>2 DEF OwnNumber
<1>4. ASSUME NEW t \in Tickets, NEW id \in Nat, id > calls' PROVE ~ Told(t, id)'
  <2>1. id > calls /\ id # 0
    BY <1>0, <1>4
  <2>2. FinishItem(s) => id # call[s].id
    <3>1. FinishItem(s) => call[s].pc # "idle"
      BY DEF FinishItem
    <3> QED BY <1>0, <2>1, <3>1, NumbersInUse
  <2>3. Told(t, id)' <=> Told(t, id)
    BY <2>1, <2>2, ToldStep
  <2> QED BY <2>1, <2>3 DEF Books
<1> QED BY <1>3, <1>4

LEMMA BooksStep == ASSUME ArchiveInv, Books, [Next]_vars PROVE Books'
<1>1. ASSUME NEW s \in Sessions, Step(s) PROVE Books'
  BY <1>1, OwnBook, OthersBooks, NumbersStep DEF Books
<1>2. CASE Tick \/ UNCHANGED vars
  <2>1. UNCHANGED <<history, call, report, calls>>
    BY <1>2 DEF Tick, vars
  <2> QED BY <2>1 DEF Books, KeepsBook, ReportIsTrue, OwnNumber, Told
<1> QED BY <1>1, <1>2 DEF Next, Step

\* What batch_archive and archive answer is what the history says they did, and
\* it stays so: no other call's work is reported, and none of their own is left out.
THEOREM ReportsAreTrue == Spec => []BatchReportIsTrue
<1>1. Init => ArchiveInv /\ Books
  BY InitHolds, BooksInit
<1>2. (ArchiveInv /\ Books) /\ [Next]_vars => (ArchiveInv /\ Books)'
  BY InvStep, BooksStep
<1>3. Books => BatchReportIsTrue
  BY DEF Books, ReportIsTrue, Told, BatchReportIsTrue
<1> QED BY <1>1, <1>2, <1>3, PTL DEF Spec

=============================================================================
