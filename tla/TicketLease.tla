---------------------------- MODULE TicketLease ----------------------------
(***************************************************************************)
(* Leases: which agent is working on a ticket, and until when              *)
(* (stompy_ticketing/leases.py, called through lease_actions.run_action).  *)
(*                                                                         *)
(* A call takes the time once, at its start.  Its statement may then wait  *)
(* for the lock of the row, so the time it compares with claimed_until and *)
(* computes the new one from can be long past.  In READ COMMITTED a        *)
(* statement that waits must find its row both as it was when it began and *)
(* as it is when it has the lock, which it keeps until the COMMIT; a       *)
(* claim_next never waits, it passes over rows that are locked.            *)
(*                                                                         *)
(* A ticket is only what a claim looks at: whether its status and archival *)
(* let it be claimed.  Tickets are numbered in the order in which          *)
(* claim_next prefers them, and all have one assignee.                     *)
(***************************************************************************)
EXTENDS Integers

CONSTANTS
  Tickets,    \* ids, in claim_next's order
  Holders,    \* an account with an agent label
  Nobody,     \* claimed_by is NULL
  Sessions,   \* calls that can run at the same time
  Free,       \* no session has the row locked
  Durations,  \* ttl_minutes, in ticks of the clock
  MaxTime,    \* bound: the last tick
  MaxCalls    \* bound: calls started in one behaviour

ASSUME TicketsAssumption == Tickets \subseteq Nat
ASSUME NullsAssumption == Nobody \notin Holders /\ Free \notin Sessions
ASSUME DurationsAssumption == Durations \subseteq Nat \ {0}
ASSUME LeaseBoundsAssumption == {MaxTime, MaxCalls} \subseteq Nat

VARIABLES
  rows,    \* the tickets as they are committed
  lock,    \* the session that has each row locked
  call,    \* what each session is doing
  told,    \* until when each holder was last told it has each ticket
  clock,   \* time.time()
  calls    \* calls started so far

vars == <<rows, lock, call, told, clock, calls>>

----------------------------------------------------------------------------

\* ready: a status of NEXT_STATUSES; doing: in_progress, the one claimable
\* status beside them; out: any other status, or archived.
Stages == {"ready", "doing", "out"}
ClaimStages == {"ready", "doing"}

\* since is claimed_at and until claimed_until; NULL is 0, long past.
Row == [stage : Stages, holder : Holders \cup {Nobody}, since : Nat, until : Nat]

Ops == {"claim", "claim_next", "release", "move"}

\* changed: "Ticket changed during claim; re-read and retry".
Outcomes == {"none", "claimed", "held", "not_claimable", "changed", "released", "moved"}

\* ready:   has taken its time, the statement has not begun
\* waiting: a claim waits for the row; found tells whether the row satisfied
\*          the statement when it began
\* locked:  the statement has run, row is what it wrote, outcome what the call
\*          will answer
\* missed:  a release has found nothing to release and is about to read the row
PCs == {"idle", "ready", "waiting", "locked", "missed"}

NoRow == [stage |-> "out", holder |-> Nobody, since |-> 0, until |-> 0]

Call == [pc : PCs, op : Ops \cup {"none"}, holder : Holders \cup {Nobody}, ticket : Tickets \cup {0},
         now : Nat, ttl : Nat, stage : Stages, found : BOOLEAN, row : Row, outcome : Outcomes]

Idle == [pc |-> "idle", op |-> "none", holder |-> Nobody, ticket |-> 0, now |-> 0, ttl |-> 0,
         stage |-> "out", found |-> FALSE, row |-> NoRow, outcome |-> "none"]

\* The three columns of a lease are NULL together, and it ends after it began.
LeaseColumns(row) ==
  IF row.holder = Nobody THEN row.since = 0 /\ row.until = 0 ELSE 0 < row.since /\ row.since < row.until

TypeOK ==
  /\ \A t \in Tickets : LeaseColumns(rows[t])
  /\ rows \in [Tickets -> Row]
  /\ lock \in [Tickets -> Sessions \cup {Free}]
  /\ call \in [Sessions -> Call]
  /\ told \in [Holders -> [Tickets -> Nat]]
  /\ clock \in Nat
  /\ calls \in Nat

Init ==
  /\ rows \in [Tickets -> { [NoRow EXCEPT !.stage = stage] : stage \in {"ready", "out"} }]
  /\ lock = [t \in Tickets |-> Free]
  /\ call = [s \in Sessions |-> Idle]
  /\ told = [h \in Holders |-> [t \in Tickets |-> 0]]
  /\ clock = 1
  /\ calls = 0

----------------------------------------------------------------------------

Live(row, now) == row.holder # Nobody /\ row.until > now

Later(a, b) == IF a > b THEN a ELSE b

Begin(s, request) ==
  /\ call[s].pc = "idle"
  /\ calls < MaxCalls
  /\ calls' = calls + 1
  /\ call' = [call EXCEPT ![s] = [request EXCEPT !.pc = "ready", !.now = clock]]
  /\ UNCHANGED <<rows, lock, told, clock>>

Request(s) ==
  \/ \E h \in Holders, t \in Tickets, ttl \in Durations :
       Begin(s, [Idle EXCEPT !.op = "claim", !.holder = h, !.ticket = t, !.ttl = ttl])
  \/ \E h \in Holders, ttl \in Durations :
       Begin(s, [Idle EXCEPT !.op = "claim_next", !.holder = h, !.ttl = ttl])
  \/ \E h \in Holders, t \in Tickets :
       Begin(s, [Idle EXCEPT !.op = "release", !.holder = h, !.ticket = t])
  \/ \E t \in Tickets, stage \in Stages :
       Begin(s, [Idle EXCEPT !.op = "move", !.ticket = t, !.stage = stage])

\* The statement of session s has row t under its lock.
Lock(s, t, row, outcome) ==
  /\ lock[t] = Free
  /\ lock' = [lock EXCEPT ![t] = s]
  /\ call' = [call EXCEPT ![s].pc = "locked", ![s].ticket = t, ![s].row = row, ![s].outcome = outcome]
  /\ UNCHANGED <<rows, told, clock, calls>>

Reply(s) == call' = [call EXCEPT ![s] = Idle]

----------------------------------------------------------------------------
(* claim *)

Renewing(row, c) == row.holder = c.holder /\ row.until > c.now

\* Mutant of Granted: a renewal lasts from the time of its call.
GrantedFromNow(row, c) ==
  [row EXCEPT !.holder = c.holder, !.since = IF Renewing(row, c) THEN @ ELSE c.now,
              !.until = c.now + c.ttl]

\* The SET clause: a renewal keeps claimed_at and always lasts longer.
Granted(row, c) ==
  [row EXCEPT !.holder = c.holder,
              !.since = IF Renewing(row, c) THEN @ ELSE c.now,
              !.until = IF Renewing(row, c) THEN Later(@ + 1, c.now + c.ttl) ELSE c.now + c.ttl]

\* Mutant of Grantable: the lease of another agent is not looked at.
GrantableAnyway(row, c) == row.stage \in ClaimStages

\* The WHERE clause.
Grantable(row, c) ==
  /\ row.stage \in ClaimStages
  /\ row.until =< c.now \/ row.holder = c.holder

\* The row is read again to say why the statement found nothing.
Refusal(row, c) ==
  IF row.stage = "out" THEN "not_claimable" ELSE IF Live(row, c.now) THEN "held" ELSE "changed"

\* The statement of a claim has the lock; found tells whether the row satisfied
\* it as the statement began.
ClaimUnderLock(s, found) ==
  LET c == call[s]
      row == rows[c.ticket]
  IN  \/ /\ found /\ Grantable(row, c)
         /\ Lock(s, c.ticket, Granted(row, c), "claimed")
      \/ /\ ~ (found /\ Grantable(row, c))
         /\ Lock(s, c.ticket, row, Refusal(row, c))

Claim(s) ==
  /\ call[s].pc = "ready"
  /\ call[s].op = "claim"
  /\ ClaimUnderLock(s, TRUE)

ClaimWaits(s) ==
  LET c == call[s]
  IN  /\ c.pc = "ready"
      /\ c.op = "claim"
      /\ lock[c.ticket] # Free
      /\ call' = [call EXCEPT ![s].pc = "waiting", ![s].found = Grantable(rows[c.ticket], c)]
      /\ UNCHANGED <<rows, lock, told, clock, calls>>

ClaimWakes(s) ==
  /\ call[s].pc = "waiting"
  /\ ClaimUnderLock(s, call[s].found)

----------------------------------------------------------------------------
(* claim_next *)

\* Mutant of Candidates: only the status makes a ticket a candidate.
CandidatesLeasedToo(c) == { t \in Tickets : lock[t] = Free /\ rows[t].stage = "ready" }

\* ... FOR UPDATE SKIP LOCKED
Candidates(c) ==
  { t \in Tickets : lock[t] = Free /\ rows[t].stage = "ready" /\ rows[t].until =< c.now }

ClaimNext(s) ==
  LET c == call[s]
  IN  /\ c.pc = "ready"
      /\ c.op = "claim_next"
      /\ \/ \E t \in Candidates(c) :
              /\ \A u \in Candidates(c) : t =< u
              /\ Lock(s, t, [rows[t] EXCEPT !.holder = c.holder, !.since = c.now,
                                            !.until = c.now + c.ttl], "claimed")
         \/ /\ Candidates(c) = {}
            /\ Reply(s)  \* "empty"
            /\ UNCHANGED <<rows, lock, told, clock, calls>>

----------------------------------------------------------------------------
(* release *)

\* Mutant of Releasable: any holder's late release will do.
ReleasableByAnyone(row, c) == row.until > c.now

\* Mutant of Released: claimed_until is left to run out.
ReleasedLater(row) == [row EXCEPT !.holder = Nobody, !.since = 0]

\* The SET clause.
Released(row) == [row EXCEPT !.holder = Nobody, !.since = 0, !.until = 0]

\* The WHERE clause.
Releasable(row, c) == row.holder = c.holder /\ row.until > c.now

Release(s) ==
  LET c == call[s]
      row == rows[c.ticket]
  IN  /\ c.pc = "ready"
      /\ c.op = "release"
      /\ Releasable(row, c)
      /\ Lock(s, c.ticket, Released(row), "released")

\* A row that does not match as it is committed is not waited for.
ReleaseMissed(s) ==
  LET c == call[s]
  IN  /\ c.pc = "ready"
      /\ c.op = "release"
      /\ ~ Releasable(rows[c.ticket], c)
      /\ call' = [call EXCEPT ![s].pc = "missed"]
      /\ UNCHANGED <<rows, lock, told, clock, calls>>

\* The row is read again to choose between a refusal and "nothing to release".
ReleaseReread(s) ==
  /\ call[s].pc = "missed"
  /\ Reply(s)
  /\ UNCHANGED <<rows, lock, told, clock, calls>>

----------------------------------------------------------------------------

\* transition_ticket and the archive actions: the lease columns stay.
Move(s) ==
  LET c == call[s]
  IN  /\ c.pc = "ready"
      /\ c.op = "move"
      /\ Lock(s, c.ticket, [rows[c.ticket] EXCEPT !.stage = c.stage], "moved")

\* COMMIT and answer; a refused claim rolls back, which frees its row too.
Finish(s) ==
  LET c == call[s]
  IN  /\ c.pc = "locked"
      /\ rows' = [rows EXCEPT ![c.ticket] = c.row]
      /\ lock' = [lock EXCEPT ![c.ticket] = Free]
      /\ told' = CASE c.outcome = "claimed"  -> [told EXCEPT ![c.holder][c.ticket] = c.row.until]
                   [] c.outcome = "released" -> [told EXCEPT ![c.holder][c.ticket] = 0]
                   [] OTHER                  -> told
      /\ Reply(s)
      /\ UNCHANGED <<clock, calls>>

\* A statement fails or the process dies: ROLLBACK.
Crash(s) ==
  /\ call[s].pc # "idle"
  /\ lock' = [t \in Tickets |-> IF lock[t] = s THEN Free ELSE lock[t]]
  /\ call' = [call EXCEPT ![s] = Idle]
  /\ UNCHANGED <<rows, told, clock, calls>>

Tick ==
  /\ clock < MaxTime
  /\ clock' = clock + 1
  /\ UNCHANGED <<rows, lock, call, told, calls>>

Continue(s) ==
  \/ Claim(s)
  \/ ClaimWaits(s)
  \/ ClaimWakes(s)
  \/ ClaimNext(s)
  \/ Release(s)
  \/ ReleaseMissed(s)
  \/ ReleaseReread(s)
  \/ Move(s)
  \/ Finish(s)

Next == Tick \/ \E s \in Sessions : Request(s) \/ Continue(s) \/ Crash(s)

Spec == Init /\ [][Next]_vars

----------------------------------------------------------------------------
(* Properties *)

\* What a holder was told stays true until it passes or the holder releases:
\* nobody else has the ticket, however late the statements of other calls run,
\* and whatever the status of the ticket does.
LeaseIsHonoured ==
  \A h \in Holders, t \in Tickets :
    told[h][t] > clock => rows[t].holder = h /\ rows[t].until >= told[h][t]

\* A lease that is live keeps its claimed_at and never gets shorter; it ends
\* early only through a release of its holder.
LiveLeaseIsKept ==
  [][\A t \in Tickets : Live(rows[t], clock) =>
       \/ /\ rows'[t].holder = rows[t].holder
          /\ rows'[t].since = rows[t].since
          /\ rows'[t].until >= rows[t].until
       \/ \E s \in Sessions : /\ call[s].op = "release"
                              /\ call[s].ticket = t
                              /\ call[s].holder = rows[t].holder
                              /\ rows'[t].holder = Nobody]_vars

----------------------------------------------------------------------------
(* The register of leases that all of this implements *)

\* An agent may count on a lease while it is live; the columns of one that has
\* run out stay in the row, where nothing looks at the holder any more.
Held(row, now) ==
  [holder |-> IF Live(row, now) THEN row.holder ELSE Nobody,
   since  |-> IF Live(row, now) THEN row.since ELSE 0,
   until  |-> IF Live(row, now) THEN row.until ELSE 0]

Register == INSTANCE LeaseRegister WITH lease <- [t \in Tickets |-> Held(rows[t], clock)]

\* Seen from outside, claims that wait for a row, pass over locked ones, come
\* late or are rolled back take free tickets, prolong leases and give them up,
\* one ticket at a time, and nothing else ever ends a lease but its time.
ImplementsRegister == Register!Spec

=============================================================================
