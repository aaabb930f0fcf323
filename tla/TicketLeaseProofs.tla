------------------------- MODULE TicketLeaseProofs -------------------------
(***************************************************************************)
(* What TLAPS proves about TicketLease: its types, that a lease that was   *)
(* answered is honoured, and that a live lease is kept, for any number of  *)
(* tickets, holders and calls, and that all this implements LeaseRegister. *)
(***************************************************************************)
EXTENDS TicketLease, TLAPS

----------------------------------------------------------------------------
(* The inductive invariant *)

\* What a running call knows since it began: its time has come, and whoever
\* claims or releases is a holder.
Started(c) ==
  /\ c.now \in 1..clock
  /\ c.op \in Ops
  /\ c.op # "move" => c.holder \in Holders
  /\ c.op \in {"claim", "claim_next"} => c.ttl \in Durations
  /\ c.ticket \in Tickets \/ (c.op = "claim_next" /\ c.pc = "ready")
  /\ c.pc = "waiting" => c.op = "claim"

CallsHaveStarted ==
  /\ clock > 0
  /\ \A s \in Sessions : call[s].pc # "idle" => Started(call[s])

\* A row is locked exactly by the one call that is about to commit it.
LocksAreHeld ==
  \A s \in Sessions, t \in Tickets :
    lock[t] = s <=> call[s].pc = "locked" /\ call[s].ticket = t

\* What a call that has the lock will write over row: its claim takes a lease
\* that has ended or renews its own, its release ends its own, and anything
\* else leaves the lease as it is.
Licensed(c, row) ==
  /\ LeaseColumns(c.row)
  /\ CASE c.outcome = "claimed" ->
            /\ c.holder \in Holders
            /\ c.row.holder = c.holder
            /\ row.until > c.now => /\ row.holder = c.holder
                                    /\ c.row.since = row.since
                                    /\ row.until =< c.row.until
       [] c.outcome = "released" ->
            /\ c.op = "release"
            /\ c.holder \in Holders
            /\ row.holder = c.holder
            /\ c.row.holder = Nobody
       [] OTHER ->
            /\ c.row.holder = row.holder
            /\ c.row.since = row.since
            /\ c.row.until = row.until

PendingRows ==
  \A s \in Sessions : call[s].pc = "locked" => Licensed(call[s], rows[call[s].ticket])

Consistent == TypeOK /\ CallsHaveStarted /\ LocksAreHeld /\ PendingRows

----------------------------------------------------------------------------
(* Steps and what they leave consistent *)

LEMMA IdleIsACall == Idle \in Call /\ Idle.pc = "idle"
BY DEF Idle, Call, PCs, NoRow, Row, Stages, Outcomes

LEMMA InitIsConsistent == Init => Consistent
<1> SUFFICES ASSUME Init PROVE Consistent  OBVIOUS
<1>1. ASSUME NEW t \in Tickets  PROVE rows[t] \in Row /\ LeaseColumns(rows[t])
  <2>1. rows[t] \in { [NoRow EXCEPT !.stage = stage] : stage \in {"ready", "out"} }
    BY DEF Init
  <2>2. PICK stage \in {"ready", "out"} : rows[t] = [NoRow EXCEPT !.stage = stage]
    BY <2>1
  <2>3. rows[t] = [stage |-> stage, holder |-> Nobody, since |-> 0, until |-> 0]
    BY <2>2 DEF NoRow
  <2>4. QED  BY <2>3 DEF Row, Stages, LeaseColumns
<1>2. TypeOK  BY <1>1, IdleIsACall DEF Init, TypeOK
<1>3. CallsHaveStarted /\ PendingRows
  BY IdleIsACall DEF Init, CallsHaveStarted, PendingRows
<1>4. LocksAreHeld  BY NullsAssumption, IdleIsACall DEF Init, LocksAreHeld
<1>5. QED  BY <1>2, <1>3, <1>4 DEF Consistent

\* A step of a call that neither has nor gets a lock.
LEMMA QuietStep ==
  ASSUME Consistent, NEW s \in Sessions, NEW c \in Call,
         call[s].pc # "locked", c.pc # "locked", c.pc # "idle" => Started(c),
         call' = [call EXCEPT ![s] = c],
         UNCHANGED <<rows, lock, told, clock>>, calls' \in Nat
  PROVE  Consistent'
<1>1. TypeOK'  BY DEF Consistent, TypeOK
<1>2. CallsHaveStarted'
  BY DEF Consistent, TypeOK, CallsHaveStarted, Started
<1>3. LocksAreHeld'  BY DEF Consistent, TypeOK, LocksAreHeld
<1>4. PendingRows'  BY DEF Consistent, TypeOK, PendingRows, Licensed
<1>5. QED  BY <1>1, <1>2, <1>3, <1>4 DEF Consistent

\* A statement gets the lock of its row.
LEMMA LockStep ==
  ASSUME Consistent, NEW s \in Sessions, NEW t \in Tickets, NEW row \in Row,
         NEW outcome \in Outcomes, Lock(s, t, row, outcome),
         call[s].pc \in {"ready", "waiting"},
         NEW c, c = [call[s] EXCEPT !.pc = "locked", !.ticket = t, !.row = row, !.outcome = outcome],
         Licensed(c, rows[t])
  PROVE  Consistent'
<1>1. c \in Call  BY ZenonT(60) DEF Consistent, TypeOK, Call, PCs
<1>2. call' = [call EXCEPT ![s] = c]  BY DEF Lock
<1>3. /\ c.pc = "locked" /\ c.ticket = t /\ c.op = call[s].op /\ c.holder = call[s].holder
      /\ c.now = call[s].now /\ c.ttl = call[s].ttl
  BY DEF Consistent, TypeOK, Call
<1>4. TypeOK'  BY <1>1, <1>2 DEF Lock, Consistent, TypeOK
<1>5. CallsHaveStarted'
  BY <1>2, <1>3 DEF Lock, Consistent, TypeOK, CallsHaveStarted, Started
<1>6. LocksAreHeld'
  BY <1>2, <1>3, NullsAssumption DEF Lock, Consistent, TypeOK, LocksAreHeld
<1>7. PendingRows'
  BY <1>2, <1>3 DEF Lock, Consistent, TypeOK, PendingRows, Licensed
<1>8. QED  BY <1>4, <1>5, <1>6, <1>7 DEF Consistent

----------------------------------------------------------------------------
(* The steps of a call *)

LEMMA BeginStep ==
  ASSUME Consistent, NEW s \in Sessions, NEW request \in Call, Begin(s, request),
         request.op \in Ops,
         request.op # "move" => request.holder \in Holders,
         request.op \in {"claim", "claim_next"} => request.ttl \in Durations,
         request.op # "claim_next" => request.ticket \in Tickets
  PROVE  Consistent'
<1> DEFINE c == [request EXCEPT !.pc = "ready", !.now = clock]
<1>1. c \in Call  BY DEF Consistent, TypeOK, Call, PCs
<1>2. c.pc = "ready" /\ Started(c)
  BY DEF Consistent, TypeOK, CallsHaveStarted, Started, Call
<1>3. calls' \in Nat  BY DEF Begin, Consistent, TypeOK
<1>4. /\ call[s].pc # "locked"
      /\ call' = [call EXCEPT ![s] = c]
      /\ UNCHANGED <<rows, lock, told, clock>>
  BY SMTT(30) DEF Begin
<1> HIDE DEF c
<1>5. QED  BY <1>1, <1>2, <1>3, <1>4, QuietStep

LEMMA RequestStep ==
  ASSUME Consistent, NEW s \in Sessions, Request(s)
  PROVE  Consistent'
<1> USE DEF Ops
<1>1. ASSUME NEW h \in Holders, NEW t \in Tickets, NEW ttl \in Durations,
             Begin(s, [Idle EXCEPT !.op = "claim", !.holder = h, !.ticket = t, !.ttl = ttl])
      PROVE  Consistent'
  <2> DEFINE r == [Idle EXCEPT !.op = "claim", !.holder = h, !.ticket = t, !.ttl = ttl]
  <2>1. r \in Call  BY IdleIsACall, DurationsAssumption DEF Call
  <2>2. r.op = "claim" /\ r.holder = h /\ r.ticket = t /\ r.ttl = ttl  BY DEF Idle
  <2> HIDE DEF r
  <2>3. QED  BY <1>1, <2>1, <2>2, BeginStep DEF r
<1>2. ASSUME NEW h \in Holders, NEW ttl \in Durations,
             Begin(s, [Idle EXCEPT !.op = "claim_next", !.holder = h, !.ttl = ttl])
      PROVE  Consistent'
  <2> DEFINE r == [Idle EXCEPT !.op = "claim_next", !.holder = h, !.ttl = ttl]
  <2>1. r \in Call  BY IdleIsACall, DurationsAssumption DEF Call
  <2>2. r.op = "claim_next" /\ r.holder = h /\ r.ttl = ttl  BY DEF Idle
  <2>3. QED  BY <1>2, <2>1, <2>2, BeginStep
<1>3. ASSUME NEW h \in Holders, NEW t \in Tickets,
             Begin(s, [Idle EXCEPT !.op = "release", !.holder = h, !.ticket = t])
      PROVE  Consistent'
  <2> DEFINE r == [Idle EXCEPT !.op = "release", !.holder = h, !.ticket = t]
  <2>1. r \in Call  BY IdleIsACall DEF Call
  <2>2. r.op = "release" /\ r.holder = h /\ r.ticket = t  BY DEF Idle
  <2>3. QED  BY <1>3, <2>1, <2>2, BeginStep
<1>4. ASSUME NEW t \in Tickets, NEW stage \in Stages,
             Begin(s, [Idle EXCEPT !.op = "move", !.ticket = t, !.stage = stage])
      PROVE  Consistent'
  <2> DEFINE r == [Idle EXCEPT !.op = "move", !.ticket = t, !.stage = stage]
  <2>1. r \in Call  BY IdleIsACall DEF Call
  <2>2. r.op = "move" /\ r.ticket = t  BY DEF Idle
  <2>3. QED  BY <1>4, <2>1, <2>2, BeginStep
<1>5. QED  BY <1>1, <1>2, <1>3, <1>4 DEF Request

\* A lease that is granted has its columns in order, and takes over or renews.
LEMMA GrantedIsLicensed ==
  ASSUME Consistent, NEW s \in Sessions, call[s].op = "claim", call[s].pc \in {"ready", "waiting"},
         Grantable(rows[call[s].ticket], call[s]),
         NEW c, c = [call[s] EXCEPT !.pc = "locked", !.ticket = call[s].ticket,
                                    !.row = Granted(rows[call[s].ticket], call[s]),
                                    !.outcome = "claimed"]
  PROVE  Granted(rows[call[s].ticket], call[s]) \in Row /\ Licensed(c, rows[call[s].ticket])
<1> DEFINE row == rows[call[s].ticket]
           new == Granted(row, call[s])
<1>1. /\ call[s].ticket \in Tickets /\ call[s].holder \in Holders /\ call[s].ttl \in Durations
      /\ call[s].now \in Nat /\ call[s].now > 0
  BY DEF Consistent, TypeOK, CallsHaveStarted, Started, Call
<1>2. call[s].ttl \in Nat /\ call[s].ttl > 0  BY <1>1, DurationsAssumption
<1>3. row \in Row /\ LeaseColumns(row)  BY <1>1 DEF Consistent, TypeOK
<1>4. call[s].holder # Nobody  BY <1>1, NullsAssumption
<1>5. c.row = new /\ c.outcome = "claimed" /\ c.holder = call[s].holder /\ c.now = call[s].now
  BY DEF Consistent, TypeOK, Call
<1>6. CASE Renewing(row, call[s])
  <2>1. new = [row EXCEPT !.holder = call[s].holder,
                          !.until = Later(row.until + 1, call[s].now + call[s].ttl)]
    BY <1>3, <1>6 DEF Granted, Row
  <2>2. Later(row.until + 1, call[s].now + call[s].ttl) \in Nat
        /\ Later(row.until + 1, call[s].now + call[s].ttl) > row.until
    BY <1>1, <1>2, <1>3 DEF Later, Row
  <2>3. /\ new \in Row /\ new.holder = call[s].holder /\ new.since = row.since
        /\ new.until > row.until
    BY <1>1, <1>3, <2>1, <2>2 DEF Row
  <2>4. row.holder = call[s].holder  BY <1>6 DEF Renewing
  <2>5. LeaseColumns(new)  BY <1>3, <1>4, <2>3, <2>4 DEF LeaseColumns, Row
  <2>6. QED  BY <1>1, <1>3, <1>5, <2>3, <2>4, <2>5 DEF Licensed, Row
<1>7. CASE ~ Renewing(row, call[s])
  <2> DEFINE end == call[s].now + call[s].ttl
  <2>1. new = [row EXCEPT !.holder = call[s].holder, !.since = call[s].now, !.until = end]
    BY <1>7 DEF Granted
  <2>0. end \in Nat /\ call[s].now < end  BY <1>1, <1>2
  <2> HIDE DEF end, new
  <2>2. /\ new \in Row /\ new.holder = call[s].holder /\ new.since = call[s].now
        /\ new.until = end
    BY <1>1, <1>3, <2>0, <2>1 DEF Row
  <2>3. LeaseColumns(new)  BY <1>1, <1>4, <2>0, <2>2 DEF LeaseColumns
  <2>4. ~ (row.until > call[s].now)  BY <1>1, <1>3, <1>7 DEF Grantable, Renewing, Row
  <2>5. QED  BY <1>1, <1>5, <2>2, <2>3, <2>4 DEF Licensed, new
<1>8. QED  BY <1>6, <1>7

\* A step under the lock that leaves the lease as it is: a refused claim, a move.
LEMMA SameLeaseStep ==
  ASSUME Consistent, NEW s \in Sessions, call[s].pc \in {"ready", "waiting"},
         call[s].ticket \in Tickets, NEW stage \in Stages,
         NEW outcome \in Outcomes \ {"claimed", "released"}, NEW row,
         row = [rows[call[s].ticket] EXCEPT !.stage = stage],
         Lock(s, call[s].ticket, row, outcome)
  PROVE  Consistent'
<1> DEFINE old == rows[call[s].ticket]
           c == [call[s] EXCEPT !.pc = "locked", !.ticket = call[s].ticket, !.row = row,
                                !.outcome = outcome]
<1>1. old \in Row /\ LeaseColumns(old)  BY DEF Consistent, TypeOK
<1>2. /\ row \in Row /\ row.holder = old.holder /\ row.since = old.since
      /\ row.until = old.until
  BY <1>1 DEF Row
<1>3. LeaseColumns(row)  BY <1>1, <1>2 DEF LeaseColumns
<1>4. c.row = row /\ c.outcome = outcome  BY DEF Consistent, TypeOK, Call
<1>5. Licensed(c, old)  BY <1>2, <1>3, <1>4 DEF Licensed
<1> HIDE DEF c
<1>6. QED  BY <1>2, <1>5, LockStep DEF c

LEMMA ClaimStep ==
  ASSUME Consistent, NEW s \in Sessions, Claim(s) \/ ClaimWaits(s) \/ ClaimWakes(s)
  PROVE  Consistent'
<1>0. call[s] \in Call /\ call[s].pc \in {"ready", "waiting"}
  BY DEF Consistent, TypeOK, Claim, ClaimWaits, ClaimWakes
<1>1. call[s].op = "claim" /\ call[s].ticket \in Tickets /\ Started(call[s])
  BY <1>0 DEF Consistent, CallsHaveStarted, Started, Claim, ClaimWaits, ClaimWakes
<1> DEFINE row == rows[call[s].ticket]
<1>2. row \in Row  BY <1>1 DEF Consistent, TypeOK
<1>3. CASE ClaimWaits(s)
  <2> DEFINE c == [call[s] EXCEPT !.pc = "waiting", !.found = Grantable(row, call[s])]
  <2>1. Grantable(row, call[s]) \in BOOLEAN  BY DEF Grantable
  <2>2. c \in Call /\ c.pc = "waiting"  BY <1>0, <2>1 DEF Call, PCs
  <2>3. /\ c.now = call[s].now /\ c.op = call[s].op /\ c.holder = call[s].holder
        /\ c.ttl = call[s].ttl /\ c.ticket = call[s].ticket
    BY <1>0 DEF Call
  <2>4. Started(c)  BY <1>1, <2>2, <2>3 DEF Started
  <2>5. /\ call' = [call EXCEPT ![s] = c] /\ UNCHANGED <<rows, lock, told, clock, calls>>
    BY <1>3 DEF ClaimWaits
  <2>6. calls' \in Nat  BY <2>5 DEF Consistent, TypeOK
  <2> HIDE DEF c
  <2>7. QED  BY <1>0, <2>2, <2>4, <2>5, <2>6, QuietStep
<1>4. ASSUME NEW found, ClaimUnderLock(s, found)  PROVE Consistent'
  <2>1. CASE found /\ Grantable(row, call[s])
    <3> DEFINE new == Granted(row, call[s])
               c == [call[s] EXCEPT !.pc = "locked", !.ticket = call[s].ticket, !.row = new,
                                    !.outcome = "claimed"]
    <3>1. Lock(s, call[s].ticket, new, "claimed")  BY <1>4, <2>1 DEF ClaimUnderLock
    <3>2. new \in Row /\ Licensed(c, row)  BY <1>0, <1>1, <2>1, GrantedIsLicensed
    <3>3. "claimed" \in Outcomes  BY DEF Outcomes
    <3> HIDE DEF new, c
    <3>4. QED  BY <1>0, <1>1, <3>1, <3>2, <3>3, LockStep DEF c
  <2>2. CASE ~ (found /\ Grantable(row, call[s]))
    <3> DEFINE outcome == Refusal(row, call[s])
    <3>1. Lock(s, call[s].ticket, row, outcome)  BY <1>4, <2>2 DEF ClaimUnderLock
    <3>2. outcome \in Outcomes \ {"claimed", "released"}  BY DEF Refusal, Outcomes
    <3>3. row = [row EXCEPT !.stage = row.stage] /\ row.stage \in Stages  BY <1>2 DEF Row
    <3> HIDE DEF outcome
    <3>4. QED  BY <1>0, <1>1, <3>1, <3>2, <3>3, SameLeaseStep
  <2>3. QED  BY <2>1, <2>2
<1>5. QED  BY <1>3, <1>4 DEF Claim, ClaimWakes

LEMMA AnswerStep ==
  ASSUME Consistent, NEW s \in Sessions, call[s].pc # "locked", Reply(s),
         UNCHANGED <<rows, lock, told, clock, calls>>
  PROVE  Consistent'
<1>1. calls' \in Nat  BY DEF Consistent, TypeOK
<1>2. QED  BY <1>1, IdleIsACall, QuietStep DEF Reply

LEMMA ClaimNextStep ==
  ASSUME Consistent, NEW s \in Sessions, ClaimNext(s)
  PROVE  Consistent'
<1>0. /\ call[s] \in Call /\ call[s].pc = "ready" /\ call[s].op = "claim_next"
      /\ Started(call[s])
  BY DEF Consistent, TypeOK, CallsHaveStarted, ClaimNext
<1>1. /\ call[s].holder \in Holders /\ call[s].ttl \in Nat /\ call[s].ttl > 0
      /\ call[s].now \in Nat /\ call[s].now > 0
  BY <1>0, DurationsAssumption DEF Started, Call
<1>2. ASSUME NEW t \in Candidates(call[s]),
             Lock(s, t, [rows[t] EXCEPT !.holder = call[s].holder, !.since = call[s].now,
                                        !.until = call[s].now + call[s].ttl], "claimed")
      PROVE  Consistent'
  <2> DEFINE end == call[s].now + call[s].ttl
             row == [rows[t] EXCEPT !.holder = call[s].holder, !.since = call[s].now,
                                    !.until = end]
             c == [call[s] EXCEPT !.pc = "locked", !.ticket = t, !.row = row,
                                  !.outcome = "claimed"]
  <2>1. t \in Tickets /\ rows[t].until =< call[s].now  BY <1>2 DEF Candidates
  <2>2. rows[t] \in Row  BY <2>1 DEF Consistent, TypeOK
  <2>0. end \in Nat /\ call[s].now < end  BY <1>1
  <2> HIDE DEF end
  <2>3. /\ row \in Row /\ row.holder = call[s].holder /\ row.since = call[s].now
        /\ row.until = end
    BY <1>1, <2>0, <2>2 DEF Row
  <2>4. LeaseColumns(row)  BY <1>1, <2>0, <2>3, NullsAssumption DEF LeaseColumns
  <2>5. /\ c.row = row /\ c.outcome = "claimed" /\ c.holder = call[s].holder
        /\ c.now = call[s].now
    BY <1>0 DEF Call
  <2>6. ~ (rows[t].until > call[s].now)  BY <1>1, <2>1, <2>2 DEF Row
  <2>7. Licensed(c, rows[t])  BY <1>1, <2>3, <2>4, <2>5, <2>6 DEF Licensed
  <2>8. "claimed" \in Outcomes /\ call[s].pc \in {"ready", "waiting"}  BY <1>0 DEF Outcomes
  <2> HIDE DEF c
  <2>9. QED  BY <1>2, <2>1, <2>3, <2>7, <2>8, LockStep DEF c, end
<1>3. QED  BY <1>0, <1>2, AnswerStep DEF ClaimNext

LEMMA ReleaseStep ==
  ASSUME Consistent, NEW s \in Sessions, Release(s) \/ ReleaseMissed(s) \/ ReleaseReread(s)
  PROVE  Consistent'
<1>0. call[s] \in Call /\ call[s].pc \in {"ready", "missed"}
  BY DEF Consistent, TypeOK, Release, ReleaseMissed, ReleaseReread
<1>1. Started(call[s])  BY <1>0 DEF Consistent, CallsHaveStarted
<1>2. CASE Release(s)
  <2> DEFINE old == rows[call[s].ticket]
             row == Released(old)
             c == [call[s] EXCEPT !.pc = "locked", !.ticket = call[s].ticket, !.row = row,
                                  !.outcome = "released"]
  <2>1. /\ call[s].op = "release" /\ call[s].pc = "ready" /\ Releasable(old, call[s])
        /\ Lock(s, call[s].ticket, row, "released")
    BY <1>2 DEF Release
  <2>2. call[s].ticket \in Tickets /\ call[s].holder \in Holders
    BY <1>1, <2>1 DEF Started
  <2>3. old \in Row  BY <2>2 DEF Consistent, TypeOK
  <2>4. row \in Row /\ row.holder = Nobody /\ row.since = 0 /\ row.until = 0
    BY <2>3 DEF Released, Row
  <2>5. LeaseColumns(row)  BY <2>4 DEF LeaseColumns
  <2>6. /\ c.row = row /\ c.outcome = "released" /\ c.holder = call[s].holder
        /\ c.op = call[s].op
    BY <1>0 DEF Call
  <2>7. Licensed(c, old)
    BY <2>1, <2>2, <2>4, <2>5, <2>6 DEF Licensed, Releasable
  <2>8. "released" \in Outcomes  BY DEF Outcomes
  <2> HIDE DEF c, row
  <2>9. QED  BY <2>1, <2>2, <2>4, <2>7, <2>8, LockStep DEF c
<1>3. CASE ReleaseMissed(s)
  <2> DEFINE c == [call[s] EXCEPT !.pc = "missed"]
  <2>1. c \in Call /\ c.pc = "missed"  BY <1>0 DEF Call, PCs
  <2>2. /\ c.now = call[s].now /\ c.op = call[s].op /\ c.holder = call[s].holder
        /\ c.ttl = call[s].ttl /\ c.ticket = call[s].ticket
    BY <1>0 DEF Call
  <2>3. call[s].op = "release"  BY <1>3 DEF ReleaseMissed
  <2>4. Started(c)  BY <1>1, <2>1, <2>2, <2>3 DEF Started
  <2>5. /\ call' = [call EXCEPT ![s] = c] /\ UNCHANGED <<rows, lock, told, clock, calls>>
    BY <1>3 DEF ReleaseMissed
  <2>6. calls' \in Nat  BY <2>5 DEF Consistent, TypeOK
  <2> HIDE DEF c
  <2>7. QED  BY <1>0, <2>1, <2>4, <2>5, <2>6, QuietStep
<1>4. CASE ReleaseReread(s)  BY <1>0, <1>4, AnswerStep DEF ReleaseReread
<1>5. QED  BY <1>2, <1>3, <1>4

LEMMA MoveStep ==
  ASSUME Consistent, NEW s \in Sessions, Move(s)
  PROVE  Consistent'
<1>1. call[s] \in Call /\ call[s].pc = "ready" /\ call[s].op = "move"
  BY DEF Consistent, TypeOK, Move
<1>2. call[s].ticket \in Tickets  BY <1>1 DEF Consistent, CallsHaveStarted, Started
<1>3. "moved" \in Outcomes \ {"claimed", "released"} /\ call[s].stage \in Stages
  BY <1>1 DEF Outcomes, Call
<1>4. Lock(s, call[s].ticket, [rows[call[s].ticket] EXCEPT !.stage = call[s].stage], "moved")
  BY DEF Move
<1>5. QED  BY <1>1, <1>2, <1>3, <1>4, SameLeaseStep

----------------------------------------------------------------------------
(* The ends of a call *)

\* What the COMMIT of a call does to the row it has locked, and to what its
\* holder has been told.
LEMMA Commits ==
  ASSUME Consistent, NEW s \in Sessions, Finish(s)
  PROVE  /\ call[s] \in Call /\ call[s].pc = "locked" /\ call[s].ticket \in Tickets
         /\ Started(call[s])
         /\ rows[call[s].ticket] \in Row /\ call[s].row \in Row
         /\ Licensed(call[s], rows[call[s].ticket])
         /\ rows' = [rows EXCEPT ![call[s].ticket] = call[s].row]
         /\ lock' = [lock EXCEPT ![call[s].ticket] = Free]
         /\ call' = [call EXCEPT ![s] = Idle]
         /\ UNCHANGED <<clock, calls>>
<1>1. call[s] \in Call /\ call[s].pc = "locked"  BY DEF Consistent, TypeOK, Finish
<1>2. Started(call[s])  BY <1>1 DEF Consistent, CallsHaveStarted
<1>3. call[s].ticket \in Tickets  BY <1>1, <1>2 DEF Started
<1>4. rows[call[s].ticket] \in Row /\ call[s].row \in Row
  BY <1>1, <1>3 DEF Consistent, TypeOK, Call
<1>5. Licensed(call[s], rows[call[s].ticket])  BY <1>1 DEF Consistent, PendingRows
<1>6. QED  BY <1>1, <1>2, <1>3, <1>4, <1>5 DEF Finish, Reply

LEMMA FinishStep ==
  ASSUME Consistent, NEW s \in Sessions, Finish(s)
  PROVE  Consistent'
<1> DEFINE c == call[s]
           t == c.ticket
<1>1. /\ c \in Call /\ c.pc = "locked" /\ t \in Tickets /\ c.row \in Row
      /\ LeaseColumns(c.row)
      /\ c.outcome \in {"claimed", "released"} => c.holder \in Holders
      /\ rows' = [rows EXCEPT ![t] = c.row]
      /\ lock' = [lock EXCEPT ![t] = Free]
      /\ call' = [call EXCEPT ![s] = Idle]
      /\ UNCHANGED <<clock, calls>>
  BY Commits DEF Licensed
<1>2. told' \in [Holders -> [Tickets -> Nat]]
  <2>1. c.row.until \in Nat  BY <1>1 DEF Row
  <2>2. told' = CASE c.outcome = "claimed"  -> [told EXCEPT ![c.holder][t] = c.row.until]
                  [] c.outcome = "released" -> [told EXCEPT ![c.holder][t] = 0]
                  [] OTHER                  -> told
    BY DEF Finish
  <2>3. QED  BY <1>1, <2>1, <2>2 DEF Consistent, TypeOK
<1>3. TypeOK'  BY <1>1, <1>2, IdleIsACall DEF Consistent, TypeOK
<1>4. CallsHaveStarted'
  BY <1>1, IdleIsACall DEF Consistent, TypeOK, CallsHaveStarted, Started
<1>5. LocksAreHeld'
  BY <1>1, IdleIsACall, NullsAssumption DEF Consistent, TypeOK, LocksAreHeld
<1>6. PendingRows'
  <2> SUFFICES ASSUME NEW r \in Sessions, call'[r].pc = "locked"
               PROVE  Licensed(call'[r], rows'[call'[r].ticket])
    BY DEF PendingRows, Licensed
  <2>1. r # s /\ call'[r] = call[r]  BY <1>1, IdleIsACall DEF Consistent, TypeOK
  <2>2. call[r].ticket \in Tickets
    BY <2>1 DEF Consistent, CallsHaveStarted, Started
  <2>3. call[r].ticket # t
    BY <1>1, <2>1, <2>2 DEF Consistent, LocksAreHeld
  <2>4. rows'[call[r].ticket] = rows[call[r].ticket]
    BY <1>1, <2>2, <2>3 DEF Consistent, TypeOK
  <2>5. QED  BY <2>1, <2>4 DEF Consistent, PendingRows
<1>7. QED  BY <1>3, <1>4, <1>5, <1>6 DEF Consistent

LEMMA CrashStep ==
  ASSUME Consistent, NEW s \in Sessions, Crash(s)
  PROVE  Consistent'
<1>1. TypeOK'  BY IdleIsACall DEF Crash, Consistent, TypeOK
<1>2. CallsHaveStarted'
  BY IdleIsACall DEF Crash, Consistent, TypeOK, CallsHaveStarted, Started
<1>3. LocksAreHeld'
  BY IdleIsACall, NullsAssumption DEF Crash, Consistent, TypeOK, LocksAreHeld
<1>4. PendingRows'
  BY IdleIsACall DEF Crash, Consistent, TypeOK, PendingRows, Licensed
<1>5. QED  BY <1>1, <1>2, <1>3, <1>4 DEF Consistent

LEMMA TickStep ==
  ASSUME Consistent, Tick
  PROVE  Consistent'
<1>1. TypeOK'  BY DEF Tick, Consistent, TypeOK
<1>2. CallsHaveStarted'
  BY DEF Tick, Consistent, TypeOK, CallsHaveStarted, Started
<1>3. LocksAreHeld' /\ PendingRows'
  BY DEF Tick, Consistent, LocksAreHeld, PendingRows, Licensed
<1>4. QED  BY <1>1, <1>2, <1>3 DEF Consistent

LEMMA ConsistentStep == Consistent /\ [Next]_vars => Consistent'
<1> SUFFICES ASSUME Consistent, [Next]_vars PROVE Consistent'  OBVIOUS
<1>1. CASE UNCHANGED vars
  BY <1>1 DEF vars, Consistent, TypeOK, CallsHaveStarted, Started, LocksAreHeld,
              PendingRows, Licensed
<1>2. CASE Next
  BY <1>2, TickStep, RequestStep, ClaimStep, ClaimNextStep, ReleaseStep, MoveStep,
     FinishStep, CrashStep
  DEF Next, Continue
<1>3. QED  BY <1>1, <1>2

\* Types hold in every state, and the columns of a lease are NULL together.
\* With them: a row has one writer at a time, and what that writer is about to
\* commit takes a lease that has ended, renews its own, ends its own or leaves
\* the lease alone.
THEOREM LeaseTypesCorrect == Spec => [](TypeOK /\ LocksAreHeld /\ PendingRows)
<1>1. Consistent => TypeOK /\ LocksAreHeld /\ PendingRows  BY DEF Consistent
<1>2. QED  BY <1>1, InitIsConsistent, ConsistentStep, PTL DEF Spec

----------------------------------------------------------------------------
(* What the licence is for *)

\* Only a COMMIT changes a row, or what a holder has been told.
LEMMA OnlyFinishWrites ==
  ASSUME Next
  PROVE  \/ UNCHANGED <<rows, told>>
         \/ \E s \in Sessions : Finish(s)
<1>1. CASE Tick  BY <1>1 DEF Tick
<1>2. ASSUME NEW s \in Sessions, Request(s)  PROVE UNCHANGED <<rows, told>>
  BY <1>2 DEF Request, Begin
<1>3. ASSUME NEW s \in Sessions, Crash(s)  PROVE UNCHANGED <<rows, told>>
  BY <1>3 DEF Crash
<1>4. ASSUME NEW s \in Sessions, Claim(s) \/ ClaimWaits(s) \/ ClaimWakes(s)
      PROVE UNCHANGED <<rows, told>>
  BY <1>4 DEF Claim, ClaimWaits, ClaimWakes, ClaimUnderLock, Lock
<1>5. ASSUME NEW s \in Sessions, ClaimNext(s) \/ Move(s)  PROVE UNCHANGED <<rows, told>>
  BY <1>5 DEF ClaimNext, Move, Lock
<1>6. ASSUME NEW s \in Sessions, Release(s) \/ ReleaseMissed(s) \/ ReleaseReread(s)
      PROVE UNCHANGED <<rows, told>>
  BY <1>6 DEF Release, ReleaseMissed, ReleaseReread, Lock
<1>7. QED  BY <1>1, <1>2, <1>3, <1>4, <1>5, <1>6 DEF Next, Continue

LEMMA FinishHonours ==
  ASSUME Consistent, LeaseIsHonoured, NEW s \in Sessions, Finish(s)
  PROVE  LeaseIsHonoured'
<1> DEFINE c == call[s]
           t == c.ticket
<1>1. /\ c \in Call /\ t \in Tickets /\ c.row \in Row /\ rows[t] \in Row
      /\ Licensed(c, rows[t])
      /\ rows' = [rows EXCEPT ![t] = c.row]
      /\ clock' = clock
  BY Commits
<1>2. clock \in Nat /\ c.now \in Nat /\ c.now =< clock
  BY Commits DEF Consistent, TypeOK, Started
<1>3. rows[t].until \in Nat /\ c.row.until \in Nat  BY <1>1 DEF Row
<1>4. told \in [Holders -> [Tickets -> Nat]] /\ rows \in [Tickets -> Row]
  BY DEF Consistent, TypeOK
<1> SUFFICES ASSUME NEW h \in Holders, NEW u \in Tickets, told'[h][u] > clock
             PROVE  rows'[u].holder = h /\ rows'[u].until >= told'[h][u]
  BY <1>1 DEF LeaseIsHonoured
<1>5. told' = CASE c.outcome = "claimed"  -> [told EXCEPT ![c.holder][t] = c.row.until]
                [] c.outcome = "released" -> [told EXCEPT ![c.holder][t] = 0]
                [] OTHER                  -> told
  BY DEF Finish
<1>6. told[h][u] \in Nat  BY <1>4
<1>7. told[h][u] > clock => rows[u].holder = h /\ rows[u].until >= told[h][u]
  BY DEF LeaseIsHonoured
<1>8. CASE u # t
  <2>1. told'[h][u] = told[h][u]  BY <1>4, <1>5, <1>8
  <2>2. rows'[u] = rows[u]  BY <1>1, <1>4, <1>8
  <2>3. QED  BY <1>7, <2>1, <2>2
<1>9. CASE u = t
  <2>1. rows'[u] = c.row  BY <1>1, <1>4, <1>9
  <2>2. CASE c.outcome = "claimed"
    <3>1. /\ c.row.holder = c.holder /\ c.holder \in Holders
          /\ rows[t].until > c.now => rows[t].holder = c.holder
      BY <1>1, <2>2 DEF Licensed
    <3>2. told' = [told EXCEPT ![c.holder][t] = c.row.until]  BY <1>5, <2>2
    <3>3. CASE h = c.holder
      <4>1. told'[h][u] = c.row.until  BY <1>4, <1>9, <3>2, <3>3
      <4>2. QED  BY <1>3, <2>1, <3>1, <3>3, <4>1
    <3>4. CASE h # c.holder
      <4>1. told'[h][u] = told[h][u]  BY <1>4, <3>2, <3>4
      <4>2. rows[t].holder = h /\ rows[t].until >= told[h][u] /\ told[h][u] > clock
        BY <1>7, <1>9, <4>1
      <4>3. rows[t].until > c.now  BY <1>2, <1>3, <1>6, <4>2
      <4>4. QED  BY <3>1, <3>4, <4>2, <4>3
    <3>5. QED  BY <3>3, <3>4
  <2>3. CASE c.outcome = "released"
    <3>1. rows[t].holder = c.holder /\ c.holder \in Holders
      BY <1>1, <2>3 DEF Licensed
    <3>2. told' = [told EXCEPT ![c.holder][t] = 0]  BY <1>5, <2>3
    <3>3. h # c.holder
      <4>1. h = c.holder => told'[h][u] = 0  BY <1>4, <1>9, <3>1, <3>2
      <4>2. QED  BY <1>2, <4>1
    <3>4. told'[h][u] = told[h][u]  BY <1>4, <3>2, <3>3
    <3>5. QED  BY <1>7, <1>9, <3>1, <3>3, <3>4
  <2>4. CASE c.outcome \notin {"claimed", "released"}
    <3>1. c.row.holder = rows[t].holder /\ c.row.until = rows[t].until
      BY <1>1, <2>4 DEF Licensed
    <3>2. told' = told  BY <1>5, <2>4
    <3>3. QED  BY <1>7, <1>9, <2>1, <3>1, <3>2
  <2>5. QED  BY <2>2, <2>3, <2>4
<1>10. QED  BY <1>8, <1>9

LEMMA HonouredStep ==
  Consistent /\ LeaseIsHonoured /\ [Next]_vars => LeaseIsHonoured'
<1> SUFFICES ASSUME Consistent, LeaseIsHonoured, [Next]_vars PROVE LeaseIsHonoured'
  OBVIOUS
<1>1. CASE \E s \in Sessions : Finish(s)  BY <1>1, FinishHonours
<1>2. CASE UNCHANGED <<rows, told>>
  <2>1. clock \in Nat /\ clock' \in Nat  BY ConsistentStep DEF Consistent, TypeOK
  <2>2. clock' >= clock
    <3>1. CASE UNCHANGED vars  BY <2>1, <3>1 DEF vars
    <3>2. CASE Tick  BY SMTT(30), <2>1, <3>2 DEF Tick
    <3>3. ASSUME NEW s \in Sessions, Request(s) \/ Continue(s) \/ Crash(s)
          PROVE  clock' = clock
      BY <3>3 DEF Request, Begin, Continue, Claim, ClaimWaits, ClaimWakes, ClaimUnderLock,
                  ClaimNext, Release, ReleaseMissed, ReleaseReread, Move, Lock, Finish, Crash
    <3>4. QED  BY <2>1, <3>1, <3>2, <3>3 DEF Next
  <2>3. told \in [Holders -> [Tickets -> Nat]]  BY DEF Consistent, TypeOK
  <2>4. QED  BY <1>2, <2>1, <2>2, <2>3 DEF LeaseIsHonoured
<1>3. QED  BY <1>1, <1>2, OnlyFinishWrites DEF vars

\* A holder that was answered "yours until T" has the ticket until T, however
\* long the statements of other calls waited before they ran.
THEOREM LeaseHonoured == Spec => []LeaseIsHonoured
<1>1. Init => LeaseIsHonoured
  <2> SUFFICES ASSUME Init, NEW h \in Holders, NEW t \in Tickets
               PROVE  ~ (told[h][t] > clock)
    BY DEF LeaseIsHonoured
  <2>1. told[h][t] = 0 /\ clock = 1  BY DEF Init
  <2>2. QED  BY <2>1
<1>2. QED  BY <1>1, InitIsConsistent, ConsistentStep, HonouredStep, PTL DEF Spec

\* A step from a consistent state keeps every live lease, or is the COMMIT of
\* its holder's release.
LEMMA LiveLeaseStep ==
  ASSUME Consistent, [Next]_vars, NEW t \in Tickets, Live(rows[t], clock)
  PROVE  \/ /\ rows'[t].holder = rows[t].holder
            /\ rows'[t].since = rows[t].since
            /\ rows'[t].until >= rows[t].until
         \/ \E s \in Sessions : /\ call[s].op = "release"
                                /\ call[s].ticket = t
                                /\ call[s].holder = rows[t].holder
                                /\ rows'[t].holder = Nobody
<1>1. rows[t] \in Row /\ clock \in Nat /\ rows \in [Tickets -> Row]
  BY DEF Consistent, TypeOK
<1>2. rows[t].until \in Nat  BY <1>1 DEF Row
<1>3. CASE rows'[t] = rows[t]  BY <1>2, <1>3
<1>4. ASSUME NEW s \in Sessions, Finish(s), rows'[t] # rows[t]
      PROVE  \/ /\ rows'[t].holder = rows[t].holder
                /\ rows'[t].since = rows[t].since
                /\ rows'[t].until >= rows[t].until
             \/ /\ call[s].op = "release"
                /\ call[s].ticket = t
                /\ call[s].holder = rows[t].holder
                /\ rows'[t].holder = Nobody
  <2> DEFINE c == call[s]
  <2>1. /\ c.ticket \in Tickets /\ Started(c) /\ c.row \in Row
        /\ Licensed(c, rows[c.ticket])
        /\ rows' = [rows EXCEPT ![c.ticket] = c.row]
    BY <1>4, Commits
  <2>2. c.ticket = t /\ rows'[t] = c.row  BY <1>1, <1>4, <2>1
  <2>3. c.now \in Nat /\ c.now =< clock  BY <1>1, <2>1 DEF Started
  <2>4. rows[t].until > c.now  BY <1>1, <1>2, <2>3 DEF Live
  <2>5. c.row.until \in Nat  BY <2>1 DEF Row
  <2>6. Licensed(c, rows[t])  BY <2>1, <2>2
  <2>7. CASE c.outcome = "claimed"
    BY <1>2, <2>2, <2>4, <2>5, <2>6, <2>7 DEF Licensed
  <2>8. CASE c.outcome = "released"
    BY <2>2, <2>6, <2>8 DEF Licensed
  <2>9. CASE c.outcome \notin {"claimed", "released"}
    BY <1>2, <2>2, <2>6, <2>9 DEF Licensed
  <2>10. QED  BY <2>7, <2>8, <2>9
<1>5. QED  BY <1>3, <1>4, OnlyFinishWrites DEF vars

\* A live lease keeps its claimed_at and its end is never moved closer, except
\* by its own holder's release, whatever other agents claim or release.
THEOREM LiveLeaseKept == Spec => LiveLeaseIsKept
<1> DEFINE Kept ==
      \A t \in Tickets : Live(rows[t], clock) =>
         \/ /\ rows'[t].holder = rows[t].holder
            /\ rows'[t].since = rows[t].since
            /\ rows'[t].until >= rows[t].until
         \/ \E s \in Sessions : /\ call[s].op = "release"
                                /\ call[s].ticket = t
                                /\ call[s].holder = rows[t].holder
                                /\ rows'[t].holder = Nobody
<1>1. Consistent /\ [Next]_vars => [Kept]_vars  BY LiveLeaseStep
<1>2. Spec => [][Kept]_vars
  BY <1>1, InitIsConsistent, ConsistentStep, PTL DEF Spec
<1>3. QED  BY <1>2 DEF LiveLeaseIsKept

----------------------------------------------------------------------------
(* The register of leases *)

\* What the register shows of a row at a time.
LEMMA HeldShows ==
  ASSUME NEW row \in Row, NEW now \in Nat
  PROVE  /\ Live(row, now) =>
              /\ Held(row, now) = [holder |-> row.holder, since |-> row.since, until |-> row.until]
              /\ Held(row, now) # Register!Unheld
         /\ ~ Live(row, now) => Held(row, now) = Register!Unheld
<1>1. Live(row, now) => row.holder # Nobody  BY DEF Live
<1>2. QED  BY <1>1 DEF Held, Register!Unheld

\* Time ends the leases that have come to their end, and no other.
LEMMA TickEndsLeases ==
  ASSUME Consistent, Tick
  PROVE  Register!Tick
<1>1. clock' = clock + 1 /\ rows' = rows /\ clock \in Nat  BY DEF Tick, Consistent, TypeOK
<1>2. ASSUME NEW t \in Tickets
      PROVE  Held(rows[t], clock + 1)
               = IF Held(rows[t], clock).until > clock + 1 THEN Held(rows[t], clock)
                 ELSE Register!Unheld
  <2>1. rows[t] \in Row /\ rows[t].until \in Nat  BY DEF Consistent, TypeOK, Row
  <2>2. CASE Live(rows[t], clock + 1)
    <3>1. Live(rows[t], clock)  BY <1>1, <2>1, <2>2 DEF Live
    <3>2. Held(rows[t], clock + 1) = Held(rows[t], clock)  BY <2>2, <3>1 DEF Held
    <3>3. Held(rows[t], clock).until > clock + 1  BY <2>2, <3>1 DEF Held, Live
    <3>4. QED  BY <3>2, <3>3
  <2>3. CASE ~ Live(rows[t], clock + 1)
    <3>1. Held(rows[t], clock + 1) = Register!Unheld  BY <1>1, <2>1, <2>3, HeldShows
    <3>2. ~ (Held(rows[t], clock).until > clock + 1) \/ ~ Live(rows[t], clock)
      BY <2>3 DEF Held, Live
    <3>3. ~ Live(rows[t], clock) => Held(rows[t], clock) = Register!Unheld
      BY <1>1, <2>1, HeldShows
    <3>4. QED  BY <3>1, <3>2, <3>3
  <2>4. QED  BY <2>2, <2>3
<1>3. QED  BY <1>1, <1>2 DEF Register!Tick

\* A COMMIT takes, prolongs or gives up the lease of its one ticket, or leaves
\* the register as it is.
LEMMA CommitIsOnRegister ==
  ASSUME Consistent, NEW s \in Sessions, Finish(s)
  PROVE  [Register!Next]_(Register!registerVars)
<1> DEFINE c == call[s]
           t == c.ticket
           old == Held(rows[t], clock)
           new == Held(c.row, clock)
<1>1. /\ c \in Call /\ t \in Tickets /\ Started(c)
      /\ rows[t] \in Row /\ c.row \in Row
      /\ Licensed(c, rows[t])
      /\ rows' = [rows EXCEPT ![t] = c.row]
      /\ clock' = clock
  BY Commits
<1>2. clock \in Nat /\ rows \in [Tickets -> Row]  BY DEF Consistent, TypeOK
<1>3. c.now \in Nat /\ c.now =< clock  BY <1>1, <1>2 DEF Started
<1>4. /\ rows[t].until \in Nat /\ c.row.until \in Nat /\ c.row.since \in Nat
      /\ rows[t].since \in Nat
  BY <1>1 DEF Row
<1>5. Register!Only(t)
  <2>1. \A u \in Tickets : u # t => rows'[u] = rows[u]  BY <1>1, <1>2
  <2> DEFINE before == [u \in Tickets |-> Held(rows[u], clock)]
             after == [u \in Tickets |-> Held(rows'[u], clock')]
  <2>2. \A u \in Tickets : u # t => after[u] = before[u]  BY <1>1, <2>1
  <2>3. /\ after = [u \in Tickets |-> after[u]]
        /\ before = [u \in Tickets |-> before[u]]
    OBVIOUS
  <2> HIDE DEF before, after
  <2>4. after = [before EXCEPT ![t] = after[t]]  BY <1>1, <2>2, <2>3
  <2>5. QED  BY <1>1, <2>4 DEF Register!Only, before, after
<1>6. rows'[t] = c.row  BY <1>1, <1>2
<1>7. new = old => UNCHANGED [u \in Tickets |-> Held(rows[u], clock)]
  <2>1. \A u \in Tickets : u # t => rows'[u] = rows[u]  BY <1>1, <1>2
  <2>2. QED  BY <1>1, <1>6, <2>1
<1>8. CASE ~ Live(c.row, clock)
  <2>1. new = Register!Unheld  BY <1>1, <1>2, <1>8, HeldShows
  <2>2. CASE old = Register!Unheld
    BY <1>1, <1>7, <2>1, <2>2 DEF Register!registerVars
  <2>3. CASE old # Register!Unheld
    <3>1. Register!GiveUp(t)  BY <1>1, <1>5, <1>6, <2>1, <2>3 DEF Register!GiveUp
    <3>2. QED  BY <1>1, <3>1 DEF Register!Next
  <2>4. QED  BY <2>2, <2>3
<1>9. CASE Live(c.row, clock) /\ ~ Live(rows[t], clock)
  <2>1. old = Register!Unheld  BY <1>1, <1>2, <1>9, HeldShows
  <2>2. new = [holder |-> c.row.holder, since |-> c.row.since, until |-> c.row.until]
    BY <1>1, <1>2, <1>9, HeldShows
  <2>3. c.row.holder \in Holders /\ c.row.until > clock  BY <1>1, <1>9 DEF Live, Row
  <2>5. Register!Take(t)
    BY <1>1, <1>5, <1>6, <2>1, <2>2, <2>3 DEF Register!Take
  <2>6. QED  BY <1>1, <2>5 DEF Register!Next
<1>10. CASE Live(c.row, clock) /\ Live(rows[t], clock)
  <2>1. /\ old = [holder |-> rows[t].holder, since |-> rows[t].since, until |-> rows[t].until]
        /\ new = [holder |-> c.row.holder, since |-> c.row.since, until |-> c.row.until]
        /\ old # Register!Unheld
    BY <1>1, <1>2, <1>10, HeldShows
  <2>2. rows[t].until > c.now /\ c.row.holder # Nobody
    BY <1>2, <1>3, <1>4, <1>10 DEF Live
  <2>3. /\ c.row.holder = rows[t].holder
        /\ c.row.since = rows[t].since
        /\ c.row.until >= rows[t].until
    BY <1>1, <1>4, <2>2 DEF Licensed
  <2>4. CASE c.row.until = rows[t].until
    <3>1. new = old  BY <2>1, <2>3, <2>4
    <3>2. QED  BY <1>1, <1>7, <3>1 DEF Register!registerVars
  <2>5. CASE c.row.until > rows[t].until
    <3>1. Register!Prolong(t)
      BY <1>1, <1>5, <1>6, <2>1, <2>3, <2>5 DEF Register!Prolong
    <3>2. QED  BY <1>1, <3>1 DEF Register!Next
  <2>6. QED  BY <1>4, <2>3, <2>4, <2>5
<1>11. QED  BY <1>8, <1>9, <1>10

\* Every step of the calls is one step of the register, or none.
LEMMA RegisterStep == Consistent /\ [Next]_vars => [Register!Next]_(Register!registerVars)
<1> SUFFICES ASSUME Consistent, [Next]_vars PROVE [Register!Next]_(Register!registerVars)
  OBVIOUS
<1>1. CASE Tick  BY <1>1, TickEndsLeases DEF Register!Next
<1>2. CASE \E s \in Sessions : Finish(s)  BY <1>2, CommitIsOnRegister
<1>3. CASE UNCHANGED <<rows, clock>>  BY SMTT(30), <1>3 DEF Register!registerVars
<1>4. ASSUME NEW s \in Sessions, Request(s) \/ Continue(s) \/ Crash(s)
      PROVE  clock' = clock
  BY <1>4 DEF Request, Begin, Continue, Claim, ClaimWaits, ClaimWakes, ClaimUnderLock,
              ClaimNext, Release, ReleaseMissed, ReleaseReread, Move, Lock, Finish, Crash
<1>5. QED  BY <1>1, <1>2, <1>3, <1>4, OnlyFinishWrites DEF Next, vars

\* The leases are a register: whatever the calls do, a free ticket is taken, a
\* lease prolonged or given up, one ticket at a time, and time ends the rest.
THEOREM RegisterImplemented == Spec => ImplementsRegister
<1>1. Init => Register!Init
  <2> SUFFICES ASSUME Init PROVE Register!Init  OBVIOUS
  <2>1. ASSUME NEW t \in Tickets  PROVE Held(rows[t], clock) = Register!Unheld
    <3>1. rows[t] \in { [NoRow EXCEPT !.stage = stage] : stage \in {"ready", "out"} }
      BY DEF Init
    <3>2. rows[t].holder = Nobody  BY <3>1 DEF NoRow
    <3>3. QED  BY <3>2 DEF Held, Live, Register!Unheld
  <2>2. QED  BY <2>1 DEF Init, Register!Init
<1>2. QED
  BY <1>1, RegisterStep, InitIsConsistent, ConsistentStep, PTL
  DEF Spec, ImplementsRegister, Register!Spec

=============================================================================
