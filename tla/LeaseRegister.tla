--------------------------- MODULE LeaseRegister ---------------------------
(***************************************************************************)
(* What the leases of TicketLease promise the agents: a register of who    *)
(* has which ticket, until when.  It knows no calls, locks or rows: a free *)
(* ticket is taken, its lease is prolonged or given up, and a lease that   *)
(* nobody prolongs ends when its time has come, at no other moment.        *)
(***************************************************************************)
EXTENDS Naturals

CONSTANTS
  Tickets,
  Holders,
  Nobody     \* no holder, and no member of Holders

VARIABLES
  lease,     \* the lease on each ticket
  clock

registerVars == <<lease, clock>>

Unheld == [holder |-> Nobody, since |-> 0, until |-> 0]

Init ==
  /\ lease = [t \in Tickets |-> Unheld]
  /\ clock = 1

\* The other leases stay as they are.
Only(t) ==
  /\ lease' = [lease EXCEPT ![t] = lease'[t]]
  /\ UNCHANGED clock

\* A lease may carry an earlier claimed_at: its holder's renewal can come too
\* late to prolong it.
Take(t) ==
  /\ lease[t] = Unheld
  /\ lease'[t].holder \in Holders
  /\ lease'[t].until > clock
  /\ Only(t)

\* The holder's lease goes on, and has been one lease since it began.
Prolong(t) ==
  /\ lease[t] # Unheld
  /\ lease'[t].holder = lease[t].holder
  /\ lease'[t].since = lease[t].since
  /\ lease'[t].until > lease[t].until
  /\ Only(t)

GiveUp(t) ==
  /\ lease[t] # Unheld
  /\ lease'[t] = Unheld
  /\ Only(t)

Tick ==
  /\ clock' = clock + 1
  /\ lease' = [t \in Tickets |-> IF lease[t].until > clock' THEN lease[t] ELSE Unheld]

Next == Tick \/ \E t \in Tickets : Take(t) \/ Prolong(t) \/ GiveUp(t)

Spec == Init /\ [][Next]_registerVars
=============================================================================
