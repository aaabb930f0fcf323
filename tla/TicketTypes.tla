---------------------------- MODULE TicketTypes ----------------------------
(***************************************************************************)
(* The four ticket types and their state machines, as tables               *)
(* (stompy_ticketing/service.py, STATE_MACHINES and the helpers under it). *)
(*                                                                         *)
(* A type's transitions are a record of SEQUENCES, not of sets: the order  *)
(* of the alternatives decides which of two shortest paths the searches of *)
(* module ClosePath return, and a ticket's close walk commits every status *)
(* of that path.                                                           *)
(***************************************************************************)
EXTENDS Naturals, Sequences, Functions

TypeNames == {"task", "bug", "feature", "decision"}

Parked == "parked"

\* STATE_MACHINES[type]["transitions"]: the statuses of a type are the
\* fields of its record.
Transitions ==
  [ task |->
      [ backlog     |-> <<"in_progress", "done", "cancelled", "parked">>,
        in_progress |-> <<"done", "cancelled", "backlog">>,
        done        |-> <<"backlog">>,
        cancelled   |-> <<"backlog">>,
        parked      |-> <<"backlog">> ],
    bug |->
      [ triage      |-> <<"confirmed", "wont_fix", "parked">>,
        confirmed   |-> <<"in_progress", "parked">>,
        in_progress |-> <<"resolved", "wont_fix", "confirmed">>,
        resolved    |-> <<"triage">>,
        wont_fix    |-> <<"triage">>,
        parked      |-> <<"triage", "confirmed">> ],
    feature |->
      [ proposed    |-> <<"approved", "rejected", "parked">>,
        approved    |-> <<"in_progress", "parked">>,
        in_progress |-> <<"shipped", "rejected", "approved">>,
        shipped     |-> <<"proposed">>,
        rejected    |-> <<"proposed">>,
        parked      |-> <<"proposed", "approved">> ],
    decision |->
      [ open        |-> <<"decided", "deferred", "parked">>,
        decided     |-> <<"open">>,
        deferred    |-> <<"open">>,
        parked      |-> <<"open">> ] ]

InitialStatus ==
  [ task |-> "backlog", bug |-> "triage", feature |-> "proposed", decision |-> "open" ]

TerminalStatuses ==
  [ task     |-> {"done", "cancelled"},
    bug      |-> {"resolved", "wont_fix"},
    feature  |-> {"shipped", "rejected"},
    decision |-> {"decided", "deferred"} ]

\* The terminal a close aims at when the caller names no resolution.
PositiveTerminal ==
  [ task |-> "done", bug |-> "resolved", feature |-> "shipped", decision |-> "decided" ]

AllStatuses(type) == DOMAIN Transitions[type]

AllTerminalStatuses == UNION { TerminalStatuses[type] : type \in TypeNames }

StatusNames == UNION { AllStatuses(type) : type \in TypeNames }

\* What a default board hides for one type: closed tickets and parked ones.
HiddenStatuses(type) == TerminalStatuses[type] \cup {Parked}

\* transitions.get(status, []): a status the type does not have has no way out.
NextStatuses(type, status) ==
  IF status \in AllStatuses(type) THEN Transitions[type][status] ELSE <<>>

\* Mutant of ValidTransition: any status of the type will do.
ValidTransitionAnyStatus(type, current, target) == target \in AllStatuses(type)

\* Mutant of ValidTransition: the machine of another type will do.
ValidTransitionOfAnyType(type, current, target) ==
  \E other \in TypeNames : target \in Range(NextStatuses(other, current))

\* validate_transition: the current status belongs to the type and lists the
\* target among its alternatives.
ValidTransition(type, current, target) ==
  /\ current \in AllStatuses(type)
  /\ target \in Range(Transitions[type][current])

=============================================================================
