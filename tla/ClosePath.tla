----------------------------- MODULE ClosePath -----------------------------
(***************************************************************************)
(* The two path searches over a type's transitions                         *)
(* (stompy_ticketing/service.py): find_transition_path, which the refusal  *)
(* of a move quotes as a hint, and _find_close_path, whose result          *)
(* close_ticket and batch_close commit status by status.  Both are one     *)
(* breadth-first search whose queue holds statuses with the path to them.  *)
(***************************************************************************)
EXTENDS TicketTypes, FiniteSets, SequencesExt

NoPath == <<>>          \* Python's None: no search returns an empty list
NoResolution == "none"  \* close called without a resolution

\* Mutant of Enqueue: the queue is used as a stack.
EnqueueInFront(queue, entry) == <<entry>> \o queue

\* queue.append; entries are taken from the front.
Enqueue(queue, entry) == Append(queue, entry)

\* One successor of the status that path leads to: a target ends the search, a
\* status that was visited is passed over, any other is visited and queued.
Visit(targets, path, nxt, search) ==
  IF search.found # NoPath \/ nxt \in search.visited THEN search
  ELSE IF nxt \in targets THEN [search EXCEPT !.found = Append(path, nxt)]
  ELSE [search EXCEPT !.visited = @ \cup {nxt},
                      !.queue = Enqueue(@, [status |-> nxt, path |-> Append(path, nxt)])]

\* visits[k] holds the one search there is after an entry was taken off the
\* queue and the first k successors of its status were gone through, in the
\* table's order.
Visits(targets, entry, row, search) ==
  LET visits[k \in 0..Len(row)] ==
        IF k = 0 THEN {[search EXCEPT !.queue = Tail(@)]}
        ELSE { Visit(targets, entry.path, row[k], before) : before \in visits[k - 1] }
  IN  visits

\* One pass of the while loop.
Expand(type, targets, search) ==
  LET entry == Head(search.queue)
      row == NextStatuses(type, entry.status)
  IN  IF search.queue = <<>> \/ search.found # NoPath THEN search
      ELSE CHOOSE after \in Visits(targets, entry, row, search)[Len(row)] : TRUE

\* Every pass takes one entry off the queue, and a status is queued at most
\* once, so the passes are bounded by the type's statuses and the start.
MaxPasses(type) == Cardinality(AllStatuses(type)) + 1

StartOfSearch(current) ==
  [queue |-> <<[status |-> current, path |-> <<>>]>>, visited |-> {current}, found |-> NoPath]

\* passes[n] holds the one search there is after n passes.
Passes(type, current, targets) ==
  LET passes[n \in 0..MaxPasses(type)] ==
        IF n = 0 THEN {StartOfSearch(current)}
        ELSE { Expand(type, targets, before) : before \in passes[n - 1] }
  IN  passes

BreadthFirst(type, current, targets) ==
  (CHOOSE after \in Passes(type, current, targets)[MaxPasses(type)] : TRUE).found

FindTransitionPath(type, current, target) ==
  IF current = target THEN NoPath ELSE BreadthFirst(type, current, {target})

\* Mutant of FindClosePath: aims at the first status a default board hides.
FindClosePathHides(type, current, resolution) ==
  IF current \in TerminalStatuses[type] THEN NoPath
  ELSE BreadthFirst(type, current, IF resolution = NoResolution
                                   THEN HiddenStatuses(type) ELSE {resolution})

\* Mutant of FindClosePath: the nearest terminal when no resolution is given.
FindClosePathNearest(type, current, resolution) ==
  IF current \in TerminalStatuses[type] THEN NoPath
  ELSE BreadthFirst(type, current, IF resolution = NoResolution
                                   THEN TerminalStatuses[type] ELSE {resolution})

\* The preferred terminal is tried first (the caller's resolution, else the
\* positive one of the type); only if it cannot be reached, any terminal.
FindClosePath(type, current, resolution) ==
  LET preferred == IF resolution = NoResolution THEN PositiveTerminal[type] ELSE resolution
      direct == IF preferred \in TerminalStatuses[type]
                THEN BreadthFirst(type, current, {preferred}) ELSE NoPath
  IN  IF current \in TerminalStatuses[type] THEN NoPath
      ELSE IF direct # NoPath THEN direct
      ELSE BreadthFirst(type, current, TerminalStatuses[type])

----------------------------------------------------------------------------
(* A reference for the searches: the statuses n transitions away. *)

Within(type, current) ==
  LET layer[n \in 0..MaxPasses(type)] ==
        IF n = 0 THEN {current}
        ELSE LET nearer == layer[n - 1]
             IN  nearer \cup UNION { Range(NextStatuses(type, status)) : status \in nearer }
  IN  layer

\* The least number of transitions from current into targets, or 0 when the
\* targets cannot be reached.
Distance(type, current, targets) ==
  LET layer == Within(type, current)
      hits == { n \in DOMAIN layer : layer[n] \cap targets # {} }
  IN  IF hits = {} THEN 0 ELSE CHOOSE n \in hits : \A m \in hits : n =< m

Legal(type, current, path) ==
  \A i \in 1..Len(path) :
    ValidTransition(type, IF i = 1 THEN current ELSE path[i - 1], path[i])

=============================================================================
