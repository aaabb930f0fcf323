---------------------------- MODULE ClosePathMC ----------------------------
(***************************************************************************)
(* Every question that can be put to the searches of ClosePath, one state  *)
(* per question: a type, a status (foreign ones too: editing a ticket's    *)
(* type leaves the status behind) and a target or resolution.              *)
(***************************************************************************)
EXTENDS ClosePath

VARIABLE query  \* [type, current, target]

Queries == [type : TypeNames, current : StatusNames,
            target : StatusNames \cup {NoResolution}]

Init == query \in { q \in Queries : q.type = "task" /\ q.current = "backlog" }
Ask  == query' \in Queries
Spec == Init /\ [][Ask]_query

----------------------------------------------------------------------------
Resolution == query.target
HintPath   == FindTransitionPath(query.type, query.current, query.target)
ClosingPath == FindClosePath(query.type, query.current, Resolution)

\* The inputs close_ticket passes on to _find_close_path: it answers itself
\* when the ticket is closed or the resolution is not one of the type.
Closable ==
  /\ query.current \notin TerminalStatuses[query.type]
  /\ Resolution \in TerminalStatuses[query.type] \cup {NoResolution}

----------------------------------------------------------------------------
(* Properties *)

\* The path a refused move quotes can be walked step by step, leads to the
\* status that was asked for, is as short as any, and is missing only when
\* the status cannot be reached (find_transition_path).
HintIsShortestWalk ==
  query.target # NoResolution /\ query.target # query.current =>
    /\ Legal(query.type, query.current, HintPath)
    /\ Len(HintPath) = Distance(query.type, query.current, {query.target})
    /\ HintPath # NoPath => Last(HintPath) = query.target

\* A close walk is legal at every step, ends in the resolution asked for (or
\* the positive terminal), and takes no detour to it: a ticket in any open
\* status of its type can always be closed either way.  Each status of the walk
\* is committed on its own, without a reason, so it must not pass through
\* parked (the commit would be refused half way) nor through another terminal
\* (the close would reopen the ticket).
CloseReachesItsResolution ==
  Closable =>
    LET wanted == IF Resolution = NoResolution
                  THEN PositiveTerminal[query.type] ELSE Resolution
        passed == { ClosingPath[i] : i \in 1..Len(ClosingPath) - 1 }
    IN  /\ query.current \in AllStatuses(query.type) =>
             /\ ClosingPath # NoPath
             /\ Legal(query.type, query.current, ClosingPath)
             /\ Last(ClosingPath) = wanted
             /\ Len(ClosingPath) = Distance(query.type, query.current, {wanted})
        /\ passed \cap HiddenStatuses(query.type) = {}

=============================================================================
