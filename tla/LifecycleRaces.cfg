CONSTANTS
  Tickets = {t1}
  Sessions = {s1, s2}
  NewTypes = {"bug"}
  EditTypes = {"task"}
  Notes = {"n1"}
  Sent <- SentInRaces
  Nobody = Nobody
  BatchMax = 1
  MaxCalls = 4
  MaxFailures = 1
SPECIFICATION Spec
SYMMETRY SessionSymmetry
INVARIANT ClosedIffTerminal
INVARIANT AuditEndsAtStatus
INVARIANT ParkedTellsWhy
INVARIANT OnlyRetypedTicketsAreStranded
PROPERTY OnlyStaleWritesBreakTheMachine
PROPERTY StampsStrayInTwoWays
PROPERTY OnlyStaleMovesLoseNotes
CHECK_DEADLOCK FALSE
