CONSTANTS
  Tickets = {t1, t2}
  Absent = nowhere
  Contexts = {x}
  Sessions = {s1}
  MaxCalls = 5
SPECIFICATION Spec
SYMMETRY TicketSymmetry
INVARIANT NoMutualBlocks
INVARIANT OneRelatedLink
CHECK_DEADLOCK FALSE
