CONSTANTS
  Tickets = {t1, t2}
  Absent = nowhere
  Contexts = {x}
  Sessions = {s1, s2}
  MaxCalls = 2
SPECIFICATION Spec
INVARIANT NoMutualBlocks
CHECK_DEADLOCK FALSE
