CONSTANTS
  Tickets = {t1, t2}
  Absent = nowhere
  Contexts = {x}
  Sessions = {s1}
  MaxCalls = 4
SPECIFICATION Spec
PROPERTY RemovalTakesWhatItNames
CHECK_DEADLOCK FALSE
