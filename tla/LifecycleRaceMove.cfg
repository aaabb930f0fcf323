CONSTANTS
  Tickets = {t1}
  Sessions = {s1, s2}
  NewTypes = {"task"}
  EditTypes = {}
  Notes = {}
  Sent = {}
  Nobody = Nobody
  BatchMax = 1
  MaxCalls = 4
  MaxFailures = 0
SPECIFICATION Spec
PROPERTY NoInvalidStateChange
CHECK_DEADLOCK FALSE
