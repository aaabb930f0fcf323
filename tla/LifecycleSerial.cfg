CONSTANTS
  Tickets = {t1, t2}
  Sessions = {s1}
  NewTypes = {"bug", "task"}
  EditTypes = {"task"}
  Notes = {}
  Sent = {}
  Nobody = Nobody
  BatchMax = 2
  MaxCalls = 4
  MaxFailures = 1
SPECIFICATION Spec
INVARIANT TypeOK
INVARIANT AuditIsAChain
INVARIANT NewestRowIsCurrent
PROPERTY NoInvalidStateChange
PROPERTY CloseCloses
PROPERTY EveryCallAnswers
CHECK_DEADLOCK FALSE
