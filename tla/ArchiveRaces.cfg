CONSTANTS
  Tickets = {1, 2}
  Sessions = {s1, s2}
  Free = free
  TTL = 1
  MaxTime = 3
  MaxCalls = 3
  MaxFailures = 1
SPECIFICATION Spec
SYMMETRY SessionSymmetry
INVARIANT TypeOK
INVARIANT ArchiveTrailAlternates
INVARIANT BatchReportIsTrue
PROPERTY OnlyFinishedWorkIsHidden
CHECK_DEADLOCK FALSE
