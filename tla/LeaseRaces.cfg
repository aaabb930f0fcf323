CONSTANTS
  Tickets = {1, 2}
  Holders = {astra, claude}
  Nobody = nobody
  Sessions = {s1, s2}
  Free = free
  Durations = {2}
  MaxTime = 4
  MaxCalls = 4
SPECIFICATION Spec
SYMMETRY SessionSymmetry
INVARIANT TypeOK
INVARIANT LeaseIsHonoured
PROPERTY LiveLeaseIsKept
PROPERTY ImplementsRegister
CHECK_DEADLOCK FALSE
