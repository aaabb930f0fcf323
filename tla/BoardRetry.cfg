SPECIFICATION BoardSpec
CONSTANTS
  Readers = {r1, r2}
  Databases = {d1}
  Rows = {1, 2, 3}
  Aging = {1}
  Batch = 2
  Interval = 2
  MaxFaults = 1
  Limit = 2
  MaxSize = 3
  Scenarios <- OneBoard
INVARIANT DroppedConnectionIsRetried
CHECK_DEADLOCK FALSE
