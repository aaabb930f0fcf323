CONSTANTS
  Clients = {plain, careful, bold}
  Notes = {n1, n2}
  Titles = {t1, t2}
  Overwriters = {bold}
  Guarded = {careful}
  MaxText = 3
  MaxCalls = 3
SPECIFICATION Spec
SYMMETRY ValueSymmetry
INVARIANT TypeOK
INVARIANT StampNamesTheContent
INVARIANT HistoryRebuildsTheText
INVARIANT ConflictShowsTheChange
PROPERTY WritesAreAtomic
CHECK_DEADLOCK FALSE
