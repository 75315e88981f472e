\* Two web requests and a command line process.
CONSTANTS
  Request = {r1, r2, r3}
  Path = {p1}
  NoPath = NoPath
  NoRow = NoRow
  Ttl = 1
  Web = {r1, r2}
  MaxShared = 2
  MaxTime = 2
  MaxCrashes = 1
SPECIFICATION Spec
SYMMETRY RequestSymmetry
INVARIANTS TypeOK CountCovers MutualExclusion NothingLeaks
PROPERTY ImplementsRWLock
CHECK_DEADLOCK FALSE
