\* Two requests that nest shared locks, leases, one crash.
CONSTANTS
  Request = {r1, r2}
  Path = {p1}
  NoPath = NoPath
  NoKey = NoKey
  Exclusive = Exclusive
  NoTtl = NoTtl
  Ttl = 1
  DefaultTtl = 2
  MaxShared = 2
  MaxTime = 2
  MaxCrashes = 1
SPECIFICATION Spec
SYMMETRY RequestSymmetry
CONSTRAINT Scope
INVARIANTS CountCovers MutualExclusion CounterExact KeyHasTtl FreeWhenReleased
CHECK_DEADLOCK FALSE
PROPERTY ImplementsRWLock
