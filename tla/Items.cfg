SPECIFICATION Spec
CONSTANTS
  Requests = {r1, r2, s1}
  Scrapes = {s1}
  Operations <- ItemOperations
  MaxAge = 1
  MaxEntries = 2
  MaxTime = 2
SYMMETRY Symmetry
INVARIANTS
  CreatesExact
  AckedWritesApplied
  UpstreamMetricsExact
PROPERTY
  HitReflectsStore
