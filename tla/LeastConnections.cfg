SPECIFICATION FairSpec
CONSTANTS
  Requests = {r1, r2, r3}
  N = 2
  Identities <- DistinctOrShared
INVARIANT
  CountersExact
PROPERTIES
  LeastLoadedWhenUndisturbed
  PickTerminates
