SPECIFICATION FairSpec
CONSTANTS
  Documents <- MCDocuments
  Goroutines = {g1, g2}
  MaxStarts = 2
INVARIANTS
  ServesAsConfigured
  NoSilentDowngrade
  LogsAsConfigured
PROPERTIES
  PairIsKept
  StartSettles
  EmitReturns
