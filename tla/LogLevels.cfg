SPECIFICATION Spec
CONSTANTS
  Documents <- MCDocuments
  Goroutines = {g1, g2}
  MaxStarts = 1
INVARIANT
  OffLevelsAreSilent
