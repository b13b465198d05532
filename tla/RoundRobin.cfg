SPECIFICATION FairSpec
CONSTANTS
  Requests = {r1, r2, r3}
  N = 3
  Modulus = 4
  StartIndices = {0, 2}
INVARIANTS
  SkipsOnlyFailed
  EvenTurns
PROPERTY
  PickTerminates
