SPECIFICATION Spec
CONSTANTS
  Requests = {r1, r2}
  MaxQueue = 2
  MaxConcurrent = 1
SYMMETRY Symmetry
INVARIANT
  SlotsAllReturned
