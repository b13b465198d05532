SPECIFICATION Spec
CONSTANTS
  Requests = {r1, r2}
  N = 2
  Identities <- Distinct
SYMMETRY Symmetry
INVARIANT
  PendingIsInFlight
