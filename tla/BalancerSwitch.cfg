SPECIFICATION Spec
CONSTANTS
  Requests = {r1, r2, r3}
  Targets = {t1, t2}
  Names = {"rr", "lc", "weighted"}
  MaxSwitches = 2
SYMMETRY Symmetry
INVARIANTS
  BooksPerBalancer
  TornOnlyByStrategyChange
  SettledAsConfigured
PROPERTY
  ReplacedOnlyDrains
