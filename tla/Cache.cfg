SPECIFICATION CacheSpec
CONSTANTS
  Keys = {k1, k2, k3}
  Writers = {w1, w2, w3}
  MaxEntries = 2
  DefaultTTL = 1
  TTLs = {0, 2}
  MaxTime = 2
  MaxLookups = 3
  MaxUses = 5
  RequestNames = {"no-store", "no-cache", "public"}
  ResponseNames = {"no-store", "s-maxage", "max-age", "public"}
  Values = {"", "0", "2", "-1"}
  MaxSegments = 2
SYMMETRY Symmetry
CHECK_DEADLOCK FALSE
INVARIANTS
  ListMatchesMap
  StoresBalance
  OrderIrrelevant
  StoredAsAllowed
PROPERTIES
  ImplementsResponseMap
  EvictsLeastRecent
