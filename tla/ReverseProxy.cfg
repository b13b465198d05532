SPECIFICATION FairSpec
CONSTANTS
  r1 = r1
  r2 = r2
  t1 = t1
  t2 = t2
  Requests = {r1, r2}
  Arrivals <- MCArrivals
  Urls <- MCUrls
  Bodies = {"no body", "b1"}
  Targets = {t1, t2}
  Shape <- MCShape
  XUpstream = {"", "up"}
  QueueCap = 1
  SlotCap = 1
  MaxEntries = 1
  DefaultTTL = 1
  TTLs = {0}
  MaxTime = 2
INVARIANTS
  HitProvenance
  InflightAccounting
  ObservedIsSent
PROPERTY
  AnsweredOrUpstream
