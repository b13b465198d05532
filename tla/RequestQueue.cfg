SPECIFICATION FairSpec
CONSTANTS
  Requests = {r1, r2}
  MaxQueue = 1
  MaxConcurrent = 1
INVARIANTS
  TypeOK
  ConcurrencyBound
  CountersExact
  ReceivesNeverBlock
  MetricsAccount
PROPERTIES
  DecisionIsFinal
  
  ImplementsAdmission
  WaitersLeave
  AcquirerEnds
