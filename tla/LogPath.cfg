CONSTANTS
  p1 = p1
  p2 = p2
  Consumer = c
  Nobody = Nobody
  Producers <- MCProducers
  MaxCalls <- MCMaxCalls
  Capacity = 2
  AuditCapacity = 1
  HelpAt = 1
SPECIFICATION FairSpec
INVARIANTS
  RecordsConserved
  FullIsSpurious
  CountersBalance
PROPERTIES
  ImplementsLogDelivery
  EveryCallReturns
  EveryRecordSettles
  ShutdownCompletes
CHECK_DEADLOCK FALSE
