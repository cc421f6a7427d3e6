CONSTANTS
  p1 = p1
  p2 = p2
  c1 = c1
  None = None
  Producers <- MCProducers
  Consumers <- MCConsumers
  Capacity = 2
  Helpers <- MCHelpers
  MaxPushes <- MCMaxPushes
SPECIFICATION FairSpec
INVARIANTS
  TypeOK
  NoUnderflow
  ExclusiveSlot
PROPERTIES
  ImplementsBoundedFifo
  EveryItemIsClaimed
  NoProducerSpinsForEver
