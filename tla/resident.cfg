\* Three requests, two models, one slot: eviction, shared batches, carry, full queue, close.
CONSTANTS
  c1 = c1
  c2 = c2
  c3 = c3
  Requests = {c1, c2, c3}
  Models = {m1, m2}
  Size <- Sizes
  Batched = {m1}
  MaxLoaded = 1
  MaxBatch = 2
  Capacity = 2
  Nobody = Nobody
  Stop = Stop
SPECIFICATION FairSpec
INVARIANTS
  CacheTypeOK
  EvictionSparesWork
  AnswersMatch
PROPERTIES
  ServedInOrder
  CallsReturn
  BusyLaneDrains
CHECK_DEADLOCK FALSE
