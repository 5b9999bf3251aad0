SPECIFICATION Spec
CONSTANTS
  Events = {"e1", "e2", "e3"}
  Tokens = {t1, t2, t3}
  NoToken = NoToken
  NoEvent = NoEvent
  EventTypes = {"order", "parcel"}
  TypeOf <- MixTypes
  AggregateOf <- SplitAggregates
  KeyOf <- RepeatedKey
  Dormant = {}
  MaxAttempts = 2
  BatchSize = 2
  Visibility = 2
  BackoffBase = 1
  BackoffCap = 2
  SnoozeDelay = 1
  ProcessedKeep = 0
  DiscardedKeep = 1
  SerialProducers = TRUE
  Scopes <- MixScopes
  EnqueueDelays = {0}
  ReleaseDelays = {0, 1}
SYMMETRY TokenSymmetry
INVARIANTS TypeOK SettledByNewest RefundsBalance CeilingHolds CompactionIsSafe AggregateOrder
PROPERTIES LeaseRespected ImplementsDelivery
