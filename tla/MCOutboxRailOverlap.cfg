SPECIFICATION Spec
CONSTANTS
  Events = {"e1", "e2"}
  Tokens = {t1, t2, t3}
  NoToken = NoToken
  NoEvent = NoEvent
  EventTypes = {"order", "parcel"}
  TypeOf <- PairTypes
  AggregateOf <- PairAggregates
  KeyOf <- OwnKeys
  Dormant = {}
  MaxAttempts = 2
  BatchSize = 2
  Visibility = 1
  BackoffBase = 1
  BackoffCap = 1
  SnoozeDelay = 1
  ProcessedKeep = 0
  DiscardedKeep = 0
  SerialProducers = FALSE
  Scopes <- OneScope
  EnqueueDelays = {0}
  ReleaseDelays = {0}
SYMMETRY TokenSymmetry
INVARIANTS AggregateOrder
