SPECIFICATION Spec
CONSTANTS
  Events = {"e1", "e2"}
  Tokens <- PairTokens
  PoolOf <- OwnPools
  NoToken = NoToken
  EventTypes = {"order", "parcel", "gift"}
  TypeOf <- OneType
  AggregateOf <- OneAggregate
  KeyOf <- OwnKeys
  Dormant = {"gift"}
  MaxAttempts = 2
  BatchSize = 2
  Visibility = 3
  BackoffBase = 1
  BackoffCap = 1
  SnoozeDelay = 1
  ProcessedKeep = 0
  DiscardedKeep = 0
  SerialProducers = TRUE
  Runners = {w1, w2}
  ScopeOf <- SameScope
  TimeoutOf <- OneTick
  OutcomesOf <- DoneOrSnooze
  Margin = 0
  SoftBudget = 1
  HostLimit = 2
  SlowStore = TRUE
  Cadence = 1
  MaxSnoozes = 1
  MaxCrashes = 0
SYMMETRY RunnerSymmetry
INVARIANTS ProcessedHasEffect LeaseOutlivesRun OneHandlerPerAggregate
PROPERTIES ImplementsOrderedDelivery
