SPECIFICATION FairSpec
CONSTANTS
  Events = {"e1", "e2", "e3"}
  Tokens <- PairTokens
  PoolOf <- OwnPools
  NoToken = NoToken
  EventTypes = {"order", "parcel", "gift"}
  TypeOf <- RetiredTypes
  AggregateOf <- OneAggregate
  KeyOf <- OwnKeys
  Dormant = {"gift"}
  MaxAttempts = 2
  BatchSize = 2
  Visibility = 3
  BackoffBase = 1
  BackoffCap = 1
  SnoozeDelay = 1
  ProcessedKeep = 0
  DiscardedKeep = 0
  SerialProducers = TRUE
  Runners = {w1}
  ScopeOf <- SameScope
  TimeoutOf <- OneTick
  OutcomesOf <- DoneOrSnooze
  Margin = 0
  SoftBudget = 1
  HostLimit = 2
  SlowStore = FALSE
  Cadence = 1
  MaxSnoozes = 1
  MaxCrashes = 1
PROPERTIES EventuallySettled
