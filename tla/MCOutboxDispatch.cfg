SPECIFICATION Spec
CONSTANTS
  Events = {"e1", "e2"}
  Tokens <- PairTokens
  PoolOf <- OwnPools
  NoToken = NoToken
  EventTypes = {"order", "parcel", "gift"}
  TypeOf <- TwoTypes
  AggregateOf <- OwnAggregates
  KeyOf <- OwnKeys
  Dormant = {"gift"}
  MaxAttempts = 2
  BatchSize = 2
  Visibility = 6
  BackoffBase = 1
  BackoffCap = 1
  SnoozeDelay = 1
  ProcessedKeep = 0
  DiscardedKeep = 0
  SerialProducers = TRUE
  Runners = {w1}
  ScopeOf <- SameScope
  TimeoutOf <- SlowOrders
  OutcomesOf <- AnyOutcome
  Margin = 1
  SoftBudget = 4
  HostLimit = 5
  SlowStore = TRUE
  Cadence = 1
  MaxSnoozes = 1
  MaxCrashes = 1
INVARIANTS TypeOK ClaimsAccounted NoRaceWithOrphan AttemptsWereTried
