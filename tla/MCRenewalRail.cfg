SPECIFICATION Spec
CONSTANTS
  Subs = {"s1"}
  Workers = {w1,w2}
  Lease = 1
  HoldTime = 2
  Cadence = 3
  Soon = 2
  SlideAhead = {2,3}
  PauseTime = 2
  Day = 2
  RetryDelay <- OneTick
  NoDue = NoDue
  MaxTime = 2
  MaxToken = 2
  MaxSeq = 2
INVARIANTS TypeOK UnpaidHoldsSchedule PaidCycleNeverDue StockHeldWhileAsked
PROPERTIES KeepsPromise NeverAskedAgain TerminalIsFinal
SYMMETRY WorkerSymmetry
CHECK_DEADLOCK FALSE
