SPECIFICATION Spec
CONSTANTS
  Subs = {"s1"}
  Workers = {w1}
  Lease = 1
  HoldTime = 2
  Cadence = 3
  Soon = 2
  SlideAhead = {2}
  PauseTime = 1
  Day = 2
  RetryDelay <- OneTick
  NoDue = NoDue
  MaxTime = 1
  MaxToken = 1
  MaxSeq = 1
PROPERTIES ResumeKeepsObligation
CHECK_DEADLOCK FALSE
