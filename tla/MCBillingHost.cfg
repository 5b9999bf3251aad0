SPECIFICATION Spec
CONSTANTS
  CadenceDays = 1
  RestartLead = 1
  Backoff <- OneRung
  MaxCycle = 2
  MaxDay = 1
  MaxSent = 2
INVARIANTS TypeOK PaidWindowKept MoneyAndCycleAgree RefusedIsJudged
CHECK_DEADLOCK FALSE
