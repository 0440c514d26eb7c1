SPECIFICATION Spec
CONSTANTS
  Unlimited = Unlimited
  Senders = {s1, s2}
  DailyLimit = 1
  MonthlyLimit = 1
  Overage = FALSE
  TicksPerDay = 2
  DaysPerMonth = 2
  MaxDelay = 1
  MaxTime = 5
  MaxPeriods = 1
  Faults = TRUE
CHECK_DEADLOCK FALSE
SYMMETRY Symmetry
INVARIANTS TypeOK QuotaHolds UsageOfThisPeriod DailyWindowBounded
