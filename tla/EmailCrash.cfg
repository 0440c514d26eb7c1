SPECIFICATION FairSpec
CONSTANTS
  Emails = {e1, e2}
  Slots = 1
  MaxRetry = 1
  MaxRestarts = 1
  Faults = {"worker", "cleanup", "timeout", "smtp"}
CHECK_DEADLOCK FALSE
INVARIANT DoneMeansSent
PROPERTIES TasksEnd GivenUpIsFailed
