SPECIFICATION Spec
CONSTANTS
  Emails = {e1}
  Slots = 1
  MaxRetry = 3
  MaxRestarts = 1
  Faults = {"db", "redis", "smtp", "api", "worker", "timeout", "cleanup"}
CHECK_DEADLOCK FALSE
INVARIANTS TypeOK TakenOncePerAttempt
PROPERTIES SentOnlyRedone ImplementsOutbox
