SPECIFICATION Spec
CONSTANTS
  Events = {e1, e2}
  Editors = {u1}
  Slots = 2
  Threshold = 1
  MaxRetry = 1
  MaxRestarts = 0
  Faults = {"db", "redis", "http", "worker", "delete", "cleanup"}
CHECK_DEADLOCK FALSE
SYMMETRY Symmetry
INVARIANTS TypeOK PostedOncePerAttempt DoneMeansAccepted
PROPERTY SwitchedOffForCause
