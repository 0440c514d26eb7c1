SPECIFICATION Spec
CONSTANTS
  Events = {e1, e2, e3}
  Editors = {}
  Slots = 2
  Threshold = 1
  MaxRetry = 2
  MaxRestarts = 0
  Faults = {"cleanup"}
CHECK_DEADLOCK FALSE
SYMMETRY Symmetry
INVARIANTS FailuresAllCounted DeactivatedInTime
