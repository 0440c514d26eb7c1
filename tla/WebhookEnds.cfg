SPECIFICATION FairSpec
CONSTANTS
  Events = {e1, e2}
  Editors = {}
  Slots = 1
  Threshold = 1
  MaxRetry = 2
  MaxRestarts = 1
  Faults = {"worker", "http"}
CHECK_DEADLOCK FALSE
PROPERTY EventsEnd
