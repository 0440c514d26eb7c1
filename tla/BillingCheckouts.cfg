SPECIFICATION FairSpec
CONSTANTS
  Free = Free
  NoPlan = NoPlan
  Checkouts = {c1, c2}
  Handlers = {h1}
  Profiles = {f1}
  MaxOrders = 2
  MaxTime = 2
  MaxUnacked = 2
  Faults = FALSE
  Channels = {"midtrans"}
  Plans = {p1}
  Cycles = {"monthly"}
CHECK_DEADLOCK FALSE
INVARIANT InvoicesAccounted
PROPERTIES DriftOnlyByStaleWrite ChargedIsActivated
