SPECIFICATION Spec
CONSTANTS
  Free = Free
  NoPlan = NoPlan
  Checkouts = {c1}
  Handlers = {h1}
  Profiles = {}
  MaxOrders = 1
  MaxTime = 1
  MaxUnacked = 2
  Faults = TRUE
  Channels = {"midtrans"}
  Plans = {p1}
  Cycles = {"monthly"}
CHECK_DEADLOCK FALSE
INVARIANT PaidMeansActivated
