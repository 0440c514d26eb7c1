SPECIFICATION Spec
CONSTANTS
  Free = Free
  NoPlan = NoPlan
  Checkouts = {c1}
  Handlers = {h1, h2}
  Profiles = {}
  MaxOrders = 1
  MaxTime = 2
  MaxUnacked = 2
  Faults = TRUE
  Channels = {"midtrans", "specific"}
  Plans = {p1}
  Cycles = {"monthly"}
CHECK_DEADLOCK FALSE
INVARIANTS TypeOK PaidPlanBackedByCharge LatestIsActive ActivationsBounded
PROPERTIES OnlyNotificationsUnpay RenewalExtends
SYMMETRY Symmetry
