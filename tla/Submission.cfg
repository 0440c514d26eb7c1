SPECIFICATION Spec
CONSTANTS
  Names = {n1, t1}
  TestNames = {t1}
  MaxRows = 2
  Plans = {"small", "big"}
  Limit <- MCLimit
  Unlimited = Unlimited
  Requests = {r1, r2}
  None = None
  Clients = {c1}
  Rcpts = 2
  MaxData = 2
CHECK_DEADLOCK FALSE
SYMMETRY Symmetry
INVARIANTS TypeOK LimitSlack  ServedInOrder RevokedKeySendsOnce
