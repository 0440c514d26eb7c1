\* An e-mail handed in and tracked, while plans, overrides and the subscription change.
CONSTANTS
  Plans = {p1}
  Checks = {c1}
  Updates = {u1, u2}
  MaxChanges = 2
  Visits = {v1, v2}
  TTL = 1
  MaxDelay = 1
  Lives = {1}
  Forever = Forever
  Unused = Unused
  Gone = Gone
  None = None
SPECIFICATION Spec
SYMMETRY Symmetry
CONSTRAINT Bounded
CHECK_DEADLOCK FALSE
INVARIANTS TypeOK AnswerWasRight CacheCatchesUp PlanKeepsLastUpdate EventsRunAhead
