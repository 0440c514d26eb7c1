SPECIFICATION Spec
CONSTANTS
  Ids = {a, b, c}
  Founders = {a}
  Emails = {e1}
  Requests = {r1, r2, r3, r4}
  Unused = Unused
  Gone = Gone
  NoRow = NoRow
CHECK_DEADLOCK FALSE
SYMMETRY Symmetry
INVARIANT TypeOK
PROPERTIES DriftOnlyByOldProfile LastActiveLost
