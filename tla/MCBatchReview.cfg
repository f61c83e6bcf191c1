\* Two commits and so three ranges that overlap, verdicts of two
\* findings, two calls at once, and one loss or overlap.
SPECIFICATION Spec
CONSTANTS
  MaxHead = 2
  Threshold = 1
  Counts = {2}
  Slots = 2
  MaxTrouble = 1
INVARIANTS FindingsFiled  NothingSkipped
PROPERTIES ReviewsSettle
CHECK_DEADLOCK FALSE
