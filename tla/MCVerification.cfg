\* One bead whose commits and others move the branch twice, two calls at once,
\* one failure and one overlap.
SPECIFICATION Spec
CONSTANTS
  Beads = {b}
  None = none
  Versions = {1, 2}
  MaxLog = 2
  MaxMoves = 2
  Slots = 2
  MaxLost = 1
  MaxOverlaps = 1
  AttestationRequired = TRUE
INVARIANTS LedgerTells RowsReadable EditionKept
PROPERTIES RewriteVoids WavePasses
CHECK_DEADLOCK FALSE
