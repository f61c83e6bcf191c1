SPECIFICATION Spec
CONSTANTS
  Goals = {g, h}
  None = none
  Cap = 2
  HistoryCap = 2
  MaxCycles = 2
  MaxEdits = 2
  Slots = 2
  MaxTrouble = 1
INVARIANTS OneGoal  GradersAlone EditsKept
CHECK_DEADLOCK FALSE
