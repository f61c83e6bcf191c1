SPECIFICATION FairSpec
CONSTANTS
    GateCount = 3
    Keys = {b}
    MaxFreshEyes = 3
    CleanTarget = 2
    InOrder = TRUE
    Reentry = TRUE
    Autofix = TRUE
    Sessionless = TRUE
    NoCall = NoCall
INVARIANT CompleteIsClean
 
PROPERTY RoundsConverge
