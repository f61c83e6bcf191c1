SPECIFICATION PolishFairSpec
CONSTANTS
    Shown = {a, b}
    Hidden = {h}
    NoSnapshot = NoSnapshot
    Foreign = Foreign
    MaxRounds = 2
    MaxPolishRounds = 3
    MaxRound = 4
    Actions = {"polish", "advanced", "converge-polish", "start", "reject"}
    MaxLost = 1
    MayShare = TRUE
 
 
PROPERTY PolishStops
