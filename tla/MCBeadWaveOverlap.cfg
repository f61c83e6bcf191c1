SPECIFICATION Spec
CONSTANTS
    t1 = t1
    t2 = t2
    epic = epic
    c1 = c1
    c2 = c2
    Beads <- MCBeads
    Needs <- MCNeeds
    Parent <- MCParent
    NoBead = NoBead
    Calls = {c1, c2}
    Ops = {"start", "looks-good", "skip", "advance"}
    MaxTrouble = 1
SYMMETRY CallSymmetry
INVARIANT MutexExclusive
 
PROPERTY ImplementsProgram
PROPERTY DependenciesFirst
CHECK_DEADLOCK FALSE
