SPECIFICATION Spec
CONSTANTS
    t1 = t1
    t2 = t2
    epic = epic
    c1 = c1
    c2 = c2
    Beads <- MCBeads
    Needs <- MCNeeds
    Parent <- MCParent
    NoBead = NoBead
    Calls = {c1}
    Ops = {"start", "looks-good"}
    MaxTrouble = 0
INVARIANT GatesAfterAllBeads
CHECK_DEADLOCK FALSE
