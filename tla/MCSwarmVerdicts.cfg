\* A bead that is verified here while the report on its host has no verdict.
SPECIFICATION Spec
CONSTANTS
    Hosts = {w1}
    Here = here
    None = none
    Beads = {b1}
    Local = {}
    Clashing = {}
    Strict = {b1}
    MaxTrouble = 0
PROPERTY VerdictsKept
