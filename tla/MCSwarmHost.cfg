\* One host, two beads, one local commit that one of them conflicts with, one trouble.
SPECIFICATION FairSpec
CONSTANTS
    Hosts = {w1}
    Here = here
    None = none
    Beads = {b1, b2}
    Local = {c1}
    Clashing = {b1}
    Strict = {b1}
    MaxTrouble = 1
INVARIANTS  AwakeOnce
PROPERTIES NothingUndone Collected PanesAreTold ComesHome
