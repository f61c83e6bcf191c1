SPECIFICATION Spec
CONSTANTS
    Procs = {p1}
    States = {s1, s2}
    Inodes = {i1, i2, i3}
    NoFile = NoFile
    Empty = Empty
    Torn = Torn
    MaxQueue = 2
    MayTamper = TRUE
PROPERTY ImplementsStore
PROPERTY OnlyEditsTear
