SPECIFICATION FairSpec
CONSTANTS
    Messages = {m1, m2, m3}
    Panes = {p1}
    PaneStates = {Unknown, Working}
    Unknown = Unknown
    Limit = 2
    MaxTracked = 2
INVARIANT RecordedOnce
INVARIANT PanesReplay
PROPERTY StoppedLast
PROPERTY MessagesRecorded
PROPERTY StopEnds
CHECK_DEADLOCK FALSE
