SPECIFICATION Spec
CONSTANTS
    x = x
    y = y
    Device = {x, y}
    Month = {1}
    Limited = {}
    Poster = {x}
    Closer = {y}
    MaxHlc = 3
    MaxRestart = 0
INVARIANTS
    OnlyTheHeadCounts
CHECK_DEADLOCK FALSE
