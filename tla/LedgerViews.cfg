SPECIFICATION Spec
CONSTANTS
    x = x
    y = y
    Device = {x, y}
    Month = {1, 2}
    Limited = {x}
    Poster = {x}
    Closer = {y}
    MaxHlc = 3
    MaxRestart = 1
INVARIANTS
    TypeOK
    BalanceIsCounted
    OrphansHaveNoTarget
    RecomputeIsStable
    PairsNetToZero
PROPERTIES
    CountedLeavesForAReason
    LockedMonthGainsForAReason
CHECK_DEADLOCK FALSE
