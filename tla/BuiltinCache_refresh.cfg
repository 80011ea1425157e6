SPECIFICATION Spec
CONSTANTS
    Files = {f1}
    Workers = {w1, w2}
    Barren = {0, 2}
    MaxChanges = 2
    RefreshCap = 1
    ChangesCap = 1
    None = None
INVARIANTS TypeOK PendingCompletedOnce FreshWhenApart WorkingCopiesCurrent
PROPERTIES EvaluateReturns StopEnds
CHECK_DEADLOCK FALSE
