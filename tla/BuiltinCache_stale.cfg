SPECIFICATION Spec
CONSTANTS
    Files = {f1}
    Workers = {w1, w2}
    Barren = {}
    MaxChanges = 2
    RefreshCap = 1
    ChangesCap = 1
    None = None
INVARIANTS NeverStale
CHECK_DEADLOCK FALSE
