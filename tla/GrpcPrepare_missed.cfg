CONSTANTS
    Calls = 1
    Events = 2
    ReporterCap = 1
SPECIFICATION PrepareSpec
INVARIANTS
    NoneMissed
CHECK_DEADLOCK FALSE
