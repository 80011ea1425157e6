SPECIFICATION FairSpec
CONSTANTS
    t = t
    h = h
    i = i
    Workers = {w1}
    Runs = {r1, r2}
    Rules = {t, h, i}
    BufferSize = 1
    Selected = {h, i}
    Tagging = {}
    Message = {h, i}
    Effort = {h}
    HasTags <- MCHasTags
    MayCancel = {}
    MayStop = TRUE
    NoMsg = NoMsg
    NoRule = NoRule
PROPERTIES
    RunReturns
    StopReturned
CHECK_DEADLOCK FALSE
