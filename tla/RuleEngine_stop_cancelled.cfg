SPECIFICATION FairSpec
CONSTANTS
    t = t
    h = h
    i = i
    Workers = {w1}
    Runs = {r1}
    Rules = {p}
    BufferSize = 1
    Selected = {p}
    Tagging = {}
    Message = {p}
    Effort = {p}
    HasTags <- MCHasTags
    MayCancel = {r1}
    MayStop = TRUE
    NoMsg = NoMsg
    NoRule = NoRule
PROPERTIES
    StopReturned
CHECK_DEADLOCK FALSE
