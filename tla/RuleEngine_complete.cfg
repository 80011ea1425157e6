SPECIFICATION Spec
CONSTANTS
    t = t
    h = h
    i = i
    Workers = {w1, w2}
    Runs = {r1}
    Rules = {t, h, s, p, u}
    BufferSize = 1
    Selected = {t, h, s, p}
    Tagging = {t, h, s, u}
    Message = {s, p, u}
    Effort = {s, p}
    HasTags <- MCHasTags
    MayCancel = {r1}
    MayStop = TRUE
    NoMsg = NoMsg
    NoRule = NoRule
SYMMETRY WorkerSymmetry
INVARIANTS
    TypeOK
    OneCategory
    TagsBeforeHasTags
    CompleteRunAnswersAll
    WaitGroupCounts
    CompleteRunLeavesNothing
PROPERTIES
    ProgressMonotone
    CompleteResultsStable
CHECK_DEADLOCK FALSE
