CONSTANTS
    Nil = Nil
    Error = Error
    Panic = Panic
    Providers = {"go", "java"}
    Collectors = {"rules", "prepare"}
    Throttled = {"prepare"}
    Reporters = 2
    CollectorCap = 1
    Total = 2
    Calls = 2
    Events = 2
    ReporterCap = 1
    RuleFiles = {"a", "b", "c"}
    LoadCap = 1
    Directories = {"d1", "d2"}
    Names = {"a", "b", "c"}
SPECIFICATION Spec
INVARIANTS
    RulesKeepMeaning ScopesHold LabelsSelect ViolationsComplete DependenciesFound
     StartOrdered ReportersAgree PrepareEventsInOrder
PROPERTIES
    StartReturns EventsDelivered
CHECK_DEADLOCK FALSE
