SPECIFICATION FairSpec
CONSTANTS
    q1 = q1
    q2 = q2
    id1 = id1
    Calls = {c1}
    Notifs = {o1}
    Reqs = {q1, q2, n}
    IDs = {id1}
    IdOf <- MCIdOf
    NoID = NoID
    None = None
    MayBreak = TRUE
INVARIANTS TypeOK InFlightExact RequestsServed CallsRetiredOnce
PROPERTIES ShutdownDrains ImplementsRpcCalls CloseCompletes
CHECK_DEADLOCK FALSE
