CONSTANTS
    Providers = {"go"}
SPECIFICATION StartSpec
INVARIANTS
    BuiltinGetsAll
CHECK_DEADLOCK FALSE
