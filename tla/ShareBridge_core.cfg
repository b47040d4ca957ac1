SPECIFICATION Spec
CONSTANTS
    Ops = {"lan", "local", "stop"}
    BindFails = TRUE
    MaxCalls = 4
INVARIANTS NoSelfConflict
PROPERTY StaleStopHarmless
CHECK_DEADLOCK FALSE
