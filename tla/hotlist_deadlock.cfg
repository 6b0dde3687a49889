SPECIFICATION Spec
CONSTANTS
    Calls = {"viewer", "manager", "restore", "save"}
    MaxCalls = 2
    MaxInputs = 1
INVARIANTS
    NoDeadlock
CHECK_DEADLOCK FALSE
