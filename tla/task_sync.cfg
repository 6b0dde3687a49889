SPECIFICATION Spec
CONSTANTS
    Task = {t1, t2}
    NoTask = NoTask
    IdleCalls = {"new", "start", "sync", "dispose", "quit"}
    OwnCalls = {"async"}
    OtherCalls = {}
    MaxUpdates = 1
    MaxMessages = 1
SYMMETRY Symmetry
INVARIANTS
    AwaitedMessageExists
    MainIsSignalled
CHECK_DEADLOCK FALSE
