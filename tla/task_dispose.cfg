SPECIFICATION Spec
CONSTANTS
    Task = {t1, t2}
    NoTask = NoTask
    IdleCalls = {"new", "start", "dispose"}
    OwnCalls = {"stop", "dispose"}
    OtherCalls = {"new", "start", "stop", "dispose"}
    MaxUpdates = 2
    MaxMessages = 0
SYMMETRY Symmetry
INVARIANTS
    FreedTaskHasNoMessages
    NoFrameOnFreedTask
    SyncUpdateIsPending
    NoneLeftDisposing
PROPERTIES
    GrantIsKept
    BreaksOnlyTheLiving
    LifeSpec
CHECK_DEADLOCK FALSE
