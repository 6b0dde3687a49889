SPECIFICATION FairSpec
CONSTANTS
    Task = {t1}
    NoTask = NoTask
    IdleCalls = {"new", "start", "dispose", "sync", "vanilla", "suspend", "quit"}
    OwnCalls = {}
    OtherCalls = {}
    MaxUpdates = 1
    MaxMessages = 2
PROPERTIES
    SyncCallReturns
    DisposalEnds
    QuitEnds
CHECK_DEADLOCK FALSE
