SPECIFICATION Spec
CONSTANTS
    Url = {u1, u2}
    Expiring = {u1}
    MaxObjects = 2
    MaxNr = 2
    MaxData = 1
    MaxStops = 2
    NRCHKPT = 1
    CHKAFTER = 0
    Disksize = 1
INVARIANTS
    CompleteIsKept
PROPERTIES
    QuitKeeps
    FlushMakesRoom
CHECK_DEADLOCK FALSE
