SPECIFICATION FairSpec
CONSTANTS
    Calls = {"viewer", "manager", "closeviewer", "closemanager", "add", "addgroup", "save", "restore", "set", "html", "screen", "quit"}
    MaxCalls = 3
    MaxInputs = 2
INVARIANTS
    QuietWindowIsCurrent
    ChangesAreSaved
    BegunIsAnswered
PROPERTIES
    ManagerLetsGo
    MainReturns
CHECK_DEADLOCK FALSE
