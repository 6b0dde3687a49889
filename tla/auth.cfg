SPECIFICATION Spec
CONSTANTS
    Transfer = {t1, t2}
    Realm = {r1}
    Secret = {s1, s2}
    Node = {n1, n2}
    Calls = {"open", "close", "save", "screen", "quit"}
    MaxCalls = 2
    MaxInputs = 2
    t1 = t1
    t2 = t2
    r1 = r1
    s1 = s1
    s2 = s2
    n1 = n1
    n2 = n2
SYMMETRY Symmetry
INVARIANTS
    OneEntryForRealm
    UnchangedIsSaved
    QuietWindowIsCurrent
PROPERTIES
    WritesOnlyEntries
CHECK_DEADLOCK FALSE
