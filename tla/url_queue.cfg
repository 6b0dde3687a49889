SPECIFICATION Spec
CONSTANTS
    page = page
    image = image
    Url = {page, image}
    NoUrl = NoUrl
    NoFetch = NoFetch
    Fetch = {1, 2, 3}
    Scheme <- File
    Images = {image}
    Posted = {}
    Pushed = {}
    PrefsChoices <- OneSlot
    UserCalls = {"load", "cancelwindow", "cancelfetch", "wait"}
    UserLoads = {"plain", "ifinmem", "download"}
    Answers = {}
    MaxUpdates = 1
INVARIANTS
    QueueWillMove
    CallsNameLiveFetches
    WaitsForTransfer
PROPERTIES
    WaitIsForAll
CHECK_DEADLOCK FALSE
