SPECIFICATION FairSpec
CONSTANTS
    page = page
    image = image
    Url = {page}
    NoUrl = NoUrl
    NoFetch = NoFetch
    Fetch = {1, 2}
    Scheme <- PageAndFile
    Images = {}
    Posted = {}
    Pushed = {page}
    PrefsChoices <- OneSlot
    UserCalls = {"load", "cancelurl", "show"}
    UserLoads = {"plain", "reload"}
    Answers = {"cancel", "ok", "retry"}
    MaxUpdates = 1
INVARIANTS
    SlotsAccounted
    UrlPointersLive
    FetchesAreOwned
    DriverHasItsFetch
PROPERTIES
    StoppedIsFreed
CHECK_DEADLOCK FALSE
