SPECIFICATION LiveSpec
CONSTANTS
    page = page
    image = image
    Url = {page, image}
    NoUrl = NoUrl
    NoFetch = NoFetch
    Fetch = {1, 2}
    Scheme <- PageAndFile
    Images = {image}
    Posted = {page}
    Pushed = {}
    PrefsChoices <- OneSlotOrTwoFast
    UserCalls = {"load", "prefs"}
    UserLoads = {"plain"}
    Answers = {"cancel", "ok"}
    MaxUpdates = 1
PROPERTIES
    LoadEnds
CHECK_DEADLOCK FALSE
