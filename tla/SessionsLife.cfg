SPECIFICATION FairPages
CONSTANTS
    s1 = s1
    userA = userA
    Sessions = {s1}
    Users = {userA}
    OwnerOf <- OneUser
    GlobalLimit = 1
    UserLimit = 1
    MaxAttempts = 2
    OwnerListed = TRUE
    MaxFaults = 1
    MaxShots = 1
    MaxLooks = 1
    MaxPictures = 2
    Extra = {1}
    MaxMisses = 1
    MaxEvents = 2
    Polls = {1, 2}
    MaxBreaks = 1
    MaxChanges = 3
    Fetches = {1, 2}
    MaxOutages = 2
    Viewers = {1}
    Streams = {1, 2}
    RuntimeEvents = 3
    RingSize = 2
    HubBreaks = 1
    Authorized = TRUE
    MaxConsole = 1
    MaxShown = 2
    Requests <- OneStatusPoll
CHECK_DEADLOCK FALSE
INVARIANTS
    LiveSessionsHold
    StreamsHold
PROPERTIES
    EndedSessionsStay
    SessionsSettle
    ContainersAreReclaimed
    PagesFollow
