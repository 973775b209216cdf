SPECIFICATION FairPages
CONSTANTS
    s1 = s1
    userA = userA
    Sessions = {s1}
    Users = {userA}
    OwnerOf <- OneUser
    GlobalLimit = 1
    UserLimit = 1
    MaxAttempts = 1
    OwnerListed = FALSE
    MaxFaults = 0
    MaxShots = 0
    MaxLooks = 1
    MaxPictures = 1
    Extra = {}
    MaxMisses = 0
    MaxEvents = 0
    Polls = {}
    MaxBreaks = 0
    MaxChanges = 1
    Fetches = {}
    MaxOutages = 0
    Viewers = {}
    Streams = {}
    RuntimeEvents = 0
    RingSize = 0
    HubBreaks = 0
    Authorized = TRUE
    MaxConsole = 0
    MaxShown = 1
    Requests <- OneStatusPoll
CHECK_DEADLOCK FALSE
PROPERTY
    ContainersAreReclaimed
