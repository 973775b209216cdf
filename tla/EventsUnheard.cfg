SPECIFICATION SessionHubSpec
CONSTANTS
    Viewers = {1}
    Streams = {1, 2}
    RuntimeEvents = 2
    RingSize = 2
    HubBreaks = 1
    Authorized = FALSE
CHECK_DEADLOCK FALSE
PROPERTY
    EventsAreHeard
