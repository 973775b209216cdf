SPECIFICATION FairPlatform
CONSTANTS
    Tests = 3
    Needs <- SecondNeedsFirst
    Unsupported = {3}
    Uploads = {1, 2}
    Matrices = {2}
    MaxFailures = 1
    People = {1, 2, 3}
    Invitations = {1, 2}
    Assignable = {"admin", "viewer"}
    Plans = {"free", "pro"}
    DefaultPlan = "free"
    MembersOfPlan <- OneOrTwoMembers
    PlansWithApi = {"pro"}
    MaxKeys = 1
    MaxResends = 1
    Exports = {1, 2}
    ExportFaults = 1
    Commands = {1}
    MaxLost = 2
CHECK_DEADLOCK FALSE
INVARIANTS
    CompletedIsComplete
    RecordsAreTrue
PROPERTIES
    JoinsAreInvited
    PlatformSettles
