SPECIFICATION FairSpec
CONSTANTS
    j1 = j1
    j2 = j2
    j3 = j3
    w1 = w1
    w2 = w2
    userA = userA
    userB = userB
    orgA = orgA
    orgB = orgB
    None = None
    Jobs = {j1}
    Workers = {w1, w2}
    UserOf <- TwoUsers
    OrgOf <- NoneOf
    TypeOf <- Interactive
    KeyOf <- NoneOf
    PriorityOf <- SamePriority
    Punctual = {}
    MaxAttempts = 2
    Concurrency = 1
    UserConcurrency = 1
    OrgConcurrency = 1
    MaxQueueLength = 2
    MaxActivePerUser = 2
    MaxCrashes = 1
    MaxStops = 1
    MaxRequeues = 0
CHECK_DEADLOCK FALSE
PROPERTIES
    EveryJobSettles
    StopCompletes
