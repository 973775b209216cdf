SPECIFICATION Spec
CONSTANTS
    j1 = j1
    j2 = j2
    j3 = j3
    w1 = w1
    w2 = w2
    userA = userA
    userB = userB
    orgA = orgA
    orgB = orgB
    None = None
    Jobs = {j1, j2}
    Workers = {w1}
    UserOf <- TwoUsers
    OrgOf <- NoneOf
    TypeOf <- Tests
    KeyOf <- NoneOf
    PriorityOf <- SamePriority
    Punctual = {}
    MaxAttempts = 2
    Concurrency = 2
    UserConcurrency = 1
    OrgConcurrency = 1
    MaxQueueLength = 1
    MaxActivePerUser = 2
    MaxCrashes = 1
    MaxStops = 1
    MaxRequeues = 0
CHECK_DEADLOCK FALSE
INVARIANTS
    OnlyCurrentAttemptRuns
    AttemptBudget
    UserConcurrencyCap
