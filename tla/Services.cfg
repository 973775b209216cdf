SPECIFICATION FairServices
CONSTANTS
    Events = {1}
    Hooks = {1}
    MaxRetries = 0
    MaxCrashes = 2
    MaxEdits = 2
    Subs = {1}
    MaxVersion = 2
    MaxClock = 4
    MaxFaults = 1
    MaxCalls = 1
    MaxHandlers = 2
    MaxOthers = 1
    Browsers = {"chromium", "firefox"}
    Results = {"passed", "infra"}
    Flaky = {"chromium"}
    Processes = 2
    MaxDeaths = 1
    Requests = {1, 2, 3}
    FailureThreshold = 2
    Window = 2
    Cooldown = 1
    RecoveryProbes = 2
    Starts = 2
    LastTime = 4
    MaxReports = 6
    Concurrency = 2
    MaxOrders = 3
    MaxStarts = 2
    Limit = 2
    Units = {1, 2, 3, 4}
    LastPeriod = 3
CHECK_DEADLOCK FALSE
INVARIANTS
    WebhooksConverge
    
    ChargesHold
PROPERTIES
    BreakerFollowsReports
    ServicesSettle
    WorkerFollowsOperator
