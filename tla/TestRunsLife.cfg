SPECIFICATION FairRuns
CONSTANTS
    r1 = r1
    userA = userA
    Runs = {r1}
    Users = {userA}
    UserOf <- OneUser
    MaxAttempts = 2
    MaxActive = 2
    Limit = 1
    MaxCrashes = 1
    MaxStops = 1
    MaxOverrides = 1
    MaxTests = 2
    MaxEvents = 1
CHECK_DEADLOCK FALSE
INVARIANTS
    VerdictsAreEarned
    ResultsAreCharged
    RunnableHoldsReservation
PROPERTIES
    EndedRunsStay
    JobKeepsContract
    RunsSettle
