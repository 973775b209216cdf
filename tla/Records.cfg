SPECIFICATION RecordsSpec
CONSTANTS
    r1 = r1
    r2 = r2
    userA = userA
    Runs = {r1, r2}
    Users = {userA}
    UserOf <- OneUser
    MaxAttempts = 2
    MaxActive = 2
    Limit = 1
    MaxCrashes = 1
    MaxStops = 0
    MaxOverrides = 0
    Suite <- SuiteOfTwo
    Definitions = {r1, r2}
    Saved = {1, 2}
    Editors = {1, 2}
    Checking = {1}
    Launches = {1}
    Asked = {1}
    MaxVersion = 2
    MaxTorn = 1
    Accounts = {"a1", "a2"}
    Emails = {r1, r2}
    Passwords = {r1, r2}
    Sessions = {"s1", "s2"}
    Resets = {"t1", "t2"}
    Callers = {"c1", "c2", "c3"}
    Processes = {"web"}
    Keys = {"login", "key", "org"}
    Clients = {"q1", "q2", "q3"}
    Requests <- SignInOrKey
    Allowance <- Allowances
    Window = 2
    MaxTime = 3
    MaxFailures = 1
    Owners = {r1, r2}
    Extensions = {"x1"}
    Snapshots = {"n1", "n2"}
    Tests = {"run"}
    Reports = {"report"}
    Shares = {"l1", "l2"}
    Slugs = {"slug"}
    Sharers = {"h1", "h2"}
    Scores = {0, 80}
SYMMETRY Interchangeable
CHECK_DEADLOCK FALSE
INVARIANTS
    QuotaBound
    
PROPERTIES
    RecordsMove
