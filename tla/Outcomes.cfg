SPECIFICATION OutcomesSpec
CONSTANTS
    Items = {1, 2, 3, 4}
    Reports = {"r1"}
    Artifacts = {1, 2}
    MaxItems = 1
    MaxEvidence = 3
    MaxLaunches = 2
    Sizes = {1, 2}
    Popups = 2
    SavedIds = {"a"}
    Names = {"n"}
    Variables = {"v"}
    SaveAs = {"ACTIVE"}
    MaxOpen = 2
    MaxVersion = 2
    Tabs = {1, 2}
    Subs = {1, 2}
    Cycle = 1
    Grace = 1
    Window = 1
    LastMoment = 3
    Changes = 2
    Sessions = {"s1", "s2"}
    Users = {"u1"}
    OwnerOf <- OneOwner
    GlobalLimit = 1
    UserLimit = 1
    MaxAttempts = 2
    OwnerListed = TRUE
    MaxFaults = 1
    MaxShots = 0
    MaxLooks = 0
    Files = {"f1", "f2"}
    Tries = {1, 2}
    Launches = {1}
    Limit = 1
    Pages = {"p1", "p2"}
    AskerOf <- Askers12
    Questions = {"e1"}
    Calls = {1, 2, 3}
    Settings <- Plans
    Segments <- PathSegments
    Packages <- PackagesOfEachKind
    MaxSize = 1
    MaxFiles = 4
    MaxFileSize = 4
    MaxTotalSize = 5
    MaxScanned = 2
    Rank <- ByName
    Tests = {"t1"}
    Categories = {"c"}
    CategoryOf <- OneTest
    Browsers = {"chromium", "firefox"}
    EndStatuses = {"passed", "warning", "failed", "timeout", "unsupported"}
    RuleSets <- Gates
    Named = {"f", "g", "h", "d", "t", "u", "v"}
    Issues <- IssueLists
    Diagnostics <- DiagnosticLists
    TestLists <- ListsOfTests
    MaxEvents = 1
    HardCap = 2
    Cap = 2
    Few = 1
    Fewer = 1
    Budgets = {4, 7, 20}
    Citations = {"f", "d", "t", "z"}
    MaxSuggested = 1
CHECK_DEADLOCK FALSE
INVARIANTS
    SlotsHold
    EvidenceIsKept
    
    
    
    
PROPERTY
    SavesAreSeen
