CONSTANTS
    Normal <- NormalOf
    Malformed = "malformed"
    Start = "home"
    SameSite = {"home", "a", "b", "b/", "c", "gone"}
    Foreign = {"ext"}
    Assets = {"logo.png"}
    WellKnown <- Maps
    SitemapLimit = 3
    MaxPages = 5
    MaxDepth = 2
    Workers = 2
    MaxExternal = 1
    MaxFaults = 1
    Jobs = {"audit1", "audit2", "words"}
    MaxJobs = 1
    MaxCrashes = 1
    MaxWriteErrors = 1
    MaxFileErrors = 2
    AuditJobs = {"audit1", "audit2"}
    Node <- NodeOf
    Empty <- EmptyReport
    SiteOf <- SiteWith
    FirstDefects <- Starts
SPECIFICATION Spec
ACTION_CONSTRAINT Quiet
INVARIANTS DiskMatchesRegistry VisitsBounded EveryPageFound NothingNewNotWorse OrphanVerdicts
