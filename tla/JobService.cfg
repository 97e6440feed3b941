\* A comparison of a tenant's crawl with another tenant's and with its own second one.
CONSTANTS
    Jobs = {"site", "rival1", "foreign", "duel"}
    Service <- ServiceOf
    Tenant <- TenantOf
    NoTenant = "nobody"
    Reads <- ReadsOf
    Workers = {"crawl", "competitor"}
    ApiTasks = {"crawlapi"}
    Serves <- ServesOf
    SeenMax = 1
    Misfits = {"site", "duel"}
    MaxExtras = 1
    MaxFaults = 1
SPECIFICATION Spec
INVARIANTS OutcomeAnnounced TenantIsolation BasisComplete ReportIffCompleted RunningHasRunner
PROPERTY CompletedStays
CHECK_DEADLOCK FALSE
