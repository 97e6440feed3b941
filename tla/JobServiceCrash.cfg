\* One worker that dies once.
CONSTANTS
    Jobs = {"site"}
    Service <- ServiceOf
    Tenant <- TenantOf
    NoTenant = "nobody"
    Reads <- ReadsOf
    Workers = {"crawl"}
    ApiTasks = {}
    Serves <- ServesOf
    SeenMax = 1
    Misfits = {}
    MaxExtras = 0
    MaxFaults = 1
SPECIFICATION FairSpec
PROPERTY NeverStuck
CHECK_DEADLOCK FALSE
