\* Crawl, keyword study and the analyses that need one or both, without faults.
CONSTANTS
    Jobs = {"site", "words", "content", "plan"}
    Service <- ServiceOf
    Tenant <- TenantOf
    NoTenant = "nobody"
    Reads <- ReadsOf
    Workers = {"crawl", "keyword", "content", "optimizer"}
    ApiTasks = {}
    Serves <- ServesOf
    SeenMax = 1
    Misfits = {"content"}
    MaxExtras = 1
    MaxFaults = 0
SPECIFICATION FairSpec
PROPERTY EveryJobEnds
CHECK_DEADLOCK FALSE
