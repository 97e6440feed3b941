\* Two events, two relays, and a consumer of each queue.
CONSTANTS
    Events = {"request", "done"}
    Id <- IdOf
    Key <- KeyOf
    Queues = {"crawl", "orchestrator"}
    Binds <- BindsOf
    Relays = {r1, r2}
    Batch = 2
    Consumers = {"crawl", "orchestrator"}
    Consumes <- ConsumesOf
    Prefetch = 1
    MaxFaults = 1
    MaxBlips = 1
SPECIFICATION FairSpec
ACTION_CONSTRAINT OneFailure
INVARIANTS DisjointBatches NothingLost DuplicatesPaidFor
PROPERTY ImplementsDelivery
CHECK_DEADLOCK FALSE
