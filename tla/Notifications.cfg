\* Three channels of two tenants, a report, two workers.
CONSTANTS
    Channels = {"hook", "mail", "other"}
    Events = {"report"}
    Workers = {w1, w2}
    ChannelTenant <- TenantOf
    EventTenant <- EventTenantOf
    EventType <- TypeOf
    Asked <- AskedOf
    Emails = {"mail"}
    Smtp = TRUE
    MaxExtras = 1
    MaxFaults = 1
SPECIFICATION FairSpec
ACTION_CONSTRAINT OneMishap
INVARIANTS ClaimExclusive ConfirmedOnce RowTruthful OnlySubscribed FaultFree
PROPERTY EveryChannelTried
CHECK_DEADLOCK FALSE
