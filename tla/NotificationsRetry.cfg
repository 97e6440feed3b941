\* A webhook whose receiver is busy once.
CONSTANTS
    Channels = {"hook"}
    Events = {"report"}
    Workers = {w1}
    ChannelTenant <- TenantOf
    EventTenant <- EventTenantOf
    EventType <- TypeOf
    Asked <- AskedOf
    Emails = {}
    Smtp = TRUE
    MaxExtras = 0
    MaxFaults = 0
SPECIFICATION FairSpec
PROPERTY ReleasedRetried
CHECK_DEADLOCK FALSE
