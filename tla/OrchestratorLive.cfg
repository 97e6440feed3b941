SPECIFICATION FairSpec
CONSTANTS
    Workflows = {w1}
    Instances = {i1, i2}
    InputSet <- LiveInputs
    MaxRivals = 1
    SeenMax = 1
    MaxExtras = 1
    MaxFaults = 0
CHECK_DEADLOCK FALSE
PROPERTIES
    EveryAuditEnds FollowsAudit
