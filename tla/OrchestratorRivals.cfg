SPECIFICATION Spec
CONSTANTS
    Workflows = {w1}
    Instances = {i1}
    InputSet <- RivalInputs
    MaxRivals = 2
    SeenMax = 1
    MaxExtras = 0
    MaxFaults = 0
CHECK_DEADLOCK FALSE
INVARIANTS
    EveryFinishAnnounced
