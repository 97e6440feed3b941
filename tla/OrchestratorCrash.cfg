SPECIFICATION FairSpec
CONSTANTS
    Workflows = {w1}
    Instances = {i1}
    InputSet <- PlainInputs
    MaxRivals = 0
    SeenMax = 1
    MaxExtras = 0
    MaxFaults = 1
CHECK_DEADLOCK FALSE
PROPERTIES
    CompletionAdvances
