SPECIFICATION Spec
CONSTANTS
    Workflows = {w1}
    Instances = {i1, i2}
    InputSet <- AuditInputs
    MaxRivals = 1
    SeenMax = 1
    MaxExtras = 1
    MaxFaults = 1
SYMMETRY InstanceSymmetry
CHECK_DEADLOCK FALSE
INVARIANTS
    OneInFlight
    RequestedOnce
    AnnouncedOnce
    ReportMatchesSteps
    FailureJustified
    CompletedAudit
    UniqueAdvancer
    DeadJustified
PROPERTIES
    FinalStays
    StepsMoveForward
