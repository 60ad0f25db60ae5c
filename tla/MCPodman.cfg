SPECIFICATION Spec
CONSTANTS
    Ops = {a, b}
    MaxDriver = 2
    MaxLog = 4
    MaxCatchUp = 3
    MaxFaults = 1
    MaxCrashes = 1
    KernelBreaks = FALSE
INVARIANTS
    TypeOK
    HeldWhileDown
PROPERTIES
    JobsGetNewPodman
    FaultIsNoticed
    HeldRunsGoOn
CHECK_DEADLOCK FALSE
