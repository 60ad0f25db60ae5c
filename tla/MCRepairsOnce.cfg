SPECIFICATION Spec
CONSTANTS
    Ops = {a, b}
    MaxDriver = 1
    MaxLog = 4
    MaxCatchUp = 3
    MaxFaults = 0
    MaxCrashes = 0
    KernelBreaks = TRUE
PROPERTY RepairsOnce
CHECK_DEADLOCK FALSE
