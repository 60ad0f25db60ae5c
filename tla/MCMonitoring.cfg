SPECIFICATION Spec
CONSTANTS
    Jobs = {j1, j2}
    MaxClaims = 2
    MaxFails = 1
    MaxCalls = 2
INVARIANTS
    TypeOK
    
    QuietWindowEnds

    
CHECK_DEADLOCK FALSE
