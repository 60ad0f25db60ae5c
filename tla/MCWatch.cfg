SPECIFICATION Spec
CONSTANTS
    p = p
    q = q
    Ports = {p, q}
    Setups <- MCSetups
    MaxRestarts = 1
    MaxProbes = 2
    MaxInspects = 1
    MaxFaults = 1
    MaxChanges = 3
INVARIANTS
    TypeOK
PROPERTIES
    ExitIsReal
    ExitIsSeen
    FallIsReported
    PortsComeBack
CHECK_DEADLOCK FALSE
