SPECIFICATION Spec
CONSTANT JobDefinitions <- ThreeOps
INVARIANTS
    PlanIsSound
CHECK_DEADLOCK FALSE
