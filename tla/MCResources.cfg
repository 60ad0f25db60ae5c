SPECIFICATION Spec
CONSTANTS
    a = a
    b = b
    llm = llm
    set = set
    base = base
    extra = extra
    Nothing = Nothing
    Res = {llm, set}
    Images = {base}
    Ops = {a, b}
    Wants <- MCWants
    Runs <- MCRuns
    MaxVolumes = 3
    MaxFaults = 1
    MaxCrashes = 1
    MaxChanges = 1
    MaxJobs = 2
    ListMayFail = FALSE
INVARIANTS
    TypeOK
    DatabaseIsTrue
    OpsHaveTheirResource
PROPERTIES
    RequiredIsKept
CHECK_DEADLOCK FALSE
