SPECIFICATION Spec
CONSTANTS
    Job <- ServedJob
    Ops <- JobOps
    NGroups <- JobNGroups
    GroupOf <- JobGroupOf
    Dependencies <- JobDependencies
    Servers <- JobServers
    Volumes = {}
    Exposed = {"server"}
    Probed = {"server"}
    Timed = {"client"}
    Interpolating = {}
    Requests = {"stopOp", "stopGroup", "restartOp", "restartGroup"}
    JobStops = {"expired", "quit"}
    GpuRuntime = TRUE
    RuntimeMayFail = FALSE
    TeardownMayFail = FALSE
    MaxLive = 2
INVARIANTS
    TypeOK
    AbortReachesEveryRun
    EveryRunIsAwaited
    LockedRunIsEnding
PROPERTIES
    ImplementsJobFlow
    OutcomeIsFinal
    StoppedStaysDown
CHECK_DEADLOCK FALSE
