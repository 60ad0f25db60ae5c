SPECIFICATION Spec
CONSTANTS
    Job <- PairJob
    Ops <- JobOps
    NGroups <- JobNGroups
    GroupOf <- JobGroupOf
    Dependencies <- JobDependencies
    Servers <- JobServers
    Volumes = {}
    Exposed = {}
    Probed = {}
    Timed = {}
    Interpolating = {}
    Requests = {"restartOp"}
    JobStops = {"quit"}
    GpuRuntime = TRUE
    RuntimeMayFail = TRUE
    TeardownMayFail = TRUE
    MaxLive = 2
INVARIANT AbortReachesEveryRun
CHECK_DEADLOCK FALSE
