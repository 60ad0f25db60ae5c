SPECIFICATION FairSpec
CONSTANTS
    Job <- ServedJob
    Ops <- JobOps
    NGroups <- JobNGroups
    GroupOf <- JobGroupOf
    Dependencies <- JobDependencies
    Servers <- JobServers
    Volumes = {}
    Exposed = {"server"}
    Probed = {"server"}
    Timed = {}
    Interpolating = {}
    Requests = {"stopOp", "restartOp"}
    JobStops = {"stopped"}
    GpuRuntime = FALSE
    RuntimeMayFail = FALSE
    TeardownMayFail = FALSE
    MaxLive = 1
PROPERTIES
    StopsReturn
    ServerStops
CHECK_DEADLOCK FALSE
