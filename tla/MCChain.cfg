SPECIFICATION Spec
CONSTANTS
    Job <- ChainJob
    Ops <- JobOps
    NGroups <- JobNGroups
    GroupOf <- JobGroupOf
    Dependencies <- JobDependencies
    Servers <- JobServers
    Volumes = {"volume"}
    Exposed = {}
    Probed = {}
    Timed = {"test"}
    Interpolating = {"build", "publish"}
    Requests = {"stopOp", "stopGroup"}
    JobStops = {"expired", "quit"}
    GpuRuntime = FALSE
    RuntimeMayFail = FALSE
    TeardownMayFail = FALSE
    MaxLive = 2
INVARIANTS
    StartsInOrder
    OnlyBlockedOpsWait
CHECK_DEADLOCK FALSE
