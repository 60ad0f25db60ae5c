SPECIFICATION FairSpec
CONSTANTS
    Jobs = {open, secret}
    NoJob = NoJob
    Confidential = {secret}
    MaxFailures = 1
    MaxCrashes = 1
    MaxSignals = 1
INVARIANTS
    TypeOK
    
    
PROPERTIES
    PostsWhatEnded
    RunsAreClosed
CHECK_DEADLOCK FALSE
