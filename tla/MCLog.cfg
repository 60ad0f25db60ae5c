SPECIFICATION Spec
CONSTANTS
    MaxLines = 4
    MaxSeconds = 2
    MaxLogs = 2
    MaxCuts = 2
    MaxRestarts = 2
INVARIANTS
    TypeOK
    KeepsTheLog
    ResultsHaveTheLastLine
PROPERTIES
    FollowedAgain
CHECK_DEADLOCK FALSE
