SPECIFICATION FairSpec
CONSTANTS
    Sessions = {"s1"}
    Parents <- MCParents
    Height <- MCHeight
    Work <- MCWork
    Genesis = "p0"
    MaxJobs = 3
    MaxMoves = 1
    ReconnectThreshold = 2
PROPERTIES
    EverySessionIsTold
