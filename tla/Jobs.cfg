SPECIFICATION FairSpec
CONSTANTS
    Sessions = {"s1"}
    Parents <- MCParents
    Height <- MCHeight
    Work <- MCWork
    Genesis = "p0"
    MaxJobs = 3
    MaxMoves = 2
    ReconnectThreshold = 2
INVARIANTS
    TypeOK
    OneLiveParent
    InvalidatedIsRetained
    CountedWasLive
PROPERTIES
    SwitchLagWasTold
    SentinelIsNotUndone
    MinersCatchUp
