\* Blocks that only add leaves: incremental hashing and reMap growth.
CONSTANTS
    v1 = v1
    v2 = v2
    v3 = v3
    v4 = v4
    v5 = v5
    v6 = v6
    Vals <- MCVals
    MaxAdds = 3
    MaxDels = 0
SPECIFICATION SpecWithRestart
INVARIANTS
    TypeOK
    RootsMatchLeaves
    CommitsToLiveSet
    PositionMapConsistent
    ReHashRepairsLeafEdits
    RestoreSucceeds
PROPERTIES
    RestartRoundTrip
CHECK_DEADLOCK FALSE
