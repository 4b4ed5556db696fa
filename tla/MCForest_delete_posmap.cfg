\* Blocks that delete and add: PosMapSanity after removev5 and addv2.
CONSTANTS
    v1 = v1
    v2 = v2
    v3 = v3
    v4 = v4
    v5 = v5
    v6 = v6
    Vals <- MCVals
    MaxAdds = 2
    MaxDels = 2
SPECIFICATION Spec
INVARIANTS
    PositionMapConsistent
CHECK_DEADLOCK FALSE
