\* Three blocks from height 1; NoOffsetIndexPanic is expected to be violated.
CONSTANTS
    FirstHeight = 1
    NumBlocks = 3
    Slots <- MCSlots
    ChanCap = 1
    MaxRestarts = 0
SPECIFICATION Spec
INVARIANT NoOffsetIndexPanic
CHECK_DEADLOCK FALSE
