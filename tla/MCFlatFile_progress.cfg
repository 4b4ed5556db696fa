\* The two writer goroutines never stall, with one crash and restart.
CONSTANTS
    FirstHeight = 1
    NumBlocks = 3
    Slots <- MCSlots
    ChanCap = 1
    MaxRestarts = 1
SPECIFICATION Spec
INVARIANT TypeOK
PROPERTY Progress
CHECK_DEADLOCK FALSE
