\* Three blocks from height 1; StartupReplayCompletes is expected to be violated.
CONSTANTS
    FirstHeight = 1
    NumBlocks = 3
    Slots <- MCSlots
    ChanCap = 1
    MaxRestarts = 1
SPECIFICATION Spec
INVARIANT StartupReplayCompletes
CHECK_DEADLOCK FALSE
