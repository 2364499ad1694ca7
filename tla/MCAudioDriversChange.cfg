CONSTANTS
    Rates = {1, 2}
    Frames = {1, 2}
    MaxRate = 2
    MaxFrames = 2
    MaxPos = 7
SPECIFICATION DSpec
INVARIANT ChangeKept
CHECK_DEADLOCK FALSE
