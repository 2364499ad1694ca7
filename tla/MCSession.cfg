CONSTANTS
    Procs = {p1, p2}
    MaxStarts = 2
    NULL = NULL
SPECIFICATION FairSpec
INVARIANTS TypeOK LoopSound SessionSound
PROPERTY StopOnceLooping
CHECK_DEADLOCK FALSE
