CONSTANTS
    Nifs = {n1, n2}
    Tracks = {t1, t2}
    MaxRefs = 2
    NULL = NULL
SPECIFICATION FairSpec
INVARIANTS TypeOK TracksValid PlayingIsCurrent
PROPERTY LoadingIsAnswered
CHECK_DEADLOCK FALSE
