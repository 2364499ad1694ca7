CONSTANTS
    Callers = {a, b}
    Cmds = {"load", "unload"}
    NULL = NULL
SPECIFICATION FairSpec
INVARIANTS TypeOK MainAwake CallsSound
PROPERTIES ServiceSpec EventsProcessed SleeperAnswered
