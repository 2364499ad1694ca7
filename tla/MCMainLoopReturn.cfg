CONSTANTS
    Callers = {a}
    Cmds = {"load", "play", "unload"}
    NULL = NULL
SPECIFICATION FairSpec
PROPERTY CallReturns
