CONSTANTS
    Threads = {nif, main}
    Items = {m, r1, r2}
    Replies = {r1, r2}
    Pids = {p, q}
    Garbage = {0, 1}
    NULL = NULL
SPECIFICATION FairSpec
INVARIANTS TypeOK ListSound NoSleepOnWork RefCntExact
PROPERTIES ChannelSpec PushedIsDelivered StopHonoured
CHECK_DEADLOCK FALSE
