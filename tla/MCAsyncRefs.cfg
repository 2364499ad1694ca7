CONSTANTS
    Threads = {nif}
    Items = {m, r1, r2}
    Replies = {r1, r2}
    Pids = {p}
    Garbage = {0, 1}
    NULL = NULL
SPECIFICATION Spec
INVARIANT OutstandingRefsLive
CHECK_DEADLOCK FALSE
