CONSTANTS
    t1 = t1  t2 = t2  t3 = t3
    r1 = r1  r2 = r2  r3 = r3  pl = pl
    Nifs = {n1, n2}
    Requests = {r1, pl}
    Playlists = {pl}
    Tracks = {t1, t2}
    TracksOf <- TrackAndPlaylist
    PlayerTracks = {t1}
    NULL = NULL
SPECIFICATION FairSpec
INVARIANTS TypeOK ListAlive
PROPERTIES TableSpec QueuedIsAnswered
CHECK_DEADLOCK FALSE
