CONSTANTS
    t1 = t1  t2 = t2  t3 = t3
    r1 = r1  r2 = r2  r3 = r3  pl = pl
    Nifs = {n1}
    Requests = {r1, r2, r3}
    Playlists = {}
    Tracks = {t1, t2, t3}
    TracksOf <- ThreeTracks
    PlayerTracks = {}
    NULL = NULL
SPECIFICATION FairSpec
PROPERTY AllAnswered
CHECK_DEADLOCK FALSE
