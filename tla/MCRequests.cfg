CONSTANTS
    Nifs = {n1}
    r1 = r1
    r2 = r2
    r3 = r3
    p1 = p1
    p2 = p2
    Requests = {r1, r2, r3}
    Playlists = {p1, p2}
    PlaylistsOf <- MCPlaylistsOf
    NULL = NULL
SPECIFICATION FairSpec
INVARIANTS TypeOK AnsweredOnceReleased NoUseAfterRelease
PROPERTY RequestAnswered
CHECK_DEADLOCK FALSE
