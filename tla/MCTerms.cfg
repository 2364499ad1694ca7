CONSTANTS
    Artist = artist
    Album = album
    Tracks = {t1, t2}
    Playlists = {p1, p2}
SPECIFICATION Spec
INVARIANTS WellTyped LoadedOrUndefined FieldsInPlace
CHECK_DEADLOCK FALSE
