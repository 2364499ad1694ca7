-------------------------------- MODULE Terms --------------------------------
(***************************************************************************)
(* The messages to the Erlang process: the esp_*_feedback functions        *)
(* (c_src/espotify_callbacks.c) and the tuples they are built from         *)
(* (c_src/espotify_util.c), against the records of include/espotify.hrl    *)
(* and the callbacks that src/espotify_api.erl documents.  A term says of  *)
(* which Erlang type it is and what of libspotify it tells; strings and    *)
(* numbers themselves are left out.  Objects load at any time, also while  *)
(* a message about them is being built: browse_album builds its message on *)
(* a NIF's thread.                                                         *)
(***************************************************************************)
EXTENDS Naturals, SequencesExt

CONSTANTS Artist, Album, Tracks, Playlists  (* the objects of libspotify   *)

ASSUME TermsAssumption == IsFiniteSet(Tracks) /\ IsFiniteSet(Playlists)

Objects == {Artist, Album} \union Tracks \union Playlists

(* What an object may or may not have.                                     *)
Options == {"portrait", "image", "text", "link"}

VARIABLES
    loaded, (* the objects that have loaded                                *)
    msg     (* the last message: its name, its reference and its term      *)

vars == <<loaded, msg>>

Leaf(type, of) == [type |-> type, of |-> of, args |-> <<>>]
Atom(of) == Leaf("atom", of)
Bool(of) == Leaf("boolean", of)
Str(of)  == Leaf("string", of)
Bin(of)  == Leaf("binary", of)
UInt(of) == Leaf("uint", of)
Record(tag, of, args) == [type |-> tag, of |-> of, args |-> args]

(* c ? t : undefined                                                       *)
When(c, t) == IF c THEN t ELSE Leaf("undefined", t.of)

IsLoaded(b) == Leaf(IF b THEN "true" ELSE "false", "is_loaded")

(* enif_make_list_from_array of what a builder makes of each element.      *)
List(of, Build(_), S) == Record("list", of, [i \in 1 .. Cardinality(S) |-> Build(SetToSeq(S)[i])])

-----------------------------------------------------------------------------
(* The builders.  In w are the objects that are loaded when each is looked *)
(* at, and what they have; `of' is the field that the tuple is for.        *)

(* id_bin.size is set to the size of the image (line 50), so that the      *)
(* binary with the id takes more than the 20 bytes that it has.            *)
image_tuple(of) == Record("sp_image", of, <<Atom("format"), Bin("data"), Leaf("overlong", "id")>>)

artist_tuple(of, w) ==
    LET is == Artist \in w.loaded IN
    Record("sp_artist", of, <<
        IsLoaded(is), Str("link"), When(is, Bin("name")),
        When(is /\ "portrait" \in w.has, Str("portrait"))>>)

album_tuple(of, w, recurse) ==
    LET is == Album \in w.loaded IN
    Record("sp_album", of, <<
        IsLoaded(is), Str("link"), When(is, Bool("is_available")),
        When(is /\ recurse, artist_tuple("artist", w)), When(FALSE, Str("cover")),
        When(is, Bin("name")), When(is, UInt("year")), Atom("type")>>)

(* Mutant: is_loaded is asked for again when the tuple is made.            *)
AskedAgain(x, w) == x \in w.loaded \/ x \in w.late

(* sp_track_is_loaded is called once, and every field goes by the answer.  *)
TrackIsLoaded(x, w) == x \in w.loaded

track_tuple(of, w, t, recurse) ==
    LET is == t \in w.loaded IN
    Record("sp_track", of, <<
        IsLoaded(TrackIsLoaded(t, w)), Str("link"),
        When(is, Bool("is_starred")), When(is, Bool("is_local")),
        When(is /\ recurse, List("artists", LAMBDA a : artist_tuple("artists", w), {Artist})),
        When(is /\ recurse, album_tuple("album", w, FALSE)),
        When(is, Bin("name")), When(is, UInt("duration")), When(is, UInt("popularity")),
        When(is, UInt("disc")), When(is, UInt("index"))>>)

albumbrowse_tuple(of, w) ==
    Record("sp_albumbrowse", of, <<
        album_tuple("album", w, FALSE), artist_tuple("artist", w),
        List("copyrights", LAMBDA x : Bin("copyrights"), {1, 2}),
        List("tracks", LAMBDA t : track_tuple("tracks", w, t, FALSE), Tracks),
        Bin("review")>>)

artistbrowse_tuple(of, w) ==
    Record("sp_artistbrowse", of, <<
        artist_tuple("artist", w),
        List("portraits", LAMBDA x : Str("portraits"), {1, 2}),
        List("tracks", LAMBDA t : track_tuple("tracks", w, t, FALSE), Tracks),
        List("tophit_tracks", LAMBDA t : track_tuple("tophit_tracks", w, t, FALSE), Tracks),
        List("albums", LAMBDA x : album_tuple("albums", w, FALSE), {Album}),
        List("similar_artists", LAMBDA a : artist_tuple("similar_artists", w), {Artist}),
        Bin("biography")>>)

(* Mutant: the names are swapped.                                          *)
UserSwapped(of) ==
    Record("sp_user", of, <<Str("link"), Bin("display_name"), Bin("canonical_name")>>)

user_tuple(of) ==
    Record("sp_user", of, <<Str("link"), Bin("canonical_name"), Bin("display_name")>>)

playlist_track_tuple(of, w, t) ==
    Record("sp_playlist_track", of, <<
        track_tuple("track", w, t, TRUE), UInt("create_time"), user_tuple("creator"),
        Bool("seen"), When("text" \in w.has, Bin("message"))>>)

(* A playlist without a link has sp_link_as_string read NULL.              *)
HasLink(p, w) == p \in w.loaded \/ "link" \in w.has

playlist_tuple(of, w, p, recurse) ==
    LET is == p \in w.loaded IN
    Record("sp_playlist", of, <<
        IsLoaded(is), IF HasLink(p, w) THEN Str("link") ELSE Leaf("null", "link"),
        Bin("name"), user_tuple("owner"), Bool("collaborative"),
        When("text" \in w.has, Bin("description")),
        When("image" \in w.has, Str("image")), When(is, UInt("num_tracks")),
        When(is /\ recurse,
             List("tracks", LAMBDA t : playlist_track_tuple("tracks", w, t), Tracks))>>)

(* Mutant: the link is not looked at.                                      *)
EntryUnchecked(p, w) == playlist_tuple("contents", w, p, FALSE)

(* A playlist in a container is left out until it has a link.              *)
PlaylistEntry(p, w) ==
    IF HasLink(p, w) THEN playlist_tuple("contents", w, p, FALSE)
                     ELSE Leaf("not_loaded", "contents")

Folders == {"start_folder", "end_folder", "placeholder"}

FolderEntry(e) ==
    IF e = "start_folder" THEN Record(e, "contents", <<UInt("id"), Bin("name")>>)
                          ELSE Leaf(e, "contents")

playlistcontainer_tuple(of, w) ==
    Record("sp_playlistcontainer", of, <<
        user_tuple("owner"),
        List("contents",
             LAMBDA e : IF e \in Folders THEN FolderEntry(e) ELSE PlaylistEntry(e, w),
             Playlists \union Folders)>>)

(* Line 476 does not look whether a playlist has a link.                   *)
search_result_tuple(of, w) ==
    Record("sp_search_result", of, <<
        Bin("q"), Bin("did_you_mean"),
        UInt("total_tracks"), UInt("total_albums"), UInt("total_artists"), UInt("total_playlists"),
        List("tracks", LAMBDA t : track_tuple("tracks", w, t, TRUE), Tracks),
        List("albums", LAMBDA x : album_tuple("albums", w, TRUE), {Album}),
        List("artists", LAMBDA a : artist_tuple("artists", w), {Artist}),
        List("playlists", LAMBDA p : playlist_tuple("playlists", w, p, FALSE), Playlists)>>)

-----------------------------------------------------------------------------
(* {'$spotify_callback', Name, {ok, {Ref, Term}}}, {ok, Term} without a    *)
(* reference, or Term itself.                                              *)
cb_result(name, ref, term) == [name |-> name, ref |-> ref, term |-> term]

(* The messages of the esp_*_feedback functions.  A container answers with *)
(* no reference when none was asked for (refptr is NULL); a track or a     *)
(* playlist with its tracks is sent once it has loaded.                    *)
Feedback(w) ==
    {cb_result("logged_in", "none", user_tuple("term")),
     cb_result("logged_in", "none", Bin("error")), cb_result("player_play", "none", Atom("term")),
     cb_result("browse_album", "ref", albumbrowse_tuple("term", w)),
     cb_result("browse_artist", "ref", artistbrowse_tuple("term", w)),
     cb_result("load_image", "ref", image_tuple("term")),
     cb_result("search", "ref", search_result_tuple("term", w)),
     cb_result("debug", "ref", Atom("term"))}
    \union {cb_result("player_load", "none", track_tuple("term", w, t, TRUE))
              : t \in Tracks \intersect w.loaded}
    \union {cb_result("track_info", "ref", track_tuple("term", w, t, TRUE))
              : t \in Tracks \intersect w.loaded}
    \union {cb_result("load_playlist", "ref", playlist_tuple("term", w, p, TRUE))
              : p \in {p \in Playlists : Tracks \union {p} \subseteq w.loaded}}
    \union {cb_result("load_playlistcontainer", ref, playlistcontainer_tuple("term", w))
              : ref \in {"ref", "undefined"}}

NoMsg == cb_result("none", "none", Atom("term"))

Init ==
    /\ loaded = {}
    /\ msg = NoMsg

(* An object loads (external).                                             *)
Load(x) ==
    /\ x \notin loaded
    /\ loaded' = loaded \union {x}
    /\ UNCHANGED msg

(* A message is built while an object of `late' loads: it is looked at     *)
(* before or after.                                                        *)
Send(late, seen, has) ==
    /\ msg = NoMsg
    /\ msg' \in Feedback([loaded |-> loaded \union seen, late |-> late, has |-> has])
    /\ loaded' = loaded \union late

(* The Erlang process receives it.                                         *)
Receive ==
    /\ msg # NoMsg
    /\ msg' = NoMsg
    /\ UNCHANGED loaded

Next ==
    \/ \E x \in Objects : Load(x)
    \/ \E late \in {{}} \union {{x} : x \in Objects \ loaded} :
          \E seen \in SUBSET late, has \in SUBSET Options : Send(late, seen, has)
    \/ Receive

Spec == Init /\ [][Next]_vars

-----------------------------------------------------------------------------
(* The records of include/espotify.hrl: each field's name and its type; a  *)
(* name in brackets is a list of that type.                                *)
One(name, type) == [name |-> name, type |-> type, list |-> FALSE]
Many(name, type) == [name |-> name, type |-> type, list |-> TRUE]

Fields == [
    sp_user |-> <<One("link", "string"), One("canonical_name", "binary"), One("display_name", "binary")>>,
    sp_artist |-> <<One("is_loaded", "boolean"), One("link", "string"), One("name", "binary"),
                    One("portrait", "string")>>,
    sp_album |-> <<One("is_loaded", "boolean"), One("link", "string"), One("is_available", "boolean"),
                   One("artist", "sp_artist"), One("cover", "string"), One("name", "binary"),
                   One("year", "uint"), One("type", "atom")>>,
    sp_track |-> <<One("is_loaded", "boolean"), One("link", "string"), One("is_local", "boolean"),
                   One("is_starred", "boolean"), Many("artists", "sp_artist"), One("album", "sp_album"),
                   One("name", "binary"), One("duration", "uint"), One("popularity", "uint"),
                   One("disc", "uint"), One("index", "uint")>>,
    sp_albumbrowse |-> <<One("album", "sp_album"), One("artist", "sp_artist"),
                   Many("copyrights", "binary"), Many("tracks", "sp_track"), One("review", "binary")>>,
    sp_artistbrowse |-> <<One("artist", "sp_artist"), Many("portraits", "string"),
                   Many("tracks", "sp_track"), Many("tophit_tracks", "sp_track"),
                   Many("albums", "sp_album"), Many("similar_artists", "sp_artist"),
                   One("biography", "binary")>>,
    sp_image |-> <<One("format", "atom"), One("data", "binary"), One("id", "binary")>>,
    sp_playlist_track |-> <<One("track", "sp_track"), One("create_time", "uint"),
                   One("creator", "sp_user"), One("seen", "boolean"), One("message", "binary")>>,
    sp_playlist |-> <<One("is_loaded", "boolean"), One("link", "string"), One("name", "binary"),
                   One("owner", "sp_user"), One("collaborative", "boolean"), One("description", "binary"),
                   One("image", "string"), One("num_tracks", "uint"), Many("tracks", "sp_playlist_track")>>,
    sp_playlistcontainer |-> <<One("owner", "sp_user"), Many("contents", "entry")>>,
    start_folder |-> <<One("id", "uint"), One("name", "binary")>>,
    sp_search_result |-> <<One("q", "binary"), One("did_you_mean", "binary"), One("total_tracks", "uint"),
                   One("total_albums", "uint"), One("total_artists", "uint"),
                   One("total_playlists", "uint"), Many("tracks", "sp_track"),
                   Many("albums", "sp_album"), Many("artists", "sp_artist"),
                   Many("playlists", "sp_playlist")>>]

(* The terms that a type allows besides `undefined'.                       *)
Allowed(type) ==
    CASE type = "boolean" -> {"boolean", "true", "false"}
      [] type = "entry"   -> {"sp_playlist", "not_loaded"} \union Folders
      [] OTHER            -> {type}

(* The terms that are directly in term t of field f, each with the field   *)
(* that it is for.                                                         *)
Parts(t, f) ==
    CASE t.type = "list" -> {<<t.args[i], One(f.name, f.type)>> : i \in DOMAIN t.args}
      [] t.type \in DOMAIN Fields ->
            {<<t.args[i], Fields[t.type][i]>> : i \in DOMAIN t.args \intersect DOMAIN Fields[t.type]}
      [] OTHER -> {}

WithParts(S) == S \union UNION {Parts(p[1], p[2]) : p \in S}

(* The result that espotify_api.erl documents for each callback: an atom   *)
(* for player_load (`loaded', lines 99-100) and player_play.               *)
Documented(name) ==
    CASE name = "track_info"             -> "sp_track"
      [] name = "logged_in"              -> "sp_user"
      [] name = "browse_album"           -> "sp_albumbrowse"
      [] name = "browse_artist"          -> "sp_artistbrowse"
      [] name = "load_image"             -> "sp_image"
      [] name = "search"                 -> "sp_search_result"
      [] name = "load_playlistcontainer" -> "sp_playlistcontainer"
      [] name = "load_playlist"          -> "sp_playlist"
      [] OTHER                           -> "atom"

(* The result that is expected: the documented one, but for player_load,   *)
(* which is documented with an atom and sent with the track.               *)
Expected(name) == IF name = "player_load" THEN "sp_track" ELSE Documented(name)

(* The term of the message and the terms in it: the deepest is the name of *)
(* an artist of a track of a playlist.                                     *)
MsgPairs ==
    WithParts(WithParts(WithParts(WithParts(WithParts(WithParts(
        {<<msg.term, One("term", Expected(msg.name))>>}))))))

TypedAs(t, f) ==
    \/ t.type = "undefined" \/ t.of = "error"
    \/ f.list /\ t.type = "list"
    \/ /\ ~f.list /\ t.type \in Allowed(f.type)
       /\ t.type \in DOMAIN Fields => Len(t.args) = Len(Fields[t.type])
    \/ t.type = "overlong" /\ f = One("id", "binary")
    \/ t.type = "null" /\ f = One("link", "string")

(* The link of a playlist is read only when it has one, unless a search    *)
(* has found the playlist.                                                 *)
LinkRead(t) == t.type = "sp_playlist" /\ t.of # "playlists" => t.args[2].type # "null"

(* Whatever has loaded by then, every term in a message has the type that  *)
(* its record declares, each tuple has as many fields as declared, and no  *)
(* playlist of a container or message has a NULL link read.  Four things   *)
(* the code does are excepted: player_load is sent with the track where    *)
(* espotify_api.erl:99-100 documents an atom, logged_in is also sent with  *)
(* an error, an image's id is longer than its 20 bytes                     *)
(* (espotify_util.c:50), and the NULL link of a playlist that a search has *)
(* found is read (espotify_util.c:476).                                    *)
WellTyped ==
    /\ \A p \in MsgPairs : TypedAs(p[1], p[2]) /\ LinkRead(p[1])
    /\ WithParts(MsgPairs) = MsgPairs

(* The fields that tell what an object is once it has loaded.              *)
Data == [sp_artist |-> {"name"}, sp_album |-> {"is_available", "name", "year"},
         sp_track |-> {"is_starred", "is_local", "name", "duration", "popularity", "disc", "index"},
         sp_playlist |-> {"num_tracks"}]

DataIfLoaded(t) ==
    t.type \in DOMAIN Data =>
        \A i \in DOMAIN t.args :
            t.args[i].of \in Data[t.type] =>
                (t.args[1].type = "true" <=> t.args[i].type # "undefined")

(* A record that says is_loaded has its data, and one that does not has    *)
(* none, even when the object loads while the record is made.              *)
LoadedOrUndefined == \A p \in MsgPairs : DataIfLoaded(p[1])

InPlace(t, f) ==
    \/ t.of \in {f.name, "error"}
    \/ {t.of, f.name} = {"is_local", "is_starred"}

(* Each field tells what its name says; but espotify.hrl:36-37 declares a  *)
(* track's is_local before is_starred, and track_tuple puts them the other *)
(* way round.                                                              *)
FieldsInPlace == \A p \in MsgPairs : InPlace(p[1], p[2])
==============================================================================
