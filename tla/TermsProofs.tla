------------------------------ MODULE TermsProofs ------------------------------
(***************************************************************************)
(* Theorems about Terms.tla, for any number of tracks and playlists.       *)
(***************************************************************************)
EXTENDS Terms, TLAPS

-----------------------------------------------------------------------------
(* The declared fields and the data of each record.                        *)
Records == {"sp_user", "sp_artist", "sp_album", "sp_track", "sp_albumbrowse", "sp_artistbrowse",
            "sp_image", "sp_playlist_track", "sp_playlist", "sp_playlistcontainer",
            "start_folder", "sp_search_result"}

LEMMA FieldsDomain == DOMAIN Fields = Records
  BY DEF Fields, Records

LEMMA DataDomain == DOMAIN Data = {"sp_artist", "sp_album", "sp_track", "sp_playlist"}
  BY DEF Data

-----------------------------------------------------------------------------
(* What the three invariants say of one term and its field.                *)
Good(t, f) == TypedAs(t, f) /\ LinkRead(t) /\ DataIfLoaded(t) /\ InPlace(t, f)

(* Good terms that are at most so many levels deep.                        *)
Deep0(p) == Good(p[1], p[2]) /\ Parts(p[1], p[2]) = {}
Deep1(p) == Good(p[1], p[2]) /\ \A k \in Parts(p[1], p[2]) : Deep0(k)
Deep2(p) == Good(p[1], p[2]) /\ \A k \in Parts(p[1], p[2]) : Deep1(k)
Deep3(p) == Good(p[1], p[2]) /\ \A k \in Parts(p[1], p[2]) : Deep2(k)
Deep4(p) == Good(p[1], p[2]) /\ \A k \in Parts(p[1], p[2]) : Deep3(k)
Deep5(p) == Good(p[1], p[2]) /\ \A k \in Parts(p[1], p[2]) : Deep4(k)
Deep6(p) == Good(p[1], p[2]) /\ \A k \in Parts(p[1], p[2]) : Deep5(k)

LEMMA Deeper ==
    ASSUME NEW p
    PROVE  /\ Deep0(p) => Deep1(p)
           /\ Deep1(p) => Deep2(p)
           /\ Deep2(p) => Deep3(p)
           /\ Deep3(p) => Deep4(p)
           /\ Deep4(p) => Deep5(p)
           /\ Deep5(p) => Deep6(p)
<1>1. \A x : Deep0(x) => Deep1(x)
  BY DEF Deep0, Deep1
<1>2. \A x : Deep1(x) => Deep2(x)
  BY <1>1 DEF Deep1, Deep2
<1>3. \A x : Deep2(x) => Deep3(x)
  BY <1>2 DEF Deep2, Deep3
<1>4. \A x : Deep3(x) => Deep4(x)
  BY <1>3 DEF Deep3, Deep4
<1>5. \A x : Deep4(x) => Deep5(x)
  BY <1>4 DEF Deep4, Deep5
<1>6. \A x : Deep5(x) => Deep6(x)
  BY <1>5 DEF Deep5, Deep6
<1> QED
  BY <1>1, <1>2, <1>3, <1>4, <1>5, <1>6

(* The terms without parts.                                                *)
Simple == {"boolean", "true", "false", "string", "binary", "overlong", "null", "uint", "atom",
           "undefined", "not_loaded", "end_folder", "placeholder"}

(* Term t is a simple one that field f may have.                           *)
Plain(t, f) ==
    /\ t = Leaf(t.type, t.of)
    /\ t.type \in Simple
    /\ \/ t.type = "undefined"
       \/ ~f.list /\ t.type \in Allowed(f.type)
       \/ t.type = "overlong" /\ f = One("id", "binary")
       \/ t.type = "null" /\ f = One("link", "string")
    /\ t.of = f.name \/ {t.of, f.name} = {"is_local", "is_starred"}

LEMMA PlainDeep == ASSUME NEW t, NEW f, Plain(t, f) PROVE Deep0(<<t, f>>)
<1>1. t.type # "list" /\ t.type \notin DOMAIN Fields /\ t.type \notin DOMAIN Data
  BY FieldsDomain, DataDomain DEF Plain, Simple, Records
<1>2. Parts(t, f) = {}
  BY <1>1 DEF Parts
<1>3. TypedAs(t, f) /\ DataIfLoaded(t) /\ InPlace(t, f)
  BY <1>1 DEF TypedAs, DataIfLoaded, InPlace, Plain
<1>4. LinkRead(t)
  BY <1>1, FieldsDomain DEF LinkRead, Records
<1> QED
  BY <1>2, <1>3, <1>4 DEF Deep0, Good

(* The good records and lists, given what they are made of.                *)
LEMMA RecordGood ==
    ASSUME NEW tag \in Records, NEW of, NEW args, NEW n \in Nat,
           Len(args) = n, Len(Fields[tag]) = n, DOMAIN args = 1 .. n, DOMAIN Fields[tag] = 1 .. n,
           DataIfLoaded(Record(tag, of, args)), LinkRead(Record(tag, of, args))
    PROVE  /\ Good(Record(tag, of, args), One(of, tag))
           /\ \A k \in Parts(Record(tag, of, args), One(of, tag)) :
                 \E i \in 1 .. n : k = <<args[i], Fields[tag][i]>>
<1> DEFINE t == Record(tag, of, args)
           f == One(of, tag)
<1>1. t.type = tag /\ t.of = of /\ t.args = args /\ f.type = tag /\ ~f.list /\ f.name = of
  BY DEF Record, One
<1>2. tag # "list" /\ tag \in DOMAIN Fields /\ tag \in Allowed(tag)
  BY FieldsDomain DEF Records, Allowed
<1>3. TypedAs(t, f) /\ InPlace(t, f)
  BY <1>1, <1>2 DEF TypedAs, InPlace
<1>4. Parts(t, f) = {<<args[i], Fields[tag][i]>> : i \in 1 .. n}
  <2>1. Parts(t, f) = {<<t.args[i], Fields[t.type][i]>> : i \in DOMAIN t.args \intersect DOMAIN Fields[t.type]}
    BY <1>1, <1>2, Zenon DEF Parts
  <2> QED
    BY <1>1, <2>1
<1> QED
  BY <1>3, <1>4 DEF Good

LEMMA ListGood ==
    ASSUME NEW of, NEW args, NEW type
    PROVE  /\ Good(Record("list", of, args), Many(of, type))
           /\ \A k \in Parts(Record("list", of, args), Many(of, type)) :
                 \E i \in DOMAIN args : k = <<args[i], One(of, type)>>
<1> DEFINE t == Record("list", of, args)
           f == Many(of, type)
<1>1. t.type = "list" /\ t.of = of /\ t.args = args /\ f.list /\ f.name = of /\ f.type = type
  BY DEF Record, Many
<1>2. TypedAs(t, f) /\ LinkRead(t) /\ DataIfLoaded(t) /\ InPlace(t, f)
  BY <1>1, DataDomain DEF TypedAs, LinkRead, DataIfLoaded, InPlace
<1>3. Parts(t, f) = {<<t.args[i], One(f.name, f.type)>> : i \in DOMAIN t.args}
  <2>1. t.type \notin DOMAIN Fields
    BY <1>1, FieldsDomain DEF Records
  <2> QED
    BY <1>1, <2>1, Zenon DEF Parts
<1> QED
  BY <1>1, <1>2, <1>3 DEF Good

(* They are one level deeper than their fields and elements.               *)
LEMMA RecordDeep ==
    ASSUME NEW tag \in Records, NEW of, NEW args, NEW n \in Nat,
           Len(args) = n, Len(Fields[tag]) = n, DOMAIN args = 1 .. n, DOMAIN Fields[tag] = 1 .. n,
           DataIfLoaded(Record(tag, of, args)), LinkRead(Record(tag, of, args))
    PROVE  LET At(i) == <<args[i], Fields[tag][i]>>
               p == <<Record(tag, of, args), One(of, tag)>>
           IN /\ (\A i \in 1 .. n : Deep0(At(i))) => Deep1(p)
              /\ (\A i \in 1 .. n : Deep1(At(i))) => Deep2(p)
              /\ (\A i \in 1 .. n : Deep2(At(i))) => Deep3(p)
              /\ (\A i \in 1 .. n : Deep3(At(i))) => Deep4(p)
              /\ (\A i \in 1 .. n : Deep4(At(i))) => Deep5(p)
              /\ (\A i \in 1 .. n : Deep5(At(i))) => Deep6(p)
<1> DEFINE p == <<Record(tag, of, args), One(of, tag)>>
<1>1. Good(p[1], p[2]) /\ \A k \in Parts(p[1], p[2]) : \E i \in 1 .. n : k = <<args[i], Fields[tag][i]>>
  BY RecordGood
<1> HIDE DEF p
<1> QED
  BY <1>1 DEF Deep1, Deep2, Deep3, Deep4, Deep5, Deep6, p

(* Only playlists have a link that may be NULL.                            *)
LEMMA OtherLinks ==
    ASSUME NEW tag, tag # "sp_playlist"
    PROVE  \A of, args : LinkRead(Record(tag, of, args))
  BY DEF LinkRead, Record

LEMMA ListDeep ==
    ASSUME NEW of, NEW args, NEW type
    PROVE  LET At(i) == <<args[i], One(of, type)>>
               p == <<Record("list", of, args), Many(of, type)>>
           IN /\ (\A i \in DOMAIN args : Deep0(At(i))) => Deep1(p)
              /\ (\A i \in DOMAIN args : Deep1(At(i))) => Deep2(p)
              /\ (\A i \in DOMAIN args : Deep2(At(i))) => Deep3(p)
              /\ (\A i \in DOMAIN args : Deep3(At(i))) => Deep4(p)
              /\ (\A i \in DOMAIN args : Deep4(At(i))) => Deep5(p)
              /\ (\A i \in DOMAIN args : Deep5(At(i))) => Deep6(p)
<1> DEFINE p == <<Record("list", of, args), Many(of, type)>>
<1>1. Good(p[1], p[2]) /\ \A k \in Parts(p[1], p[2]) : \E i \in DOMAIN args : k = <<args[i], One(of, type)>>
  BY ListGood
<1> HIDE DEF p
<1> QED
  BY <1>1 DEF Deep1, Deep2, Deep3, Deep4, Deep5, Deep6, p

-----------------------------------------------------------------------------
(* The builders, from the simple records to those that hold others.        *)
LEMMA UserDeep == ASSUME NEW of PROVE Deep1(<<user_tuple(of), One(of, "sp_user")>>)
<1>s. PICK s : s = <<Str("link"), Bin("canonical_name"), Bin("display_name")>>
  OBVIOUS
<1>d. PICK d : d = Fields["sp_user"]
  OBVIOUS
<1>1. d = <<One("link", "string"), One("canonical_name", "binary"), One("display_name", "binary")>>
  BY <1>d DEF Fields
<1>2. /\ Len(s) = 3 /\ Len(d) = 3 /\ DOMAIN s = 1 .. 3 /\ DOMAIN d = 1 .. 3
      /\ "sp_user" \in Records /\ user_tuple(of) = Record("sp_user", of, s)
  BY <1>s, <1>1 DEF user_tuple, Records
<1>3. DataIfLoaded(Record("sp_user", of, s))
  BY DataDomain DEF DataIfLoaded, Record
<1>4. \A i \in 1 .. 3 : Plain(s[i], d[i])
  BY <1>s, <1>1 DEF Plain, Str, Bin, Leaf, One, Simple, Allowed
<1>5. \A i \in 1 .. 3 : Deep0(<<s[i], d[i]>>)
  BY <1>4, PlainDeep
<1> QED
  BY <1>d, <1>2, <1>3, <1>5, OtherLinks, RecordDeep

LEMMA ImageDeep == ASSUME NEW of PROVE Deep1(<<image_tuple(of), One(of, "sp_image")>>)
<1>s. PICK s : s = <<Atom("format"), Bin("data"), Leaf("overlong", "id")>>
  OBVIOUS
<1>d. PICK d : d = Fields["sp_image"]
  OBVIOUS
<1>1. d = <<One("format", "atom"), One("data", "binary"), One("id", "binary")>>
  BY <1>d DEF Fields
<1>2. /\ Len(s) = 3 /\ Len(d) = 3 /\ DOMAIN s = 1 .. 3 /\ DOMAIN d = 1 .. 3
      /\ "sp_image" \in Records /\ image_tuple(of) = Record("sp_image", of, s)
  BY <1>s, <1>1 DEF image_tuple, Records
<1>3. DataIfLoaded(Record("sp_image", of, s))
  BY DataDomain DEF DataIfLoaded, Record
<1>4. Plain(s[1], d[1]) /\ Plain(s[2], d[2])
  BY <1>s, <1>1 DEF Plain, Atom, Bin, Leaf, One, Simple, Allowed
<1>6. s[3] = Leaf("overlong", "id") /\ d[3] = One("id", "binary")
  BY <1>s, <1>1
<1>7. Plain(s[3], d[3])
  BY <1>6 DEF Plain, Leaf, One, Simple
<1>5. \A i \in 1 .. 3 : Deep0(<<s[i], d[i]>>)
  BY <1>4, <1>7, PlainDeep
<1> QED
  BY <1>d, <1>2, <1>3, <1>5, OtherLinks, RecordDeep

LEMMA ArtistDeep == ASSUME NEW of, NEW w PROVE Deep1(<<artist_tuple(of, w), One(of, "sp_artist")>>)
<1> DEFINE is == Artist \in w.loaded
<1>s. PICK s : s = <<IsLoaded(is), Str("link"), When(is, Bin("name")),
                     When(is /\ "portrait" \in w.has, Str("portrait"))>>
  OBVIOUS
<1>d. PICK d : d = Fields["sp_artist"]
  OBVIOUS
<1>1. d = <<One("is_loaded", "boolean"), One("link", "string"),
            One("name", "binary"), One("portrait", "string")>>
  BY <1>d DEF Fields
<1>2. /\ Len(s) = 4 /\ Len(d) = 4 /\ DOMAIN s = 1 .. 4 /\ DOMAIN d = 1 .. 4
      /\ "sp_artist" \in Records /\ artist_tuple(of, w) = Record("sp_artist", of, s)
  BY <1>s, <1>1 DEF artist_tuple, Records
<1>3. DataIfLoaded(Record("sp_artist", of, s))
  <2>1. Data["sp_artist"] = {"name"}
    BY DEF Data
  <2> QED
    BY <1>s, <2>1 DEF DataIfLoaded, Record, When, IsLoaded, Str, Bin, Leaf
<1>4. \A i \in 1 .. 4 : Plain(s[i], d[i])
  BY <1>s, <1>1 DEF Plain, IsLoaded, When, Str, Bin, Leaf, One, Simple, Allowed
<1>5. \A i \in 1 .. 4 : Deep0(<<s[i], d[i]>>)
  BY <1>4, PlainDeep
<1> QED
  BY <1>d, <1>2, <1>3, <1>5, OtherLinks, RecordDeep

Artists(of, w) == Record("list", of, [i \in 1 .. Cardinality({Artist}) |-> artist_tuple(of, w)])

LEMMA ArtistsDeep == ASSUME NEW of, NEW w PROVE Deep2(<<Artists(of, w), Many(of, "sp_artist")>>)
<1>s. PICK s : s = [i \in 1 .. Cardinality({Artist}) |-> artist_tuple(of, w)]
  OBVIOUS
<1>1. \A i \in DOMAIN s : Deep1(<<s[i], One(of, "sp_artist")>>)
  BY <1>s, ArtistDeep
<1>2. Artists(of, w) = Record("list", of, s)
  BY <1>s DEF Artists
<1> QED
  BY <1>1, <1>2, ListDeep

(* An album with its artist is one level deeper than without.              *)
LEMMA AlbumDeep ==
    ASSUME NEW of, NEW w, NEW recurse \in BOOLEAN
    PROVE  /\ ~recurse => Deep1(<<album_tuple(of, w, recurse), One(of, "sp_album")>>)
           /\ Deep2(<<album_tuple(of, w, recurse), One(of, "sp_album")>>)
<1> DEFINE is == Album \in w.loaded
           a == artist_tuple("artist", w)
<1>a. a.of = "artist" /\ Deep1(<<a, One("artist", "sp_artist")>>)
  BY ArtistDeep DEF artist_tuple, Record
<1> HIDE DEF a
<1>s. PICK s : s = <<IsLoaded(is), Str("link"), When(is, Bool("is_available")),
                     When(is /\ recurse, a), When(FALSE, Str("cover")),
                     When(is, Bin("name")), When(is, UInt("year")), Atom("type")>>
  OBVIOUS
<1>d. PICK d : d = Fields["sp_album"]
  OBVIOUS
<1>1. d = <<One("is_loaded", "boolean"), One("link", "string"), One("is_available", "boolean"),
            One("artist", "sp_artist"), One("cover", "string"), One("name", "binary"),
            One("year", "uint"), One("type", "atom")>>
  BY <1>d DEF Fields
<1>2. /\ Len(s) = 8 /\ Len(d) = 8 /\ DOMAIN s = 1 .. 8 /\ DOMAIN d = 1 .. 8
      /\ "sp_album" \in Records /\ album_tuple(of, w, recurse) = Record("sp_album", of, s)
  BY <1>s, <1>1 DEF album_tuple, Records, a
<1>3. s[4] = When(is /\ recurse, a) /\ d[4] = One("artist", "sp_artist")
  BY <1>s, <1>1
<1>4. DataIfLoaded(Record("sp_album", of, s))
  <2>1. Data["sp_album"] = {"is_available", "name", "year"}
    BY DEF Data
  <2>2. s[1].type = "true" <=> is
    BY <1>s DEF IsLoaded, Leaf
  <2>3. \A i \in {3, 6, 7} : s[i].type # "undefined" <=> is
    BY <1>s DEF When, Bool, Bin, UInt, Leaf
  <2>4. \A i \in {1, 2, 4, 5, 8} : s[i].of \notin {"is_available", "name", "year"}
    BY <1>s, <1>3, <1>a DEF IsLoaded, When, Str, Atom, Leaf
  <2>5. \A i \in DOMAIN s : s[i].of \in Data["sp_album"] => (s[1].type = "true" <=> s[i].type # "undefined")
    BY <1>2, <2>1, <2>2, <2>3, <2>4
  <2> QED
    BY <2>5 DEF DataIfLoaded, Record
<1>5. \A i \in (1 .. 8) \ {4} : Plain(s[i], d[i])
  BY <1>s, <1>1 DEF Plain, IsLoaded, When, Str, Bin, Bool, UInt, Atom, Leaf, One, Simple, Allowed
<1>6. IF is /\ recurse THEN Deep1(<<s[4], d[4]>>) ELSE Plain(s[4], d[4])
  <2>1. CASE is /\ recurse
    BY <1>a, <1>3, <2>1 DEF When
  <2>2. CASE ~(is /\ recurse)
    BY <1>a, <1>3, <2>2 DEF When, Plain, Leaf, One, Simple
  <2> QED
    BY <2>1, <2>2
<1>7. \A i \in 1 .. 8 : Deep1(<<s[i], d[i]>>) /\ (~recurse => Deep0(<<s[i], d[i]>>))
  BY <1>5, <1>6, PlainDeep, Deeper
<1> QED
  BY <1>d, <1>2, <1>4, <1>7, OtherLinks, RecordDeep

Albums(of, w, recurse) ==
    Record("list", of, [i \in 1 .. Cardinality({Album}) |-> album_tuple(of, w, recurse)])

LEMMA AlbumsDeep ==
    ASSUME NEW of, NEW w, NEW recurse \in BOOLEAN
    PROVE  Deep3(<<Albums(of, w, recurse), Many(of, "sp_album")>>)
<1>s. PICK s : s = [i \in 1 .. Cardinality({Album}) |-> album_tuple(of, w, recurse)]
  OBVIOUS
<1>1. \A i \in DOMAIN s : Deep2(<<s[i], One(of, "sp_album")>>)
  BY <1>s, AlbumDeep
<1>2. Albums(of, w, recurse) = Record("list", of, s)
  BY <1>s DEF Albums
<1> QED
  BY <1>1, <1>2, ListDeep

(* A track with its artists and its album holds a list of records.         *)
LEMMA TrackDeep ==
    ASSUME NEW of, NEW w, NEW t, NEW recurse \in BOOLEAN
    PROVE  /\ ~recurse => Deep1(<<track_tuple(of, w, t, recurse), One(of, "sp_track")>>)
           /\ Deep3(<<track_tuple(of, w, t, recurse), One(of, "sp_track")>>)
<1> DEFINE is == t \in w.loaded
           a == Artists("artists", w)
           b == album_tuple("album", w, FALSE)
<1>a. a.of = "artists" /\ b.of = "album"
  BY DEF Artists, album_tuple, Record
<1>b. Deep2(<<a, Many("artists", "sp_artist")>>) /\ Deep2(<<b, One("album", "sp_album")>>)
  <2>1. Deep2(<<a, Many("artists", "sp_artist")>>)
    BY ArtistsDeep
  <2>2. Deep2(<<b, One("album", "sp_album")>>)
    BY AlbumDeep
  <2> QED
    BY <2>1, <2>2
<1>s. PICK s : s = <<IsLoaded(is), Str("link"), When(is, Bool("is_starred")), When(is, Bool("is_local")),
                     When(is /\ recurse, a), When(is /\ recurse, b), When(is, Bin("name")),
                     When(is, UInt("duration")), When(is, UInt("popularity")),
                     When(is, UInt("disc")), When(is, UInt("index"))>>
  OBVIOUS
<1>d. PICK d : d = Fields["sp_track"]
  OBVIOUS
<1>1. d = <<One("is_loaded", "boolean"), One("link", "string"), One("is_local", "boolean"),
            One("is_starred", "boolean"), Many("artists", "sp_artist"), One("album", "sp_album"),
            One("name", "binary"), One("duration", "uint"), One("popularity", "uint"),
            One("disc", "uint"), One("index", "uint")>>
  BY <1>d DEF Fields
<1>2. /\ Len(s) = 11 /\ Len(d) = 11 /\ DOMAIN s = 1 .. 11 /\ DOMAIN d = 1 .. 11
      /\ "sp_track" \in Records /\ track_tuple(of, w, t, recurse) = Record("sp_track", of, s)
  BY <1>s, <1>1 DEF track_tuple, TrackIsLoaded, Records, List, Artists
<1> HIDE DEF a, b
<1>3. /\ d[5] = Many("artists", "sp_artist") /\ d[6] = One("album", "sp_album")
      /\ s[5] = When(is /\ recurse, a) /\ s[6] = When(is /\ recurse, b)
  BY <1>s, <1>1
<1>4. DataIfLoaded(Record("sp_track", of, s))
  <2>1. Data["sp_track"] = {"is_starred", "is_local", "name", "duration", "popularity", "disc", "index"}
    BY DEF Data
  <2>2. s[1].type = "true" <=> is
    BY <1>s DEF IsLoaded, Leaf
  <2>3. \A i \in {3, 4, 7, 8, 9, 10, 11} : s[i].type # "undefined" <=> is
    BY <1>s DEF When, Bool, Bin, UInt, Leaf
  <2>4. s[1].of = "is_loaded" /\ s[2].of = "link" /\ s[5].of = "artists" /\ s[6].of = "album"
    BY <1>s, <1>a, <1>3 DEF IsLoaded, When, Str, Leaf
  <2>5. \A i \in DOMAIN s : s[i].of \in Data["sp_track"] => (s[1].type = "true" <=> s[i].type # "undefined")
    BY <1>2, <2>1, <2>2, <2>3, <2>4
  <2> QED
    BY <2>5 DEF DataIfLoaded, Record
<1>5. \A i \in (1 .. 11) \ {5, 6} : Plain(s[i], d[i])
  <2>1. \A i \in {1, 2, 3, 4} : Plain(s[i], d[i])
    BY <1>s, <1>1 DEF Plain, IsLoaded, When, Str, Bool, Leaf, One, Simple, Allowed
  <2>2. \A i \in {7, 8, 9, 10, 11} : Plain(s[i], d[i])
    BY <1>s, <1>1 DEF Plain, When, Bin, UInt, Leaf, One, Simple, Allowed
  <2> QED
    BY <2>1, <2>2
<1>6. \A i \in {5, 6} : IF is /\ recurse THEN Deep2(<<s[i], d[i]>>) ELSE Plain(s[i], d[i])
  <2>1. CASE is /\ recurse
    BY <1>b, <1>3, <2>1 DEF When
  <2>2. CASE ~(is /\ recurse)
    BY <1>a, <1>3, <2>2 DEF When, Plain, Leaf, One, Many, Simple
  <2> QED
    BY <2>1, <2>2
<1>7. \A i \in 1 .. 11 : Deep2(<<s[i], d[i]>>) /\ (~recurse => Deep0(<<s[i], d[i]>>))
  BY <1>5, <1>6, PlainDeep, Deeper
<1> QED
  BY <1>d, <1>2, <1>4, <1>7, OtherLinks, RecordDeep


TrackList(of, w, recurse) ==
    Record("list", of,
           [i \in 1 .. Cardinality(Tracks) |-> track_tuple(of, w, SetToSeq(Tracks)[i], recurse)])

LEMMA TracksDeep ==
    ASSUME NEW of, NEW w, NEW recurse \in BOOLEAN
    PROVE  /\ ~recurse => Deep2(<<TrackList(of, w, recurse), Many(of, "sp_track")>>)
           /\ Deep4(<<TrackList(of, w, recurse), Many(of, "sp_track")>>)
<1>s. PICK s : s = [i \in 1 .. Cardinality(Tracks) |-> track_tuple(of, w, SetToSeq(Tracks)[i], recurse)]
  OBVIOUS
<1>1. \A i \in DOMAIN s : /\ ~recurse => Deep1(<<s[i], One(of, "sp_track")>>)
                        /\ Deep3(<<s[i], One(of, "sp_track")>>)
  BY <1>s, TrackDeep
<1>2. TrackList(of, w, recurse) = Record("list", of, s)
  BY <1>s DEF TrackList
<1>3. \A i \in DOMAIN s : Deep3(<<s[i], One(of, "sp_track")>>)
  BY <1>1
<1>4. Deep4(<<TrackList(of, w, recurse), Many(of, "sp_track")>>)
  BY <1>2, <1>3, ListDeep
<1>5. ASSUME ~recurse PROVE Deep2(<<TrackList(of, w, recurse), Many(of, "sp_track")>>)
  BY <1>1, <1>2, <1>5, ListDeep
<1> QED
  BY <1>4, <1>5

(* The lists of strings of an album and of an artist: {1, 2} stands for    *)
(* the two that each has.                                                  *)
Leaves(of, type) == Record("list", of, [i \in 1 .. Cardinality({1, 2}) |-> Leaf(type, of)])

LEMMA LeavesDeep ==
    ASSUME NEW of, NEW type \in {"string", "binary"}
    PROVE  Deep1(<<Leaves(of, type), Many(of, type)>>)
<1>s. PICK s : s = [i \in 1 .. Cardinality({1, 2}) |-> Leaf(type, of)]
  OBVIOUS
<1>1. Plain(Leaf(type, of), One(of, type))
  BY DEF Plain, Leaf, One, Simple, Allowed
<1>2. \A i \in DOMAIN s : Deep0(<<s[i], One(of, type)>>)
  BY <1>s, <1>1, PlainDeep
<1>3. Leaves(of, type) = Record("list", of, s)
  BY <1>s DEF Leaves
<1> QED
  BY <1>2, <1>3, ListDeep

LEMMA AlbumbrowseDeep == ASSUME NEW of, NEW w PROVE Deep6(<<albumbrowse_tuple(of, w), One(of, "sp_albumbrowse")>>)
<1>s. PICK s : s = <<album_tuple("album", w, FALSE), artist_tuple("artist", w),
                     Leaves("copyrights", "binary"), TrackList("tracks", w, FALSE), Bin("review")>>
  OBVIOUS
<1>d. PICK d : d = Fields["sp_albumbrowse"]
  OBVIOUS
<1>1. d = <<One("album", "sp_album"), One("artist", "sp_artist"), Many("copyrights", "binary"),
            Many("tracks", "sp_track"), One("review", "binary")>>
  BY <1>d DEF Fields
<1>2. /\ Len(s) = 5 /\ Len(d) = 5 /\ DOMAIN s = 1 .. 5 /\ DOMAIN d = 1 .. 5
      /\ "sp_albumbrowse" \in Records /\ albumbrowse_tuple(of, w) = Record("sp_albumbrowse", of, s)
  BY <1>s, <1>1 DEF albumbrowse_tuple, Records, List, Leaves, TrackList, Bin
<1>3. DataIfLoaded(Record("sp_albumbrowse", of, s))
  BY DataDomain DEF DataIfLoaded, Record
<1>4. Deep5(<<s[1], d[1]>>)
  BY <1>s, <1>1, AlbumDeep, Deeper
<1>5. Deep5(<<s[2], d[2]>>)
  BY <1>s, <1>1, ArtistDeep, Deeper
<1>6. Deep5(<<s[3], d[3]>>)
  BY <1>s, <1>1, LeavesDeep, Deeper
<1>7. Deep5(<<s[4], d[4]>>)
  BY <1>s, <1>1, TracksDeep, Deeper
<1>8. Deep5(<<s[5], d[5]>>)
  <2>1. Plain(s[5], d[5])
    BY <1>s, <1>1 DEF Plain, Bin, Leaf, One, Simple, Allowed
  <2> QED
    BY <2>1, PlainDeep, Deeper
<1>9. \A i \in 1 .. 5 : Deep5(<<s[i], d[i]>>)
  BY <1>4, <1>5, <1>6, <1>7, <1>8
<1> QED
  BY <1>d, <1>2, <1>3, <1>9, OtherLinks, RecordDeep

LEMMA ArtistbrowseDeep ==
    ASSUME NEW of, NEW w PROVE Deep6(<<artistbrowse_tuple(of, w), One(of, "sp_artistbrowse")>>)
<1>s. PICK s : s = <<artist_tuple("artist", w), Leaves("portraits", "string"),
                     TrackList("tracks", w, FALSE), TrackList("tophit_tracks", w, FALSE),
                     Albums("albums", w, FALSE), Artists("similar_artists", w), Bin("biography")>>
  OBVIOUS
<1>d. PICK d : d = Fields["sp_artistbrowse"]
  OBVIOUS
<1>1. d = <<One("artist", "sp_artist"), Many("portraits", "string"), Many("tracks", "sp_track"),
            Many("tophit_tracks", "sp_track"), Many("albums", "sp_album"),
            Many("similar_artists", "sp_artist"), One("biography", "binary")>>
  BY <1>d DEF Fields
<1>2. /\ Len(s) = 7 /\ Len(d) = 7 /\ DOMAIN s = 1 .. 7 /\ DOMAIN d = 1 .. 7
      /\ "sp_artistbrowse" \in Records /\ artistbrowse_tuple(of, w) = Record("sp_artistbrowse", of, s)
  BY <1>s, <1>1 DEF artistbrowse_tuple, Records, List, Leaves, TrackList, Albums, Artists, Str
<1>3. DataIfLoaded(Record("sp_artistbrowse", of, s))
  BY DataDomain DEF DataIfLoaded, Record
<1>4. Deep5(<<s[1], d[1]>>)
  BY <1>s, <1>1, ArtistDeep, Deeper
<1>5. Deep5(<<s[2], d[2]>>)
  BY <1>s, <1>1, LeavesDeep, Deeper
<1>6. Deep5(<<s[3], d[3]>>) /\ Deep5(<<s[4], d[4]>>)
  <2>1. Deep4(<<s[3], d[3]>>)
    BY <1>s, <1>1, TracksDeep
  <2>2. Deep4(<<s[4], d[4]>>)
    BY <1>s, <1>1, TracksDeep
  <2> QED
    BY <2>1, <2>2, Deeper
<1>7. Deep5(<<s[5], d[5]>>)
  <2>1. Deep3(<<s[5], d[5]>>)
    BY <1>s, <1>1, AlbumsDeep
  <2> QED
    BY <2>1, Deeper
<1>8. Deep5(<<s[6], d[6]>>)
  BY <1>s, <1>1, ArtistsDeep, Deeper
<1>9. Deep5(<<s[7], d[7]>>)
  <2>1. Plain(s[7], d[7])
    BY <1>s, <1>1 DEF Plain, Bin, Leaf, One, Simple, Allowed
  <2> QED
    BY <2>1, PlainDeep, Deeper
<1>10. \A i \in 1 .. 7 : Deep5(<<s[i], d[i]>>)
  BY <1>4, <1>5, <1>6, <1>7, <1>8, <1>9
<1> QED
  BY <1>d, <1>2, <1>3, <1>10, OtherLinks, RecordDeep

LEMMA PlaylistTrackDeep ==
    ASSUME NEW of, NEW w, NEW t
    PROVE  Deep4(<<playlist_track_tuple(of, w, t), One(of, "sp_playlist_track")>>)
<1>s. PICK s : s = <<track_tuple("track", w, t, TRUE), UInt("create_time"), user_tuple("creator"),
                     Bool("seen"), When("text" \in w.has, Bin("message"))>>
  OBVIOUS
<1>d. PICK d : d = Fields["sp_playlist_track"]
  OBVIOUS
<1>1. d = <<One("track", "sp_track"), One("create_time", "uint"), One("creator", "sp_user"),
            One("seen", "boolean"), One("message", "binary")>>
  BY <1>d DEF Fields
<1>2. /\ Len(s) = 5 /\ Len(d) = 5 /\ DOMAIN s = 1 .. 5 /\ DOMAIN d = 1 .. 5
      /\ "sp_playlist_track" \in Records /\ playlist_track_tuple(of, w, t) = Record("sp_playlist_track", of, s)
  BY <1>s, <1>1 DEF playlist_track_tuple, Records
<1>3. DataIfLoaded(Record("sp_playlist_track", of, s))
  BY DataDomain DEF DataIfLoaded, Record
<1>4. Deep3(<<s[1], d[1]>>)
  BY <1>s, <1>1, TrackDeep
<1>5. Deep3(<<s[3], d[3]>>)
  BY <1>s, <1>1, UserDeep, Deeper
<1>6. \A i \in {2, 4, 5} : Plain(s[i], d[i])
  BY <1>s, <1>1 DEF Plain, When, Bool, UInt, Bin, Leaf, One, Simple, Allowed
<1>7. \A i \in 1 .. 5 : Deep3(<<s[i], d[i]>>)
  BY <1>4, <1>5, <1>6, PlainDeep, Deeper
<1> QED
  BY <1>d, <1>2, <1>3, <1>7, OtherLinks, RecordDeep

PlaylistTracks(of, w) ==
    Record("list", of,
           [i \in 1 .. Cardinality(Tracks) |-> playlist_track_tuple(of, w, SetToSeq(Tracks)[i])])

LEMMA PlaylistTracksDeep ==
    ASSUME NEW of, NEW w
    PROVE  Deep5(<<PlaylistTracks(of, w), Many(of, "sp_playlist_track")>>)
<1>s. PICK s : s = [i \in 1 .. Cardinality(Tracks) |-> playlist_track_tuple(of, w, SetToSeq(Tracks)[i])]
  OBVIOUS
<1>1. \A i \in DOMAIN s : Deep4(<<s[i], One(of, "sp_playlist_track")>>)
  BY <1>s, PlaylistTrackDeep
<1>2. PlaylistTracks(of, w) = Record("list", of, s)
  BY <1>s DEF PlaylistTracks
<1> QED
  BY <1>1, <1>2, ListDeep

(* A playlist with a link, or one that a search has found; without its     *)
(* tracks it holds only its owner.                                         *)
LEMMA PlaylistDeep ==
    ASSUME NEW of, NEW w, NEW p, NEW recurse \in BOOLEAN, HasLink(p, w) \/ of = "playlists"
    PROVE  /\ ~recurse => Deep2(<<playlist_tuple(of, w, p, recurse), One(of, "sp_playlist")>>)
           /\ Deep6(<<playlist_tuple(of, w, p, recurse), One(of, "sp_playlist")>>)
<1> DEFINE is == p \in w.loaded
           u == user_tuple("owner")
           a == PlaylistTracks("tracks", w)
<1>a. /\ u.of = "owner" /\ Deep1(<<u, One("owner", "sp_user")>>)
      /\ a.of = "tracks" /\ Deep5(<<a, Many("tracks", "sp_playlist_track")>>)
  BY UserDeep, PlaylistTracksDeep DEF user_tuple, PlaylistTracks, Record
<1>s. PICK s : s = <<IsLoaded(is), IF HasLink(p, w) THEN Str("link") ELSE Leaf("null", "link"),
                     Bin("name"), u, Bool("collaborative"),
                     When("text" \in w.has, Bin("description")),
                     When("image" \in w.has, Str("image")), When(is, UInt("num_tracks")),
                     When(is /\ recurse, a)>>
  OBVIOUS
<1>d. PICK d : d = Fields["sp_playlist"]
  OBVIOUS
<1>1. d = <<One("is_loaded", "boolean"), One("link", "string"), One("name", "binary"),
            One("owner", "sp_user"), One("collaborative", "boolean"), One("description", "binary"),
            One("image", "string"), One("num_tracks", "uint"), Many("tracks", "sp_playlist_track")>>
  BY <1>d DEF Fields
<1>2. /\ Len(s) = 9 /\ Len(d) = 9 /\ DOMAIN s = 1 .. 9 /\ DOMAIN d = 1 .. 9
      /\ "sp_playlist" \in Records /\ playlist_tuple(of, w, p, recurse) = Record("sp_playlist", of, s)
  BY <1>s, <1>1 DEF playlist_tuple, Records, List, PlaylistTracks
<1> HIDE DEF u, a
<1>3. /\ s[4] = u /\ d[4] = One("owner", "sp_user")
      /\ s[9] = When(is /\ recurse, a) /\ d[9] = Many("tracks", "sp_playlist_track")
  BY <1>s, <1>1
<1>4. DataIfLoaded(Record("sp_playlist", of, s))
  <2>1. Data["sp_playlist"] = {"num_tracks"}
    BY DEF Data
  <2>2. (s[1].type = "true" <=> is) /\ (s[8].type # "undefined" <=> is)
    BY <1>s DEF IsLoaded, When, UInt, Leaf
  <2>3. \A i \in {1, 2, 3, 5, 6, 7} : s[i].of # "num_tracks"
    BY <1>s DEF IsLoaded, When, Str, Bool, Bin, Leaf
  <2>4. s[4].of # "num_tracks" /\ s[9].of # "num_tracks"
    BY <1>a, <1>3 DEF When, Leaf
  <2>5. \A i \in DOMAIN s : s[i].of \in Data["sp_playlist"] => (s[1].type = "true" <=> s[i].type # "undefined")
    BY <1>2, <2>1, <2>2, <2>3, <2>4
  <2> QED
    BY <2>5 DEF DataIfLoaded, Record
<1>5. \A i \in (1 .. 8) \ {4} : Plain(s[i], d[i])
  <2>1. Plain(s[2], d[2])
    BY <1>s, <1>1 DEF Plain, Str, Leaf, One, Simple, Allowed
  <2>2. \A i \in {1, 3, 5, 6, 7, 8} : Plain(s[i], d[i])
    BY <1>s, <1>1 DEF Plain, IsLoaded, When, Str, Bin, Bool, UInt, Leaf, One, Simple, Allowed
  <2> QED
    BY <2>1, <2>2
<1>8. LinkRead(Record("sp_playlist", of, s))
  <2>1. of # "playlists" => s[2] = Str("link")
    BY <1>s
  <2> QED
    BY <2>1 DEF LinkRead, Record, Str, Leaf
<1>6. IF is /\ recurse THEN Deep5(<<s[9], d[9]>>) ELSE Plain(s[9], d[9])
  <2>1. CASE is /\ recurse
    BY <1>a, <1>3, <2>1 DEF When
  <2>2. CASE ~(is /\ recurse)
    BY <1>a, <1>3, <2>2 DEF When, Plain, Leaf, Many, Simple
  <2> QED
    BY <2>1, <2>2
<1>7. \A i \in 1 .. 9 : Deep5(<<s[i], d[i]>>) /\ (~recurse => Deep1(<<s[i], d[i]>>))
  BY <1>a, <1>3, <1>5, <1>6, PlainDeep, Deeper
<1> QED
  BY <1>d, <1>2, <1>4, <1>7, <1>8, RecordDeep

(* What a container holds: playlists with a link, and folders.             *)
ContentsOf(w) ==
    LET S == Playlists \union Folders
    IN  Record("list", "contents",
               [i \in 1 .. Cardinality(S) |->
                   LET e == SetToSeq(S)[i]
                   IN  IF e \in Folders THEN FolderEntry(e) ELSE PlaylistEntry(e, w)])

(* An entry that is good for its own type is good as an entry.             *)
LEMMA EntryType ==
    ASSUME NEW t, NEW type \in {"sp_playlist", "start_folder"}, t.type = type, t.of = "contents"
    PROVE  /\ Deep1(<<t, One("contents", type)>>) => Deep1(<<t, One("contents", "entry")>>)
           /\ Deep2(<<t, One("contents", type)>>) => Deep2(<<t, One("contents", "entry")>>)
<1> DEFINE f == One("contents", type)
           g == One("contents", "entry")
<1>1. f.type = type /\ g.type = "entry" /\ ~f.list /\ ~g.list /\ f.name = g.name
  BY DEF One
<1>2. t.type \in Allowed("entry") /\ t.type \notin {"list", "undefined", "overlong", "null"}
  BY DEF Allowed, Folders
<1> HIDE DEF f, g
<1>3. Parts(t, f) = Parts(t, g)
  BY <1>2 DEF Parts
<1>4. Good(t, f) => Good(t, g)
  BY <1>1, <1>2 DEF Good, TypedAs, InPlace
<1> QED
  BY <1>3, <1>4 DEF Deep1, Deep2, f, g

LEMMA FolderDeep == Deep1(<<FolderEntry("start_folder"), One("contents", "entry")>>)
<1>s. PICK s : s = <<UInt("id"), Bin("name")>>
  OBVIOUS
<1>d. PICK d : d = Fields["start_folder"]
  OBVIOUS
<1>1. d = <<One("id", "uint"), One("name", "binary")>>
  BY <1>d DEF Fields
<1>2. /\ Len(s) = 2 /\ Len(d) = 2 /\ DOMAIN s = 1 .. 2 /\ DOMAIN d = 1 .. 2
      /\ "start_folder" \in Records
      /\ FolderEntry("start_folder") = Record("start_folder", "contents", s)
  BY <1>s, <1>1 DEF FolderEntry, Records
<1>3. DataIfLoaded(Record("start_folder", "contents", s))
  BY DataDomain DEF DataIfLoaded, Record
<1>4. \A i \in 1 .. 2 : Plain(s[i], d[i])
  BY <1>s, <1>1 DEF Plain, UInt, Bin, Leaf, One, Simple, Allowed
<1>5. \A i \in 1 .. 2 : Deep0(<<s[i], d[i]>>)
  BY <1>4, PlainDeep
<1>6. Deep1(<<FolderEntry("start_folder"), One("contents", "start_folder")>>)
  BY <1>d, <1>2, <1>3, <1>5, OtherLinks, RecordDeep
<1>7. FolderEntry("start_folder").type = "start_folder" /\ FolderEntry("start_folder").of = "contents"
  BY <1>2 DEF Record
<1> QED
  BY <1>6, <1>7, EntryType

LEMMA EntryDeep ==
    ASSUME NEW e, NEW w
    PROVE  LET t == IF e \in Folders THEN FolderEntry(e) ELSE PlaylistEntry(e, w)
           IN  Deep2(<<t, One("contents", "entry")>>)
<1>1. CASE e \in Folders
  <2>1. CASE e = "start_folder"
    BY <1>1, <2>1, FolderDeep, Deeper DEF FolderEntry
  <2>2. CASE e # "start_folder"
    <3>1. Plain(Leaf(e, "contents"), One("contents", "entry"))
      BY <1>1, <2>2 DEF Plain, Leaf, One, Simple, Allowed, Folders
    <3> QED
      BY <1>1, <2>2, <3>1, PlainDeep, Deeper DEF FolderEntry
  <2> QED
    BY <2>1, <2>2
<1>2. CASE e \notin Folders /\ ~HasLink(e, w)
  <2>1. Plain(Leaf("not_loaded", "contents"), One("contents", "entry"))
    BY DEF Plain, Leaf, One, Simple, Allowed
  <2> QED
    BY <1>2, <2>1, PlainDeep, Deeper DEF PlaylistEntry
<1>3. CASE e \notin Folders /\ HasLink(e, w)
  <2> DEFINE t == playlist_tuple("contents", w, e, FALSE)
  <2>1. Deep2(<<t, One("contents", "sp_playlist")>>)
    BY <1>3, PlaylistDeep
  <2>2. t.type = "sp_playlist" /\ t.of = "contents"
    BY DEF playlist_tuple, Record
  <2> HIDE DEF t
  <2>3. Deep2(<<t, One("contents", "entry")>>)
    BY <2>1, <2>2, EntryType
  <2> QED
    BY <1>3, <2>3 DEF PlaylistEntry, t
<1> QED
  BY <1>1, <1>2, <1>3

LEMMA ContainerDeep ==
    ASSUME NEW of, NEW w
    PROVE  Deep6(<<playlistcontainer_tuple(of, w), One(of, "sp_playlistcontainer")>>)
<1>s. PICK s : s = <<user_tuple("owner"), ContentsOf(w)>>
  OBVIOUS
<1>d. PICK d : d = Fields["sp_playlistcontainer"]
  OBVIOUS
<1>1. d = <<One("owner", "sp_user"), Many("contents", "entry")>>
  BY <1>d DEF Fields
<1>2. /\ Len(s) = 2 /\ Len(d) = 2 /\ DOMAIN s = 1 .. 2 /\ DOMAIN d = 1 .. 2
      /\ "sp_playlistcontainer" \in Records
      /\ playlistcontainer_tuple(of, w) = Record("sp_playlistcontainer", of, s)
  BY <1>s, <1>1 DEF playlistcontainer_tuple, Records, List, ContentsOf
<1>3. DataIfLoaded(Record("sp_playlistcontainer", of, s))
  BY DataDomain DEF DataIfLoaded, Record
<1>4. Deep5(<<s[1], d[1]>>)
  BY <1>s, <1>1, UserDeep, Deeper
<1>5. Deep5(<<s[2], d[2]>>)
  <2> DEFINE S == Playlists \union Folders
  <2>1. PICK c : c = [i \in 1 .. Cardinality(S) |->
                         LET e == SetToSeq(S)[i]
                         IN  IF e \in Folders THEN FolderEntry(e) ELSE PlaylistEntry(e, w)]
    OBVIOUS
  <2>2. \A i \in DOMAIN c : Deep2(<<c[i], One("contents", "entry")>>)
    BY <2>1, EntryDeep
  <2>3. ContentsOf(w) = Record("list", "contents", c)
    BY <2>1 DEF ContentsOf
  <2>4. Deep3(<<ContentsOf(w), Many("contents", "entry")>>)
    BY <2>2, <2>3, ListDeep
  <2>5. s[2] = ContentsOf(w) /\ d[2] = Many("contents", "entry")
    BY <1>s, <1>1
  <2> QED
    BY <2>4, <2>5, Deeper
<1>6. \A i \in 1 .. 2 : Deep5(<<s[i], d[i]>>)
  BY <1>4, <1>5
<1> QED
  BY <1>d, <1>2, <1>3, <1>6, OtherLinks, RecordDeep

PlaylistList(of, w) ==
    Record("list", of,
           [i \in 1 .. Cardinality(Playlists) |-> playlist_tuple(of, w, SetToSeq(Playlists)[i], FALSE)])

LEMMA SearchDeep ==
    ASSUME NEW of, NEW w
    PROVE  Deep6(<<search_result_tuple(of, w), One(of, "sp_search_result")>>)
<1>s. PICK s : s = <<Bin("q"), Bin("did_you_mean"), UInt("total_tracks"), UInt("total_albums"),
                     UInt("total_artists"), UInt("total_playlists"), TrackList("tracks", w, TRUE),
                     Albums("albums", w, TRUE), Artists("artists", w), PlaylistList("playlists", w)>>
  OBVIOUS
<1>d. PICK d : d = Fields["sp_search_result"]
  OBVIOUS
<1>1. d = <<One("q", "binary"), One("did_you_mean", "binary"), One("total_tracks", "uint"),
            One("total_albums", "uint"), One("total_artists", "uint"), One("total_playlists", "uint"),
            Many("tracks", "sp_track"), Many("albums", "sp_album"), Many("artists", "sp_artist"),
            Many("playlists", "sp_playlist")>>
  BY <1>d DEF Fields
<1>2. /\ Len(s) = 10 /\ Len(d) = 10 /\ DOMAIN s = 1 .. 10 /\ DOMAIN d = 1 .. 10
      /\ "sp_search_result" \in Records /\ search_result_tuple(of, w) = Record("sp_search_result", of, s)
  BY <1>s, <1>1 DEF search_result_tuple, Records, List, TrackList, Albums, Artists, PlaylistList
<1>3. DataIfLoaded(Record("sp_search_result", of, s))
  BY DataDomain DEF DataIfLoaded, Record
<1>4. \A i \in 1 .. 6 : Plain(s[i], d[i])
  BY <1>s, <1>1 DEF Plain, Bin, UInt, Leaf, One, Simple, Allowed
<1>5. Deep5(<<s[7], d[7]>>)
  <2>1. Deep4(<<s[7], d[7]>>)
    BY <1>s, <1>1, TracksDeep
  <2> QED
    BY <2>1, Deeper
<1>6. Deep5(<<s[8], d[8]>>)
  <2>1. Deep3(<<s[8], d[8]>>)
    BY <1>s, <1>1, AlbumsDeep
  <2> QED
    BY <2>1, Deeper
<1>7. Deep5(<<s[9], d[9]>>)
  BY <1>s, <1>1, ArtistsDeep, Deeper
<1>8. Deep5(<<s[10], d[10]>>)
  <2>1. PICK c : c = [i \in 1 .. Cardinality(Playlists) |->
                         playlist_tuple("playlists", w, SetToSeq(Playlists)[i], FALSE)]
    OBVIOUS
  <2>2. \A i \in DOMAIN c : Deep2(<<c[i], One("playlists", "sp_playlist")>>)
    BY <2>1, PlaylistDeep
  <2>3. PlaylistList("playlists", w) = Record("list", "playlists", c)
    BY <2>1 DEF PlaylistList
  <2>4. Deep3(<<PlaylistList("playlists", w), Many("playlists", "sp_playlist")>>)
    BY <2>2, <2>3, ListDeep
  <2>5. s[10] = PlaylistList("playlists", w) /\ d[10] = Many("playlists", "sp_playlist")
    BY <1>s, <1>1
  <2> QED
    BY <2>4, <2>5, Deeper
<1>9. \A i \in 1 .. 10 : Deep5(<<s[i], d[i]>>)
  BY <1>4, <1>5, <1>6, <1>7, <1>8, PlainDeep, Deeper
<1> QED
  BY <1>d, <1>2, <1>3, <1>9, OtherLinks, RecordDeep

-----------------------------------------------------------------------------
(* What is known of a message: it is none, or one that was built of some   *)
(* objects.                                                                *)
Views == [loaded : SUBSET Objects, late : SUBSET Objects, has : SUBSET Options]

IInv == loaded \subseteq Objects /\ (msg = NoMsg \/ \E w \in Views : msg \in Feedback(w))

LEMMA FeedbackDeep ==
    ASSUME NEW w \in Views, NEW m \in Feedback(w)
    PROVE  Deep6(<<m.term, One("term", Expected(m.name))>>)
<1> DEFINE root == <<m.term, One("term", Expected(m.name))>>
<1>1. ASSUME m = cb_result("logged_in", "none", user_tuple("term")) PROVE Deep6(root)
  BY <1>1, UserDeep, Deeper DEF cb_result, Expected, Documented
<1>2. ASSUME m = cb_result("logged_in", "none", Bin("error")) PROVE Deep6(root)
  <2> DEFINE t == Bin("error")
             f == One("term", "sp_user")
  <2>1. t.of = "error" /\ t.type = "binary"
    BY DEF Bin, Leaf
  <2>2. t.type \notin DOMAIN Fields /\ t.type \notin DOMAIN Data /\ t.type # "list"
    BY <2>1, FieldsDomain, DataDomain DEF Records
  <2> HIDE DEF t
  <2>3. Good(t, f) /\ Parts(t, f) = {}
    BY <2>1, <2>2 DEF Good, TypedAs, LinkRead, DataIfLoaded, InPlace, Parts
  <2>4. Deep0(<<t, f>>)
    BY <2>3 DEF Deep0
  <2>5. root = <<t, f>>
    BY <1>2 DEF cb_result, Expected, Documented, t
  <2> QED
    BY <2>4, <2>5, Deeper
<1>3. ASSUME m \in {cb_result("player_play", "none", Atom("term")), cb_result("debug", "ref", Atom("term"))}
      PROVE  Deep6(root)
  <2>1. root = <<Atom("term"), One("term", "atom")>>
    BY <1>3 DEF cb_result, Expected, Documented
  <2>2. Plain(Atom("term"), One("term", "atom"))
    BY DEF Plain, Atom, Leaf, One, Simple, Allowed
  <2> QED
    BY <2>1, <2>2, PlainDeep, Deeper
<1>4. ASSUME m = cb_result("browse_album", "ref", albumbrowse_tuple("term", w)) PROVE Deep6(root)
  BY <1>4, AlbumbrowseDeep DEF cb_result, Expected, Documented
<1>5. ASSUME m = cb_result("browse_artist", "ref", artistbrowse_tuple("term", w)) PROVE Deep6(root)
  BY <1>5, ArtistbrowseDeep DEF cb_result, Expected, Documented
<1>6. ASSUME m = cb_result("load_image", "ref", image_tuple("term")) PROVE Deep6(root)
  BY <1>6, ImageDeep, Deeper DEF cb_result, Expected, Documented
<1>7. ASSUME m = cb_result("search", "ref", search_result_tuple("term", w)) PROVE Deep6(root)
  BY <1>7, SearchDeep DEF cb_result, Expected, Documented, Views
<1>8. ASSUME NEW name \in {"player_load", "track_info"}, NEW ref, NEW t,
             m = cb_result(name, ref, track_tuple("term", w, t, TRUE))
      PROVE  Deep6(root)
  <2>1. root = <<track_tuple("term", w, t, TRUE), One("term", "sp_track")>>
    BY <1>8 DEF cb_result, Expected, Documented
  <2>2. Deep3(root)
    BY <2>1, TrackDeep
  <2> QED
    BY <2>2, Deeper
<1>9. ASSUME NEW p \in w.loaded, m = cb_result("load_playlist", "ref", playlist_tuple("term", w, p, TRUE))
      PROVE  Deep6(root)
  <2>1. root = <<playlist_tuple("term", w, p, TRUE), One("term", "sp_playlist")>>
    BY <1>9 DEF cb_result, Expected, Documented
  <2>2. HasLink(p, w)
    BY DEF HasLink
  <2> QED
    BY <2>1, <2>2, PlaylistDeep
<1>10. ASSUME NEW ref, m = cb_result("load_playlistcontainer", ref, playlistcontainer_tuple("term", w))
       PROVE  Deep6(root)
  BY <1>10, ContainerDeep DEF cb_result, Expected, Documented
<1> HIDE DEF root
<1>11. Deep6(root)
  <2> DEFINE A == {cb_result("logged_in", "none", user_tuple("term")),
                   cb_result("logged_in", "none", Bin("error")),
                   cb_result("player_play", "none", Atom("term")),
                   cb_result("browse_album", "ref", albumbrowse_tuple("term", w)),
                   cb_result("browse_artist", "ref", artistbrowse_tuple("term", w)),
                   cb_result("load_image", "ref", image_tuple("term")),
                   cb_result("search", "ref", search_result_tuple("term", w)),
                   cb_result("debug", "ref", Atom("term"))}
             B(name, ref) == {cb_result(name, ref, track_tuple("term", w, t, TRUE))
                                : t \in Tracks \intersect w.loaded}
             C == {cb_result("load_playlist", "ref", playlist_tuple("term", w, p, TRUE))
                     : p \in {p \in Playlists : Tracks \union {p} \subseteq w.loaded}}
             D == {cb_result("load_playlistcontainer", ref, playlistcontainer_tuple("term", w))
                     : ref \in {"ref", "undefined"}}
  <2>1. m \in A => Deep6(root)
    BY <1>1, <1>2, <1>3, <1>4, <1>5, <1>6, <1>7
  <2>2. m \in B("player_load", "none") \union B("track_info", "ref") => Deep6(root)
    BY <1>8
  <2>3. m \in C => Deep6(root)
    BY <1>9
  <2>4. m \in D => Deep6(root)
    BY <1>10
  <2>5. Feedback(w) = A \union B("player_load", "none") \union B("track_info", "ref") \union C \union D
    BY DEF Feedback
  <2> HIDE DEF A, B, C, D
  <2> QED
    BY <2>1, <2>2, <2>3, <2>4, <2>5
<1> QED
  BY <1>11 DEF root

LEMMA NoMsgDeep == Deep6(<<NoMsg.term, One("term", Expected(NoMsg.name))>>)
<1>1. NoMsg.term = Atom("term") /\ Expected(NoMsg.name) = "atom"
  BY DEF NoMsg, cb_result, Expected, Documented
<1>2. Plain(Atom("term"), One("term", "atom"))
  BY DEF Plain, Atom, Leaf, One, Simple, Allowed
<1> QED
  BY <1>1, <1>2, PlainDeep, Deeper

(* A set of good terms with what they hold, but for so many levels.        *)
Closed6(S) == \A p \in S : Good(p[1], p[2]) /\ (Deep6(p) \/ Parts(p[1], p[2]) \subseteq S)
Closed5(S) == \A p \in S : Good(p[1], p[2]) /\ (Deep5(p) \/ Parts(p[1], p[2]) \subseteq S)
Closed4(S) == \A p \in S : Good(p[1], p[2]) /\ (Deep4(p) \/ Parts(p[1], p[2]) \subseteq S)
Closed3(S) == \A p \in S : Good(p[1], p[2]) /\ (Deep3(p) \/ Parts(p[1], p[2]) \subseteq S)
Closed2(S) == \A p \in S : Good(p[1], p[2]) /\ (Deep2(p) \/ Parts(p[1], p[2]) \subseteq S)
Closed1(S) == \A p \in S : Good(p[1], p[2]) /\ (Deep1(p) \/ Parts(p[1], p[2]) \subseteq S)
Closed0(S) == \A p \in S : Good(p[1], p[2]) /\ (Deep0(p) \/ Parts(p[1], p[2]) \subseteq S)

LEMMA WithPartsClosed ==
    ASSUME NEW S
    PROVE  /\ Closed6(S) => Closed5(WithParts(S))
           /\ Closed5(S) => Closed4(WithParts(S))
           /\ Closed4(S) => Closed3(WithParts(S))
           /\ Closed3(S) => Closed2(WithParts(S))
           /\ Closed2(S) => Closed1(WithParts(S))
           /\ Closed1(S) => Closed0(WithParts(S))
<1>1. Closed6(S) => Closed5(WithParts(S))
  BY DEF Closed6, Closed5, Deep6, Deep5, WithParts
<1>2. Closed5(S) => Closed4(WithParts(S))
  BY DEF Closed5, Closed4, Deep5, Deep4, WithParts
<1>3. Closed4(S) => Closed3(WithParts(S))
  BY DEF Closed4, Closed3, Deep4, Deep3, WithParts
<1>4. Closed3(S) => Closed2(WithParts(S))
  BY DEF Closed3, Closed2, Deep3, Deep2, WithParts
<1>5. Closed2(S) => Closed1(WithParts(S))
  BY DEF Closed2, Closed1, Deep2, Deep1, WithParts
<1>6. Closed1(S) => Closed0(WithParts(S))
  BY DEF Closed1, Closed0, Deep1, Deep0, WithParts
<1> QED
  BY <1>1, <1>2, <1>3, <1>4, <1>5, <1>6

LEMMA DeepMsg ==
    ASSUME Deep6(<<msg.term, One("term", Expected(msg.name))>>)
    PROVE  WellTyped /\ LoadedOrUndefined /\ FieldsInPlace
<1> DEFINE root == <<msg.term, One("term", Expected(msg.name))>>
<1>1. Closed6({root})
  BY DEF Closed6, Deep6
<1>2. Closed0(MsgPairs)
  <2> HIDE DEF root
  <2> QED
    BY <1>1, WithPartsClosed DEF MsgPairs, root
<1>3. \A p \in MsgPairs : Good(p[1], p[2])
  BY <1>2 DEF Closed0
<1>4. WithParts(MsgPairs) = MsgPairs
  BY <1>2 DEF Closed0, Deep0, WithParts
<1> QED
  BY <1>3, <1>4 DEF WellTyped, LoadedOrUndefined, FieldsInPlace, Good

LEMMA Inductive == Spec => []IInv
<1>1. Init => IInv
  BY DEF Init, IInv
<1>2. IInv /\ [Next]_vars => IInv'
  <2> SUFFICES ASSUME IInv, [Next]_vars PROVE IInv'
    OBVIOUS
  <2>1. ASSUME NEW x \in Objects, Load(x) PROVE IInv'
    BY <2>1 DEF IInv, Load
  <2>2. ASSUME NEW late \in {{}} \union {{x} : x \in Objects \ loaded}, NEW seen \in SUBSET late,
               NEW has \in SUBSET Options, Send(late, seen, has)
        PROVE  IInv'
    <3>1. late \subseteq Objects /\ loaded \union seen \subseteq Objects
      BY DEF IInv
    <3>2. [loaded |-> loaded \union seen, late |-> late, has |-> has] \in Views
      BY <3>1 DEF Views
    <3> QED
      BY <2>2, <3>1, <3>2 DEF IInv, Send
  <2>3. ASSUME Receive PROVE IInv'
    BY <2>3 DEF IInv, Receive
  <2>4. ASSUME UNCHANGED vars PROVE IInv'
    BY <2>4 DEF IInv, vars
  <2> QED
    BY <2>1, <2>2, <2>3, <2>4 DEF Next
<1> QED
  BY <1>1, <1>2, PTL DEF Spec

LEMMA Implied == IInv => WellTyped /\ LoadedOrUndefined /\ FieldsInPlace
<1> SUFFICES ASSUME IInv PROVE Deep6(<<msg.term, One("term", Expected(msg.name))>>)
  BY DeepMsg
<1> QED
  BY FeedbackDeep, NoMsgDeep DEF IInv

(* Whatever has loaded by then, every term in every message has the type   *)
(* that its record declares, each tuple has as many fields as declared,    *)
(* and no NULL link is read, but for the four exceptions that WellTyped    *)
(* names.                                                                  *)
THEOREM TermsWellTyped == Spec => []WellTyped
  BY Inductive, Implied, PTL

(* A record says is_loaded exactly when it has its data, even when the     *)
(* object loads while the record is made.                                  *)
THEOREM TermsLoadedOrUndefined == Spec => []LoadedOrUndefined
  BY Inductive, Implied, PTL

(* Each field of a message tells what its name says, but for is_local and  *)
(* is_starred.                                                             *)
THEOREM TermsFieldsInPlace == Spec => []FieldsInPlace
  BY Inductive, Implied, PTL
=============================================================================
