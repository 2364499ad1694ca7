---------------------------- MODULE RequestsProofs ----------------------------
(***************************************************************************)
(* Theorems about Requests.tla for any threads, requests and playlists.    *)
(***************************************************************************)
EXTENDS Requests, TLAPS

(* What libspotify holds for a request fits its kind and its answer.       *)
Shape ==
    \A r \in Requests :
        /\ kind[r] = "none" <=> reply[r] = "none"
        /\ reply[r] \in {"none", "error"} => obj[r] = "none" /\ data[r] = "none"
        /\ obj[r] # "none" => kind[r] \in {"album", "artist", "image", "search"}
        /\ data[r] # "none" => kind[r] \in {"container", "login"}
        /\ r \in due => obj[r] \in {"loaded", "released"}
        /\ r \in watched => data[r] = "live"
        /\ data[r] = "none" \/ r \in watched => \A p \in Playlists : <<r, p>> \notin plwatch
        /\ \A t \in Threads : cur[t] = r => obj[r] # "none"

(* No request is worked on by two threads.                                 *)
Apart == \A t, u \in Threads : cur[t] = cur[u] /\ cur[t] # NULL => t = u

(* How far the work on a request has come; a session runs meanwhile.       *)
Working ==
    \A t \in Threads :
        /\ pc[t] # "idle" => running
        /\ pc[t] = "look" => obj[cur[t]] \in {"pending", "loaded"}
        /\ pc[t] \in {"feedback", "release"} => obj[cur[t]] = "loaded"

(* The playlists that a container waits for: its block is live as long as  *)
(* one is not loaded or due, and at most one is due.  A callback that      *)
(* libspotify has forgotten may leave a registration without a block.      *)
Waiting ==
    \A r \in Requests :
        /\ \A p \in Playlists : <<r, p>> \in plwatch =>
               /\ p \in PlaylistsOf[r]
               /\ p \notin pl_loaded => data[r] = "live"
               /\ <<r, p>> \in pl_due => p \in pl_loaded /\ data[r] = "live"
        /\ \A p, q \in Playlists : <<r, p>> \in pl_due /\ <<r, q>> \in pl_due => p = q

(* A reference is returned exactly when the request's object or block is   *)
(* given back.                                                             *)
Answered ==
    \A r \in Requests :
        LET over == obj[r] = "released" \/ r \in Releasing \/ data[r] = "freed"
                       \/ (kind[r] = "debug" /\ reply[r] = "ok")
        IN  messages[r] = IF over THEN 1 ELSE 0

(* What holds as long as things are orderly.                               *)
Sound == Orderly => ~bad /\ Apart /\ Working /\ Waiting /\ Answered

(* Two NIFs never work on one request, whatever libspotify does.           *)
NifsApart == \A m, n \in Nifs : cur[m] = cur[n] /\ cur[m] # NULL => m = n

IInv == TypeOK /\ NifsApart /\ Shape /\ Sound

(* When a session has begun, no request has been made and the invariant    *)
(* holds.                                                                  *)
LEMMA InitIInv == Init => IInv
<1> USE RequestsAssumption
<1>1. ASSUME Init PROVE TypeOK
  <2>1. \A t \in Threads : pc[t] = "idle" /\ cur[t] = NULL
    BY <1>1 DEF Init
  <2>2. /\ pc \in [Threads -> {"idle", "look", "feedback", "release"}]
        /\ cur \in [Threads -> Requests \union {NULL}]
    BY <1>1 DEF Init
  <2>3. kind \in [Requests -> Kinds \union {"none"}] /\ messages \in [Requests -> Nat]
    BY <1>1 DEF Init
  <2>4. /\ reply \in [Requests -> {"none", "called", "ok", "error"}]
        /\ obj \in [Requests -> {"none", "pending", "loaded", "released"}]
        /\ data \in [Requests -> {"none", "live", "freed"}]
    BY <1>1 DEF Init
  <2> QED
    BY <1>1, <2>1, <2>2, <2>3, <2>4 DEF Init, TypeOK, Threads
<1>2. Init => NifsApart /\ Shape
  BY DEF Init, NifsApart, Shape, Threads
<1>3. Init => Apart /\ Working /\ Waiting
  BY DEF Init, Apart, Working, Waiting
<1>4. Init => Answered
  BY DEF Init, Answered, Releasing, Threads
<1> QED
  BY <1>1, <1>2, <1>3, <1>4 DEF Init, IInv, Sound

(* No step of a NIF, of a callback or of libspotify takes a variable out   *)
(* of its type.                                                            *)
LEMMA TypeStep ==
    IInv /\ [Next]_vars => TypeOK'
<1> SUFFICES ASSUME IInv, [Next]_vars PROVE TypeOK'
  OBVIOUS
<1> USE RequestsAssumption
<1>1. ASSUME NEW n \in Nifs, NEW r \in Requests, BrowseAlbum(n, r) PROVE TypeOK'
  BY <1>1
     DEF IInv, TypeOK, NifsApart, Shape, Threads, Kinds, BrowseAlbum, Call,
         spotifyctl_browse_album, LinkFails, Create, Return, threadVars, browseVars,
         listVars, sessionVars
<1>2. ASSUME NEW n \in Nifs, NEW r \in Requests, BrowseArtist(n, r) PROVE TypeOK'
  BY <1>2
     DEF IInv, TypeOK, NifsApart, Shape, Threads, Kinds, BrowseArtist, Call,
         spotifyctl_browse_artist, LinkFails, CreateAndReturn, Create, Return,
         threadVars, browseVars, listVars, sessionVars
<1>3. ASSUME NEW n \in Nifs, NEW r \in Requests, LoadImage(n, r) PROVE TypeOK'
  BY <1>3
     DEF IInv, TypeOK, NifsApart, Shape, Threads, Kinds, LoadImage, Call,
         spotifyctl_load_image, LinkFails, CreateAndReturn, Create, Return, threadVars,
         browseVars, listVars, sessionVars
<1>4. ASSUME NEW n \in Nifs, NEW r \in Requests, Search(n, r) PROVE TypeOK'
  BY <1>4
     DEF IInv, TypeOK, NifsApart, Shape, Threads, Kinds, Search, Call, spotifyctl_search,
         CreateAndReturn, Create, Return, threadVars, browseVars, listVars, sessionVars
<1>5. ASSUME NEW n \in Nifs, NEW r \in Requests, LoadUserPlaylistContainer(n, r) PROVE TypeOK'
  BY <1>5
     DEF IInv, TypeOK, NifsApart, Shape, Threads, Kinds, LoadUserPlaylistContainer, Call,
         load_container, Return, threadVars, browseVars, listVars, sessionVars
<1>6. ASSUME NEW n \in Nifs, NEW r \in Requests, LoadPlaylistContainer(n, r) PROVE TypeOK'
  BY <1>6
     DEF IInv, TypeOK, NifsApart, Shape, Threads, Kinds, LoadPlaylistContainer, Call,
         spotifyctl_load_playlistcontainer, Return, threadVars, browseVars, listVars,
         sessionVars
<1>7. ASSUME NEW n \in Nifs, NEW r \in Requests, Debug(n, r) PROVE TypeOK'
  BY <1>7
     DEF IInv, TypeOK, NifsApart, Shape, Threads, Kinds, Debug, Call, Feedback, Return,
         threadVars, browseVars, listVars, sessionVars
<1>8. ASSUME NEW t \in Threads, Look(t) PROVE TypeOK'
  <2>1. t \in Nifs /\ cur[t] \in Requests
    BY <1>8
       DEF IInv, TypeOK, NifsApart, Shape, Threads, Kinds, Look, Return, threadVars,
           browseVars, listVars, sessionVars
  <2>2. bad' \in BOOLEAN
    BY <1>8
       DEF IInv, TypeOK, NifsApart, Shape, Threads, Kinds, Look, Return, threadVars,
           browseVars, listVars, sessionVars
  <2>3. pc' \in [Threads -> {"idle", "look", "feedback", "release"}]
        /\ cur' \in [Threads -> Requests \union {NULL}]
        /\ reply' \in [Requests -> {"none", "called", "ok", "error"}]
        /\ pc'["main"] # "look"
    BY <1>8, <2>1
       DEF IInv, TypeOK, NifsApart, Shape, Threads, Kinds, Look, Return, threadVars,
           browseVars, listVars, sessionVars
  <2>4. \A u \in Threads : pc'[u] = "idle" <=> cur'[u] = NULL
    BY <1>8, <2>1
       DEF IInv, TypeOK, NifsApart, Shape, Threads, Kinds, Look, Return, threadVars,
           browseVars, listVars, sessionVars
  <2>5. \A n \in Nifs : cur'[n] # NULL => kind'[cur'[n]] = "album" /\ reply'[cur'[n]] = "called"
    BY <1>8, <2>1
       DEF IInv, TypeOK, NifsApart, Shape, Threads, Kinds, Look, Return, threadVars,
           browseVars, listVars, sessionVars
  <2> QED
    BY <1>8, <2>2, <2>3, <2>4, <2>5
       DEF IInv, TypeOK, NifsApart, Shape, Threads, Kinds, Look, Return, threadVars,
           browseVars, listVars, sessionVars
<1>9. ASSUME NEW t \in Threads, SendResult(t) PROVE TypeOK'
  BY <1>9
     DEF IInv, TypeOK, NifsApart, Shape, Threads, Kinds, SendResult, Feedback,
         threadVars, browseVars, listVars, sessionVars
<1>10. ASSUME NEW t \in Threads, Release(t) PROVE TypeOK'
  BY <1>10
     DEF IInv, TypeOK, NifsApart, Shape, Threads, Kinds, Release, ObjectReleased, Return,
         threadVars, browseVars, listVars, sessionVars
<1>11. ASSUME NEW r \in Requests, Complete(r) PROVE TypeOK'
  BY <1>11
     DEF IInv, TypeOK, NifsApart, Shape, Threads, Kinds, Complete, MainIdle, threadVars,
         browseVars, listVars, sessionVars
<1>12. ASSUME NEW r \in Requests, NEW p \in Playlists, PlPcStateChange(r, p) PROVE TypeOK'
  BY <1>12
     DEF IInv, TypeOK, NifsApart, Shape, Threads, Kinds, PlPcStateChange, MainIdle,
         Finish, Feedback, AllLoaded, threadVars, browseVars, listVars, sessionVars
<1>13. ASSUME NEW r \in Requests, ContainerLoaded(r) PROVE TypeOK'
  BY <1>13
     DEF IInv, TypeOK, NifsApart, Shape, Threads, Kinds, ContainerLoaded, MainIdle,
         Finish, Feedback, AllLoaded, threadVars, browseVars, listVars, sessionVars
<1>14. ASSUME NEW r \in Requests, ObjectLoads(r) PROVE TypeOK'
  BY <1>14
     DEF IInv, TypeOK, NifsApart, Shape, Threads, Kinds, ObjectLoads, threadVars,
         browseVars, listVars, sessionVars
<1>15. ASSUME NEW p \in Playlists, PlaylistLoads(p) PROVE TypeOK'
  BY <1>15
     DEF IInv, TypeOK, NifsApart, Shape, Threads, Kinds, PlaylistLoads, threadVars,
         browseVars, listVars, sessionVars
<1>16. CASE UNCHANGED vars
  BY <1>16
     DEF IInv, TypeOK, NifsApart, Shape, Threads, Kinds, vars, threadVars, browseVars,
         listVars, sessionVars
<1>17. CASE SessionEnds
  BY <1>17
     DEF IInv, TypeOK, NifsApart, Shape, Threads, Kinds, SessionEnds, MainIdle, threadVars
<1>18. CASE SessionBegins
  BY <1>18
     DEF IInv, TypeOK, NifsApart, Shape, Threads, Kinds, SessionBegins, threadVars, browseVars,
         listVars
<1>19. ASSUME NEW r \in Requests, LoggedIn(r) PROVE TypeOK'
  BY <1>19
     DEF IInv, TypeOK, NifsApart, Shape, Threads, Kinds, LoggedIn, MainIdle,
         load_container, Return, threadVars, browseVars, listVars, sessionVars
<1> QED
  BY <1>1, <1>2, <1>3, <1>4, <1>5, <1>6, <1>7, <1>8, <1>9, <1>10, <1>11, <1>12, <1>13,
     <1>14, <1>15, <1>16, <1>17, <1>18, <1>19
     DEF Next, Request, ThreadStep, Callback, AlbumComplete, ArtistComplete,
         ImageComplete, SearchComplete

(* No step makes libspotify hold anything for a request that was not made, *)
(* failed, or is of another kind.                                          *)
LEMMA ShapeStep ==
    IInv /\ [Next]_vars => Shape'
<1> SUFFICES ASSUME IInv, [Next]_vars PROVE Shape'
  OBVIOUS
<1> USE RequestsAssumption
<1>1. ASSUME NEW n \in Nifs, NEW r \in Requests, BrowseAlbum(n, r) PROVE Shape'
  BY <1>1
     DEF IInv, TypeOK, NifsApart, Shape, Threads, BrowseAlbum, Call,
         spotifyctl_browse_album, LinkFails, Create, Return, threadVars, browseVars,
         listVars, sessionVars
<1>2. ASSUME NEW n \in Nifs, NEW r \in Requests, BrowseArtist(n, r) PROVE Shape'
  BY <1>2
     DEF IInv, TypeOK, NifsApart, Shape, Threads, BrowseArtist, Call,
         spotifyctl_browse_artist, LinkFails, CreateAndReturn, Create, Return,
         threadVars, browseVars, listVars, sessionVars
<1>3. ASSUME NEW n \in Nifs, NEW r \in Requests, LoadImage(n, r) PROVE Shape'
  BY <1>3
     DEF IInv, TypeOK, NifsApart, Shape, Threads, LoadImage, Call, spotifyctl_load_image,
         LinkFails, CreateAndReturn, Create, Return, threadVars, browseVars, listVars,
         sessionVars
<1>4. ASSUME NEW n \in Nifs, NEW r \in Requests, Search(n, r) PROVE Shape'
  BY <1>4
     DEF IInv, TypeOK, NifsApart, Shape, Threads, Search, Call, spotifyctl_search,
         CreateAndReturn, Create, Return, threadVars, browseVars, listVars, sessionVars
<1>5. ASSUME NEW n \in Nifs, NEW r \in Requests, LoadUserPlaylistContainer(n, r) PROVE Shape'
  BY <1>5
     DEF IInv, TypeOK, NifsApart, Shape, Threads, LoadUserPlaylistContainer, Call,
         load_container, Return, threadVars, browseVars, listVars, sessionVars
<1>6. ASSUME NEW n \in Nifs, NEW r \in Requests, LoadPlaylistContainer(n, r) PROVE Shape'
  BY <1>6
     DEF IInv, TypeOK, NifsApart, Shape, Threads, LoadPlaylistContainer, Call,
         spotifyctl_load_playlistcontainer, Return, threadVars, browseVars, listVars,
         sessionVars
<1>7. ASSUME NEW n \in Nifs, NEW r \in Requests, Debug(n, r) PROVE Shape'
  BY <1>7
     DEF IInv, TypeOK, NifsApart, Shape, Threads, Debug, Call, Feedback, Return,
         threadVars, browseVars, listVars, sessionVars
<1>8. ASSUME NEW t \in Threads, Look(t) PROVE Shape'
  BY <1>8
     DEF IInv, TypeOK, NifsApart, Shape, Threads, Look, Return, threadVars, browseVars,
         listVars, sessionVars
<1>9. ASSUME NEW t \in Threads, SendResult(t) PROVE Shape'
  BY <1>9
     DEF IInv, TypeOK, NifsApart, Shape, Threads, SendResult, Feedback, threadVars,
         browseVars, listVars, sessionVars
<1>10. ASSUME NEW t \in Threads, Release(t) PROVE Shape'
  BY <1>10
     DEF IInv, TypeOK, NifsApart, Shape, Threads, Release, ObjectReleased, Return,
         threadVars, browseVars, listVars, sessionVars
<1>11. ASSUME NEW r \in Requests, Complete(r) PROVE Shape'
  BY <1>11
     DEF IInv, TypeOK, NifsApart, Shape, Threads, Complete, MainIdle, threadVars,
         browseVars, listVars, sessionVars
<1>12. ASSUME NEW r \in Requests, NEW p \in Playlists, PlPcStateChange(r, p) PROVE Shape'
  BY <1>12
     DEF IInv, TypeOK, NifsApart, Shape, Threads, PlPcStateChange, MainIdle, Finish,
         Feedback, AllLoaded, threadVars, browseVars, listVars, sessionVars
<1>13. ASSUME NEW r \in Requests, ContainerLoaded(r) PROVE Shape'
  BY <1>13
     DEF IInv, TypeOK, NifsApart, Shape, Threads, ContainerLoaded, MainIdle, Finish,
         Feedback, AllLoaded, threadVars, browseVars, listVars, sessionVars
<1>14. ASSUME NEW r \in Requests, ObjectLoads(r) PROVE Shape'
  BY <1>14
     DEF IInv, TypeOK, NifsApart, Shape, Threads, ObjectLoads, threadVars, browseVars,
         listVars, sessionVars
<1>15. ASSUME NEW p \in Playlists, PlaylistLoads(p) PROVE Shape'
  BY <1>15
     DEF IInv, TypeOK, NifsApart, Shape, Threads, PlaylistLoads, threadVars, browseVars,
         listVars, sessionVars
<1>16. CASE UNCHANGED vars
  BY <1>16
     DEF IInv, TypeOK, NifsApart, Shape, Threads, vars, threadVars, browseVars, listVars,
         sessionVars
<1>17. CASE SessionEnds
  BY <1>17
     DEF IInv, TypeOK, NifsApart, Shape, Threads, SessionEnds, MainIdle, threadVars
<1>18. CASE SessionBegins
  BY <1>18
     DEF IInv, TypeOK, NifsApart, Shape, Threads, SessionBegins, threadVars, browseVars,
         listVars
<1>19. ASSUME NEW r \in Requests, LoggedIn(r) PROVE Shape'
  BY <1>19
     DEF IInv, TypeOK, NifsApart, Shape, Threads, LoggedIn, MainIdle,
         load_container, Return, threadVars, browseVars, listVars, sessionVars
<1> QED
  BY <1>1, <1>2, <1>3, <1>4, <1>5, <1>6, <1>7, <1>8, <1>9, <1>10, <1>11, <1>12, <1>13,
     <1>14, <1>15, <1>16, <1>17, <1>18, <1>19
     DEF Next, Request, ThreadStep, Callback, AlbumComplete, ArtistComplete,
         ImageComplete, SearchComplete

(* No step puts two NIFs to work on one request: each works on the         *)
(* reference it has made.                                                  *)
LEMMA NifsStep ==
    IInv /\ [Next]_vars => NifsApart'
<1> SUFFICES ASSUME IInv, [Next]_vars PROVE NifsApart'
  OBVIOUS
<1> USE RequestsAssumption
<1>1. ASSUME NEW n \in Nifs, NEW r \in Requests, BrowseAlbum(n, r) PROVE NifsApart'
  BY <1>1
     DEF IInv, TypeOK, NifsApart, Shape, Threads, BrowseAlbum, Call,
         spotifyctl_browse_album, LinkFails, Create, Return, threadVars, browseVars,
         listVars, sessionVars
<1>2. ASSUME NEW n \in Nifs, NEW r \in Requests, BrowseArtist(n, r) PROVE NifsApart'
  BY <1>2
     DEF IInv, TypeOK, NifsApart, Shape, Threads, BrowseArtist, Call,
         spotifyctl_browse_artist, LinkFails, CreateAndReturn, Create, Return,
         threadVars, browseVars, listVars, sessionVars
<1>3. ASSUME NEW n \in Nifs, NEW r \in Requests, LoadImage(n, r) PROVE NifsApart'
  BY <1>3
     DEF IInv, TypeOK, NifsApart, Shape, Threads, LoadImage, Call, spotifyctl_load_image,
         LinkFails, CreateAndReturn, Create, Return, threadVars, browseVars, listVars,
         sessionVars
<1>4. ASSUME NEW n \in Nifs, NEW r \in Requests, Search(n, r) PROVE NifsApart'
  BY <1>4
     DEF IInv, TypeOK, NifsApart, Shape, Threads, Search, Call, spotifyctl_search,
         CreateAndReturn, Create, Return, threadVars, browseVars, listVars, sessionVars
<1>5. ASSUME NEW n \in Nifs, NEW r \in Requests, LoadUserPlaylistContainer(n, r) PROVE NifsApart'
  BY <1>5
     DEF IInv, TypeOK, NifsApart, Shape, Threads, LoadUserPlaylistContainer, Call,
         load_container, Return, threadVars, browseVars, listVars, sessionVars
<1>6. ASSUME NEW n \in Nifs, NEW r \in Requests, LoadPlaylistContainer(n, r) PROVE NifsApart'
  BY <1>6
     DEF IInv, TypeOK, NifsApart, Shape, Threads, LoadPlaylistContainer, Call,
         spotifyctl_load_playlistcontainer, Return, threadVars, browseVars, listVars,
         sessionVars
<1>7. ASSUME NEW n \in Nifs, NEW r \in Requests, Debug(n, r) PROVE NifsApart'
  BY <1>7
     DEF IInv, TypeOK, NifsApart, Shape, Threads, Debug, Call, Feedback, Return,
         threadVars, browseVars, listVars, sessionVars
<1>8. ASSUME NEW t \in Threads, Look(t) PROVE NifsApart'
  BY <1>8
     DEF IInv, TypeOK, NifsApart, Shape, Threads, Look, Return, threadVars, browseVars,
         listVars, sessionVars
<1>9. ASSUME NEW t \in Threads, SendResult(t) PROVE NifsApart'
  BY <1>9
     DEF IInv, TypeOK, NifsApart, Shape, Threads, SendResult, Feedback, threadVars,
         browseVars, listVars, sessionVars
<1>10. ASSUME NEW t \in Threads, Release(t) PROVE NifsApart'
  BY <1>10
     DEF IInv, TypeOK, NifsApart, Shape, Threads, Release, ObjectReleased, Return,
         threadVars, browseVars, listVars, sessionVars
<1>11. ASSUME NEW r \in Requests, Complete(r) PROVE NifsApart'
  BY <1>11
     DEF IInv, TypeOK, NifsApart, Shape, Threads, Complete, MainIdle, threadVars,
         browseVars, listVars, sessionVars
<1>12. ASSUME NEW r \in Requests, NEW p \in Playlists, PlPcStateChange(r, p) PROVE NifsApart'
  BY <1>12
     DEF IInv, TypeOK, NifsApart, Shape, Threads, PlPcStateChange, MainIdle, Finish,
         Feedback, AllLoaded, threadVars, browseVars, listVars, sessionVars
<1>13. ASSUME NEW r \in Requests, ContainerLoaded(r) PROVE NifsApart'
  BY <1>13
     DEF IInv, TypeOK, NifsApart, Shape, Threads, ContainerLoaded, MainIdle, Finish,
         Feedback, AllLoaded, threadVars, browseVars, listVars, sessionVars
<1>14. ASSUME NEW r \in Requests, ObjectLoads(r) PROVE NifsApart'
  BY <1>14
     DEF IInv, TypeOK, NifsApart, Shape, Threads, ObjectLoads, threadVars, browseVars,
         listVars, sessionVars
<1>15. ASSUME NEW p \in Playlists, PlaylistLoads(p) PROVE NifsApart'
  BY <1>15
     DEF IInv, TypeOK, NifsApart, Shape, Threads, PlaylistLoads, threadVars, browseVars,
         listVars, sessionVars
<1>16. CASE UNCHANGED vars
  BY <1>16
     DEF IInv, TypeOK, NifsApart, Shape, Threads, vars, threadVars, browseVars, listVars,
         sessionVars
<1>17. CASE SessionEnds
  BY <1>17
     DEF IInv, TypeOK, NifsApart, Shape, Threads, SessionEnds, MainIdle, threadVars
<1>18. CASE SessionBegins
  BY <1>18
     DEF IInv, TypeOK, NifsApart, Shape, Threads, SessionBegins, threadVars, browseVars,
         listVars
<1>19. ASSUME NEW r \in Requests, LoggedIn(r) PROVE NifsApart'
  BY <1>19
     DEF IInv, TypeOK, NifsApart, Shape, Threads, LoggedIn, MainIdle,
         load_container, Return, threadVars, browseVars, listVars, sessionVars
<1> QED
  BY <1>1, <1>2, <1>3, <1>4, <1>5, <1>6, <1>7, <1>8, <1>9, <1>10, <1>11, <1>12, <1>13,
     <1>14, <1>15, <1>16, <1>17, <1>18, <1>19
     DEF Next, Request, ThreadStep, Callback, AlbumComplete, ArtistComplete,
         ImageComplete, SearchComplete

(* As long as things are orderly, no step uses what has been given back,   *)
(* and a message goes with giving back.                                    *)
LEMMA SoundStep ==
    IInv /\ [Next]_vars => Sound'
<1> SUFFICES ASSUME IInv, [Next]_vars PROVE Sound'
  OBVIOUS
<1> USE RequestsAssumption
<1>1. ASSUME NEW n \in Nifs, NEW r \in Requests, BrowseAlbum(n, r) PROVE Sound'
  <2>1. Orderly' => Orderly /\ running
    BY <1>1 DEF Orderly, BrowseAlbum, LinkFails, Create, spotifyctl_browse_album, listVars,
                browseVars
  <2> SUFFICES ASSUME Orderly' PROVE Sound'
    BY DEF Sound
  <2>2. /\ n \in Threads /\ pc[n] = "idle" /\ obj[r] = "none" /\ reply[r] = "none"
        /\ \A t \in Threads : cur[t] # r
    BY <1>1 DEF IInv, TypeOK, Shape, Threads, BrowseAlbum, Call
  <2>3. ~bad' /\ UNCHANGED <<messages, listVars, running>>
    BY <1>1, <2>1 DEF IInv, Sound, BrowseAlbum
  <2>4. Apart'
    BY <1>1, <2>1, <2>2
       DEF IInv, TypeOK, Sound, Apart, Threads, BrowseAlbum, spotifyctl_browse_album,
           LinkFails, threadVars
  <2>5. Working'
    BY <1>1, <2>1, <2>2, <2>3
       DEF IInv, TypeOK, Sound, Working, Threads, BrowseAlbum, spotifyctl_browse_album,
           LinkFails, Create, threadVars, browseVars
  <2>6. Waiting'
    BY <2>1, <2>3 DEF IInv, Sound, Waiting, listVars
  <2>7. Releasing' = Releasing
    BY <1>1, <2>2
       DEF IInv, TypeOK, Releasing, Threads, BrowseAlbum, spotifyctl_browse_album,
           LinkFails, threadVars
  <2>8. \A q \in Requests : /\ obj'[q] = "released" <=> obj[q] = "released"
                            /\ kind'[q] = "debug" /\ reply'[q] = "ok"
                                   <=> kind[q] = "debug" /\ reply[q] = "ok"
    BY <1>1, <2>2
       DEF IInv, TypeOK, BrowseAlbum, Call, spotifyctl_browse_album, LinkFails, Create,
           Return, browseVars
  <2>9. Answered'
    BY <2>1, <2>3, <2>7, <2>8 DEF IInv, Sound, Answered, listVars
  <2> QED
    BY <2>3, <2>4, <2>5, <2>6, <2>9 DEF Sound
<1>2. ASSUME NEW n \in Nifs, NEW r \in Requests, BrowseArtist(n, r) PROVE Sound'
  BY <1>2
     DEF IInv, TypeOK, NifsApart, Shape, Sound, Orderly, Apart, Working, Waiting, Answered,
         Releasing, Threads, BrowseArtist, Call, spotifyctl_browse_artist, LinkFails,
         CreateAndReturn, Create, Return, threadVars, browseVars, listVars, sessionVars
<1>3. ASSUME NEW n \in Nifs, NEW r \in Requests, LoadImage(n, r) PROVE Sound'
  BY <1>3
     DEF IInv, TypeOK, NifsApart, Shape, Sound, Orderly, Apart, Working, Waiting, Answered,
         Releasing, Threads, LoadImage, Call, spotifyctl_load_image, LinkFails,
         CreateAndReturn, Create, Return, threadVars, browseVars, listVars, sessionVars
<1>4. ASSUME NEW n \in Nifs, NEW r \in Requests, Search(n, r) PROVE Sound'
  BY <1>4
     DEF IInv, TypeOK, NifsApart, Shape, Sound, Orderly, Apart, Working, Waiting, Answered,
         Releasing, Threads, Search, Call, spotifyctl_search, CreateAndReturn, Create,
         Return, threadVars, browseVars, listVars, sessionVars
<1>5. ASSUME NEW n \in Nifs, NEW r \in Requests, LoadUserPlaylistContainer(n, r) PROVE Sound'
  BY <1>5
     DEF IInv, TypeOK, NifsApart, Shape, Sound, Orderly, Apart, Working, Waiting, Answered,
         Releasing, Threads, LoadUserPlaylistContainer, Call, load_container, Return,
         threadVars, browseVars, listVars, sessionVars
<1>6. ASSUME NEW n \in Nifs, NEW r \in Requests, LoadPlaylistContainer(n, r) PROVE Sound'
  BY <1>6
     DEF IInv, TypeOK, NifsApart, Shape, Sound, Orderly, Apart, Working, Waiting, Answered,
         Releasing, Threads, LoadPlaylistContainer, Call,
         spotifyctl_load_playlistcontainer, Return, threadVars, browseVars, listVars,
         sessionVars
<1>7. ASSUME NEW n \in Nifs, NEW r \in Requests, Debug(n, r) PROVE Sound'
  BY <1>7
     DEF IInv, TypeOK, NifsApart, Shape, Sound, Orderly, Apart, Working, Waiting, Answered,
         Releasing, Threads, Debug, Call, Feedback, Return, threadVars, browseVars,
         listVars, sessionVars
<1>8. ASSUME NEW t \in Threads, Look(t) PROVE Sound'
  BY <1>8
     DEF IInv, TypeOK, NifsApart, Shape, Sound, Orderly, Apart, Working, Waiting, Answered,
         Releasing, Threads, Look, Return, threadVars, browseVars, listVars, sessionVars
<1>9. ASSUME NEW t \in Threads, SendResult(t) PROVE Sound'
  BY <1>9
     DEF IInv, TypeOK, NifsApart, Shape, Sound, Orderly, Apart, Working, Waiting, Answered,
         Releasing, Threads, SendResult, Feedback, threadVars, browseVars, listVars,
         sessionVars
<1>10. ASSUME NEW t \in Threads, Release(t) PROVE Sound'
  BY <1>10
     DEF IInv, TypeOK, NifsApart, Shape, Sound, Orderly, Apart, Working, Waiting, Answered,
         Releasing, Threads, Release, ObjectReleased, Return, threadVars, browseVars,
         listVars, sessionVars
<1>11. ASSUME NEW r \in Requests, Complete(r) PROVE Sound'
  <2>1. Orderly' => Orderly /\ \A n \in Nifs : cur[n] # r
    BY <1>11
       DEF IInv, TypeOK, NifsApart, Shape, Sound, Orderly, Apart, Working, Waiting, Answered,
           Releasing, Threads, Complete, MainIdle, threadVars, browseVars, listVars,
           sessionVars
  <2> SUFFICES ASSUME Orderly' PROVE Sound'
    BY DEF Sound
  <2>2. ~bad' /\ Apart'
    BY <1>11, <2>1
       DEF IInv, TypeOK, NifsApart, Shape, Sound, Orderly, Apart, Working, Waiting, Answered,
           Releasing, Threads, Complete, MainIdle, threadVars, browseVars, listVars,
           sessionVars
  <2>3. Working'
    BY <1>11, <2>1
       DEF IInv, TypeOK, NifsApart, Shape, Sound, Orderly, Apart, Working, Waiting, Answered,
           Releasing, Threads, Complete, MainIdle, threadVars, browseVars, listVars,
           sessionVars
  <2>4. Waiting'
    BY <1>11, <2>1
       DEF IInv, TypeOK, NifsApart, Shape, Sound, Orderly, Apart, Working, Waiting, Answered,
           Releasing, Threads, Complete, MainIdle, threadVars, browseVars, listVars,
           sessionVars
  <2>5. Releasing' = Releasing
    BY <1>11
       DEF IInv, TypeOK, NifsApart, Shape, Sound, Orderly, Apart, Working, Waiting, Answered,
           Releasing, Threads, Complete, MainIdle, threadVars, browseVars, listVars,
           sessionVars
  <2>6. Answered'
    BY <1>11, <2>1, <2>5 DEF IInv, Sound, Answered, Complete, listVars, sessionVars
  <2> QED
    BY <2>2, <2>3, <2>4, <2>6 DEF Sound
<1>12. ASSUME NEW r \in Requests, NEW p \in Playlists, PlPcStateChange(r, p) PROVE Sound'
  BY <1>12
     DEF IInv, TypeOK, NifsApart, Shape, Sound, Orderly, Apart, Working, Waiting, Answered,
         Releasing, Threads, PlPcStateChange, MainIdle, Finish, Feedback, AllLoaded,
         threadVars, browseVars, listVars, sessionVars
<1>13. ASSUME NEW r \in Requests, ContainerLoaded(r) PROVE Sound'
  BY <1>13
     DEF IInv, TypeOK, NifsApart, Shape, Sound, Orderly, Apart, Working, Waiting, Answered,
         Releasing, Threads, ContainerLoaded, MainIdle, Finish, Feedback, AllLoaded,
         threadVars, browseVars, listVars, sessionVars
<1>14. ASSUME NEW r \in Requests, ObjectLoads(r) PROVE Sound'
  BY <1>14
     DEF IInv, TypeOK, NifsApart, Shape, Sound, Orderly, Apart, Working, Waiting, Answered,
         Releasing, Threads, ObjectLoads, threadVars, browseVars, listVars, sessionVars
<1>15. ASSUME NEW p \in Playlists, PlaylistLoads(p) PROVE Sound'
  <2>1. Orderly' => Orderly /\ \A w \in plwatch, v \in pl_due : w[2] = p => v[1] # w[1]
    BY <1>15 DEF IInv, TypeOK, Orderly, PlaylistLoads, browseVars, sessionVars
  <2> SUFFICES ASSUME Orderly' PROVE Sound'
    BY DEF Sound
  <2>2. /\ UNCHANGED <<pc, cur, kind, reply, messages, obj, data, running, bad>>
        /\ Orderly
    BY <1>15, <2>1 DEF PlaylistLoads, threadVars, browseVars, sessionVars
  <2>3. ~bad' /\ Apart' /\ Working'
    BY <2>2 DEF IInv, Sound, Apart, Working
  <2>4. Answered'
    BY <2>2 DEF IInv, Sound, Answered, Releasing
  <2>5. /\ plwatch' = plwatch /\ pl_loaded' = pl_loaded \union {p} /\ p \notin pl_loaded
        /\ \A q \in Requests, s \in Playlists :
               <<q, s>> \in pl_due' <=> <<q, s>> \in pl_due \/ (s = p /\ <<q, p>> \in plwatch)
    BY <1>15 DEF PlaylistLoads
  <2>6. \A q \in Requests, s \in Playlists :
            <<q, p>> \in plwatch => <<q, s>> \notin pl_due
    <3> SUFFICES ASSUME NEW q \in Requests, NEW s \in Playlists,
                        <<q, p>> \in plwatch, <<q, s>> \in pl_due
                 PROVE  FALSE
      OBVIOUS
    <3> QED
      BY <2>1
  <2>7. Waiting'
    <3>1. Waiting
      BY <2>2 DEF IInv, Sound
    <3>2. ASSUME NEW q \in Requests, NEW s \in Playlists, <<q, s>> \in plwatch'
          PROVE  /\ s \in PlaylistsOf[q]
                 /\ s \notin pl_loaded' => data'[q] = "live"
                 /\ <<q, s>> \in pl_due' => s \in pl_loaded' /\ data'[q] = "live"
      BY <2>2, <2>5, <3>1, <3>2 DEF Waiting
    <3>3. ASSUME NEW q \in Requests, NEW s \in Playlists, NEW u \in Playlists,
                 <<q, s>> \in pl_due', <<q, u>> \in pl_due'
          PROVE  s = u
      <4>1. \/ <<q, s>> \in pl_due /\ <<q, u>> \in pl_due
            \/ s = p /\ u = p
        BY <2>5, <2>6, <3>3
      <4> QED
        BY <3>1, <4>1 DEF Waiting
    <3> QED
      BY <3>2, <3>3 DEF Waiting
  <2> QED
    BY <2>3, <2>4, <2>7 DEF Sound
<1>16. CASE UNCHANGED vars
  BY <1>16
     DEF IInv, TypeOK, NifsApart, Shape, Sound, Orderly, Apart, Working, Waiting, Answered,
         Releasing, Threads, vars, threadVars, browseVars, listVars, sessionVars
<1>17. CASE SessionEnds
  <2>1. Orderly' => Orderly /\ \A t \in Threads : pc[t] = "idle"
    BY <1>17 DEF Orderly, Threads, SessionEnds, MainIdle
  <2> SUFFICES ASSUME Orderly' PROVE Sound'
    BY DEF Sound
  <2>2. /\ UNCHANGED <<pc, cur, kind, reply, messages, obj, data, plwatch, pl_loaded, bad>>
        /\ pl_due' \subseteq pl_due
    BY <1>17 DEF SessionEnds, threadVars
  <2>3. ~bad' /\ Apart' /\ Working'
    BY <2>1, <2>2 DEF IInv, Sound, Apart, Working
  <2>4. Waiting'
    BY <2>1, <2>2 DEF IInv, Sound, Waiting
  <2>5. Answered'
    BY <2>1, <2>2 DEF IInv, Sound, Answered, Releasing
  <2> QED
    BY <2>3, <2>4, <2>5 DEF Sound
<1>18. CASE SessionBegins
  BY <1>18
     DEF IInv, TypeOK, NifsApart, Shape, Sound, Orderly, Apart, Working, Waiting, Answered,
         Releasing, Threads, SessionBegins, threadVars, browseVars,
         listVars
<1>19. ASSUME NEW r \in Requests, LoggedIn(r) PROVE Sound'
  BY <1>19
     DEF IInv, TypeOK, NifsApart, Shape, Sound, Orderly, Apart, Working, Waiting, Answered,
         Releasing, Threads, LoggedIn, MainIdle,
         load_container, Return, threadVars, browseVars, listVars, sessionVars
<1> QED
  BY <1>1, <1>2, <1>3, <1>4, <1>5, <1>6, <1>7, <1>8, <1>9, <1>10, <1>11, <1>12, <1>13,
     <1>14, <1>15, <1>16, <1>17, <1>18, <1>19
     DEF Next, Request, ThreadStep, Callback, AlbumComplete, ArtistComplete,
         ImageComplete, SearchComplete

(* The invariant is inductive, so it holds of every behaviour.             *)
LEMMA Invariance == Spec => []IInv
<1>1. IInv /\ [Next]_vars => IInv'
  BY TypeStep, ShapeStep, NifsStep, SoundStep DEF IInv
<1> QED
  BY InitIInv, <1>1, PTL DEF Spec

-----------------------------------------------------------------------------
(* Every variable of the requests keeps its type, and browse_album alone   *)
(* works on a request after it has been made.                              *)
THEOREM TypeCorrect == Spec => []TypeOK
<1>1. IInv => TypeOK
  BY DEF IInv
<1> QED
  BY <1>1, Invariance, PTL

LEMMA Once == IInv => AnsweredOnceReleased
<1> SUFFICES ASSUME IInv, Orderly, NEW r \in Requests,
                    reply[r] = "error", r \in Releasing
             PROVE  FALSE
  BY DEF IInv, Shape, Sound, Answered, AnsweredOnceReleased
<1>1. \E t \in Threads : cur[t] = r
  BY DEF Releasing
<1> QED
  BY <1>1 DEF IInv, Shape

(* Unless a callback comes during its browse_album or playlists load       *)
(* together, a reference is returned in one message exactly when its       *)
(* object or block is given back, and a request that failed has neither.   *)
THEOREM OnceReleased == Spec => []AnsweredOnceReleased
  BY Once, Invariance, PTL

(* Unless they do, no released object, freed block or freed reference is   *)
(* used.                                                                   *)
THEOREM MemorySafe == Spec => []NoUseAfterRelease
<1>1. IInv => NoUseAfterRelease
  BY DEF IInv, Sound, NoUseAfterRelease
<1> QED
  BY <1>1, Invariance, PTL

-----------------------------------------------------------------------------
(* A step that makes, answers or goes on with request r, and no other.     *)
Moves(r) ==
    /\ \A u \in Requests : u # r =>
           kind'[u] = kind[u] /\ reply'[u] = reply[u] /\ messages'[u] = messages[u]
    /\ kind[r] # "none" => kind'[r] = kind[r] /\ (reply'[r] = "error" <=> reply[r] = "error")
    /\ messages'[r] = 0 => messages[r] = 0

LEMMA TableInit == Init => Table!Init
  BY DEF Init, Table!Init, TableState, Orderly

LEMMA TableTyped ==
    /\ \A r \in Requests : TableState(r) \in Table!States
    /\ \A r \in Requests : TableState(r)' \in Table!States
  BY DEF TableState, Table!States

(* As long as each reference is returned once, request r makes a move of   *)
(* the table, if any.                                                      *)
LEMMA TableMove ==
    ASSUME IInv, IInv', Orderly, Orderly', NEW r \in Requests, Moves(r)
    PROVE  /\ \A u \in Requests : u # r => TableState(u)' = TableState(u)
           /\ TableState(r)' # TableState(r) => <<TableState(r), TableState(r)'>> \in Table!Moves
<1>1. \A u \in Requests : u # r => TableState(u)' = TableState(u)
  BY DEF Moves, TableState
<1>2. /\ messages[r] \in {0, 1} /\ messages'[r] \in {0, 1}
      /\ reply[r] = "error" => messages[r] = 0
      /\ reply'[r] = "error" => messages'[r] = 0
      /\ kind[r] = "none" <=> reply[r] = "none"
      /\ kind'[r] = "none" <=> reply'[r] = "none"
      /\ reply[r] \in {"none", "called", "ok", "error"}
      /\ reply'[r] \in {"none", "called", "ok", "error"}
  <2>1. AnsweredOnceReleased /\ AnsweredOnceReleased'
    BY Once, PTL
  <2> QED
    BY <2>1 DEF AnsweredOnceReleased, IInv, TypeOK, Shape
<1>3. \/ TableState(r)' = TableState(r)
      \/ TableState(r) = "free" /\ TableState(r)' \in {"open", "refused", "answered"}
      \/ TableState(r) = "open" /\ TableState(r)' = "answered"
  BY <1>2 DEF Moves, TableState
<1> QED
  BY <1>1, <1>3 DEF Table!Moves

(* What is not orderly stays so.                                           *)
LEMMA OrderlyBefore == [Next]_vars /\ Orderly' => Orderly
<1> SUFFICES ASSUME [Next]_vars PROVE (met => met') /\ (batched => batched') /\ (late => late')
  BY DEF Orderly
<1>1. UNCHANGED met \/ \E r \in Requests : Complete(r)
  BY DEF Next, Request, ThreadStep, Callback, BrowseAlbum, BrowseArtist, LoadImage,
         Search, Debug, LoadPlaylistContainer, LoadUserPlaylistContainer, Look, SendResult,
         Release, AlbumComplete, ArtistComplete, ImageComplete, SearchComplete,
         ContainerLoaded, LoggedIn, ObjectLoads, PlaylistLoads, PlPcStateChange, SessionEnds,
         SessionBegins, vars, browseVars, spotifyctl_browse_album, spotifyctl_browse_artist,
         spotifyctl_load_image, spotifyctl_search, LinkFails, CreateAndReturn, Create
<1>2. UNCHANGED batched \/ \E p \in Playlists : PlaylistLoads(p)
  BY DEF Next, Request, ThreadStep, Callback, BrowseAlbum, BrowseArtist, LoadImage,
         Search, Debug, LoadPlaylistContainer, LoadUserPlaylistContainer, Look, SendResult,
         Release, AlbumComplete, ArtistComplete, ImageComplete, SearchComplete, Complete,
         ContainerLoaded, LoggedIn, ObjectLoads, PlPcStateChange, SessionEnds, SessionBegins, vars,
         listVars
<1>3. UNCHANGED late \/ SessionEnds \/ \E n \in Nifs, r \in Requests : BrowseAlbum(n, r)
  BY DEF Next, Request, ThreadStep, Callback, BrowseArtist, LoadImage,
         Search, Debug, LoadPlaylistContainer, LoadUserPlaylistContainer, Look, SendResult,
         Release, AlbumComplete, ArtistComplete, ImageComplete, SearchComplete, Complete,
         ContainerLoaded, LoggedIn, ObjectLoads, PlaylistLoads, PlPcStateChange, SessionBegins, vars,
         sessionVars
<1>4. met => met'
  BY <1>1 DEF Complete
<1>5. batched => batched'
  BY <1>2 DEF PlaylistLoads
<1>6. late => late'
  BY <1>3 DEF SessionEnds, BrowseAlbum
<1> QED
  BY <1>4, <1>5, <1>6

(* Each step concerns one request or none.                                 *)
LEMMA TableStep == IInv /\ [Next]_vars => [Table!Next]_Table!vars
<1> SUFFICES ASSUME IInv, [Next]_vars PROVE Table!Next
  OBVIOUS
<1> DEFINE state == [r \in Requests |-> TableState(r)]
           void  == IF Orderly THEN {} ELSE Requests
<1>1. IInv' /\ TypeOK
  BY TypeStep, ShapeStep, NifsStep, SoundStep DEF IInv
<1>2. state' \in [Requests -> Table!States] /\ void' \in SUBSET Requests /\ void \subseteq void'
  BY TableTyped, OrderlyBefore
<1>3. CASE ~Orderly'
  <2>1. Requests \ void' = {}
    BY <1>3
  <2> QED
    BY <1>2, <2>1 DEF Table!Next
<1>4. CASE Orderly'
  <2>1. Orderly
    BY <1>4, OrderlyBefore
  <2>2. ASSUME NEW n \in Nifs, NEW r \in Requests, Request(n, r) PROVE Moves(r)
    BY <1>1, <2>2
       DEF Request, Moves, TypeOK, Call, Return, Feedback, BrowseAlbum, BrowseArtist, LoadImage,
           Search, Debug, LoadPlaylistContainer, LoadUserPlaylistContainer, LinkFails,
           spotifyctl_browse_album, spotifyctl_browse_artist, spotifyctl_load_image,
           spotifyctl_search, spotifyctl_load_playlistcontainer, CreateAndReturn
  <2>3. ASSUME NEW t \in Threads, ThreadStep(t) PROVE cur[t] \in Requests /\ Moves(cur[t])
    <3>1. cur[t] \in Requests /\ (t # "main" => reply[cur[t]] = "called")
      BY <1>1, <2>3 DEF ThreadStep, Look, SendResult, Release, TypeOK, Threads
    <3> QED
      BY <1>1, <2>3, <3>1
         DEF ThreadStep, Look, SendResult, Release, TypeOK, Moves, Return, Feedback
  <2>4. ASSUME NEW r \in Requests, Callback(r) \/ ContainerLoaded(r) \/ LoggedIn(r)
        PROVE  Moves(r)
    <3>1. CASE AlbumComplete(r) \/ ArtistComplete(r) \/ ImageComplete(r) \/ SearchComplete(r)
      BY <3>1
         DEF AlbumComplete, ArtistComplete, ImageComplete, SearchComplete, Complete, Moves
    <3>2. CASE UNCHANGED <<kind, reply>> /\ Finish(r)
      BY <1>1, <3>2 DEF Finish, Feedback, TypeOK, Moves
    <3>3. CASE LoggedIn(r)
      BY <1>1, <3>3 DEF LoggedIn, Return, TypeOK, Moves
    <3> QED
      BY <2>4, <3>1, <3>2, <3>3 DEF Callback, ContainerLoaded, PlPcStateChange
  <2>5. \/ \E r \in Requests : Moves(r)
        \/ UNCHANGED <<kind, reply, messages>>
    BY <2>2, <2>3, <2>4 DEF Next, ObjectLoads, PlaylistLoads, SessionEnds, SessionBegins, vars
  <2>6. CASE \E r \in Requests : Moves(r)
    <3>1. PICK r \in Requests : Moves(r)
      BY <2>6
    <3>2. /\ \A u \in Requests : u # r => state'[u] = state[u]
          /\ state'[r] # state[r] => <<state[r], state'[r]>> \in Table!Moves
      BY <1>1, <1>4, <2>1, <3>1, TableMove
    <3> QED
      BY <1>2, <3>2 DEF Table!Next
  <2>7. CASE UNCHANGED <<kind, reply, messages>>
    <3>1. \A u \in Requests : state'[u] = state[u]
      BY <2>7 DEF TableState
    <3> QED
      BY <1>2, <3>1 DEF Table!Next
  <2> QED
    BY <2>5, <2>6, <2>7
<1> QED
  BY <1>3, <1>4

(* Browse, image, search and container requests, with all callbacks and    *)
(* through any number of sessions, are requests of RequestTable.tla.       *)
THEOREM ImplementsTable == Spec => TableSpec
<1>1. Table!Init /\ [][Table!Next]_Table!vars => TableSpec
  BY DEF TableSpec, Table!Spec
<1> QED
  BY <1>1, TableInit, TableStep, Invariance, PTL DEF Spec
==============================================================================
