------------------------------- MODULE Requests -------------------------------
(***************************************************************************)
(* The requests that libspotify answers through a callback of their own:   *)
(* browse_album, browse_artist, load_image, search and                     *)
(* load_user_playlistcontainer, from the NIF in espotify.c through         *)
(* spotifyctl.c and playlists.c to the message with the reference, through *)
(* any number of sessions; load_playlistcontainer and debug, which         *)
(* libspotify does not answer; and the container that logged_in loads,     *)
(* with NULL for a reference.                                              *)
(*                                                                         *)
(* NIFs make requests on their own threads; libspotify's callbacks run on  *)
(* the main thread.  browse_album looks at the object it has created, so   *)
(* its steps are separate; the other functions hand the reference to       *)
(* libspotify and return.  A link lives within a step.  Nothing is said of *)
(* what follows the use of a released object or of freed memory.           *)
(***************************************************************************)
EXTENDS Integers, FiniteSets

CONSTANTS
    Nifs,         (* scheduler threads that make requests                  *)
    Requests,     (* calls of the NIFs, of any kind, each with a           *)
                  (* reference, and logins                                 *)
    Playlists,
    PlaylistsOf,  (* the playlists of each request, if for a container     *)
    NULL

(* The NIFs: four that browse, and three about containers and debug; and   *)
(* the login.                                                              *)
Kinds == {"album", "artist", "image", "search", "container", "own", "debug", "login"}

ASSUME RequestsAssumption ==
    /\ PlaylistsOf \in [Requests -> SUBSET Playlists]
    /\ NULL \notin Requests /\ "main" \notin Nifs

Threads == Nifs \union {"main"}

VARIABLES
    pc,        (* where each thread is                                     *)
    cur,       (* the request it works on                                  *)
    kind,      (* what each request is: the NIF it has called, or a login  *)
    reply,     (* what the NIF has returned                                *)
    messages,  (* how often each reference has been returned in a message  *)
    obj,       (* libspotify's object for a request, with one reference to *)
               (* it: "none", "pending", "loaded", "released"              *)
    due,       (* the requests for which libspotify will call back         *)
    data,      (* container_load_data: "none", "live", "freed"             *)
    watched,   (* the requests for which container_loaded is registered    *)
    plwatch,   (* pairs of a request and a playlist that                   *)
               (* pl_pc_state_change is registered for, with a reference   *)
    pl_loaded, (* the playlists for which sp_playlist_is_loaded            *)
    pl_due,    (* the pairs for which libspotify will call back            *)
    running,   (* spotifyctl_run is in its loop, and async_state is set    *)
    bad,       (* released or freed memory or a NULL pointer has been used *)
    met,       (* auxiliary: a callback has come during its browse_album   *)
    batched,   (* auxiliary: two playlists of one request have loaded      *)
               (* before libspotify called back for the first              *)
    late       (* auxiliary: a browse_album has run while no session did   *)

threadVars == <<pc, cur>>
browseVars == <<obj, due, met>>
listVars   == <<data, watched, plwatch, pl_loaded, pl_due, batched>>
sessionVars == <<running, late>>
vars == <<threadVars, kind, reply, messages, browseVars, listVars, sessionVars, bad>>

Init ==
    /\ pc = [t \in Threads |-> "idle"]
    /\ cur = [t \in Threads |-> NULL]
    /\ kind = [r \in Requests |-> "none"]
    /\ reply = [r \in Requests |-> "none"]
    /\ messages = [r \in Requests |-> 0]
    /\ obj = [r \in Requests |-> "none"]
    /\ due = {}
    /\ data = [r \in Requests |-> "none"]
    /\ watched = {}
    /\ plwatch = {}
    /\ pl_loaded \in SUBSET Playlists
    /\ pl_due = {}
    /\ bad = FALSE
    /\ met = FALSE
    /\ batched = FALSE
    /\ running = TRUE
    /\ late = FALSE

-----------------------------------------------------------------------------
(* esp_*_feedback: a message with the reference, which async_return_ref    *)
(* frees, as it frees one that has been freed before.                      *)
Feedback(r) == messages' = [messages EXCEPT ![r] = @ + 1]

(* A NIF of the given kind: async_make_ref.                                *)
Call(n, r, k) ==
    /\ ~bad
    /\ pc[n] = "idle" /\ kind[r] = "none"
    /\ kind' = [kind EXCEPT ![r] = k]

Return(r, result) == reply' = [reply EXCEPT ![r] = result]

(* CHECK_VALID_LINK, and a link to something else; the reference stays     *)
(* counted.                                                                *)
LinkFails(r) == Return(r, "error") /\ UNCHANGED <<threadVars, browseVars>>

(* libspotify creates the object, which it may have in its cache; whether  *)
(* it then calls back is not known to this code.                           *)
Create(r) ==
    /\ UNCHANGED met
    /\ \/ obj' = [obj EXCEPT ![r] = "pending"] /\ UNCHANGED due
       \/ obj' = [obj EXCEPT ![r] = "loaded"] /\ due' \in {due, due \union {r}}

CreateAndReturn(r) == Create(r) /\ Return(r, "ok") /\ UNCHANGED threadVars

(* Mutant: the answer is given before the album has been looked at.        *)
browse_album_answers(n, r) ==
    \/ LinkFails(r)
    \/ /\ Create(r)
       /\ pc' = [pc EXCEPT ![n] = "look"]
       /\ cur' = [cur EXCEPT ![n] = r]
       /\ Return(r, "ok")

(* The album is created; the NIF goes on to look at it.                    *)
spotifyctl_browse_album(n, r) ==
    \/ LinkFails(r)
    \/ /\ Create(r)
       /\ pc' = [pc EXCEPT ![n] = "look"]
       /\ cur' = [cur EXCEPT ![n] = r]
       /\ Return(r, "called")

spotifyctl_browse_artist(r) == LinkFails(r) \/ CreateAndReturn(r)

(* An image that is no link, or that libspotify cannot create, or whose    *)
(* load callback is registered.                                            *)
spotifyctl_load_image(r) == LinkFails(r) \/ CreateAndReturn(r)

spotifyctl_search(r) == CreateAndReturn(r)

BrowseAlbum(n, r) ==
    /\ Call(n, r, "album")
    /\ spotifyctl_browse_album(n, r)
    /\ late' = (late \/ ~running)
    /\ UNCHANGED <<messages, listVars, running, bad>>

BrowseArtist(n, r) ==
    /\ Call(n, r, "artist")
    /\ spotifyctl_browse_artist(r)
    /\ UNCHANGED <<messages, listVars, sessionVars, bad>>

LoadImage(n, r) ==
    /\ Call(n, r, "image")
    /\ spotifyctl_load_image(r)
    /\ UNCHANGED <<messages, listVars, sessionVars, bad>>

Search(n, r) ==
    /\ Call(n, r, "search")
    /\ spotifyctl_search(r)
    /\ UNCHANGED <<messages, listVars, sessionVars, bad>>

Debug(n, r) ==
    /\ Call(n, r, "debug")
    /\ Feedback(r) /\ Return(r, "ok")
    /\ UNCHANGED <<threadVars, browseVars, listVars, sessionVars, bad>>

(* The container of the user himself: the reference goes nowhere.          *)
spotifyctl_load_playlistcontainer(r) == Return(r, "ok")

LoadPlaylistContainer(n, r) ==
    /\ Call(n, r, "own")
    /\ spotifyctl_load_playlistcontainer(r)
    /\ UNCHANGED <<threadVars, messages, browseVars, listVars, sessionVars, bad>>

-----------------------------------------------------------------------------
(* Mutant: browse_album leaves an album that is loaded to libspotify.      *)
LookOnly(n) ==
    /\ pc[n] = "look" /\ ~bad
    /\ bad' = (obj[cur[n]] = "released")
    /\ pc' = [pc EXCEPT ![n] = "idle"]
    /\ cur' = [cur EXCEPT ![n] = NULL]
    /\ Return(cur[n], "ok")
    /\ UNCHANGED <<kind, messages, browseVars, listVars, sessionVars>>

(* browse_album looks whether its album is loaded ...                      *)
Look(n) ==
    /\ pc[n] = "look" /\ ~bad
    /\ LET r == cur[n] IN
       IF obj[r] = "loaded"
       THEN pc' = [pc EXCEPT ![n] = "feedback"] /\ UNCHANGED <<cur, reply, bad>>
       ELSE /\ bad' = (obj[r] = "released")
            /\ pc' = [pc EXCEPT ![n] = "idle"]
            /\ cur' = [cur EXCEPT ![n] = NULL]
            /\ Return(r, "ok")
    /\ UNCHANGED <<kind, messages, browseVars, listVars, sessionVars>>

(* ... and completes the request itself if it is.  On either thread, a     *)
(* completion sends the message, for which it needs async_state ...        *)
SendResult(t) ==
    /\ pc[t] = "feedback" /\ ~bad
    /\ LET r == cur[t] IN
         /\ bad' = (obj[r] = "released" \/ messages[r] > 0 \/ ~running)
         /\ Feedback(r)
    /\ pc' = [pc EXCEPT ![t] = "release"]
    /\ UNCHANGED <<cur, kind, reply, browseVars, listVars, sessionVars>>

(* Mutant: the object is not released.                                     *)
ObjectKept(t) == obj' = obj

(* ... and releases the object: libspotify will not call back for it.      *)
ObjectReleased(t) == obj' = [obj EXCEPT ![cur[t]] = "released"]

Release(t) ==
    /\ pc[t] = "release" /\ ~bad
    /\ bad' = (obj[cur[t]] = "released")
    /\ ObjectReleased(t)
    /\ pc' = [pc EXCEPT ![t] = "idle"]
    /\ cur' = [cur EXCEPT ![t] = NULL]
    /\ IF t = "main" THEN UNCHANGED reply ELSE Return(cur[t], "ok")
    /\ UNCHANGED <<kind, messages, due, met, listVars, sessionVars>>

-----------------------------------------------------------------------------
(* Callbacks come from sp_session_process_events, in the main loop.        *)
MainIdle == pc["main"] = "idle" /\ running /\ ~bad

(* libspotify: the result of a request arrives, to be called back for.     *)
ObjectLoads(r) ==
    /\ ~bad
    /\ obj[r] = "pending"
    /\ obj' = [obj EXCEPT ![r] = "loaded"]
    /\ due' = due \union {r}
    /\ UNCHANGED <<threadVars, kind, reply, messages, met, listVars, sessionVars, bad>>

(* libspotify calls the completion of a request on the main thread.        *)
Complete(r) ==
    /\ MainIdle
    /\ r \in due /\ obj[r] = "loaded"
    /\ due' = due \ {r}
    /\ pc' = [pc EXCEPT !["main"] = "feedback"]
    /\ cur' = [cur EXCEPT !["main"] = r]
    /\ met' = (met \/ \E n \in Nifs : cur[n] = r)
    /\ UNCHANGED <<kind, reply, messages, obj, listVars, sessionVars, bad>>

AlbumComplete(r)  == kind[r] = "album"  /\ Complete(r)
ArtistComplete(r) == kind[r] = "artist" /\ Complete(r)
ImageComplete(r)  == kind[r] = "image"  /\ Complete(r)
SearchComplete(r) == kind[r] = "search" /\ Complete(r)

-----------------------------------------------------------------------------
(* load_container: container_loaded is registered with a fresh block.      *)
load_container(r) ==
    /\ data' = [data EXCEPT ![r] = "live"]
    /\ watched' = watched \union {r}

(* libspotify has no container for the user, or gives one.                 *)
LoadUserPlaylistContainer(n, r) ==
    /\ Call(n, r, "container")
    /\ \/ Return(r, "error") /\ UNCHANGED <<data, watched>>
       \/ Return(r, "ok") /\ load_container(r)
    /\ UNCHANGED <<threadVars, messages, browseVars, plwatch, pl_loaded, pl_due, batched,
                   sessionVars, bad>>

(* logged_in, a callback, loads the container of the user who logs in.     *)
LoggedIn(r) ==
    /\ MainIdle
    /\ kind[r] = "none"
    /\ kind' = [kind EXCEPT ![r] = "login"]
    /\ Return(r, "ok") /\ load_container(r)
    /\ UNCHANGED <<threadVars, messages, browseVars, plwatch, pl_loaded, pl_due, batched,
                   sessionVars, bad>>

AllLoaded(r) == PlaylistsOf[r] \subseteq pl_loaded

(* Mutant: the block is freed whatever is loaded.                          *)
FinishAlways(r) ==
    /\ IF AllLoaded(r) THEN Feedback(r) ELSE UNCHANGED messages
    /\ data' = [data EXCEPT ![r] = "freed"]

(* The last callback of a request: the message, and the block is freed.    *)
Finish(r) ==
    IF AllLoaded(r)
    THEN Feedback(r) /\ data' = [data EXCEPT ![r] = "freed"]
    ELSE UNCHANGED <<messages, data>>

(* The container is loaded: watch its playlists that are not.              *)
ContainerLoaded(r) ==
    /\ MainIdle
    /\ r \in watched
    /\ watched' = watched \ {r}
    /\ plwatch' = plwatch \union ({r} \X (PlaylistsOf[r] \ pl_loaded))
    /\ Finish(r)
    /\ UNCHANGED <<threadVars, kind, reply, browseVars, pl_loaded, pl_due, batched,
                   sessionVars, bad>>

(* libspotify: a playlist loads, to be called back for by each request     *)
(* that watches it.                                                        *)
PlaylistLoads(p) ==
    /\ ~bad
    /\ p \notin pl_loaded
    /\ pl_loaded' = pl_loaded \union {p}
    /\ pl_due' = pl_due \union {w \in plwatch : w[2] = p}
    /\ batched' = (batched \/ \E w \in plwatch, v \in pl_due : w[2] = p /\ v[1] = w[1])
    /\ UNCHANGED <<threadVars, kind, reply, messages, browseVars, data, watched, plwatch,
                   sessionVars, bad>>

(* A playlist that was watched is loaded: stop watching it, and look at    *)
(* all playlists of the container, which the block of the request names.   *)
PlPcStateChange(r, p) ==
    /\ MainIdle
    /\ <<r, p>> \in pl_due
    /\ pl_due' = pl_due \ {<<r, p>>}
    /\ plwatch' = plwatch \ {<<r, p>>}
    /\ bad' = (data[r] = "freed")
    /\ Finish(r)
    /\ UNCHANGED <<threadVars, kind, reply, browseVars, watched, pl_loaded, batched,
                   sessionVars>>

-----------------------------------------------------------------------------
(* spotifyctl_run ends and clears async_state, and nothing else of what is *)
(* in Requests: objects, blocks and registrations stay.  Logged out,       *)
(* libspotify may forget that it wanted to call back.                      *)
SessionEnds ==
    /\ MainIdle
    /\ running' = FALSE
    /\ due' \in SUBSET due
    /\ pl_due' \in SUBSET pl_due
    /\ late' = (late \/ \E n \in Nifs : pc[n] # "idle")
    /\ UNCHANGED <<threadVars, kind, reply, messages, obj, met, data, watched, plwatch,
                   pl_loaded, batched, bad>>

(* The spotifyctl_run of the next session.                                 *)
SessionBegins ==
    /\ ~running /\ ~bad
    /\ running' = TRUE
    /\ UNCHANGED <<threadVars, kind, reply, messages, browseVars, listVars, late, bad>>

-----------------------------------------------------------------------------
Request(n, r) ==
    \/ BrowseAlbum(n, r) \/ BrowseArtist(n, r) \/ LoadImage(n, r) \/ Search(n, r)
    \/ LoadUserPlaylistContainer(n, r) \/ LoadPlaylistContainer(n, r) \/ Debug(n, r)

ThreadStep(t) == Look(t) \/ SendResult(t) \/ Release(t)

Callback(r) ==
    \/ AlbumComplete(r) \/ ArtistComplete(r) \/ ImageComplete(r) \/ SearchComplete(r)
    \/ \E p \in Playlists : PlPcStateChange(r, p)

Next ==
    \/ \E n \in Nifs, r \in Requests : Request(n, r)
    \/ \E t \in Threads : ThreadStep(t)
    \/ \E r \in Requests : Callback(r) \/ LoggedIn(r) \/ ContainerLoaded(r) \/ ObjectLoads(r)
    \/ \E p \in Playlists : PlaylistLoads(p)
    \/ SessionEnds \/ SessionBegins

Spec == Init /\ [][Next]_vars

(* The threads run on, and the main thread makes the callbacks that are    *)
(* due.                                                                    *)
FairSpec ==
    /\ Spec
    /\ \A t \in Threads : WF_vars(ThreadStep(t))
    /\ WF_vars(\E r \in Requests : Callback(r))

-----------------------------------------------------------------------------
(* The type of every variable; a thread works on a request when it is not  *)
(* idle, and only the main thread and browse_album have such steps.        *)
TypeOK ==
    /\ pc \in [Threads -> {"idle", "look", "feedback", "release"}]
    /\ cur \in [Threads -> Requests \union {NULL}]
    /\ \A t \in Threads : pc[t] = "idle" <=> cur[t] = NULL
    /\ \A n \in Nifs : cur[n] # NULL => kind[cur[n]] = "album" /\ reply[cur[n]] = "called"
    /\ pc["main"] # "look"
    /\ kind \in [Requests -> Kinds \union {"none"}]
    /\ reply \in [Requests -> {"none", "called", "ok", "error"}]
    /\ messages \in [Requests -> Nat]
    /\ obj \in [Requests -> {"none", "pending", "loaded", "released"}]
    /\ due \subseteq Requests
    /\ data \in [Requests -> {"none", "live", "freed"}]
    /\ watched \subseteq Requests
    /\ plwatch \subseteq Requests \X Playlists
    /\ pl_loaded \subseteq Playlists
    /\ pl_due \subseteq plwatch
    /\ running \in BOOLEAN /\ bad \in BOOLEAN
    /\ met \in BOOLEAN /\ batched \in BOOLEAN /\ late \in BOOLEAN

(* The requests whose message is out and whose object is to be released.   *)
Releasing == {cur[t] : t \in {u \in Threads : pc[u] = "release"}}

(* Nothing has happened that the code is not made for.                     *)
Orderly == ~met /\ ~batched /\ ~late

(* Unless a callback has come during its browse_album, playlists have      *)
(* loaded together or browse_album has run without a session, a reference  *)
(* is returned in one message exactly if the request has given back what   *)
(* it held of libspotify or of the heap: nothing is answered twice, in one *)
(* session or two, given back unanswered or, once answered, kept; a        *)
(* request that failed has neither.                                        *)
AnsweredOnceReleased ==
    Orderly =>
        \A r \in Requests :
            LET over == obj[r] = "released" \/ r \in Releasing \/ data[r] = "freed"
                           \/ (kind[r] = "debug" /\ reply[r] = "ok")
            IN  /\ messages[r] = IF over THEN 1 ELSE 0
                /\ reply[r] = "error" => ~over /\ obj[r] = "none" /\ data[r] = "none"

(* Until then each call is a request of RequestTable.tla: it is refused,   *)
(* and never answered, or it is answered in at most one message, by the    *)
(* NIF or by a callback, in this session or a later one, or never.         *)
TableState(r) ==
    CASE kind[r] = "none"                              -> "free"
      [] reply[r] = "error" /\ messages[r] = 0         -> "refused"
      [] reply[r] \in {"called", "ok"} /\ messages[r] = 0 -> "open"
      [] reply[r] \in {"called", "ok"} /\ messages[r] = 1 -> "answered"
      [] OTHER                                         -> "wrong"

Table == INSTANCE RequestTable
         WITH state <- [r \in Requests |-> TableState(r)],
              void <- IF Orderly THEN {} ELSE Requests

TableSpec == Table!Spec

(* Unless they have, nothing that is released or freed is used, and no     *)
(* message is sent without async_state.                                    *)
NoUseAfterRelease == Orderly => ~bad

(* In a session that goes on, a request is answered when it can be: an     *)
(* album that is loaded, whether libspotify calls back for it or not; any  *)
(* other object that libspotify calls back for; and a container that has   *)
(* been loaded, once each of its playlists has.                            *)
Answerable(r) ==
    \/ kind[r] = "album" /\ obj[r] = "loaded"
    \/ r \in due
    \/ data[r] = "live" /\ r \notin watched /\ AllLoaded(r)

RequestAnswered ==
    \A r \in Requests : [](running /\ ~bad) => (Answerable(r) ~> messages[r] > 0)
==============================================================================
