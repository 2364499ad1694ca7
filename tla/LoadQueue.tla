------------------------------- MODULE LoadQueue -------------------------------
(***************************************************************************)
(* The load queue of spotifyctl.c, which track_info and load_playlist use  *)
(* to wait for metadata: load_queue_add, load_queue_check, and the         *)
(* callbacks metadata_updated and pl_state_change that drive it, and the   *)
(* clean-up at the end of spotifyctl_run, after which a new session may    *)
(* start.                                                                  *)
(*                                                                         *)
(* The list has no lock.  NIF threads add to it while the main thread      *)
(* walks it, so every store to load_queue_head, load_queue_tail or next is *)
(* a step, and so is every load that a later store does not depend on; the *)
(* load that gives a store its address or value is taken with it (Link,    *)
(* Unlink, FreeCell): two stores through one old pointer come of two Links *)
(* before a SetTail just as well.  A cell is freed before load_queue_check reads its next      *)
(* field and may stay the target of load_queue_tail: the field keeps its   *)
(* last value, as it does with glibc, whose free writes only the first two *)
(* words of a block, while no other allocation takes the block.            *)
(***************************************************************************)
EXTENDS Integers, Sequences, FiniteSets

CONSTANTS
    Nifs,          (* scheduler threads that make requests                 *)
    Requests,      (* calls of track_info and load_playlist                *)
    Playlists,     (* the calls of load_playlist among them                *)
    Tracks,
    TracksOf,      (* the tracks of each request: one for track_info       *)
    PlayerTracks,  (* tracks that player_load may be waiting for           *)
    NULL

ASSUME LoadQueueAssumption ==
    /\ Playlists \subseteq Requests
    /\ TracksOf \in [Requests -> Seq(Tracks)]
    /\ \A r \in Requests : TracksOf[r] # <<>>
    /\ \A r \in Requests \ Playlists : Len(TracksOf[r]) = 1
    /\ PlayerTracks \subseteq Tracks
    /\ "main" \notin Nifs /\ NULL \notin Tracks

Threads == Nifs \union {"main"}

(* A malloc'ed spotifyctl_load_queue: the k-th track of a request, queued  *)
(* by the NIF itself or by the callback on the main thread.                *)
Cells == UNION {{r} \X (DOMAIN TracksOf[r]) \X {"nif", "main"} : r \in Requests}

TrackOf(c) == TracksOf[c[1]][c[2]]

ASSUME NullAssumption == NULL \notin Cells

VARIABLES
    head,       (* g_state.load_queue_head                                 *)
    tail,       (* g_state.load_queue_tail                                 *)
    next,       (* the next field of each cell, freed or not               *)
    alive,      (* the cells that are allocated                            *)
    pc,         (* where each thread is in load_queue_add                  *)
    item,       (* the cell it is adding; at "look", a cell of the         *)
                (* playlist it looks at                                    *)
    todo,       (* the cells it has to add after that one                  *)
    mpc,        (* where the main thread is in load_queue_check or in the  *)
                (* clean-up; "ended": no session runs                      *)
    q, prevq,   (* its local variables                                     *)
    loaded,     (* the tracks for which sp_track_is_loaded                 *)
    plstate,    (* each playlist request: "none", "watched" by a callback, *)
                (* "done"; and whether sp_playlist_is_loaded               *)
    pl_loaded,
    updated,    (* metadata_updated is due                                 *)
    player_load_track,
    made,       (* the requests made                                       *)
    replies,    (* how often each request's reference has been returned    *)
    crashed,    (* NULL has been dereferenced                              *)
    overlapped, (* auxiliary: a NIF or a callback has begun before another *)
                (* one that uses the list had ended, or without a session  *)
    batched     (* auxiliary: load_queue_check has begun with two tracks   *)
                (* loaded that one playlist request was waiting for        *)

listVars == <<head, tail, next, alive>>
addVars  == <<pc, item, todo>>
walkVars == <<mpc, q, prevq>>
spVars   == <<loaded, pl_loaded, updated, player_load_track>>
reqVars  == <<made, plstate, replies>>
ghostVars == <<overlapped, batched>>
vars == <<listVars, addVars, walkVars, spVars, reqVars, crashed, ghostVars>>

Init ==
    /\ head = NULL /\ tail = NULL
    /\ next = [c \in Cells |-> NULL]
    /\ alive = {}
    /\ pc = [t \in Threads |-> "idle"]
    /\ item = [t \in Threads |-> NULL]
    /\ todo = [t \in Threads |-> {}]
    /\ mpc = "idle" /\ q = NULL /\ prevq = NULL
    /\ loaded \in SUBSET Tracks
    /\ pl_loaded \in SUBSET Playlists
    /\ updated = FALSE
    /\ player_load_track = NULL
    /\ made = {}
    /\ plstate = [r \in Playlists |-> "none"]
    /\ replies = [r \in Requests |-> 0]
    /\ crashed = FALSE
    /\ overlapped = FALSE /\ batched = FALSE

MainIdle == mpc = "idle" /\ pc["main"] = "idle"
Quiet    == MainIdle /\ \A t \in Nifs : pc[t] = "idle"

(* Thread t enters the library, or the main thread a callback.             *)
Enter(t) ==
    /\ ~crashed
    /\ pc[t] = "idle"
    /\ t = "main" => mpc = "idle"
    /\ overlapped' = (overlapped \/ ~Quiet)

-----------------------------------------------------------------------------
(* Thread t has these cells to add, or none.                               *)
StartAdd(t, cells) ==
    /\ item' = [item EXCEPT ![t] = NULL]
    /\ todo' = [todo EXCEPT ![t] = cells]
    /\ pc' = [pc EXCEPT ![t] = IF cells = {} THEN "idle" ELSE "add"]

(* g_state.async_state, which the clean-up clears first.                   *)
HasQueue == mpc \notin {"clean", "forget", "ended"}

(* The request is answered through the feedback queue.                     *)
Reply(r) ==
    /\ IF HasQueue THEN replies' = [replies EXCEPT ![r] = @ + 1] ELSE UNCHANGED replies
    /\ crashed' = ~HasQueue

(* spotifyctl_track_info: reply at once if the track is loaded.            *)
TrackInfo(t, r) ==
    /\ Enter(t)
    /\ r \notin made
    /\ made' = made \union {r}
    /\ IF TracksOf[r][1] \in loaded
       THEN Reply(r) /\ UNCHANGED addVars
       ELSE StartAdd(t, {<<r, 1, "nif">>}) /\ UNCHANGED <<replies, crashed>>
    /\ UNCHANGED <<listVars, walkVars, spVars, plstate, batched>>

(* spotifyctl_load_playlist: watch the playlist ...                        *)
LoadPlaylist(t, r) ==
    /\ Enter(t)
    /\ r \notin made
    /\ made' = made \union {r}
    /\ plstate' = [plstate EXCEPT ![r] = "watched"]
    /\ pc' = [pc EXCEPT ![t] = "look"]
    /\ item' = [item EXCEPT ![t] = <<r, 1, "nif">>]
    /\ UNCHANGED <<todo, listVars, walkVars, spVars, replies, crashed, batched>>

(* Mutant: the tracks themselves are queued.                               *)
MissingTracks(r, w) ==
    {t \in Tracks \ loaded : \E k \in DOMAIN TracksOf[r] : TracksOf[r][k] = t}

(* The tracks of a playlist that pl_state_change has to wait for.          *)
Missing(r, w) ==
    {c \in Cells : c[1] = r /\ c[3] = w /\ TrackOf(c) \notin loaded}

(* pl_state_change for a loaded playlist, on thread t: stop watching, add  *)
(* the missing tracks, or reply if there are none.  The tracks are looked  *)
(* at together, though libspotify may load one while the loop looks at the *)
(* next: it is then queued, as one that loads soon after it.               *)
PlStateChange(t, r, w) ==
    /\ plstate' = [plstate EXCEPT ![r] = "done"]
    /\ StartAdd(t, Missing(r, w))
    /\ IF Missing(r, w) = {} THEN Reply(r) ELSE UNCHANGED <<replies, crashed>>

(* ... and call pl_state_change itself if it is loaded already, even when  *)
(* the callback has come in between.                                       *)
LookAtPlaylist(t) ==
    /\ pc[t] = "look" /\ ~crashed
    /\ LET r == item[t][1] IN
       IF r \in pl_loaded
       THEN PlStateChange(t, r, "nif")
       ELSE StartAdd(t, {}) /\ UNCHANGED <<plstate, replies, crashed>>
    /\ UNCHANGED <<listVars, walkVars, spVars, made, ghostVars>>

(* The playlist_state_changed callback on the main thread.                 *)
PlaylistLoaded(r) ==
    /\ Enter("main")
    /\ r \in pl_loaded
    /\ plstate[r] = "watched"
    /\ PlStateChange("main", r, "main")
    /\ UNCHANGED <<listVars, walkVars, spVars, made, batched>>

-----------------------------------------------------------------------------
(* load_queue_add, for the tracks in their order: allocate a cell and look *)
(* at load_queue_head ...                                                  *)
AddCell(t) ==
    /\ pc[t] = "add" /\ ~crashed
    /\ \E c \in todo[t] :
         /\ \A d \in todo[t] : c[2] <= d[2]
         /\ item' = [item EXCEPT ![t] = c]
         /\ todo' = [todo EXCEPT ![t] = @ \ {c}]
         /\ alive' = alive \union {c}
         /\ next' = [next EXCEPT ![c] = NULL]
    /\ pc' = [pc EXCEPT ![t] = IF head = NULL THEN "sethead" ELSE "link"]
    /\ UNCHANGED <<head, tail, walkVars, spVars, reqVars, crashed, ghostVars>>

(* ... an empty queue: set load_queue_head ...                             *)
SetHead(t) ==
    /\ pc[t] = "sethead" /\ ~crashed
    /\ head' = item[t]
    /\ pc' = [pc EXCEPT ![t] = "settail"]
    /\ UNCHANGED <<tail, next, alive, item, todo, walkVars, spVars, reqVars, crashed, ghostVars>>

(* ... otherwise link the cell behind load_queue_tail ...                  *)
Link(t) ==
    /\ pc[t] = "link" /\ ~crashed
    /\ IF tail = NULL THEN crashed' = TRUE /\ UNCHANGED next
                      ELSE next' = [next EXCEPT ![tail] = item[t]] /\ UNCHANGED crashed
    /\ pc' = [pc EXCEPT ![t] = "settail"]
    /\ UNCHANGED <<head, tail, alive, item, todo, walkVars, spVars, reqVars, ghostVars>>

(* ... and set load_queue_tail.                                            *)
SetTail(t) ==
    /\ pc[t] = "settail" /\ ~crashed
    /\ tail' = item[t]
    /\ StartAdd(t, todo[t])
    /\ UNCHANGED <<head, next, alive, walkVars, spVars, reqVars, crashed, ghostVars>>

-----------------------------------------------------------------------------
(* libspotify, on the main thread: metadata arrives ...                    *)
TracksLoad(new) ==
    /\ MainIdle /\ ~crashed
    /\ new # {}
    /\ loaded' = loaded \union new
    /\ updated' = TRUE
    /\ UNCHANGED <<listVars, addVars, walkVars, pl_loaded, player_load_track, reqVars, crashed, ghostVars>>

PlaylistLoads(r) ==
    /\ MainIdle /\ ~crashed
    /\ r \notin pl_loaded
    /\ pl_loaded' = pl_loaded \union {r}
    /\ UNCHANGED <<listVars, addVars, walkVars, loaded, updated, player_load_track, reqVars, crashed, ghostVars>>

(* ... and player_load waits for a track (handle_cmd_player_load).         *)
PlayerLoad(t) ==
    /\ MainIdle /\ ~crashed
    /\ player_load_track = NULL
    /\ t \notin loaded
    /\ player_load_track' = t
    /\ UNCHANGED <<listVars, addVars, walkVars, loaded, pl_loaded, updated, reqVars, crashed, ghostVars>>

(* metadata_updated for the player's track: it returns before the queue is *)
(* checked.                                                                *)
MetadataForPlayer ==
    /\ Enter("main") /\ updated
    /\ player_load_track \in loaded
    /\ updated' = FALSE
    /\ player_load_track' = NULL
    /\ UNCHANGED <<listVars, addVars, walkVars, loaded, pl_loaded, reqVars, crashed, batched>>

(* The cells of playlists whose tracks have loaded.                        *)
Due == {c \in alive : c[1] \in Playlists /\ TrackOf(c) \in loaded}

(* metadata_updated otherwise: load_queue_check.                           *)
MetadataUpdated ==
    /\ Enter("main") /\ updated
    /\ player_load_track \notin loaded
    /\ updated' = FALSE
    /\ mpc' = "walk"
    /\ q' = head /\ prevq' = NULL
    /\ batched' = (batched \/ \E c, d \in Due : c # d /\ c[1] = d[1])
    /\ UNCHANGED <<listVars, addVars, loaded, pl_loaded, player_load_track, reqVars, crashed>>

(* load_queue_check: the end of the list ...                               *)
WalkEnd ==
    /\ mpc = "walk" /\ ~crashed
    /\ q = NULL
    /\ mpc' = "idle" /\ prevq' = NULL
    /\ UNCHANGED <<listVars, addVars, q, spVars, reqVars, crashed, ghostVars>>

(* ... a track that is not loaded yet ...                                  *)
WalkPast ==
    /\ mpc = "walk" /\ ~crashed
    /\ q # NULL /\ TrackOf(q) \notin loaded
    /\ prevq' = q
    /\ q' = next[q]
    /\ UNCHANGED <<listVars, addVars, mpc, spVars, reqVars, crashed, ghostVars>>

(* ... a loaded one: unlink its cell, and never mind load_queue_tail ...   *)
Unlink ==
    /\ mpc = "walk" /\ ~crashed
    /\ q # NULL /\ TrackOf(q) \in loaded
    /\ IF prevq # NULL THEN next' = [next EXCEPT ![prevq] = next[q]] /\ UNCHANGED head
                       ELSE head' = next[q] /\ UNCHANGED next
    /\ mpc' = "reply"
    /\ UNCHANGED <<tail, alive, addVars, q, prevq, spVars, reqVars, crashed, ghostVars>>

(* Mutant: a playlist is answered with each of its tracks.                 *)
ReplyToEach ==
    /\ mpc = "reply" /\ ~crashed
    /\ Reply(q[1])
    /\ alive' = alive \ {q}
    /\ mpc' = "advance"
    /\ UNCHANGED <<head, tail, next, addVars, q, prevq, spVars, made, plstate, ghostVars>>

(* ... reply, for a playlist when all its tracks are loaded, free the cell *)
(* and read the next one from it.                                          *)
ReplyAndFree ==
    /\ mpc = "reply" /\ ~crashed
    /\ IF q[1] \in Playlists => \A k \in DOMAIN TracksOf[q[1]] : TracksOf[q[1]][k] \in loaded
       THEN Reply(q[1])
       ELSE UNCHANGED <<replies, crashed>>
    /\ alive' = alive \ {q}
    /\ mpc' = "advance"
    /\ UNCHANGED <<head, tail, next, addVars, q, prevq, spVars, made, plstate, ghostVars>>

(* Mutant: the walk ends after the first loaded track.                     *)
AdvanceStops ==
    /\ mpc = "advance" /\ ~crashed
    /\ q' = NULL
    /\ mpc' = "walk"
    /\ UNCHANGED <<listVars, addVars, prevq, spVars, reqVars, crashed, ghostVars>>

Advance ==
    /\ mpc = "advance" /\ ~crashed
    /\ q' = next[q]
    /\ mpc' = "walk"
    /\ UNCHANGED <<listVars, addVars, prevq, spVars, reqVars, crashed, ghostVars>>

-----------------------------------------------------------------------------
(* The main loop has ended: clear async_state and player_load_track and go *)
(* to the first cell ...                                                   *)
RunEnd ==
    /\ MainIdle /\ ~crashed
    /\ player_load_track' = NULL
    /\ q' = head
    /\ mpc' = "clean"
    /\ overlapped' = (overlapped \/ ~Quiet)
    /\ UNCHANGED <<listVars, addVars, prevq, loaded, pl_loaded, updated, reqVars, crashed, batched>>

(* ... free each cell after its next field has been read ...               *)
FreeCell ==
    /\ mpc = "clean" /\ ~crashed
    /\ q # NULL
    /\ alive' = alive \ {q}
    /\ q' = next[q]
    /\ UNCHANGED <<head, tail, next, addVars, mpc, prevq, spVars, reqVars, crashed, ghostVars>>

(* Mutant: load_queue_head still points to the freed cells.                *)
HeadKept ==
    /\ mpc = "clean" /\ ~crashed
    /\ q = NULL
    /\ mpc' = "forget"
    /\ UNCHANGED <<listVars, addVars, q, prevq, spVars, reqVars, crashed, ghostVars>>

(* ... reset load_queue_head ...                                           *)
ForgetHead ==
    /\ mpc = "clean" /\ ~crashed
    /\ q = NULL
    /\ head' = NULL
    /\ mpc' = "forget"
    /\ UNCHANGED <<tail, next, alive, addVars, q, prevq, spVars, reqVars, crashed, ghostVars>>

(* ... and load_queue_tail.                                                *)
ForgetTail ==
    /\ mpc = "forget" /\ ~crashed
    /\ tail' = NULL
    /\ mpc' = "ended"
    /\ UNCHANGED <<head, next, alive, addVars, q, prevq, spVars, reqVars, crashed, ghostVars>>

(* spotifyctl_run of the next session.                                     *)
RunBegin ==
    /\ mpc = "ended" /\ ~crashed
    /\ mpc' = "idle"
    /\ UNCHANGED <<listVars, addVars, q, prevq, spVars, reqVars, crashed, ghostVars>>

-----------------------------------------------------------------------------
AddStep(t) == LookAtPlaylist(t) \/ AddCell(t) \/ SetHead(t) \/ Link(t) \/ SetTail(t)

MainStep ==
    \/ AddStep("main")
    \/ MetadataForPlayer \/ MetadataUpdated
    \/ WalkEnd \/ WalkPast \/ Unlink \/ ReplyAndFree \/ Advance
    \/ FreeCell \/ ForgetHead \/ ForgetTail
    \/ \E r \in Playlists : PlaylistLoaded(r)

Next ==
    \/ \E t \in Nifs, r \in Requests \ Playlists : TrackInfo(t, r)
    \/ \E t \in Nifs, r \in Playlists : LoadPlaylist(t, r)
    \/ \E t \in Nifs : AddStep(t)
    \/ \E new \in SUBSET (Tracks \ loaded) : TracksLoad(new)
    \/ \E r \in Playlists : PlaylistLoads(r)
    \/ \E t \in PlayerTracks : PlayerLoad(t)
    \/ MainStep
    \/ RunEnd \/ RunBegin

Spec == Init /\ [][Next]_vars

(* The main thread and a NIF that has been entered run on.                 *)
FairSpec == Spec /\ WF_vars(MainStep) /\ \A t \in Nifs : WF_vars(AddStep(t))

-----------------------------------------------------------------------------
(* The type of every variable.                                             *)
TypeOK ==
    /\ head \in Cells \union {NULL} /\ tail \in Cells \union {NULL}
    /\ next \in [Cells -> Cells \union {NULL}]
    /\ alive \subseteq Cells
    /\ pc \in [Threads -> {"idle", "look", "add", "sethead", "link", "settail"}]
    /\ item \in [Threads -> Cells \union {NULL}]
    /\ todo \in [Threads -> SUBSET Cells]
    /\ mpc \in {"idle", "walk", "reply", "advance", "clean", "forget", "ended"}
    /\ q \in Cells \union {NULL} /\ prevq \in Cells \union {NULL}
    /\ loaded \subseteq Tracks
    /\ pl_loaded \subseteq Playlists
    /\ updated \in BOOLEAN
    /\ player_load_track \in Tracks \union {NULL}
    /\ made \subseteq Requests
    /\ plstate \in [Playlists -> {"none", "watched", "done"}]
    /\ replies \in [Requests -> Nat]
    /\ crashed \in BOOLEAN
    /\ overlapped \in BOOLEAN /\ batched \in BOOLEAN

(* The cells a walk from load_queue_head would visit.                      *)
Reach ==
    LET upto[n \in 0 .. Cardinality(Cells)] ==
            IF n = 0 THEN {head} \ {NULL}
            ELSE upto[n - 1] \union ({next[c] : c \in upto[n - 1]} \ {NULL})
    IN  upto[Cardinality(Cells)]

(* The requests are those of RequestTable.tla: each is answered at most    *)
(* once, after it has been made, whatever sessions end meanwhile, because  *)
(* async_return_ref frees its reference.  For track_info this holds in     *)
(* every interleaving; for load_playlist until calls and callbacks overlap *)
(* or load_queue_check finds two loaded tracks of one playlist.            *)
TableState(r) ==
    CASE r \notin made                   -> "free"
      [] r \in made /\ replies[r] = 0    -> "open"
      [] r \in made /\ replies[r] = 1    -> "answered"
      [] r \in made /\ replies[r] > 1    -> "wrong"

Table == INSTANCE RequestTable
         WITH state <- [r \in Requests |-> TableState(r)],
              void <- IF overlapped \/ batched THEN Playlists ELSE {}

TableSpec == Table!Spec

(* Neither load_queue_check nor the clean-up frees a cell twice.           *)
NoDoubleFree == mpc = "reply" \/ (mpc = "clean" /\ q # NULL) => q \in alive

(* The cells of S, which load_queue_head points into, point to each other, *)
(* each to a different one and none to the first.                          *)
IsList(S) ==
    /\ head \in S \union {NULL}
    /\ \A c \in S : next[c] \in (S \ {head}) \union {NULL}
    /\ \A c, d \in S : next[c] = next[d] /\ next[c] # NULL => c = d

(* In every interleaving, the list from load_queue_head holds allocated    *)
(* cells only, each once, but for the clean-up: neither the freed cell     *)
(* that load_queue_tail may still point to, nor one of an earlier session, *)
(* gets back into it; and no cell is freed twice.  Until calls and         *)
(* callbacks overlap or come when no session runs, no NULL is used.        *)
ListAlive ==
    /\ mpc # "clean" => \E S \in SUBSET alive : IsList(S)
    /\ NoDoubleFree
    /\ ~overlapped => ~crashed

(* If player_load waits for nothing, a track_info request whose cell is in *)
(* the list is answered once its track is loaded, in each session that     *)
(* goes on, until calls and callbacks overlap.                             *)
QueuedIsAnswered ==
    LET served == ~overlapped /\ HasQueue
        due(r) == <<r, 1, "nif">> \in Reach /\ TracksOf[r][1] \in loaded
    IN  \A r \in Requests \ Playlists :
            [](player_load_track = NULL) =>
                ((served /\ due(r)) ~> (replies[r] > 0 \/ ~served))

(* test/espotify_api_browse_SUITE.erl:42-49: four calls of track_info are  *)
(* followed by four callbacks.  If calls and callbacks do not overlap and  *)
(* the session goes on, every request is answered once its tracks and its  *)
(* playlist are loaded.                                                    *)
Answerable(r) ==
    /\ r \in made
    /\ \A k \in DOMAIN TracksOf[r] : TracksOf[r][k] \in loaded
    /\ r \in Playlists => r \in pl_loaded

AllAnswered ==
    \A r \in Requests : [](~overlapped /\ HasQueue) => (Answerable(r) ~> replies[r] > 0)

(* test/espotify_api_playlist_SUITE.erl:46-47: a second load_playlist gets *)
(* its own reference in the next load_playlist message; every request is   *)
(* answered at most once, if calls and callbacks do not overlap.           *)
RepliedOnce == ~overlapped => \A r \in Requests : replies[r] <= 1
==============================================================================
