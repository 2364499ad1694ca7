--------------------------------- MODULE Player ---------------------------------
(***************************************************************************)
(* The track in the player: handle_cmd_player_load, the other player       *)
(* commands, and the callbacks metadata_updated, end_of_track and          *)
(* play_token_lost of spotifyctl.c, with the two NIFs that touch           *)
(* current_track from their own thread: player_current_track and stop.     *)
(*                                                                         *)
(* current_track has no lock.  The main thread runs commands and callbacks *)
(* one at a time, in the steps that other threads can see.  How a command  *)
(* gets to the main thread is in MainLoop: here they take turns.           *)
(***************************************************************************)
EXTENDS Integers

CONSTANTS
    Nifs,      (* scheduler threads                                        *)
    Tracks,
    MaxRefs,   (* bound on the references of a track: player_load leaks    *)
    NULL

ASSUME PlayerAssumption ==
    /\ MaxRefs \in Nat \ {0}
    /\ NULL \notin Tracks /\ NULL \notin Nifs /\ "main" \notin Nifs

Thread == Nifs \union {"main"}

VARIABLES
    current_track, player_load_track,   (* g_state                         *)
    refs,       (* references to each track that the library holds         *)
    loaded,     (* the tracks for which sp_track_is_loaded                 *)
    player,     (* libspotify: the track in the player                     *)
    cmd,        (* the command under way, its argument and its caller      *)
    pc,         (* where each thread is                                    *)
    track,      (* the local variable of handle_cmd_player_load            *)
    started,    (* priv->session is set                                    *)
    exited,     (* the main thread has returned                            *)
    crashed,    (* the virtual machine is gone                             *)
    owed,       (* auxiliary: the tracks that player_load has answered     *)
                (* loading for and no player_load message has brought ...  *)
    bad,        (* ... NULL or a released track has been given away ...    *)
    raced       (* ... a thread has begun a command, a callback, stop or   *)
                (* player_current_track while another was at one: they may *)
                (* have used current_track at once                         *)

trackVars == <<current_track, player_load_track, refs, player>>
runVars   == <<started, exited, crashed>>
auxVars   == <<owed, bad, raced>>
vars == <<trackVars, loaded, cmd, pc, track, runVars, auxVars>>

NoCmd == [op |-> "none", arg |-> NULL, by |-> NULL]

Init ==
    /\ current_track = NULL /\ player_load_track = NULL
    /\ refs = [t \in Tracks |-> 0]
    /\ loaded \in SUBSET Tracks
    /\ player = NULL
    /\ cmd = NoCmd
    /\ pc = [n \in Thread |-> "idle"]
    /\ track = NULL
    /\ started = TRUE /\ exited = FALSE /\ crashed = FALSE
    /\ owed = {} /\ bad = FALSE /\ raced = FALSE

Goto(n, l) == pc' = [pc EXCEPT ![n] = l]

(* Thread n starts to use current_track.                                   *)
Enter(n) ==
    /\ pc[n] = "idle"
    /\ raced' = (raced \/ \E o \in Thread : pc[o] \notin {"idle", "waiting"})

MainEnter == Enter("main") /\ ~exited

Holds(t)  == t \in Tracks /\ refs[t] > 0
Retain(t) == refs' = [refs EXCEPT ![t] = @ + 1]

(* sp_track_release, of NULL or of a released track too.                   *)
Release(t) ==
    /\ refs' = IF Holds(t) THEN [refs EXCEPT ![t] = @ - 1] ELSE refs
    /\ bad' = (bad \/ ~Holds(t))

-----------------------------------------------------------------------------
(* espotify_player_load posts a command and waits; espotify_player_play,   *)
(* _seek and _unload look at current_track before they do, unlocked.  The  *)
(* look and the post are one step, as nothing of the command depends on    *)
(* it: the track may end, and the next one load, before the main thread    *)
(* carries the command out.                                                *)
CallLoad(n, t) ==
    /\ pc[n] = "idle" /\ started /\ ~exited
    /\ cmd = NoCmd
    /\ refs[t] < MaxRefs
    /\ cmd' = [op |-> "load", arg |-> t, by |-> n]
    /\ Goto(n, "waiting")
    /\ UNCHANGED <<trackVars, loaded, track, runVars, auxVars>>

(* Mutant: the argument is a flag.                                         *)
CallPlayerFlag(n, c) ==
    /\ pc[n] = "idle" /\ started /\ ~exited
    /\ cmd = NoCmd
    /\ current_track # NULL
    /\ cmd' = [op |-> c, arg |-> TRUE, by |-> n]
    /\ Goto(n, "waiting")
    /\ UNCHANGED <<trackVars, loaded, track, runVars, auxVars>>

CallPlayer(n, c) ==
    /\ pc[n] = "idle" /\ started /\ ~exited
    /\ cmd = NoCmd
    /\ current_track # NULL
    /\ cmd' = [op |-> c, arg |-> NULL, by |-> n]
    /\ Goto(n, "waiting")
    /\ UNCHANGED <<trackVars, loaded, track, runVars, auxVars>>

(* The main thread is done with the command, and its caller goes on.       *)
Answer ==
    /\ cmd' = NoCmd
    /\ pc' = [pc EXCEPT !["main"] = "idle", ![cmd.by] = "idle"]

(* handle_cmd_player_load: an error while a track is loading, or for a     *)
(* link that is no track ...                                               *)
LoadRefused ==
    /\ MainEnter /\ cmd.op = "load"
    /\ Answer
    /\ UNCHANGED <<trackVars, loaded, track, runVars, owed, bad>>

(* Mutant: the check for a track that is loading is missing.               *)
LoadReplaces ==
    /\ MainEnter /\ cmd.op = "load"
    /\ cmd.arg \notin loaded
    /\ Retain(cmd.arg)
    /\ player_load_track' = cmd.arg
    /\ owed' = owed \union {cmd.arg}
    /\ Answer
    /\ UNCHANGED <<current_track, player, loaded, track, runVars, bad>>

(* ... a track that is not loaded: keep it, and answer loading ...         *)
LoadLater ==
    /\ MainEnter /\ cmd.op = "load"
    /\ player_load_track = NULL
    /\ cmd.arg \notin loaded
    /\ Retain(cmd.arg)
    /\ player_load_track' = cmd.arg
    /\ owed' = owed \union {cmd.arg}
    /\ Answer
    /\ UNCHANGED <<current_track, player, loaded, track, runVars, bad>>

(* ... sp_session_player_load fails: strcpy to the NULL that               *)
(* *cmd_error_msg has been set to ...                                      *)
LoadFails ==
    /\ MainEnter /\ cmd.op = "load"
    /\ player_load_track = NULL
    /\ cmd.arg \in loaded
    /\ crashed' = TRUE
    /\ UNCHANGED <<trackVars, loaded, cmd, pc, track, started, exited, owed, bad>>

(* ... or succeeds ...                                                     *)
LoadNow ==
    /\ MainEnter /\ cmd.op = "load"
    /\ player_load_track = NULL
    /\ cmd.arg \in loaded
    /\ Retain(cmd.arg)
    /\ player' = cmd.arg
    /\ track' = cmd.arg
    /\ Goto("main", "setcurrent")
    /\ UNCHANGED <<current_track, player_load_track, loaded, cmd, runVars, owed, bad>>

(* ... and the track is current.  The one that was is not released.        *)
LoadDone ==
    /\ pc["main"] = "setcurrent"
    /\ player_load_track' = NULL
    /\ current_track' = track
    /\ track' = NULL
    /\ Answer
    /\ UNCHANGED <<refs, player, loaded, runVars, auxVars>>

(* CMD_PLAYER_PLAY, CMD_PLAYER_SEEK: the player changes nothing here.      *)
CmdPlaySeek ==
    /\ MainEnter /\ cmd.op = "play"
    /\ Answer
    /\ UNCHANGED <<trackVars, loaded, track, runVars, owed, bad>>

-----------------------------------------------------------------------------
(* _ensure_unload_track, for CMD_PLAYER_UNLOAD, end_of_track,              *)
(* play_token_lost or stop: is there a track ...                           *)
UnloadDone(n) ==
    IF n = "main" /\ cmd.op = "unloading" THEN Answer
    ELSE Goto(n, IF n = "main" THEN "idle" ELSE "joining") /\ UNCHANGED cmd

CmdUnload ==
    /\ MainEnter /\ cmd.op = "unload"
    /\ IF current_track # NULL
       THEN Goto("main", "unload") /\ cmd' = [cmd EXCEPT !.op = "unloading"]
       ELSE Answer
    /\ UNCHANGED <<trackVars, loaded, track, runVars, owed, bad>>

(* libspotify calls these while it plays.                                  *)
EndOfTrack ==
    /\ MainEnter
    /\ player # NULL
    /\ IF current_track # NULL THEN Goto("main", "unload") ELSE UNCHANGED pc
    /\ UNCHANGED <<trackVars, loaded, cmd, track, runVars, owed, bad>>

Stop(n) ==
    /\ Enter(n) /\ started
    /\ \A o \in Nifs : pc[o] \notin {"unload", "release", "forget", "joining"}
    /\ Goto(n, IF current_track # NULL THEN "unload" ELSE "joining")
    /\ UNCHANGED <<trackVars, loaded, cmd, track, runVars, owed, bad>>

(* Mutant: the player keeps the track.                                     *)
UnloadForgets(n) ==
    /\ pc[n] = "unload"
    /\ Goto(n, "release")
    /\ UNCHANGED <<trackVars, loaded, cmd, track, runVars, auxVars>>

(* ... unload it ...                                                       *)
Unload(n) ==
    /\ pc[n] = "unload"
    /\ player' = NULL
    /\ Goto(n, "release")
    /\ UNCHANGED <<current_track, player_load_track, refs, loaded, cmd, track, runVars, auxVars>>

(* ... release what is current now ...                                     *)
ReleaseCurrent(n) ==
    /\ pc[n] = "release"
    /\ Release(current_track)
    /\ Goto(n, "forget")
    /\ UNCHANGED <<current_track, player_load_track, player, loaded, cmd, track, runVars, owed, raced>>

(* Mutant: current_track keeps its value.                                  *)
ForgetNothing(n) ==
    /\ pc[n] = "forget"
    /\ UnloadDone(n)
    /\ UNCHANGED <<trackVars, loaded, track, runVars, auxVars>>

(* ... and forget it.                                                      *)
Forget(n) ==
    /\ pc[n] = "forget"
    /\ current_track' = NULL
    /\ UnloadDone(n)
    /\ UNCHANGED <<player_load_track, refs, player, loaded, track, runVars, auxVars>>

-----------------------------------------------------------------------------
(* A track's metadata arrives ...                                          *)
TrackLoads(t) ==
    /\ t \notin loaded
    /\ loaded' = loaded \union {t}
    /\ UNCHANGED <<trackVars, cmd, pc, track, runVars, auxVars>>

(* ... and metadata_updated is called: put the track into the player, and  *)
(* never mind whether that fails ...                                       *)
MetadataUpdated ==
    /\ MainEnter
    /\ player_load_track \in loaded
    /\ player' \in {player_load_track, player, NULL}
    /\ Goto("main", IF current_track # NULL THEN "mrelease" ELSE "mset")
    /\ UNCHANGED <<current_track, player_load_track, refs, loaded, cmd, track, runVars, owed, bad>>

(* ... release the one that was current ...                                *)
MetadataRelease ==
    /\ pc["main"] = "mrelease"
    /\ Release(current_track)
    /\ Goto("main", "mset")
    /\ UNCHANGED <<current_track, player_load_track, player, loaded, cmd, track, runVars, owed, raced>>

(* ... set the new one ...                                                 *)
MetadataSet ==
    /\ pc["main"] = "mset"
    /\ current_track' = player_load_track
    /\ player_load_track' = NULL
    /\ Goto("main", "mfeedback")
    /\ UNCHANGED <<refs, player, loaded, cmd, track, runVars, auxVars>>

(* ... and send player_load with what is current now.                      *)
MetadataFeedback ==
    /\ pc["main"] = "mfeedback"
    /\ owed' = owed \ {current_track}
    /\ bad' = (bad \/ ~Holds(current_track))
    /\ Goto("main", "idle")
    /\ UNCHANGED <<trackVars, loaded, cmd, track, runVars, raced>>

-----------------------------------------------------------------------------
(* espotify_player_current_track: undefined, or read it again ...          *)
CurrentTrack(n) ==
    /\ Enter(n) /\ started
    /\ IF current_track = NULL THEN UNCHANGED pc ELSE Goto(n, "tuple")
    /\ UNCHANGED <<trackVars, loaded, cmd, track, runVars, owed, bad>>

(* ... and make a tuple of it.                                             *)
TrackTuple(n) ==
    /\ pc[n] = "tuple"
    /\ bad' = (bad \/ ~Holds(current_track))
    /\ Goto(n, "idle")
    /\ UNCHANGED <<trackVars, loaded, cmd, track, runVars, owed, raced>>

(* spotifyctl_run ends, after a stop or because the connection is lost:    *)
(* a track that is loading is released, and the caller of a command that   *)
(* is due waits for ever.                                                  *)
RunEnd ==
    /\ pc["main"] = "idle" /\ ~exited
    /\ IF player_load_track # NULL THEN Release(player_load_track) ELSE UNCHANGED <<refs, bad>>
    /\ player_load_track' = NULL
    /\ cmd' = NoCmd
    /\ owed' = {}
    /\ exited' = TRUE
    /\ UNCHANGED <<current_track, player, loaded, pc, track, started, crashed, raced>>

(* stop returns, and another session may start.                            *)
StopDone(n) ==
    /\ pc[n] = "joining" /\ exited
    /\ started' = FALSE
    /\ Goto(n, "idle")
    /\ UNCHANGED <<trackVars, loaded, cmd, track, exited, crashed, auxVars>>

Restart ==
    /\ ~started
    /\ started' = TRUE
    /\ exited' = FALSE
    /\ UNCHANGED <<trackVars, loaded, cmd, pc, track, crashed, auxVars>>

-----------------------------------------------------------------------------
UnloadStep(n) == Unload(n) \/ ReleaseCurrent(n) \/ Forget(n)

Command == LoadRefused \/ LoadLater \/ LoadFails \/ LoadNow \/ CmdPlaySeek \/ CmdUnload

MainStep ==
    \/ Command \/ LoadDone \/ UnloadStep("main")
    \/ MetadataUpdated \/ MetadataRelease \/ MetadataSet \/ MetadataFeedback

NifStep(n) ==
    \/ \E t \in Tracks : CallLoad(n, t)
    \/ \E c \in {"play", "unload"} : CallPlayer(n, c)
    \/ Stop(n) \/ StopDone(n) \/ UnloadStep(n)
    \/ CurrentTrack(n) \/ TrackTuple(n)

Next ==
    /\ ~crashed
    /\ \/ MainStep \/ EndOfTrack \/ RunEnd \/ Restart
       \/ \E t \in Tracks : TrackLoads(t)
       \/ \E n \in Nifs : NifStep(n)

Spec == Init /\ [][Next]_vars

(* The main thread runs on, and takes what libspotify keeps calling back.  *)
FairSpec == Spec /\ WF_vars(~crashed /\ MainStep) /\ SF_vars(~crashed /\ MetadataUpdated)

-----------------------------------------------------------------------------
(* The type of every variable.                                             *)
TypeOK ==
    /\ current_track \in Tracks \union {NULL}
    /\ player_load_track \in Tracks \union {NULL}
    /\ refs \in [Tracks -> 0 .. MaxRefs]
    /\ loaded \subseteq Tracks
    /\ player \in Tracks \union {NULL}
    /\ cmd \in [op : {"none", "load", "play", "unload", "unloading"},
               arg : Tracks \union {NULL}, by : Nifs \union {NULL}]
    /\ pc \in [Thread -> {"idle", "waiting", "setcurrent", "unload", "release", "forget",
                          "mrelease", "mset", "mfeedback", "tuple", "joining"}]
    /\ track \in Tracks \union {NULL}
    /\ started \in BOOLEAN /\ exited \in BOOLEAN /\ crashed \in BOOLEAN
    /\ owed \subseteq Tracks /\ bad \in BOOLEAN /\ raced \in BOOLEAN

(* Unless two threads have been at a command, a callback, stop (its join   *)
(* included) or player_current_track at once, libspotify is never given    *)
(* NULL or a track that the library has released, over any sequence of     *)
(* loads, ends, unloads and sessions.                                      *)
TracksValid == ~raced => ~bad

(* Unless they have, and apart from the steps of an unload or a load, a    *)
(* track that plays is current, so that player_unload can stop it.         *)
PlayingIsCurrent ==
    ~raced /\ pc["main"] = "idle" /\ (\A n \in Nifs : pc[n] \in {"idle", "waiting"})
        => (current_track = NULL => player = NULL)

(* An answer loading is followed by the player_load message with that      *)
(* track once its metadata arrives, unless the main loop ends, the virtual *)
(* machine dies or a NIF interferes.                                       *)
LoadingIsAnswered ==
    \A t \in Tracks : [](~raced /\ ~crashed) => (t \in owed /\ t \in loaded ~> t \notin owed)

(* src/espotify_api.erl:125-126: player_current_track returns a track or   *)
(* undefined; it does not read one that has been released.  No run checks  *)
(* it: TLC finds the track released between the two reads.                 *)
CurrentTrackValid == \A n \in Nifs : pc[n] = "tuple" => Holds(current_track)
==============================================================================
