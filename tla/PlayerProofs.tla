----------------------------- MODULE PlayerProofs -----------------------------
(***************************************************************************)
(* Theorems about Player.tla for any threads, tracks and number of         *)
(* references.                                                             *)
(***************************************************************************)
EXTENDS Player, TLAPS

(* The caller of a command waits until it is answered, and the track of a  *)
(* player_load has room for the reference that the command takes.          *)
CmdShape ==
    /\ cmd.op # "none" => cmd.by \in Nifs /\ pc[cmd.by] = "waiting"
    /\ cmd.op = "load" => cmd.arg \in Tracks
    /\ cmd.op = "load" /\ pc["main"] # "setcurrent" => refs[cmd.arg] < MaxRefs
    /\ pc["main"] = "setcurrent" => cmd.op = "load" /\ track \in Tracks

(* One thread at a time uses current_track.                                *)
Alone == \A a, b \in Thread :
            pc[a] \notin {"idle", "waiting"} /\ pc[b] \notin {"idle", "waiting"} => a = b

(* current_track points to a track that has just been released.            *)
Dropped == pc["main"] = "mset" \/ \E n \in Thread : pc[n] = "forget"

(* Each pointer to a track has a reference of its own.                     *)
Covered == \A t \in Tracks :
    refs[t] >= (IF current_track = t /\ ~Dropped THEN 1 ELSE 0)
               + (IF player_load_track = t THEN 1 ELSE 0)

(* The pointers that the next step of a thread will use are not NULL.      *)
Pointed ==
    /\ \A n \in Thread : pc[n] \in {"unload", "release", "tuple", "mrelease", "mfeedback"}
                            => current_track \in Tracks
    /\ pc["main"] \in {"mrelease", "mset"} => player_load_track \in Tracks
    /\ pc["main"] = "setcurrent" => player_load_track = NULL /\ refs[track] >= 1

RefsSound == ~raced => Alone /\ Covered /\ Pointed /\ ~bad

IInv == TypeOK /\ CmdShape /\ RefsSound

(* The invariant holds when the library is loaded: no track has a          *)
(* reference and nothing points to one.                                    *)
LEMMA InitIInv == Init => IInv
<1> SUFFICES ASSUME Init PROVE IInv
  OBVIOUS
<1>0. /\ started \in BOOLEAN /\ exited \in BOOLEAN /\ crashed \in BOOLEAN
      /\ bad \in BOOLEAN /\ raced \in BOOLEAN
  BY DEF Init
<1>1. TypeOK
  BY <1>0, PlayerAssumption DEF Init, TypeOK, NoCmd, Thread
<1>2. CmdShape
  BY DEF Init, CmdShape, NoCmd, Thread
<1>3. RefsSound
  BY PlayerAssumption DEF Init, RefsSound, Alone, Covered, Dropped, Pointed, Thread
<1> QED
  BY <1>1, <1>2, <1>3 DEF IInv

(* No step of the main loop, of a NIF, of the unload or of a callback      *)
(* takes a variable out of its type.                                       *)
LEMMA TypeStep ==
    TypeOK /\ CmdShape /\ [Next]_vars => TypeOK'
<1> SUFFICES ASSUME TypeOK, CmdShape, [Next]_vars PROVE TypeOK'
  OBVIOUS
<1> USE PlayerAssumption DEF TypeOK, CmdShape, Thread, trackVars, runVars, auxVars
<1>1. CASE LoadRefused
  BY <1>1 DEF LoadRefused, MainEnter, Enter, Answer, NoCmd
<1>2. CASE LoadLater
  BY <1>2 DEF LoadLater, MainEnter, Enter, Answer, Retain, NoCmd
<1>3. CASE LoadFails
  BY <1>3 DEF LoadFails, MainEnter, Enter
<1>4. CASE LoadNow
  BY <1>4 DEF LoadNow, MainEnter, Enter, Retain, Goto
<1>5. CASE CmdPlaySeek
  BY <1>5 DEF CmdPlaySeek, MainEnter, Enter, Answer, NoCmd
<1>6. CASE CmdUnload
  BY <1>6 DEF CmdUnload, MainEnter, Enter, Answer, Goto, NoCmd
<1>7. CASE LoadDone
  BY <1>7 DEF LoadDone, Answer, NoCmd
<1>8. ASSUME NEW n \in Thread, Unload(n) PROVE TypeOK'
  BY <1>8 DEF Unload, Goto
<1>9. ASSUME NEW n \in Thread, ReleaseCurrent(n) PROVE TypeOK'
  BY <1>9 DEF ReleaseCurrent, Release, Holds, Goto
<1>10. ASSUME NEW n \in Thread, Forget(n) PROVE TypeOK'
  BY <1>10 DEF Forget, UnloadDone, Answer, Goto, NoCmd
<1>11. CASE MetadataUpdated
  BY <1>11 DEF MetadataUpdated, MainEnter, Enter, Goto
<1>12. CASE MetadataRelease
  BY <1>12 DEF MetadataRelease, Release, Holds, Goto
<1>13. CASE MetadataSet
  BY <1>13 DEF MetadataSet, Goto
<1>14. CASE MetadataFeedback
  BY <1>14 DEF MetadataFeedback, Goto, Holds
<1>15. CASE EndOfTrack
  BY <1>15 DEF EndOfTrack, MainEnter, Enter, Goto
<1>16. CASE RunEnd
  <2>1. bad' \in BOOLEAN
    BY <1>16 DEF RunEnd, Release
  <2>2. refs' \in [Tracks -> 0 .. MaxRefs]
    BY <1>16 DEF RunEnd, Release, Holds
  <2>3. cmd' \in [op : {"none", "load", "play", "unload", "unloading"},
                  arg : Tracks \union {NULL}, by : Nifs \union {NULL}]
    BY <1>16 DEF RunEnd, NoCmd
  <2> QED
    BY <1>16, <2>1, <2>2, <2>3 DEF RunEnd
<1>17. CASE Restart
  BY <1>17 DEF Restart
<1>18. ASSUME NEW t \in Tracks, TrackLoads(t) PROVE TypeOK'
  BY <1>18 DEF TrackLoads
<1>19. ASSUME NEW n \in Nifs, NEW t \in Tracks, CallLoad(n, t) PROVE TypeOK'
  BY <1>19 DEF CallLoad, Goto, NoCmd
<1>20. ASSUME NEW n \in Nifs, NEW c \in {"play", "unload"}, CallPlayer(n, c) PROVE TypeOK'
  BY <1>20 DEF CallPlayer, Goto, NoCmd
<1>21. ASSUME NEW n \in Nifs, Stop(n) PROVE TypeOK'
  BY <1>21 DEF Stop, Enter, Goto
<1>22. ASSUME NEW n \in Nifs, StopDone(n) PROVE TypeOK'
  BY <1>22 DEF StopDone, Goto
<1>23. ASSUME NEW n \in Nifs, CurrentTrack(n) PROVE TypeOK'
  BY <1>23 DEF CurrentTrack, Enter, Goto
<1>24. ASSUME NEW n \in Nifs, TrackTuple(n) PROVE TypeOK'
  BY <1>24 DEF TrackTuple, Goto, Holds
<1>25. CASE UNCHANGED vars
  BY <1>25 DEF vars
<1> QED
  BY <1>1, <1>2, <1>3, <1>4, <1>5, <1>6, <1>7, <1>8, <1>9, <1>10, <1>11, <1>12, <1>13, <1>14, <1>15, <1>16, <1>17, <1>18, <1>19, <1>20, <1>21, <1>22, <1>23, <1>24, <1>25
     DEF Next, MainStep, Command, NifStep, UnloadStep, Thread

(* No step breaks what relates a command to its caller and to the room for *)
(* the references it takes: a command is sent and answered whole.          *)
LEMMA ShapeStep ==
    TypeOK /\ CmdShape /\ [Next]_vars => CmdShape'
<1> SUFFICES ASSUME TypeOK, CmdShape, [Next]_vars PROVE CmdShape'
  OBVIOUS
<1> USE PlayerAssumption DEF TypeOK, CmdShape, Thread, trackVars, runVars, auxVars
<1>1. CASE LoadRefused
  BY <1>1 DEF LoadRefused, MainEnter, Enter, Answer, NoCmd
<1>2. CASE LoadLater
  BY <1>2 DEF LoadLater, MainEnter, Enter, Answer, Retain, NoCmd
<1>3. CASE LoadFails
  BY <1>3 DEF LoadFails, MainEnter, Enter
<1>4. CASE LoadNow
  BY <1>4 DEF LoadNow, MainEnter, Enter, Retain, Goto
<1>5. CASE CmdPlaySeek
  BY <1>5 DEF CmdPlaySeek, MainEnter, Enter, Answer, NoCmd
<1>6. CASE CmdUnload
  BY <1>6 DEF CmdUnload, MainEnter, Enter, Answer, Goto, NoCmd
<1>7. CASE LoadDone
  BY <1>7 DEF LoadDone, Answer, NoCmd
<1>8. ASSUME NEW n \in Thread, Unload(n) PROVE CmdShape'
  BY <1>8 DEF Unload, Goto
<1>9. ASSUME NEW n \in Thread, ReleaseCurrent(n) PROVE CmdShape'
  BY <1>9 DEF ReleaseCurrent, Release, Holds, Goto
<1>10. ASSUME NEW n \in Thread, Forget(n) PROVE CmdShape'
  BY <1>10 DEF Forget, UnloadDone, Answer, Goto, NoCmd
<1>11. CASE MetadataUpdated
  BY <1>11 DEF MetadataUpdated, MainEnter, Enter, Goto
<1>12. CASE MetadataRelease
  BY <1>12 DEF MetadataRelease, Release, Holds, Goto
<1>13. CASE MetadataSet
  BY <1>13 DEF MetadataSet, Goto
<1>14. CASE MetadataFeedback
  BY <1>14 DEF MetadataFeedback, Goto, Holds
<1>15. CASE EndOfTrack
  BY <1>15 DEF EndOfTrack, MainEnter, Enter, Goto
<1>16. CASE RunEnd
  BY <1>16 DEF RunEnd, Release, Holds, NoCmd
<1>17. CASE Restart
  BY <1>17 DEF Restart
<1>18. ASSUME NEW t \in Tracks, TrackLoads(t) PROVE CmdShape'
  BY <1>18 DEF TrackLoads
<1>19. ASSUME NEW n \in Nifs, NEW t \in Tracks, CallLoad(n, t) PROVE CmdShape'
  BY <1>19 DEF CallLoad, Goto, NoCmd
<1>20. ASSUME NEW n \in Nifs, NEW c \in {"play", "unload"}, CallPlayer(n, c) PROVE CmdShape'
  BY <1>20 DEF CallPlayer, Goto, NoCmd
<1>21. ASSUME NEW n \in Nifs, Stop(n) PROVE CmdShape'
  BY <1>21 DEF Stop, Enter, Goto
<1>22. ASSUME NEW n \in Nifs, StopDone(n) PROVE CmdShape'
  BY <1>22 DEF StopDone, Goto
<1>23. ASSUME NEW n \in Nifs, CurrentTrack(n) PROVE CmdShape'
  BY <1>23 DEF CurrentTrack, Enter, Goto
<1>24. ASSUME NEW n \in Nifs, TrackTuple(n) PROVE CmdShape'
  BY <1>24 DEF TrackTuple, Goto, Holds
<1>25. CASE UNCHANGED vars
  BY <1>25 DEF vars
<1> QED
  BY <1>1, <1>2, <1>3, <1>4, <1>5, <1>6, <1>7, <1>8, <1>9, <1>10, <1>11, <1>12, <1>13, <1>14, <1>15, <1>16, <1>17, <1>18, <1>19, <1>20, <1>21, <1>22, <1>23, <1>24, <1>25
     DEF Next, MainStep, Command, NifStep, UnloadStep, Thread

(* No step breaks the reference counts: while no two threads have used     *)
(* current_track at once, each track in use is covered by a reference of   *)
(* its own.                                                                *)
LEMMA RefsStep ==
    IInv /\ TypeOK' /\ [Next]_vars => RefsSound'
<1> SUFFICES ASSUME IInv, TypeOK', [Next]_vars, ~raced' PROVE (Alone /\ Covered /\ Pointed /\ ~bad)'
  BY DEF RefsSound
<1> USE PlayerAssumption DEF IInv, TypeOK, CmdShape, RefsSound, Alone, Covered, Pointed, Dropped, Thread, trackVars, runVars, auxVars
<1>1. CASE LoadRefused
  BY <1>1 DEF LoadRefused, MainEnter, Enter, Answer, NoCmd
<1>2. CASE LoadLater
  BY <1>2 DEF LoadLater, MainEnter, Enter, Answer, Retain, NoCmd
<1>3. CASE LoadFails
  BY <1>3 DEF LoadFails, MainEnter, Enter
<1>4. CASE LoadNow
  <2>1. ~raced /\ ~bad
    BY <1>4 DEF LoadNow, MainEnter, Enter
  <2>2. pc["main"] = "idle" /\ \A o \in Thread : pc[o] \in {"idle", "waiting"}
    BY <1>4 DEF LoadNow, MainEnter, Enter
  <2>3. Alone /\ Covered /\ Pointed /\ ~Dropped
    BY <2>1, <2>2
  <2>4. Alone'
    BY <1>4, <2>2 DEF LoadNow, MainEnter, Enter, Retain, Goto
  <2>5. Covered'
    BY <1>4, <2>2, <2>3 DEF LoadNow, MainEnter, Enter, Retain, Goto
  <2>6. Pointed'
    BY <1>4, <2>2, <2>3 DEF LoadNow, MainEnter, Enter, Retain, Goto
  <2> QED
    BY <1>4, <2>1, <2>4, <2>5, <2>6 DEF LoadNow, MainEnter
<1>5. CASE CmdPlaySeek
  BY <1>5 DEF CmdPlaySeek, MainEnter, Enter, Answer, NoCmd
<1>6. CASE CmdUnload
  <2>1. ~raced /\ ~bad
    BY <1>6 DEF CmdUnload, MainEnter, Enter
  <2>2. pc["main"] = "idle" /\ \A o \in Thread : pc[o] \in {"idle", "waiting"}
    BY <1>6 DEF CmdUnload, MainEnter, Enter
  <2>3. Alone /\ Covered /\ Pointed /\ ~Dropped
    BY <2>1, <2>2
  <2>4. Alone'
    BY <1>6, <2>2 DEF CmdUnload, MainEnter, Enter, Answer, Goto, NoCmd
  <2>5. Covered'
    BY <1>6, <2>2, <2>3 DEF CmdUnload, MainEnter, Enter, Answer, Goto, NoCmd
  <2>6. Pointed'
    BY <1>6, <2>2, <2>3 DEF CmdUnload, MainEnter, Enter, Answer, Goto, NoCmd
  <2> QED
    BY <1>6, <2>1, <2>4, <2>5, <2>6 DEF CmdUnload, MainEnter
<1>7. CASE LoadDone
  BY <1>7 DEF LoadDone, Answer, NoCmd
<1>8. ASSUME NEW n \in Thread, Unload(n) PROVE (Alone /\ Covered /\ Pointed /\ ~bad)'
  BY <1>8 DEF Unload, Goto
<1>9. ASSUME NEW n \in Thread, ReleaseCurrent(n) PROVE (Alone /\ Covered /\ Pointed /\ ~bad)'
  BY <1>9 DEF ReleaseCurrent, Release, Holds, Goto
<1>10. ASSUME NEW n \in Thread, Forget(n) PROVE (Alone /\ Covered /\ Pointed /\ ~bad)'
  BY <1>10 DEF Forget, UnloadDone, Answer, Goto, NoCmd
<1>11. CASE MetadataUpdated
  <2>1. ~raced /\ ~bad
    BY <1>11 DEF MetadataUpdated, MainEnter, Enter
  <2>2. pc["main"] = "idle" /\ \A o \in Thread : pc[o] \in {"idle", "waiting"}
    BY <1>11 DEF MetadataUpdated, MainEnter, Enter
  <2>3. Alone /\ Covered /\ Pointed /\ ~Dropped
    BY <2>1, <2>2
  <2>4. Alone'
    BY <1>11, <2>2 DEF MetadataUpdated, MainEnter, Enter, Goto
  <2>5. Covered'
    BY <1>11, <2>2, <2>3 DEF MetadataUpdated, MainEnter, Enter, Goto
  <2>6. Pointed'
    BY <1>11, <2>2, <2>3 DEF MetadataUpdated, MainEnter, Enter, Goto
  <2> QED
    BY <1>11, <2>1, <2>4, <2>5, <2>6 DEF MetadataUpdated, MainEnter
<1>12. CASE MetadataRelease
  BY <1>12 DEF MetadataRelease, Release, Holds, Goto
<1>13. CASE MetadataSet
  BY <1>13 DEF MetadataSet, Goto
<1>14. CASE MetadataFeedback
  BY <1>14 DEF MetadataFeedback, Goto, Holds
<1>15. CASE EndOfTrack
  <2>1. ~raced /\ ~bad
    BY <1>15 DEF EndOfTrack, MainEnter, Enter
  <2>2. pc["main"] = "idle" /\ \A o \in Thread : pc[o] \in {"idle", "waiting"}
    BY <1>15 DEF EndOfTrack, MainEnter, Enter
  <2>3. Alone /\ Covered /\ Pointed /\ ~Dropped
    BY <2>1, <2>2
  <2>4. Alone'
    BY <1>15, <2>2 DEF EndOfTrack, MainEnter, Enter, Goto
  <2>5. Covered'
    BY <1>15, <2>2, <2>3 DEF EndOfTrack, MainEnter, Enter, Goto
  <2>6. Pointed'
    BY <1>15, <2>2, <2>3 DEF EndOfTrack, MainEnter, Enter, Goto
  <2> QED
    BY <1>15, <2>1, <2>4, <2>5, <2>6 DEF EndOfTrack, MainEnter
<1>16. CASE RunEnd
  BY <1>16 DEF RunEnd, Release, Holds, NoCmd
<1>17. CASE Restart
  BY <1>17 DEF Restart
<1>18. ASSUME NEW t \in Tracks, TrackLoads(t) PROVE (Alone /\ Covered /\ Pointed /\ ~bad)'
  BY <1>18 DEF TrackLoads
<1>19. ASSUME NEW n \in Nifs, NEW t \in Tracks, CallLoad(n, t) PROVE (Alone /\ Covered /\ Pointed /\ ~bad)'
  BY <1>19 DEF CallLoad, Goto, NoCmd
<1>20. ASSUME NEW n \in Nifs, NEW c \in {"play", "unload"}, CallPlayer(n, c) PROVE (Alone /\ Covered /\ Pointed /\ ~bad)'
  BY <1>20 DEF CallPlayer, Goto, NoCmd
<1>21. ASSUME NEW n \in Nifs, Stop(n) PROVE (Alone /\ Covered /\ Pointed /\ ~bad)'
  BY <1>21 DEF Stop, Enter, Goto
<1>22. ASSUME NEW n \in Nifs, StopDone(n) PROVE (Alone /\ Covered /\ Pointed /\ ~bad)'
  BY <1>22 DEF StopDone, Goto
<1>23. ASSUME NEW n \in Nifs, CurrentTrack(n) PROVE (Alone /\ Covered /\ Pointed /\ ~bad)'
  <2>1. ~raced /\ ~bad
    BY <1>23 DEF CurrentTrack, Enter
  <2>2. \A o \in Thread : pc[o] \in {"idle", "waiting"}
    BY <1>23 DEF CurrentTrack, Enter
  <2>3. Alone /\ Covered /\ Pointed /\ ~Dropped
    BY <2>1, <2>2
  <2>4. Alone'
    BY <1>23, <2>2 DEF CurrentTrack, Enter, Goto
  <2>5. Covered'
    BY <1>23, <2>2, <2>3 DEF CurrentTrack, Enter, Goto
  <2>6. Pointed'
    BY <1>23, <2>2, <2>3 DEF CurrentTrack, Enter, Goto
  <2> QED
    BY <1>23, <2>1, <2>4, <2>5, <2>6 DEF CurrentTrack
<1>24. ASSUME NEW n \in Nifs, TrackTuple(n) PROVE (Alone /\ Covered /\ Pointed /\ ~bad)'
  BY <1>24 DEF TrackTuple, Goto, Holds
<1>25. CASE UNCHANGED vars
  BY <1>25 DEF vars
<1> QED
  BY <1>1, <1>2, <1>3, <1>4, <1>5, <1>6, <1>7, <1>8, <1>9, <1>10, <1>11, <1>12, <1>13, <1>14, <1>15, <1>16, <1>17, <1>18, <1>19, <1>20, <1>21, <1>22, <1>23, <1>24, <1>25
     DEF Next, MainStep, Command, NifStep, UnloadStep, Thread

(* The invariant is inductive, so it holds of every behaviour.             *)
LEMMA Invariance == Spec => []IInv
<1>1. IInv /\ [Next]_vars => IInv'
  BY TypeStep, ShapeStep, RefsStep DEF IInv
<1> QED
  BY InitIInv, <1>1, PTL DEF Spec

-----------------------------------------------------------------------------
(* Every variable of the player keeps its type; no track has more          *)
(* references than the calls of player_load have room for.                 *)
THEOREM TypeCorrect == Spec => []TypeOK
<1>1. IInv => TypeOK
  BY DEF IInv
<1> QED
  BY Invariance, <1>1, PTL

(* Unless two threads have used current_track at once, the library never   *)
(* gives NULL or a released track to libspotify, whatever sequence of      *)
(* commands, callbacks and sessions it goes through.                       *)
THEOREM NoUseAfterRelease == Spec => []TracksValid
<1>1. IInv => TracksValid
  BY DEF IInv, RefsSound, TracksValid
<1> QED
  BY Invariance, <1>1, PTL

-----------------------------------------------------------------------------
(* What libspotify plays is current, or about to be; and it plays nothing  *)
(* once an unload has reached the release of the track.                    *)
PlayerKnown ==
    ~raced =>
        /\ \A n \in Thread : pc[n] \in {"release", "forget"} => player = NULL
        /\ player # NULL /\ current_track = NULL => pc["main"] \in {"setcurrent", "mset"}

LEMMA KnownStep == IInv /\ PlayerKnown /\ [Next]_vars => PlayerKnown'
<1> SUFFICES ASSUME IInv, PlayerKnown, [Next]_vars PROVE PlayerKnown'
  OBVIOUS
<1> USE PlayerAssumption DEF IInv, TypeOK, RefsSound, PlayerKnown, Thread, trackVars, runVars, auxVars
<1>1. CASE LoadRefused \/ LoadLater \/ LoadFails \/ CmdPlaySeek
  BY <1>1 DEF LoadRefused, LoadLater, LoadFails, CmdPlaySeek, MainEnter, Enter, Answer, CmdShape
<1>2. CASE LoadNow
  BY <1>2 DEF LoadNow, MainEnter, Enter, Goto
<1>3. CASE CmdUnload
  BY <1>3 DEF CmdUnload, MainEnter, Enter, Answer, Goto, CmdShape
<1>4. CASE LoadDone
  BY <1>4 DEF LoadDone, Answer, CmdShape, Alone
<1>5. ASSUME NEW n \in Thread, Unload(n) PROVE PlayerKnown'
  BY <1>5 DEF Unload, Goto
<1>6. ASSUME NEW n \in Thread, ReleaseCurrent(n) PROVE PlayerKnown'
  BY <1>6 DEF ReleaseCurrent, Goto
<1>7. ASSUME NEW n \in Thread, Forget(n) PROVE PlayerKnown'
  <2>1. ~raced => player = NULL
    BY <1>7 DEF Forget
  <2> QED
    BY <1>7, <2>1 DEF Forget
<1>8. CASE MetadataUpdated
  BY <1>8 DEF MetadataUpdated, MainEnter, Enter, Goto
<1>9. CASE MetadataRelease
  BY <1>9 DEF MetadataRelease, Goto, Pointed
<1>10. CASE MetadataSet
  BY <1>10 DEF MetadataSet, Goto, Pointed
<1>11. CASE MetadataFeedback
  BY <1>11 DEF MetadataFeedback, Goto
<1>12. CASE EndOfTrack
  BY <1>12 DEF EndOfTrack, MainEnter, Enter, Goto
<1>13. CASE RunEnd \/ Restart
  BY <1>13 DEF RunEnd, Restart
<1>14. ASSUME NEW n \in Nifs, NEW t \in Tracks, CallLoad(n, t) PROVE PlayerKnown'
  BY <1>14 DEF CallLoad, Goto
<1>15. ASSUME NEW n \in Nifs, NEW c \in {"play", "unload"}, CallPlayer(n, c) PROVE PlayerKnown'
  BY <1>15 DEF CallPlayer, Goto
<1>16. ASSUME NEW n \in Nifs, Stop(n) \/ CurrentTrack(n) PROVE PlayerKnown'
  BY <1>16 DEF Stop, CurrentTrack, Enter, Goto
<1>17. ASSUME NEW n \in Nifs, StopDone(n) \/ TrackTuple(n) PROVE PlayerKnown'
  BY <1>17 DEF StopDone, TrackTuple, Goto
<1>18. CASE UNCHANGED vars \/ \E t \in Tracks : TrackLoads(t)
  BY <1>18 DEF vars, TrackLoads
<1> QED
  BY <1>1, <1>2, <1>3, <1>4, <1>5, <1>6, <1>7, <1>8, <1>9, <1>10, <1>11, <1>12, <1>13, <1>14,
     <1>15, <1>16, <1>17, <1>18
     DEF Next, MainStep, Command, NifStep, UnloadStep, Thread

(* Unless two threads have used current_track at once, a track that plays  *)
(* between commands and callbacks is current: player_unload can stop it.   *)
THEOREM PlayingAlwaysCurrent == Spec => []PlayingIsCurrent
<1>1. Init => PlayerKnown
  BY DEF Init, PlayerKnown, Thread
<1>2. PlayerKnown => PlayingIsCurrent
  BY DEF PlayerKnown, PlayingIsCurrent
<1> QED
  BY <1>1, <1>2, KnownStep, Invariance, PTL DEF Spec
==============================================================================
