----------------------------- MODULE MCLoadQueue -----------------------------
(* Instances of LoadQueue for TLC: which tracks each request waits for.    *)
EXTENDS LoadQueue, TLC

CONSTANTS t1, t2, t3, r1, r2, r3, pl

(* Three calls of track_info for different tracks.                         *)
ThreeTracks == r1 :> <<t1>> @@ r2 :> <<t2>> @@ r3 :> <<t3>>

(* A call of track_info and a playlist of two tracks, one of them shared.  *)
TrackAndPlaylist == r1 :> <<t1>> @@ pl :> <<t1, t2>>
==============================================================================
