------------------------------ MODULE MCRequests ------------------------------
(* Requests for TLC: any three calls, of which two may be for containers   *)
(* with two playlists, and share one.                                      *)
EXTENDS Requests, TLC

CONSTANTS r1, r2, r3, p1, p2

MCPlaylistsOf == r1 :> {p1, p2} @@ r2 :> {p1} @@ r3 :> {}
==============================================================================
