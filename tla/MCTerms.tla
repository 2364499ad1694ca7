------------------------------- MODULE MCTerms -------------------------------
(* Instances of Terms for TLC: two tracks and two playlists, so that one   *)
(* list holds elements that have loaded and that have not.                 *)
EXTENDS Terms
==============================================================================
