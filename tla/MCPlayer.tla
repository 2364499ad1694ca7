------------------------------- MODULE MCPlayer -------------------------------
(* Player for TLC: its constants are model values and a bound.             *)
EXTENDS Player
==============================================================================
