------------------------------ MODULE MCSession ------------------------------
(* Session for TLC: its constants are model values and bounds.             *)
EXTENDS Session
==============================================================================
