------------------------------- MODULE MCAsync -------------------------------
(* Instances of Async for TLC: a scheduler thread and the session thread,  *)
(* one plain message and two replies, two processes.                       *)
EXTENDS Async
==============================================================================
