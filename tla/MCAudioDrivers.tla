---------------------------- MODULE MCAudioDrivers ---------------------------
(* Instances of AudioDrivers for TLC: a stream of small deliveries in two  *)
(* formats, long enough for the queue to fill, drain and fill again, and   *)
(* for OpenAL's buffers to go round and be reset.                          *)
EXTENDS AudioDrivers
==============================================================================
