----------------------------- MODULE MCHeartbeat -----------------------------
(* An instance of Heartbeat for TLC. *)
EXTENDS Heartbeat

CONSTANTS c1, c2
=============================================================================
