--------------------------- MODULE MCResponseCache ---------------------------
(* An instance of ResponseCache for TLC. *)
EXTENDS ResponseCache

CONSTANTS r1, r2, parser, host
=============================================================================
