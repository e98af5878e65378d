----------------------------- MODULE MCSecClient -----------------------------
(* An instance of SecClient for TLC. *)
EXTENDS SecClient

CONSTANTS p1, c1, c2, c3

Shares == [p \in Processes |-> 2]
Callers == [c \in Calls |-> p1]
=============================================================================
