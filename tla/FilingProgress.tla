--------------------------- MODULE FilingProgress ---------------------------
(***************************************************************************)
(* What the three workers promise about a filing, with no queue, no worker *)
(* and no crash in sight: it passes the stages of stage_completions in     *)
(* order, and the side effect of a stage (a downstream job, an alert)      *)
(* happens at most once, and only after the stage has been claimed.        *)
(* Nothing obliges a claimed stage to perform its effect: at most once is  *)
(* all that is promised.                                                   *)
(***************************************************************************)
EXTENDS Naturals

CONSTANT Filings     \* accession numbers

VARIABLES
  claimed,   \* claimed[s]: the filings with a stage_completions row for s
  emitted    \* emitted[s][f]: how many times the effect of s happened for f

progressVars == <<claimed, emitted>>

Stages == {"parsed", "scored", "notified"}

(* The stage whose effect feeds stage s. *)
Before(s) == IF s = "notified" THEN "scored" ELSE "parsed"

ProgressInit ==
  /\ claimed = [s \in Stages |-> {}]
  /\ emitted = [s \in Stages |-> [f \in Filings |-> 0]]

(* A stage is claimed once, and only for a filing the previous stage passed on. *)
ClaimOnce(s, f) ==
  /\ f \notin claimed[s]
  /\ s # "parsed" => emitted[Before(s)][f] = 1
  /\ claimed' = [claimed EXCEPT ![s] = @ \cup {f}]
  /\ UNCHANGED emitted

(* The effect of a claimed stage, at most once. *)
PerformOnce(s, f) ==
  /\ f \in claimed[s]
  /\ emitted[s][f] = 0
  /\ emitted' = [emitted EXCEPT ![s][f] = 1]
  /\ UNCHANGED claimed

ProgressNext == \E s \in Stages, f \in Filings : ClaimOnce(s, f) \/ PerformOnce(s, f)

ProgressSpec == ProgressInit /\ [][ProgressNext]_progressVars
=============================================================================
