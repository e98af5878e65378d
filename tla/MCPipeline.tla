----------------------------- MODULE MCPipeline -----------------------------
(* Instances of Pipeline for TLC. *)
EXTENDS Pipeline, TLC

CONSTANTS f1, f2, c1, p1, p2, s1, n1

(* All filings are one company's: its facts are what they compete for. *)
OneCompany == [f \in Filings |-> c1]

WorkerStage == [w \in Workers |->
  IF w \in {p1, p2} THEN "parsed" ELSE IF w = s1 THEN "scored" ELSE "notified"]

(* The two parsers are interchangeable. *)
Symmetry == Permutations({p1, p2})
=============================================================================
