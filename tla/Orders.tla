------------------------------- MODULE Orders -------------------------------
(***************************************************************************)
(* Sets in order, as the code's sort and filter leave arrays.              *)
(***************************************************************************)
EXTENDS Integers, FiniteSets, Sequences

(* The elements of S, each after those that R, a total order, puts before it. *)
Ordered(S, R) ==
  [i \in 1..Cardinality(S) |-> CHOOSE x \in S : Cardinality({y \in S : <<y, x>> \in R}) = i - 1]

Ascending(S) == Ordered(S, {p \in S \X S : p[1] < p[2]})

(* The elements of a sequence at some places, in its order. *)
Picked(s, places) == LET order == Ascending(places) IN [k \in 1..Cardinality(places) |-> s[order[k]]]
=============================================================================
