------------------------------ MODULE MCStores ------------------------------
(* An instance of Stores for TLC: company 1 files an annual report on two
   years, then one that restates the second and adds a third, implausible,
   which with Years = 2 takes the place of the first.  SEC has nothing about
   company 2. *)
EXTENDS Stores, TLC

CONSTANTS s1, s2, b1, k1, k2

Fact(c, accn, end, filed, annual, val) ==
  [company |-> c, accn |-> accn, end |-> end, filed |-> filed, annual |-> annual, val |-> val]

Filed == {Fact(1, "a", 1, 1, TRUE, 9), Fact(1, "a", 2, 1, TRUE, 10),
          Fact(1, "b", 2, 2, TRUE, 11), Fact(1, "b", 3, 2, TRUE, 99)}

Symmetry == Permutations({s1, s2}) \cup Permutations({k1, k2})

(* No more than two processes are at work at once. *)
AtWork ==
  {s \in Sessions : session[s] # "off"} \cup {i \in Loaders : at[i] # "idle"}
    \cup {k \in Reconcilers : runPc[k] \notin {"idle", "completed", "failed"}}
TwoAtOnce == Cardinality(AtWork) <= 2
=============================================================================
