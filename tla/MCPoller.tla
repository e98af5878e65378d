------------------------------ MODULE MCPoller ------------------------------
(* Small instances of Poller for TLC. *)
EXTENDS Poller, TLC

CONSTANTS acme, bolt, k1, k2, c1, c2

TwoCompanies == <<acme, bolt>>
OneCompany == <<acme>>
OneEach == (k1 :> acme) @@ (k2 :> bolt)
AcmeOnly == k1 :> acme
Symmetry == Permutations(Cycles)
=============================================================================
