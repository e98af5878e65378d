------------------------------- MODULE Stores -------------------------------
(***************************************************************************)
(* Everything that writes facts, together: backfill sessions, backfills    *)
(* from an old bulk file and nightly reconciliations, over the one table.  *)
(* The parser worker's ingestion is an attempt like a session's.           *)
(***************************************************************************)
EXTENDS Backfill, Reconciliation

vars == <<storeVars, backfillVars, reconciliationVars>>

(* The ingesters that read a bulk file: scripts/backfillFromBulk.ts. *)
Loaders == Ingesters \ Sessions

TypeOK == StoreTypeOK /\ BackfillTypeOK /\ ReconciliationTypeOK

Init == StoreInit /\ BackfillInit /\ ReconciliationInit

Bulk(i) ==
  \/ \E c \in Companies : Load(i, c)
  \/ UpsertCompany(i) \/ StoreFact(i) \/ Loaded(i)
  \/ at[i] # "idle" /\ Die(i)

Next ==
  \/ BackfillNext /\ UNCHANGED reconciliationVars
  \/ ReconciliationNext /\ UNCHANGED backfillVars
  \/ \E i \in Loaders : Bulk(i) /\ UNCHANGED <<backfillVars, reconciliationVars>>
  \/ Publish /\ UNCHANGED <<backfillVars, reconciliationVars>>

Spec == Init /\ [][Next]_vars
=============================================================================
