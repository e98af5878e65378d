---------------------------- MODULE StoresProofs ----------------------------
(***************************************************************************)
(* Proofs about Stores, for any companies, facts, ingesters, backfill runs *)
(* and reconciliations: the types, that the value served never goes back,  *)
(* and what a completed backfill or reconciliation says of the store.      *)
(***************************************************************************)
EXTENDS Stores, DataLemmas, TLAPS

-----------------------------------------------------------------------------
(* Helpers *)

LEMMA FirstCompany == Min(Companies) \in Companies
BY LeastMember, FactsAssumption

(* A document is made of facts about its company, and grows. *)
LEMMA Documents ==
  ASSUME NEW c, NEW S, NEW T, S \subseteq T
  PROVE  /\ Document(c, S) \subseteq Document(c, T)
         /\ Selected(Document(c, S)) \subseteq Document(c, S)
         /\ MostRecent(Document(c, S)) \subseteq Document(c, S)
BY DEF Document, Selected, MostRecent, Annual

-----------------------------------------------------------------------------
(* What a step does to the store *)

(* An ingester leaves an attempt that has ended. *)
Leave(i) ==
  /\ at[i] \in {"success", "failed", "skipped"}
  /\ Finish(i)
  /\ UNCHANGED <<published, companies, facts, rejected, quarantined, todo, faults>>

AttemptMove(i) ==
  \/ \E c \in Companies : Attempt(i, c) \/ Load(i, c)
  \/ Progress(i) \/ Succeed(i) \/ Loaded(i) \/ Die(i) \/ Leave(i)

(* A reconciliation stores one fact at most, of the entry in hand. *)
ReconcilerMove ==
  /\ \/ UNCHANGED <<facts, rejected, faults>>
     \/ UNCHANGED <<facts, rejected>> /\ Fault
     \/ \E k \in Reconcilers : \E f \in entry[k] : Upsert(f) /\ UNCHANGED faults
  /\ UNCHANGED <<published, companies, quarantined, at, about, todo>>

StoreMove == Publish \/ ReconcilerMove \/ \E i \in Ingesters : AttemptMove(i)

LEMMA StoreMoves ==
  ASSUME TypeOK, [Next]_vars
  PROVE  StoreMove
<1>1. Sessions \subseteq Ingesters /\ Loaders \subseteq Ingesters
  BY SessionsAssumption DEF Loaders
<1>2. ASSUME UNCHANGED storeVars PROVE ReconcilerMove
  BY <1>2 DEF storeVars, ReconcilerMove
<1>3. ASSUME NEW s \in Sessions, FindRun(s) \/ ResumeRun(s) \/ CreateRun(s) \/ CompleteRun(s)
      PROVE  ReconcilerMove
  BY <1>2, <1>3 DEF FindRun, ResumeRun, CreateRun, CompleteRun
<1>4. ASSUME NEW s \in Sessions, NextCompany(s) PROVE AttemptMove(s)
  <2>1. pending[s] \subseteq Companies /\ pending[s] # {}
    BY <1>4 DEF NextCompany, TypeOK, BackfillTypeOK
  <2>2. Min(pending[s]) \in Companies
    BY <2>1, LeastMember, FactsAssumption
  <2>3. QED
    BY <1>4, <2>2 DEF NextCompany, AttemptMove
<1>5. ASSUME NEW s \in Sessions, Ingest(s) \/ Mark(s) \/ EndSession(s) PROVE AttemptMove(s)
  BY <1>5 DEF Ingest, Mark, EndSession, AttemptMove, Leave
<1>6. ASSUME NEW k \in Reconcilers, Reconcile(k) PROVE ReconcilerMove
  <2>1. PICK f \in MostRecent(entry[k]) : Upsert(f) \/ UNCHANGED <<facts, rejected>>
    BY <1>6 DEF Reconcile
  <2>2. f \in entry[k]
    BY <2>1 DEF MostRecent
  <2>3. QED
    BY <1>6, <2>1, <2>2 DEF Reconcile, ReconcilerMove
<1>7. ASSUME NEW k \in Reconcilers, FailRun(k) PROVE ReconcilerMove
  BY <1>7 DEF FailRun, ReconcilerMove
<1>8. ASSUME NEW k \in Reconcilers,
             StartReconciliation(k) \/ BeginDownload(k) \/ FinishDownload(k) \/ ReadEntry(k) \/ Complete(k)
      PROVE  ReconcilerMove
  BY <1>2, <1>8 DEF StartReconciliation, BeginDownload, FinishDownload, ReadEntry, Complete
<1>9. ASSUME NEW i \in Loaders, Bulk(i) PROVE AttemptMove(i)
  BY <1>9 DEF Bulk, AttemptMove, Progress
<1>10. CASE BackfillNext
  BY <1>1, <1>3, <1>4, <1>5, <1>10 DEF BackfillNext, StoreMove
<1>11. CASE ReconciliationNext
  BY <1>2, <1>6, <1>7, <1>8, <1>11 DEF ReconciliationNext, BuildArchive, StoreMove
<1>12. QED
  BY <1>1, <1>2, <1>9, <1>10, <1>11 DEF Next, vars, StoreMove

(* What an ingester has yet to store is of the company in hand, which has its
   row by then. *)
AttemptsSound ==
  \A i \in Ingesters : /\ todo[i] \subseteq Document(about[i], published)
                       /\ at[i] = "facts" => about[i] \in companies

EntriesSound ==
  \A k \in Reconcilers : \A f \in entry[k] : f.company \in companies /\ f.accn \in published

(* Rows are only added, facts one at a time and plausible ones. *)
Forward ==
  /\ published \subseteq published' /\ companies \subseteq companies'
  /\ rejected \subseteq rejected'
  /\ \/ UNCHANGED facts
     \/ \E f \in Facts : Plausible(f) /\ facts' = facts \cup {f}

LEMMA StoreTypesStep ==
  ASSUME StoreTypeOK, AttemptsSound, EntriesSound, entry \in [Reconcilers -> SUBSET Facts], StoreMove
  PROVE  StoreTypeOK' /\ AttemptsSound' /\ Forward
<1> USE DEF StoreTypeOK
<1>1. ASSUME NEW f \in Facts, Upsert(f) \/ UNCHANGED <<facts, rejected>>,
             f.company \in companies, f.accn \in published
      PROVE  /\ facts' \subseteq Facts /\ rejected' \subseteq Facts /\ rejected \subseteq rejected'
             /\ {g.accn : g \in facts' \cup rejected'} \subseteq published
             /\ {g.company : g \in facts' \cup rejected'} \subseteq companies
             /\ \/ UNCHANGED facts
                \/ \E g \in Facts : Plausible(g) /\ facts' = facts \cup {g}
  BY <1>1 DEF Upsert, Quarantine
<1>2. CASE Publish
  <2>1. PICK f \in Facts : published' = published \cup {f.accn}
    BY <1>2 DEF Publish
  <2>2. UNCHANGED <<companies, facts, rejected, quarantined, at, about, todo, faults>>
    BY <1>2 DEF Publish
  <2>3. published' \subseteq Accns /\ published \subseteq published'
    BY <2>1 DEF Accns
  <2>4. QED
    BY <2>2, <2>3 DEF AttemptsSound, Forward, Document
<1>3. CASE ReconcilerMove
  <2>1. /\ UNCHANGED <<published, companies, quarantined, at, about, todo>>
        /\ faults' \in 0 .. MaxFaults
        /\ \/ UNCHANGED <<facts, rejected>>
           \/ \E k \in Reconcilers : \E f \in entry[k] : Upsert(f)
    BY <1>3, FactsAssumption DEF ReconcilerMove, Fault
  <2>2. CASE UNCHANGED <<facts, rejected>>
    BY <2>1, <2>2 DEF AttemptsSound, Forward
  <2>3. CASE \E k \in Reconcilers : \E f \in entry[k] : Upsert(f)
    <3>0. PICK k \in Reconcilers : \E f \in entry[k] : Upsert(f)
      BY <2>3
    <3>1. PICK f \in entry[k] : Upsert(f)
      BY <3>0
    <3>2. f \in Facts /\ f.company \in companies /\ f.accn \in published
      BY <3>1 DEF EntriesSound
    <3>3. QED
      BY <1>1, <2>1, <3>1, <3>2 DEF AttemptsSound, Forward
  <2>4. QED
    BY <2>1, <2>2, <2>3
<1>4. ASSUME NEW i \in Ingesters, UNCHANGED <<published, companies, facts, rejected>>,
             quarantined' \subseteq Companies, faults' \in 0 .. MaxFaults,
             \E st \in States : at' = [at EXCEPT ![i] = st],
             \E c \in Companies : about' = [about EXCEPT ![i] = c],
             \E T \in SUBSET Facts : todo' = [todo EXCEPT ![i] = T],
             todo'[i] # {} => at'[i] \in {"company", "facts"},
             todo'[i] \subseteq Document(about'[i], published),
             at'[i] = "facts" => about'[i] \in companies
      PROVE  StoreTypeOK' /\ AttemptsSound' /\ Forward
  <2>1. /\ at' \in [Ingesters -> States] /\ about' \in [Ingesters -> Companies]
        /\ todo' \in [Ingesters -> SUBSET Facts]
        /\ \A j \in Ingesters \ {i} : at'[j] = at[j] /\ about'[j] = about[j] /\ todo'[j] = todo[j]
    BY <1>4
  <2>2. QED
    BY <1>4, <2>1 DEF AttemptsSound, Forward
<1>5. ASSUME NEW i \in Ingesters, AttemptMove(i) PROVE StoreTypeOK' /\ AttemptsSound' /\ Forward
  <2>0. /\ at' = [at EXCEPT ![i] = at[i]] => at' = at
        /\ about = [about EXCEPT ![i] = about[i]]
        /\ todo = [todo EXCEPT ![i] = todo[i]]
        /\ about[i] \in Companies /\ todo[i] \in SUBSET Facts
    OBVIOUS
  <2>1. ASSUME NEW c \in Companies, Attempt(i, c) PROVE StoreTypeOK' /\ AttemptsSound' /\ Forward
    BY <1>4, <2>0, <2>1 DEF Attempt, Become, States
  <2>2. ASSUME NEW c \in Companies, Load(i, c) PROVE StoreTypeOK' /\ AttemptsSound' /\ Forward
    <3>1. Selected(Document(c, Early)) \subseteq Document(c, published)
      BY Documents
    <3>2. Document(c, published) \subseteq Facts
      BY DEF Document
    <3>3. QED
      BY <1>4, <2>2, <3>1, <3>2 DEF Load, Become, States
  <2>3. CASE Fetch(i)
    <3>1. Selected(Document(about[i], published)) \subseteq Document(about[i], published)
      BY Documents
    <3>2. Document(about[i], published) \subseteq Facts
      BY DEF Document
    <3>3. QED
      BY <1>4, <2>0, <2>3, <3>1, <3>2 DEF Fetch, Become, States
  <2>4. CASE UpsertCompany(i)
    <3>1. /\ at' = [at EXCEPT ![i] = "facts"] /\ companies' = companies \cup {about[i]}
          /\ UNCHANGED <<published, facts, rejected, quarantined, about, todo, faults>>
      BY <2>4 DEF UpsertCompany, Become
    <3>2. QED
      BY <2>0, <3>1 DEF AttemptsSound, Forward, States
  <2>5. CASE StoreFact(i)
    <3>1. PICK f \in todo[i] : Upsert(f) /\ todo' = [todo EXCEPT ![i] = @ \ {f}]
      BY <2>5 DEF StoreFact
    <3>2. /\ at[i] = "facts"
          /\ UNCHANGED <<published, companies, quarantined, at, about, faults>>
      BY <2>5 DEF StoreFact
    <3>3. f \in Facts /\ f.company \in companies /\ f.accn \in published
      BY <3>2 DEF AttemptsSound, Document
    <3>4. /\ facts' \subseteq Facts /\ rejected' \subseteq Facts /\ rejected \subseteq rejected'
          /\ {g.accn : g \in facts' \cup rejected'} \subseteq published
          /\ {g.company : g \in facts' \cup rejected'} \subseteq companies
          /\ \/ UNCHANGED facts
             \/ \E g \in Facts : Plausible(g) /\ facts' = facts \cup {g}
      BY <1>1, <3>1, <3>3
    <3>5. /\ todo' \in [Ingesters -> SUBSET Facts]
          /\ \A j \in Ingesters : todo'[j] \subseteq todo[j]
      BY <3>1
    <3>6. QED
      BY <3>2, <3>4, <3>5 DEF AttemptsSound, Forward
  <2>6. CASE Fail(i) \/ Succeed(i)
    <3>1. /\ \E st \in {"failed", "success"} : at' = [at EXCEPT ![i] = st]
          /\ todo' = [todo EXCEPT ![i] = {}]
          /\ UNCHANGED <<published, companies, facts, rejected, about>>
      BY <2>6 DEF Fail, Succeed, Become
    <3>2. faults' \in 0 .. MaxFaults
      BY <2>6, FactsAssumption DEF Fail, Succeed, Fault
    <3>3. \/ quarantined' = quarantined \ {about[i]} \/ quarantined' = quarantined
          \/ quarantined' = quarantined \cup {about[i]}
      BY <2>6 DEF Fail, Succeed
    <3>4. quarantined' \subseteq Companies
      BY <2>0, <3>3
    <3>5. QED
      BY <1>4, <2>0, <3>1, <3>2, <3>4 DEF States
  <2>7. CASE Loaded(i) \/ Die(i) \/ Leave(i)
    <3>1. /\ at' = [at EXCEPT ![i] = "idle"] /\ about' = [about EXCEPT ![i] = Min(Companies)]
          /\ todo' = todo \/ todo' = [todo EXCEPT ![i] = {}]
          /\ todo' = todo => todo[i] = {}
          /\ faults' \in 0 .. MaxFaults
          /\ UNCHANGED <<published, companies, facts, rejected, quarantined>>
      BY <2>7, FactsAssumption DEF Loaded, Die, Leave, Finish, Become, Stored, Fault
    <3>2. QED
      BY <1>4, <2>0, <3>1, FirstCompany DEF States
  <2>8. QED
    BY <1>5, <2>1, <2>2, <2>3, <2>4, <2>5, <2>6, <2>7 DEF AttemptMove, Progress
<1>6. QED
  BY <1>2, <1>3, <1>5 DEF StoreMove

-----------------------------------------------------------------------------
(* The types of the backfill and of the reconciliation *)

Working == {"resume", "next", "attempt"}

RunsKnown == \A s \in Sessions : session[s] \in Working => run[s] \in Runs

LEMMA BackfillTypesStep ==
  ASSUME TypeOK, RunsKnown, StoreTypeOK', Forward, [Next]_vars
  PROVE  BackfillTypeOK' /\ RunsKnown'
<1> USE DEF TypeOK
<1>0. /\ Sessions \subseteq Ingesters /\ MaxRuns \in Nat
      /\ sinceStart \in [Runs -> SUBSET published']
      /\ \A s \in Sessions : run[s] \in 0 .. MaxRuns
      /\ 0 \in 0 .. MaxRuns /\ Runs \subseteq 0 .. MaxRuns
  BY SessionsAssumption DEF BackfillTypeOK, Forward, Runs
<1>1. ASSUME UNCHANGED backfillVars, \A s \in Sessions : session[s] # "attempt" => at'[s] = "idle"
      PROVE  BackfillTypeOK' /\ RunsKnown'
  BY <1>0, <1>1 DEF backfillVars, BackfillTypeOK, RunsKnown, Runs, Marks
<1>2. ASSUME NEW s \in Sessions, FindRun(s) PROVE BackfillTypeOK' /\ RunsKnown'
  <2>1. UNCHANGED <<at, status, mark, pending, sinceStart>>
    BY <1>2 DEF FindRun, storeVars
  <2>2. CASE \E r \in LatestRunning : /\ run' = [run EXCEPT ![s] = r] /\ GoOn(s, "resume")
                                      /\ shared' \subseteq shared \cup {r}
    <3>1. PICK r \in Runs : /\ status[r] = "running" /\ run' = [run EXCEPT ![s] = r]
                            /\ GoOn(s, "resume") /\ shared' \subseteq shared \cup {r}
      BY <2>2 DEF LatestRunning
    <3>2. session' = [session EXCEPT ![s] = "resume"] /\ session[s] = "off"
      BY <1>2, <3>1 DEF GoOn, FindRun
    <3>3. /\ session' \in [Sessions -> {"off", "create", "resume", "next", "attempt"}]
          /\ run' \in [Sessions -> 0 .. MaxRuns] /\ shared' \subseteq Runs
      BY <1>0, <3>1, <3>2 DEF BackfillTypeOK
    <3>4. /\ \A t \in Sessions : session'[t] \in Working => status[run'[t]] # "none" /\ run'[t] \in Runs
          /\ \A t \in Sessions : session'[t] # "attempt" => at[t] = "idle"
      BY <3>1, <3>2 DEF BackfillTypeOK, RunsKnown, Working
    <3>5. QED
      BY <1>0, <2>1, <3>3, <3>4 DEF BackfillTypeOK, RunsKnown, Runs, Marks, Working
  <2>3. CASE GoOn(s, "create") /\ UNCHANGED <<run, shared>>
    <3>1. session' = [session EXCEPT ![s] = "create"] /\ session[s] = "off"
      BY <1>2, <2>3 DEF GoOn, FindRun
    <3>2. /\ session' \in [Sessions -> {"off", "create", "resume", "next", "attempt"}]
          /\ \A t \in Sessions : session'[t] \in Working => session[t] \in Working
          /\ \A t \in Sessions : session'[t] # "attempt" => at[t] = "idle"
      BY <3>1 DEF BackfillTypeOK, Working
    <3>3. QED
      BY <1>0, <2>1, <2>3, <3>2 DEF BackfillTypeOK, RunsKnown, Runs, Marks, Working
  <2>4. QED
    BY <1>2, <2>2, <2>3 DEF FindRun
<1>3. ASSUME NEW s \in Sessions, ResumeRun(s) PROVE BackfillTypeOK' /\ RunsKnown'
  <2>1. /\ UNCHANGED <<at, status, mark, run, sinceStart, shared>> /\ session[s] = "resume"
        /\ session' = [session EXCEPT ![s] = "next"] /\ pending' = [pending EXCEPT ![s] = Pending(run[s])]
    BY <1>3 DEF ResumeRun, storeVars, GoOn
  <2>2. /\ session' \in [Sessions -> {"off", "create", "resume", "next", "attempt"}]
        /\ pending' \in [Sessions -> SUBSET Companies]
        /\ \A t \in Sessions : session'[t] \in Working => session[t] \in Working
        /\ \A t \in Sessions : session'[t] # "attempt" => at[t] = "idle"
    BY <2>1 DEF BackfillTypeOK, Working, Pending
  <2>3. QED
    BY <1>0, <2>1, <2>2 DEF BackfillTypeOK, RunsKnown, Runs, Marks, Working
<1>4. ASSUME NEW s \in Sessions, CreateRun(s) PROVE BackfillTypeOK' /\ RunsKnown'
  <2>1. PICK r \in Runs : /\ status[r] = "none" /\ status' = [status EXCEPT ![r] = "running"]
                          /\ mark' = [mark EXCEPT ![r] = [c \in Companies |-> "pending"]]
                          /\ run' = [run EXCEPT ![s] = r]
                          /\ sinceStart' = [sinceStart EXCEPT ![r] = published]
    BY <1>4 DEF CreateRun
  <2>2. /\ UNCHANGED <<at, shared>> /\ session[s] = "create"
        /\ session' = [session EXCEPT ![s] = "next"] /\ pending' = [pending EXCEPT ![s] = Companies]
    BY <1>4 DEF CreateRun, storeVars, GoOn
  <2>3. /\ session' \in [Sessions -> {"off", "create", "resume", "next", "attempt"}]
        /\ pending' \in [Sessions -> SUBSET Companies] /\ run' \in [Sessions -> 0 .. MaxRuns]
        /\ status' \in [Runs -> {"none", "running", "completed"}]
        /\ sinceStart' \in [Runs -> SUBSET published']
    BY <1>0, <2>1, <2>2 DEF BackfillTypeOK, Forward
  <2>4. mark' \in [Runs -> [Companies -> Marks]]
    BY <2>1 DEF BackfillTypeOK, Marks
  <2>5. ASSUME NEW q \in Runs PROVE status'[q] = "none" <=> \A c \in Companies : mark'[q][c] = "none"
    <3>1. CASE q = r
      <4>1. status'[q] = "running" /\ \A c \in Companies : mark'[q][c] = "pending"
        BY <2>1, <3>1 DEF BackfillTypeOK
      <4>2. QED
        BY <4>1, FactsAssumption
    <3>2. CASE q # r
      <4>1. status'[q] = status[q] /\ mark'[q] = mark[q]
        BY <2>1, <3>2 DEF BackfillTypeOK
      <4>2. QED
        BY <4>1 DEF BackfillTypeOK
    <3>3. QED
      BY <3>1, <3>2
  <2>6. ASSUME NEW t \in Sessions PROVE /\ session'[t] \in Working => status'[run'[t]] # "none" /\ run'[t] \in Runs
                                        /\ session'[t] # "attempt" => at[t] = "idle"
    BY <2>1, <2>2, <2>6 DEF BackfillTypeOK, RunsKnown, Working
  <2>7. QED
    BY <1>0, <2>2, <2>3, <2>4, <2>5, <2>6 DEF BackfillTypeOK, RunsKnown, Runs, Working
<1>5. ASSUME NEW s \in Sessions, NextCompany(s) PROVE BackfillTypeOK' /\ RunsKnown'
  <2>1. /\ UNCHANGED <<status, mark, run, sinceStart, shared>> /\ session[s] = "next"
        /\ session' = [session EXCEPT ![s] = "attempt"] /\ pending' = [pending EXCEPT ![s] = @ \ {Min(@)}]
        /\ \E st \in States : at' = [at EXCEPT ![s] = st]
    BY <1>5 DEF NextCompany, GoOn, Attempt, Become, States
  <2>2. /\ session' \in [Sessions -> {"off", "create", "resume", "next", "attempt"}]
        /\ pending' \in [Sessions -> SUBSET Companies]
        /\ \A t \in Sessions : session'[t] \in Working => session[t] \in Working
    BY <2>1 DEF BackfillTypeOK, Working
  <2>3. \A t \in Sessions : session'[t] # "attempt" => at'[t] = "idle"
    BY <1>0, <2>1 DEF BackfillTypeOK, StoreTypeOK
  <2>4. QED
    BY <1>0, <2>1, <2>2, <2>3 DEF BackfillTypeOK, RunsKnown, Runs, Marks, Working
<1>6. ASSUME NEW s \in Sessions, Ingest(s) PROVE BackfillTypeOK' /\ RunsKnown'
  <2>1. /\ UNCHANGED backfillVars /\ session[s] = "attempt"
        /\ \E st \in States : at' = [at EXCEPT ![s] = st] \/ at' = at
    BY <1>6 DEF Ingest, Progress, Fetch, UpsertCompany, StoreFact, Fail, Succeed, Become, States
  <2>2. \A t \in Sessions : session[t] # "attempt" => at'[t] = "idle"
    BY <1>0, <2>1 DEF BackfillTypeOK, StoreTypeOK
  <2>3. QED
    BY <1>1, <2>1, <2>2
<1>7. ASSUME NEW s \in Sessions, Mark(s) PROVE BackfillTypeOK' /\ RunsKnown'
  <2>1. /\ UNCHANGED <<status, run, pending, sinceStart, shared>> /\ session[s] = "attempt"
        /\ session' = [session EXCEPT ![s] = "next"] /\ at' = [at EXCEPT ![s] = "idle"]
        /\ \E m \in {"success", "failed"} : mark' = [mark EXCEPT ![run[s]][about[s]] = m]
    BY <1>7 DEF Mark, GoOn, Finish, Become
  <2>2. run[s] \in Runs /\ about[s] \in Companies /\ status[run[s]] # "none"
    BY <1>0, <2>1 DEF RunsKnown, BackfillTypeOK, StoreTypeOK, Working
  <2>3. PICK m \in {"success", "failed"} : mark' = [mark EXCEPT ![run[s]][about[s]] = m]
    BY <2>1
  <2>4. /\ mark' \in [Runs -> [Companies -> Marks]] /\ mark'[run[s]][about[s]] = m
        /\ \A q \in Runs \ {run[s]} : mark'[q] = mark[q]
    BY <2>2, <2>3 DEF BackfillTypeOK, Marks
  <2>5. ASSUME NEW q \in Runs PROVE status[q] = "none" <=> \A c \in Companies : mark'[q][c] = "none"
    BY <2>2, <2>4, <2>5 DEF BackfillTypeOK
  <2>6. /\ session' \in [Sessions -> {"off", "create", "resume", "next", "attempt"}]
        /\ \A t \in Sessions : session'[t] \in Working => session[t] \in Working
        /\ \A t \in Sessions : session'[t] # "attempt" => at'[t] = "idle"
    BY <1>0, <2>1 DEF BackfillTypeOK, StoreTypeOK, Working
  <2>7. QED
    BY <1>0, <2>1, <2>4, <2>5, <2>6 DEF BackfillTypeOK, RunsKnown, Runs, Working
<1>8. ASSUME NEW s \in Sessions, CompleteRun(s) PROVE BackfillTypeOK' /\ RunsKnown'
  <2>1. /\ UNCHANGED <<at, mark, pending, sinceStart, shared>> /\ session[s] = "next"
        /\ session' = [session EXCEPT ![s] = "off"] /\ run' = [run EXCEPT ![s] = 0]
        /\ status' = [status EXCEPT ![run[s]] = "completed"]
    BY <1>8 DEF CompleteRun, GoOn, storeVars
  <2>2. run[s] \in Runs /\ status[run[s]] # "none"
    BY <2>1 DEF RunsKnown, BackfillTypeOK, Working
  <2>3. /\ session' \in [Sessions -> {"off", "create", "resume", "next", "attempt"}]
        /\ run' \in [Sessions -> 0 .. MaxRuns]
        /\ status' \in [Runs -> {"none", "running", "completed"}]
        /\ \A q \in Runs : status'[q] = "none" <=> status[q] = "none"
    BY <1>0, <2>1, <2>2 DEF BackfillTypeOK
  <2>4. ASSUME NEW t \in Sessions PROVE /\ session'[t] \in Working => status'[run'[t]] # "none" /\ run'[t] \in Runs
                                        /\ session'[t] # "attempt" => at[t] = "idle"
    BY <2>1, <2>2, <2>3, <2>4 DEF BackfillTypeOK, RunsKnown, Working
  <2>5. QED
    BY <1>0, <2>1, <2>3, <2>4 DEF BackfillTypeOK, RunsKnown, Runs, Marks, Working
<1>9. ASSUME NEW s \in Sessions, EndSession(s) PROVE BackfillTypeOK' /\ RunsKnown'
  <2>1. /\ UNCHANGED <<status, mark, sinceStart, shared>> /\ at' = [at EXCEPT ![s] = "idle"]
        /\ session' = [session EXCEPT ![s] = "off"] /\ run' = [run EXCEPT ![s] = 0]
        /\ pending' = [pending EXCEPT ![s] = {}]
    BY <1>9 DEF EndSession, GoOn, Die, Finish, Become
  <2>2. /\ session' \in [Sessions -> {"off", "create", "resume", "next", "attempt"}]
        /\ run' \in [Sessions -> 0 .. MaxRuns] /\ pending' \in [Sessions -> SUBSET Companies]
    BY <1>0, <2>1 DEF BackfillTypeOK
  <2>3. ASSUME NEW t \in Sessions PROVE /\ session'[t] \in Working => status[run'[t]] # "none" /\ run'[t] \in Runs
                                        /\ session'[t] # "attempt" => at'[t] = "idle"
    BY <1>0, <2>1, <2>3 DEF BackfillTypeOK, RunsKnown, StoreTypeOK, Working
  <2>4. QED
    BY <1>0, <2>1, <2>2, <2>3 DEF BackfillTypeOK, RunsKnown, Runs, Marks, Working
<1>10. ASSUME NEW i \in Loaders, Bulk(i), UNCHANGED backfillVars PROVE BackfillTypeOK' /\ RunsKnown'
  <2>1. i \in Ingesters /\ i \notin Sessions
    BY DEF Loaders
  <2>2. \E st : at' = [at EXCEPT ![i] = st] \/ at' = at
    BY <1>10 DEF Bulk, Load, UpsertCompany, StoreFact, Loaded, Die, Finish, Become
  <2>3. \A t \in Sessions : at'[t] = at[t]
    BY <1>0, <2>1, <2>2 DEF StoreTypeOK
  <2>4. QED
    BY <1>1, <1>10, <2>3 DEF BackfillTypeOK
<1>11. CASE ReconciliationNext /\ UNCHANGED backfillVars
  <2>1. UNCHANGED at
    BY <1>11 DEF ReconciliationNext, BuildArchive, StartReconciliation, BeginDownload, FinishDownload,
                 ReadEntry, Reconcile, Complete, FailRun, storeVars
  <2>2. QED
    BY <1>1, <1>11, <2>1 DEF BackfillTypeOK
<1>12. CASE Publish /\ UNCHANGED backfillVars
  BY <1>1, <1>12 DEF BackfillTypeOK, Publish
<1>13. CASE UNCHANGED vars
  BY <1>1, <1>13 DEF BackfillTypeOK, vars, storeVars
<1>14. QED
  BY <1>2, <1>3, <1>4, <1>5, <1>6, <1>7, <1>8, <1>9, <1>10, <1>11, <1>12, <1>13 DEF Next, BackfillNext

LEMMA ReconciliationTypesStep ==
  ASSUME TypeOK, EntriesSound, Forward, [Next]_vars
  PROVE  ReconciliationTypeOK' /\ EntriesSound'
<1> USE DEF TypeOK
<1> DEFINE Pcs == {"idle", "download", "writing", "next", "compare", "completed", "failed"}
           SoundZip == zip' \in {NoZip, Partial} \/ zip' \subseteq archive'
<1>0. /\ published \subseteq published' /\ companies \subseteq companies'
      /\ facts \subseteq facts'
  BY DEF Forward
<1>1. ASSUME archive \subseteq archive', archive' \subseteq published', SoundZip,
             runPc' \in [Reconcilers -> Pcs], left' \in [Reconcilers -> SUBSET Companies],
             entry' \in [Reconcilers -> SUBSET Facts], current' \in [Reconcilers -> SUBSET facts],
             notStored' \in [Reconcilers -> SUBSET Companies], base' \in [Reconcilers -> SUBSET archive'],
             \A k \in Reconcilers : runPc'[k] = "compare" => entry'[k] # {},
             \A k \in Reconcilers : \A f \in entry'[k] : f.company \in companies /\ f.accn \in published
      PROVE  ReconciliationTypeOK' /\ EntriesSound'
  BY <1>0, <1>1 DEF ReconciliationTypeOK, EntriesSound
<1>2. CASE UNCHANGED reconciliationVars
  BY <1>0, <1>1, <1>2 DEF ReconciliationTypeOK, EntriesSound, reconciliationVars
<1>3. CASE BuildArchive
  <2>1. archive' = published /\ UNCHANGED <<zip, runPc, left, entry, current, notStored, base>>
    BY <1>3 DEF BuildArchive
  <2>2. archive \subseteq archive' /\ base \in [Reconcilers -> SUBSET archive']
    BY <2>1 DEF ReconciliationTypeOK
  <2>3. QED
    BY <1>0, <1>1, <2>1, <2>2 DEF ReconciliationTypeOK, EntriesSound
<1>4. ASSUME NEW k \in Reconcilers, StartReconciliation(k) PROVE ReconciliationTypeOK' /\ EntriesSound'
  <2>1. /\ UNCHANGED <<archive, zip, entry, current>> /\ runPc' = [runPc EXCEPT ![k] = "download"]
        /\ left' = [left EXCEPT ![k] = Companies] /\ notStored' = [notStored EXCEPT ![k] = {}]
        /\ base' = [base EXCEPT ![k] = archive]
    BY <1>4 DEF StartReconciliation, GoTo
  <2>2. QED
    BY <1>0, <1>1, <2>1 DEF ReconciliationTypeOK, EntriesSound
<1>5. ASSUME NEW k \in Reconcilers, BeginDownload(k) PROVE ReconciliationTypeOK' /\ EntriesSound'
  <2>1. /\ UNCHANGED <<archive, left, entry, current, notStored, base>>
        /\ runPc' = [runPc EXCEPT ![k] = "writing"] /\ zip' = Partial
    BY <1>5 DEF BeginDownload, GoTo
  <2>2. QED
    BY <1>0, <1>1, <2>1 DEF ReconciliationTypeOK, EntriesSound
<1>6. ASSUME NEW k \in Reconcilers, FinishDownload(k) PROVE ReconciliationTypeOK' /\ EntriesSound'
  <2>1. /\ UNCHANGED <<archive, left, entry, current, notStored, base>>
        /\ runPc' = [runPc EXCEPT ![k] = "next"]
        /\ zip' = zip \/ zip' = archive
    BY <1>6 DEF FinishDownload, GoTo
  <2>2. SoundZip
    BY <2>1 DEF ReconciliationTypeOK
  <2>3. /\ runPc' \in [Reconcilers -> Pcs]
        /\ \A j \in Reconcilers : runPc'[j] = "compare" => runPc[j] = "compare"
    BY <2>1 DEF ReconciliationTypeOK
  <2>4. QED
    BY <1>0, <1>1, <2>1, <2>2, <2>3 DEF ReconciliationTypeOK, EntriesSound
<1>7. ASSUME NEW k \in Reconcilers, ReadEntry(k) PROVE ReconciliationTypeOK' /\ EntriesSound'
  <2>1. PICK c \in left[k] :
          /\ Document(c, zip) # {} /\ left' = [left EXCEPT ![k] = @ \ {c}]
          /\ \/ /\ c \in companies /\ runPc' = [runPc EXCEPT ![k] = "compare"]
                /\ entry' = [entry EXCEPT ![k] = Document(c, zip)]
                /\ current' = [current EXCEPT ![k] = Current(c)] /\ UNCHANGED notStored
             \/ notStored' = [notStored EXCEPT ![k] = @ \cup {c}] /\ UNCHANGED <<runPc, entry, current>>
    BY <1>7 DEF ReadEntry, GoTo
  <2>2. /\ UNCHANGED <<archive, zip, base>> /\ zip \subseteq archive /\ archive \subseteq published
        /\ c \in Companies
    BY <1>7, <2>1 DEF ReadEntry, Readable, ReconciliationTypeOK
  <2>3. /\ Document(c, zip) \subseteq Facts /\ Current(c) \subseteq facts
        /\ \A f \in Document(c, zip) : f.company = c /\ f.accn \in published
    BY <2>2 DEF Document, Current
  <2>4. /\ left' \in [Reconcilers -> SUBSET Companies]
        /\ notStored' \in [Reconcilers -> SUBSET Companies]
        /\ runPc' \in [Reconcilers -> Pcs] /\ entry' \in [Reconcilers -> SUBSET Facts]
        /\ current' \in [Reconcilers -> SUBSET facts]
    BY <2>1, <2>2, <2>3 DEF ReconciliationTypeOK
  <2>5. \A j \in Reconcilers : runPc'[j] = "compare" => entry'[j] # {}
    BY <2>1 DEF ReconciliationTypeOK
  <2>6. \A j \in Reconcilers : \A f \in entry'[j] : f.company \in companies /\ f.accn \in published
    BY <2>1, <2>3 DEF ReconciliationTypeOK, EntriesSound
  <2>7. QED
    BY <1>0, <1>1, <2>2, <2>4, <2>5, <2>6 DEF ReconciliationTypeOK
<1>8. ASSUME NEW k \in Reconcilers, Reconcile(k) PROVE ReconciliationTypeOK' /\ EntriesSound'
  <2>1. /\ UNCHANGED <<archive, zip, left, notStored, base>>
        /\ runPc' = [runPc EXCEPT ![k] = "next"]
        /\ entry' = [entry EXCEPT ![k] = {}] /\ current' = [current EXCEPT ![k] = {}]
    BY <1>8 DEF Reconcile, GoTo
  <2>2. QED
    BY <1>0, <1>1, <2>1 DEF ReconciliationTypeOK, EntriesSound
<1>9. ASSUME NEW k \in Reconcilers, Complete(k) PROVE ReconciliationTypeOK' /\ EntriesSound'
  <2>1. /\ UNCHANGED <<archive, entry, current, notStored, base>> /\ zip' = NoZip
        /\ runPc' = [runPc EXCEPT ![k] = "completed"] /\ left' = [left EXCEPT ![k] = {}]
    BY <1>9 DEF Complete, GoTo
  <2>2. QED
    BY <1>0, <1>1, <2>1 DEF ReconciliationTypeOK, EntriesSound
<1>10. ASSUME NEW k \in Reconcilers, FailRun(k) PROVE ReconciliationTypeOK' /\ EntriesSound'
  <2>1. /\ UNCHANGED archive /\ zip' = NoZip
        /\ runPc' = [runPc EXCEPT ![k] = "failed"] /\ left' = [left EXCEPT ![k] = {}]
        /\ notStored' = [notStored EXCEPT ![k] = {}] /\ base' = [base EXCEPT ![k] = {}]
        /\ entry' = [entry EXCEPT ![k] = {}] /\ current' = [current EXCEPT ![k] = {}]
    BY <1>10 DEF FailRun, GoTo
  <2>2. QED
    BY <1>0, <1>1, <2>1 DEF ReconciliationTypeOK, EntriesSound
<1>11. QED
  BY <1>2, <1>3, <1>4, <1>5, <1>6, <1>7, <1>8, <1>9, <1>10 DEF Next, ReconciliationNext, vars

-----------------------------------------------------------------------------
(* Types *)

Typed == TypeOK /\ RunsKnown /\ AttemptsSound /\ EntriesSound

LEMMA TypesStep ==
  ASSUME Typed, [Next]_vars
  PROVE  Typed' /\ StoreMove /\ Forward
<1>1. StoreMove
  BY StoreMoves DEF Typed
<1>2. StoreTypeOK' /\ AttemptsSound' /\ Forward
  BY <1>1, StoreTypesStep DEF Typed, TypeOK, ReconciliationTypeOK
<1>3. QED
  BY <1>1, <1>2, BackfillTypesStep, ReconciliationTypesStep DEF Typed, TypeOK

LEMMA TypesHold == Spec => []Typed
<1>1. ASSUME Init PROVE Typed
  <2> USE <1>1 DEF Init
  <2>1. /\ StoreTypeOK /\ AttemptsSound /\ \A s \in Sessions : at[s] = "idle"
    BY FirstCompany, FactsAssumption, SessionsAssumption
    DEF StoreInit, StoreTypeOK, AttemptsSound, States
  <2>2. MaxRuns \in Nat /\ 0 \in 0 .. MaxRuns
    BY SessionsAssumption
  <2>3. \A r \in Runs : status[r] = "none" <=> \A c \in Companies : mark[r][c] = "none"
    BY DEF BackfillInit
  <2>4. BackfillTypeOK /\ RunsKnown
    BY <2>1, <2>2, <2>3 DEF BackfillInit, BackfillTypeOK, RunsKnown, Working, Marks
  <2>5. ReconciliationTypeOK /\ EntriesSound
    BY <2>1 DEF StoreInit, ReconciliationInit, ReconciliationTypeOK, EntriesSound
  <2>6. QED
    BY <2>1, <2>4, <2>5 DEF Typed, TypeOK
<1>2. ASSUME Typed, [Next]_vars PROVE Typed'
  BY <1>2, TypesStep
<1>3. QED
  BY <1>1, <1>2, PTL DEF Spec

(* Every variable keeps its type; what is stored has been published and is of
   a stored company; a run in the table has its manifest. *)
THEOREM TypeCorrect == Spec => []TypeOK
BY TypesHold, PTL DEF Typed

-----------------------------------------------------------------------------
(* The value served *)

NeverBack ==
  \A c \in Companies : \A f \in Current(c) :
    \E g \in Current(c)' : g.end = f.end /\ g.filed >= f.filed

LEMMA NeverBackStep ==
  ASSUME TypeOK, Forward
  PROVE  NeverBack
<1> SUFFICES ASSUME NEW c \in Companies, NEW f \in Current(c)
             PROVE  \E g \in Current(c)' : g.end = f.end /\ g.filed >= f.filed
  BY DEF NeverBack
<1>1. /\ f \in facts /\ f.company = c /\ facts \subseteq Facts
      /\ \A g \in facts : g.company = c /\ g.end = f.end => ~(g.filed > f.filed)
  BY DEF Current, Restated, TypeOK, StoreTypeOK
<1>2. \A g \in Facts : g.filed \in Nat
  BY FactsAssumption
<1>3. CASE UNCHANGED facts
  BY <1>1, <1>2, <1>3 DEF Current, Restated
<1>4. ASSUME NEW h \in Facts, facts' = facts \cup {h}
      PROVE  \E g \in Current(c)' : g.end = f.end /\ g.filed >= f.filed
  <2>1. CASE h.company = c /\ h.end = f.end /\ h.filed > f.filed
    <3>1. \A g \in facts' : g.company = c /\ g.end = h.end => ~(g.filed > h.filed)
      BY <1>1, <1>2, <1>4, <2>1
    <3>2. h \in Current(c)'
      BY <1>4, <2>1, <3>1 DEF Current, Restated
    <3>3. QED
      BY <1>1, <1>2, <2>1, <3>2
  <2>2. CASE ~(h.company = c /\ h.end = f.end /\ h.filed > f.filed)
    <3>1. f \in Current(c)'
      BY <1>1, <1>4, <2>2 DEF Current, Restated
    <3>2. QED
      BY <1>1, <1>2, <3>1
  <2>3. QED
    BY <2>1, <2>2
<1>5. QED
  BY <1>3, <1>4 DEF Forward

(* Whoever stores what in whatever order, an older document or a reconciliation
   included, the value served for a period never goes back to an earlier filing. *)
THEOREM ServedNeverGoesBack == Spec => CurrentNeverGoesBack
<1>1. ASSUME Typed, [Next]_vars
      PROVE  [\A c \in Companies : \A f \in Current(c) :
               \E g \in Current(c)' : g.end = f.end /\ g.filed >= f.filed]_facts
  BY <1>1, TypesStep, NeverBackStep DEF Typed, NeverBack
<1>2. QED
  BY <1>1, TypesHold, PTL DEF Spec, CurrentNeverGoesBack

(* Every stored fact is served, or one of a later filing for its period. *)
Served(f) == \E g \in Current(f.company) : g.end = f.end /\ g.filed >= f.filed
Covered == \A f \in facts : Served(f)

LEMMA CoveredStep ==
  ASSUME TypeOK, Covered, Forward
  PROVE  Covered'
<1>1. NeverBack
  BY NeverBackStep
<1>2. /\ facts \subseteq Facts
      /\ \A g \in Facts : g.filed \in Nat /\ g.company \in Companies
      /\ \A c : Current(c) \subseteq facts
  BY FactsAssumption DEF TypeOK, StoreTypeOK, Current
<1>3. ASSUME NEW f \in facts PROVE Served(f)'
  <2>1. PICK g \in Current(f.company) : g.end = f.end /\ g.filed >= f.filed
    BY DEF Covered, Served
  <2>2. PICK h \in Current(f.company)' : h.end = g.end /\ h.filed >= g.filed
    BY <1>1, <1>2 DEF NeverBack
  <2>3. f \in Facts /\ g \in Facts /\ h \in Facts
    <3>1. facts' \subseteq Facts
      BY <1>2 DEF Forward
    <3>2. h \in facts'
      BY DEF Current
    <3>3. QED
      BY <1>2, <3>1, <3>2
  <2>4. h.end = f.end /\ h.filed >= f.filed
    BY <1>2, <2>1, <2>2, <2>3
  <2>5. QED
    BY <2>4 DEF Served
<1>4. ASSUME NEW h \in Facts, facts' = facts \cup {h}, h \notin facts PROVE Served(h)'
  <2>1. CASE \A g \in facts' : g.company = h.company /\ g.end = h.end => ~(g.filed > h.filed)
    <3>1. h \in Current(h.company)'
      BY <1>4, <2>1 DEF Current, Restated
    <3>2. QED
      BY <1>2, <3>1 DEF Served
  <2>2. ASSUME NEW g \in facts', g.company = h.company, g.end = h.end, g.filed > h.filed
        PROVE  Served(h)'
    <3>1. g \in facts
      BY <1>2, <1>4, <2>2
    <3>2. PICK k \in Current(g.company)' : k.end = g.end /\ k.filed >= g.filed
      BY <1>3, <3>1 DEF Served
    <3>3. k \in facts'
      BY DEF Current
    <3>4. k.filed \in Nat /\ g.filed \in Nat /\ h.filed \in Nat
      BY <1>2, <1>4, <3>1, <3>3
    <3>5. k.end = h.end /\ k.filed >= h.filed
      BY <2>2, <3>2, <3>4
    <3>6. QED
      BY <2>2, <3>5 DEF Served
  <2>3. QED
    BY <2>1, <2>2
<1>5. QED
  BY <1>3, <1>4 DEF Forward, Covered

(* What is served for f's period, or refused as implausible, stays so. *)
Settled(f, c) == ~Plausible(f) \/ \E g \in Current(c) : g.end = f.end /\ g.filed >= f.filed

LEMMA SettledStays ==
  ASSUME TypeOK, Forward, NEW c \in Companies, NEW f \in Facts, Settled(f, c)
  PROVE  Settled(f, c)'
<1>1. NeverBack
  BY NeverBackStep
<1>2. \A h \in Facts : h.filed \in Nat
  BY FactsAssumption
<1>3. facts \subseteq Facts /\ facts' \subseteq Facts
  BY DEF TypeOK, StoreTypeOK, Forward
<1>4. CASE Plausible(f)
  <2>1. PICK g \in Current(c) : g.end = f.end /\ g.filed >= f.filed
    BY <1>4 DEF Settled
  <2>2. PICK h \in Current(c)' : h.end = g.end /\ h.filed >= g.filed
    BY <1>1 DEF NeverBack
  <2>3. g \in Facts /\ h \in Facts
    BY <1>3 DEF Current
  <2>4. h.end = f.end /\ h.filed >= f.filed
    BY <1>2, <2>1, <2>2, <2>3
  <2>5. QED
    BY <2>4 DEF Settled
<1>5. QED
  BY <1>4 DEF Settled, Plausible

-----------------------------------------------------------------------------
(* Backfill runs *)

(* A session that goes through its list has every company of its run that is
   still pending on it, or in hand. *)
Listed ==
  \A s \in Sessions :
    /\ session[s] = "next" => Pending(run[s]) \subseteq pending[s]
    /\ session[s] = "attempt" => Pending(run[s]) \subseteq pending[s] \cup {about[s]}

Done == CompletedRunIsDone /\ Listed

(* Two sessions of one run are known of, and one that is alone has on its list
   only what the run has not. *)
Fresh ==
  /\ \A s, t \in Sessions : /\ s # t /\ session[s] \in Working /\ session[t] \in Working
                            /\ run[s] = run[t]
                            => run[s] \in shared
  /\ \A s \in Sessions : session[s] \in Working /\ run[s] \notin shared =>
       /\ session[s] \in {"next", "attempt"} => \A c \in pending[s] : mark[run[s]][c] # "success"
       /\ session[s] = "attempt" => /\ about[s] \notin pending[s]
                                    /\ mark[run[s]][about[s]] # "success"

(* What a session in an attempt has selected from the document it has read,
   and does not have to store any more, is settled. *)
Reading(s, P) ==
  /\ sinceStart[run[s]] \subseteq P
  /\ \A f \in Selected(Document(about[s], P)) : f \in todo[s] \/ Settled(f, about[s])

HonestAt(s) ==
  session[s] = "attempt" /\ at[s] \in {"company", "facts", "success"} =>
    /\ at[s] = "success" => todo[s] = {}
    /\ \E P \in SUBSET published : Reading(s, P)

Honest == SuccessMeansCurrent /\ Covered /\ \A s \in Sessions : HonestAt(s)

(* A step is one session's, or leaves the sessions and the runs alone. *)
Same(t) ==
  /\ session'[t] = session[t] /\ run'[t] = run[t] /\ pending'[t] = pending[t]
  /\ at'[t] = at[t] /\ about'[t] = about[t] /\ todo'[t] = todo[t]

SessionMove(s) ==
  \/ FindRun(s) \/ ResumeRun(s) \/ CreateRun(s) \/ NextCompany(s)
  \/ Ingest(s) \/ Mark(s) \/ CompleteRun(s) \/ EndSession(s)

LEMMA OneSession ==
  ASSUME Typed, [Next]_vars
  PROVE  \/ UNCHANGED backfillVars /\ \A t \in Sessions : Same(t)
         \/ \E s \in Sessions : SessionMove(s) /\ \A t \in Sessions \ {s} : Same(t)
<1> USE DEF Typed, TypeOK
<1>0. /\ Sessions \subseteq Ingesters
      /\ at \in [Ingesters -> States] /\ about \in [Ingesters -> Companies]
      /\ todo \in [Ingesters -> SUBSET Facts]
  BY SessionsAssumption DEF StoreTypeOK
<1>1. ASSUME UNCHANGED backfillVars, UNCHANGED <<at, about, todo>>
      PROVE  \A t \in Sessions : Same(t)
  BY <1>1 DEF backfillVars, Same
<1>2. ASSUME NEW i \in Ingesters, NEW t \in Sessions \ {i},
             \/ \E c : Attempt(i, c) \/ Load(i, c)
             \/ Progress(i) \/ Succeed(i) \/ Loaded(i) \/ Die(i) \/ Mark(i)
      PROVE  at'[t] = at[t] /\ about'[t] = about[t] /\ todo'[t] = todo[t]
  BY <1>0, <1>2 DEF Attempt, Load, Progress, Fetch, UpsertCompany, StoreFact, Fail, Succeed, Loaded, Die, Mark,
                    Become, Finish
<1>3. ASSUME NEW s \in Sessions, SessionMove(s), NEW t \in Sessions \ {s} PROVE Same(t)
  <2>1. session'[t] = session[t] /\ run'[t] = run[t] /\ pending'[t] = pending[t]
    BY <1>3 DEF SessionMove, FindRun, ResumeRun, CreateRun, NextCompany, Ingest, Mark, CompleteRun,
                EndSession, backfillVars, GoOn, BackfillTypeOK
  <2>2. at'[t] = at[t] /\ about'[t] = about[t] /\ todo'[t] = todo[t]
    <3>1. CASE FindRun(s) \/ ResumeRun(s) \/ CreateRun(s) \/ CompleteRun(s)
      BY <3>1 DEF FindRun, ResumeRun, CreateRun, CompleteRun, storeVars
    <3>2. CASE NextCompany(s) \/ Ingest(s) \/ Mark(s) \/ EndSession(s)
      BY <1>0, <1>2, <3>2 DEF NextCompany, Ingest, EndSession
    <3>3. QED
      BY <1>3, <3>1, <3>2 DEF SessionMove
  <2>3. QED
    BY <2>1, <2>2 DEF Same
<1>4. ASSUME NEW i \in Loaders, Bulk(i), UNCHANGED backfillVars, NEW t \in Sessions PROVE Same(t)
  <2>1. i \in Ingesters /\ t \in Sessions \ {i}
    BY DEF Loaders
  <2>2. \/ \E c : Load(i, c)
        \/ Progress(i) \/ Loaded(i) \/ Die(i)
    BY <1>4 DEF Bulk, Progress
  <2>3. at'[t] = at[t] /\ about'[t] = about[t] /\ todo'[t] = todo[t]
    BY <1>2, <2>1, <2>2
  <2>4. QED
    BY <1>4, <2>3 DEF Same, backfillVars
<1>5. CASE ReconciliationNext /\ UNCHANGED backfillVars
  BY <1>1, <1>5 DEF ReconciliationNext, BuildArchive, StartReconciliation, BeginDownload, FinishDownload,
                    ReadEntry, Reconcile, Complete, FailRun, storeVars
<1>6. CASE Publish /\ UNCHANGED backfillVars
  BY <1>1, <1>6 DEF Publish
<1>7. CASE UNCHANGED vars
  BY <1>1, <1>7 DEF vars, storeVars
<1>8. QED
  BY <1>3, <1>4, <1>5, <1>6, <1>7 DEF Next, BackfillNext, SessionMove

LEMMA DoneStep ==
  ASSUME Typed, Typed', Done, [Next]_vars
  PROVE  Done'
<1> USE DEF Typed, TypeOK
<1>0. /\ Sessions \subseteq Ingesters
      /\ \A s \in Sessions : session[s] \in Working => run[s] \in Runs /\ status[run[s]] # "none"
      /\ \A r \in Runs : status[r] = "completed" => Pending(r) = {}
  BY SessionsAssumption DEF RunsKnown, BackfillTypeOK, Working, Done, CompletedRunIsDone, Pending
<1>1. ASSUME UNCHANGED mark,
             \A r \in Runs : status'[r] = "completed" => status[r] = "completed" \/ Pending(r) = {},
             \A s \in Sessions : /\ session'[s] = "next" => Pending(run'[s]) \subseteq pending'[s]
                                 /\ session'[s] = "attempt" => Pending(run'[s]) \subseteq pending'[s] \cup {about'[s]}
      PROVE  Done'
  <2>1. \A r : Pending(r)' = Pending(r)
    BY <1>1 DEF Pending
  <2>2. CompletedRunIsDone'
    BY <1>0, <1>1 DEF CompletedRunIsDone, Pending
  <2>3. Listed'
    BY <1>1 DEF Listed, Pending
  <2>4. QED
    BY <2>2, <2>3 DEF Done
<1>2. CASE UNCHANGED backfillVars /\ \A t \in Sessions : Same(t)
  BY <1>1, <1>2 DEF Done, Listed, Same, backfillVars
<1>3. ASSUME NEW s \in Sessions, SessionMove(s), \A t \in Sessions \ {s} : Same(t)
      PROVE  Done'
  <2>1. CASE FindRun(s)
    <3>1. session'[s] \in {"resume", "create"} /\ UNCHANGED <<status, mark>>
      BY <2>1 DEF FindRun, GoOn, BackfillTypeOK
    <3>2. QED
      BY <1>1, <1>3, <3>1 DEF Done, Listed, Same
  <2>2. CASE ResumeRun(s)
    <3>1. /\ session'[s] = "next" /\ UNCHANGED <<status, mark, run>>
          /\ pending'[s] = Pending(run[s])
      BY <2>2 DEF ResumeRun, GoOn, BackfillTypeOK
    <3>2. QED
      BY <1>1, <1>3, <3>1 DEF Done, Listed, Same
  <2>3. CASE CreateRun(s)
    <3>1. PICK r \in Runs : /\ status[r] = "none" /\ status' = [status EXCEPT ![r] = "running"]
                            /\ mark' = [mark EXCEPT ![r] = [c \in Companies |-> "pending"]]
                            /\ run' = [run EXCEPT ![s] = r]
      BY <2>3 DEF CreateRun
    <3>2. session'[s] = "next" /\ pending'[s] = Companies /\ run'[s] = r
      BY <2>3, <3>1 DEF CreateRun, GoOn, BackfillTypeOK
    <3>3. \A q \in Runs : q # r => status'[q] = status[q] /\ mark'[q] = mark[q]
      BY <3>1 DEF BackfillTypeOK
    <3>4. status'[r] = "running"
      BY <3>1 DEF BackfillTypeOK
    <3>5. CompletedRunIsDone'
      BY <3>3, <3>4 DEF Done, CompletedRunIsDone
    <3>6. \A t \in Sessions \ {s} : session[t] \in Working => run[t] # r /\ mark'[run[t]] = mark[run[t]]
      BY <1>0, <3>1, <3>3
    <3>7. \A q : Pending(q)' \subseteq Companies
      BY DEF Pending
    <3>8. ASSUME NEW t \in Sessions \ {s}, session[t] \in Working PROVE Pending(run[t])' = Pending(run[t])
      BY <1>3, <3>6, <3>8 DEF Pending, Same
    <3>9. Pending(run[s])' \subseteq Companies
      BY DEF Pending
    <3>10. Listed'
      BY <1>3, <3>2, <3>8, <3>9 DEF Done, Listed, Same, Working
    <3>11. QED
      BY <3>5, <3>10 DEF Done
  <2>4. CASE NextCompany(s)
    <3>1. /\ session[s] = "next" /\ session'[s] = "attempt" /\ UNCHANGED <<status, mark, run>>
          /\ pending'[s] = pending[s] \ {Min(pending[s])} /\ about'[s] = Min(pending[s])
      BY <1>0, <2>4 DEF NextCompany, Attempt, GoOn, BackfillTypeOK, StoreTypeOK
    <3>2. QED
      BY <1>1, <1>3, <3>1 DEF Done, Listed, Same
  <2>5. CASE Ingest(s)
    <3>1. UNCHANGED backfillVars /\ about' = about
      BY <2>5 DEF Ingest, Progress, Fetch, UpsertCompany, StoreFact, Fail, Succeed
    <3>2. QED
      BY <1>1, <3>1 DEF Done, Listed, backfillVars
  <2>6. CASE Mark(s)
    <3>0. \E m \in {"success", "failed"} : mark' = [mark EXCEPT ![run[s]][about[s]] = m]
      BY <2>6 DEF Mark
    <3>1. /\ session[s] = "attempt" /\ session'[s] = "next" /\ UNCHANGED <<status, pending, run>>
          /\ \E m \in {"success", "failed"} : mark' = [mark EXCEPT ![run[s]][about[s]] = m]
      <4>1. session[s] = "attempt" /\ session'[s] = "next" /\ UNCHANGED <<status, pending, run>>
        BY <2>6 DEF Mark, GoOn, BackfillTypeOK
      <4>2. QED
        BY <3>0, <4>1
    <3>2. run[s] \in Runs /\ about[s] \in Companies
      BY <1>0, <3>1 DEF StoreTypeOK, Working
    <3>3. /\ \A q \in Runs : \A c \in Companies : mark'[q][c] = "pending" => mark[q][c] = "pending"
          /\ mark'[run[s]][about[s]] # "pending"
      BY <3>1, <3>2 DEF BackfillTypeOK
    <3>4. \A q \in Runs : Pending(q)' \subseteq Pending(q)
      BY <3>3 DEF Pending
    <3>5. CompletedRunIsDone'
      BY <3>1, <3>3 DEF Done, CompletedRunIsDone
    <3>6. ASSUME NEW t \in Sessions \ {s}, session[t] \in Working
          PROVE  Pending(run[t])' \subseteq Pending(run[t])
      BY <1>0, <1>3, <3>4, <3>6 DEF Same, Pending
    <3>7. Pending(run[s])' \subseteq Pending(run[s]) \ {about[s]}
      BY <3>1, <3>2, <3>3 DEF Pending
    <3>8. Listed'
      BY <1>3, <3>1, <3>6, <3>7 DEF Done, Listed, Same, Working
    <3>9. QED
      BY <3>5, <3>8 DEF Done
  <2>7. CASE CompleteRun(s)
    <3>1. /\ session[s] = "next" /\ pending[s] = {} /\ session'[s] = "off" /\ UNCHANGED mark
          /\ status' = [status EXCEPT ![run[s]] = "completed"]
      BY <2>7 DEF CompleteRun, GoOn, BackfillTypeOK
    <3>2. Pending(run[s]) = {}
      BY <3>1 DEF Done, Listed
    <3>3. \A r \in Runs : status'[r] = "completed" => status[r] = "completed" \/ Pending(r) = {}
      BY <3>1, <3>2 DEF BackfillTypeOK
    <3>4. QED
      BY <1>1, <1>3, <3>1, <3>3 DEF Done, Listed, Same
  <2>8. CASE EndSession(s)
    <3>1. session'[s] = "off" /\ UNCHANGED <<status, mark>>
      BY <2>8 DEF EndSession, GoOn, BackfillTypeOK
    <3>2. QED
      BY <1>1, <1>3, <3>1 DEF Done, Listed, Same
  <2>9. QED
    BY <1>3, <2>1, <2>2, <2>3, <2>4, <2>5, <2>6, <2>7, <2>8 DEF SessionMove
<1>4. QED
  BY <1>2, <1>3, OneSession

(* A run is completed only when every company of its manifest has been marked,
   whatever sessions worked for it and wherever they were killed. *)
THEOREM CompletedRunsAreDone == Spec => []CompletedRunIsDone
<1>1. ASSUME Init PROVE Done
  BY <1>1 DEF Init, BackfillInit, Done, CompletedRunIsDone, Listed
<1>2. ASSUME Typed, Typed', Done, [Next]_vars PROVE Done'
  BY <1>2, DoneStep
<1>3. QED
  BY <1>1, <1>2, TypesHold, PTL DEF Spec, Done

LEMMA FreshStep ==
  ASSUME Typed, Typed', Fresh, [Next]_vars
  PROVE  Fresh'
<1> USE DEF Typed, TypeOK
<1>0. /\ Sessions \subseteq Ingesters
      /\ \A s \in Sessions : session[s] \in Working => run[s] \in Runs /\ status[run[s]] # "none"
  BY SessionsAssumption DEF RunsKnown, BackfillTypeOK, Working
<1>1. ASSUME UNCHANGED mark, shared \subseteq shared', NEW s \in Sessions,
             \A t \in Sessions \ {s} : Same(t),
             session'[s] \in Working => session[s] \in Working /\ run'[s] = run[s],
             session'[s] = "next" =>
               run[s] \in shared \/ \A c \in pending'[s] : mark[run[s]][c] # "success",
             session'[s] = "attempt" =>
               \/ run[s] \in shared
               \/ /\ about'[s] \notin pending'[s] /\ mark[run[s]][about'[s]] # "success"
                  /\ \A c \in pending'[s] : mark[run[s]][c] # "success"
      PROVE  Fresh'
  BY <1>1 DEF Fresh, Same, Working
<1>2. CASE UNCHANGED backfillVars /\ \A t \in Sessions : Same(t)
  BY <1>2 DEF Fresh, Same, backfillVars
<1>3. ASSUME NEW s \in Sessions, SessionMove(s), \A t \in Sessions \ {s} : Same(t)
      PROVE  Fresh'
  <2>1. CASE FindRun(s)
    <3>1. CASE \E r \in LatestRunning :
                 /\ run' = [run EXCEPT ![s] = r] /\ GoOn(s, "resume")
                 /\ shared' = IF \E t \in Sessions : Live(t, r) THEN shared \cup {r} ELSE shared
      <4>1. PICK r : /\ run' = [run EXCEPT ![s] = r] /\ GoOn(s, "resume")
                     /\ shared' = IF \E t \in Sessions : Live(t, r) THEN shared \cup {r} ELSE shared
        BY <3>1
      <4>2. /\ session'[s] = "resume" /\ run'[s] = r /\ shared \subseteq shared' /\ UNCHANGED mark
            /\ \A t \in Sessions : session[t] \in Working /\ run[t] = r => r \in shared'
        BY <2>1, <4>1 DEF GoOn, BackfillTypeOK, FindRun, Live, Working
      <4>3. QED
        BY <1>3, <4>2 DEF Fresh, Same, Working
    <3>2. CASE GoOn(s, "create") /\ UNCHANGED <<run, shared>>
      <4>1. session'[s] = "create" /\ UNCHANGED mark
        BY <2>1, <3>2 DEF GoOn, BackfillTypeOK, FindRun
      <4>2. QED
        BY <1>1, <1>3, <3>2, <4>1 DEF Working
    <3>3. QED
      BY <2>1, <3>1, <3>2 DEF FindRun
  <2>2. CASE ResumeRun(s)
    <3>1. /\ session[s] = "resume" /\ session'[s] = "next" /\ UNCHANGED <<mark, run, shared>>
          /\ pending'[s] = Pending(run[s])
      BY <2>2 DEF ResumeRun, GoOn, BackfillTypeOK
    <3>2. QED
      BY <1>1, <1>3, <3>1 DEF Working, Pending
  <2>3. CASE CreateRun(s)
    <3>1. PICK r \in Runs : /\ status[r] = "none"
                            /\ mark' = [mark EXCEPT ![r] = [c \in Companies |-> "pending"]]
                            /\ run' = [run EXCEPT ![s] = r]
      BY <2>3 DEF CreateRun
    <3>2. session'[s] = "next" /\ pending'[s] = Companies /\ run'[s] = r /\ UNCHANGED shared
      BY <2>3, <3>1 DEF CreateRun, GoOn, BackfillTypeOK
    <3>3. mark'[r] = [c \in Companies |-> "pending"] /\ \A q \in Runs : q # r => mark'[q] = mark[q]
      BY <3>1 DEF BackfillTypeOK
    <3>4. \A t \in Sessions \ {s} : session[t] \in Working => run[t] # r /\ mark'[run[t]] = mark[run[t]]
      BY <1>0, <3>1, <3>3
    <3>5. QED
      BY <1>3, <3>2, <3>3, <3>4 DEF Fresh, Same, Working
  <2>4. CASE NextCompany(s)
    <3>1. /\ session[s] = "next" /\ session'[s] = "attempt" /\ UNCHANGED <<mark, run, shared>>
          /\ pending'[s] = pending[s] \ {Min(pending[s])} /\ about'[s] = Min(pending[s])
          /\ pending[s] # {}
      BY <1>0, <2>4 DEF NextCompany, Attempt, GoOn, BackfillTypeOK, StoreTypeOK
    <3>2. Min(pending[s]) \in pending[s]
      <4>1. pending[s] \in SUBSET Nat
        BY FactsAssumption DEF BackfillTypeOK
      <4>2. QED
        BY <3>1, <4>1, LeastMember
    <3>3. run[s] \in shared \/ \A c \in pending[s] : mark[run[s]][c] # "success"
      BY <3>1 DEF Fresh, Working
    <3>4. QED
      BY <1>1, <1>3, <3>1, <3>2, <3>3 DEF Working
  <2>5. CASE Ingest(s)
    <3>1. UNCHANGED backfillVars /\ about' = about
      BY <2>5 DEF Ingest, Progress, Fetch, UpsertCompany, StoreFact, Fail, Succeed
    <3>2. QED
      BY <3>1 DEF Fresh, backfillVars
  <2>6. CASE Mark(s)
    <3>1. session[s] = "attempt" /\ session'[s] = "next" /\ UNCHANGED <<run, pending, shared>>
      BY <2>6 DEF Mark, GoOn, BackfillTypeOK
    <3>2. \E m \in Marks : mark' = [mark EXCEPT ![run[s]][about[s]] = m]
      BY <2>6 DEF Mark, Marks
    <3>3. run[s] \in Runs /\ about[s] \in Companies
      BY <1>0, <3>1 DEF StoreTypeOK, Working
    <3>4. /\ \A q \in Runs : q # run[s] => mark'[q] = mark[q]
          /\ \A c \in Companies : c # about[s] => mark'[run[s]][c] = mark[run[s]][c]
      BY <3>2, <3>3 DEF BackfillTypeOK
    <3>5. pending[s] \subseteq Companies
      BY DEF BackfillTypeOK
    <3>6. \A t \in Sessions \ {s} :
            session[t] \in Working => run[t] \in shared \/ mark'[run[t]] = mark[run[t]]
      BY <1>0, <3>1, <3>4 DEF Fresh, Working
    <3>7. run[s] \in shared \/ \A c \in pending[s] : mark'[run[s]][c] # "success"
      BY <3>1, <3>4, <3>5 DEF Fresh, Working
    <3>8. QED
      BY <1>3, <3>1, <3>6, <3>7 DEF Fresh, Same, Working
  <2>7. CASE CompleteRun(s) \/ EndSession(s)
    <3>1. session'[s] = "off" /\ UNCHANGED <<mark, shared>>
      BY <2>7 DEF CompleteRun, EndSession, GoOn, BackfillTypeOK
    <3>2. QED
      BY <1>1, <1>3, <3>1 DEF Working
  <2>8. QED
    BY <1>3, <2>1, <2>2, <2>3, <2>4, <2>5, <2>6, <2>7 DEF SessionMove
<1>4. QED
  BY <1>2, <1>3, OneSession

(* A company already marked successful in a run is attempted again in it only
   if two sessions have worked for the run at once. *)
THEOREM ResumedRunsRedoNothing == Spec => []RedoneForAReason
<1>1. ASSUME Init PROVE Fresh
  BY <1>1 DEF Init, BackfillInit, Fresh, Working
<1>2. ASSUME Typed, Typed', Fresh, [Next]_vars PROVE Fresh'
  BY <1>2, FreshStep
<1>3. ASSUME Fresh PROVE RedoneForAReason
  BY <1>3 DEF Fresh, RedoneForAReason, Working
<1>4. QED
  BY <1>1, <1>2, <1>3, TypesHold, PTL DEF Spec

LEMMA HonestStep ==
  ASSUME Typed, Typed', Honest, Forward, [Next]_vars
  PROVE  Honest'
<1> USE DEF Typed, TypeOK
<1>0. /\ Sessions \subseteq Ingesters
      /\ \A s \in Sessions : about[s] \in Companies
      /\ \A s \in Sessions : session[s] \in Working => run[s] \in Runs /\ status[run[s]] # "none"
      /\ published \subseteq published'
  BY SessionsAssumption DEF RunsKnown, BackfillTypeOK, StoreTypeOK, Working, Forward
<1>1. Covered'
  BY CoveredStep DEF Honest
<1>2. \A c, P : Selected(Document(c, P)) \subseteq Facts
  <2> SUFFICES ASSUME NEW c, NEW P PROVE Selected(Document(c, P)) \subseteq Facts
    OBVIOUS
  <2>1. Selected(Document(c, P)) \subseteq Document(c, P)
    BY Documents
  <2>2. QED
    BY <2>1 DEF Document
<1>3. ASSUME NEW c \in Companies, NEW f \in Facts, Settled(f, c) PROVE Settled(f, c)'
  BY <1>3, SettledStays
<1>4. ASSUME NEW c \in Companies, NEW P, AsCurrentAs(c, P) PROVE AsCurrentAs(c, P)'
  <2>1. \A f \in Selected(Document(c, P)) : Settled(f, c)
    BY <1>4 DEF AsCurrentAs, Settled
  <2>2. \A f \in Selected(Document(c, P)) : Settled(f, c)'
    BY <1>2, <1>3, <2>1
  <2>3. QED
    BY <2>2 DEF AsCurrentAs, Settled
<1>5. ASSUME \A r \in Runs : \A c \in Companies : mark'[r][c] = "success" =>
               \/ mark[r][c] = "success" /\ sinceStart'[r] = sinceStart[r]
               \/ \E P \in SUBSET published : sinceStart'[r] \subseteq P /\ AsCurrentAs(c, P)'
      PROVE  SuccessMeansCurrent'
  <2> SUFFICES ASSUME NEW r \in Runs, NEW c \in Companies, mark'[r][c] = "success"
               PROVE  \E P \in SUBSET published' : sinceStart'[r] \subseteq P /\ AsCurrentAs(c, P)'
    BY DEF SuccessMeansCurrent
  <2>1. CASE mark[r][c] = "success" /\ sinceStart'[r] = sinceStart[r]
    <3>1. PICK P \in SUBSET published : sinceStart[r] \subseteq P /\ AsCurrentAs(c, P)
      BY <2>1 DEF Honest, SuccessMeansCurrent
    <3>2. AsCurrentAs(c, P)'
      BY <1>4, <3>1
    <3>3. QED
      BY <1>0, <2>1, <3>1, <3>2
  <2>2. QED
    BY <1>0, <1>5, <2>1
<1>6. ASSUME NEW t \in Sessions, Same(t),
             session[t] \in Working => sinceStart'[run[t]] = sinceStart[run[t]]
      PROVE  HonestAt(t)'
  <2> SUFFICES ASSUME session'[t] = "attempt", at'[t] \in {"company", "facts", "success"}
               PROVE  /\ at'[t] = "success" => todo'[t] = {}
                      /\ \E P \in SUBSET published' : Reading(t, P)'
    BY DEF HonestAt
  <2>1. session[t] = "attempt" /\ at[t] \in {"company", "facts", "success"}
    BY <1>6 DEF Same
  <2>2. at'[t] = "success" => todo'[t] = {}
    BY <1>6, <2>1 DEF Same, Honest, HonestAt
  <2>3. PICK P \in SUBSET published : Reading(t, P)
    BY <2>1 DEF Honest, HonestAt
  <2>4. \A f \in Selected(Document(about[t], P)) : f \in todo[t] \/ Settled(f, about[t])'
    <3>1. PICK c \in Companies : c = about[t] /\ c = about'[t]
      BY <1>0, <1>6 DEF Same
    <3>2. \A f \in Selected(Document(c, P)) : f \in todo[t] \/ Settled(f, c)'
      BY <1>2, <1>3, <2>3, <3>1 DEF Reading
    <3>3. QED
      BY <3>1, <3>2 DEF Settled
  <2>5. Reading(t, P)'
    BY <1>6, <2>1, <2>3, <2>4 DEF Reading, Same, Settled, Working
  <2>6. QED
    BY <1>0, <2>2, <2>5
<1>7. CASE UNCHANGED backfillVars /\ \A t \in Sessions : Same(t)
  <2>1. SuccessMeansCurrent'
    BY <1>5, <1>7 DEF backfillVars
  <2>2. \A t \in Sessions : HonestAt(t)'
    BY <1>6, <1>7 DEF backfillVars
  <2>3. QED
    BY <1>1, <2>1, <2>2 DEF Honest
<1>8. ASSUME NEW s \in Sessions, SessionMove(s), \A t \in Sessions \ {s} : Same(t)
      PROVE  Honest'
  <2>1. CASE CreateRun(s)
    <3>1. PICK r \in Runs : /\ status[r] = "none"
                            /\ mark' = [mark EXCEPT ![r] = [c \in Companies |-> "pending"]]
                            /\ sinceStart' = [sinceStart EXCEPT ![r] = published]
      BY <2>1 DEF CreateRun
    <3>2. /\ mark'[r] = [c \in Companies |-> "pending"]
          /\ \A q \in Runs \ {r} : mark'[q] = mark[q] /\ sinceStart'[q] = sinceStart[q]
      BY <3>1 DEF BackfillTypeOK
    <3>3. session'[s] = "next"
      BY <2>1 DEF CreateRun, GoOn, BackfillTypeOK
    <3>4. SuccessMeansCurrent'
      BY <1>5, <3>2
    <3>5. \A t \in Sessions \ {s} : HonestAt(t)'
      BY <1>0, <1>6, <1>8, <3>1, <3>2
    <3>6. QED
      BY <1>1, <3>3, <3>4, <3>5 DEF Honest, HonestAt
  <2>2. CASE Mark(s)
    <3>1. /\ session[s] = "attempt" /\ session'[s] = "next" /\ UNCHANGED <<facts, sinceStart>>
      BY <2>2 DEF Mark, GoOn, BackfillTypeOK
    <3>2. mark' = [mark EXCEPT ![run[s]][about[s]] = IF at[s] = "success" THEN "success" ELSE "failed"]
      BY <2>2 DEF Mark
    <3>3. run[s] \in Runs /\ about[s] \in Companies
      BY <1>0, <3>1 DEF Working
    <3>4. \A q \in Runs : \A c \in Companies :
            \/ mark'[q][c] = mark[q][c]
            \/ q = run[s] /\ c = about[s] /\ (mark'[q][c] = "success" => at[s] = "success")
      BY <3>2, <3>3 DEF BackfillTypeOK
    <3>5. ASSUME at[s] = "success"
          PROVE  \E P \in SUBSET published : sinceStart'[run[s]] \subseteq P /\ AsCurrentAs(about[s], P)
      BY <3>1, <3>5 DEF Honest, HonestAt, Reading, AsCurrentAs, Settled
    <3>6. ASSUME NEW q \in Runs, NEW c \in Companies, mark'[q][c] = "success"
          PROVE  \/ mark[q][c] = "success" /\ sinceStart'[q] = sinceStart[q]
                 \/ \E P \in SUBSET published : sinceStart'[q] \subseteq P /\ AsCurrentAs(c, P)'
      BY <1>4, <3>1, <3>4, <3>5, <3>6
    <3>7. SuccessMeansCurrent'
      BY <1>5, <3>6
    <3>8. \A t \in Sessions \ {s} : HonestAt(t)'
      BY <1>6, <1>8, <3>1
    <3>9. QED
      BY <1>1, <3>1, <3>7, <3>8 DEF Honest, HonestAt
  <2>3. CASE Ingest(s)
    <3>1. UNCHANGED <<mark, run, sinceStart, session>> /\ session[s] = "attempt"
      BY <2>3 DEF Ingest, backfillVars
    <3>2. SuccessMeansCurrent'
      BY <1>5, <3>1
    <3>3. \A t \in Sessions \ {s} : HonestAt(t)'
      BY <1>6, <1>8, <3>1
    <3>4. ASSUME Fetch(s) PROVE HonestAt(s)'
      <4>1. at'[s] = "company" /\ about' = about /\ todo'[s] = Selected(Document(about[s], published))
        BY <1>0, <3>4 DEF Fetch, Become, StoreTypeOK
      <4>2. sinceStart[run[s]] \subseteq published
        BY <1>0, <3>1 DEF BackfillTypeOK, Working
      <4>3. Reading(s, published)'
          <=> /\ sinceStart'[run'[s]] \subseteq published'
              /\ \A f \in Selected(Document(about'[s], published')) : f \in todo'[s] \/ Settled(f, about[s])'
        BY <4>1 DEF Reading, Settled
      <4>4. UNCHANGED published
        BY <3>4 DEF Fetch
      <4>5. Reading(s, published)'
        BY <3>1, <4>1, <4>2, <4>3, <4>4
      <4>6. QED
        BY <4>1, <4>4, <4>5 DEF HonestAt
    <3>5. ASSUME UpsertCompany(s) PROVE HonestAt(s)'
      <4>1. /\ at[s] = "company" /\ at'[s] = "facts"
            /\ UNCHANGED <<published, facts, about, todo>>
        BY <1>0, <3>5 DEF UpsertCompany, Become, StoreTypeOK
      <4>2. PICK P \in SUBSET published : Reading(s, P)
        BY <3>1, <4>1 DEF Honest, HonestAt
      <4>3. Reading(s, P)'
        BY <3>1, <4>1, <4>2 DEF Reading, Settled, Current
      <4>4. QED
        BY <4>1, <4>3 DEF HonestAt
    <3>6. ASSUME StoreFact(s) PROVE HonestAt(s)'
      <4>1. PICK f \in todo[s] : Upsert(f) /\ todo' = [todo EXCEPT ![s] = @ \ {f}]
        BY <3>6 DEF StoreFact
      <4>2. at[s] = "facts" /\ UNCHANGED <<published, at, about>>
        BY <3>6 DEF StoreFact
      <4>3. f.company = about[s] /\ f \in Facts
        BY <1>0 DEF AttemptsSound, Document
      <4>4. Settled(f, about[s])'
        BY <1>1, <4>1, <4>2, <4>3 DEF Upsert, Settled, Covered, Served, Plausible
      <4>5. PICK P \in SUBSET published : Reading(s, P)
        BY <3>1, <4>2 DEF Honest, HonestAt
      <4>6. todo'[s] = todo[s] \ {f}
        BY <1>0, <4>1 DEF StoreTypeOK
      <4>7. \A g \in Selected(Document(about[s], P)) : g \in todo'[s] \/ Settled(g, about[s])'
        <5>1. PICK c \in Companies : c = about[s] /\ c = about'[s]
          BY <1>0, <4>2
        <5>2. Settled(f, c)'
          BY <4>4, <5>1 DEF Settled
        <5>3. \A g \in Selected(Document(c, P)) : g \in todo'[s] \/ Settled(g, c)'
          BY <1>2, <1>3, <4>5, <4>6, <5>1, <5>2 DEF Reading
        <5>4. QED
          BY <5>1, <5>3 DEF Settled
      <4>8. Reading(s, P)'
        BY <3>1, <4>2, <4>5, <4>7 DEF Reading, Settled
      <4>9. QED
        BY <4>2, <4>8 DEF HonestAt
    <3>7. ASSUME Fail(s) PROVE HonestAt(s)'
      <4>1. at'[s] = "failed"
        BY <1>0, <3>7 DEF Fail, Become, StoreTypeOK
      <4>2. QED
        BY <4>1 DEF HonestAt
    <3>8. ASSUME Succeed(s) PROVE HonestAt(s)'
      <4>1. /\ at[s] = "facts" /\ at'[s] = "success" /\ todo[s] = {} /\ todo'[s] = {}
            /\ UNCHANGED <<published, facts, about>>
        BY <1>0, <3>8 DEF Succeed, Stored, Become, StoreTypeOK
      <4>2. PICK P \in SUBSET published : Reading(s, P)
        BY <3>1, <4>1 DEF Honest, HonestAt
      <4>3. Reading(s, P)'
        BY <3>1, <4>1, <4>2 DEF Reading, Settled, Current
      <4>4. QED
        BY <4>1, <4>3 DEF HonestAt
    <3>9. HonestAt(s)'
      BY <2>3, <3>4, <3>5, <3>6, <3>7, <3>8 DEF Ingest, Progress
    <3>10. QED
      BY <1>1, <3>2, <3>3, <3>9 DEF Honest
  <2>4. CASE NextCompany(s)
    <3>1. at'[s] \in {"fetch", "skipped"} /\ UNCHANGED <<mark, sinceStart>>
      BY <1>0, <2>4 DEF NextCompany, Attempt, Become, StoreTypeOK
    <3>2. SuccessMeansCurrent'
      BY <1>5, <3>1
    <3>3. \A t \in Sessions \ {s} : HonestAt(t)'
      BY <1>6, <1>8, <3>1
    <3>4. QED
      BY <1>1, <3>1, <3>2, <3>3 DEF Honest, HonestAt
  <2>5. CASE FindRun(s) \/ ResumeRun(s) \/ CompleteRun(s) \/ EndSession(s)
    <3>1. session'[s] # "attempt" /\ UNCHANGED <<mark, sinceStart>>
      BY <2>5 DEF FindRun, ResumeRun, CompleteRun, EndSession, GoOn, BackfillTypeOK
    <3>2. SuccessMeansCurrent'
      BY <1>5, <3>1
    <3>3. \A t \in Sessions \ {s} : HonestAt(t)'
      BY <1>6, <1>8, <3>1
    <3>4. QED
      BY <1>1, <3>1, <3>2, <3>3 DEF Honest, HonestAt
  <2>6. QED
    BY <1>8, <2>1, <2>2, <2>3, <2>4, <2>5 DEF SessionMove
<1>9. QED
  BY <1>7, <1>8, OneSession

(* A company marked successful in a run is as current as SEC was at some moment
   since the run was started, but for what is implausible. *)
THEOREM SuccessIsHonest == Spec => []SuccessMeansCurrent
<1>1. ASSUME Init PROVE Honest
  <2>1. \A r \in Runs : \A c \in Companies : mark[r][c] # "success"
    BY <1>1 DEF Init, BackfillInit
  <2>2. QED
    BY <1>1, <2>1 DEF Init, StoreInit, BackfillInit, Honest, SuccessMeansCurrent, Covered, HonestAt
<1>2. ASSUME Typed, Typed', Honest, [Next]_vars PROVE Honest'
  BY <1>2, HonestStep, TypesStep
<1>3. QED
  BY <1>1, <1>2, TypesHold, PTL DEF Spec, Honest

-----------------------------------------------------------------------------
(* Reconciliations *)

(* d's latest value is stored as the archive had it since k started. *)
Holds(k, d) == \E accns \in SUBSET archive : base[k] \subseteq accns /\ Reconciled(d, accns)

(* A file that can be read was complete after k started. *)
FileSound ==
  \A k \in Reconcilers :
    /\ runPc[k] = "writing" => zip \in {NoZip, Partial}
    /\ runPc[k] \in {"next", "compare"} => zip \in {NoZip, Partial} \/ base[k] \subseteq zip

(* k has dealt with every company but those left, those skipped as not stored,
   and the one in hand. *)
InHand(k, c) ==
  /\ \E P \in SUBSET archive : base[k] \subseteq P /\ entry[k] = Document(c, P)
  /\ \A g \in current[k] : g.company = c

DealtWith(k) ==
  /\ runPc[k] = "completed" => left[k] = {}
  /\ runPc[k] \in {"download", "writing", "next", "completed"} =>
       \A d \in Companies \ (left[k] \cup notStored[k]) : Holds(k, d)
  /\ runPc[k] = "compare" =>
       \E c \in Companies : InHand(k, c) /\ \A d \in Companies \ (left[k] \cup notStored[k] \cup {c}) : Holds(k, d)

Thorough == FileSound /\ \A k \in Reconcilers : DealtWith(k)

LEMMA FileStaysSound ==
  ASSUME Typed, Thorough, [Next]_vars
  PROVE  FileSound'
<1> USE DEF Typed, TypeOK
<1>0. /\ runPc \in [Reconcilers -> {"idle", "download", "writing", "next", "compare", "completed", "failed"}]
      /\ \A k \in Reconcilers : base[k] \subseteq archive
      /\ FileSound
  BY DEF ReconciliationTypeOK, Thorough
<1>1. CASE UNCHANGED <<zip, runPc, base>>
  BY <1>0, <1>1 DEF FileSound
<1>2. ASSUME NEW k \in Reconcilers,
             StartReconciliation(k) \/ BeginDownload(k) \/ FinishDownload(k) \/ ReadEntry(k)
               \/ Reconcile(k) \/ Complete(k) \/ FailRun(k)
      PROVE  FileSound'
  <2>1. CASE StartReconciliation(k)
    <3>1. /\ runPc' = [runPc EXCEPT ![k] = "download"] /\ zip' = zip
          /\ base' = [base EXCEPT ![k] = archive]
      BY <2>1 DEF StartReconciliation, GoTo
    <3>2. QED
      BY <1>0, <3>1 DEF FileSound
  <2>2. CASE BeginDownload(k)
    <3>1. runPc' = [runPc EXCEPT ![k] = "writing"] /\ zip' = Partial
      BY <2>2 DEF BeginDownload, GoTo
    <3>2. QED
      BY <1>0, <3>1 DEF FileSound
  <2>3. CASE FinishDownload(k)
    <3>1. runPc[k] = "writing" /\ runPc' = [runPc EXCEPT ![k] = "next"] /\ UNCHANGED base
      BY <2>3 DEF FinishDownload, GoTo
    <3>2. CASE zip = NoZip \/ \E j \in Reconcilers \ {k} : runPc[j] = "writing"
      <4>1. zip' = zip /\ zip \in {NoZip, Partial}
        BY <1>0, <2>3, <3>1, <3>2 DEF FinishDownload, FileSound
      <4>2. QED
        BY <4>1 DEF FileSound
    <3>3. CASE ~(zip = NoZip \/ \E j \in Reconcilers \ {k} : runPc[j] = "writing")
      <4>1. zip' = archive /\ \A j \in Reconcilers \ {k} : runPc[j] # "writing"
        BY <2>3, <3>3 DEF FinishDownload
      <4>2. QED
        BY <1>0, <3>1, <4>1 DEF FileSound
    <3>4. QED
      BY <3>2, <3>3
  <2>4. CASE ReadEntry(k)
    <3>1. /\ runPc[k] = "next" /\ UNCHANGED <<zip, base>>
          /\ runPc' = runPc \/ runPc' = [runPc EXCEPT ![k] = "compare"]
      BY <2>4 DEF ReadEntry, GoTo
    <3>2. QED
      BY <1>0, <3>1 DEF FileSound
  <2>5. CASE Reconcile(k)
    <3>1. /\ runPc[k] = "compare" /\ UNCHANGED <<zip, base>>
          /\ runPc' = [runPc EXCEPT ![k] = "next"]
      BY <2>5 DEF Reconcile, GoTo
    <3>2. QED
      BY <1>0, <3>1 DEF FileSound
  <2>6. CASE Complete(k) \/ FailRun(k)
    <3>1. zip' = NoZip
      BY <2>6 DEF Complete, FailRun
    <3>2. QED
      BY <3>1 DEF FileSound
  <2>7. QED
    BY <1>2, <2>1, <2>2, <2>3, <2>4, <2>5, <2>6
<1>3. CASE ReconciliationNext
  BY <1>1, <1>2, <1>3 DEF ReconciliationNext, BuildArchive
<1>4. QED
  BY <1>1, <1>3 DEF Next, vars, reconciliationVars

LEMMA ThoroughStep ==
  ASSUME Typed, Typed', Thorough, Forward, [Next]_vars
  PROVE  Thorough'
<1> USE DEF Typed, TypeOK
<1>0. /\ runPc \in [Reconcilers -> {"idle", "download", "writing", "next", "compare", "completed", "failed"}]
      /\ facts \subseteq facts'
      /\ \A k \in Reconcilers : DealtWith(k)
  BY DEF ReconciliationTypeOK, Thorough, Forward
<1>1. FileSound'
  BY FileStaysSound
<1>2. ASSUME NEW d, NEW P, Reconciled(d, P) PROVE Reconciled(d, P)'
  BY <1>0, <1>2 DEF Reconciled
<1>3. ASSUME NEW k, NEW d, base'[k] = base[k], archive \subseteq archive', Holds(k, d) PROVE Holds(k, d)'
  <2>1. PICK P \in SUBSET archive : base[k] \subseteq P /\ Reconciled(d, P)
    BY <1>3 DEF Holds
  <2>2. Reconciled(d, P)'
    BY <1>2, <2>1
  <2>3. QED
    BY <1>3, <2>1, <2>2 DEF Holds
<1> DEFINE Still(k) == /\ base'[k] = base[k] /\ runPc'[k] = runPc[k] /\ left'[k] = left[k]
                       /\ entry'[k] = entry[k] /\ current'[k] = current[k] /\ notStored'[k] = notStored[k]
<1>4. ASSUME NEW k \in Reconcilers, archive \subseteq archive', Still(k) PROVE DealtWith(k)'
  <2>1. \A d : Holds(k, d) => Holds(k, d)'
    BY <1>3, <1>4
  <2>2. \A c : InHand(k, c) => InHand(k, c)'
    BY <1>4 DEF InHand
  <2>3. QED
    BY <1>0, <1>4, <2>1, <2>2 DEF DealtWith
<1>5. ASSUME archive \subseteq archive', \A k \in Reconcilers : Still(k) PROVE Thorough'
  BY <1>1, <1>4, <1>5 DEF Thorough
<1>6. CASE UNCHANGED reconciliationVars \/ BuildArchive
  <2>1. archive \subseteq archive' /\ \A k \in Reconcilers : Still(k)
    BY <1>6 DEF reconciliationVars, BuildArchive, ReconciliationTypeOK
  <2>2. QED
    BY <1>5, <2>1
<1>7. ASSUME NEW k \in Reconcilers,
             StartReconciliation(k) \/ BeginDownload(k) \/ FinishDownload(k) \/ ReadEntry(k)
               \/ Reconcile(k) \/ Complete(k) \/ FailRun(k)
      PROVE  Thorough'
  <2>1. UNCHANGED archive
    BY <1>7 DEF StartReconciliation, BeginDownload, FinishDownload, ReadEntry, Reconcile, Complete, FailRun
  <2>2. \A j \in Reconcilers \ {k} : Still(j)
    BY <1>7 DEF StartReconciliation, BeginDownload, FinishDownload, ReadEntry, Reconcile, Complete, FailRun,
                GoTo, ReconciliationTypeOK
  <2>3. \A j \in Reconcilers \ {k} : DealtWith(j)'
    BY <1>4, <2>1, <2>2
  <2>4. \A d : base'[k] = base[k] /\ Holds(k, d) => Holds(k, d)'
    BY <1>3, <2>1
  <2>5. ASSUME StartReconciliation(k) PROVE DealtWith(k)'
    <3>1. runPc'[k] = "download" /\ left'[k] = Companies
      BY <1>0, <2>5 DEF StartReconciliation, GoTo, ReconciliationTypeOK
    <3>2. QED
      BY <3>1 DEF DealtWith
  <2>6. ASSUME BeginDownload(k) \/ FinishDownload(k) PROVE DealtWith(k)'
    <3>1. /\ runPc[k] \in {"download", "writing"} /\ runPc'[k] \in {"writing", "next"}
          /\ UNCHANGED <<left, notStored, base>>
      BY <1>0, <2>6 DEF BeginDownload, FinishDownload, GoTo
    <3>2. QED
      BY <1>0, <2>4, <3>1 DEF DealtWith
  <2>7. ASSUME ReadEntry(k) PROVE DealtWith(k)'
    <3>1. /\ runPc[k] = "next" /\ zip \subseteq archive /\ base[k] \subseteq zip /\ UNCHANGED <<zip, base>>
      BY <2>7 DEF ReadEntry, Readable, ReconciliationTypeOK, Thorough, FileSound
    <3>2. PICK c \in left[k] :
            /\ left' = [left EXCEPT ![k] = @ \ {c}]
            /\ \/ /\ runPc' = [runPc EXCEPT ![k] = "compare"]
                  /\ entry' = [entry EXCEPT ![k] = Document(c, zip)]
                  /\ current' = [current EXCEPT ![k] = Current(c)] /\ UNCHANGED notStored
               \/ notStored' = [notStored EXCEPT ![k] = @ \cup {c}] /\ UNCHANGED <<runPc, entry, current>>
      BY <2>7 DEF ReadEntry, GoTo
    <3>3. left'[k] = left[k] \ {c} /\ c \in Companies
      BY <3>2 DEF ReconciliationTypeOK
    <3>4. \A d \in Companies \ (left[k] \cup notStored[k]) : Holds(k, d)'
      BY <1>0, <2>4, <3>1 DEF DealtWith
    <3>5. CASE UNCHANGED notStored /\ runPc' = [runPc EXCEPT ![k] = "compare"]
               /\ entry' = [entry EXCEPT ![k] = Document(c, zip)] /\ current' = [current EXCEPT ![k] = Current(c)]
      <4>1. /\ runPc'[k] = "compare" /\ entry'[k] = Document(c, zip) /\ current'[k] = Current(c)
            /\ notStored'[k] = notStored[k]
        BY <1>0, <3>5 DEF ReconciliationTypeOK
      <4>2. \A g \in Current(c) : g.company = c
        BY DEF Current
      <4>3. InHand(k, c)'
        BY <2>1, <3>1, <4>1, <4>2 DEF InHand
      <4>4. QED
        BY <3>3, <3>4, <4>1, <4>3 DEF DealtWith
    <3>6. CASE notStored' = [notStored EXCEPT ![k] = @ \cup {c}] /\ UNCHANGED <<runPc, entry, current>>
      <4>1. runPc'[k] = "next" /\ notStored'[k] = notStored[k] \cup {c}
        BY <3>1, <3>6 DEF ReconciliationTypeOK
      <4>2. QED
        BY <3>3, <3>4, <4>1 DEF DealtWith
    <3>7. QED
      BY <3>2, <3>5, <3>6
  <2>8. ASSUME Reconcile(k) PROVE DealtWith(k)'
    <3>1. /\ runPc[k] = "compare" /\ runPc'[k] = "next" /\ UNCHANGED <<left, notStored, base>>
      BY <1>0, <2>8 DEF Reconcile, GoTo
    <3>2. PICK c \in Companies :
            InHand(k, c) /\ \A d \in Companies \ (left[k] \cup notStored[k] \cup {c}) : Holds(k, d)
      BY <1>0, <3>1 DEF DealtWith
    <3>3. PICK P \in SUBSET archive : base[k] \subseteq P /\ entry[k] = Document(c, P)
      BY <3>2 DEF InHand
    <3>4. PICK f \in MostRecent(entry[k]) :
            IF Differs(f, current[k]) THEN Upsert(f) ELSE UNCHANGED <<facts, rejected>>
      BY <2>8 DEF Reconcile
    <3>5. f \in MostRecent(Document(c, P)) /\ f.company = c
      BY <3>3, <3>4 DEF MostRecent, Document
    <3>6. ~Plausible(f) \/ \E g \in facts' : g.company = c /\ g.end = f.end /\ g.val = f.val
      <4>1. CASE Differs(f, current[k])
        BY <3>4, <3>5, <4>1 DEF Upsert
      <4>2. CASE ~Differs(f, current[k])
        <5>1. PICK g \in current[k] : g.end = f.end /\ g.val = f.val
          BY <4>2 DEF Differs
        <5>2. g \in facts /\ g.company = c
          BY <3>2, <5>1 DEF InHand, ReconciliationTypeOK
        <5>3. QED
          BY <1>0, <5>1, <5>2
      <4>3. QED
        BY <4>1, <4>2
    <3>7. Reconciled(c, P)'
      BY <3>5, <3>6 DEF Reconciled, Plausible
    <3>8. Holds(k, c)'
      BY <2>1, <3>1, <3>3, <3>7 DEF Holds
    <3>9. QED
      BY <2>4, <3>1, <3>2, <3>8 DEF DealtWith
  <2>9. ASSUME Complete(k) PROVE DealtWith(k)'
    <3>1. /\ runPc[k] = "next" /\ zip \subseteq archive /\ base[k] \subseteq zip
          /\ \A c \in left[k] : Document(c, zip) = {}
      BY <2>9 DEF Complete, Readable, ReconciliationTypeOK, Thorough, FileSound
    <3>2. /\ runPc'[k] = "completed" /\ left'[k] = {} /\ UNCHANGED <<notStored, base>>
      BY <1>0, <2>9 DEF Complete, GoTo, ReconciliationTypeOK
    <3>3. \A c \in left[k] : Holds(k, c)
      BY <3>1 DEF Holds, Reconciled
    <3>4. \A d \in Companies \ notStored[k] : Holds(k, d)
      BY <1>0, <3>1, <3>3 DEF DealtWith
    <3>5. QED
      BY <2>4, <3>2, <3>4 DEF DealtWith
  <2>10. ASSUME FailRun(k) PROVE DealtWith(k)'
    <3>1. runPc'[k] = "failed"
      BY <1>0, <2>10 DEF FailRun, GoTo
    <3>2. QED
      BY <3>1 DEF DealtWith
  <2>11. DealtWith(k)'
    BY <1>7, <2>5, <2>6, <2>7, <2>8, <2>9, <2>10
  <2>12. QED
    BY <1>1, <2>3, <2>11 DEF Thorough
<1>8. QED
  BY <1>6, <1>7 DEF Next, ReconciliationNext, vars

(* After a completed reconciliation, of every company it found stored the latest
   value is stored as the archive had it at some moment since the run was
   started, though another run truncated, replaced or removed the file. *)
THEOREM CompletedRunsReconcile == Spec => []CompletedRunReconciles
<1>1. ASSUME Init PROVE Thorough
  BY <1>1 DEF Init, ReconciliationInit, Thorough, FileSound, DealtWith
<1>2. ASSUME Typed, Typed', Thorough, [Next]_vars PROVE Thorough'
  BY <1>2, ThoroughStep, TypesStep
<1>3. ASSUME Thorough PROVE CompletedRunReconciles
  BY <1>3 DEF Thorough, DealtWith, CompletedRunReconciles, Holds
<1>4. QED
  BY <1>1, <1>2, <1>3, TypesHold, PTL DEF Spec
=============================================================================
