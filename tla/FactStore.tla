------------------------------ MODULE FactStore ------------------------------
(***************************************************************************)
(* The stored facts and who writes them (src/repositories/companyRepository*)
(* .ts, src/dataQuality.ts, src/companyIngestion.ts): an ingester fetches  *)
(* SEC's document about a company and stores the facts it selects, one     *)
(* statement each, while others do the same with older or newer documents. *)
(*                                                                         *)
(* A fact is one value of one concept, the revenue; those of the other     *)
(* concepts are stored the same way beside it.  The actions here constrain *)
(* the variables of this module only; Stores composes them.                *)
(***************************************************************************)
EXTENDS Integers, FiniteSets, FiniteSetsExt

CONSTANTS
  Companies,   \* the universe, as integers: the order of their CIKs
  Facts,       \* all SEC will publish: [company, accn, end, filed, annual, val]
  Early,       \* accession numbers published before the start
  Years,       \* ANNUAL_HISTORY_YEARS
  Implausible, \* values validateFact refuses
  Ingesters,   \* processes that store a company's facts
  MaxFaults    \* bound on errors and crashes

Accns == {f.accn : f \in Facts}

(* A filing is of one company and one day, and reports a period once. *)
ASSUME FactsAssumption ==
  /\ Companies \subseteq Nat /\ Companies # {} /\ Early \subseteq Accns
  /\ Years \in Nat /\ MaxFaults \in Nat
  /\ \A f \in Facts : f.company \in Companies /\ f.end \in Nat /\ f.filed \in Nat
  /\ \A f, g \in Facts : f.accn = g.accn =>
       /\ f.company = g.company /\ f.filed = g.filed
       /\ f.end = g.end => f = g

VARIABLES
  published,   \* accession numbers SEC has published
  companies,   \* table companies
  facts,       \* table filing_facts
  rejected,    \* table quarantined_facts, without its repetitions
  quarantined, \* the failing_companies rows with quarantined_at
  at,          \* where each ingester is in attemptCompanyIngestion
  about,       \* the company in hand
  todo,        \* facts of its document it has yet to store
  faults       \* errors and crashes so far

storeVars == <<published, companies, facts, rejected, quarantined, at, about, todo, faults>>

States == {"idle", "fetch", "company", "facts", "success", "failed", "skipped"}

StoreTypeOK ==
  /\ published \subseteq Accns /\ Early \subseteq published
  /\ companies \subseteq Companies /\ quarantined \subseteq Companies
  /\ facts \subseteq Facts /\ rejected \subseteq Facts
  /\ {f.accn : f \in facts \cup rejected} \subseteq published
  /\ {f.company : f \in facts \cup rejected} \subseteq companies
  /\ at \in [Ingesters -> States]
  /\ about \in [Ingesters -> Companies]
  /\ todo \in [Ingesters -> SUBSET Facts]
  /\ \A i \in Ingesters : todo[i] # {} => at[i] \in {"company", "facts"}
  /\ faults \in 0..MaxFaults

-----------------------------------------------------------------------------
(* What a document says *)

(* The document about a company, when accns have been published. *)
Document(c, accns) == {f \in Facts : f.company = c /\ f.accn \in accns}

Restated(f, doc) == \E g \in doc : g.end = f.end /\ g.filed > f.filed

(* mostRecentFact: the latest period, as last reported. *)
MostRecent(doc) == {f \in doc : ~Restated(f, doc) /\ \A g \in doc : g.end <= f.end}

(* annualFacts: every fiscal year as last reported, the newest years. *)
Annual(doc) ==
  LET yearly == {f \in doc : f.annual}
      last == {f \in yearly : ~Restated(f, yearly)}
  IN {f \in last : Cardinality({g \in last : g.end > f.end}) < Years}

Selected(doc) == MostRecent(doc) \cup Annual(doc)

(* getFactsByCik: the row most recently effective for each period. *)
Current(c) == LET rows == {f \in facts : f.company = c}
              IN {f \in rows : ~Restated(f, rows)}

-----------------------------------------------------------------------------
(* upsertFact, upsertCompany *)

(* validateFact, of the magnitude *)
Plausible(f) == f.val \notin Implausible

(* insertQuarantinedFact *)
Quarantine(f) == rejected' = rejected \cup {f} /\ UNCHANGED facts

(* Mutant: one row for a period, whatever filing it came from. *)
UpsertPeriod(f) ==
  IF ~Plausible(f) THEN Quarantine(f)
  ELSE /\ facts' = {g \in facts : ~(g.company = f.company /\ g.end = f.end)} \cup {f}
       /\ UNCHANGED rejected
(* An implausible fact is quarantined; another is the one row of its filing
   and period. *)
Upsert(f) ==
  IF ~Plausible(f) THEN Quarantine(f)
  ELSE facts' = facts \cup {f} /\ UNCHANGED rejected

Become(i, state) == at' = [at EXCEPT ![i] = state]
(* Its variables go with the attempt. *)
Finish(i) == Become(i, "idle") /\ about' = [about EXCEPT ![i] = Min(Companies)]
Fault == faults < MaxFaults /\ faults' = faults + 1

(* isQuarantined *)
Attempt(i, c) ==
  /\ at[i] = "idle"
  /\ Become(i, IF c \in quarantined THEN "skipped" ELSE "fetch")
  /\ about' = [about EXCEPT ![i] = c]
  /\ UNCHANGED <<published, companies, facts, rejected, quarantined, todo, faults>>

(* fetchCompanyFacts, and what storeCompanyFacts selects from the document. *)
Fetch(i) ==
  /\ at[i] = "fetch"
  /\ Document(about[i], published) # {}
  /\ Become(i, "company")
  /\ todo' = [todo EXCEPT ![i] = Selected(Document(about[i], published))]
  /\ UNCHANGED <<published, companies, facts, rejected, quarantined, about, faults>>

(* backfillFromBulk: the document comes from a copy of the archive made
   before the start, and nobody asks whether the company is quarantined. *)
Load(i, c) ==
  /\ at[i] = "idle"
  /\ Document(c, Early) # {}
  /\ Become(i, "company")
  /\ about' = [about EXCEPT ![i] = c]
  /\ todo' = [todo EXCEPT ![i] = Selected(Document(c, Early))]
  /\ UNCHANGED <<published, companies, facts, rejected, quarantined, faults>>

(* Mutant: a company's row waits for its last fact. *)
UpsertCompanyLater(i) ==
  /\ at[i] = "company"
  /\ Become(i, "facts")
  /\ UNCHANGED <<published, companies, facts, rejected, quarantined, about, todo, faults>>
UpsertCompany(i) ==
  /\ at[i] = "company"
  /\ Become(i, "facts")
  /\ companies' = companies \cup {about[i]}
  /\ UNCHANGED <<published, facts, rejected, quarantined, about, todo, faults>>

(* The latest period first, as both selections list them. *)
StoreFact(i) ==
  /\ at[i] = "facts"
  /\ \E f \in todo[i] : /\ \A g \in todo[i] : g.end <= f.end
                        /\ Upsert(f)
                        /\ todo' = [todo EXCEPT ![i] = @ \ {f}]
  /\ UNCHANGED <<published, companies, quarantined, at, about, faults>>

Stored(i) == at[i] = "facts" /\ todo[i] = {}

(* recordSuccess *)
Succeed(i) ==
  /\ Stored(i)
  /\ Become(i, "success")
  /\ todo' = [todo EXCEPT ![i] = {}]
  /\ quarantined' = quarantined \ {about[i]}
  /\ UNCHANGED <<published, companies, facts, rejected, about, faults>>

(* backfillFromBulk ends without a record of success. *)
Loaded(i) ==
  /\ Stored(i)
  /\ Finish(i)
  /\ UNCHANGED <<published, companies, facts, rejected, quarantined, todo, faults>>

(* The document is not found, or a request or a statement fails: the failure
   is recorded, and may be the one that quarantines the company. *)
Fail(i) ==
  /\ at[i] \in {"fetch", "company", "facts"}
  /\ \/ at[i] = "fetch" /\ Document(about[i], published) = {} /\ UNCHANGED faults
     \/ Fault
  /\ Become(i, "failed")
  /\ todo' = [todo EXCEPT ![i] = {}]
  /\ quarantined' \in {quarantined, quarantined \cup {about[i]}}
  /\ UNCHANGED <<published, companies, facts, rejected, about>>

(* The ingester is killed; what it stored stays. *)
Die(i) ==
  /\ Fault
  /\ Finish(i)
  /\ todo' = [todo EXCEPT ![i] = {}]
  /\ UNCHANGED <<published, companies, facts, rejected, quarantined>>

(* SEC publishes its filings in the order of their dates. *)
Publish ==
  /\ \E f \in Facts : /\ f.accn \notin published
                      /\ \A g \in Facts : g.filed < f.filed => g.accn \in published
                      /\ published' = published \cup {f.accn}
  /\ UNCHANGED <<companies, facts, rejected, quarantined, at, about, todo, faults>>

StoreInit ==
  /\ published = Early
  /\ companies = {} /\ facts = {} /\ rejected = {} /\ quarantined = {}
  /\ at = [i \in Ingesters |-> "idle"]
  /\ about = [i \in Ingesters |-> Min(Companies)]
  /\ todo = [i \in Ingesters |-> {}]
  /\ faults = 0

(* The steps of an attempt once it is begun. *)
Progress(i) == Fetch(i) \/ UpsertCompany(i) \/ StoreFact(i) \/ Fail(i)

-----------------------------------------------------------------------------
(* c's stored facts are as late as the filings in accns, or what those say is
   implausible. *)
AsCurrentAs(c, accns) ==
  \A f \in Selected(Document(c, accns)) :
    \/ ~Plausible(f)
    \/ \E g \in Current(c) : g.end = f.end /\ g.filed >= f.filed

(* Whoever stores what in whatever order, the value served for a period never
   goes back to an earlier filing's. *)
CurrentNeverGoesBack ==
  [][\A c \in Companies : \A f \in Current(c) :
       \E g \in Current(c)' : g.end = f.end /\ g.filed >= f.filed]_facts
=============================================================================
