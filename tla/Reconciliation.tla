---------------------------- MODULE Reconciliation ----------------------------
(***************************************************************************)
(* The nightly reconciliation (src/reconciliation.ts, src/bulkData.ts,     *)
(* src/repositories/reconciliationRepository.ts): a run downloads SEC's    *)
(* bulk archive to one path on disk and goes through its companies,        *)
(* comparing the latest value with the one stored.  SEC builds the archive *)
(* once a night, so it lags behind what the ingesters fetch.               *)
(***************************************************************************)
EXTENDS FactStore

CONSTANT Reconcilers   \* runs that may overlap: at the start and at 2 AM

VARIABLES
  archive,   \* accession numbers in SEC's archive
  zip,       \* those in the copy at ZIP_PATH, or NoZip
  runPc,     \* where each run is
  left,      \* companies of the universe the run has not reached
  entry,     \* the document in hand
  current,   \* the stored facts read for it
  notStored, \* companies skipped as not stored
  base       \* history: the archive when the run started

reconciliationVars == <<archive, zip, runPc, left, entry, current, notStored, base>>

NoZip == {"no file"}
(* Someone is writing the file. *)
Partial == {"partial"}
ASSUME ZipAssumption == {"no file", "partial"} \cap Accns = {}

ReconciliationTypeOK ==
  /\ archive \subseteq published
  /\ zip \in {NoZip, Partial} \/ zip \subseteq archive
  /\ runPc \in [Reconcilers -> {"idle", "download", "writing", "next", "compare", "completed", "failed"}]
  /\ left \in [Reconcilers -> SUBSET Companies]
  /\ entry \in [Reconcilers -> SUBSET Facts] /\ current \in [Reconcilers -> SUBSET facts]
  /\ notStored \in [Reconcilers -> SUBSET Companies]
  /\ base \in [Reconcilers -> SUBSET archive]
  /\ \A k \in Reconcilers : runPc[k] = "compare" => entry[k] # {}

GoTo(k, pc) == runPc' = [runPc EXCEPT ![k] = pc]

(* startReconciliationRun *)
StartReconciliation(k) ==
  /\ runPc[k] \in {"idle", "completed", "failed"}
  /\ GoTo(k, "download")
  /\ left' = [left EXCEPT ![k] = Companies]
  /\ notStored' = [notStored EXCEPT ![k] = {}]
  /\ base' = [base EXCEPT ![k] = archive]
  /\ UNCHANGED <<storeVars, archive, zip, entry, current>>

(* createWriteStream truncates the file. *)
BeginDownload(k) ==
  /\ runPc[k] = "download"
  /\ GoTo(k, "writing")
  /\ zip' = Partial
  /\ UNCHANGED <<storeVars, archive, left, entry, current, notStored, base>>

(* Two runs that write the same file at once leave no archive in it, and one
   that writes a file since removed leaves none at its path. *)
FinishDownload(k) ==
  /\ runPc[k] = "writing"
  /\ GoTo(k, "next")
  /\ zip' = IF zip = NoZip \/ \E j \in Reconcilers \ {k} : runPc[j] = "writing" THEN zip ELSE archive
  /\ UNCHANGED <<storeVars, archive, left, entry, current, notStored, base>>

Readable == zip \notin {NoZip, Partial}

(* forEachCompanyFacts reaches an entry: its document is parsed, and the
   company's stored facts are read unless there is no such company. *)
ReadEntry(k) ==
  /\ runPc[k] = "next" /\ Readable
  /\ \E c \in left[k] :
       /\ Document(c, zip) # {}
       /\ left' = [left EXCEPT ![k] = @ \ {c}]
       /\ IF c \in companies
          THEN GoTo(k, "compare") /\ entry' = [entry EXCEPT ![k] = Document(c, zip)]
               /\ current' = [current EXCEPT ![k] = Current(c)] /\ UNCHANGED notStored
          ELSE notStored' = [notStored EXCEPT ![k] = @ \cup {c}] /\ UNCHANGED <<runPc, entry, current>>
  /\ UNCHANGED <<storeVars, archive, zip, base>>

(* Mutant: a missing value is no discrepancy. *)
DiffersIfStored(f, rows) == \E g \in rows : g.end = f.end /\ g.val # f.val
(* The values are compared by period, not by filing. *)
Differs(f, rows) == \A g \in rows : g.end = f.end => g.val # f.val

(* Revenue and net income only: the latest value in the archive is stored if
   the current one differs or is missing. *)
Reconcile(k) ==
  /\ runPc[k] = "compare"
  /\ \E f \in MostRecent(entry[k]) :
       IF Differs(f, current[k]) THEN Upsert(f) ELSE UNCHANGED <<facts, rejected>>
  /\ GoTo(k, "next")
  /\ entry' = [entry EXCEPT ![k] = {}]
  /\ current' = [current EXCEPT ![k] = {}]
  /\ UNCHANGED <<published, companies, quarantined, at, about, todo, faults,
                 archive, zip, left, notStored, base>>

(* completeReconciliationRun: the companies left are not in the archive. *)
Complete(k) ==
  /\ runPc[k] = "next" /\ Readable
  /\ \A c \in left[k] : Document(c, zip) = {}
  /\ GoTo(k, "completed")
  /\ zip' = NoZip
  /\ left' = [left EXCEPT ![k] = {}]
  /\ UNCHANGED <<storeVars, archive, entry, current, notStored, base>>

(* failReconciliationRun, on any error; the file goes in either case. *)
FailRun(k) ==
  /\ runPc[k] \in {"download", "writing", "next", "compare"}
  /\ \/ runPc[k] = "next" /\ ~Readable /\ UNCHANGED faults
     \/ Fault
  /\ GoTo(k, "failed")
  /\ zip' = NoZip
  /\ entry' = [entry EXCEPT ![k] = {}]
  /\ current' = [current EXCEPT ![k] = {}]
  /\ left' = [left EXCEPT ![k] = {}]
  /\ notStored' = [notStored EXCEPT ![k] = {}]
  /\ base' = [base EXCEPT ![k] = {}]
  /\ UNCHANGED <<published, companies, facts, rejected, quarantined, at, about, todo, archive>>

(* SEC's nightly build. *)
BuildArchive ==
  /\ archive # published
  /\ archive' = published
  /\ UNCHANGED <<storeVars, zip, runPc, left, entry, current, notStored, base>>

ReconciliationInit ==
  /\ archive = Early /\ zip = NoZip
  /\ runPc = [k \in Reconcilers |-> "idle"]
  /\ left = [k \in Reconcilers |-> {}] /\ notStored = [k \in Reconcilers |-> {}]
  /\ entry = [k \in Reconcilers |-> {}] /\ current = [k \in Reconcilers |-> {}]
  /\ base = [k \in Reconcilers |-> {}]

ReconciliationNext ==
  \/ BuildArchive
  \/ \E k \in Reconcilers : \/ StartReconciliation(k) \/ BeginDownload(k) \/ FinishDownload(k)
                            \/ ReadEntry(k) \/ Reconcile(k) \/ Complete(k) \/ FailRun(k)

-----------------------------------------------------------------------------
(* Properties *)

(* The latest value accns give of c is stored, whoever filed it, unless it is
   implausible. *)
Reconciled(c, accns) ==
  \/ Document(c, accns) = {}
  \/ \E f \in MostRecent(Document(c, accns)) :
       ~Plausible(f) \/ \E g \in facts : g.company = c /\ g.end = f.end /\ g.val = f.val

(* After a completed run, of every stored company the latest value is stored
   as the archive had it at some moment since the run was started. *)
CompletedRunReconciles ==
  \A k \in Reconcilers : runPc[k] = "completed" =>
    \A c \in Companies \ notStored[k] :
      \E accns \in SUBSET archive : base[k] \subseteq accns /\ Reconciled(c, accns)
=============================================================================
