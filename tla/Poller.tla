------------------------------- MODULE Poller -------------------------------
(***************************************************************************)
(* The EDGAR poller.  A cycle (runPollCycle) reads the cursor, asks SEC    *)
(* for the filing list of every company of the universe that is not        *)
(* quarantined, enqueues each filing dated inside its window and not yet   *)
(* in discovered_filings, records it there, and moves the cursor to the    *)
(* cycle's own start if no company's check failed.                         *)
(*                                                                         *)
(* Every await is a step.  node-cron starts a cycle every 30 minutes       *)
(* whether or not the last one has ended, so several may overlap.  The     *)
(* parser's ingestion attempts write the same failing_companies row the    *)
(* poller reads and writes, and are modelled as far as that row goes.      *)
(*                                                                         *)
(* SEC is external: a filing joins its company's list at some moment,      *)
(* under a date at most Lag days before that moment, and stays there.      *)
(* Time is counted in ticks, TicksPerDay to a day, from an arbitrary zero. *)
(***************************************************************************)
EXTENDS Integers, Sequences, FiniteSets, Functions

CONSTANTS
  Companies,
  Universe,      \* loadUniverse(): the order in which a cycle checks them
  Filings,
  CompanyOf,
  Cycles,        \* cycles that may be running at once
  NoCursor,      \* poller_state has no row yet
  NoRun,         \* no row of poller_runs is completed yet
  Unlisted,      \* the date of a filing SEC does not list yet
  InitialCursor, \* NoCursor on the first deployment
  TicksPerDay,
  Lookback,      \* FILING_LOOKBACK_DAYS
  Lag,           \* how many days late a filing may reach SEC's list
  Threshold,     \* MAX_CONSECUTIVE_FAILURES
  MaxClock,      \* bound on time
  MaxMishaps     \* bound: failed fetches, failed ingestions, dead cycles

ASSUME PollerAssumption ==
  /\ Universe \in Seq(Companies)
  /\ CompanyOf \in [Filings -> Companies]
  /\ InitialCursor \in Int \cup {NoCursor}
  /\ InitialCursor \in Int => InitialCursor <= 0
  /\ NoCursor \notin Int
  /\ Unlisted \notin Int
  /\ NoRun \notin [started : Int, failed : Nat]
  /\ TicksPerDay \in Nat \ {0}
  /\ Lookback \in Nat
  /\ Lag \in 0 .. Lookback
  /\ Threshold \in Nat \ {0}
  /\ MaxClock \in Nat
  /\ MaxMishaps \in Nat

VARIABLES
  clock,
  date,        \* the filing date SEC lists each filing under
  cursor,      \* poller_state.last_checked_at
  ledger,      \* discovered_filings
  enqueued,    \* enqueued[f]: filing.discovered jobs added for f
  failures,    \* failing_companies.consecutive_failures
  quarantined, \* companies whose quarantined_at is set
  attempt,     \* where the parser's ingestion of each company is
  pc,          \* where each cycle is
  since,       \* its window's cursor
  startedAt,   \* cycleStartedAt
  at,          \* its place in Universe
  todo,        \* listed filings, then new ones, of the company in hand
  problems,    \* submissionCheckFailures
  completed,   \* the latest completed row of poller_runs: [started, failed]
  skipped,     \* history: companies some cycle skipped as quarantined
  missed,      \* history: filings in the window of a check that failed
  interrupted, \* history: filings enqueued by a cycle that then died
  overlapped,  \* history: two cycles have run at once
  mishaps

secVars     == <<clock, date>>
failingVars == <<failures, quarantined>>
localVars   == <<since, startedAt, at, todo, problems>>
cycleVars   == <<pc, localVars, completed>>
historyVars == <<skipped, missed, interrupted, overlapped>>
vars == <<secVars, cursor, ledger, enqueued, failingVars, attempt, cycleVars,
          historyVars, mishaps>>

PCs == {"idle", "begin", "company", "fetch", "mark", "filter", "enqueue", "record", "complete"}

-----------------------------------------------------------------------------
(* Helpers *)

DayOf(t) == t \div TicksPerDay

(* earliestFilingDate of a window: a date, since filing dates have no time. *)
Earliest(t) == DayOf(t - Lookback * TicksPerDay)

(* getLastCheckedAt: without a row, 24 hours ago. *)
LastCheckedAt == IF cursor = NoCursor THEN clock - TicksPerDay ELSE cursor

Listed(f) == date[f] # Unlisted

(* The company a cycle has in hand. *)
InHand(c) == Universe[at[c]]

Mishap == mishaps < MaxMishaps /\ mishaps' = mishaps + 1

(* The loop goes on with the next company. *)
NextCompany(c) ==
  /\ at' = [at EXCEPT ![c] = @ + 1]
  /\ pc' = [pc EXCEPT ![c] = "company"]

-----------------------------------------------------------------------------
(* SEC and time *)

Tick ==
  /\ clock < MaxClock
  /\ clock' = clock + 1
  /\ UNCHANGED <<date, cursor, ledger, enqueued, failingVars, attempt, cycleVars, historyVars, mishaps>>

(* A filing appears on its company's list, dated up to Lag days earlier. *)
ListFiling(f) ==
  /\ ~Listed(f)
  /\ \E late \in 0 .. Lag : date' = [date EXCEPT ![f] = DayOf(clock) - late]
  /\ UNCHANGED <<clock, cursor, ledger, enqueued, failingVars, attempt, cycleVars, historyVars, mishaps>>

-----------------------------------------------------------------------------
(* The parser's side of failing_companies: attemptCompanyIngestion. *)

BeginAttempt(co) ==
  /\ attempt[co] = "none"
  /\ \E f \in Filings : CompanyOf[f] = co /\ enqueued[f] > 0
  /\ co \notin quarantined
  /\ attempt' = [attempt EXCEPT ![co] = "ingesting"]
  /\ UNCHANGED <<secVars, cursor, ledger, enqueued, failingVars, cycleVars, historyVars, mishaps>>

(* recordSuccess *)
AttemptSucceeds(co) ==
  /\ attempt[co] = "ingesting"
  /\ failures' = [failures EXCEPT ![co] = 0]
  /\ quarantined' = quarantined \ {co}
  /\ attempt' = [attempt EXCEPT ![co] = "none"]
  /\ UNCHANGED <<secVars, cursor, ledger, enqueued, cycleVars, historyVars, mishaps>>

(* recordFailure is two statements: the count, *)
CountFailure(co) == failures' = [failures EXCEPT ![co] = @ + 1]
CrossesThreshold(co) == failures[co] + 1 >= Threshold /\ co \notin quarantined

AttemptFails(co) ==
  /\ attempt[co] = "ingesting"
  /\ CountFailure(co)
  /\ attempt' = [attempt EXCEPT ![co] = IF CrossesThreshold(co) THEN "marking" ELSE "none"]
  /\ Mishap
  /\ UNCHANGED <<secVars, cursor, ledger, enqueued, quarantined, cycleVars, historyVars>>

(* .. then the quarantine, whatever happened to the row in between. *)
AttemptMarks(co) ==
  /\ attempt[co] = "marking"
  /\ quarantined' = quarantined \cup {co}
  /\ attempt' = [attempt EXCEPT ![co] = "none"]
  /\ UNCHANGED <<secVars, cursor, ledger, enqueued, failures, cycleVars, historyVars, mishaps>>

(* clearQuarantine, by an operator: nothing in the program calls it. *)
ClearQuarantine(co) ==
  /\ co \in quarantined
  /\ failures' = [failures EXCEPT ![co] = 0]
  /\ quarantined' = quarantined \ {co}
  /\ UNCHANGED <<secVars, cursor, ledger, enqueued, attempt, cycleVars, historyVars, mishaps>>

-----------------------------------------------------------------------------
(* A poll cycle *)

ReadCursor(c) ==
  /\ pc[c] = "idle"
  /\ since' = [since EXCEPT ![c] = LastCheckedAt]
  /\ pc' = [pc EXCEPT ![c] = "begin"]
  /\ overlapped' = (overlapped \/ \E d \in Cycles : pc[d] # "idle")
  /\ UNCHANGED <<secVars, cursor, ledger, enqueued, failingVars, attempt,
                 startedAt, at, todo, problems, completed, skipped, missed, interrupted, mishaps>>

(* cycleStartedAt is taken, and startPollerRun inserts a row, which nothing
   reads until it is completed. *)
Begin(c) ==
  /\ pc[c] = "begin"
  /\ startedAt' = [startedAt EXCEPT ![c] = clock]
  /\ at' = [at EXCEPT ![c] = 1]
  /\ problems' = [problems EXCEPT ![c] = 0]
  /\ pc' = [pc EXCEPT ![c] = "company"]
  /\ UNCHANGED <<secVars, cursor, ledger, enqueued, failingVars, attempt,
                 since, todo, completed, historyVars, mishaps>>

(* Mutant: a quarantined company ends the loop instead of being skipped. *)
BreakAtQuarantined(c) ==
  /\ pc[c] = "company"
  /\ at[c] <= Len(Universe)
  /\ \/ /\ InHand(c) \in quarantined
        /\ skipped' = skipped \cup {InHand(c)}
        /\ at' = [at EXCEPT ![c] = Len(Universe) + 1]
        /\ UNCHANGED pc
     \/ /\ InHand(c) \notin quarantined
        /\ pc' = [pc EXCEPT ![c] = "fetch"]
        /\ UNCHANGED <<at, skipped>>
  /\ UNCHANGED <<secVars, cursor, ledger, enqueued, failingVars, attempt,
                 since, startedAt, todo, problems, completed, missed, interrupted, overlapped, mishaps>>

CheckQuarantine(c) ==
  /\ pc[c] = "company"
  /\ at[c] <= Len(Universe)
  /\ \/ /\ InHand(c) \in quarantined
        /\ skipped' = skipped \cup {InHand(c)}
        /\ NextCompany(c)
     \/ /\ InHand(c) \notin quarantined
        /\ pc' = [pc EXCEPT ![c] = "fetch"]
        /\ UNCHANGED <<at, skipped>>
  /\ UNCHANGED <<secVars, cursor, ledger, enqueued, failingVars, attempt,
                 since, startedAt, todo, problems, completed, missed, interrupted, overlapped, mishaps>>

(* The list arrives.  (The company's industry, stored from the same document,
   is not modelled.) *)
Fetch(c) ==
  /\ pc[c] = "fetch"
  /\ todo' = [todo EXCEPT ![c] = {f \in Filings : CompanyOf[f] = InHand(c) /\ Listed(f)}]
  /\ pc' = [pc EXCEPT ![c] = "filter"]
  /\ UNCHANGED <<secVars, cursor, ledger, enqueued, failingVars, attempt,
                 since, startedAt, at, problems, completed, historyVars, mishaps>>

(* Mutant: a failed check is not counted, so the cursor moves past it. *)
UncountedFetchFails(c) ==
  LET co == InHand(c) IN
  /\ pc[c] = "fetch"
  /\ CountFailure(co)
  /\ IF CrossesThreshold(co)
     THEN pc' = [pc EXCEPT ![c] = "mark"] /\ UNCHANGED at
     ELSE NextCompany(c)
  /\ Mishap
  /\ UNCHANGED <<secVars, cursor, ledger, enqueued, quarantined, attempt,
                 since, startedAt, todo, problems, completed, skipped, missed, interrupted, overlapped>>

(* SEC does not answer: the check counts as failed, and so does the company. *)
FetchFails(c) ==
  LET co == InHand(c) IN
  /\ pc[c] = "fetch"
  /\ problems' = [problems EXCEPT ![c] = @ + 1]
  /\ CountFailure(co)
  /\ missed' = missed \cup {f \in Filings \ ledger :
       CompanyOf[f] = co /\ Listed(f) /\ date[f] >= Earliest(since[c])}
  /\ IF CrossesThreshold(co)
     THEN pc' = [pc EXCEPT ![c] = "mark"] /\ UNCHANGED at
     ELSE NextCompany(c)
  /\ Mishap
  /\ UNCHANGED <<secVars, cursor, ledger, enqueued, quarantined, attempt,
                 since, startedAt, todo, completed, skipped, interrupted, overlapped>>

MarkQuarantined(c) ==
  /\ pc[c] = "mark"
  /\ quarantined' = quarantined \cup {InHand(c)}
  /\ NextCompany(c)
  /\ UNCHANGED <<secVars, cursor, ledger, enqueued, failures, attempt,
                 since, startedAt, todo, problems, completed, historyVars, mishaps>>

(* Mutant: discovered_filings is not consulted. *)
AllCandidates(c) == {f \in todo[c] : date[f] >= Earliest(since[c])}

(* The candidates of the window that findDiscoveredAccessions does not know. *)
NewFilings(c) == {f \in todo[c] : date[f] >= Earliest(since[c])} \ ledger

(* Mutant: the first day of the window is left out. *)
FilterLater(c) ==
  LET new == {f \in NewFilings(c) : date[f] > Earliest(since[c])} IN
  /\ pc[c] = "filter"
  /\ todo' = [todo EXCEPT ![c] = new]
  /\ IF new = {} THEN NextCompany(c) ELSE pc' = [pc EXCEPT ![c] = "enqueue"] /\ UNCHANGED at
  /\ UNCHANGED <<secVars, cursor, ledger, enqueued, failingVars, attempt,
                 since, startedAt, problems, completed, historyVars, mishaps>>

(* Mutant: the new filings are recorded before they are enqueued. *)
FilterAndRecord(c) ==
  /\ pc[c] = "filter"
  /\ todo' = [todo EXCEPT ![c] = NewFilings(c)]
  /\ ledger' = ledger \cup NewFilings(c)
  /\ IF NewFilings(c) = {}
     THEN NextCompany(c)
     ELSE pc' = [pc EXCEPT ![c] = "enqueue"] /\ UNCHANGED at
  /\ UNCHANGED <<secVars, cursor, enqueued, failingVars, attempt,
                 since, startedAt, problems, completed, historyVars, mishaps>>

Filter(c) ==
  /\ pc[c] = "filter"
  /\ todo' = [todo EXCEPT ![c] = NewFilings(c)]
  /\ IF NewFilings(c) = {}
     THEN NextCompany(c)
     ELSE pc' = [pc EXCEPT ![c] = "enqueue"] /\ UNCHANGED at
  /\ UNCHANGED <<secVars, cursor, ledger, enqueued, failingVars, attempt,
                 since, startedAt, problems, completed, historyVars, mishaps>>

(* The loop over the new filings takes them in SEC's order, some fixed order. *)
NextFiling(c) == CHOOSE f \in todo[c] : TRUE

(* filingDiscoveredQueue.add takes effect .. *)
Add(c) == enqueued' = [enqueued EXCEPT ![NextFiling(c)] = @ + 1]

Enqueue(c) ==
  /\ pc[c] = "enqueue"
  /\ Add(c)
  /\ pc' = [pc EXCEPT ![c] = "record"]
  /\ UNCHANGED <<secVars, cursor, ledger, failingVars, attempt,
                 since, startedAt, at, todo, problems, completed, historyVars, mishaps>>

(* Mutant: the loop does not stop at its last filing. *)
RecordAndGoOn(c) ==
  /\ pc[c] = "record"
  /\ ledger' = ledger \cup {NextFiling(c)}
  /\ todo' = [todo EXCEPT ![c] = @ \ {NextFiling(c)}]
  /\ pc' = [pc EXCEPT ![c] = "enqueue"]
  /\ UNCHANGED <<secVars, cursor, enqueued, failingVars, attempt,
                 since, startedAt, at, problems, completed, historyVars, mishaps>>

(* .. and only then recordDiscoveredFiling. *)
Record(c) ==
  LET rest == todo[c] \ {NextFiling(c)} IN
  /\ pc[c] = "record"
  /\ ledger' = ledger \cup {NextFiling(c)}
  /\ todo' = [todo EXCEPT ![c] = rest]
  /\ IF rest = {}
     THEN NextCompany(c)
     ELSE pc' = [pc EXCEPT ![c] = "enqueue"] /\ UNCHANGED at
  /\ UNCHANGED <<secVars, cursor, enqueued, failingVars, attempt,
                 since, startedAt, problems, completed, historyVars, mishaps>>

(* Mutant: the cursor moves to the cycle's end instead of its start. *)
AdvanceCursorToNow(c) ==
  /\ pc[c] = "company"
  /\ at[c] > Len(Universe)
  /\ cursor' = IF problems[c] = 0 THEN clock ELSE cursor
  /\ pc' = [pc EXCEPT ![c] = "complete"]
  /\ UNCHANGED <<secVars, ledger, enqueued, failingVars, attempt,
                 localVars, completed, historyVars, mishaps>>

(* The loop is over: the cursor moves only if every check succeeded. *)
AdvanceCursor(c) ==
  /\ pc[c] = "company"
  /\ at[c] > Len(Universe)
  /\ cursor' = IF problems[c] = 0 THEN startedAt[c] ELSE cursor
  /\ pc' = [pc EXCEPT ![c] = "complete"]
  /\ UNCHANGED <<secVars, ledger, enqueued, failingVars, attempt,
                 localVars, completed, historyVars, mishaps>>

(* The cycle is over, and its local variables with it. *)
End(c) ==
  /\ pc' = [pc EXCEPT ![c] = "idle"]
  /\ since' = [since EXCEPT ![c] = 0]
  /\ startedAt' = [startedAt EXCEPT ![c] = 0]
  /\ at' = [at EXCEPT ![c] = 1]
  /\ todo' = [todo EXCEPT ![c] = {}]
  /\ problems' = [problems EXCEPT ![c] = 0]

CompleteRun(c) ==
  /\ pc[c] = "complete"
  /\ completed' = [started |-> startedAt[c], failed |-> problems[c]]
  /\ End(c)
  /\ UNCHANGED <<secVars, cursor, ledger, enqueued, failingVars, attempt, historyVars, mishaps>>

(* An await rejects or the process dies.  What failPollerRun writes, when it
   is reached, is a row nothing reads. *)
Abandon(c) ==
  /\ pc[c] # "idle"
  /\ End(c)
  /\ interrupted' = IF pc[c] = "record" THEN interrupted \cup {NextFiling(c)} ELSE interrupted
  /\ Mishap
  /\ UNCHANGED <<secVars, cursor, ledger, enqueued, failingVars, attempt,
                 completed, skipped, missed, overlapped>>

(* The job was added, but Redis' answer is lost. *)
EnqueueUnconfirmed(c) ==
  /\ pc[c] = "enqueue"
  /\ Add(c)
  /\ End(c)
  /\ interrupted' = interrupted \cup {NextFiling(c)}
  /\ Mishap
  /\ UNCHANGED <<secVars, cursor, ledger, failingVars, attempt,
                 completed, skipped, missed, overlapped>>

-----------------------------------------------------------------------------
(* The specification *)

Init ==
  /\ clock = 0
  /\ date = [f \in Filings |-> Unlisted]
  /\ cursor = InitialCursor
  /\ ledger = {}
  /\ enqueued = [f \in Filings |-> 0]
  /\ failures = [co \in Companies |-> 0]
  /\ quarantined = {}
  /\ attempt = [co \in Companies |-> "none"]
  /\ pc = [c \in Cycles |-> "idle"]
  /\ since = [c \in Cycles |-> 0]
  /\ startedAt = [c \in Cycles |-> 0]
  /\ at = [c \in Cycles |-> 1]
  /\ todo = [c \in Cycles |-> {}]
  /\ problems = [c \in Cycles |-> 0]
  /\ completed = NoRun
  /\ skipped = {}
  /\ missed = {}
  /\ interrupted = {}
  /\ overlapped = FALSE
  /\ mishaps = 0

CycleStep(c) ==
  \/ ReadCursor(c)
  \/ Begin(c)
  \/ CheckQuarantine(c)
  \/ Fetch(c)
  \/ MarkQuarantined(c)
  \/ Filter(c)
  \/ Enqueue(c)
  \/ Record(c)
  \/ AdvanceCursor(c)
  \/ CompleteRun(c)

AttemptStep(co) ==
  \/ BeginAttempt(co)
  \/ AttemptSucceeds(co)
  \/ AttemptFails(co)
  \/ AttemptMarks(co)

Next ==
  \/ Tick
  \/ \E f \in Filings : ListFiling(f)
  \/ \E co \in Companies : AttemptStep(co)
  \/ \E co \in Companies : ClearQuarantine(co)
  \/ \E c \in Cycles : CycleStep(c)
  \/ \E c \in Cycles : FetchFails(c)
  \/ \E c \in Cycles : Abandon(c)
  \/ \E c \in Cycles : EnqueueUnconfirmed(c)

Spec == Init /\ [][Next]_vars

(* node-cron keeps starting cycles, and every await of a cycle settles.  SEC,
   time, the parser and operators owe nothing. *)
FairSpec == Spec /\ \A c \in Cycles : WF_vars(CycleStep(c))

-----------------------------------------------------------------------------
(* Properties *)

Time == 0 .. MaxClock

SecTypeOK ==
  /\ clock \in Time
  /\ date \in [Filings -> Int \cup {Unlisted}]

StoreTypeOK ==
  /\ cursor \in Int \cup {NoCursor}
  /\ ledger \subseteq Filings
  /\ enqueued \in [Filings -> Nat]
  /\ failures \in [Companies -> Nat]
  /\ quarantined \subseteq Companies
  /\ attempt \in [Companies -> {"none", "ingesting", "marking"}]
  /\ completed \in [started : Time, failed : Nat] \cup {NoRun}

CycleTypeOK ==
  /\ pc \in [Cycles -> PCs]
  /\ since \in [Cycles -> Int]
  /\ startedAt \in [Cycles -> Time]
  /\ at \in [Cycles -> 1 .. Len(Universe) + 1]
  /\ todo \in [Cycles -> SUBSET Filings]
  /\ problems \in [Cycles -> Nat]
  /\ \A c \in Cycles :
       /\ pc[c] \in {"fetch", "mark", "filter", "enqueue", "record"} => at[c] <= Len(Universe)
       /\ pc[c] \in {"enqueue", "record"} => todo[c] # {}

HistoryTypeOK ==
  /\ skipped \subseteq Companies
  /\ missed \subseteq Filings
  /\ interrupted \subseteq Filings
  /\ overlapped \in BOOLEAN
  /\ mishaps \in Nat

TypeOK == SecTypeOK /\ StoreTypeOK /\ CycleTypeOK /\ HistoryTypeOK

(* Filings SEC lists, of companies no cycle ever skipped, not yet recorded. *)
Outstanding == {f \in Filings \ ledger : Listed(f) /\ CompanyOf[f] \in Range(Universe) \ skipped}

(* No filing falls out of the window before it is found: whatever fails, dies
   or overlaps, and however late SEC lists a filing, the next cycle still
   takes an outstanding one for a candidate (poller.ts:20-27, 127-132).  Only
   quarantine gives a filing up. *)
NothingFallsBehind ==
  cursor # NoCursor => \A f \in Outstanding : date[f] >= Earliest(cursor)

(* A completed run with no company failed vouches for every filing dated
   before the window of its own start: nothing overlooked lies behind it. *)
CleanRunVouches ==
  (completed # NoRun /\ completed.failed = 0 /\ InitialCursor # NoCursor)
    => \A f \in Outstanding : date[f] >= Earliest(completed.started)

(* discovered_filings keeps a filing from being enqueued twice (poller.ts:25-26)
   unless two cycles overlapped or one died between the enqueue and the record. *)
EnqueuedTwiceForAReason ==
  \A f \in Filings : enqueued[f] > 1 => overlapped \/ f \in interrupted

(* Every recorded filing was enqueued: the ledger never hides one. *)
RecordedWasEnqueued == \A f \in ledger : enqueued[f] > 0

(* What alerting.ts:162 tells the operator of cycles that cannot reach SEC
   ("No filings are lost - the cursor does not advance"): a filing a failed
   check missed is found in the end, or is still inside the next window. *)
FailedChecksAreRepeated ==
  \A f \in missed : f \in ledger \/ date[f] >= Earliest(LastCheckedAt)

(* As long as cycles keep running, every listed filing is enqueued and
   recorded, unless its company was skipped as quarantined. *)
EveryFilingIsFound ==
  \A f \in Filings : Listed(f) ~> f \in ledger \/ CompanyOf[f] \in skipped
=============================================================================
