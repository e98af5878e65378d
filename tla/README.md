# EDGAR Radar: a TLA+ verification development

EDGAR Radar watches SEC EDGAR for the filings of about 196 companies, stores
their XBRL facts and text, computes ratio scores and alerts users.  This
directory holds TLA+ modules translated from the source, the TLC configurations
that check them on small instances, and proofs checked by TLAPS.  Paths below
are relative to the repository root.

## 1. The system

| Part | State it keeps | Operations | What makes it correct |
|---|---|---|---|
| Poller (`src/poller.ts`, `scripts/poller.ts`) | `poller_state` (cursor), `discovered_filings`, `poller_runs` | `runPollCycle`, every 30 minutes and at start-up | no filing falls out of the window unseen; a filing is enqueued once, or twice for a known reason |
| Failing companies (`failingCompanyRepository.ts`, `companyIngestion.ts`) | `failing_companies` | `isQuarantined`, `recordFailure`, `recordSuccess`, `clearQuarantine` | one broken company does not hold up the rest; a shared outage costs nothing |
| Pipeline (`parserWorker.ts`, `scoringWorker.ts`, `notificationWorker.ts`, `queues.ts`) | three BullMQ queues, `stage_completions` | one handler per queue | each side effect at most once per filing; nothing vanishes silently; alerts rest on current facts |
| Facts store (`companyRepository.ts`, `dataQuality.ts`) | `filing_facts`, `quarantined_facts` | `upsertFact`, `storeCompanyFacts` | restatements append, re-ingestion is idempotent, bad values are kept apart |
| Text and risk diffs (`filingText.ts`, `riskFactors.ts`, `riskFactorDiff*.ts`) | `filing_text_sections`, `filing_risk_factor_diffs` | `ingestFilingText`, `computeLatestRiskFactorDiff` | a diff compares the right pair, each chunk is matched once |
| Scoring (`scoring.ts`, `scoringRepository.ts`) | none | three scores | the years compared belong together; no score from missing inputs |
| Heartbeat (`alerting.ts`, `scripts/heartbeat.ts`) | `alert_state` | `checkPollerHeartbeat`, `checkPollerFailures` | each outage is reported once, and reported |
| Reconciliation (`reconciliation.ts`, `bulkData.ts`) | `reconciliation_runs` | `runReconciliation` nightly | converges: what was corrected is not reported again |
| Backfill (`ingestionRepository.ts`, `scripts/backfill.ts`) | `ingestion_runs`, `ingestion_run_companies` | resumable runs | a killed run resumes with exactly what is pending |
| SEC client (`rateLimiter.ts`, `retry.ts`, `sec.ts`) | a token bucket per process | `acquire`, `fetchWithRetry` | the rate is never exceeded; retries are bounded |
| Response cache and replica (`cache.ts`, `cachedResponse.ts`, `db.ts`) | cache Redis, breaker | get / set / invalidate, read routing | staleness is bounded by the TTL; failures never reach a request |
| API, auth, statistics, watchlists, Bull Board, web front end | `users`, `watchlists` | request handlers, pages | a user's list has no duplicates |

How they interact: the poller adds `filing.discovered` jobs; the parser
ingests facts and text and adds `filing.parsed`; the scorer reads the facts and
adds `scores.updated`; the notifier reads the watchlists and sends Slack
alerts.  The poller and the parser share `failing_companies`: the poller counts
failed checks there, the parser failed *and* successful ingestions.  The
heartbeat reads `poller_runs`.  Every process shares one PostgreSQL database
and one queue Redis; no transaction spans two statements on these paths, so
every `await` is a point where another process, a crash or an error can step in.

Writers of facts are the parser, backfill sessions, a bulk re-ingestion, nightly
reconciliations and, for a company nobody stored yet, an API request; all of
them share `upsertFact`.  The API reads the replica or the primary and fills the
response cache, which the parser and the API delete from.  Every call to SEC
takes a token from its process's bucket.

The hard behaviours are listed, each at its line, under `hazards` in
`PROJECT.json`, with the properties that watch them; the two without a property
say why.

## 2. Modules

| Module | Models | Form |
|---|---|---|
| `FilingProgress` | what the chain promises of one filing: stages in order, each claimed once, each effect at most once | abstract specification |
| `Pipeline` | the three handlers, BullMQ's delivery, the stores they write | detailed specification, implements `FilingProgress` |
| `Poller` | the poll cycle, its cursor and ledger, quarantine, the parser's ingestion attempts as far as `failing_companies` goes | specification |
| `BoundedStaleness` | what a visitor may rely on: an answer shows every commit older than a bound | abstract specification |
| `ResponseCache` | cache-aside routes, Redis entries, the replica and its breaker, writers and their two deletions | detailed specification, implements `BoundedStaleness` |
| `Heartbeat` | the two outage checks, `alert_state`, overlapping checks, restarts | specification |
| `SecClient` | token buckets, their queues and timers, retries with backoff | specification |
| `FactStore` | ingestion attempts and bulk loads over `filing_facts` | component, composed by `Stores` |
| `Backfill` | resumable runs and their sessions | component, extends `FactStore` |
| `Reconciliation` | nightly runs over one shared archive file | component, extends `FactStore` |
| `Stores` | all writers of facts together | composition |
| `FactSelection`, `Scores`, `Verdicts`, `RiskFactorDiff`, `FilingFeed` | pure code, from a company's document to what the pages say | operators |
| `WebPages` | shared loading, search, paging and routes in one browser tab | specification |
| `ReadSide` | tries the operators' cases one by one beside `WebPages` | composition |
| `Orders` | sets in order, as `sort` and `filter` leave arrays | operators |
| `PipelineProofs`, `PollerProofs`, `ResponseCacheProofs`, `HeartbeatProofs`, `SecClientProofs`, `StoresProofs`, `ReadSideProofs` | theorems about the module each is named for | proofs |
| `DataLemmas` | minima, sums, orders and folds: induction and recursion in first-order form, cited by the others | lemmas |
| `MCPipeline`, `MCPoller`, `MCResponseCache`, `MCHeartbeat`, `MCSecClient`, `MCStores`, `MCReadSide` | constants and cases for TLC | model-checking modules |

### Pipeline

`waiting`, `active` and `failed` are BullMQ's sets per stage; `pc`, `job`,
`event` are each worker's position, job and local variables; `claimed` is
`stage_completions`; `facts`, `texts`, `diffs` are the tables the parser fills;
`emitted` counts the side effects (a `filing.parsed` job, a `scores.updated`
job, an alert).  `unwatched` and `aborted` are history variables.

Each action is one handler step between two awaits: `Take` (BullMQ locks a
job), `Ingest`, `IngestText`, `ComputeDiff`, `ComputeScores`, `ReadWatchers`,
`ClaimStage`, `Emit`, `Ack`.  The rest is what goes wrong: `Throw` (any await
rejects), `EmitUnconfirmed` (the effect happens, its answer is lost), `Crash`,
`RecoverOrphan` and `LoseLock` (the stalled check takes a job back from a dead
or a slow worker), `RetryFailed` (Bull Board).  The queues are created without
job options, so a job has one attempt: a handler that throws fails it.

A company's facts are abstracted to the set of filings whose values are stored,
a job's payload to the facts and text behind it.  The values themselves, the
scores and the alert's wording do not matter to the properties.

### Poller

`since`, `startedAt`, `at`, `todo`, `problems` are `runPollCycle`'s locals for
each running cycle; `cursor` and `ledger` are `poller_state` and
`discovered_filings`; `completed` is the latest completed row of `poller_runs`,
the one other code reads; `failures`, `quarantined` are `failing_companies`.
`recordFailure`'s two statements are two steps, on the poller's side
(`FetchFails`, `MarkQuarantined`) and on the parser's (`AttemptFails`,
`AttemptMarks`).  SEC's list is external: `ListFiling` makes a filing visible
under a date at most `Lag` days old.  Time is in ticks; only `DayOf` of a
timestamp is compared with a date, as in the code.

Left out: the industry stored by `updateCompanyIndustry`, and the rows of
`poller_runs` that no query selects (running and failed ones).

### ResponseCache

One company's responses of one kind (`key`), since entries of different keys
never meet.  The primary is the sequence of its commits (`log`), the replica the
prefix it has `applied`; a response is known by the last commit of each kind it
shows.  A request hits or misses, reads the company's row and then the facts,
each from the database the code would use at that moment, answers, and only then
stores its body; a writer commits and deletes, and a timer repeats the deletion.
Redis, the replica, requests and processes may fail at any step.

The abstract promise is `BoundedStaleness` with `Bound` = replica lag + duration
of a request + TTL.  Lag and duration are assumptions (`MaxLag`, `MaxSlow`): the
code bounds neither.

### Heartbeat

Each run of `runOnce` makes the silence check and then the failing check, every
await a step; two may overlap because cron does not wait.  An outage is known by
the moment it began after, `alert_state` by the moment the *database* recorded
it, which is later than the moment it was seen.  `messages` is what Slack got.
Two history fields only record: `overlaps`, whether another check was about to
report the same outage, and `overtaken`, the first cycle that ended outages of
its kind while an alert was being made, between seeing the outage (for the
failing check, before its second query) and recording the alert.  An alert
*tells of* the outage after `since` if it names that outage or a later one and
no cycle up to `since` overtook it.

### SecClient

A bucket counts in fractions of a token, so that the debt a truncated timer
leaves behind is visible.  `queue` is the promise chain inside `acquire`;
`Acquire`, `Wake`, `Backoff`, `Retry`, `End` are the awaits of `secFetch`.  All
times are countdowns or ages, so behaviours are unbounded in time.  `restarts`
are those of the past second, of each process; `MaxRestarts` bounds them per
process, since a supervisor restarts every container by itself.

### FactStore, Backfill, Reconciliation, Stores

A fact is one reported value: company, filing, period, filing date.  An attempt
fetches the document SEC has published so far, upserts the company and then one
fact at a time.  The label of a fact and other concepts travel with it.  Which
failure quarantines a company is left open (any may), since `recordFailure`'s
count is in `Poller`.  The parser's ingestion takes the same steps as a
session's attempt and is not repeated.  Two reconciliations share `ZIP_PATH`.

### ReadSide

Facts carry dates in months; a quotient is in thousandths and keeps what IEEE
arithmetic does with zero denominators; a text is a sequence of words, told
apart by their place in the filing; an embedding's similarity is an operator of
which only what a dot product of unit vectors guarantees is assumed
(`SimilarityAssumption`, `embeddings.ts:43`).  What a case may be at all is
`CaseAssumption`: a document's reports, an earlier and a later one of the same
company, figures of any sign, any filing, any table of the feed.  `WebPages` has the header's search and the
page of the route as two consumers of `useCached`, with renders, effects and
settled promises as steps.

### Mutants

Definitions introduced by "Mutant:" are deliberate slips of the definition that
follows them; they are not part of the specification.  Substituted for it, each
makes TLC report the property it is paired with in `PROJECT.json`, which shows
that the property depends on that line of code.

## 3. Runs

| Run | Instance | Shows |
|---|---|---|
| `pipeline_safety` | 2 parsers, 1 scorer, 1 notifier, 1 filing discovered twice, 2 mishaps, 1 stall | `TypeOK`, `AtMostOnce`, `Accounted`, `AbortIsFinal`, and that `Pipeline` implements `FilingProgress` |
| `pipeline_settles` | 1 worker per stage, 2 filings of one company (a 10-K and another form), 1 mishap | `AlertsAreCurrent`; under fairness `EveryFilingSettles` |
| `pipeline_loss` | the workers of the first, 1 filing discovered once whose form carries no statements (`Statements` is empty), 1 mishap | `NoDataLoss` is violated (finding 1) |
| `poller_overlap` | 2 overlapping cycles, 2 companies, 1 filing, 3 days, late listing, 1 mishap | `TypeOK`, `NothingFallsBehind`, `CleanRunVouches`, `EnqueuedTwiceForAReason`, `RecordedWasEnqueued` |
| `poller_finds` | 1 cycle at a time, 2 companies with a filing each, 2 days, 2 mishaps, threshold 2 | under fairness `EveryFilingIsFound` |
| `poller_outage` | 1 company, threshold 3, 3 mishaps, 4 days | `FailedChecksAreRepeated` is violated (finding 2) |
| `poller_first_run` | no cursor yet, 1 mishap, 4 days | `FailedChecksAreRepeated` is violated (finding 3) |
| `response_cache` | 1 request at a time, the parser and a host script without the cache, TTL 2, repeat 1, lag 1, 3 commits, 1 fault | `TypeOK`, `NothingStaleOutlivesTheRepeat`, `EmptyListForAReason`, and that the cache implements `BoundedStaleness` |
| `heartbeat` | 2 overlapping checks, 2 companies, 2 further cycles, 1 mishap | `TypeOK`, `ReportedTwiceForAReason`, `SilencedForAReason`; under fairness `OutagesAreReported` |
| `sec_client` | 3 calls of one process, capacity 1, 2 requests per second, 3 ticks per second, 1 retry, 1 restart of a process in a second | `TypeOK`, `SecBudgetKept`, `DebtIsLessThanATick`, `GivesUpAfterEveryRetry`; under fairness `EveryFetchEnds` |
| `stores` | 2 companies with 3 facts, 2 sessions, 1 bulk load, 2 reconciliations, 1 fault | `TypeOK`, `SuccessMeansCurrent`, `CompletedRunIsDone`, `RedoneForAReason`, `CompletedRunReconciles`, `CurrentNeverGoesBack` |
| `read_side` | the cases of `MCReadSide` and a site of 3 companies | eight properties, one for each part: `SelectedYearsStand`, `ScoresReadTheSelection`, `ScoresAreOfOneYear`, `VerdictsTellOneStory`, `SectionsKeepTheirText`, `DiffsAccountForBoth`, `FeedAccountsForItsWindow`, `PagesShowTheirOwnData` |

**Bounds.** `MaxDiscoveries` bounds duplicate deliveries by the poller,
`MaxMishaps` the failures of one behaviour, `MaxStalls` is BullMQ's own limit,
`MaxClock` bounds time.  Two duplicates and two mishaps are enough for a
duplicate, a redelivery and a lost lock to meet at one claim, which is where
the chain can go wrong; a third worker of a stage is symmetric to the second.
One filing suffices for the safety run because a claim's key is the filing, so
filings do not interact; the second run has two, since facts are shared within a
company.  For the poller one day of lookback and of lag, and three days, are
enough for a filing to be dated before the window and listed after its
company's check.  `Lookback` is 2 and `Threshold` 5 in the code; both are
parameters, and the smaller values only shorten the behaviours.

The cache's clock runs past one TTL after the first entry can be stored, long
enough for an entry to miss a commit, be deleted twice and expire; the
commits allow a company row, its facts and a restatement.  The failures a
behaviour may have (`MaxFaults`, `MaxMishaps`) are one each: two of them would
only let the excuse each property names happen twice.  `sec_client` has three
calls so that one waits behind one that waits; a tick is a third of a second
there, and the code's millisecond only makes the debt smaller.  A retry's jitter
is any delay from half the backoff to the whole, as the code draws it.  Its instance has
one process: `BudgetAssumption` adds up the shares of several, as
`secBudget.test.ts` does.  `FractionAssumption` says that what a process's timers
round away in a second, less than a token's fraction for each life of it, is
less than a token: with at most 8 requests a second of 1000 ms
(`config.ts:58`) it fails only if a process restarts more than 140 times in one
second.  In `stores` company 1 files an annual report on two
years and then one that restates the second and adds a third, implausible, year;
only the two latest years are kept (`Years`, 5 in the code), so the third takes
the place of the first in the selection and is then quarantined.  SEC has nothing
about company 2, whose attempts fail.  Old documents, corrections, the limit and
quarantine meet in it.  `read_side` enumerates its cases: all subsets of a pool
of ten facts seen at two moments, all year sets of four groups of figures, one
or two odd figures per year, all sequences of four lines of nine shapes, all
pairs of up to three chunks, all feeds of up to three filings: some 45,000
cases.  The theorems of section 4 say the same of every case.

`SYMMETRY` is used in three runs, none of which checks liveness: in
`pipeline_safety` (the two parsers), `poller_overlap` (the two cycles) and
`stores` (sessions, and reconciliations).  Those processes are interchangeable:
the initial states and the actions treat them alike, no property names one, and
`FilingProgress` has no workers.  `CONSTRAINT TwoAtOnce` in `stores` leaves out
behaviours in which more than two processes are at work at once, of five that
may take turns, and `MaxRuns` is 1 there: two backfills that open a run each, or that resume one run and open another, are
covered by the theorems only (`CompletedRunsAreDone`, `ResumedRunsRedoNothing`,
`SuccessIsHonest`).  The proofs of all six of its properties need none of these
bounds.

In `heartbeat` a silence is overtaken and the next one silenced within the
bounds; the like for the failing kind takes four cycles after the first, which
`SilenceIsExplained` covers and the run does not.

`CHECK_DEADLOCK FALSE` in the runs of the pipeline, the cache, the stores and the
read side: with the bounds spent, the queues empty or a case tried, they really
stop.  The poller, the heartbeat and the SEC client never do.

**Fairness.** `Pipeline!Fairness`: a worker process keeps taking jobs
(`restart: unless-stopped` in `docker-compose.yml`), an awaited call returns or
throws, and BullMQ's stalled check runs periodically.  Nothing is assumed of the
poller, of users or of failures.  `Poller!FairSpec`: node-cron keeps starting
cycles and every await of a cycle settles; a fetch eventually succeeds, because
failures are bounded by `MaxMishaps`.  Nothing is assumed of SEC, time, the
parser or operators.  `Heartbeat!Fairness`: cron starts checks for ever and a
check that began goes on, each step by itself; time, cycles, failures and
restarts owe nothing.  `SecClient!Fairness`: time passes, a due timer fires, a
call whose turn has come goes on and SEC answers (or the request times out);
restarts and new calls owe nothing.  The other specifications state safety only.

## 4. Proofs

Every safety property that a passing run checks is also a theorem, and so are
both refinements.  The theorems hold for every value of the constants, from the
named assumptions of the modules (`PipelineAssumption`, `PollerAssumption`,
...), which TLC evaluates in the runs, and from the hypotheses given below.

**Pipeline.** `TypeCorrect`; `CoreInvariant`, of which `EffectsHappenAtMostOnce`
and `LossIsFinal` are consequences: the inductive `Core` is `AtMostOnce`,
`ClaimantIsAlone`, `EffectsAreClaimed` and `AbortIsFinal`.  `AtMostOnce` is not
inductive alone: that a second `Emit` cannot happen follows only from the fact
that the worker past its claim is the only one there and has not performed the
effect (`ClaimantIsAlone`), which a claim preserves because effects belong to
claimed stages (`EffectsAreClaimed`).  `WorkIsAlwaysFed`: a job of a stage was
added by the stage before it.  `NothingVanishes` (`Accounted`) adds that an
acknowledged handler has claimed its stage or found no watcher
(`AcksAreEarned`).  `AlertsStayCurrent` follows the facts through job, local
variables and claim (`Supported`).  `PipelineImplementsProgress` is the
refinement: a claim maps to `ClaimOnce`, an effect to `PerformOnce`, every other
step to a stutter.

**Poller.** `TypeCorrect`; `LedgerIsTrue`; `TwiceForAReason`, by what holds
while no two cycles overlapped (`Once`); `NothingIsLeftBehind` and
`CleanRunsVouch`, by `Windows`: the cursor, and the start of every cycle without
a problem, keep every outstanding filing of the companies passed so far inside
their window, which a late listing preserves because `Lag` is no longer than
`Lookback`.  `NothingIsLeftBehind` assumes a cursor to begin with
(`InitialCursor # NoCursor`); finding 3 is what happens without one.

**ResponseCache**, for a TTL above zero (300 s in the code).  The invariant says
of every process what the rows it has read must show (`Fine`), given when it
began and how far the replica can lag; of every entry the same with a request's
duration added (`EntryFine`); and of every commit younger than the repeat
interval that its second deletion is owed or missed (`Deletions`).
`NothingStaleStays` needs the last, `EmptyListsAreExplained` the first, and
`CacheImplementsBoundedStaleness` the first two: an answer from Redis or from a
request in flight maps to `Respond`, a commit to `Write`, a tick to
`TimePasses`, the rest to `Pause`.  `MaxLag` and `MaxSlow` are the only
assumptions about time.

**Heartbeat.** `TypeCorrect`; `RepeatsAreExplained`, by the invariant that of
two checks about to report one outage one knows of the other (`Overlapping`) and
that a recorded alert is newer than its outage and no newer than `alert_state`
(`Ledger`), so that a check which reads later finds it.  `SilenceIsExplained`, of
the step in which a check stays silent, needs an invariant of its own
(`Silence`): a check that holds an outage, and every alert as of its record,
knows of each cycle that ended outages of its kind (`Explained`): its outage
began after that cycle, or the cycle overtook it; and a check's outage began
with such a cycle or with none.  The silenced outage is then one the alert names
or one that began with a cycle no earlier than the one that overtook the alert.

**SecClient**, for a capacity above zero (1 in the code, `sec.ts:24`).
`TypeCorrect`, which includes that a queue holds each waiting call once;
`OverdraftIsBounded`, by the invariant that the waiting call is the head of its
queue and that bucket and timer together give it a token but for less than a
tick's worth (`Paid`); `GivingUpIsEarned`.  `BudgetIsKept` (`SecBudgetKept`) is
the sum over the processes of a meter each of them keeps (`Metered`): of every
span of the past second up to now, the tokens spent in it and those left are no
more than a full bucket, what the span refilled, and a full bucket and a
fraction of a token for every restart in it.  The invariant must speak of all
spans, for a request leaves the second at one end while the refill it paid with
entered at the other.  From `BudgetAssumption`, what `secBudget.test.ts` adds up,
and `FractionAssumption`.

**Stores.** `TypeCorrect`; `ServedNeverGoesBack` (an action property);
`CompletedRunsAreDone`, since a session that goes through its list has every
pending company of its run on it (`Listed`); `ResumedRunsRedoNothing` (`Fresh`);
`SuccessIsHonest`, by what a session has read and need not store any more being
settled (`Reading`), which only `ServedNeverGoesBack`'s argument preserves when
another writer steps in; `CompletedRunsReconcile`, by the archive file being
whole whenever it is read (`FileSound`) and every company behind the run holding
the archive's value (`DealtWith`).

**ReadSide.** Whatever cases are tried, of the types `CaseAssumption` names, one
theorem for each part.  `SelectedYearsAlwaysStand`: by what each of the code's
loops holds after every element (`KnownFold`: each period as it was last filed;
`YearsFold`: the last period of each year; `BestFold`: the freshest tag so far),
a tag's history holds the fact that stands for each of its years
(`HistoryStands`), and what is kept of the best history is its newest years
(`SelectionStands`).  `ScoresAlwaysReadTheSelection`: every row an ingestion
stores closes its year in the document it came from, and among rows of the same
year the one that stands in the later document was filed last
(`StandingIsFiledLast`), so that reading by filing date finds again what was
selected by period (`NewestRowsStand`).  `ScoresKeepToOneYear`: `selectYears` finds the
newest of the years all series share, with the year before it where a formula
compares two; deriving a figure replaces its series by one at the years its
parts share, so the year a score is of is the newest that its figures, reported
or derived, have in common.  `VerdictsAlwaysAgree`: list, cards and summary test
the same classifications, and rounding a score for display does not take it over
the edge of its zone.  `SectionsAlwaysKeepTheirText`: each of the folds that
join, cut and split is described by the words it has used so far (`JoinedWell`,
`CutWell`, `SplitWell`), so that the chunks of a section hold its words in its
order, and what none of them holds is what the pattern for an overlong chunk
passes over.  `DiffsAlwaysAccount`: every new chunk's best match is an old one at
least as near as any other, and those removed are the old ones that are
nobody's.  `FeedAlwaysAccounts`: the lines partition, by kind, those of the first
`MaxFilings` listable filings that the filter shows, each line in the place of
its newest, while the counts are over the whole window.  `PagesAreTruthful`, by
an inductive invariant on consumers, requests and the search box (`WebInv`): data
that a consumer calls loaded are those of a request of the key it was loaded
under (`Truthful`), and of all requests of a key only the cached one did not fail
(`CachedAlone`); what Enter and a click open rests on what sorting and filtering
a list return.

**Data.** The library's induction theorems take an operator as a parameter, which
the provers cannot instantiate.  `DataLemmas` states them first-order instead:
induction as a set of numbers (`NumberInduction`) or of subsets
(`SetInduction`), recursion as a function that exists and is unique
(`SetRecursion`, from which the sum of a function over a finite set is what it
should be), and a fold over a sequence as the run of its states (`FoldRun`,
`FoldAsFunction`): a property of the first state that each element preserves
holds of the last.

**What the proofs brought to light.**  `SecBudgetKept` did not hold as first
stated, with one bound on the restarts of all processes and nothing said of the
fractions that timers drop: at 3 requests a second of 4 ticks and one restart
TLC finds a second with a request too many.  The code's rates are far from it
(section 3), and `FractionAssumption` now says so.  `ChunksKeepTheText` said
wrongly which words an overlong chunk passes over when an unpunctuated tail follows a
sentence in the middle; a ninth line shape makes TLC see it.  Two `CASE`s
had arms that were not exclusive, which TLC resolves and a proof may not.  That an
old chunk whose text survives is matched needs its embedding to be told apart
from every earlier one's, not its text: `DiffAccountsForBoth` says so now.
A document that reports one tag, period and filing date twice would make "last
filed" ambiguous; `CaseAssumption` excludes it.

**Only model-checked.** Liveness under fairness (`EveryFilingSettles`,
`EveryFilingIsFound`, `OutagesAreReported`, `EveryFetchEnds`), which TLAPS does
not reach; findings 1 to 3, which are counterexamples.

## 5. Findings

1. **A claim can outlive its effect** (`pipeline_loss`).  `claimStage` is
   committed before the next job is added; a process killed in between leaves a
   filing that no redelivery can move on.  `ROADMAP.md:136` and
   `stageCompletionRepository.ts:8-10` say otherwise.
2. **A long shared SEC outage loses filings** (`poller_outage`).  Five failed
   cycles quarantine every company, and cycles that skip them all are clean, so
   the cursor advances, against `alerting.ts:162` and `poller.ts:127-132`.
3. **The first window moves** (`poller_first_run`).  Without a stored cursor a
   failed cycle's window is not kept, against `poller.ts:131-132`.
4. **A late stamp silences the next outage** (`heartbeat`, a passing run whose
   property names the gap).  An alert is stamped when it is recorded, not when
   its outage was seen.  A cycle that completes in between is older than the
   stamp, so the next outage, which begins after that cycle, is taken for
   reported, as long as it lasts; only a further success re-arms the alert.
   `alerting.ts:50-54` says that a new success does.  The failing check has the
   gap too, and a wider one: its second query may already see the healthy cycle.
   `SilencedForAReason` shows that this is the only way to be wrongly silent, and
   `OutagesAreReported` excepts it.  Without its second disjunct
   (`OvertakenBefore`) `SilencedForAReason` says what the comment claims, and TLC
   refutes it, with one check, no mishap and `MaxTime` 6 thus: a cycle
   completes at 1; at 3 the check sees the silence and finds no row; a cycle
   completes at 4 while the alert is being sent; the row is stamped 5; at 6 the
   check sees the silence since 4 and returns.  In the bounds of the run it takes
   a restart or the other check as well.

## 6. Observations

Behaviours the models bring to light which no comment, doc or test contradicts
outright, or only in passing; a maintainer may want to know of them.

* A company whose row is stored and whose facts are not (the process died in
  between) is never fetched again by the API: the row is found.
* When the breaker closes in the middle of a request, the row comes from the
  primary and the facts may still come from a lagging replica; an empty list of
  facts is then cached.  `EmptyListForAReason` holds of the case the code
  handles, a company `readDb` missed.
* The company list is never deleted from the cache, and the host scripts run
  without it: the TTL alone bounds what they write.
* An implausible value is quarantined again by every nightly reconciliation;
  only revenue and net income are compared, and values, not filings.
* `mostRecentFact` may store a newest row under a tag `annualFacts` did not
  choose, and `getAnnualValues` asks for no minimum of years, so a company that
  switches tags can lose the scores that need two years (compare
  `scoringRepository.ts:11-14`).  A derivation that reaches a newer year with
  fewer years has the same effect, and a reported newest liability blocks one.
* Beneish: some denominators are not tested; an index that is no number arrives
  as `null`, is shown as "0.00" and reads as nothing found.
* The badge "Worth a closer look" may stand above "all moved within normal
  ranges": they are computed from different thresholds.
* `riskFactorDiff.ts:78`: the pattern that splits an overlong chunk drops an
  unpunctuated tail but for its last word.  Of identical old chunks all but one
  are reported removed.
* The feed is cut at 200 filings, so a seven-day page can count fewer than there
  are.  A lone 144/A is worded as an insider trade.
* In the header, a search stays "unavailable" after the page's retry succeeded,
  and the list stays open after Enter on a company's page.

## 7. Not modelled, and why

* Embeddings (ONNX inference over floating-point vectors) and the HTML to text
  conversion (a parser library): their results are inputs of `RiskFactorDiff`.
* Formatting of SQL, HTTP and Slack messages, URLs and headers: no property
  depends on them.
* Authentication, statistics, the watchlist routes: single statements guarded by
  a unique key or a signature, without a state of their own to go wrong in.
* Configuration and logging, the migrations' execution (node-pg-migrate): run once,
  before anything concurrent.
* The back-test and diff-backfill scripts: operators' tools that call the
  modelled code in a loop.
* Charts, layout, wording and the static pages of the front end.  On a company's
  page `CompanyPage.tsx:14` listens to the company list too; it shares the
  header's promise, and `WebPages` lets the list's cached request stand for it.
* The inside of PostgreSQL, Redis and BullMQ: external, modelled by what the
  code relies on (atomic statements, at-least-once delivery, locks that lapse).

What could be added: the diff of a filing keyed by the pair it compares, so that
jobs out of order are seen; an abstract specification of discovery for `Poller`
to implement, and one of a store of facts for `Stores`.
