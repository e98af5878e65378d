------------------------------ MODULE Pipeline ------------------------------
(***************************************************************************)
(* The event chain behind the poller: three BullMQ queues and the workers  *)
(* that consume them.                                                      *)
(*                                                                         *)
(*   filing.discovered -> parser       -> filing.parsed                    *)
(*   filing.parsed     -> scorer       -> scores.updated                   *)
(*   scores.updated    -> notification -> a Slack alert                    *)
(*                                                                         *)
(* Each handler repeats its idempotent writes freely and guards its one    *)
(* side effect that is not idempotent with claimStage, an INSERT .. ON     *)
(* CONFLICT DO NOTHING into stage_completions.  Every await of a handler   *)
(* is a step of its own here, so that a crash, an error, a lost job lock   *)
(* or another delivery of the same filing can land between any two.        *)
(*                                                                         *)
(* BullMQ is external and modelled from how the code uses it: a waiting    *)
(* job is locked by one worker; a lock that is not renewed puts the job    *)
(* back on the queue (a "stall") whether or not the worker still runs; a   *)
(* job that stalls more than MaxStalls times, or whose handler throws,     *)
(* is failed for good, since queue.add asks for no further attempts; an    *)
(* operator may retry it from Bull Board.  Waiting jobs are a set:         *)
(* with several workers and redelivery no handler relies on their order.   *)
(***************************************************************************)
EXTENDS Naturals, FiniteSets

CONSTANTS
  Filings,        \* accession numbers
  Statements,     \* those whose form carriesFinancialStatements
  AnnualReports,  \* those whose form is in TEXT_INGEST_FORMS (10-K)
  Companies,
  CompanyOf,      \* the company of each filing
  Workers,        \* worker processes, of all three kinds
  StageOf,        \* the stage each worker serves
  NoJob,          \* what an idle worker holds
  MaxDiscoveries, \* bound: filing.discovered jobs the poller adds per filing
  MaxStalls,      \* BullMQ's maxStalledCount
  MaxMishaps      \* bound: errors, crashes, lost locks, operator retries and
                  \* watchlist changes in one behaviour

Stages == {"parsed", "scored", "notified"}

ASSUME PipelineAssumption ==
  /\ Statements \subseteq Filings
  /\ AnnualReports \subseteq Statements
  /\ CompanyOf \in [Filings -> Companies]
  /\ StageOf \in [Workers -> Stages]
  /\ MaxDiscoveries \in Nat
  /\ MaxStalls \in Nat
  /\ MaxMishaps \in Nat

(* What a job says besides which filing it is about.  asOf is the company's
   stored facts when the parser refreshed them (empty when it did not:
   factsRefreshed = false); basis is what the scores were computed from. *)
Data == [asOf : SUBSET Filings, text : BOOLEAN, basis : SUBSET Filings]
NoData == [asOf |-> {}, text |-> FALSE, basis |-> {}]

(* copy tells apart the jobs added for one filing to one queue. *)
Job == [accn : Filings, copy : Nat, stalls : Nat, data : Data]

ASSUME NoJobAssumption == NoJob \notin Job

VARIABLES
  waiting,     \* waiting[s]: jobs on the queue stage s consumes
  active,      \* active[s]: <<job, worker>> for every job lock held
  failed,      \* failed[s]: jobs in BullMQ's failed set
  pc,          \* where each worker's handler is
  job,         \* the job each worker is handling
  event,       \* the local variables its handler has computed so far
  claimed,     \* stage_completions: claimed[s] is a set of filings
  facts,       \* filings whose values are in filing_facts
  texts,       \* filings with a row in filing_text_sections
  diffs,       \* 10-Ks whose diff is in filing_risk_factor_diffs
  watched,     \* companies on somebody's watchlist
  discovered,  \* discovered[f]: filing.discovered jobs ever added
  emitted,     \* emitted[s][f]: times the side effect of s happened for f
  alerts,      \* the alerts delivered to Slack
  unwatched,   \* history: filings whose job was completed with no watcher
  aborted,     \* history: <<s, f>> claimed by a handler that then stopped
  mishaps      \* how many of the MaxMishaps events have happened

queueVars   == <<waiting, active, failed>>
workerVars  == <<pc, job, event>>
storeVars   == <<facts, texts, diffs>>
effectVars  == <<emitted, alerts>>
historyVars == <<unwatched, aborted>>
vars == <<queueVars, workerVars, storeVars, effectVars, historyVars,
          claimed, watched, discovered, mishaps>>

PCs == {"idle", "ingest", "text", "diff", "score", "watchers", "claim", "emit", "ack"}

-----------------------------------------------------------------------------
(* Helpers *)

After(s) == IF s = "parsed" THEN "scored" ELSE "notified"

(* The filing a worker is handling. *)
Accn(w) == job[w].accn

(* A company's filings, and those SEC already lists for it. *)
SameCompany(f) == {g \in Filings : CompanyOf[g] = CompanyOf[f]}
Listed(f) == {g \in SameCompany(f) \cap Statements : discovered[g] > 0}

(* Jobs of stage s that BullMQ still holds. *)
Pending(s) == waiting[s] \cup failed[s] \cup {p[1] : p \in active[s]}

(* How many jobs stage s was ever given for filing f. *)
Added(s, f) == IF s = "parsed" THEN discovered[f]
               ELSE IF s = "scored" THEN emitted["parsed"][f]
               ELSE emitted["scored"][f]

(* One of the bounded number of things that go wrong or change. *)
Mishap == mishaps < MaxMishaps /\ mishaps' = mishaps + 1

HoldsLock(w) == <<job[w], w>> \in active[StageOf[w]]

-----------------------------------------------------------------------------
(* The environment: the poller adds jobs, users edit watchlists. *)

Discover(f) ==
  /\ discovered[f] < MaxDiscoveries
  /\ discovered' = [discovered EXCEPT ![f] = @ + 1]
  /\ waiting' = [waiting EXCEPT !["parsed"] = @ \cup
        {[accn |-> f, copy |-> discovered[f] + 1, stalls |-> 0, data |-> NoData]}]
  /\ UNCHANGED <<active, failed, workerVars, storeVars, effectVars, historyVars,
                 claimed, watched, mishaps>>

(* addToWatchlist by a company's first watcher, removeFromWatchlist by its last. *)
ChangeWatchlist(c) ==
  /\ watched' = IF c \in watched THEN watched \ {c} ELSE watched \cup {c}
  /\ Mishap
  /\ UNCHANGED <<queueVars, workerVars, storeVars, effectVars, historyVars,
                 claimed, discovered>>

-----------------------------------------------------------------------------
(* A handler starts: BullMQ locks a waiting job for the worker. *)

(* The parser skips the companyfacts refresh for every other form, and the
   text for every form but 10-K. *)
FirstStep(s, f) ==
  IF s = "scored" THEN "score"
  ELSE IF s = "notified" THEN "watchers"
  ELSE IF f \in Statements THEN "ingest" ELSE "claim"

Take(w) ==
  LET s == StageOf[w] IN
  /\ pc[w] = "idle"
  /\ \E j \in waiting[s] :
       /\ waiting' = [waiting EXCEPT ![s] = @ \ {j}]
       /\ active' = [active EXCEPT ![s] = @ \cup {<<j, w>>}]
       /\ job' = [job EXCEPT ![w] = j]
       /\ event' = [event EXCEPT ![w] = j.data]
       /\ pc' = [pc EXCEPT ![w] = FirstStep(s, j.accn)]
  /\ UNCHANGED <<failed, storeVars, effectVars, historyVars, claimed, watched, discovered, mishaps>>

-----------------------------------------------------------------------------
(* The parser's idempotent writes. *)

(* Mutant: the refresh is reported although nothing was stored. *)
IngestUnstored(w) ==
  /\ pc[w] = "ingest"
  /\ \E fetched \in SUBSET Listed(Accn(w)), success \in BOOLEAN :
       event' = [event EXCEPT ![w].asOf = IF success THEN fetched ELSE {}]
  /\ pc' = [pc EXCEPT ![w] = IF Accn(w) \in AnnualReports THEN "text" ELSE "claim"]
  /\ UNCHANGED <<queueVars, job, storeVars, effectVars, historyVars,
                 claimed, watched, discovered, mishaps>>

(* attemptCompanyIngestion.  A quarantined company stores nothing; SEC's
   companyfacts document may lag its filing list, so any listed filings may
   be in it; an attempt can fail before or after having stored them.  What it
   writes to failing_companies is modelled in Poller. *)
Ingest(w) ==
  /\ pc[w] = "ingest"
  /\ \E fetched \in SUBSET Listed(Accn(w)), success \in BOOLEAN :
       /\ facts' = facts \cup fetched
       /\ event' = [event EXCEPT ![w].asOf =
                      IF success THEN facts' \cap SameCompany(Accn(w)) ELSE {}]
  /\ pc' = [pc EXCEPT ![w] = IF Accn(w) \in AnnualReports THEN "text" ELSE "claim"]
  /\ UNCHANGED <<queueVars, job, texts, diffs, effectVars, historyVars,
                 claimed, watched, discovered, mishaps>>

(* ingestFilingText: a failure is logged and leaves textIngested false. *)
IngestText(w) ==
  /\ pc[w] = "text"
  /\ \/ /\ texts' = texts \cup {Accn(w)}
        /\ event' = [event EXCEPT ![w].text = TRUE]
        /\ pc' = [pc EXCEPT ![w] = "diff"]
     \/ /\ pc' = [pc EXCEPT ![w] = "claim"]
        /\ UNCHANGED <<texts, event>>
  /\ UNCHANGED <<queueVars, job, facts, diffs, effectVars, historyVars,
                 claimed, watched, discovered, mishaps>>

(* computeLatestRiskFactorDiff compares the two newest 10-Ks SEC lists, which
   need not include this one, storing the text of either that has none yet.
   It may stop at any point: nothing to compare, already compared, no Risk
   Factors section, or a failure that is logged. *)
ComputeDiff(w) ==
  /\ pc[w] = "diff"
  /\ \E pair \in SUBSET (Listed(Accn(w)) \cap AnnualReports) :
       /\ Cardinality(pair) <= 2
       /\ texts' = texts \cup pair
       /\ diffs' \in {diffs} \cup {diffs \cup {newer} : newer \in pair}
  /\ pc' = [pc EXCEPT ![w] = "claim"]
  /\ UNCHANGED <<queueVars, job, event, facts, effectVars, historyVars,
                 claimed, watched, discovered, mishaps>>

-----------------------------------------------------------------------------
(* The scorer and the notification worker, up to their claim. *)

(* computeScores reads whatever facts are stored now. *)
ComputeScores(w) ==
  /\ pc[w] = "score"
  /\ event' = [event EXCEPT ![w].basis = facts \cap SameCompany(Accn(w))]
  /\ pc' = [pc EXCEPT ![w] = "claim"]
  /\ UNCHANGED <<queueVars, job, storeVars, effectVars, historyVars,
                 claimed, watched, discovered, mishaps>>

(* Mutant: the alert is sent without a claim. *)
ReadWatchersUnclaimed(w) ==
  /\ pc[w] = "watchers"
  /\ \/ /\ CompanyOf[Accn(w)] \in watched
        /\ pc' = [pc EXCEPT ![w] = "emit"]
        /\ UNCHANGED unwatched
     \/ /\ CompanyOf[Accn(w)] \notin watched
        /\ pc' = [pc EXCEPT ![w] = "ack"]
        /\ unwatched' = unwatched \cup {Accn(w)}
  /\ UNCHANGED <<queueVars, job, event, storeVars, effectVars, aborted,
                 claimed, watched, discovered, mishaps>>

(* Mutant: a job whose company nobody watches waits for a watcher. *)
AwaitWatchers(w) ==
  /\ pc[w] = "watchers"
  /\ CompanyOf[Accn(w)] \in watched
  /\ pc' = [pc EXCEPT ![w] = "claim"]
  /\ UNCHANGED <<queueVars, job, event, storeVars, effectVars, historyVars,
                 claimed, watched, discovered, mishaps>>

(* getWatchersForCik: nobody to alert ends the job without a claim. *)
ReadWatchers(w) ==
  /\ pc[w] = "watchers"
  /\ \/ /\ CompanyOf[Accn(w)] \in watched
        /\ pc' = [pc EXCEPT ![w] = "claim"]
        /\ UNCHANGED unwatched
     \/ /\ CompanyOf[Accn(w)] \notin watched
        /\ pc' = [pc EXCEPT ![w] = "ack"]
        /\ unwatched' = unwatched \cup {Accn(w)}
  /\ UNCHANGED <<queueVars, job, event, storeVars, effectVars, aborted,
                 claimed, watched, discovered, mishaps>>

-----------------------------------------------------------------------------
(* claimStage, and the side effect it guards. *)

(* Mutant: the INSERT's conflict is not looked at. *)
ClaimAlways(w) ==
  /\ pc[w] = "claim"
  /\ claimed' = [claimed EXCEPT ![StageOf[w]] = @ \cup {Accn(w)}]
  /\ pc' = [pc EXCEPT ![w] = "emit"]
  /\ UNCHANGED <<queueVars, job, event, storeVars, effectVars, historyVars,
                 watched, discovered, mishaps>>

(* Mutant: a claim whose effect has not been seen yet is granted again. *)
ClaimUntilDone(w) ==
  LET s == StageOf[w] IN
  /\ pc[w] = "claim"
  /\ \/ /\ emitted[s][Accn(w)] = 0
        /\ claimed' = [claimed EXCEPT ![s] = @ \cup {Accn(w)}]
        /\ pc' = [pc EXCEPT ![w] = "emit"]
     \/ /\ emitted[s][Accn(w)] > 0
        /\ pc' = [pc EXCEPT ![w] = "ack"]
        /\ UNCHANGED claimed
  /\ UNCHANGED <<queueVars, job, event, storeVars, effectVars, historyVars,
                 watched, discovered, mishaps>>

ClaimStage(w) ==
  LET s == StageOf[w] IN
  /\ pc[w] = "claim"
  /\ \/ /\ Accn(w) \notin claimed[s]
        /\ claimed' = [claimed EXCEPT ![s] = @ \cup {Accn(w)}]
        /\ pc' = [pc EXCEPT ![w] = "emit"]
     \/ /\ Accn(w) \in claimed[s]
        /\ pc' = [pc EXCEPT ![w] = "ack"]
        /\ UNCHANGED claimed
  /\ UNCHANGED <<queueVars, job, event, storeVars, effectVars, historyVars,
                 watched, discovered, mishaps>>

(* filingParsedQueue.add, scoresUpdatedQueue.add or sendSlackAlert takes effect. *)
Deliver(w) ==
  LET s == StageOf[w]
      f == Accn(w) IN
  /\ emitted' = [emitted EXCEPT ![s][f] = @ + 1]
  /\ IF s = "notified"
     THEN /\ alerts' = alerts \cup {[accn |-> f, data |-> event[w]]}
          /\ UNCHANGED waiting
     ELSE /\ waiting' = [waiting EXCEPT ![After(s)] = @ \cup
               {[accn |-> f, copy |-> emitted[s][f] + 1, stalls |-> 0, data |-> event[w]]}]
          /\ UNCHANGED alerts

(* Mutant: the worker lets go of its job but stays where it was. *)
RestInPlace(w) ==
  /\ pc' = pc
  /\ job' = [job EXCEPT ![w] = NoJob]
  /\ event' = [event EXCEPT ![w] = NoData]

(* The handler is over and its worker idle again. *)
Rest(w) ==
  /\ pc' = [pc EXCEPT ![w] = "idle"]
  /\ job' = [job EXCEPT ![w] = NoJob]
  /\ event' = [event EXCEPT ![w] = NoData]

Emit(w) ==
  /\ pc[w] = "emit"
  /\ Deliver(w)
  /\ pc' = [pc EXCEPT ![w] = "ack"]
  /\ UNCHANGED <<active, failed, job, event, storeVars, historyVars,
                 claimed, watched, discovered, mishaps>>

(* The handler returned: BullMQ completes the job if the lock is still held. *)
Ack(w) ==
  LET s == StageOf[w] IN
  /\ pc[w] = "ack"
  /\ active' = [active EXCEPT ![s] = @ \ {<<job[w], w>>}]
  /\ Rest(w)
  /\ UNCHANGED <<waiting, failed, storeVars, effectVars, historyVars,
                 claimed, watched, discovered, mishaps>>

-----------------------------------------------------------------------------
(* What goes wrong. *)

(* Mutant: a job whose handler throws is dropped. *)
FailJobUnrecorded(w) ==
  /\ active' = [active EXCEPT ![StageOf[w]] = @ \ {<<job[w], w>>}]
  /\ UNCHANGED failed
  /\ Rest(w)

(* The handler throws: one attempt only, so the job is failed, unless its
   lock was lost meanwhile and the failure cannot be recorded. *)
FailJob(w) ==
  LET s == StageOf[w] IN
  /\ active' = [active EXCEPT ![s] = @ \ {<<job[w], w>>}]
  /\ failed' = IF HoldsLock(w) THEN [failed EXCEPT ![s] = @ \cup {job[w]}] ELSE failed
  /\ Rest(w)

(* A handler that stops between its claim and its effect. *)
NoteAbort(w) ==
  aborted' = IF pc[w] = "emit" THEN aborted \cup {<<StageOf[w], Accn(w)>>} ELSE aborted

(* Any await may reject: a lost database or Redis connection, Slack's refusal. *)
Throw(w) ==
  /\ pc[w] \notin {"idle", "ack"}
  /\ FailJob(w)
  /\ NoteAbort(w)
  /\ Mishap
  /\ UNCHANGED <<waiting, storeVars, effectVars, unwatched, claimed, watched, discovered>>

(* The effect happened but its confirmation never came back. *)
EmitUnconfirmed(w) ==
  /\ pc[w] = "emit"
  /\ Deliver(w)
  /\ FailJob(w)
  /\ Mishap
  /\ UNCHANGED <<storeVars, historyVars, claimed, watched, discovered>>

(* The worker process dies; its job lock stays behind. *)
Crash(w) ==
  /\ pc[w] # "idle"
  /\ Rest(w)
  /\ NoteAbort(w)
  /\ Mishap
  /\ UNCHANGED <<queueVars, storeVars, effectVars, unwatched, claimed, watched, discovered>>

(* BullMQ's stalled check takes back a job whose lock expired. *)
Stall(s, j, w) ==
  /\ <<j, w>> \in active[s]
  /\ active' = [active EXCEPT ![s] = @ \ {<<j, w>>}]
  /\ \/ /\ j.stalls < MaxStalls
        /\ waiting' = [waiting EXCEPT ![s] = @ \cup {[j EXCEPT !.stalls = @ + 1]}]
        /\ UNCHANGED failed
     \/ /\ j.stalls >= MaxStalls
        /\ failed' = [failed EXCEPT ![s] = @ \cup {j}]
        /\ UNCHANGED waiting
  /\ UNCHANGED <<workerVars, storeVars, effectVars, historyVars, claimed, watched, discovered>>

(* .. because the worker that held it is gone, *)
RecoverOrphan(s) ==
  /\ \E p \in active[s] : job[p[2]] # p[1] /\ Stall(s, p[1], p[2])
  /\ UNCHANGED mishaps

(* .. or because a live worker was too slow to renew its lock. *)
LoseLock(s) ==
  /\ \E p \in active[s] : job[p[2]] = p[1] /\ Stall(s, p[1], p[2])
  /\ Mishap

(* An operator retries a failed job from Bull Board. *)
RetryFailed(s) ==
  /\ \E j \in failed[s] :
       /\ failed' = [failed EXCEPT ![s] = @ \ {j}]
       /\ waiting' = [waiting EXCEPT ![s] = @ \cup {j}]
  /\ Mishap
  /\ UNCHANGED <<active, workerVars, storeVars, effectVars, historyVars,
                 claimed, watched, discovered>>

-----------------------------------------------------------------------------
(* The specification *)

Init ==
  /\ waiting = [s \in Stages |-> {}]
  /\ active = [s \in Stages |-> {}]
  /\ failed = [s \in Stages |-> {}]
  /\ pc = [w \in Workers |-> "idle"]
  /\ job = [w \in Workers |-> NoJob]
  /\ event = [w \in Workers |-> NoData]
  /\ claimed = [s \in Stages |-> {}]
  /\ facts = {}
  /\ texts = {}
  /\ diffs = {}
  /\ watched \in SUBSET Companies
  /\ discovered = [f \in Filings |-> 0]
  /\ emitted = [s \in Stages |-> [f \in Filings |-> 0]]
  /\ alerts = {}
  /\ unwatched = {}
  /\ aborted = {}
  /\ mishaps = 0

(* A step of the handler a worker is running. *)
HandlerStep(w) ==
  \/ Ingest(w)
  \/ IngestText(w)
  \/ ComputeDiff(w)
  \/ ComputeScores(w)
  \/ ReadWatchers(w)
  \/ ClaimStage(w)
  \/ Emit(w)
  \/ Ack(w)

Next ==
  \/ \E f \in Filings : Discover(f)
  \/ \E c \in Companies : ChangeWatchlist(c)
  \/ \E w \in Workers : Take(w)
  \/ \E w \in Workers : HandlerStep(w)
  \/ \E w \in Workers : Throw(w)
  \/ \E w \in Workers : EmitUnconfirmed(w)
  \/ \E w \in Workers : Crash(w)
  \/ \E s \in Stages : RecoverOrphan(s)
  \/ \E s \in Stages : LoseLock(s)
  \/ \E s \in Stages : RetryFailed(s)

Spec == Init /\ [][Next]_vars

(* Worker processes restart and keep taking jobs, awaited calls return or
   throw, and BullMQ's stalled check runs every stalledInterval.  The poller,
   users, operators and failures owe nothing. *)
Fairness ==
  /\ \A w \in Workers : WF_vars(Take(w)) /\ WF_vars(HandlerStep(w))
  /\ \A s \in Stages : WF_vars(RecoverOrphan(s))

FairSpec == Spec /\ Fairness

-----------------------------------------------------------------------------
(* Properties *)

TypeOK ==
  /\ waiting \in [Stages -> SUBSET Job]
  /\ active \in [Stages -> SUBSET (Job \X Workers)]
  /\ failed \in [Stages -> SUBSET Job]
  /\ pc \in [Workers -> PCs]
  /\ job \in [Workers -> Job \cup {NoJob}]
  /\ event \in [Workers -> Data]
  /\ claimed \in [Stages -> SUBSET Filings]
  /\ facts \subseteq Filings
  /\ texts \subseteq Filings
  /\ diffs \subseteq Filings
  /\ watched \subseteq Companies
  /\ discovered \in [Filings -> Nat]
  /\ emitted \in [Stages -> [Filings -> Nat]]
  /\ alerts \subseteq [accn : Filings, data : Data]
  /\ unwatched \subseteq Filings
  /\ aborted \subseteq Stages \X Filings
  /\ mishaps \in Nat
  /\ \A w \in Workers : pc[w] # "idle" => job[w] \in Job

(* Some worker stands between its claim of stage s for f and the effect. *)
InHand(s, f) == \E w \in Workers : StageOf[w] = s /\ pc[w] = "emit" /\ Accn(w) = f

(* However often a filing is discovered, redelivered, retried or handled by
   two workers at once, each stage's side effect (one filing.parsed job, one
   scores.updated job, one alert) happens at most once: what claimStage is
   for (stageCompletionRepository.ts, parserWorker.ts:36-41). *)
AtMostOnce == \A s \in Stages, f \in Filings : emitted[s][f] <= 1

(* No handler's work disappears silently.  A filing handed to a stage is
   still with BullMQ (waiting, locked or failed), or the stage is claimed, or
   nobody watched it; and a claimed stage performed its effect, is about to,
   or lost it to a handler known to have stopped after its claim. *)
Accounted ==
  /\ \A s \in Stages, f \in Filings :
       Added(s, f) > 0 =>
         \/ \E j \in Pending(s) : j.accn = f
         \/ f \in claimed[s]
         \/ s = "notified" /\ f \in unwatched
  /\ \A s \in Stages : \A f \in claimed[s] :
       emitted[s][f] > 0 \/ InHand(s, f) \/ <<s, f>> \in aborted

(* A loss is final: no redelivery, retry or duplicate performs the effect of
   a stage whose claimant stopped before performing it. *)
AbortIsFinal == \A a \in aborted : emitted[a[1]][a[2]] = 0 /\ ~InHand(a[1], a[2])

(* The inductive strengthening of the three invariants above.  A handler past
   its claim owns it alone and has not performed the effect; *)
ClaimantIsAlone ==
  /\ \A w \in Workers : pc[w] = "emit" =>
       Accn(w) \in claimed[StageOf[w]] /\ emitted[StageOf[w]][Accn(w)] = 0
  /\ \A w, v \in Workers :
       pc[w] = "emit" /\ pc[v] = "emit" /\ StageOf[w] = StageOf[v] /\ Accn(w) = Accn(v)
         => w = v

(* effects and losses belong to claimed stages; *)
EffectsAreClaimed ==
  /\ \A s \in Stages, f \in Filings : emitted[s][f] > 0 => f \in claimed[s]
  /\ \A a \in aborted : a[2] \in claimed[a[1]]

(* every job, with BullMQ or in a worker's hands, was added by the stage before; *)
WorkIsFed ==
  /\ \A s \in Stages : \A j \in Pending(s) : Added(s, j.accn) > 0
  /\ \A w \in Workers : pc[w] # "idle" => Added(StageOf[w], Accn(w)) > 0

(* and a handler that returns without an effect has a reason to. *)
AcksAreEarned ==
  \A w \in Workers : pc[w] = "ack" =>
    \/ Accn(w) \in claimed[StageOf[w]]
    \/ StageOf[w] = "notified" /\ Accn(w) \in unwatched

IInv ==
  /\ AtMostOnce
  /\ Accounted
  /\ AbortIsFinal
  /\ ClaimantIsAlone
  /\ EffectsAreClaimed
  /\ WorkIsFed
  /\ AcksAreEarned

(* An alert's scores are never older than the facts its own filing brought
   in, across two queues and any number of deliveries, and a job that says
   the filing's text was ingested finds it stored. *)
AlertsAreCurrent ==
  /\ \A a \in alerts : a.data.asOf \subseteq a.data.basis
  /\ \A s \in Stages : \A j \in Pending(s) : j.data.text => j.accn \in texts

(* Every step of the pipeline is a step of FilingProgress or changes nothing
   it speaks of: stages in order, each claimed once, each effect at most once. *)
Progress == INSTANCE FilingProgress WITH Filings <- Filings, claimed <- claimed, emitted <- emitted
ImplementsProgress == Progress!ProgressSpec

(* What became of a filing the poller discovered: alerted, unwatched, in a
   failed set an operator can see, or lost after a claim. *)
Settled(f) ==
  \/ emitted["notified"][f] > 0
  \/ f \in unwatched
  \/ \E s \in Stages : <<s, f>> \in aborted
  \/ \E s \in Stages : \E j \in failed[s] : j.accn = f

(* With workers that keep running, no discovered filing stays in the chain for
   ever, whatever crashes, lost locks and errors it meets on the way. *)
EveryFilingSettles == \A f \in Filings : discovered[f] > 0 ~> Settled(f)

(* What ROADMAP.md:136 records of killing a worker mid-job ("job returns to
   queue, no data loss"): a claimed stage has performed its effect, has a
   handler about to, or has a job that can still bring it about. *)
NoDataLoss ==
  \A s \in Stages : \A f \in claimed[s] :
    \/ emitted[s][f] > 0
    \/ InHand(s, f)
    \/ \E j \in Pending(s) : j.accn = f
=============================================================================
