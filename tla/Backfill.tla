------------------------------ MODULE Backfill ------------------------------
(***************************************************************************)
(* The backfill (scripts/backfill.ts, src/repositories/ingestionRepository *)
(* .ts): a session resumes the latest run still marked running or starts   *)
(* one, and attempts the ingestion of every company pending in it.         *)
(***************************************************************************)
EXTENDS FactStore

CONSTANTS
  Sessions,  \* processes of scripts/backfill.ts, among the ingesters
  MaxRuns    \* bound on the runs started

ASSUME SessionsAssumption == Sessions \subseteq Ingesters /\ MaxRuns \in Nat

VARIABLES
  status,     \* ingestion_runs.status, by id
  mark,       \* ingestion_run_companies.status
  session,    \* where each session is
  run,        \* the run it works for
  pending,    \* the companies on its list
  sinceStart, \* history: what SEC had published when the run was started
  shared      \* history: runs two live sessions worked for at once

backfillVars == <<status, mark, session, run, pending, sinceStart, shared>>

Runs == 1..MaxRuns
Marks == {"none", "pending", "success", "failed"}

BackfillTypeOK ==
  /\ status \in [Runs -> {"none", "running", "completed"}]
  /\ mark \in [Runs -> [Companies -> Marks]]
  /\ \A r \in Runs : status[r] = "none" <=> \A c \in Companies : mark[r][c] = "none"
  /\ session \in [Sessions -> {"off", "create", "resume", "next", "attempt"}]
  /\ run \in [Sessions -> 0..MaxRuns]
  /\ pending \in [Sessions -> SUBSET Companies]
  /\ \A s \in Sessions : /\ session[s] \in {"resume", "next", "attempt"} => status[run[s]] # "none"
                         /\ session[s] # "attempt" => at[s] = "idle"
  /\ sinceStart \in [Runs -> SUBSET published]
  /\ shared \subseteq Runs

GoOn(s, pc) == session' = [session EXCEPT ![s] = pc]

Live(s, r) == run[s] = r /\ session[s] \in {"resume", "next", "attempt"}

-----------------------------------------------------------------------------
(* startOrResumeRun *)

LatestRunning == {r \in Runs : status[r] = "running" /\ \A q \in Runs : status[q] = "running" => q <= r}

FindRun(s) ==
  /\ session[s] = "off"
  /\ \/ \E r \in LatestRunning : /\ run' = [run EXCEPT ![s] = r]
                                 /\ GoOn(s, "resume")
                                 /\ shared' = IF \E t \in Sessions : Live(t, r) THEN shared \cup {r} ELSE shared
     \/ LatestRunning = {} /\ GoOn(s, "create") /\ UNCHANGED <<run, shared>>
  /\ UNCHANGED <<storeVars, status, mark, pending, sinceStart>>

(* Mutant: a resumed run starts from the beginning. *)
Everyone(r) == Companies
(* Mutant: what has failed is taken up again instead of what is left. *)
Unfinished(r) == {c \in Companies : mark[r][c] = "failed"}
Pending(r) == {c \in Companies : mark[r][c] = "pending"}

ResumeRun(s) ==
  /\ session[s] = "resume"
  /\ GoOn(s, "next")
  /\ pending' = [pending EXCEPT ![s] = Pending(run[s])]
  /\ UNCHANGED <<storeVars, status, mark, run, sinceStart, shared>>

(* The run and its manifest are inserted in one transaction. *)
CreateRun(s) ==
  /\ session[s] = "create"
  /\ \E r \in Runs : /\ status[r] = "none" /\ \A q \in Runs : q < r => status[q] # "none"
                     /\ status' = [status EXCEPT ![r] = "running"]
                     /\ mark' = [mark EXCEPT ![r] = [c \in Companies |-> "pending"]]
                     /\ run' = [run EXCEPT ![s] = r]
                     /\ sinceStart' = [sinceStart EXCEPT ![r] = published]
  /\ GoOn(s, "next")
  /\ pending' = [pending EXCEPT ![s] = Companies]
  /\ UNCHANGED <<storeVars, shared>>

-----------------------------------------------------------------------------
(* main *)

(* The next company on the list: attemptCompanyIngestion. *)
NextCompany(s) ==
  /\ session[s] = "next" /\ pending[s] # {}
  /\ Attempt(s, Min(pending[s]))
  /\ GoOn(s, "attempt")
  /\ pending' = [pending EXCEPT ![s] = @ \ {Min(@)}]
  /\ UNCHANGED <<status, mark, run, sinceStart, shared>>

(* Mutant: a skipped company is not marked as failed. *)
MarkUnlessFailed(s) ==
  /\ session[s] = "attempt" /\ at[s] \in {"success", "failed", "skipped"}
  /\ mark' = [mark EXCEPT ![run[s]][about[s]] = IF at[s] = "failed" THEN "failed" ELSE "success"]
  /\ Finish(s)
  /\ GoOn(s, "next")
  /\ UNCHANGED <<published, companies, facts, rejected, quarantined, todo, faults,
                 status, run, pending, sinceStart, shared>>
(* markCompanySuccess, markCompanyFailed *)
Mark(s) ==
  /\ session[s] = "attempt" /\ at[s] \in {"success", "failed", "skipped"}
  /\ mark' = [mark EXCEPT ![run[s]][about[s]] = IF at[s] = "success" THEN "success" ELSE "failed"]
  /\ Finish(s)
  /\ GoOn(s, "next")
  /\ UNCHANGED <<published, companies, facts, rejected, quarantined, todo, faults,
                 status, run, pending, sinceStart, shared>>

CompleteRun(s) ==
  /\ session[s] = "next" /\ pending[s] = {}
  /\ status' = [status EXCEPT ![run[s]] = "completed"]
  /\ GoOn(s, "off")
  /\ run' = [run EXCEPT ![s] = 0]
  /\ UNCHANGED <<storeVars, mark, pending, sinceStart, shared>>

(* A step of the attempt in hand. *)
Ingest(s) ==
  /\ session[s] = "attempt"
  /\ Progress(s) \/ Succeed(s)
  /\ UNCHANGED backfillVars

(* The session is killed, or ends with an error outside the attempt. *)
EndSession(s) ==
  /\ session[s] # "off"
  /\ Die(s)
  /\ GoOn(s, "off")
  /\ run' = [run EXCEPT ![s] = 0]
  /\ pending' = [pending EXCEPT ![s] = {}]
  /\ UNCHANGED <<status, mark, sinceStart, shared>>

BackfillInit ==
  /\ status = [r \in Runs |-> "none"]
  /\ mark = [r \in Runs |-> [c \in Companies |-> "none"]]
  /\ session = [s \in Sessions |-> "off"]
  /\ run = [s \in Sessions |-> 0]
  /\ pending = [s \in Sessions |-> {}]
  /\ sinceStart = [r \in Runs |-> {}]
  /\ shared = {}

BackfillNext ==
  \E s \in Sessions : \/ FindRun(s) \/ ResumeRun(s) \/ CreateRun(s) \/ NextCompany(s)
                      \/ Ingest(s) \/ Mark(s) \/ CompleteRun(s) \/ EndSession(s)

-----------------------------------------------------------------------------
(* Properties *)

(* A company a run marks as successful is as current as SEC was at some moment
   since the run was started, whichever sessions, crashes and older documents
   came between. *)
SuccessMeansCurrent ==
  \A r \in Runs : \A c \in Companies : mark[r][c] = "success" =>
    \E accns \in SUBSET published : sinceStart[r] \subseteq accns /\ AsCurrentAs(c, accns)

(* A completed run leaves no company pending, however many sessions worked for
   it and whichever of them were killed. *)
CompletedRunIsDone ==
  \A r \in Runs : status[r] = "completed" => \A c \in Companies : mark[r][c] # "pending"

(* A resumed run does not redo a company already marked, unless two sessions
   worked for the run at once. *)
RedoneForAReason ==
  \A s \in Sessions : session[s] = "attempt" /\ mark[run[s]][about[s]] = "success" => run[s] \in shared
=============================================================================
