------------------------------ MODULE Heartbeat ------------------------------
(***************************************************************************)
(* The heartbeat (scripts/heartbeat.ts, src/alerting.ts): a process apart  *)
(* from the poller that reads poller_runs every 15 minutes and posts one   *)
(* Slack alert per outage.  There are two kinds of outage: "silence", no   *)
(* completed cycle for longer than the threshold, and "failing", the last  *)
(* two completed cycles each unable to check most companies.               *)
(*                                                                         *)
(* An outage is known by the moment it began after: the last success or    *)
(* the last healthy cycle, 0 if there was none (null).  alert_state keeps  *)
(* one moment per kind, stamped by the database after the alert was sent;  *)
(* 0 means no row.  Every stamp is a moment of its own.                    *)
(***************************************************************************)
EXTENDS Naturals, Sequences, FiniteSetsExt

CONSTANTS
  Checks,      \* runs of runOnce that may overlap: cron does not wait
  Threshold,   \* THRESHOLD_MINUTES
  Companies,   \* companies_checked of a cycle
  Failures,    \* the values companies_failed takes
  MaxTime,     \* bound on the clock between events
  MaxRuns,     \* bound on poll cycles completed after the start
  MaxMishaps   \* bound on errors, refused alerts and restarts

Types == {"silence", "failing"}

ASSUME HeartbeatAssumption ==
  /\ Failures \subseteq 0..Companies
  /\ {Threshold, Companies, MaxTime, MaxRuns, MaxMishaps} \subseteq Nat

VARIABLES
  now,         \* the clock
  runs,        \* poller_runs: the completed cycles, in the order they finished
  alertState,  \* alert_state: alertState[type] is last_alerted_at
  startedAt,   \* STARTED_AT of the heartbeat process
  pc,          \* where each run of runOnce is
  check,       \* the check it is making
  messages,    \* history: the alerts Slack received
  mishaps      \* how many of the MaxMishaps have happened

vars == <<now, runs, alertState, startedAt, pc, check, messages, mishaps>>

PCs == {"read", "healthy", "state", "send", "record"}

(* A check: its kind and the outage it found.  Two history fields: whether
   another check was about to report it when this one read alert_state, and the
   first cycle that ended outages of this kind since the check saw its own (0 if
   none has).  A recorded alert has both from its check. *)
CheckRecord == [type : Types, since : Nat, overlaps : BOOLEAN, overtaken : Nat]
Message == [type : Types, since : Nat, overlaps : BOOLEAN, overtaken : Nat, recorded : Nat]
Fresh(type) == [type |-> type, since |-> 0, overlaps |-> FALSE, overtaken |-> 0]

TypeOK ==
  /\ now \in Nat
  /\ runs \in Seq([at : 1..now, failed : Failures])
  /\ \A i, j \in 1..Len(runs) : i < j => runs[i].at < runs[j].at
  /\ alertState \in [Types -> 0..now]
  /\ startedAt \in 0..now
  /\ pc \in [Checks -> PCs]
  /\ check \in [Checks -> CheckRecord]
  /\ \A c \in Checks : pc[c] = "healthy" => check[c].type = "failing"
  /\ messages \subseteq Message
  /\ mishaps \in 0..MaxMishaps

-----------------------------------------------------------------------------
(* What the checks read *)

(* failingRun: more than half of the companies; half is healthy. *)
Failing(run) == Companies > 0 /\ 2 * run.failed > Companies

(* Every completed cycle ends a silence, a healthy one a failing outage. *)
EndsOutage(type, run) == type = "silence" \/ 2 * run.failed <= Companies

LastSuccess == Max({0} \cup {runs[i].at : i \in DOMAIN runs})
LastHealthy == Max({0} \cup {runs[i].at : i \in {j \in DOMAIN runs : 2 * runs[j].failed <= Companies}})

SilentSince == IF LastSuccess > 0 THEN LastSuccess ELSE startedAt
Silent == now - SilentSince > Threshold

(* The last FAILING_CYCLES completed cycles all failed. *)
KeepsFailing == /\ Len(runs) >= 2
                /\ \A i \in {Len(runs) - 1, Len(runs)} : Failing(runs[i])

(* sendOncePerOutage's rule: an alert newer than the last success is about
   this outage; with no success ever any alert counts. *)
(* Mutants: an outage with no success before it is never taken as reported; an
   alert once recorded silences every later outage. *)
ReportedAfterSuccess(c) == LET at == alertState[check[c].type] IN
  at # 0 /\ check[c].since # 0 /\ at > check[c].since
ReportedOnce(c) == alertState[check[c].type] # 0
AlreadyReported(c) == LET at == alertState[check[c].type] IN
  at # 0 /\ (check[c].since = 0 \/ at > check[c].since)

-----------------------------------------------------------------------------
(* runOnce: checkSilence, then checkFailures whatever became of the first *)

(* Every run of runOnce starts by reading the last success; until cron starts
   it, it waits there. *)
Begin(c, type) == pc' = [pc EXCEPT ![c] = "read"] /\ check' = [check EXCEPT ![c] = Fresh(type)]

(* Mutant: the first check's outcome ends the run. *)
EndRun(c) == Begin(c, "silence")
EndCheck(c) == Begin(c, IF check[c].type = "silence" THEN "failing" ELSE "silence")

Goto(c, label) == pc' = [pc EXCEPT ![c] = label]

(* checkPollerHeartbeat reads the last success. *)
ReadSuccess(c) ==
  /\ pc[c] = "read" /\ check[c].type = "silence"
  /\ IF Silent
     THEN Goto(c, "state") /\ check' = [check EXCEPT ![c].since = LastSuccess]
     ELSE EndCheck(c)
  /\ UNCHANGED <<now, runs, alertState, startedAt, messages, mishaps>>

(* checkPollerFailures reads the last cycles and then the last healthy one. *)
ReadRecent(c) ==
  /\ pc[c] = "read" /\ check[c].type = "failing"
  /\ IF KeepsFailing
     THEN Goto(c, "healthy") /\ UNCHANGED check
     ELSE EndCheck(c)
  /\ UNCHANGED <<now, runs, alertState, startedAt, messages, mishaps>>

ReadHealthy(c) ==
  /\ pc[c] = "healthy"
  /\ Goto(c, "state") /\ check' = [check EXCEPT ![c].since = LastHealthy]
  /\ UNCHANGED <<now, runs, alertState, startedAt, messages, mishaps>>

ReadState(c) ==
  /\ pc[c] = "state"
  /\ IF AlreadyReported(c)
     THEN EndCheck(c)
     ELSE /\ Goto(c, "send")
          /\ check' = [check EXCEPT ![c].overlaps =
               \E d \in Checks \ {c} : /\ pc[d] \in {"send", "record"}
                                       /\ check[d].type = check[c].type
                                       /\ check[d].since = check[c].since]
  /\ UNCHANGED <<now, runs, alertState, startedAt, messages, mishaps>>

Sent(c) == [type |-> check[c].type, since |-> check[c].since,
            overlaps |-> check[c].overlaps, overtaken |-> 0, recorded |-> 0]

(* Slack accepts; or it accepts and its answer is lost, so that send throws. *)
Send(c) ==
  /\ pc[c] = "send"
  /\ messages' = messages \cup {Sent(c)}
  /\ \/ Goto(c, "record") /\ UNCHANGED <<check, mishaps>>
     \/ /\ mishaps < MaxMishaps /\ mishaps' = mishaps + 1
        /\ EndCheck(c)
  /\ UNCHANGED <<now, runs, alertState, startedAt>>

(* The row is stamped by the database when it is written, not when the outage
   was seen. *)
Record(c) ==
  /\ pc[c] = "record"
  /\ now' = now + 1
  /\ alertState' = [alertState EXCEPT ![check[c].type] = now']
  /\ messages' = (messages \ {Sent(c)}) \cup
       {[Sent(c) EXCEPT !.recorded = now', !.overtaken = check[c].overtaken]}
  /\ EndCheck(c)
  /\ UNCHANGED <<runs, startedAt, mishaps>>

(* A query fails or Slack refuses the alert: logged, and tried again at the
   next scheduled check. *)
Fails(c) ==
  /\ mishaps < MaxMishaps /\ mishaps' = mishaps + 1
  /\ EndCheck(c)
  /\ UNCHANGED <<now, runs, alertState, startedAt, messages>>

(* Docker restarts the process. *)
Restart ==
  /\ mishaps < MaxMishaps /\ mishaps' = mishaps + 1
  /\ now' = now + 1 /\ startedAt' = now'
  /\ pc' = [c \in Checks |-> "read"]
  /\ check' = [c \in Checks |-> Fresh("silence")]
  /\ UNCHANGED <<runs, alertState, messages>>

-----------------------------------------------------------------------------
(* The poller completes a cycle (completePollerRun); time passes. *)

(* The checks between seeing an outage and recording its alert are overtaken by
   a cycle that ends it. *)
Overtake(run) ==
  check' = [c \in Checks |->
    IF pc[c] # "read" /\ check[c].overtaken = 0 /\ EndsOutage(check[c].type, run)
    THEN [check[c] EXCEPT !.overtaken = run.at] ELSE check[c]]

Completes(run) ==
  /\ Quantify(DOMAIN runs, LAMBDA i : runs[i].at > 1) < MaxRuns
  /\ now' = now + 1
  /\ runs' = Append(runs, run)
  /\ Overtake(run)
  /\ UNCHANGED <<alertState, startedAt, pc, messages, mishaps>>

(* Mutant: finished_at is the moment before. *)
CompleteRunEarly(failed) == Completes([at |-> now, failed |-> failed])
CompleteRun(failed) == Completes([at |-> now + 1, failed |-> failed])

Tick ==
  /\ now < MaxTime /\ now' = now + 1
  /\ UNCHANGED <<runs, alertState, startedAt, pc, check, messages, mishaps>>

(* The heartbeat starts on an empty database or after a first cycle. *)
Init ==
  /\ runs \in {<<>>} \cup {<<[at |-> 1, failed |-> f]>> : f \in Failures}
  /\ now = 1 /\ startedAt = 1
  /\ alertState = [type \in Types |-> 0]
  /\ pc = [c \in Checks |-> "read"]
  /\ check = [c \in Checks |-> Fresh("silence")]
  /\ messages = {} /\ mishaps = 0

CheckStep(c) == \/ ReadSuccess(c) \/ ReadRecent(c) \/ ReadHealthy(c)
                \/ ReadState(c) \/ Send(c) \/ Record(c) \/ Fails(c)

Next ==
  \/ \E c \in Checks : CheckStep(c)
  \/ Restart
  \/ \E failed \in Failures : CompleteRun(failed)
  \/ Tick

(* cron goes on starting checks, and a check that began goes on. *)
Fairness == \A c \in Checks : WF_vars(CheckStep(c))

Spec == Init /\ [][Next]_vars /\ Fairness

-----------------------------------------------------------------------------
(* Properties *)

(* Two alerts about one outage are explained: one of them was never recorded
   (the process died, the answer or the INSERT was lost), or one of the checks
   read alert_state while the other was sending. *)
ReportedTwiceForAReason ==
  \A m1, m2 \in messages :
    m1 # m2 /\ m1.type = m2.type /\ m1.since = m2.since
    => \E m \in {m1, m2} : m.recorded = 0 \/ m.overlaps

(* Alert m tells of the outage of type that began after since, or of a later
   one; or m was overtaken: a cycle that completed while m was being made ended
   the outage it tells of, and this one began after that cycle. *)
OvertakenBefore(m, since) == m.overtaken # 0 /\ m.overtaken <= since
TellsOf(m, type, since) == m.type = type /\ m.since >= since /\ ~ OvertakenBefore(m, since)

(* A check stays silent: it takes its outage for reported. *)
Silenced(c) == pc[c] = "state" /\ pc'[c] = "read" /\ UNCHANGED mishaps

(* A check that stays silent is right: the alert that alert_state remembers was
   received by Slack and tells of its outage or of a later one.  The one gap is
   an alert that was still being made when a cycle completed: it is stamped
   later than that cycle, and silences the outage that follows, although
   alerting.ts:50-54 says that a new success re-arms the alert.  Without the
   second disjunct the formula is violated. *)
SilencedForAReason ==
  [][\A c \in Checks : Silenced(c) =>
       LET type == check[c].type  since == check[c].since IN
       \E m \in messages : /\ m.type = type /\ m.recorded = alertState[type]
                           /\ TellsOf(m, type, since) \/ OvertakenBefore(m, since)]_vars

Covered(type, since) ==
  \E m \in messages : TellsOf(m, type, since) \/ (m.type = type /\ OvertakenBefore(m, since))

(* However checks fail, overlap, or are cut off by restarts, there is always a
   later moment without an outage, of either kind, that nobody was told of (or
   that the gap above hides). *)
Unreported == \/ Silent /\ ~ Covered("silence", LastSuccess)
              \/ KeepsFailing /\ ~ Covered("failing", LastHealthy)
OutagesAreReported == []<> ~ Unreported
=============================================================================
