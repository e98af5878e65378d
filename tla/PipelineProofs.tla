--------------------------- MODULE PipelineProofs ---------------------------
(***************************************************************************)
(* Proofs about Pipeline, for any filings, workers and bounds: the types,  *)
(* at most one side effect per filing and stage, the finality of a lost    *)
(* effect, and that Pipeline implements FilingProgress.                    *)
(***************************************************************************)
EXTENDS Pipeline, TLAPS

-----------------------------------------------------------------------------
(* Types *)

(* The records built by the actions are jobs. *)
LEMMA NewJobType ==
  ASSUME NEW f \in Filings, NEW n \in Nat, NEW d \in Data
  PROVE  [accn |-> f, copy |-> n, stalls |-> 0, data |-> d] \in Job
BY DEF Job

LEMMA StalledJobType ==
  ASSUME NEW j \in Job
  PROVE  /\ [j EXCEPT !.stalls = @ + 1] \in Job
         /\ [j EXCEPT !.stalls = @ + 1].accn = j.accn
BY DEF Job

LEMMA DataUpdate ==
  ASSUME NEW d \in Data, NEW S \in SUBSET Filings
  PROVE  /\ [d EXCEPT !.asOf = S] \in Data
         /\ [d EXCEPT !.text = TRUE] \in Data
         /\ [d EXCEPT !.basis = S] \in Data
BY DEF Data

LEMMA NoDataType == NoData \in Data
BY DEF NoData, Data

(* A worker that is handling a job holds one, about some filing. *)
LEMMA BusyWorker ==
  ASSUME TypeOK, NEW w \in Workers, pc[w] # "idle"
  PROVE  /\ job[w] \in Job
         /\ Accn(w) \in Filings
         /\ StageOf[w] \in Stages
         /\ event[w] \in Data
BY PipelineAssumption DEF TypeOK, Job, Accn

(* TypeOK is an invariant: every variable keeps its type, and a worker past
   Take always holds a job. *)
THEOREM TypeCorrect == Spec => []TypeOK
<1>1. Init => TypeOK
  BY NoDataType DEF Init, TypeOK, PCs, Stages
<1>2. TypeOK /\ [Next]_vars => TypeOK'
  <2> SUFFICES ASSUME TypeOK, [Next]_vars
               PROVE  TypeOK'
    OBVIOUS
  <2> USE DEF TypeOK
  <2>1. ASSUME NEW f \in Filings, Discover(f) PROVE TypeOK'
    <3>1. [accn |-> f, copy |-> discovered[f] + 1, stalls |-> 0, data |-> NoData] \in Job
      BY NewJobType, NoDataType
    <3>2. QED
      BY <2>1, <3>1 DEF Discover, workerVars, storeVars, effectVars, historyVars, Stages
  <2>2. ASSUME NEW c \in Companies, ChangeWatchlist(c) PROVE TypeOK'
    BY <2>2 DEF ChangeWatchlist, Mishap, queueVars, workerVars, storeVars, effectVars, historyVars
  <2>3. ASSUME NEW w \in Workers, Take(w) PROVE TypeOK'
    <3>1. StageOf[w] \in Stages
      BY PipelineAssumption
    <3>2. PICK j \in waiting[StageOf[w]] :
            /\ waiting' = [waiting EXCEPT ![StageOf[w]] = @ \ {j}]
            /\ active' = [active EXCEPT ![StageOf[w]] = @ \cup {<<j, w>>}]
            /\ job' = [job EXCEPT ![w] = j]
            /\ event' = [event EXCEPT ![w] = j.data]
            /\ pc' = [pc EXCEPT ![w] = FirstStep(StageOf[w], j.accn)]
      BY <2>3 DEF Take
    <3>3. j \in Job /\ j.data \in Data
      BY <3>1, <3>2 DEF Job
    <3>4. FirstStep(StageOf[w], j.accn) \in PCs
      BY DEF FirstStep, PCs
    <3>5. UNCHANGED <<failed, storeVars, effectVars, historyVars, claimed, watched, discovered, mishaps>>
      BY <2>3 DEF Take
    <3>6. waiting' \in [Stages -> SUBSET Job] /\ active' \in [Stages -> SUBSET (Job \X Workers)]
      BY <3>1, <3>2, <3>3
    <3>7. job' \in [Workers -> Job \cup {NoJob}] /\ event' \in [Workers -> Data] /\ pc' \in [Workers -> PCs]
      BY <3>2, <3>3, <3>4
    <3>8. \A v \in Workers : pc'[v] # "idle" => job'[v] \in Job
      BY <3>2, <3>3
    <3>9. QED
      BY <3>5, <3>6, <3>7, <3>8 DEF storeVars, effectVars, historyVars
  <2>4. ASSUME NEW w \in Workers, Ingest(w) PROVE TypeOK'
    <3>1. PICK fetched \in SUBSET Listed(Accn(w)), success \in BOOLEAN :
            /\ facts' = facts \cup fetched
            /\ event' = [event EXCEPT ![w].asOf =
                           IF success THEN facts' \cap SameCompany(Accn(w)) ELSE {}]
      BY <2>4 DEF Ingest
    <3>2. facts' \subseteq Filings
      BY <3>1 DEF Listed, SameCompany
    <3>3. event' \in [Workers -> Data]
      <4> DEFINE S == IF success THEN facts' \cap SameCompany(Accn(w)) ELSE {}
      <4>1. S \in SUBSET Filings
        BY DEF SameCompany
      <4>2. event[w] \in Data /\ event' = [event EXCEPT ![w] = [event[w] EXCEPT !.asOf = S]]
        BY <3>1
      <4> HIDE DEF S
      <4>3. [event[w] EXCEPT !.asOf = S] \in Data
        BY <4>1, <4>2, DataUpdate
      <4>4. QED
        BY <4>2, <4>3
    <3>4. pc' \in [Workers -> PCs] /\ \A v \in Workers : pc'[v] # "idle" => pc[v] # "idle"
      BY <2>4 DEF Ingest, PCs
    <3>5. QED
      BY <2>4, <3>2, <3>3, <3>4 DEF Ingest, queueVars, effectVars, historyVars
  <2>5. ASSUME NEW w \in Workers, IngestText(w) PROVE TypeOK'
    <3>1. Accn(w) \in Filings
      BY <2>5, BusyWorker DEF IngestText
    <3>2. event' \in [Workers -> Data]
      <4>1. [event[w] EXCEPT !.text = TRUE] \in Data
        BY DataUpdate
      <4>2. event' = event \/ event' = [event EXCEPT ![w] = [event[w] EXCEPT !.text = TRUE]]
        BY <2>5 DEF IngestText
      <4>3. QED
        BY <4>1, <4>2
    <3>3. pc' \in [Workers -> PCs] /\ \A v \in Workers : pc'[v] # "idle" => pc[v] # "idle"
      BY <2>5 DEF IngestText, PCs
    <3>4. QED
      BY <2>5, <3>1, <3>2, <3>3 DEF IngestText, queueVars, effectVars, historyVars
  <2>6. ASSUME NEW w \in Workers, ComputeDiff(w) PROVE TypeOK'
    <3>1. Accn(w) \in Filings
      BY <2>6, BusyWorker DEF ComputeDiff
    <3>2. pc' \in [Workers -> PCs] /\ \A v \in Workers : pc'[v] # "idle" => pc[v] # "idle"
      BY <2>6 DEF ComputeDiff, PCs
    <3>3. texts' \subseteq Filings /\ diffs' \subseteq Filings
      <4>1. PICK pair \in SUBSET (Listed(Accn(w)) \cap AnnualReports) :
              texts' = texts \cup pair /\ diffs' \in {diffs} \cup {diffs \cup {newer} : newer \in pair}
        BY <2>6 DEF ComputeDiff
      <4>2. pair \subseteq Filings
        BY PipelineAssumption
      <4>3. QED
        BY <4>1, <4>2
    <3>4. QED
      BY <2>6, <3>1, <3>2, <3>3 DEF ComputeDiff, queueVars, effectVars, historyVars
  <2>7. ASSUME NEW w \in Workers, ComputeScores(w) PROVE TypeOK'
    <3>1. event' \in [Workers -> Data]
      <4> DEFINE S == facts \cap SameCompany(Accn(w))
      <4>1. S \in SUBSET Filings
        BY DEF SameCompany
      <4>2. event[w] \in Data /\ event' = [event EXCEPT ![w] = [event[w] EXCEPT !.basis = S]]
        BY <2>7 DEF ComputeScores
      <4> HIDE DEF S
      <4>3. [event[w] EXCEPT !.basis = S] \in Data
        BY <4>1, <4>2, DataUpdate
      <4>4. QED
        BY <4>2, <4>3
    <3>2. pc' \in [Workers -> PCs] /\ \A v \in Workers : pc'[v] # "idle" => pc[v] # "idle"
      BY <2>7 DEF ComputeScores, PCs
    <3>3. QED
      BY <2>7, <3>1, <3>2 DEF ComputeScores, queueVars, storeVars, effectVars, historyVars
  <2>8. ASSUME NEW w \in Workers, ReadWatchers(w) PROVE TypeOK'
    <3>1. Accn(w) \in Filings
      BY <2>8, BusyWorker DEF ReadWatchers
    <3>2. pc' \in [Workers -> PCs] /\ \A v \in Workers : pc'[v] # "idle" => pc[v] # "idle"
      BY <2>8 DEF ReadWatchers, PCs
    <3>3. QED
      BY <2>8, <3>1, <3>2 DEF ReadWatchers, queueVars, storeVars, effectVars
  <2>9. ASSUME NEW w \in Workers, ClaimStage(w) PROVE TypeOK'
    <3>1. Accn(w) \in Filings /\ StageOf[w] \in Stages
      BY <2>9, BusyWorker DEF ClaimStage
    <3>2. pc' \in [Workers -> PCs] /\ \A v \in Workers : pc'[v] # "idle" => pc[v] # "idle"
      BY <2>9 DEF ClaimStage, PCs
    <3>3. QED
      BY <2>9, <3>1, <3>2 DEF ClaimStage, queueVars, storeVars, effectVars, historyVars
  <2>10. ASSUME NEW w \in Workers, Deliver(w), pc[w] = "emit"
         PROVE  /\ emitted' \in [Stages -> [Filings -> Nat]]
                /\ waiting' \in [Stages -> SUBSET Job]
                /\ alerts' \subseteq [accn : Filings, data : Data]
    <3>1. Accn(w) \in Filings /\ StageOf[w] \in Stages /\ event[w] \in Data
      BY <2>10, BusyWorker
    <3>2. emitted' \in [Stages -> [Filings -> Nat]]
      BY <2>10, <3>1 DEF Deliver
    <3>3. [accn |-> Accn(w), copy |-> emitted[StageOf[w]][Accn(w)] + 1, stalls |-> 0,
           data |-> event[w]] \in Job
      <4>1. emitted[StageOf[w]][Accn(w)] + 1 \in Nat
        BY <3>1
      <4>2. QED
        BY <3>1, <4>1, NewJobType
    <3>4. CASE StageOf[w] = "notified"
      BY <2>10, <3>1, <3>2, <3>4 DEF Deliver
    <3>5. CASE StageOf[w] # "notified"
      BY <2>10, <3>2, <3>3, <3>5 DEF Deliver, After, Stages
    <3>6. QED
      BY <3>4, <3>5
  <2>11. ASSUME NEW w \in Workers, Rest(w)
         PROVE  /\ pc' \in [Workers -> PCs]
                /\ job' \in [Workers -> Job \cup {NoJob}]
                /\ event' \in [Workers -> Data]
                /\ \A v \in Workers : pc'[v] # "idle" => job'[v] \in Job
    BY <2>11, NoDataType DEF Rest, PCs
  <2>12. ASSUME NEW w \in Workers, FailJob(w), pc[w] # "idle"
         PROVE  /\ active' \in [Stages -> SUBSET (Job \X Workers)]
                /\ failed' \in [Stages -> SUBSET Job]
    BY <2>12, BusyWorker DEF FailJob
  <2>13. ASSUME NEW w \in Workers, NoteAbort(w), pc[w] # "idle"
         PROVE  aborted' \subseteq Stages \X Filings
    BY <2>13, BusyWorker DEF NoteAbort
  <2>14. ASSUME NEW w \in Workers, Emit(w) PROVE TypeOK'
    <3>1. pc' \in [Workers -> PCs] /\ \A v \in Workers : pc'[v] # "idle" => pc[v] # "idle"
      BY <2>14 DEF Emit, PCs
    <3>2. QED
      BY <2>10, <2>14, <3>1 DEF Emit, storeVars, historyVars
  <2>15. ASSUME NEW w \in Workers, Ack(w) PROVE TypeOK'
    <3>1. active' \in [Stages -> SUBSET (Job \X Workers)]
      BY <2>15 DEF Ack
    <3>2. QED
      BY <2>11, <2>15, <3>1 DEF Ack, storeVars, effectVars, historyVars
  <2>16. ASSUME NEW w \in Workers, Throw(w) PROVE TypeOK'
    <3>1. pc[w] # "idle" /\ FailJob(w) /\ Rest(w) /\ NoteAbort(w)
      BY <2>16 DEF Throw, FailJob
    <3>2. QED
      BY <2>11, <2>12, <2>13, <2>16, <3>1 DEF Throw, Mishap, storeVars, effectVars
  <2>17. ASSUME NEW w \in Workers, EmitUnconfirmed(w) PROVE TypeOK'
    <3>1. pc[w] = "emit" /\ Deliver(w) /\ FailJob(w) /\ Rest(w)
      BY <2>17 DEF EmitUnconfirmed, FailJob
    <3>2. QED
      BY <2>10, <2>11, <2>12, <2>17, <3>1 DEF EmitUnconfirmed, Mishap, storeVars, historyVars
  <2>18. ASSUME NEW w \in Workers, Crash(w) PROVE TypeOK'
    <3>1. pc[w] # "idle" /\ Rest(w) /\ NoteAbort(w)
      BY <2>18 DEF Crash
    <3>2. QED
      BY <2>11, <2>13, <2>18, <3>1 DEF Crash, Mishap, queueVars, storeVars, effectVars
  <2>19. ASSUME NEW s \in Stages, NEW p \in active[s], Stall(s, p[1], p[2]), mishaps' \in Nat
         PROVE  TypeOK'
    <3>1. p[1] \in Job
      OBVIOUS
    <3>2. [p[1] EXCEPT !.stalls = @ + 1] \in Job
      BY <3>1, StalledJobType
    <3>3. active' \in [Stages -> SUBSET (Job \X Workers)]
      BY <2>19 DEF Stall
    <3>4. waiting' \in [Stages -> SUBSET Job] /\ failed' \in [Stages -> SUBSET Job]
      <4> DEFINE again == [p[1] EXCEPT !.stalls = @ + 1]
      <4>1. again \in Job
        BY <3>2
      <4>2. \/ waiting' = [waiting EXCEPT ![s] = @ \cup {again}] /\ failed' = failed
            \/ failed' = [failed EXCEPT ![s] = @ \cup {p[1]}] /\ waiting' = waiting
        BY <2>19 DEF Stall
      <4> HIDE DEF again
      <4>3. CASE waiting' = [waiting EXCEPT ![s] = @ \cup {again}] /\ failed' = failed
        BY <4>1, <4>3
      <4>4. CASE failed' = [failed EXCEPT ![s] = @ \cup {p[1]}] /\ waiting' = waiting
        BY <3>1, <4>4
      <4>5. QED
        BY <4>2, <4>3, <4>4
    <3>5. QED
      BY <2>19, <3>3, <3>4 DEF Stall, workerVars, storeVars, effectVars, historyVars
  <2>20. ASSUME NEW s \in Stages, RecoverOrphan(s) PROVE TypeOK'
    BY <2>19, <2>20 DEF RecoverOrphan
  <2>21. ASSUME NEW s \in Stages, LoseLock(s) PROVE TypeOK'
    BY <2>19, <2>21 DEF LoseLock, Mishap
  <2>22. ASSUME NEW s \in Stages, RetryFailed(s) PROVE TypeOK'
    BY <2>22 DEF RetryFailed, Mishap, workerVars, storeVars, effectVars, historyVars
  <2>23. CASE UNCHANGED vars
    BY <2>23 DEF vars, queueVars, workerVars, storeVars, effectVars, historyVars
  <2>24. QED
    BY <2>1, <2>2, <2>3, <2>4, <2>5, <2>6, <2>7, <2>8, <2>9, <2>14, <2>15, <2>16, <2>17,
       <2>18, <2>20, <2>21, <2>22, <2>23 DEF Next, HandlerStep
<1>3. QED
  BY <1>1, <1>2, PTL DEF Spec

-----------------------------------------------------------------------------
(* At most one effect *)

(* The part of the inductive invariant that speaks of claims and effects. *)
Core == AtMostOnce /\ ClaimantIsAlone /\ EffectsAreClaimed /\ AbortIsFinal

(* A step after which nobody new stands before an effect keeps Core. *)
LEMMA CoreQuiet ==
  ASSUME Core, UNCHANGED <<claimed, emitted, aborted>>,
         \A v \in Workers : pc'[v] = "emit" => pc[v] = "emit" /\ Accn(v)' = Accn(v)
  PROVE  Core'
<1>1. AtMostOnce' /\ EffectsAreClaimed'
  BY DEF Core, AtMostOnce, EffectsAreClaimed
<1>2. ClaimantIsAlone'
  BY DEF Core, ClaimantIsAlone
<1>3. AbortIsFinal'
  BY DEF Core, AbortIsFinal, InHand
<1>4. QED
  BY <1>1, <1>2, <1>3 DEF Core

(* A granted claim makes the only claimant of that stage and filing. *)
LEMMA CoreClaim ==
  ASSUME Core, TypeOK, NEW w \in Workers, ClaimStage(w)
  PROVE  Core'
<1>1. Accn(w) \in Filings /\ StageOf[w] \in Stages /\ pc[w] = "claim"
  BY BusyWorker DEF ClaimStage
<1>2. UNCHANGED <<job, emitted, aborted>>
  BY DEF ClaimStage, effectVars, historyVars
<1>3. \A v \in Workers : Accn(v)' = Accn(v)
  BY <1>2 DEF Accn
<1>4. CASE Accn(w) \in claimed[StageOf[w]]
  <2>1. UNCHANGED claimed /\ pc' = [pc EXCEPT ![w] = "ack"]
    BY <1>4 DEF ClaimStage
  <2>2. QED
    BY <1>2, <1>3, <2>1, CoreQuiet DEF TypeOK
<1>5. CASE Accn(w) \notin claimed[StageOf[w]]
  <2> DEFINE s == StageOf[w]
             f == Accn(w)
  <2>1. claimed' = [claimed EXCEPT ![s] = @ \cup {f}] /\ pc' = [pc EXCEPT ![w] = "emit"]
    BY <1>5 DEF ClaimStage
  <2>2. emitted[s][f] = 0
    BY <1>1, <1>5 DEF Core, EffectsAreClaimed, TypeOK
  <2>3. \A v \in Workers : pc[v] = "emit" => ~(StageOf[v] = s /\ Accn(v) = f)
    BY <1>5 DEF Core, ClaimantIsAlone
  <2>4. AtMostOnce'
    BY <1>2 DEF Core, AtMostOnce
  <2>5. EffectsAreClaimed'
    BY <1>1, <1>2, <2>1 DEF Core, EffectsAreClaimed, TypeOK
  <2>6. ClaimantIsAlone'
    BY <1>1, <1>2, <1>3, <2>1, <2>2, <2>3, PipelineAssumption DEF Core, ClaimantIsAlone, TypeOK
  <2>7. AbortIsFinal'
    <3> SUFFICES ASSUME NEW a \in aborted PROVE emitted[a[1]][a[2]] = 0 /\ ~InHand(a[1], a[2])'
      BY <1>2 DEF AbortIsFinal
    <3>1. emitted[a[1]][a[2]] = 0 /\ ~InHand(a[1], a[2])
      BY DEF Core, AbortIsFinal
    <3>2. ~(a[1] = s /\ a[2] = f)
      BY <1>5 DEF Core, EffectsAreClaimed
    <3>3. QED
      BY <1>3, <2>1, <3>1, <3>2 DEF InHand, TypeOK
  <2>8. QED
    BY <2>4, <2>5, <2>6, <2>7 DEF Core
<1>6. QED
  BY <1>4, <1>5

(* The claimant performs the effect for the first time and leaves. *)
LEMMA CoreDeliver ==
  ASSUME Core, TypeOK, NEW w \in Workers, pc[w] = "emit", Deliver(w),
         NEW x \in {"idle", "ack"}, pc' = [pc EXCEPT ![w] = x],
         \A v \in Workers : v # w => Accn(v)' = Accn(v),
         UNCHANGED <<claimed, aborted>>
  PROVE  Core'
<1> DEFINE s == StageOf[w]
           f == Accn(w)
<1>1. f \in Filings /\ s \in Stages
  BY BusyWorker
<1>2. emitted' = [emitted EXCEPT ![s][f] = 1] /\ emitted[s][f] = 0 /\ f \in claimed[s]
  <2>1. emitted[s][f] = 0 /\ f \in claimed[s]
    BY DEF Core, ClaimantIsAlone
  <2>2. emitted' = [emitted EXCEPT ![s][f] = @ + 1]
    BY DEF Deliver
  <2>3. emitted' = [emitted EXCEPT ![s][f] = 1]
    BY <1>1, <2>1, <2>2 DEF TypeOK
  <2>4. QED
    BY <2>1, <2>3
<1>3. \A v \in Workers : pc'[v] = "emit" => v # w /\ pc[v] = "emit" /\ Accn(v)' = Accn(v)
  BY DEF TypeOK
<1>4. \A v \in Workers : pc'[v] = "emit" => ~(StageOf[v] = s /\ Accn(v) = f)
  BY <1>3 DEF Core, ClaimantIsAlone
<1>5. AtMostOnce'
  BY <1>1, <1>2 DEF Core, AtMostOnce, TypeOK
<1>6. EffectsAreClaimed'
  BY <1>1, <1>2 DEF Core, EffectsAreClaimed, TypeOK
<1>7. ClaimantIsAlone'
  <2>1. ASSUME NEW v \in Workers, pc'[v] = "emit"
        PROVE  Accn(v)' \in claimed'[StageOf[v]] /\ emitted'[StageOf[v]][Accn(v)'] = 0
    <3>1. Accn(v) \in Filings /\ StageOf[v] \in Stages
      BY <1>3, <2>1, BusyWorker
    <3>2. Accn(v) \in claimed[StageOf[v]] /\ emitted[StageOf[v]][Accn(v)] = 0
      BY <1>3, <2>1 DEF Core, ClaimantIsAlone
    <3>3. QED
      BY <1>1, <1>2, <1>3, <1>4, <2>1, <3>1, <3>2 DEF TypeOK
  <2>2. QED
    BY <1>3, <2>1 DEF Core, ClaimantIsAlone
<1>8. AbortIsFinal'
  <2> SUFFICES ASSUME NEW a \in aborted PROVE emitted'[a[1]][a[2]] = 0 /\ ~InHand(a[1], a[2])'
    BY DEF AbortIsFinal
  <2>1. emitted[a[1]][a[2]] = 0 /\ ~InHand(a[1], a[2]) /\ a[1] \in Stages /\ a[2] \in Filings
    BY DEF Core, AbortIsFinal, TypeOK
  <2>2. ~(a[1] = s /\ a[2] = f)
    BY <2>1 DEF InHand
  <2>3. QED
    BY <1>1, <1>2, <1>3, <2>1, <2>2 DEF InHand, TypeOK
<1>9. QED
  BY <1>5, <1>6, <1>7, <1>8 DEF Core

(* A handler that stops gives up what it claimed, for good. *)
LEMMA CoreStop ==
  ASSUME Core, TypeOK, NEW w \in Workers, pc[w] # "idle", Rest(w), NoteAbort(w),
         UNCHANGED <<claimed, emitted>>
  PROVE  Core'
<1>1. pc' = [pc EXCEPT ![w] = "idle"]
  BY DEF Rest
<1>2. \A v \in Workers : pc'[v] = "emit" => v # w /\ pc[v] = "emit" /\ Accn(v)' = Accn(v)
  BY DEF Rest, Accn, TypeOK
<1>3. CASE pc[w] # "emit"
  BY <1>2, <1>3, CoreQuiet DEF NoteAbort
<1>4. CASE pc[w] = "emit"
  <2>1. aborted' = aborted \cup {<<StageOf[w], Accn(w)>>}
    BY <1>4 DEF NoteAbort
  <2>2. AtMostOnce'
    BY DEF Core, AtMostOnce
  <2>3. ClaimantIsAlone'
    BY <1>2 DEF Core, ClaimantIsAlone
  <2>4. EffectsAreClaimed'
    BY <1>4, <2>1 DEF Core, EffectsAreClaimed, ClaimantIsAlone
  <2>5. AbortIsFinal'
    <3> SUFFICES ASSUME NEW a \in aborted' PROVE emitted[a[1]][a[2]] = 0 /\ ~InHand(a[1], a[2])'
      BY DEF AbortIsFinal
    <3>1. CASE a \in aborted
      BY <1>2, <3>1 DEF Core, AbortIsFinal, InHand
    <3>2. CASE a = <<StageOf[w], Accn(w)>>
      BY <1>2, <1>4, <3>2 DEF Core, ClaimantIsAlone, InHand
    <3>3. QED
      BY <2>1, <3>1, <3>2
  <2>6. QED
    BY <2>2, <2>3, <2>4, <2>5 DEF Core
<1>5. QED
  BY <1>3, <1>4

(* Claims are exclusive, effects claimed and performed at most once, and a
   loss final, in every reachable state. *)
THEOREM CoreInvariant == Spec => []Core
<1>1. Init => Core
  BY DEF Init, Core, AtMostOnce, ClaimantIsAlone, EffectsAreClaimed, AbortIsFinal
<1>2. TypeOK /\ Core /\ [Next]_vars => Core'
  <2> SUFFICES ASSUME TypeOK, Core, [Next]_vars PROVE Core'
    OBVIOUS
  <2>1. ASSUME NEW w \in Workers, Take(w) PROVE Core'
    <3>1. PICK j \in waiting[StageOf[w]] :
            /\ job' = [job EXCEPT ![w] = j]
            /\ pc' = [pc EXCEPT ![w] = FirstStep(StageOf[w], j.accn)]
      BY <2>1 DEF Take
    <3>2. FirstStep(StageOf[w], j.accn) # "emit"
      BY DEF FirstStep
    <3>3. \A v \in Workers : pc'[v] = "emit" => pc[v] = "emit" /\ Accn(v)' = Accn(v)
      BY <3>1, <3>2 DEF Accn, TypeOK
    <3>4. QED
      BY <2>1, <3>3, CoreQuiet DEF Take, effectVars, historyVars
  <2>2. ASSUME NEW w \in Workers,
               Ingest(w) \/ IngestText(w) \/ ComputeDiff(w) \/ ComputeScores(w) \/ ReadWatchers(w)
        PROVE  Core'
    <3>1. UNCHANGED <<job, claimed, emitted, aborted>>
      BY <2>2 DEF Ingest, IngestText, ComputeDiff, ComputeScores, ReadWatchers, effectVars, historyVars
    <3>2. \E x \in PCs : x # "emit" /\ pc' = [pc EXCEPT ![w] = x]
      BY <2>2 DEF Ingest, IngestText, ComputeDiff, ComputeScores, ReadWatchers, PCs
    <3>3. \A v \in Workers : pc'[v] = "emit" => pc[v] = "emit" /\ Accn(v)' = Accn(v)
      BY <3>1, <3>2 DEF Accn, TypeOK
    <3>4. QED
      BY <3>1, <3>3, CoreQuiet
  <2>3. ASSUME NEW w \in Workers, ClaimStage(w) PROVE Core'
    BY <2>3, CoreClaim
  <2>4. ASSUME NEW w \in Workers, Emit(w) PROVE Core'
    <3>1. pc[w] = "emit" /\ Deliver(w) /\ pc' = [pc EXCEPT ![w] = "ack"]
      BY <2>4 DEF Emit
    <3>2. UNCHANGED <<job, claimed, aborted>>
      BY <2>4 DEF Emit, historyVars
    <3>3. \A v \in Workers : v # w => Accn(v)' = Accn(v)
      BY <3>2 DEF Accn
    <3>4. QED
      BY <3>1, <3>2, <3>3, CoreDeliver
  <2>5. ASSUME NEW w \in Workers, EmitUnconfirmed(w) PROVE Core'
    <3>1. pc[w] = "emit" /\ Deliver(w) /\ Rest(w)
      BY <2>5 DEF EmitUnconfirmed, FailJob
    <3>2. UNCHANGED <<claimed, aborted>>
      BY <2>5 DEF EmitUnconfirmed, historyVars
    <3>3. pc' = [pc EXCEPT ![w] = "idle"] /\ \A v \in Workers : v # w => Accn(v)' = Accn(v)
      BY <3>1 DEF Rest, Accn, TypeOK
    <3>4. QED
      BY <3>1, <3>2, <3>3, CoreDeliver
  <2>6. ASSUME NEW w \in Workers, Ack(w) PROVE Core'
    <3>1. \A v \in Workers : pc'[v] = "emit" => pc[v] = "emit" /\ Accn(v)' = Accn(v)
      BY <2>6 DEF Ack, Rest, Accn, TypeOK
    <3>2. QED
      BY <2>6, <3>1, CoreQuiet DEF Ack, effectVars, historyVars
  <2>7. ASSUME NEW w \in Workers, Throw(w) \/ Crash(w) PROVE Core'
    <3>1. pc[w] # "idle" /\ Rest(w) /\ NoteAbort(w) /\ UNCHANGED <<claimed, emitted>>
      BY <2>7 DEF Throw, Crash, FailJob, effectVars
    <3>2. QED
      BY <3>1, CoreStop
  <2>8. ASSUME UNCHANGED <<workerVars, effectVars, historyVars, claimed>> PROVE Core'
    BY <2>8, CoreQuiet DEF workerVars, effectVars, historyVars, Accn
  <2>9. QED
    BY <2>1, <2>2, <2>3, <2>4, <2>5, <2>6, <2>7, <2>8
    DEF Next, HandlerStep, Discover, ChangeWatchlist, RecoverOrphan, LoseLock, Stall,
        RetryFailed, vars
<1>3. QED
  BY <1>1, <1>2, TypeCorrect, PTL DEF Spec

(* Whatever is redelivered, retried, duplicated or handled concurrently, no
   stage's side effect happens twice for a filing. *)
THEOREM EffectsHappenAtMostOnce == Spec => []AtMostOnce
BY CoreInvariant, PTL DEF Core

(* And an effect lost between claim and enqueue is never performed later. *)
THEOREM LossIsFinal == Spec => []AbortIsFinal
BY CoreInvariant, PTL DEF Core

-----------------------------------------------------------------------------
(* Nothing enters a stage that the stage before did not pass on *)

LEMMA AddedType ==
  ASSUME TypeOK, NEW s \in Stages, NEW f \in Filings
  PROVE  Added(s, f) \in Nat
BY DEF TypeOK, Added, Stages

LEMMA PendingType ==
  ASSUME TypeOK, NEW s \in Stages, NEW j \in Pending(s)
  PROVE  j \in Job /\ j.accn \in Filings
BY DEF TypeOK, Pending, Job

(* No step takes back a job that was added. *)
LEMMA AddedGrows ==
  ASSUME TypeOK, [Next]_vars, NEW s \in Stages, NEW f \in Filings, Added(s, f) > 0
  PROVE  Added(s, f)' > 0
<1>1. CASE UNCHANGED <<discovered, emitted>>
  BY <1>1 DEF Added
<1>2. ASSUME NEW g \in Filings, Discover(g) PROVE Added(s, f)' > 0
  BY <1>2 DEF Discover, effectVars, Added, TypeOK, Stages
<1>3. ASSUME NEW w \in Workers, Emit(w) \/ EmitUnconfirmed(w) PROVE Added(s, f)' > 0
  <2>1. Deliver(w) /\ pc[w] = "emit" /\ UNCHANGED discovered
    BY <1>3 DEF Emit, EmitUnconfirmed
  <2>2. Accn(w) \in Filings /\ StageOf[w] \in Stages
    BY <2>1, BusyWorker
  <2>3. emitted' = [emitted EXCEPT ![StageOf[w]][Accn(w)] = @ + 1]
    BY <2>1 DEF Deliver
  <2>4. QED
    BY <2>1, <2>2, <2>3 DEF Added, TypeOK, Stages
<1>4. QED
  BY <1>1, <1>2, <1>3
  DEF Next, HandlerStep, ChangeWatchlist, Take, Ingest, IngestText, ComputeDiff, ComputeScores,
      ReadWatchers, ClaimStage, Ack, Throw, Crash, RecoverOrphan, LoseLock, Stall, RetryFailed,
      vars, effectVars

(* It is enough that a step's jobs come from jobs of the same stage and
   filing, or were added by the step, and its workers' from jobs. *)
LEMMA FedStep ==
  ASSUME TypeOK, TypeOK', WorkIsFed, [Next]_vars,
         \A s \in Stages : \A j \in Pending(s)' :
           (\E i \in Pending(s) : i.accn = j.accn) \/ Added(s, j.accn)' > 0,
         \A w \in Workers : pc'[w] # "idle" =>
           \/ pc[w] # "idle" /\ Accn(w)' = Accn(w)
           \/ \E i \in Pending(StageOf[w]) : i.accn = Accn(w)'
  PROVE  WorkIsFed'
<1>1. ASSUME NEW s \in Stages, NEW j \in Pending(s)' PROVE Added(s, j.accn)' > 0
  <2>1. CASE Added(s, j.accn)' > 0
    BY <2>1
  <2>2. ASSUME NEW i \in Pending(s), i.accn = j.accn PROVE Added(s, j.accn)' > 0
    BY <2>2, PendingType, AddedGrows DEF WorkIsFed
  <2>3. QED
    BY <2>1, <2>2
<1>2. ASSUME NEW w \in Workers, pc'[w] # "idle" PROVE Added(StageOf[w], Accn(w))' > 0
  <2>1. StageOf[w] \in Stages
    BY PipelineAssumption
  <2>2. CASE pc[w] # "idle" /\ Accn(w)' = Accn(w)
    <3>1. Added(StageOf[w], Accn(w)) > 0 /\ Accn(w) \in Filings
      BY <2>2, BusyWorker DEF WorkIsFed
    <3>2. QED
      BY <2>1, <2>2, <3>1, AddedGrows DEF Added
  <2>3. ASSUME NEW i \in Pending(StageOf[w]), i.accn = Accn(w)'
        PROVE  Added(StageOf[w], Accn(w))' > 0
    <3>1. Added(StageOf[w], i.accn) > 0 /\ i.accn \in Filings
      BY <2>1, PendingType DEF WorkIsFed
    <3>2. QED
      BY <2>1, <2>3, <3>1, AddedGrows DEF Added
  <2>4. QED
    BY <1>2, <2>2, <2>3
<1>3. QED
  BY <1>1, <1>2 DEF WorkIsFed

(* A stage only ever works on filings the stage before passed on to it. *)
THEOREM WorkIsAlwaysFed == Spec => []WorkIsFed
<1>1. Init => WorkIsFed
  BY DEF Init, WorkIsFed, Pending
<1>2. TypeOK /\ TypeOK' /\ WorkIsFed /\ [Next]_vars => WorkIsFed'
  <2> SUFFICES ASSUME TypeOK, TypeOK', WorkIsFed, [Next]_vars PROVE WorkIsFed'
    OBVIOUS
  <2>1. ASSUME NEW f \in Filings, Discover(f) PROVE WorkIsFed'
    <3> DEFINE new == [accn |-> f, copy |-> discovered[f] + 1, stalls |-> 0, data |-> NoData]
    <3>1. waiting' = [waiting EXCEPT !["parsed"] = @ \cup {new}] /\ UNCHANGED <<active, failed>>
      BY <2>1 DEF Discover
    <3>2. new.accn = f /\ Added("parsed", f)' > 0
      BY <2>1 DEF Discover, Added, TypeOK
    <3> HIDE DEF new
    <3>3. \A s \in Stages : \A j \in waiting'[s] : j \in waiting[s] \/ (s = "parsed" /\ j = new)
      BY <3>1 DEF TypeOK
    <3>5. \A s \in Stages : \A j \in Pending(s)' : j \in Pending(s) \/ (s = "parsed" /\ j = new)
      BY <3>1, <3>3 DEF Pending
    <3>6. \A s \in Stages : \A j \in Pending(s)' :
            (\E i \in Pending(s) : i.accn = j.accn) \/ Added(s, j.accn)' > 0
      BY <3>2, <3>5
    <3>7. UNCHANGED <<pc, job>>
      BY <2>1 DEF Discover, workerVars
    <3>8. QED
      BY <3>6, <3>7, FedStep DEF Accn
  <2>2. ASSUME NEW w \in Workers, Take(w) PROVE WorkIsFed'
    <3>1. PICK j \in waiting[StageOf[w]] :
            /\ waiting' = [waiting EXCEPT ![StageOf[w]] = @ \ {j}]
            /\ active' = [active EXCEPT ![StageOf[w]] = @ \cup {<<j, w>>}]
            /\ job' = [job EXCEPT ![w] = j]
            /\ pc' = [pc EXCEPT ![w] = FirstStep(StageOf[w], j.accn)]
            /\ UNCHANGED failed
      BY <2>2 DEF Take
    <3>2. j \in Pending(StageOf[w])
      BY <3>1 DEF Pending
    <3>3. \A s \in Stages : Pending(s)' \subseteq Pending(s)
      BY <3>1, <3>2 DEF Pending, TypeOK
    <3>4. \A v \in Workers : pc'[v] # "idle" =>
            \/ pc[v] # "idle" /\ Accn(v)' = Accn(v)
            \/ \E i \in Pending(StageOf[v]) : i.accn = Accn(v)'
      BY <3>1, <3>2 DEF Accn, TypeOK
    <3>5. QED
      BY <3>3, <3>4, FedStep
  <2>3. ASSUME NEW w \in Workers,
               \/ Ingest(w) \/ IngestText(w) \/ ComputeDiff(w) \/ ComputeScores(w)
               \/ ReadWatchers(w) \/ ClaimStage(w)
        PROVE  WorkIsFed'
    <3>1. UNCHANGED <<waiting, active, failed, job>> /\ pc[w] # "idle"
      BY <2>3 DEF Ingest, IngestText, ComputeDiff, ComputeScores, ReadWatchers, ClaimStage, queueVars
    <3>2. \E x \in PCs : pc' = [pc EXCEPT ![w] = x]
      BY <2>3 DEF Ingest, IngestText, ComputeDiff, ComputeScores, ReadWatchers, ClaimStage, PCs
    <3>3. QED
      BY <3>1, <3>2, FedStep DEF Pending, Accn, TypeOK
  <2>4. ASSUME NEW w \in Workers, Deliver(w), pc[w] = "emit"
        PROVE  \A s \in Stages : \A j \in waiting'[s] : j \in waiting[s] \/ Added(s, j.accn)' > 0
    <3> DEFINE e == StageOf[w]
               new == [accn |-> Accn(w), copy |-> emitted[e][Accn(w)] + 1, stalls |-> 0,
                       data |-> event[w]]
    <3>1. e \in Stages /\ Accn(w) \in Filings
      BY <2>4, BusyWorker
    <3>2. CASE e = "notified"
      BY <2>4, <3>2 DEF Deliver
    <3>3. CASE e # "notified"
      <4>1. waiting' = [waiting EXCEPT ![After(e)] = @ \cup {new}]
        BY <2>4, <3>3 DEF Deliver
      <4>2. emitted'[e][Accn(w)] > 0
        BY <2>4, <3>1 DEF Deliver, TypeOK
      <4>3. (e = "parsed" /\ After(e) = "scored") \/ (e = "scored" /\ After(e) = "notified")
        BY <3>1, <3>3 DEF After, Stages
      <4> SUFFICES ASSUME NEW s \in Stages, NEW j \in waiting'[s], j \notin waiting[s]
                   PROVE  Added(s, j.accn)' > 0
        OBVIOUS
      <4>4. s = After(e) /\ j = new
        BY <4>1 DEF TypeOK
      <4>5. j.accn = Accn(w)
        BY <4>4
      <4>6. QED
        BY <4>2, <4>3, <4>4, <4>5 DEF Added
    <3>4. QED
      BY <3>2, <3>3
  <2>5. ASSUME NEW w \in Workers, Emit(w) PROVE WorkIsFed'
    <3>1. /\ pc[w] = "emit" /\ Deliver(w) /\ pc' = [pc EXCEPT ![w] = "ack"]
          /\ UNCHANGED <<active, failed, job>>
      BY <2>5 DEF Emit
    <3>2. \A s \in Stages : \A j \in Pending(s)' :
            (\E i \in Pending(s) : i.accn = j.accn) \/ Added(s, j.accn)' > 0
      BY <2>4, <3>1 DEF Pending
    <3>3. QED
      BY <3>1, <3>2, FedStep DEF Accn, TypeOK
  <2>6. ASSUME NEW w \in Workers, FailJob(w), pc[w] # "idle"
        PROVE  /\ \A s \in Stages : failed'[s] \cup {p[1] : p \in active'[s]} \subseteq Pending(s)
               /\ \A v \in Workers : pc'[v] # "idle" => pc[v] # "idle" /\ Accn(v)' = Accn(v)
    <3>1. \A v \in Workers : pc'[v] # "idle" => pc[v] # "idle" /\ Accn(v)' = Accn(v)
      BY <2>6 DEF FailJob, Rest, Accn, TypeOK
    <3>2. \A s \in Stages : active'[s] \subseteq active[s]
      BY <2>6 DEF FailJob, TypeOK
    <3>3. \A s \in Stages : failed'[s] \subseteq Pending(s)
      BY <2>6 DEF FailJob, HoldsLock, Pending, TypeOK
    <3>4. QED
      BY <3>1, <3>2, <3>3 DEF Pending
  <2>7. ASSUME NEW w \in Workers, EmitUnconfirmed(w) PROVE WorkIsFed'
    <3>1. pc[w] = "emit" /\ Deliver(w) /\ FailJob(w)
      BY <2>7 DEF EmitUnconfirmed
    <3>2. \A s \in Stages : \A j \in Pending(s)' :
            (\E i \in Pending(s) : i.accn = j.accn) \/ Added(s, j.accn)' > 0
      <4> SUFFICES ASSUME NEW s \in Stages, NEW j \in Pending(s)'
                   PROVE  (\E i \in Pending(s) : i.accn = j.accn) \/ Added(s, j.accn)' > 0
        OBVIOUS
      <4>1. CASE j \in waiting'[s]
        BY <2>4, <3>1, <4>1 DEF Pending
      <4>2. CASE j \in failed'[s] \cup {p[1] : p \in active'[s]}
        BY <2>6, <3>1, <4>2
      <4>3. QED
        BY <4>1, <4>2 DEF Pending
    <3>3. QED
      BY <2>6, <3>1, <3>2, FedStep
  <2>8. ASSUME NEW w \in Workers, Throw(w) PROVE WorkIsFed'
    <3>1. pc[w] # "idle" /\ FailJob(w) /\ UNCHANGED waiting
      BY <2>8 DEF Throw
    <3>2. \A s \in Stages : Pending(s)' \subseteq Pending(s)
      BY <2>6, <3>1 DEF Pending
    <3>3. QED
      BY <2>6, <3>1, <3>2, FedStep
  <2>9. ASSUME NEW w \in Workers, Ack(w) \/ Crash(w) PROVE WorkIsFed'
    <3>1. Rest(w) /\ UNCHANGED <<waiting, failed>> /\ \A s \in Stages : active'[s] \subseteq active[s]
      BY <2>9 DEF Ack, Crash, queueVars, TypeOK
    <3>2. \A v \in Workers : pc'[v] # "idle" => pc[v] # "idle" /\ Accn(v)' = Accn(v)
      BY <3>1 DEF Rest, Accn, TypeOK
    <3>3. \A s \in Stages : Pending(s)' \subseteq Pending(s)
      BY <3>1 DEF Pending
    <3>4. QED
      BY <3>2, <3>3, FedStep
  <2>10. ASSUME NEW s \in Stages, NEW p \in active[s], Stall(s, p[1], p[2]) PROVE WorkIsFed'
    <3> DEFINE again == [p[1] EXCEPT !.stalls = @ + 1]
    <3>1. p[1] \in Pending(s) /\ p[1] \in Job
      BY DEF Pending, TypeOK
    <3>2. again.accn = p[1].accn
      BY <3>1, StalledJobType
    <3>3. /\ active' = [active EXCEPT ![s] = @ \ {<<p[1], p[2]>>}]
          /\ \/ waiting' = [waiting EXCEPT ![s] = @ \cup {again}] /\ failed' = failed
             \/ failed' = [failed EXCEPT ![s] = @ \cup {p[1]}] /\ waiting' = waiting
      BY <2>10 DEF Stall
    <3> HIDE DEF again
    <3>4. \A t \in Stages : active'[t] \subseteq active[t]
      BY <3>3 DEF TypeOK
    <3>5. \A t \in Stages : \A j \in Pending(t)' : \E i \in Pending(t) : i.accn = j.accn
      <4>1. CASE waiting' = [waiting EXCEPT ![s] = @ \cup {again}] /\ failed' = failed
        <5>1. \A t \in Stages : \A j \in waiting'[t] : j \in waiting[t] \/ (t = s /\ j = again)
          BY <4>1 DEF TypeOK
        <5>2. \A t \in Stages : \A j \in Pending(t)' : j \in Pending(t) \/ (t = s /\ j = again)
          BY <3>4, <4>1, <5>1 DEF Pending
        <5>3. QED
          BY <3>1, <3>2, <5>2
      <4>2. CASE failed' = [failed EXCEPT ![s] = @ \cup {p[1]}] /\ waiting' = waiting
        <5>1. \A t \in Stages : \A j \in failed'[t] : j \in failed[t] \/ (t = s /\ j = p[1])
          BY <4>2 DEF TypeOK
        <5>2. \A t \in Stages : \A j \in Pending(t)' : j \in Pending(t) \/ (t = s /\ j = p[1])
          BY <3>4, <4>2, <5>1 DEF Pending
        <5>3. QED
          BY <3>1, <5>2
      <4>3. QED
        BY <3>3, <4>1, <4>2
    <3>6. QED
      BY <2>10, <3>5, FedStep DEF Stall, workerVars, Accn
  <2>11. ASSUME NEW s \in Stages, RetryFailed(s) PROVE WorkIsFed'
    <3>1. \A t \in Stages : Pending(t)' \subseteq Pending(t)
      BY <2>11 DEF RetryFailed, Pending, TypeOK
    <3>2. QED
      BY <2>11, <3>1, FedStep DEF RetryFailed, workerVars, Accn
  <2>12. ASSUME UNCHANGED <<queueVars, workerVars>> PROVE WorkIsFed'
    BY <2>12, FedStep DEF queueVars, workerVars, Pending, Accn
  <2>13. QED
    BY <2>1, <2>2, <2>3, <2>5, <2>7, <2>8, <2>9, <2>10, <2>11, <2>12
    DEF Next, HandlerStep, ChangeWatchlist, RecoverOrphan, LoseLock, vars
<1>3. QED
  BY <1>1, <1>2, TypeCorrect, PTL DEF Spec

-----------------------------------------------------------------------------
(* Nothing disappears silently *)

(* A filing handed to a stage stays accounted for if what a step adds is
   pending after it, and what it takes off the queue was handled. *)
LEMMA AwaitedStep ==
  ASSUME TypeOK, Accounted,
         \A s \in Stages : claimed[s] \subseteq claimed'[s],
         unwatched \subseteq unwatched',
         \A s \in Stages, f \in Filings :
           Added(s, f)' > 0 => Added(s, f) > 0 \/ \E j \in Pending(s)' : j.accn = f,
         \A s \in Stages : \A j \in Pending(s) :
           \/ \E i \in Pending(s)' : i.accn = j.accn
           \/ j.accn \in claimed[s]
           \/ s = "notified" /\ j.accn \in unwatched
  PROVE  \A s \in Stages, f \in Filings :
           Added(s, f)' > 0 =>
             \/ \E j \in Pending(s)' : j.accn = f
             \/ f \in claimed'[s]
             \/ s = "notified" /\ f \in unwatched'
<1> SUFFICES ASSUME NEW s \in Stages, NEW f \in Filings, Added(s, f)' > 0,
                    ~ \E j \in Pending(s)' : j.accn = f
             PROVE  f \in claimed'[s] \/ (s = "notified" /\ f \in unwatched')
  OBVIOUS
<1>1. Added(s, f) > 0
  OBVIOUS
<1>2. CASE f \in claimed[s] \/ (s = "notified" /\ f \in unwatched)
  BY <1>2
<1>3. ASSUME NEW j \in Pending(s), j.accn = f
      PROVE  f \in claimed'[s] \/ (s = "notified" /\ f \in unwatched')
  BY <1>3
<1>4. QED
  BY <1>1, <1>2, <1>3 DEF Accounted

(* A claimed stage stays explained if a step's new claims are in hand and who
   leaves the effect behind has performed or lost it. *)
LEMMA ExplainedStep ==
  ASSUME TypeOK, Accounted,
         \A s \in Stages : \A f \in claimed'[s] : f \in claimed[s] \/ InHand(s, f)',
         \A s \in Stages, f \in Filings : emitted[s][f] > 0 => emitted'[s][f] > 0,
         aborted \subseteq aborted',
         \A w \in Workers : pc[w] = "emit" =>
           \/ pc'[w] = "emit" /\ Accn(w)' = Accn(w)
           \/ emitted'[StageOf[w]][Accn(w)] > 0
           \/ <<StageOf[w], Accn(w)>> \in aborted'
  PROVE  \A s \in Stages : \A f \in claimed'[s] :
           emitted'[s][f] > 0 \/ InHand(s, f)' \/ <<s, f>> \in aborted'
<1> SUFFICES ASSUME NEW s \in Stages, NEW f \in claimed'[s], f \in claimed[s]
             PROVE  emitted'[s][f] > 0 \/ InHand(s, f)' \/ <<s, f>> \in aborted'
  OBVIOUS
<1>1. f \in Filings
  BY DEF TypeOK
<1>2. ASSUME InHand(s, f) PROVE emitted'[s][f] > 0 \/ InHand(s, f)' \/ <<s, f>> \in aborted'
  BY <1>2 DEF InHand
<1>3. QED
  BY <1>1, <1>2 DEF Accounted

(* Only a notifier reads the watchers. *)
OnlyNotifiersRead == \A w \in Workers : pc[w] = "watchers" => StageOf[w] = "notified"

(* A handler that returns has done its work, or found it done, or found nobody
   to alert. *)
LEMMA EarnedStep ==
  ASSUME TypeOK, AcksAreEarned, ClaimantIsAlone, OnlyNotifiersRead, [Next]_vars
  PROVE  AcksAreEarned' /\ OnlyNotifiersRead'
<1> DEFINE Earned(v) == \/ Accn(v) \in claimed[StageOf[v]]
                        \/ StageOf[v] = "notified" /\ Accn(v) \in unwatched
           Kept(v) == /\ pc'[v] = "ack" => Earned(v)'
                      /\ pc'[v] = "watchers" => StageOf[v] = "notified"
<1> SUFFICES ASSUME NEW v \in Workers PROVE Kept(v)
  BY DEF AcksAreEarned, OnlyNotifiersRead
<1>1. Earned(v) \/ pc[v] # "ack"
  BY DEF AcksAreEarned
<1>2. StageOf[v] \in Stages
  BY PipelineAssumption
<1> HIDE DEF Earned
<1>3. ASSUME UNCHANGED <<pc, job, claimed, unwatched>> PROVE Kept(v)
  BY <1>1, <1>3 DEF Earned, Accn, OnlyNotifiersRead
<1>4. ASSUME NEW w \in Workers,
             Take(w) \/ Ingest(w) \/ IngestText(w) \/ ComputeDiff(w) \/ ComputeScores(w)
      PROVE  Kept(v)
  <2>1. CASE Take(w)
    <3>1. /\ \E j \in waiting[StageOf[w]] : /\ pc' = [pc EXCEPT ![w] = FirstStep(StageOf[w], j.accn)]
                                            /\ job' = [job EXCEPT ![w] = j]
          /\ UNCHANGED <<claimed, unwatched>>
      BY <2>1 DEF Take, historyVars
    <3>2. v # w => pc'[v] = pc[v] /\ (Earned(v) => Earned(v)')
      BY <3>1 DEF TypeOK, Earned, Accn
    <3>3. v = w => pc'[v] # "ack" /\ (pc'[v] = "watchers" => StageOf[v] = "notified")
      BY <1>2, <3>1 DEF TypeOK, FirstStep, Stages
    <3>4. QED
      BY <1>1, <3>2, <3>3 DEF OnlyNotifiersRead
  <2>2. CASE Ingest(w) \/ IngestText(w) \/ ComputeDiff(w) \/ ComputeScores(w)
    <3>1. UNCHANGED <<job, claimed, unwatched>>
      BY <2>2 DEF Ingest, IngestText, ComputeDiff, ComputeScores, historyVars
    <3>2. \E x \in {"text", "diff", "claim"} : pc' = [pc EXCEPT ![w] = x]
      BY <2>2 DEF Ingest, IngestText, ComputeDiff, ComputeScores
    <3>3. Earned(v) => Earned(v)'
      BY <3>1 DEF Earned, Accn
    <3>4. QED
      BY <1>1, <3>2, <3>3 DEF OnlyNotifiersRead, TypeOK
  <2>3. QED
    BY <1>4, <2>1, <2>2
<1>5. ASSUME NEW w \in Workers, ReadWatchers(w) PROVE Kept(v)
  <2>1. StageOf[w] = "notified" /\ UNCHANGED <<job, claimed>> /\ unwatched \subseteq unwatched'
    BY <1>5 DEF ReadWatchers, OnlyNotifiersRead
  <2>2. Earned(v) => Earned(v)'
    BY <2>1 DEF Earned, Accn
  <2>3. \/ pc' = [pc EXCEPT ![w] = "claim"]
        \/ pc' = [pc EXCEPT ![w] = "ack"] /\ Accn(w) \in unwatched'
    BY <1>5 DEF ReadWatchers
  <2>4. v = w /\ pc'[v] = "ack" => Earned(v)'
    BY <2>1, <2>3 DEF Earned, Accn, TypeOK
  <2>5. QED
    BY <1>1, <2>1, <2>2, <2>3, <2>4 DEF TypeOK, OnlyNotifiersRead
<1>6. ASSUME NEW w \in Workers, ClaimStage(w) \/ Emit(w) PROVE Kept(v)
  <2>1. /\ UNCHANGED <<job, unwatched>> /\ \A s \in Stages : claimed[s] \subseteq claimed'[s]
        /\ \E x \in {"ack", "emit"} : pc' = [pc EXCEPT ![w] = x]
        /\ pc'[w] = "ack" => Accn(w) \in claimed[StageOf[w]]
    BY <1>6 DEF ClaimStage, Emit, historyVars, TypeOK, ClaimantIsAlone
  <2>2. Earned(v) => Earned(v)'
    BY <1>2, <2>1 DEF Earned, Accn
  <2>3. v = w /\ pc'[v] = "ack" => Earned(v)
    BY <2>1 DEF Earned
  <2>4. QED
    BY <1>1, <2>1, <2>2, <2>3 DEF TypeOK, OnlyNotifiersRead
<1>7. ASSUME NEW w \in Workers, Ack(w) \/ Throw(w) \/ EmitUnconfirmed(w) \/ Crash(w) PROVE Kept(v)
  <2>1. Rest(w) /\ UNCHANGED <<claimed, unwatched>>
    BY <1>7 DEF Ack, Throw, EmitUnconfirmed, Crash, FailJob, historyVars
  <2>2. v # w => pc'[v] = pc[v] /\ (Earned(v) => Earned(v)')
    BY <2>1 DEF Rest, Earned, Accn, TypeOK
  <2>3. v = w => pc'[v] = "idle"
    BY <2>1 DEF Rest, TypeOK
  <2>4. QED
    BY <1>1, <2>2, <2>3 DEF OnlyNotifiersRead
<1>8. QED
  BY <1>3, <1>4, <1>5, <1>6, <1>7
  DEF Next, HandlerStep, Discover, ChangeWatchlist, RecoverOrphan, LoseLock, Stall, RetryFailed,
      vars, workerVars, historyVars

(* The books are kept by every step. *)
LEMMA AccountedKept ==
  ASSUME TypeOK, TypeOK', Core, AcksAreEarned, Accounted, [Next]_vars
  PROVE  Accounted'
<1> DEFINE Explained == \A s \in Stages : \A f \in claimed[s] :
                          emitted[s][f] > 0 \/ InHand(s, f) \/ <<s, f>> \in aborted
           Awaited == \A s \in Stages, f \in Filings :
                        Added(s, f) > 0 =>
                          \/ \E j \in Pending(s) : j.accn = f
                          \/ f \in claimed[s]
                          \/ s = "notified" /\ f \in unwatched
           Grew == /\ \A s \in Stages : claimed[s] \subseteq claimed'[s]
                   /\ unwatched \subseteq unwatched'
           Stays == \A s \in Stages : \A j \in Pending(s) :
                      \/ \E i \in Pending(s)' : i.accn = j.accn
                      \/ j.accn \in claimed[s]
                      \/ s = "notified" /\ j.accn \in unwatched
           Comes == \A s \in Stages, f \in Filings :
                      Added(s, f)' > 0 => Added(s, f) > 0 \/ \E j \in Pending(s)' : j.accn = f
<1> SUFFICES Explained' /\ Awaited'
  BY DEF Accounted
<1>1. ASSUME Grew, Stays, Comes PROVE Awaited'
  BY <1>1, AwaitedStep
<1>2. ASSUME UNCHANGED <<claimed, emitted, aborted>>,
             \A w \in Workers : pc[w] = "emit" => pc'[w] = "emit" /\ Accn(w)' = Accn(w)
      PROVE  Explained'
  BY <1>2, ExplainedStep
<1>3. ASSUME NEW f \in Filings, Discover(f) PROVE Explained' /\ Awaited'
  <2> DEFINE new == [accn |-> f, copy |-> discovered[f] + 1, stalls |-> 0, data |-> NoData]
  <2>1. /\ waiting' = [waiting EXCEPT !["parsed"] = @ \cup {new}]
        /\ discovered' = [discovered EXCEPT ![f] = @ + 1]
        /\ UNCHANGED <<active, failed, pc, job, claimed, emitted, aborted, unwatched>>
    BY <1>3 DEF Discover, workerVars, effectVars, historyVars
  <2>2. new.accn = f
    OBVIOUS
  <2> HIDE DEF new
  <2>3. Grew /\ \A s \in Stages : Pending(s) \subseteq Pending(s)'
    BY <2>1 DEF Pending, TypeOK
  <2>4. new \in Pending("parsed")'
    BY <2>1 DEF Pending, TypeOK, Stages
  <2>5. \A s \in Stages, g \in Filings : Added(s, g)' = Added(s, g) \/ (s = "parsed" /\ g = f)
    BY <2>1 DEF Added, TypeOK
  <2>6. Comes /\ Stays
    BY <2>2, <2>3, <2>4, <2>5
  <2>7. QED
    BY <1>1, <1>2, <2>1, <2>3, <2>6 DEF Accn
<1>4. ASSUME NEW w \in Workers, Take(w) PROVE Explained' /\ Awaited'
  <2>1. PICK j \in waiting[StageOf[w]] :
          /\ waiting' = [waiting EXCEPT ![StageOf[w]] = @ \ {j}]
          /\ active' = [active EXCEPT ![StageOf[w]] = @ \cup {<<j, w>>}]
          /\ job' = [job EXCEPT ![w] = j]
          /\ pc' = [pc EXCEPT ![w] = FirstStep(StageOf[w], j.accn)]
          /\ UNCHANGED <<failed, claimed, emitted, aborted, unwatched, discovered>>
    BY <1>4 DEF Take, effectVars, historyVars
  <2>2. StageOf[w] \in Stages /\ pc[w] = "idle"
    BY <1>4, PipelineAssumption DEF Take
  <2>3. \A s \in Stages : Pending(s) \subseteq Pending(s)'
    <3> SUFFICES ASSUME NEW s \in Stages, NEW i \in Pending(s) PROVE i \in Pending(s)'
      OBVIOUS
    <3>1. active[s] \subseteq active'[s] /\ (s = StageOf[w] => <<j, w>> \in active'[s])
      BY <2>1, <2>2 DEF TypeOK
    <3>2. i \in waiting[s] => i \in waiting'[s] \/ (s = StageOf[w] /\ i = j)
      BY <2>1, <2>2 DEF TypeOK
    <3>3. QED
      BY <2>1, <3>1, <3>2 DEF Pending
  <2>4. Grew /\ Stays /\ Comes
    BY <2>1, <2>3 DEF Added
  <2>5. \A v \in Workers : pc[v] = "emit" => pc'[v] = "emit" /\ Accn(v)' = Accn(v)
    BY <2>1, <2>2 DEF TypeOK, Accn
  <2>6. QED
    BY <1>1, <1>2, <2>1, <2>4, <2>5
<1>5. ASSUME NEW w \in Workers,
             Ingest(w) \/ IngestText(w) \/ ComputeDiff(w) \/ ComputeScores(w) \/ ReadWatchers(w)
      PROVE  Explained' /\ Awaited'
  <2>1. /\ UNCHANGED <<waiting, active, failed, job, claimed, emitted, aborted, discovered>>
        /\ unwatched \subseteq unwatched' /\ pc[w] # "emit"
        /\ \E x \in PCs : pc' = [pc EXCEPT ![w] = x]
    BY <1>5 DEF Ingest, IngestText, ComputeDiff, ComputeScores, ReadWatchers, queueVars, effectVars,
                historyVars, PCs
  <2>2. Grew /\ Stays /\ Comes
    BY <2>1 DEF Pending, Added
  <2>3. \A v \in Workers : pc[v] = "emit" => pc'[v] = "emit" /\ Accn(v)' = Accn(v)
    BY <2>1 DEF TypeOK, Accn
  <2>4. QED
    BY <1>1, <1>2, <2>1, <2>2, <2>3
<1>6. ASSUME NEW w \in Workers, ClaimStage(w) PROVE Explained' /\ Awaited'
  <2>1. /\ UNCHANGED <<waiting, active, failed, job, emitted, aborted, discovered, unwatched>>
        /\ pc[w] = "claim"
    BY <1>6 DEF ClaimStage, queueVars, effectVars, historyVars
  <2>2. Accn(w) \in Filings /\ StageOf[w] \in Stages
    BY <2>1, BusyWorker
  <2>3. \/ claimed' = claimed /\ pc' = [pc EXCEPT ![w] = "ack"]
        \/ /\ claimed' = [claimed EXCEPT ![StageOf[w]] = @ \cup {Accn(w)}]
           /\ pc' = [pc EXCEPT ![w] = "emit"]
    BY <1>6 DEF ClaimStage
  <2>4. Grew /\ Stays /\ Comes
    BY <2>1, <2>2, <2>3 DEF Pending, Added, TypeOK
  <2>5. \A s \in Stages : \A f \in claimed'[s] : f \in claimed[s] \/ InHand(s, f)'
    <3>1. CASE claimed' = claimed
      BY <3>1
    <3>2. CASE /\ claimed' = [claimed EXCEPT ![StageOf[w]] = @ \cup {Accn(w)}]
               /\ pc' = [pc EXCEPT ![w] = "emit"]
      <4>1. pc'[w] = "emit" /\ Accn(w)' = Accn(w)
        BY <2>1, <3>2 DEF Accn, TypeOK
      <4>2. \A s \in Stages : \A f \in claimed'[s] :
              f \in claimed[s] \/ (s = StageOf[w] /\ f = Accn(w))
        BY <2>2, <3>2 DEF TypeOK
      <4>3. QED
        BY <4>1, <4>2 DEF InHand
    <3>3. QED
      BY <2>3, <3>1, <3>2
  <2>6. \A v \in Workers : pc[v] = "emit" => pc'[v] = "emit" /\ Accn(v)' = Accn(v)
    BY <2>1, <2>3 DEF TypeOK, Accn
  <2>7. Explained'
    BY <2>1, <2>5, <2>6, ExplainedStep
  <2>8. QED
    BY <1>1, <2>4, <2>7
<1>7. ASSUME NEW w \in Workers, Deliver(w), pc[w] = "emit", UNCHANGED <<claimed, aborted, unwatched, discovered>>,
             \A v \in Workers \ {w} : pc'[v] = pc[v] /\ Accn(v)' = Accn(v),
             \A s \in Stages : active'[s] \cup {<<job[w], w>>} = active[s] \cup {<<job[w], w>>},
             \A s \in Stages : failed[s] \subseteq failed'[s],
             \A s \in Stages : <<job[w], w>> \in active[s] => job[w] \in failed'[s] \/ <<job[w], w>> \in active'[s]
      PROVE  Explained' /\ Awaited'
  <2>1. Accn(w) \in Filings /\ StageOf[w] \in Stages /\ event[w] \in Data
    BY <1>7, BusyWorker
  <2> DEFINE new == [accn |-> Accn(w), copy |-> emitted[StageOf[w]][Accn(w)] + 1, stalls |-> 0,
                     data |-> event[w]]
  <2>2. /\ emitted' = [emitted EXCEPT ![StageOf[w]][Accn(w)] = @ + 1]
        /\ \/ StageOf[w] = "notified" /\ waiting' = waiting
           \/ /\ StageOf[w] # "notified"
              /\ waiting' = [waiting EXCEPT ![After(StageOf[w])] = @ \cup {new}]
    BY <1>7 DEF Deliver
  <2>3. new.accn = Accn(w)
    OBVIOUS
  <2> HIDE DEF new
  <2>4. \A s \in Stages : waiting[s] \subseteq waiting'[s]
    <3>1. \A e, s \in Stages : waiting[s] \subseteq [waiting EXCEPT ![e] = @ \cup {new}][s]
      BY DEF TypeOK
    <3>2. StageOf[w] # "notified" => After(StageOf[w]) \in Stages
      BY <2>1 DEF After, Stages
    <3>3. QED
      BY <2>2, <3>1, <3>2
  <2>5. Stays /\ Grew
    <3>1. Grew
      BY <1>7
    <3> SUFFICES ASSUME NEW s \in Stages, NEW j \in Pending(s) PROVE j \in Pending(s)'
      BY <3>1
    <3>2. CASE j \in waiting[s] \cup failed[s]
      BY <1>7, <2>4, <3>2 DEF Pending
    <3>3. ASSUME NEW p \in active[s], j = p[1] PROVE j \in Pending(s)'
      <4>1. p \in active'[s] \/ p = <<job[w], w>>
        BY <1>7
      <4>2. CASE p \in active'[s]
        BY <3>3, <4>2 DEF Pending
      <4>3. CASE p = <<job[w], w>>
        BY <1>7, <3>3, <4>3 DEF Pending
      <4>4. QED
        BY <4>1, <4>2, <4>3
    <3>4. QED
      BY <3>2, <3>3 DEF Pending
  <2>6. Comes
    <3> SUFFICES ASSUME NEW s \in Stages, NEW f \in Filings, Added(s, f)' > 0, ~(Added(s, f) > 0)
                 PROVE  \E j \in Pending(s)' : j.accn = f
      OBVIOUS
    <3>1. s # "parsed" /\ f = Accn(w) /\ StageOf[w] = (IF s = "scored" THEN "parsed" ELSE "scored")
      BY <1>7, <2>1, <2>2 DEF Added, TypeOK, Stages
    <3>2. After(StageOf[w]) = s /\ StageOf[w] # "notified"
      BY <3>1 DEF After, Stages
    <3>3. new \in waiting'[s]
      BY <2>2, <3>2 DEF TypeOK
    <3>4. QED
      BY <2>3, <3>1, <3>3 DEF Pending
  <2>7. \A s \in Stages, f \in Filings :
          /\ emitted[s][f] > 0 => emitted'[s][f] > 0
          /\ s = StageOf[w] /\ f = Accn(w) => emitted'[s][f] > 0
    BY <2>1, <2>2 DEF TypeOK
  <2>8. Explained'
    <3>1. \A v \in Workers : pc[v] = "emit" =>
            \/ pc'[v] = "emit" /\ Accn(v)' = Accn(v)
            \/ emitted'[StageOf[v]][Accn(v)] > 0
            \/ <<StageOf[v], Accn(v)>> \in aborted'
      BY <1>7, <2>1, <2>7
    <3>2. QED
      BY <1>7, <2>7, <3>1, ExplainedStep
  <2>9. QED
    BY <1>1, <2>5, <2>6, <2>8
<1>8. ASSUME NEW w \in Workers, Emit(w) PROVE Explained' /\ Awaited'
  <2>1. /\ Deliver(w) /\ pc[w] = "emit" /\ pc' = [pc EXCEPT ![w] = "ack"]
        /\ UNCHANGED <<claimed, aborted, unwatched, discovered, job, active, failed>>
    BY <1>8 DEF Emit, historyVars
  <2>2. \A v \in Workers \ {w} : pc'[v] = pc[v] /\ Accn(v)' = Accn(v)
    BY <2>1 DEF Accn, TypeOK
  <2>3. QED
    BY <1>7, <2>1, <2>2
<1>9. ASSUME NEW w \in Workers, FailJob(w), pc[w] # "idle"
      PROVE  /\ \A v \in Workers \ {w} : pc'[v] = pc[v] /\ Accn(v)' = Accn(v)
             /\ \A s \in Stages : active'[s] \cup {<<job[w], w>>} = active[s] \cup {<<job[w], w>>}
             /\ \A s \in Stages : failed[s] \subseteq failed'[s]
             /\ \A s \in Stages : <<job[w], w>> \in active[s] =>
                  job[w] \in failed'[s] \/ <<job[w], w>> \in active'[s]
  <2>1. /\ active' = [active EXCEPT ![StageOf[w]] = @ \ {<<job[w], w>>}]
        /\ failed' = IF HoldsLock(w) THEN [failed EXCEPT ![StageOf[w]] = @ \cup {job[w]}] ELSE failed
        /\ pc' = [pc EXCEPT ![w] = "idle"] /\ job' = [job EXCEPT ![w] = NoJob]
    BY <1>9 DEF FailJob, Rest
  <2>2. StageOf[w] \in Stages
    BY PipelineAssumption
  <2>3. \A v \in Workers \ {w} : pc'[v] = pc[v] /\ Accn(v)' = Accn(v)
    BY <2>1 DEF Accn, TypeOK
  <2>4. \A s \in Stages : active'[s] \cup {<<job[w], w>>} = active[s] \cup {<<job[w], w>>}
    BY <2>1, <2>2 DEF TypeOK
  <2>5. \A s \in Stages : failed[s] \subseteq failed'[s]
    BY <2>1, <2>2 DEF TypeOK
  <2>6. \A s \in Stages : <<job[w], w>> \in active[s] =>
          job[w] \in failed'[s] \/ <<job[w], w>> \in active'[s]
    BY <2>1, <2>2 DEF HoldsLock, TypeOK
  <2>7. QED
    BY <2>3, <2>4, <2>5, <2>6
<1>10. ASSUME NEW w \in Workers, EmitUnconfirmed(w) PROVE Explained' /\ Awaited'
  <2>1. /\ pc[w] = "emit" /\ Deliver(w) /\ FailJob(w)
        /\ UNCHANGED <<claimed, aborted, unwatched, discovered>>
    BY <1>10 DEF EmitUnconfirmed, historyVars
  <2>2. QED
    BY <1>7, <1>9, <2>1
<1>11. ASSUME NEW w \in Workers, Rest(w), NoteAbort(w) \/ (pc[w] # "emit" /\ UNCHANGED aborted),
              UNCHANGED <<claimed, emitted>>
       PROVE  Explained'
  <2>1. \A v \in Workers : pc[v] = "emit" =>
          \/ pc'[v] = "emit" /\ Accn(v)' = Accn(v)
          \/ <<StageOf[v], Accn(v)>> \in aborted'
    BY <1>11 DEF Rest, NoteAbort, Accn, TypeOK
  <2>2. aborted \subseteq aborted'
    BY <1>11 DEF NoteAbort
  <2>3. QED
    BY <1>11, <2>1, <2>2, ExplainedStep
<1>12. ASSUME NEW w \in Workers, Throw(w) PROVE Explained' /\ Awaited'
  <2>1. /\ pc[w] # "idle" /\ FailJob(w) /\ Rest(w) /\ NoteAbort(w)
        /\ UNCHANGED <<waiting, claimed, unwatched, discovered, emitted>>
    BY <1>12 DEF Throw, FailJob, effectVars
  <2>2. Comes /\ Grew
    BY <2>1 DEF Added
  <2>3. Stays
    <3> SUFFICES ASSUME NEW s \in Stages, NEW j \in Pending(s) PROVE j \in Pending(s)'
      OBVIOUS
    <3>1. CASE j \in waiting[s] \cup failed[s]
      BY <1>9, <2>1, <3>1 DEF Pending
    <3>2. ASSUME NEW p \in active[s], j = p[1] PROVE j \in Pending(s)'
      <4>1. p \in active'[s] \/ p = <<job[w], w>>
        BY <1>9, <2>1
      <4>2. QED
        BY <1>9, <2>1, <3>2, <4>1 DEF Pending
    <3>3. QED
      BY <3>1, <3>2 DEF Pending
  <2>4. QED
    BY <1>1, <1>11, <2>1, <2>2, <2>3
<1>13. ASSUME NEW w \in Workers, Crash(w) PROVE Explained' /\ Awaited'
  <2>1. /\ pc[w] # "idle" /\ Rest(w) /\ NoteAbort(w)
        /\ UNCHANGED <<waiting, active, failed, claimed, unwatched, discovered, emitted>>
    BY <1>13 DEF Crash, queueVars, effectVars
  <2>2. Comes /\ Grew /\ Stays
    BY <2>1 DEF Added, Pending
  <2>3. QED
    BY <1>1, <1>11, <2>1, <2>2
<1>14. ASSUME NEW w \in Workers, Ack(w) PROVE Explained' /\ Awaited'
  <2>1. /\ pc[w] = "ack" /\ active' = [active EXCEPT ![StageOf[w]] = @ \ {<<job[w], w>>}] /\ Rest(w)
        /\ UNCHANGED <<waiting, failed, claimed, unwatched, discovered, emitted, aborted>>
    BY <1>14 DEF Ack, effectVars, historyVars
  <2>2. Comes /\ Grew
    BY <2>1 DEF Added
  <2>3. job[w].accn \in claimed[StageOf[w]] \/ (StageOf[w] = "notified" /\ job[w].accn \in unwatched)
    BY <2>1 DEF AcksAreEarned, Accn
  <2>4. Stays
    <3> SUFFICES ASSUME NEW s \in Stages, NEW j \in Pending(s), j \notin Pending(s)'
                 PROVE  j.accn \in claimed[s] \/ (s = "notified" /\ j.accn \in unwatched)
      OBVIOUS
    <3>1. PICK p \in active[s] : j = p[1] /\ p \notin active'[s]
      BY <2>1 DEF Pending
    <3>2. s = StageOf[w] /\ p = <<job[w], w>>
      BY <2>1, <3>1 DEF TypeOK
    <3>3. QED
      BY <2>3, <3>1, <3>2
  <2>5. QED
    BY <1>1, <1>11, <2>1, <2>2, <2>4
<1>15. ASSUME UNCHANGED <<workerVars, effectVars, historyVars, claimed, discovered>>,
              \A s \in Stages : \A j \in Pending(s) : \E i \in Pending(s)' : i.accn = j.accn
       PROVE  Explained' /\ Awaited'
  <2>1. UNCHANGED <<pc, job, emitted, aborted, unwatched>>
    BY <1>15 DEF workerVars, effectVars, historyVars
  <2>2. Comes /\ Grew /\ Stays
    BY <1>15, <2>1 DEF Added
  <2>3. \A v \in Workers : pc[v] = "emit" => pc'[v] = "emit" /\ Accn(v)' = Accn(v)
    BY <2>1 DEF Accn
  <2>4. QED
    BY <1>1, <1>2, <1>15, <2>1, <2>2, <2>3
<1>16. ASSUME NEW s \in Stages, NEW p \in active[s], Stall(s, p[1], p[2]) PROVE Explained' /\ Awaited'
  <2> DEFINE again == [p[1] EXCEPT !.stalls = @ + 1]
  <2>1. p[1] \in Job /\ p = <<p[1], p[2]>>
    BY DEF TypeOK
  <2>2. again.accn = p[1].accn
    BY <2>1, StalledJobType
  <2>3. /\ active' = [active EXCEPT ![s] = @ \ {<<p[1], p[2]>>}]
        /\ \/ waiting' = [waiting EXCEPT ![s] = @ \cup {again}] /\ failed' = failed
           \/ failed' = [failed EXCEPT ![s] = @ \cup {p[1]}] /\ waiting' = waiting
    BY <1>16 DEF Stall
  <2> HIDE DEF again
  <2>4. \A t \in Stages : waiting[t] \subseteq waiting'[t] /\ failed[t] \subseteq failed'[t]
    <3>1. CASE waiting' = [waiting EXCEPT ![s] = @ \cup {again}] /\ failed' = failed
      BY <3>1 DEF TypeOK
    <3>2. CASE failed' = [failed EXCEPT ![s] = @ \cup {p[1]}] /\ waiting' = waiting
      BY <3>2 DEF TypeOK
    <3>3. QED
      BY <2>3, <3>1, <3>2
  <2>5. \A t \in Stages : \A q \in active[t] : q \in active'[t] \/ (t = s /\ q = p)
    BY <2>1, <2>3 DEF TypeOK
  <2>6. \E i \in Pending(s)' : i.accn = p[1].accn
    <3>1. again \in waiting'[s] \/ p[1] \in failed'[s]
      BY <2>3 DEF TypeOK
    <3>2. QED
      BY <2>2, <3>1 DEF Pending
  <2>7. \A t \in Stages : \A j \in Pending(t) : \E i \in Pending(t)' : i.accn = j.accn
    BY <2>4, <2>5, <2>6 DEF Pending
  <2>8. QED
    BY <1>15, <1>16, <2>7 DEF Stall
<1>17. ASSUME NEW s \in Stages, RetryFailed(s) PROVE Explained' /\ Awaited'
  <2>1. \A t \in Stages : Pending(t) \subseteq Pending(t)'
    BY <1>17 DEF RetryFailed, Pending, TypeOK
  <2>2. QED
    BY <1>15, <1>17, <2>1 DEF RetryFailed
<1>18. ASSUME UNCHANGED <<queueVars, workerVars, effectVars, historyVars, claimed, discovered>>
       PROVE  Explained' /\ Awaited'
  <2>1. \A s \in Stages : Pending(s)' = Pending(s)
    BY <1>18 DEF queueVars, Pending
  <2>2. QED
    BY <1>15, <1>18, <2>1
<1>19. QED
  BY <1>3, <1>4, <1>5, <1>6, <1>8, <1>10, <1>12, <1>13, <1>14, <1>16, <1>17, <1>18
  DEF Next, HandlerStep, ChangeWatchlist, RecoverOrphan, LoseLock, vars

(* No handler's work disappears silently: a filing handed to a stage is pending,
   claimed or watched by nobody, and a claimed stage performed its effect, is
   about to, or lost it to a handler that stopped after its claim. *)
THEOREM NothingVanishes == Spec => []Accounted
<1> DEFINE Books == Accounted /\ AcksAreEarned /\ OnlyNotifiersRead
<1>1. Init => Books
  BY DEF Init, Accounted, Added, AcksAreEarned, OnlyNotifiersRead, Stages
<1>2. TypeOK /\ TypeOK' /\ Core /\ Books /\ [Next]_vars => Books'
  BY EarnedStep, AccountedKept DEF Core
<1>3. QED
  BY <1>1, <1>2, TypeCorrect, CoreInvariant, PTL DEF Spec

-----------------------------------------------------------------------------
(* Alerts are current *)

LEMMA DataFields ==
  ASSUME NEW d \in Data, NEW S \in SUBSET Filings
  PROVE  /\ [d EXCEPT !.asOf = S].asOf = S
         /\ [d EXCEPT !.asOf = S].text = d.text
         /\ [d EXCEPT !.text = TRUE].asOf = d.asOf
         /\ [d EXCEPT !.text = TRUE].basis = d.basis
         /\ [d EXCEPT !.basis = S].asOf = d.asOf
         /\ [d EXCEPT !.basis = S].text = d.text
         /\ [d EXCEPT !.basis = S].basis = S
BY DEF Data

(* What a job or an event claims to know of a filing is stored. *)
Backed(d, f) == d.asOf \subseteq facts \cap SameCompany(f) /\ (d.text => f \in texts)

(* So it is for every job and handler, and scores that have been computed
   rest on at least what the parser reported. *)
Supported ==
  /\ \A s \in Stages : \A j \in Pending(s) :
       Backed(j.data, j.accn) /\ (s = "notified" => j.data.asOf \subseteq j.data.basis)
  /\ \A w \in Workers : pc[w] # "idle" =>
       /\ Backed(event[w], Accn(w))
       /\ StageOf[w] = "notified" \/ (StageOf[w] = "scored" /\ pc[w] # "score")
            => event[w].asOf \subseteq event[w].basis
       /\ pc[w] \in {"ingest", "text", "diff"} => StageOf[w] = "parsed"

(* It is enough that a step's jobs come from jobs, or are made of a worker's
   event at its effect. *)
LEMMA SupportedJobs ==
  ASSUME TypeOK, Supported, facts \subseteq facts', texts \subseteq texts',
         \A s \in Stages : \A j \in Pending(s)' :
           \/ \E i \in Pending(s) : i.accn = j.accn /\ i.data = j.data
           \/ /\ Backed(j.data, j.accn)
              /\ s = "notified" => j.data.asOf \subseteq j.data.basis
  PROVE  \A s \in Stages : \A j \in Pending(s)' :
           Backed(j.data, j.accn)' /\ (s = "notified" => j.data.asOf \subseteq j.data.basis)
<1> SUFFICES ASSUME NEW s \in Stages, NEW j \in Pending(s)'
             PROVE  Backed(j.data, j.accn)' /\ (s = "notified" => j.data.asOf \subseteq j.data.basis)
  OBVIOUS
<1>1. Backed(j.data, j.accn) => Backed(j.data, j.accn)'
  BY DEF Backed, SameCompany
<1>2. ASSUME NEW i \in Pending(s), i.accn = j.accn, i.data = j.data
      PROVE  Backed(j.data, j.accn) /\ (s = "notified" => j.data.asOf \subseteq j.data.basis)
  BY <1>2 DEF Supported
<1>3. QED
  BY <1>1, <1>2

(* What Supported says of one handler. *)
Served(w) ==
  pc[w] # "idle" =>
    /\ Backed(event[w], Accn(w))
    /\ StageOf[w] = "notified" \/ (StageOf[w] = "scored" /\ pc[w] # "score")
         => event[w].asOf \subseteq event[w].basis
    /\ pc[w] \in {"ingest", "text", "diff"} => StageOf[w] = "parsed"

(* And that its workers stay as they were, but for one. *)
LEMMA SupportedWorkers ==
  ASSUME TypeOK, Supported, facts \subseteq facts', texts \subseteq texts', NEW w \in Workers,
         \A v \in Workers \ {w} : pc'[v] = pc[v] /\ job'[v] = job[v] /\ event'[v] = event[v],
         Served(w)'
  PROVE  \A v \in Workers : Served(v)'
<1> SUFFICES ASSUME NEW v \in Workers \ {w} PROVE Served(v)'
  OBVIOUS
<1>1. Served(v)
  BY DEF Supported, Served
<1>2. pc'[v] = pc[v] /\ Accn(v)' = Accn(v) /\ event'[v] = event[v]
  BY DEF Accn
<1>3. Backed(event[v], Accn(v)) => Backed(event[v], Accn(v))'
  BY <1>2 DEF Backed, SameCompany
<1>4. QED
  BY <1>1, <1>2, <1>3 DEF Served

LEMMA SupportedStep ==
  ASSUME TypeOK, TypeOK', Supported, [Next]_vars
  PROVE  Supported'
<1> DEFINE Grew == facts \subseteq facts' /\ texts \subseteq texts'
           Jobs == \A s \in Stages : \A j \in Pending(s)' :
                     \/ \E i \in Pending(s) : i.accn = j.accn /\ i.data = j.data
                     \/ /\ Backed(j.data, j.accn)
                        /\ s = "notified" => j.data.asOf \subseteq j.data.basis
<1>1. ASSUME Grew, Jobs, \A v \in Workers : Served(v)' PROVE Supported'
  <2>1. \A s \in Stages : \A j \in Pending(s)' :
          Backed(j.data, j.accn)' /\ (s = "notified" => j.data.asOf \subseteq j.data.basis)
    BY <1>1, SupportedJobs
  <2>2. QED
    BY <1>1, <2>1 DEF Supported, Served
<1>2. \A v \in Workers : Served(v)
  BY DEF Supported, Served
<1>3. ASSUME UNCHANGED <<workerVars, facts, texts>>, Jobs PROVE Supported'
  <2>1. \A v \in Workers : Served(v)'
    BY <1>2, <1>3 DEF workerVars, Served, Backed, SameCompany, Accn
  <2>2. QED
    BY <1>1, <1>3, <2>1
<1>4. ASSUME NEW f \in Filings, Discover(f) PROVE Supported'
  <2> DEFINE new == [accn |-> f, copy |-> discovered[f] + 1, stalls |-> 0, data |-> NoData]
  <2>1. /\ waiting' = [waiting EXCEPT !["parsed"] = @ \cup {new}]
        /\ UNCHANGED <<active, failed, workerVars, facts, texts>>
    BY <1>4 DEF Discover, storeVars
  <2>2. Backed(new.data, new.accn)
    BY DEF Backed, NoData
  <2> HIDE DEF new
  <2>3. \A s \in Stages : \A j \in Pending(s)' : j \in Pending(s) \/ (s = "parsed" /\ j = new)
    <3>1. \A s \in Stages : \A j \in waiting'[s] : j \in waiting[s] \/ (s = "parsed" /\ j = new)
      BY <2>1 DEF TypeOK
    <3>2. QED
      BY <2>1, <3>1 DEF Pending
  <2>4. Jobs
    BY <2>2, <2>3
  <2>5. QED
    BY <1>3, <2>1, <2>4
<1>5. ASSUME NEW w \in Workers, Take(w) PROVE Supported'
  <2>1. PICK j \in waiting[StageOf[w]] :
          /\ waiting' = [waiting EXCEPT ![StageOf[w]] = @ \ {j}]
          /\ active' = [active EXCEPT ![StageOf[w]] = @ \cup {<<j, w>>}]
          /\ job' = [job EXCEPT ![w] = j]
          /\ event' = [event EXCEPT ![w] = j.data]
          /\ pc' = [pc EXCEPT ![w] = FirstStep(StageOf[w], j.accn)]
          /\ UNCHANGED <<failed, facts, texts>>
    BY <1>5 DEF Take, storeVars
  <2>2. StageOf[w] \in Stages /\ j \in Pending(StageOf[w])
    BY PipelineAssumption DEF Pending
  <2>3. Jobs
    <3>1. \A s \in Stages : Pending(s)' \subseteq Pending(s)
      BY <2>1, <2>2 DEF Pending, TypeOK
    <3>2. QED
      BY <3>1
  <2>4. /\ Backed(j.data, j.accn)
        /\ StageOf[w] = "notified" => j.data.asOf \subseteq j.data.basis
    BY <2>2 DEF Supported
  <2>5. job'[w] = j /\ event'[w] = j.data /\ pc'[w] = FirstStep(StageOf[w], j.accn)
    BY <2>1 DEF TypeOK
  <2>6. Served(w)'
    BY <2>1, <2>2, <2>4, <2>5 DEF Served, Backed, SameCompany, Accn, FirstStep, Stages
  <2>7. \A v \in Workers \ {w} : pc'[v] = pc[v] /\ job'[v] = job[v] /\ event'[v] = event[v]
    BY <2>1 DEF TypeOK
  <2>8. QED
    BY <1>1, <2>1, <2>3, <2>6, <2>7, SupportedWorkers
<1>6. ASSUME NEW w \in Workers, NEW x \in PCs \ {"score"}, pc' = [pc EXCEPT ![w] = x], pc[w] # "idle",
             UNCHANGED <<queueVars, job>>, Grew,
             \A v \in Workers \ {w} : event'[v] = event[v],
             Backed(event[w], Accn(w))',
             event'[w].asOf \subseteq event'[w].basis
               \/ (event'[w] = event[w] /\ pc[w] # "score")
               \/ StageOf[w] = "parsed",
             x \in {"ingest", "text", "diff"} => StageOf[w] = "parsed"
      PROVE  Supported'
  <2>1. Served(w)'
    <3>1. pc'[w] = x
      BY <1>6 DEF TypeOK
    <3>2. QED
      BY <1>2, <1>6, <3>1 DEF Served
  <2>2. Jobs
    BY <1>6 DEF Pending, queueVars
  <2>3. \A v \in Workers \ {w} : pc'[v] = pc[v] /\ job'[v] = job[v] /\ event'[v] = event[v]
    BY <1>6 DEF TypeOK
  <2>4. QED
    BY <1>1, <1>6, <2>1, <2>2, <2>3, SupportedWorkers
<1>7. ASSUME NEW w \in Workers, Ingest(w) PROVE Supported'
  <2>1. PICK fetched \in SUBSET Listed(Accn(w)), success \in BOOLEAN :
          /\ facts' = facts \cup fetched
          /\ event' = [event EXCEPT ![w].asOf =
                         IF success THEN facts' \cap SameCompany(Accn(w)) ELSE {}]
    BY <1>7 DEF Ingest
  <2>2. /\ pc[w] = "ingest" /\ UNCHANGED <<queueVars, job, texts>>
        /\ \E x \in {"text", "claim"} : pc' = [pc EXCEPT ![w] = x]
    BY <1>7 DEF Ingest
  <2>3. StageOf[w] = "parsed" /\ Backed(event[w], Accn(w)) /\ event[w] \in Data
    BY <1>2, <2>2 DEF Served, TypeOK
  <2> DEFINE S == IF success THEN facts' \cap SameCompany(Accn(w)) ELSE {}
  <2>4. S \in SUBSET Filings /\ S \subseteq facts' \cap SameCompany(Accn(w))
    BY DEF SameCompany
  <2>5. event' = [event EXCEPT ![w] = [event[w] EXCEPT !.asOf = S]]
    BY <2>1
  <2> HIDE DEF S
  <2>6. event'[w].asOf = S /\ event'[w].text = event[w].text
    BY <2>3, <2>4, <2>5, DataFields DEF TypeOK
  <2>7. Accn(w)' = Accn(w)
    BY <2>2 DEF Accn
  <2>8. Backed(event[w], Accn(w))'
    BY <2>2, <2>3, <2>4, <2>6, <2>7 DEF Backed, SameCompany
  <2>9. Grew /\ \A v \in Workers \ {w} : event'[v] = event[v]
    BY <2>1, <2>2, <2>5 DEF TypeOK
  <2>10. QED
    BY <1>6, <2>2, <2>3, <2>8, <2>9 DEF PCs
<1>8. ASSUME NEW w \in Workers, IngestText(w) PROVE Supported'
  <2>1. /\ pc[w] = "text" /\ UNCHANGED <<queueVars, job, facts>>
        /\ \/ /\ texts' = texts \cup {Accn(w)}
              /\ event' = [event EXCEPT ![w].text = TRUE]
              /\ pc' = [pc EXCEPT ![w] = "diff"]
           \/ pc' = [pc EXCEPT ![w] = "claim"] /\ UNCHANGED <<texts, event>>
    BY <1>8 DEF IngestText
  <2>2. StageOf[w] = "parsed" /\ Backed(event[w], Accn(w)) /\ event[w] \in Data
    BY <1>2, <2>1 DEF Served, TypeOK
  <2>3. Accn(w)' = Accn(w)
    BY <2>1 DEF Accn
  <2>4. Grew /\ \A v \in Workers \ {w} : event'[v] = event[v]
    BY <2>1 DEF TypeOK
  <2>5. Backed(event[w], Accn(w))'
    <3>1. CASE UNCHANGED <<texts, event>>
      BY <2>1, <2>2, <2>3, <3>1 DEF Backed, SameCompany
    <3>2. CASE texts' = texts \cup {Accn(w)} /\ event' = [event EXCEPT ![w].text = TRUE]
      <4>1. event'[w] = [event[w] EXCEPT !.text = TRUE]
        BY <3>2 DEF TypeOK
      <4>2. event'[w].asOf = event[w].asOf
        BY <2>2, <4>1, DataFields
      <4>3. QED
        BY <2>1, <2>2, <2>3, <3>2, <4>2 DEF Backed, SameCompany
    <3>3. QED
      BY <2>1, <3>1, <3>2
  <2>6. \E x \in {"diff", "claim"} : pc' = [pc EXCEPT ![w] = x]
    BY <2>1
  <2>7. QED
    BY <1>6, <2>1, <2>2, <2>4, <2>5, <2>6 DEF PCs
<1>9. ASSUME NEW w \in Workers, ComputeDiff(w) \/ ReadWatchers(w) \/ ClaimStage(w) PROVE Supported'
  <2>1. /\ pc[w] \in {"diff", "watchers", "claim"} /\ UNCHANGED <<queueVars, job, event, facts>>
        /\ texts \subseteq texts'
        /\ \E x \in {"claim", "ack", "emit"} : pc' = [pc EXCEPT ![w] = x]
    BY <1>9 DEF ComputeDiff, ReadWatchers, ClaimStage, storeVars
  <2>2. Backed(event[w], Accn(w))'
    BY <1>2, <2>1 DEF Served, Backed, SameCompany, Accn
  <2>3. QED
    BY <1>6, <2>1, <2>2 DEF PCs
<1>10. ASSUME NEW w \in Workers, ComputeScores(w) PROVE Supported'
  <2> DEFINE S == facts \cap SameCompany(Accn(w))
  <2>1. /\ pc[w] = "score" /\ UNCHANGED <<queueVars, job, facts, texts>>
        /\ event' = [event EXCEPT ![w] = [event[w] EXCEPT !.basis = S]]
        /\ pc' = [pc EXCEPT ![w] = "claim"]
    BY <1>10 DEF ComputeScores, storeVars
  <2>2. S \in SUBSET Filings
    BY DEF SameCompany
  <2>3. Backed(event[w], Accn(w)) /\ event[w] \in Data
    BY <1>2, <2>1 DEF Served, TypeOK
  <2>4. event[w].asOf \subseteq S
    BY <2>3 DEF Backed
  <2> HIDE DEF S
  <2>5. event'[w].asOf = event[w].asOf /\ event'[w].text = event[w].text /\ event'[w].basis = S
    <3>1. event'[w] = [event[w] EXCEPT !.basis = S]
      BY <2>1 DEF TypeOK
    <3>2. QED
      BY <2>2, <2>3, <3>1, DataFields
  <2>6. Backed(event[w], Accn(w))'
    BY <2>1, <2>3, <2>5 DEF Backed, SameCompany, Accn
  <2>7. \A v \in Workers \ {w} : event'[v] = event[v]
    BY <2>1 DEF TypeOK
  <2>8. QED
    BY <1>6, <2>1, <2>4, <2>5, <2>6, <2>7 DEF PCs
<1>11. ASSUME NEW w \in Workers, Deliver(w), pc[w] = "emit",
              \A s \in Stages : failed'[s] \cup {p[1] : p \in active'[s]} \subseteq Pending(s)
       PROVE  Jobs
  <2> DEFINE new == [accn |-> Accn(w), copy |-> emitted[StageOf[w]][Accn(w)] + 1, stalls |-> 0,
                     data |-> event[w]]
  <2>1. \/ waiting' = waiting
        \/ StageOf[w] # "notified" /\ waiting' = [waiting EXCEPT ![After(StageOf[w])] = @ \cup {new}]
    BY <1>11 DEF Deliver
  <2>2. new.accn = Accn(w) /\ new.data = event[w]
    OBVIOUS
  <2> HIDE DEF new
  <2>3. \A s \in Stages : \A j \in waiting'[s] :
          j \in waiting[s] \/ (StageOf[w] # "notified" /\ s = After(StageOf[w]) /\ j = new)
    BY <2>1 DEF TypeOK
  <2>4. Served(w) /\ StageOf[w] \in Stages
    BY <1>2, PipelineAssumption
  <2>5. StageOf[w] # "notified" /\ After(StageOf[w]) = "notified" => StageOf[w] = "scored"
    BY <2>4 DEF After, Stages
  <2>6. ASSUME NEW s \in Stages, NEW j \in waiting'[s]
        PROVE  \/ \E i \in Pending(s) : i.accn = j.accn /\ i.data = j.data
               \/ /\ Backed(j.data, j.accn)
                  /\ s = "notified" => j.data.asOf \subseteq j.data.basis
    <3>1. CASE j \in waiting[s]
      BY <3>1 DEF Pending
    <3>2. CASE StageOf[w] # "notified" /\ s = After(StageOf[w]) /\ j = new
      BY <1>11, <2>2, <2>4, <2>5, <3>2 DEF Served
    <3>3. QED
      BY <2>3, <3>1, <3>2
  <2>7. QED
    BY <1>11, <2>6 DEF Pending
<1>12. ASSUME NEW w \in Workers, Emit(w) PROVE Supported'
  <2>1. /\ pc[w] = "emit" /\ Deliver(w) /\ pc' = [pc EXCEPT ![w] = "ack"]
        /\ UNCHANGED <<active, failed, job, event, facts, texts>>
    BY <1>12 DEF Emit, storeVars
  <2>2. Jobs
    BY <1>11, <2>1 DEF Pending
  <2>3. Served(w)'
    BY <1>2, <2>1 DEF Served, Backed, SameCompany, Accn, TypeOK
  <2>4. \A v \in Workers \ {w} : pc'[v] = pc[v] /\ job'[v] = job[v] /\ event'[v] = event[v]
    BY <2>1 DEF TypeOK
  <2>5. QED
    BY <1>1, <2>1, <2>2, <2>3, <2>4, SupportedWorkers
<1>13. ASSUME NEW w \in Workers, Rest(w), UNCHANGED <<facts, texts>>, Jobs PROVE Supported'
  <2>1. Served(w)' /\ \A v \in Workers \ {w} : pc'[v] = pc[v] /\ job'[v] = job[v] /\ event'[v] = event[v]
    BY <1>13 DEF Rest, Served, TypeOK
  <2>2. QED
    BY <1>1, <1>13, <2>1, SupportedWorkers
<1>14. ASSUME NEW w \in Workers, FailJob(w), pc[w] # "idle"
       PROVE  \A s \in Stages : failed'[s] \cup {p[1] : p \in active'[s]} \subseteq Pending(s)
  <2>1. \A s \in Stages : active'[s] \subseteq active[s]
    BY <1>14 DEF FailJob, TypeOK
  <2>2. \A s \in Stages : failed'[s] \subseteq Pending(s)
    BY <1>14 DEF FailJob, HoldsLock, Pending, TypeOK
  <2>3. QED
    BY <2>1, <2>2 DEF Pending
<1>15. ASSUME NEW w \in Workers, EmitUnconfirmed(w) PROVE Supported'
  <2>1. pc[w] = "emit" /\ Deliver(w) /\ FailJob(w) /\ Rest(w) /\ UNCHANGED <<facts, texts>>
    BY <1>15 DEF EmitUnconfirmed, FailJob, storeVars
  <2>2. QED
    BY <1>11, <1>13, <1>14, <2>1
<1>16. ASSUME NEW w \in Workers, Throw(w) PROVE Supported'
  <2>1. pc[w] # "idle" /\ FailJob(w) /\ Rest(w) /\ UNCHANGED <<waiting, facts, texts>>
    BY <1>16 DEF Throw, FailJob, storeVars
  <2>2. \A s \in Stages : Pending(s)' \subseteq Pending(s)
    BY <1>14, <2>1 DEF Pending
  <2>3. QED
    BY <1>13, <2>1, <2>2
<1>17. ASSUME NEW w \in Workers, Ack(w) \/ Crash(w) PROVE Supported'
  <2>1. /\ Rest(w) /\ UNCHANGED <<waiting, failed, facts, texts>>
        /\ \A s \in Stages : active'[s] \subseteq active[s]
    BY <1>17 DEF Ack, Crash, queueVars, storeVars, TypeOK
  <2>2. \A s \in Stages : Pending(s)' \subseteq Pending(s)
    BY <2>1 DEF Pending
  <2>3. QED
    BY <1>13, <2>1, <2>2
<1>18. ASSUME NEW s \in Stages, NEW p \in active[s], Stall(s, p[1], p[2]) PROVE Supported'
  <2> DEFINE again == [p[1] EXCEPT !.stalls = @ + 1]
  <2>1. p[1] \in Pending(s) /\ p[1] \in Job
    BY DEF Pending, TypeOK
  <2>2. again.accn = p[1].accn /\ again.data = p[1].data
    BY <2>1 DEF Job
  <2>3. /\ active' = [active EXCEPT ![s] = @ \ {<<p[1], p[2]>>}]
        /\ \/ waiting' = [waiting EXCEPT ![s] = @ \cup {again}] /\ failed' = failed
           \/ failed' = [failed EXCEPT ![s] = @ \cup {p[1]}] /\ waiting' = waiting
    BY <1>18 DEF Stall
  <2> HIDE DEF again
  <2>4. \A t \in Stages : active'[t] \subseteq active[t]
    BY <2>3 DEF TypeOK
  <2>5. \A t \in Stages :
          /\ \A j \in waiting'[t] : j \in waiting[t] \/ (t = s /\ j = again)
          /\ \A j \in failed'[t] : j \in failed[t] \/ (t = s /\ j = p[1])
    <3>1. CASE waiting' = [waiting EXCEPT ![s] = @ \cup {again}] /\ failed' = failed
      BY <3>1 DEF TypeOK
    <3>2. CASE failed' = [failed EXCEPT ![s] = @ \cup {p[1]}] /\ waiting' = waiting
      BY <3>2 DEF TypeOK
    <3>3. QED
      BY <2>3, <3>1, <3>2
  <2>6. \A t \in Stages : \A j \in Pending(t)' : j \in Pending(t) \/ (t = s /\ j \in {again, p[1]})
    BY <2>4, <2>5 DEF Pending
  <2>7. Jobs
    BY <2>1, <2>2, <2>6
  <2>8. QED
    BY <1>3, <1>18, <2>7 DEF Stall, storeVars
<1>19. ASSUME NEW s \in Stages, RetryFailed(s) PROVE Supported'
  <2>1. \A t \in Stages : Pending(t)' \subseteq Pending(t)
    BY <1>19 DEF RetryFailed, Pending, TypeOK
  <2>2. QED
    BY <1>3, <1>19, <2>1 DEF RetryFailed, storeVars
<1>20. ASSUME UNCHANGED <<queueVars, workerVars, storeVars>> PROVE Supported'
  BY <1>3, <1>20 DEF queueVars, storeVars, Pending
<1>21. QED
  BY <1>4, <1>5, <1>7, <1>8, <1>9, <1>10, <1>12, <1>15, <1>16, <1>17, <1>18, <1>19, <1>20
  DEF Next, HandlerStep, ChangeWatchlist, RecoverOrphan, LoseLock, vars

(* An alert's scores are never older than the facts its own filing brought in,
   and a job that says the filing's text was ingested finds it stored. *)
THEOREM AlertsStayCurrent == Spec => []AlertsAreCurrent
<1> DEFINE Sound == \A a \in alerts : a.data.asOf \subseteq a.data.basis
<1>1. Init => Supported /\ Sound
  BY DEF Init, Supported, Pending
<1>2. TypeOK /\ TypeOK' /\ Supported /\ Sound /\ [Next]_vars => (Supported /\ Sound)'
  <2> SUFFICES ASSUME TypeOK, TypeOK', Supported, Sound, [Next]_vars PROVE Sound'
    BY SupportedStep
  <2>1. ASSUME NEW w \in Workers, Emit(w) \/ EmitUnconfirmed(w) PROVE Sound'
    <3>1. pc[w] = "emit" /\ Deliver(w)
      BY <2>1 DEF Emit, EmitUnconfirmed
    <3>2. StageOf[w] = "notified" => event[w].asOf \subseteq event[w].basis
      BY <3>1 DEF Supported
    <3>3. \/ alerts' = alerts
          \/ StageOf[w] = "notified" /\ alerts' = alerts \cup {[accn |-> Accn(w), data |-> event[w]]}
      BY <3>1 DEF Deliver
    <3>4. QED
      BY <3>2, <3>3
  <2>2. ASSUME UNCHANGED alerts PROVE Sound'
    BY <2>2
  <2>3. QED
    BY <2>1, <2>2
    DEF Next, HandlerStep, Discover, ChangeWatchlist, Take, Ingest, IngestText, ComputeDiff,
        ComputeScores, ReadWatchers, ClaimStage, Ack, Throw, Crash, RecoverOrphan, LoseLock, Stall,
        RetryFailed, vars, effectVars
<1>3. Supported /\ Sound => AlertsAreCurrent
  BY DEF Supported, AlertsAreCurrent, Backed
<1>4. QED
  BY <1>1, <1>2, <1>3, TypeCorrect, PTL DEF Spec

-----------------------------------------------------------------------------
(* Refinement *)

(* Each step of the pipeline is a claim, an effect or a stutter of
   FilingProgress. *)
THEOREM PipelineImplementsProgress == Spec => ImplementsProgress
<1>1. Init => Progress!ProgressInit
  BY DEF Init, Progress!ProgressInit, Progress!Stages, Stages
<1>2. TypeOK /\ Core /\ WorkIsFed /\ [Next]_vars => [Progress!ProgressNext]_<<claimed, emitted>>
  <2> SUFFICES ASSUME TypeOK, Core, WorkIsFed, [Next]_vars
               PROVE  Progress!ProgressNext \/ UNCHANGED <<claimed, emitted>>
    OBVIOUS
  <2>1. ASSUME NEW w \in Workers, ClaimStage(w), claimed' # claimed
        PROVE  Progress!ProgressNext
    <3> DEFINE s == StageOf[w]
               f == Accn(w)
    <3>1. s \in Stages /\ f \in Filings
      BY <2>1, BusyWorker DEF ClaimStage
    <3>2. /\ f \notin claimed[s] /\ claimed' = [claimed EXCEPT ![s] = @ \cup {f}]
          /\ UNCHANGED emitted
      BY <2>1 DEF ClaimStage, effectVars
    <3>3. Added(s, f) > 0
      BY <2>1 DEF ClaimStage, WorkIsFed
    <3>4. s # "parsed" => emitted[Progress!Before(s)][f] = 1
      BY <3>1, <3>3 DEF Added, Progress!Before, Core, AtMostOnce, Stages, TypeOK
    <3>5. Progress!ClaimOnce(s, f)
      BY <3>2, <3>4 DEF Progress!ClaimOnce
    <3>6. QED
      BY <3>1, <3>5 DEF Progress!ProgressNext, Progress!Stages, Stages
  <2>2. ASSUME NEW w \in Workers, Deliver(w), pc[w] = "emit", UNCHANGED claimed
        PROVE  Progress!ProgressNext
    <3> DEFINE s == StageOf[w]
               f == Accn(w)
    <3>1. s \in Stages /\ f \in Filings
      BY <2>2, BusyWorker
    <3>2. f \in claimed[s] /\ emitted[s][f] = 0
      BY <2>2 DEF Core, ClaimantIsAlone
    <3>3. emitted' = [emitted EXCEPT ![s][f] = @ + 1]
      BY <2>2 DEF Deliver
    <3>4. emitted' = [emitted EXCEPT ![s][f] = 1]
      BY <3>1, <3>2, <3>3 DEF TypeOK
    <3>5. Progress!PerformOnce(s, f)
      BY <2>2, <3>2, <3>4 DEF Progress!PerformOnce
    <3>6. QED
      BY <3>1, <3>5 DEF Progress!ProgressNext, Progress!Stages, Stages
  <2>3. QED
    BY <2>1, <2>2
    DEF Next, HandlerStep, Discover, ChangeWatchlist, Take, Ingest, IngestText, ComputeDiff,
        ComputeScores, ReadWatchers, ClaimStage, Emit, Ack, Throw, EmitUnconfirmed, Crash,
        RecoverOrphan, LoseLock, Stall, RetryFailed, vars, effectVars
<1>3. QED
  BY <1>1, <1>2, TypeCorrect, CoreInvariant, WorkIsAlwaysFed, PTL
  DEF Spec, ImplementsProgress, Progress!ProgressSpec, Progress!progressVars
=============================================================================
