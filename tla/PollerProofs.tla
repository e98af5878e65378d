---------------------------- MODULE PollerProofs ----------------------------
(***************************************************************************)
(* Proofs about Poller, for any universe, filings and number of cycles at  *)
(* once: the types, the ledger of discovered filings, and that the cursor  *)
(* never leaves an outstanding filing behind.                              *)
(***************************************************************************)
EXTENDS Poller, TLAPS

-----------------------------------------------------------------------------
(* Types *)

(* A cycle past the universe's loop head has one of its companies in hand. *)
LEMMA CompanyInHand ==
  ASSUME TypeOK, NEW c \in Cycles, at[c] <= Len(Universe)
  PROVE  /\ InHand(c) \in Companies
         /\ at[c] + 1 \in 1 .. Len(Universe) + 1
BY PollerAssumption DEF TypeOK, CycleTypeOK, InHand

LEMMA FilingInHand ==
  ASSUME NEW c \in Cycles, todo[c] # {}
  PROVE  NextFiling(c) \in todo[c]
BY DEF NextFiling

(* TypeOK is an invariant: in particular a cycle that has a company in hand
   has not run past the universe, and one that enqueues has something to. *)
THEOREM TypeCorrect == Spec => []TypeOK
<1> USE DEF TypeOK
<1>1. Init => TypeOK
  <2>1. Len(Universe) \in Nat /\ InitialCursor \in Int \cup {NoCursor} /\ 0 \in Time
    BY PollerAssumption DEF Time
  <2>2. Init => SecTypeOK /\ StoreTypeOK
    <3> SUFFICES ASSUME Init PROVE SecTypeOK /\ StoreTypeOK
      OBVIOUS
    <3>1. SecTypeOK
      BY <2>1 DEF Init, SecTypeOK
    <3>2. cursor \in Int \cup {NoCursor} /\ completed \in [started : Time, failed : Nat] \cup {NoRun}
      BY <2>1 DEF Init
    <3>3. /\ ledger \subseteq Filings /\ quarantined \subseteq Companies
          /\ enqueued \in [Filings -> Nat] /\ failures \in [Companies -> Nat]
          /\ attempt \in [Companies -> {"none", "ingesting", "marking"}]
      BY DEF Init
    <3>4. QED
      BY <3>1, <3>2, <3>3 DEF StoreTypeOK
  <2>3. Init => CycleTypeOK
    BY <2>1 DEF Init, CycleTypeOK, PCs
  <2>4. Init => HistoryTypeOK
    <3>1. Init => overlapped \in BOOLEAN
      BY Zenon DEF Init
    <3>2. Init => mishaps \in Nat
      BY DEF Init
    <3>3. QED
      BY <3>1, <3>2, Zenon DEF Init, HistoryTypeOK
  <2>5. QED
    BY <2>2, <2>3, <2>4
<1>2. TypeOK /\ [Next]_vars => TypeOK'
  <2> SUFFICES ASSUME TypeOK, [Next]_vars
               PROVE  TypeOK'
    OBVIOUS
  <2>1. ASSUME UNCHANGED secVars PROVE SecTypeOK'
    BY <2>1 DEF SecTypeOK, secVars
  <2>2. ASSUME UNCHANGED <<cursor, ledger, enqueued, failingVars, attempt, completed>> PROVE StoreTypeOK'
    BY <2>2 DEF StoreTypeOK, failingVars
  <2>3. ASSUME UNCHANGED <<pc, localVars>> PROVE CycleTypeOK'
    BY <2>3 DEF CycleTypeOK, localVars
  <2>4. ASSUME UNCHANGED <<historyVars, mishaps>> PROVE HistoryTypeOK'
    BY <2>4 DEF HistoryTypeOK, historyVars
  <2>5. CASE Tick
    <3>1. SecTypeOK'
      BY <2>5, PollerAssumption DEF Tick, SecTypeOK, Time
    <3>2. QED
      BY <2>2, <2>3, <2>4, <2>5, <3>1 DEF Tick, cycleVars
  <2>6. ASSUME NEW f \in Filings, ListFiling(f) PROVE TypeOK'
    <3>1. PICK late \in 0 .. Lag : date' = [date EXCEPT ![f] = DayOf(clock) - late]
      BY <2>6 DEF ListFiling
    <3>2. DayOf(clock) - late \in Int
      BY PollerAssumption DEF DayOf, Time, SecTypeOK
    <3>3. SecTypeOK'
      BY <2>6, <3>1, <3>2 DEF ListFiling, SecTypeOK
    <3>4. QED
      BY <2>2, <2>3, <2>4, <2>6, <3>3 DEF ListFiling, cycleVars
  <2>7. ASSUME NEW co \in Companies, AttemptStep(co) \/ ClearQuarantine(co) PROVE TypeOK'
    <3>1. /\ UNCHANGED <<secVars, pc, localVars, historyVars>>
          /\ UNCHANGED mishaps \/ mishaps' = mishaps + 1
      BY <2>7 DEF AttemptStep, BeginAttempt, AttemptSucceeds, AttemptFails, AttemptMarks,
                  ClearQuarantine, Mishap, cycleVars
    <3>2. StoreTypeOK'
      BY <2>7 DEF AttemptStep, BeginAttempt, AttemptSucceeds, AttemptFails, AttemptMarks,
                  ClearQuarantine, CountFailure, cycleVars, failingVars, StoreTypeOK
    <3>3. HistoryTypeOK'
      BY <3>1 DEF HistoryTypeOK, historyVars
    <3>4. QED
      BY <2>1, <2>3, <3>1, <3>2, <3>3
  <2>8. ASSUME NEW c \in Cycles, ReadCursor(c) PROVE TypeOK'
    <3>1. LastCheckedAt \in Int
      BY PollerAssumption DEF LastCheckedAt, Time, SecTypeOK, StoreTypeOK
    <3>2. CycleTypeOK'
      BY <2>8, <3>1 DEF ReadCursor, CycleTypeOK, PCs
    <3>3. HistoryTypeOK'
      BY <2>8 DEF ReadCursor, HistoryTypeOK
    <3>4. QED
      BY <2>1, <2>2, <2>8, <3>2, <3>3 DEF ReadCursor
  <2>9. ASSUME NEW c \in Cycles, Begin(c) PROVE TypeOK'
    <3>1. CycleTypeOK'
      BY <2>9, PollerAssumption DEF Begin, CycleTypeOK, PCs, SecTypeOK
    <3>2. QED
      BY <2>1, <2>2, <2>4, <2>9, <3>1 DEF Begin
  <2>10. ASSUME NEW c \in Cycles, CheckQuarantine(c) PROVE TypeOK'
    <3>1. at[c] <= Len(Universe) /\ InHand(c) \in Companies /\ at[c] + 1 \in 1 .. Len(Universe) + 1
      BY <2>10, CompanyInHand DEF CheckQuarantine
    <3>2. CycleTypeOK'
      BY <2>10, <3>1 DEF CheckQuarantine, NextCompany, CycleTypeOK, PCs
    <3>3. HistoryTypeOK'
      BY <2>10, <3>1 DEF CheckQuarantine, HistoryTypeOK
    <3>4. QED
      BY <2>1, <2>2, <2>10, <3>2, <3>3 DEF CheckQuarantine
  <2>11. ASSUME NEW c \in Cycles, Fetch(c) PROVE TypeOK'
    <3>1. CycleTypeOK'
      BY <2>11 DEF Fetch, CycleTypeOK, PCs
    <3>2. QED
      BY <2>1, <2>2, <2>4, <2>11, <3>1 DEF Fetch
  <2>12. ASSUME NEW c \in Cycles, FetchFails(c) PROVE TypeOK'
    <3>1. at[c] <= Len(Universe) /\ InHand(c) \in Companies /\ at[c] + 1 \in 1 .. Len(Universe) + 1
      BY <2>12, CompanyInHand DEF FetchFails, CycleTypeOK
    <3>2. CycleTypeOK'
      <4>1. /\ problems' = [problems EXCEPT ![c] = @ + 1]
            /\ \/ pc' = [pc EXCEPT ![c] = "mark"] /\ UNCHANGED at
               \/ pc' = [pc EXCEPT ![c] = "company"] /\ at' = [at EXCEPT ![c] = @ + 1]
            /\ UNCHANGED <<since, startedAt, todo>>
        BY <2>12 DEF FetchFails, NextCompany
      <4>2. problems' \in [Cycles -> Nat]
        BY <4>1 DEF CycleTypeOK
      <4>3. /\ pc' \in [Cycles -> PCs] /\ at' \in [Cycles -> 1 .. Len(Universe) + 1]
            /\ pc'[c] = "company" \/ (pc'[c] = "mark" /\ at'[c] <= Len(Universe))
            /\ \A d \in Cycles \ {c} : pc'[d] = pc[d] /\ at'[d] = at[d]
        BY <3>1, <4>1 DEF CycleTypeOK, PCs
      <4>4. QED
        BY <4>1, <4>2, <4>3 DEF CycleTypeOK
    <3>3. HistoryTypeOK'
      BY <2>12 DEF FetchFails, HistoryTypeOK, Mishap
    <3>4. StoreTypeOK'
      BY <2>12, <3>1 DEF FetchFails, CountFailure, StoreTypeOK
    <3>5. QED
      BY <2>1, <2>12, <3>2, <3>3, <3>4 DEF FetchFails
  <2>13. ASSUME NEW c \in Cycles, MarkQuarantined(c) PROVE TypeOK'
    <3>1. at[c] <= Len(Universe) /\ InHand(c) \in Companies /\ at[c] + 1 \in 1 .. Len(Universe) + 1
      BY <2>13, CompanyInHand DEF MarkQuarantined, CycleTypeOK
    <3>2. CycleTypeOK'
      BY <2>13, <3>1 DEF MarkQuarantined, NextCompany, CycleTypeOK, PCs
    <3>3. StoreTypeOK'
      BY <2>13, <3>1 DEF MarkQuarantined, StoreTypeOK
    <3>4. QED
      BY <2>1, <2>4, <2>13, <3>2, <3>3 DEF MarkQuarantined
  <2>14. ASSUME NEW c \in Cycles, Filter(c) PROVE TypeOK'
    <3>1. at[c] <= Len(Universe) /\ at[c] + 1 \in 1 .. Len(Universe) + 1
      BY <2>14, CompanyInHand DEF Filter, CycleTypeOK
    <3>2. NewFilings(c) \subseteq Filings
      BY DEF NewFilings, CycleTypeOK
    <3>3. CycleTypeOK'
      BY <2>14, <3>1, <3>2 DEF Filter, NextCompany, CycleTypeOK, PCs
    <3>4. QED
      BY <2>1, <2>2, <2>4, <2>14, <3>3 DEF Filter
  <2>15. ASSUME NEW c \in Cycles, Enqueue(c) PROVE TypeOK'
    <3>1. NextFiling(c) \in Filings
      BY <2>15, FilingInHand DEF Enqueue, CycleTypeOK
    <3>2. StoreTypeOK'
      BY <2>15, <3>1 DEF Enqueue, Add, StoreTypeOK, failingVars
    <3>3. CycleTypeOK'
      BY <2>15 DEF Enqueue, CycleTypeOK, PCs
    <3>4. QED
      BY <2>1, <2>4, <2>15, <3>2, <3>3 DEF Enqueue
  <2>16. ASSUME NEW c \in Cycles, Record(c) PROVE TypeOK'
    <3>1. at[c] <= Len(Universe) /\ at[c] + 1 \in 1 .. Len(Universe) + 1
      BY <2>16, CompanyInHand DEF Record, CycleTypeOK
    <3>2. NextFiling(c) \in Filings
      BY <2>16, FilingInHand DEF Record, CycleTypeOK
    <3>3. StoreTypeOK'
      BY <2>16, <3>2 DEF Record, StoreTypeOK, failingVars
    <3>4. CycleTypeOK'
      BY <2>16, <3>1 DEF Record, NextCompany, CycleTypeOK, PCs
    <3>5. QED
      BY <2>1, <2>4, <2>16, <3>3, <3>4 DEF Record
  <2>17. ASSUME NEW c \in Cycles, AdvanceCursor(c) PROVE TypeOK'
    <3>1. StoreTypeOK'
      BY <2>17 DEF AdvanceCursor, StoreTypeOK, CycleTypeOK, failingVars, Time
    <3>2. CycleTypeOK'
      BY <2>17 DEF AdvanceCursor, CycleTypeOK, PCs, localVars
    <3>3. QED
      BY <2>1, <2>4, <2>17, <3>1, <3>2 DEF AdvanceCursor
  <2>18. ASSUME NEW c \in Cycles, End(c) PROVE CycleTypeOK'
    BY <2>18, PollerAssumption DEF End, CycleTypeOK, PCs, Time
  <2>19. ASSUME NEW c \in Cycles, CompleteRun(c) PROVE TypeOK'
    <3>1. StoreTypeOK'
      BY <2>19 DEF CompleteRun, StoreTypeOK, CycleTypeOK, failingVars
    <3>2. QED
      BY <2>1, <2>4, <2>18, <2>19, <3>1 DEF CompleteRun
  <2>20. ASSUME NEW c \in Cycles, Abandon(c) PROVE TypeOK'
    <3>1. pc[c] = "record" => NextFiling(c) \in Filings
      BY FilingInHand DEF CycleTypeOK
    <3>2. HistoryTypeOK'
      BY <2>20, <3>1 DEF Abandon, Mishap, HistoryTypeOK
    <3>3. QED
      BY <2>1, <2>2, <2>18, <2>20, <3>2 DEF Abandon
  <2>21. ASSUME NEW c \in Cycles, EnqueueUnconfirmed(c) PROVE TypeOK'
    <3>1. NextFiling(c) \in Filings
      BY <2>21, FilingInHand DEF EnqueueUnconfirmed, CycleTypeOK
    <3>2. StoreTypeOK'
      BY <2>21, <3>1 DEF EnqueueUnconfirmed, Add, StoreTypeOK, failingVars
    <3>3. HistoryTypeOK'
      BY <2>21, <3>1 DEF EnqueueUnconfirmed, Mishap, HistoryTypeOK
    <3>4. QED
      BY <2>1, <2>18, <2>21, <3>2, <3>3 DEF EnqueueUnconfirmed
  <2>22. CASE UNCHANGED vars
    BY <2>1, <2>2, <2>3, <2>4, <2>22 DEF vars, cycleVars
  <2>23. QED
    BY <2>5, <2>6, <2>7, <2>8, <2>9, <2>10, <2>11, <2>12, <2>13, <2>14, <2>15, <2>16, <2>17, <2>19,
       <2>20, <2>21, <2>22
    DEF Next, CycleStep
<1>3. QED
  BY <1>1, <1>2, PTL DEF Spec

-----------------------------------------------------------------------------
(* The ledger of discovered filings *)

(* A cycle about to record a filing has enqueued it. *)
Vouched ==
  /\ RecordedWasEnqueued
  /\ \A c \in Cycles : pc[c] = "record" => enqueued[NextFiling(c)] > 0

LEMMA VouchedStep ==
  ASSUME TypeOK, Vouched, [Next]_vars
  PROVE  Vouched'
<1> USE DEF Vouched, RecordedWasEnqueued
<1>1. ASSUME UNCHANGED <<ledger, enqueued>>,
             \A c \in Cycles : pc'[c] = "record" => pc[c] = "record" /\ todo'[c] = todo[c]
      PROVE  Vouched'
  BY <1>1 DEF NextFiling
<1>2. ASSUME NEW c \in Cycles, Enqueue(c) \/ EnqueueUnconfirmed(c) PROVE Vouched'
  <2>1. NextFiling(c) \in Filings
    BY <1>2, FilingInHand DEF Enqueue, EnqueueUnconfirmed, TypeOK, CycleTypeOK
  <2>2. /\ UNCHANGED ledger
        /\ enqueued' = [enqueued EXCEPT ![NextFiling(c)] = @ + 1]
        /\ \A d \in Cycles : pc'[d] = "record" =>
             todo'[d] = todo[d] /\ (pc[d] = "record" \/ d = c)
    BY <1>2 DEF Enqueue, EnqueueUnconfirmed, Add, End, TypeOK, CycleTypeOK
  <2>3. \A f \in Filings : enqueued'[f] >= enqueued[f]
    BY <2>1, <2>2 DEF TypeOK, StoreTypeOK
  <2>4. enqueued'[NextFiling(c)] > 0
    BY <2>1, <2>2 DEF TypeOK, StoreTypeOK
  <2>5. \A d \in Cycles : pc[d] = "record" => NextFiling(d) \in Filings
    BY FilingInHand DEF TypeOK, CycleTypeOK
  <2>6. ASSUME NEW d \in Cycles, pc'[d] = "record" PROVE enqueued'[NextFiling(d)'] > 0
    <3>1. NextFiling(d)' = NextFiling(d)
      BY <2>2, <2>6 DEF NextFiling
    <3>2. CASE d = c
      BY <2>4, <3>1, <3>2
    <3>3. CASE pc[d] = "record"
      <4>1. NextFiling(d) \in Filings /\ enqueued[NextFiling(d)] > 0
        BY <2>5, <3>3
      <4>2. enqueued'[NextFiling(d)] >= enqueued[NextFiling(d)]
        BY <2>3, <4>1
      <4>3. QED
        BY <2>1, <2>2, <3>1, <4>1, <4>2 DEF TypeOK, StoreTypeOK
    <3>4. QED
      BY <2>2, <2>6, <3>2, <3>3
  <2>7. QED
    BY <2>2, <2>3, <2>6 DEF TypeOK, StoreTypeOK
<1>3. ASSUME NEW c \in Cycles, Record(c) PROVE Vouched'
  <2>1. /\ ledger' = ledger \cup {NextFiling(c)} /\ UNCHANGED enqueued
        /\ pc[c] = "record"
        /\ \A d \in Cycles : pc'[d] = "record" => pc[d] = "record" /\ todo'[d] = todo[d]
    BY <1>3 DEF Record, NextCompany, TypeOK, CycleTypeOK
  <2>2. QED
    BY <2>1 DEF NextFiling
<1>4. ASSUME NEW c \in Cycles, CompleteRun(c) \/ Abandon(c) PROVE Vouched'
  BY <1>1, <1>4 DEF CompleteRun, Abandon, End, TypeOK, CycleTypeOK
<1>5. ASSUME NEW c \in Cycles,
             ReadCursor(c) \/ Begin(c) \/ CheckQuarantine(c) \/ MarkQuarantined(c) \/ AdvanceCursor(c)
      PROVE  Vouched'
  BY <1>1, <1>5
  DEF ReadCursor, Begin, CheckQuarantine, MarkQuarantined, AdvanceCursor, NextCompany, localVars,
      TypeOK, CycleTypeOK
<1>6. ASSUME NEW c \in Cycles, Fetch(c) \/ FetchFails(c) \/ Filter(c) PROVE Vouched'
  <2>1. /\ UNCHANGED <<ledger, enqueued>>
        /\ \A d \in Cycles : pc'[d] = "record" => pc[d] = "record" /\ todo'[d] = todo[d]
    <3>1. CASE Fetch(c)
      BY <3>1 DEF Fetch, TypeOK, CycleTypeOK
    <3>2. CASE FetchFails(c)
      BY <3>2 DEF FetchFails, NextCompany, TypeOK, CycleTypeOK
    <3>3. CASE Filter(c)
      BY <3>3 DEF Filter, NextCompany, TypeOK, CycleTypeOK
    <3>4. QED
      BY <1>6, <3>1, <3>2, <3>3
  <2>2. QED
    BY <1>1, <2>1
<1>7. ASSUME UNCHANGED <<ledger, enqueued, pc, todo>> PROVE Vouched'
  BY <1>1, <1>7
<1>8. QED
  BY <1>2, <1>3, <1>4, <1>5, <1>6, <1>7
  DEF Next, CycleStep, Tick, ListFiling, AttemptStep, BeginAttempt, AttemptSucceeds, AttemptFails,
      AttemptMarks, ClearQuarantine, vars, cycleVars, localVars

(* The ledger never hides a filing that was not enqueued. *)
THEOREM LedgerIsTrue == Spec => []RecordedWasEnqueued
<1>1. Init => Vouched
  BY DEF Init, Vouched, RecordedWasEnqueued
<1>2. TypeOK /\ Vouched /\ [Next]_vars => Vouched'
  BY VouchedStep
<1>3. Vouched => RecordedWasEnqueued
  BY DEF Vouched
<1>4. QED
  BY <1>1, <1>2, <1>3, TypeCorrect, PTL DEF Spec

(* Without an overlap one cycle runs at a time, what it has yet to enqueue is
   not recorded, and a filing enqueued once is recorded or about to be. *)
Once ==
  ~overlapped =>
    /\ \A c, d \in Cycles : pc[c] # "idle" /\ pc[d] # "idle" => c = d
    /\ \A c \in Cycles : pc[c] \in {"enqueue", "record"} => todo[c] \cap ledger = {}
    /\ \A f \in Filings \ interrupted :
         /\ enqueued[f] <= 1
         /\ enqueued[f] = 1 => f \in ledger \/ \E c \in Cycles : pc[c] = "record" /\ NextFiling(c) = f

LEMMA OnceStep ==
  ASSUME TypeOK, Once, [Next]_vars
  PROVE  Once'
<1> USE DEF Once
<1> SUFFICES ASSUME ~overlapped' PROVE Once'
  OBVIOUS
<1>1. overlapped' = overlapped \/ \E c \in Cycles : ReadCursor(c)
  BY DEF Next, CycleStep, Tick, ListFiling, AttemptStep, BeginAttempt, AttemptSucceeds, AttemptFails,
     AttemptMarks, ClearQuarantine, Begin, CheckQuarantine, Fetch, FetchFails, MarkQuarantined, Filter,
     Enqueue, Record, AdvanceCursor, CompleteRun, Abandon, EnqueueUnconfirmed, vars, historyVars
<1>2. ~overlapped
  BY <1>1 DEF ReadCursor
<1>3. ASSUME UNCHANGED <<ledger, enqueued, todo, interrupted>>,
             \A c \in Cycles : pc[c] = "idle" => pc'[c] = "idle",
             \A c \in Cycles : pc'[c] \in {"enqueue", "record"} <=> pc[c] \in {"enqueue", "record"},
             \A c \in Cycles : pc[c] = "record" <=> pc'[c] = "record"
      PROVE  Once'
  BY <1>2, <1>3 DEF NextFiling
<1>4. ASSUME NEW c \in Cycles, ReadCursor(c) PROVE Once'
  <2>1. \A d \in Cycles : pc[d] = "idle"
    BY <1>4 DEF ReadCursor
  <2>2. UNCHANGED <<ledger, enqueued, interrupted>> /\ pc' = [pc EXCEPT ![c] = "begin"]
    BY <1>4 DEF ReadCursor
  <2>3. QED
    BY <1>2, <2>1, <2>2 DEF TypeOK, CycleTypeOK
<1>5. ASSUME NEW c \in Cycles, Filter(c) PROVE Once'
  <2>1. /\ UNCHANGED <<ledger, enqueued, interrupted>> /\ pc[c] = "filter"
        /\ todo' = [todo EXCEPT ![c] = NewFilings(c)]
        /\ \E x \in {"company", "enqueue"} : pc' = [pc EXCEPT ![c] = x]
    BY <1>5 DEF Filter, NextCompany, historyVars
  <2>2. NewFilings(c) \cap ledger = {}
    BY DEF NewFilings
  <2>3. \A d \in Cycles \ {c} : pc'[d] = "idle" /\ pc[d] = "idle"
    BY <1>2, <2>1 DEF TypeOK, CycleTypeOK
  <2>4. pc'[c] \in {"company", "enqueue"} /\ todo'[c] = NewFilings(c)
    BY <2>1 DEF TypeOK, CycleTypeOK
  <2>5. QED
    BY <1>2, <2>1, <2>2, <2>3, <2>4
<1>6. ASSUME NEW c \in Cycles, Enqueue(c) \/ EnqueueUnconfirmed(c) PROVE Once'
  <2> DEFINE g == NextFiling(c)
  <2>1. g \in todo[c] /\ g \in Filings
    BY <1>6, FilingInHand DEF Enqueue, EnqueueUnconfirmed, TypeOK, CycleTypeOK
  <2>2. /\ pc[c] = "enqueue" /\ enqueued' = [enqueued EXCEPT ![g] = @ + 1] /\ UNCHANGED ledger
        /\ \/ UNCHANGED <<todo, interrupted>> /\ pc' = [pc EXCEPT ![c] = "record"]
           \/ interrupted' = interrupted \cup {g} /\ pc' = [pc EXCEPT ![c] = "idle"]
    BY <1>6 DEF Enqueue, EnqueueUnconfirmed, Add, End, historyVars
  <2>3. \A d \in Cycles \ {c} : pc'[d] = "idle" /\ pc[d] = "idle"
    BY <1>2, <2>2 DEF TypeOK, CycleTypeOK
  <2> HIDE DEF g
  <2>4. g \notin interrupted => enqueued[g] = 0
    BY <1>2, <2>1, <2>2, <2>3 DEF TypeOK, StoreTypeOK
  <2>5. /\ \A d \in Cycles : pc'[d] \in {"enqueue", "record"} => d = c /\ todo'[d] = todo[d]
        /\ pc'[c] = "record" => NextFiling(c)' = g
        /\ pc'[c] = "record" \/ g \in interrupted'
    BY <2>2, <2>3 DEF TypeOK, CycleTypeOK, NextFiling, g
  <2>6. \A f \in Filings \ interrupted' :
          /\ enqueued'[f] <= 1
          /\ enqueued'[f] = 1 => f \in ledger' \/ (pc'[c] = "record" /\ NextFiling(c)' = f)
    <3> SUFFICES ASSUME NEW f \in Filings \ interrupted'
                 PROVE  /\ enqueued'[f] <= 1
                        /\ enqueued'[f] = 1 => f \in ledger' \/ (pc'[c] = "record" /\ NextFiling(c)' = f)
      OBVIOUS
    <3>1. f \in Filings \ interrupted
      BY <2>2
    <3>2. CASE f = g
      BY <2>1, <2>2, <2>4, <2>5, <3>1, <3>2 DEF TypeOK, StoreTypeOK
    <3>3. CASE f # g
      <4>1. enqueued'[f] = enqueued[f]
        BY <2>2, <3>3 DEF TypeOK, StoreTypeOK
      <4>2. \A d \in Cycles : pc[d] # "record"
        BY <2>2, <2>3
      <4>3. QED
        BY <1>2, <2>2, <3>1, <4>1, <4>2
    <3>4. QED
      BY <3>2, <3>3
  <2>7. QED
    BY <1>2, <2>2, <2>3, <2>5, <2>6
<1>7. ASSUME NEW c \in Cycles, Record(c) PROVE Once'
  <2> DEFINE g == NextFiling(c)
  <2>1. /\ pc[c] = "record" /\ ledger' = ledger \cup {g} /\ UNCHANGED <<enqueued, interrupted>>
        /\ todo' = [todo EXCEPT ![c] = @ \ {g}]
        /\ \E x \in {"company", "enqueue"} : pc' = [pc EXCEPT ![c] = x]
    BY <1>7 DEF Record, NextCompany, historyVars
  <2>2. \A d \in Cycles \ {c} : pc'[d] = "idle" /\ pc[d] = "idle"
    BY <1>2, <2>1 DEF TypeOK, CycleTypeOK
  <2>3. pc'[c] \in {"company", "enqueue"} /\ todo'[c] = todo[c] \ {g}
    BY <2>1 DEF TypeOK, CycleTypeOK
  <2>4. \A f \in Filings \ interrupted : enqueued[f] = 1 => f \in ledger \/ f = g
    BY <1>2, <2>1, <2>2
  <2> HIDE DEF g
  <2>5. QED
    BY <1>2, <2>1, <2>2, <2>3, <2>4
<1>8. ASSUME NEW c \in Cycles, CompleteRun(c) \/ Abandon(c) PROVE Once'
  <2>1. /\ UNCHANGED <<ledger, enqueued>>
        /\ interrupted \subseteq interrupted'
        /\ pc[c] = "record" => NextFiling(c) \in interrupted'
        /\ pc[c] # "idle" /\ pc' = [pc EXCEPT ![c] = "idle"]
    BY <1>8 DEF CompleteRun, Abandon, End, historyVars
  <2>2. \A d \in Cycles : pc'[d] = "idle"
    BY <1>2, <2>1 DEF TypeOK, CycleTypeOK
  <2>3. \A f \in Filings \ interrupted' : enqueued[f] = 1 => f \in ledger
    BY <1>2, <2>1, <2>2 DEF TypeOK, CycleTypeOK
  <2>4. QED
    BY <1>2, <2>1, <2>2, <2>3
<1>9. ASSUME NEW c \in Cycles,
             Begin(c) \/ CheckQuarantine(c) \/ FetchFails(c) \/ MarkQuarantined(c) \/ AdvanceCursor(c)
      PROVE  Once'
  <2>1. /\ UNCHANGED <<ledger, enqueued, todo, interrupted>>
        /\ pc[c] \notin {"idle", "enqueue", "record"}
        /\ \E x \in PCs \ {"idle", "enqueue", "record"} : pc' = [pc EXCEPT ![c] = x]
    BY <1>9 DEF Begin, CheckQuarantine, FetchFails, MarkQuarantined, AdvanceCursor, NextCompany,
       localVars, historyVars, PCs
  <2>2. QED
    BY <1>3, <2>1 DEF TypeOK, CycleTypeOK
<1>10. ASSUME NEW c \in Cycles, Fetch(c) PROVE Once'
  <2>1. /\ UNCHANGED <<ledger, enqueued, interrupted>>
        /\ pc[c] = "fetch" /\ pc' = [pc EXCEPT ![c] = "filter"]
        /\ \A d \in Cycles \ {c} : todo'[d] = todo[d]
    BY <1>10 DEF Fetch, historyVars, TypeOK, CycleTypeOK
  <2>2. \A d \in Cycles \ {c} : pc'[d] = "idle" /\ pc[d] = "idle"
    BY <1>2, <2>1 DEF TypeOK, CycleTypeOK
  <2>3. QED
    BY <1>2, <2>1, <2>2 DEF TypeOK, CycleTypeOK
<1>11. ASSUME UNCHANGED <<ledger, enqueued, pc, todo, interrupted>> PROVE Once'
  BY <1>3, <1>11
<1>12. QED
  BY <1>4, <1>5, <1>6, <1>7, <1>8, <1>9, <1>10, <1>11
  DEF Next, CycleStep, Tick, ListFiling, AttemptStep, BeginAttempt, AttemptSucceeds, AttemptFails,
      AttemptMarks, ClearQuarantine, vars, cycleVars, localVars, historyVars

(* A filing is enqueued twice only after cycles overlapped, or one died with
   the filing enqueued and not recorded. *)
THEOREM TwiceForAReason == Spec => []EnqueuedTwiceForAReason
<1>1. Init => Once
  BY DEF Init, Once
<1>2. TypeOK /\ Once /\ [Next]_vars => Once'
  BY OnceStep
<1>3. TypeOK /\ Once => EnqueuedTwiceForAReason
  BY DEF TypeOK, StoreTypeOK, Once, EnqueuedTwiceForAReason
<1>4. QED
  BY <1>1, <1>2, <1>3, TypeCorrect, PTL DEF Spec

-----------------------------------------------------------------------------
(* The window *)

(* Days are in the order of their moments. *)
LEMMA DaysInOrder ==
  ASSUME NEW D \in Nat \ {0}, NEW t \in Int, NEW u \in Int, t <= u
  PROVE  t \div D <= u \div D
<1> DEFINE q == t \div D
           r == u \div D
<1>1. q \in Int /\ r \in Int /\ q * D <= t /\ u < r * D + D
  OBVIOUS
<1> HIDE DEF q, r
<1>2. ASSUME q >= r + 1 PROVE FALSE
  <2>1. (q - r - 1) * D >= 0
    BY <1>1, <1>2
  <2>2. (q - r - 1) * D = q * D - r * D - D
    BY <1>1
  <2>3. QED
    BY <1>1, <2>1, <2>2
<1>3. QED
  BY <1>1, <1>2 DEF q, r

LEMMA WindowOpensEarlier ==
  ASSUME NEW t \in Int, NEW u \in Int, t <= u
  PROVE  /\ Earliest(t) \in Int /\ Earliest(u) \in Int
         /\ Earliest(t) <= Earliest(u)
         /\ Earliest(t) <= DayOf(t) - Lag
<1> DEFINE a == t - Lookback * TicksPerDay
           b == u - Lookback * TicksPerDay
<1>1. a \in Int /\ b \in Int /\ a <= b /\ TicksPerDay \in Nat \ {0}
  BY PollerAssumption
<1>2. a \div TicksPerDay <= b \div TicksPerDay
  <2> HIDE DEF a, b
  <2>1. QED
    BY <1>1, DaysInOrder
<1>3. a \div TicksPerDay \in Int /\ b \div TicksPerDay \in Int
  BY <1>1
<1>4. a \div TicksPerDay = t \div TicksPerDay - Lookback
  BY PollerAssumption
<1>5. QED
  BY <1>2, <1>3, <1>4, PollerAssumption DEF Earliest, DayOf

(* Every outstanding filing is in the window of a cursor at t. *)
Safe(t) == \A f \in Outstanding : date[f] >= Earliest(t)

(* What cycle c has gone past. *)
Passed(c, f) ==
  \/ \E i \in 1 .. Len(Universe) : i < at[c] /\ Universe[i] = CompanyOf[f]
  \/ pc[c] \in {"filter", "enqueue", "record"} /\ CompanyOf[f] = InHand(c) /\ f \notin todo[c]

(* A cycle without a problem leaves nothing outstanding behind it that the
   window of its start would not take in. *)
Swept(c) ==
  /\ since[c] <= clock /\ startedAt[c] <= clock
  /\ pc[c] # "idle" => Safe(since[c])
  /\ pc[c] = "mark" => problems[c] > 0
  /\ pc[c] = "complete" => at[c] > Len(Universe)
  /\ pc[c] \notin {"idle", "begin"} /\ problems[c] = 0 =>
       \A f \in Outstanding : Passed(c, f) => date[f] >= Earliest(startedAt[c])

Windows ==
  /\ cursor \in Int /\ cursor <= clock /\ Safe(cursor)
  /\ completed # NoRun /\ completed.failed = 0 => completed.started <= clock /\ Safe(completed.started)
  /\ \A c \in Cycles : Swept(c)

(* Filings are found or given up for good, and new ones are recent. *)
Aged ==
  /\ clock <= clock'
  /\ \A f \in Outstanding' : \/ f \in Outstanding /\ date'[f] = date[f]
                             \/ date'[f] >= DayOf(clock) - Lag

LEMMA FilingsAge ==
  ASSUME TypeOK, TypeOK', [Next]_vars
  PROVE  Aged /\ clock \in Int /\ clock' \in Int /\ \A f \in Outstanding' : date'[f] \in Int
<1>1. clock \in Int /\ clock' \in Int
  BY PollerAssumption DEF TypeOK, SecTypeOK, Time
<1>2. \A f \in Outstanding' : date'[f] \in Int
  BY DEF TypeOK, SecTypeOK, Outstanding, Listed
<1>3. ledger \subseteq ledger' /\ skipped \subseteq skipped'
  BY DEF Next, CycleStep, Tick, ListFiling, AttemptStep, BeginAttempt, AttemptSucceeds, AttemptFails,
     AttemptMarks, ClearQuarantine, ReadCursor, Begin, CheckQuarantine, Fetch, FetchFails,
     MarkQuarantined, Filter, Enqueue, Record, AdvanceCursor, CompleteRun, Abandon,
     EnqueueUnconfirmed, vars, historyVars
<1>4. ASSUME UNCHANGED date, clock <= clock' PROVE Aged
  <2>1. ASSUME NEW f \in Outstanding' PROVE f \in Outstanding
    BY <1>3, <1>4 DEF Outstanding, Listed
  <2>2. QED
    BY <1>4, <2>1 DEF Aged
<1>5. ASSUME NEW f \in Filings, ListFiling(f) PROVE Aged
  <2>1. PICK late \in 0 .. Lag : date' = [date EXCEPT ![f] = DayOf(clock) - late]
    BY <1>5 DEF ListFiling
  <2>2. DayOf(clock) \in Int /\ Lag \in Int /\ clock' = clock
    BY <1>1, <1>5, PollerAssumption DEF DayOf, ListFiling
  <2>3. \A g \in Filings : g # f => date'[g] = date[g]
    BY <2>1 DEF TypeOK, SecTypeOK
  <2>4. date'[f] >= DayOf(clock) - Lag
    BY <2>1, <2>2 DEF TypeOK, SecTypeOK
  <2>5. QED
    BY <1>1, <1>3, <2>2, <2>3, <2>4 DEF Aged, Outstanding, Listed
<1>6. UNCHANGED secVars \/ Tick \/ \E f \in Filings : ListFiling(f)
  <2>1. ASSUME NEW c \in Cycles, CycleStep(c) PROVE UNCHANGED secVars
    BY <2>1 DEF CycleStep, ReadCursor, Begin, CheckQuarantine, Fetch, MarkQuarantined, Filter,
                Enqueue, Record, AdvanceCursor, CompleteRun
  <2>2. ASSUME NEW c \in Cycles, FetchFails(c) \/ Abandon(c) \/ EnqueueUnconfirmed(c)
        PROVE  UNCHANGED secVars
    BY <2>2 DEF FetchFails, Abandon, EnqueueUnconfirmed
  <2>3. ASSUME NEW co \in Companies, AttemptStep(co) \/ ClearQuarantine(co) PROVE UNCHANGED secVars
    BY <2>3 DEF AttemptStep, BeginAttempt, AttemptSucceeds, AttemptFails, AttemptMarks, ClearQuarantine
  <2>4. QED
    BY <2>1, <2>2, <2>3 DEF Next, vars
<1>7. Aged
  BY <1>1, <1>4, <1>5, <1>6 DEF secVars, Tick
<1>8. QED
  BY <1>1, <1>2, <1>7

(* So what holds of a moment goes on holding. *)
LEMMA SafeStaysSafe ==
  ASSUME TypeOK, Aged, clock \in Int, NEW t \in Int, t <= clock,
         \A f \in Outstanding' : date'[f] \in Int, NEW f \in Outstanding',
         f \in Outstanding => date[f] >= Earliest(t)
  PROVE  date'[f] >= Earliest(t)
<1>1. CASE f \in Outstanding /\ date'[f] = date[f]
  BY <1>1
<1>2. CASE date'[f] >= DayOf(clock) - Lag
  <2>1. /\ Earliest(t) \in Int /\ Earliest(clock) \in Int
        /\ Earliest(t) <= Earliest(clock) /\ Earliest(clock) <= DayOf(clock) - Lag
    BY WindowOpensEarlier
  <2>2. DayOf(clock) \in Int /\ Lag \in Int
    BY PollerAssumption DEF DayOf
  <2>3. QED
    BY <1>2, <2>1, <2>2
<1>3. QED
  BY <1>1, <1>2 DEF Aged

(* A cycle that does not move keeps what it has swept. *)
LEMMA SweptKept ==
  ASSUME TypeOK, TypeOK', Aged, clock \in Int, clock' \in Int,
         \A f \in Outstanding' : date'[f] \in Int,
         NEW c \in Cycles, Swept(c),
         since'[c] = since[c], startedAt'[c] = startedAt[c],
         pc[c] = "idle" => pc'[c] = "idle",
         pc'[c] = "mark" => problems'[c] > 0,
         pc'[c] = "complete" => at'[c] > Len(Universe),
         pc'[c] \notin {"idle", "begin"} /\ problems'[c] = 0 =>
           /\ pc[c] \notin {"idle", "begin"} /\ problems[c] = 0
           /\ \A f \in Outstanding \cap Outstanding' : Passed(c, f)' =>
                Passed(c, f) \/ date[f] >= Earliest(startedAt[c])
  PROVE  Swept(c)'
<1>1. since[c] \in Int /\ startedAt[c] \in Int /\ since[c] <= clock /\ startedAt[c] <= clock
  BY PollerAssumption DEF TypeOK, CycleTypeOK, Time, Swept
<1>2. since'[c] <= clock' /\ startedAt'[c] <= clock'
  BY <1>1 DEF Aged
<1>3. pc'[c] # "idle" => Safe(since[c])'
  BY <1>1, SafeStaysSafe DEF Swept, Safe, Earliest, DayOf
<1>4. pc'[c] \notin {"idle", "begin"} /\ problems'[c] = 0 =>
        \A f \in Outstanding' : Passed(c, f)' => date'[f] >= Earliest(startedAt[c])
  <2> SUFFICES ASSUME pc'[c] \notin {"idle", "begin"}, problems'[c] = 0,
                      NEW f \in Outstanding', Passed(c, f)'
               PROVE  date'[f] >= Earliest(startedAt[c])
    OBVIOUS
  <2>1. f \in Outstanding => date[f] >= Earliest(startedAt[c])
    BY DEF Swept
  <2>2. QED
    BY <1>1, <2>1, SafeStaysSafe
<1>5. QED
  BY <1>2, <1>3, <1>4 DEF Swept

LEMMA WindowsStep ==
  ASSUME TypeOK, TypeOK', Windows, [Next]_vars
  PROVE  Windows'
<1>1. /\ Aged /\ clock \in Int /\ clock' \in Int
      /\ \A f \in Outstanding' : date'[f] \in Int
  BY FilingsAge
<1>2. \A t \in Int : t <= clock /\ Safe(t) => t <= clock' /\ Safe(t)'
  <2> SUFFICES ASSUME NEW t \in Int, t <= clock, Safe(t)
               PROVE  t <= clock' /\ \A f \in Outstanding' : date'[f] >= Earliest(t)
    BY DEF Safe, Earliest, DayOf
  <2>1. t <= clock'
    BY <1>1 DEF Aged
  <2>2. \A f \in Outstanding' : date'[f] >= Earliest(t)
    BY <1>1, SafeStaysSafe DEF Safe
  <2>3. QED
    BY <2>1, <2>2
<1>3. ASSUME UNCHANGED cursor PROVE (cursor \in Int /\ cursor <= clock /\ Safe(cursor))'
  BY <1>2, <1>3 DEF Windows, Safe, Earliest, DayOf
<1>4. ASSUME UNCHANGED completed
      PROVE  (completed # NoRun /\ completed.failed = 0 =>
                completed.started <= clock /\ Safe(completed.started))'
  <2>1. completed # NoRun => completed.started \in Int
    BY DEF TypeOK, StoreTypeOK, Time
  <2>2. QED
    BY <1>2, <1>4, <2>1 DEF Windows, Safe, Earliest, DayOf
<1>5. ASSUME NEW c \in Cycles, since'[c] = since[c], startedAt'[c] = startedAt[c],
             pc[c] = "idle" => pc'[c] = "idle",
             pc'[c] = "mark" => problems'[c] > 0,
             pc'[c] = "complete" => at'[c] > Len(Universe),
             pc'[c] \notin {"idle", "begin"} /\ problems'[c] = 0 =>
               /\ pc[c] \notin {"idle", "begin"} /\ problems[c] = 0
               /\ \A f \in Outstanding \cap Outstanding' : Passed(c, f)' =>
                    Passed(c, f) \/ date[f] >= Earliest(startedAt[c])
      PROVE  Swept(c)'
  BY <1>1, <1>5, SweptKept DEF Windows
<1>6. ASSUME NEW c \in Cycles, UNCHANGED <<pc[c], since[c], startedAt[c], at[c], todo[c], problems[c]>>
      PROVE  Swept(c)'
  <2>1. \A f \in Outstanding : Passed(c, f)' => Passed(c, f)
    BY <1>6 DEF Passed, InHand
  <2>2. pc[c] = "mark" => problems[c] > 0
    BY DEF Windows, Swept
  <2>3. pc[c] = "complete" => at[c] > Len(Universe)
    BY DEF Windows, Swept
  <2>4. QED
    BY <1>5, <1>6, <2>1, <2>2, <2>3
<1>7. ASSUME NEW c \in Cycles, UNCHANGED <<cursor, completed>>, Swept(c)',
             \A d \in Cycles \ {c} : UNCHANGED <<pc[d], since[d], startedAt[d], at[d], todo[d], problems[d]>>
      PROVE  Windows'
  BY <1>3, <1>4, <1>6, <1>7 DEF Windows
<1>8. ASSUME UNCHANGED <<cursor, completed, pc, localVars>> PROVE Windows'
  <2>1. \A d \in Cycles : UNCHANGED <<pc[d], since[d], startedAt[d], at[d], todo[d], problems[d]>>
    BY <1>8 DEF localVars
  <2>2. QED
    BY <1>3, <1>4, <1>6, <1>8, <2>1 DEF Windows
<1>9. ASSUME NEW c \in Cycles, ReadCursor(c) PROVE Windows'
  <2>1. /\ UNCHANGED <<secVars, cursor, ledger, completed, startedAt, at, todo, problems, skipped>>
        /\ since' = [since EXCEPT ![c] = LastCheckedAt] /\ pc' = [pc EXCEPT ![c] = "begin"]
    BY <1>9 DEF ReadCursor
  <2>2. LastCheckedAt = cursor
    BY PollerAssumption DEF LastCheckedAt, Windows
  <2>3. /\ pc'[c] = "begin" /\ since'[c] = cursor
        /\ \A d \in Cycles \ {c} : pc'[d] = pc[d] /\ since'[d] = since[d]
    BY <2>1, <2>2 DEF TypeOK, CycleTypeOK
  <2>4. Outstanding' = Outstanding /\ date' = date /\ clock' = clock
    BY <2>1 DEF Outstanding, Listed, secVars
  <2>5. Swept(c)'
    BY <2>1, <2>3, <2>4 DEF Windows, Swept, Safe, Earliest, DayOf
  <2>6. QED
    BY <1>7, <2>1, <2>3, <2>5
<1>10. ASSUME NEW c \in Cycles, Begin(c) PROVE Windows'
  <2>1. /\ UNCHANGED <<secVars, cursor, ledger, completed, since, todo, skipped>>
        /\ startedAt' = [startedAt EXCEPT ![c] = clock] /\ at' = [at EXCEPT ![c] = 1]
        /\ problems' = [problems EXCEPT ![c] = 0] /\ pc' = [pc EXCEPT ![c] = "company"]
        /\ pc[c] = "begin"
    BY <1>10 DEF Begin, historyVars
  <2>2. /\ pc'[c] = "company" /\ startedAt'[c] = clock /\ at'[c] = 1 /\ since'[c] = since[c]
        /\ \A d \in Cycles \ {c} : UNCHANGED <<pc[d], startedAt[d], at[d], problems[d]>>
    BY <2>1 DEF TypeOK, CycleTypeOK
  <2>3. Outstanding' = Outstanding /\ date' = date /\ clock' = clock
    BY <2>1 DEF Outstanding, Listed, secVars
  <2>4. \A f \in Outstanding : ~Passed(c, f)'
    BY <2>2 DEF Passed
  <2>5. since[c] <= clock /\ Safe(since[c])
    BY <2>1 DEF Windows, Swept
  <2>6. Safe(since[c])' /\ clock <= clock
    BY <1>1, <2>1, <2>3, <2>5 DEF Safe, Earliest, DayOf
  <2>7. Swept(c)'
    BY <2>2, <2>3, <2>4, <2>5, <2>6 DEF Swept, Safe, Earliest, DayOf
  <2>8. QED
    BY <1>7, <2>1, <2>2, <2>7
<1>11. ASSUME NEW c \in Cycles, at[c] <= Len(Universe), at'[c] = at[c] + 1, pc'[c] = "company",
              pc[c] \notin {"idle", "begin"},
              UNCHANGED <<cursor, completed, since, startedAt>>,
              \A d \in Cycles \ {c} : UNCHANGED <<pc[d], at[d], todo[d], problems[d]>>,
              problems'[c] = 0 =>
                /\ problems[c] = 0
                /\ \A f \in Outstanding \cap Outstanding' : CompanyOf[f] = InHand(c) =>
                     Passed(c, f) \/ date[f] >= Earliest(startedAt[c])
       PROVE  Windows'
  <2>1. \A f \in Outstanding : Passed(c, f)' => Passed(c, f) \/ CompanyOf[f] = InHand(c)
    BY <1>11 DEF Passed, InHand, TypeOK, CycleTypeOK
  <2>2. Swept(c)'
    BY <1>5, <1>11, <2>1
  <2>3. QED
    BY <1>7, <1>11, <2>2
<1>12. ASSUME NEW c \in Cycles, CheckQuarantine(c) PROVE Windows'
  <2>1. /\ pc[c] = "company" /\ at[c] <= Len(Universe)
        /\ UNCHANGED <<cursor, completed, since, startedAt, todo, problems>>
    BY <1>12 DEF CheckQuarantine
  <2>2. CASE InHand(c) \in skipped' /\ NextCompany(c)
    <3>1. /\ pc'[c] = "company" /\ at'[c] = at[c] + 1
          /\ \A d \in Cycles \ {c} : UNCHANGED <<pc[d], at[d]>>
      BY <2>2 DEF NextCompany, TypeOK, CycleTypeOK
    <3>2. \A f \in Outstanding' : CompanyOf[f] # InHand(c)
      BY <2>2 DEF Outstanding
    <3>3. QED
      BY <1>11, <2>1, <3>1, <3>2
  <2>3. CASE pc' = [pc EXCEPT ![c] = "fetch"] /\ UNCHANGED at
    <3>1. pc'[c] = "fetch" /\ \A d \in Cycles \ {c} : pc'[d] = pc[d]
      BY <2>3 DEF TypeOK, CycleTypeOK
    <3>2. \A f \in Outstanding : Passed(c, f)' => Passed(c, f)
      BY <2>1, <2>3, <3>1 DEF Passed, InHand
    <3>3. Swept(c)'
      BY <1>5, <2>1, <2>3, <3>1, <3>2
    <3>4. QED
      BY <1>7, <2>1, <2>3, <3>1, <3>3
  <2>4. QED
    BY <1>12, <2>2, <2>3 DEF CheckQuarantine
<1>13. ASSUME NEW c \in Cycles, Fetch(c) PROVE Windows'
  <2>1. /\ pc[c] = "fetch"
        /\ UNCHANGED <<secVars, cursor, completed, since, startedAt, at, problems>>
        /\ todo' = [todo EXCEPT ![c] = {f \in Filings : CompanyOf[f] = InHand(c) /\ Listed(f)}]
        /\ pc' = [pc EXCEPT ![c] = "filter"]
    BY <1>13 DEF Fetch
  <2>2. /\ pc'[c] = "filter" /\ todo'[c] = {f \in Filings : CompanyOf[f] = InHand(c) /\ Listed(f)}
        /\ \A d \in Cycles \ {c} : pc'[d] = pc[d] /\ todo'[d] = todo[d]
    BY <2>1 DEF TypeOK, CycleTypeOK
  <2>3. \A f \in Outstanding : Passed(c, f)' => Passed(c, f)
    BY <2>1, <2>2 DEF Passed, InHand, Outstanding
  <2>4. Swept(c)'
    BY <1>5, <2>1, <2>2, <2>3
  <2>5. QED
    BY <1>7, <2>1, <2>2, <2>4
<1>14. ASSUME NEW c \in Cycles, FetchFails(c) PROVE Windows'
  <2>1. /\ pc[c] = "fetch" /\ UNCHANGED <<cursor, completed, since, startedAt, todo>>
        /\ problems' = [problems EXCEPT ![c] = @ + 1]
        /\ \/ pc' = [pc EXCEPT ![c] = "mark"] /\ UNCHANGED at
           \/ pc' = [pc EXCEPT ![c] = "company"] /\ at' = [at EXCEPT ![c] = @ + 1]
    BY <1>14 DEF FetchFails, NextCompany
  <2>2. /\ pc'[c] \in {"mark", "company"} /\ problems'[c] > 0
        /\ \A d \in Cycles \ {c} : pc'[d] = pc[d] /\ at'[d] = at[d] /\ problems'[d] = problems[d]
    BY <2>1 DEF TypeOK, CycleTypeOK
  <2>3. Swept(c)'
    BY <1>5, <2>1, <2>2
  <2>4. QED
    BY <1>7, <2>1, <2>2, <2>3
<1>15. ASSUME NEW c \in Cycles, MarkQuarantined(c) PROVE Windows'
  <2>1. /\ pc[c] = "mark" /\ at[c] <= Len(Universe) /\ problems[c] > 0
        /\ UNCHANGED <<cursor, completed, since, startedAt, todo, problems>> /\ NextCompany(c)
    BY <1>15 DEF MarkQuarantined, Windows, Swept, TypeOK, CycleTypeOK
  <2>2. /\ pc'[c] = "company" /\ at'[c] = at[c] + 1
        /\ \A d \in Cycles \ {c} : UNCHANGED <<pc[d], at[d]>>
    BY <2>1 DEF NextCompany, TypeOK, CycleTypeOK
  <2>3. problems'[c] # 0 /\ pc[c] \notin {"idle", "begin"}
    BY <2>1 DEF TypeOK, CycleTypeOK
  <2>4. QED
    BY <1>11, <2>1, <2>2, <2>3
<1>16. ASSUME NEW c \in Cycles, Filter(c) PROVE Windows'
  <2>1. /\ pc[c] = "filter" /\ at[c] <= Len(Universe)
        /\ UNCHANGED <<secVars, cursor, completed, since, startedAt, problems>>
        /\ todo' = [todo EXCEPT ![c] = NewFilings(c)]
        /\ \/ NewFilings(c) = {} /\ NextCompany(c)
           \/ pc' = [pc EXCEPT ![c] = "enqueue"] /\ UNCHANGED at
    BY <1>16 DEF Filter, TypeOK, CycleTypeOK
  <2>2. todo'[c] = NewFilings(c) /\ \A d \in Cycles \ {c} : todo'[d] = todo[d]
    BY <2>1 DEF TypeOK, CycleTypeOK
  <2>3. \A f \in Outstanding : CompanyOf[f] = InHand(c) /\ f \notin NewFilings(c) => Passed(c, f)
    <3>1. \A f \in Outstanding : date[f] >= Earliest(since[c])
      BY <2>1 DEF Windows, Swept, Safe
    <3>2. QED
      BY <2>1, <3>1 DEF NewFilings, Outstanding, Passed
  <2>4. CASE NewFilings(c) = {} /\ NextCompany(c)
    <3>1. /\ pc'[c] = "company" /\ at'[c] = at[c] + 1
          /\ \A d \in Cycles \ {c} : UNCHANGED <<pc[d], at[d]>>
      BY <2>4 DEF NextCompany, TypeOK, CycleTypeOK
    <3>2. QED
      BY <1>11, <2>1, <2>2, <2>3, <2>4, <3>1
  <2>5. CASE pc' = [pc EXCEPT ![c] = "enqueue"] /\ UNCHANGED at
    <3>1. pc'[c] = "enqueue" /\ \A d \in Cycles \ {c} : pc'[d] = pc[d]
      BY <2>5 DEF TypeOK, CycleTypeOK
    <3>2. \A f \in Outstanding : Passed(c, f)' => Passed(c, f)
      BY <2>2, <2>3, <2>5, <3>1 DEF Passed, InHand
    <3>3. Swept(c)'
      BY <1>5, <2>1, <2>5, <3>1, <3>2
    <3>4. QED
      BY <1>7, <2>1, <2>2, <2>5, <3>1, <3>3
  <2>6. QED
    BY <2>1, <2>4, <2>5
<1>17. ASSUME NEW c \in Cycles, Enqueue(c) PROVE Windows'
  <2>1. /\ pc[c] = "enqueue" /\ pc' = [pc EXCEPT ![c] = "record"]
        /\ UNCHANGED <<cursor, completed, since, startedAt, at, todo, problems>>
    BY <1>17 DEF Enqueue
  <2>2. pc'[c] = "record" /\ \A d \in Cycles \ {c} : pc'[d] = pc[d]
    BY <2>1 DEF TypeOK, CycleTypeOK
  <2>3. \A f \in Outstanding : Passed(c, f)' => Passed(c, f)
    BY <2>1, <2>2 DEF Passed, InHand
  <2>4. Swept(c)'
    BY <1>5, <2>1, <2>2, <2>3
  <2>5. QED
    BY <1>7, <2>1, <2>2, <2>4
<1>18. ASSUME NEW c \in Cycles, Record(c) PROVE Windows'
  <2> DEFINE g == NextFiling(c)
  <2>1. /\ pc[c] = "record" /\ at[c] <= Len(Universe)
        /\ UNCHANGED <<cursor, completed, since, startedAt, problems>>
        /\ ledger' = ledger \cup {g} /\ todo' = [todo EXCEPT ![c] = @ \ {g}]
        /\ \/ todo[c] \ {g} = {} /\ NextCompany(c)
           \/ pc' = [pc EXCEPT ![c] = "enqueue"] /\ UNCHANGED at
    BY <1>18 DEF Record, TypeOK, CycleTypeOK
  <2> HIDE DEF g
  <2>2. todo'[c] = todo[c] \ {g} /\ \A d \in Cycles \ {c} : todo'[d] = todo[d]
    BY <2>1 DEF TypeOK, CycleTypeOK
  <2>3. \A f \in Outstanding' : f # g
    BY <2>1 DEF Outstanding
  <2>4. CASE todo[c] \ {g} = {} /\ NextCompany(c)
    <3>1. /\ pc'[c] = "company" /\ at'[c] = at[c] + 1
          /\ \A d \in Cycles \ {c} : UNCHANGED <<pc[d], at[d]>>
      BY <2>4 DEF NextCompany, TypeOK, CycleTypeOK
    <3>2. \A f \in Outstanding' : CompanyOf[f] = InHand(c) => Passed(c, f)
      BY <2>1, <2>3, <2>4 DEF Passed
    <3>3. QED
      BY <1>11, <2>1, <2>2, <3>1, <3>2
  <2>5. CASE pc' = [pc EXCEPT ![c] = "enqueue"] /\ UNCHANGED at
    <3>1. pc'[c] = "enqueue" /\ \A d \in Cycles \ {c} : pc'[d] = pc[d]
      BY <2>5 DEF TypeOK, CycleTypeOK
    <3>2. \A f \in Outstanding' : Passed(c, f)' => Passed(c, f)
      BY <2>1, <2>2, <2>3, <2>5, <3>1 DEF Passed, InHand
    <3>3. Swept(c)'
      BY <1>5, <2>1, <2>5, <3>1, <3>2
    <3>4. QED
      BY <1>7, <2>1, <2>2, <2>5, <3>1, <3>3
  <2>6. QED
    BY <2>1, <2>4, <2>5
<1>19. ASSUME NEW c \in Cycles, pc[c] \notin {"idle", "begin"}, problems[c] = 0, at[c] > Len(Universe)
       PROVE  startedAt[c] \in Int /\ startedAt[c] <= clock /\ Safe(startedAt[c])
  <2>1. \A f \in Outstanding : Passed(c, f)
    <3> SUFFICES ASSUME NEW f \in Outstanding PROVE Passed(c, f)
      OBVIOUS
    <3>1. CompanyOf[f] \in Range(Universe)
      BY DEF Outstanding
    <3>2. PICK i \in 1 .. Len(Universe) : CompanyOf[f] = Universe[i]
      BY <3>1, PollerAssumption DEF Range
    <3>3. i < at[c]
      BY <1>19, <3>2, PollerAssumption DEF TypeOK, CycleTypeOK
    <3>4. QED
      BY <3>2, <3>3 DEF Passed
  <2>2. QED
    BY <1>19, <2>1 DEF Windows, Swept, Safe, TypeOK, CycleTypeOK, Time
<1>20. ASSUME NEW c \in Cycles, AdvanceCursor(c) PROVE Windows'
  <2>1. /\ pc[c] = "company" /\ at[c] > Len(Universe) /\ pc' = [pc EXCEPT ![c] = "complete"]
        /\ cursor' = IF problems[c] = 0 THEN startedAt[c] ELSE cursor
        /\ UNCHANGED <<since, startedAt, at, todo, problems, completed>>
    BY <1>20 DEF AdvanceCursor, localVars
  <2>2. cursor' \in Int /\ cursor' <= clock /\ Safe(cursor')
    BY <1>19, <2>1 DEF Windows
  <2>3. (cursor \in Int /\ cursor <= clock /\ Safe(cursor))'
    BY <1>2, <2>2 DEF Safe, Earliest, DayOf
  <2>4. pc'[c] = "complete" /\ \A d \in Cycles \ {c} : pc'[d] = pc[d]
    BY <2>1 DEF TypeOK, CycleTypeOK
  <2>5. \A f \in Outstanding : Passed(c, f)' => Passed(c, f)
    BY <2>1, <2>4 DEF Passed, InHand
  <2>6. Swept(c)'
    BY <1>5, <2>1, <2>4, <2>5
  <2>7. \A d \in Cycles : Swept(d)'
    BY <1>6, <2>1, <2>4, <2>6
  <2>8. QED
    BY <1>4, <2>1, <2>3, <2>7 DEF Windows
<1>21. ASSUME NEW c \in Cycles, End(c) PROVE \A d \in Cycles : Swept(d)'
  <2>1. pc'[c] = "idle" /\ since'[c] = 0 /\ startedAt'[c] = 0
    BY <1>21 DEF End, TypeOK, CycleTypeOK
  <2>2. clock' >= 0
    BY DEF TypeOK, SecTypeOK, Time
  <2>3. Swept(c)'
    BY <2>1, <2>2 DEF Swept
  <2>4. \A d \in Cycles \ {c} :
          UNCHANGED <<pc[d], since[d], startedAt[d], at[d], todo[d], problems[d]>>
    BY <1>21 DEF End, TypeOK, CycleTypeOK
  <2>5. QED
    BY <1>6, <2>3, <2>4
<1>22. ASSUME NEW c \in Cycles, CompleteRun(c) PROVE Windows'
  <2>1. /\ pc[c] = "complete" /\ End(c) /\ UNCHANGED cursor
        /\ completed' = [started |-> startedAt[c], failed |-> problems[c]]
    BY <1>22 DEF CompleteRun
  <2>2. at[c] > Len(Universe)
    BY <2>1 DEF Windows, Swept
  <2>3. completed'.failed = 0 =>
          /\ completed'.started \in Int /\ completed'.started <= clock /\ Safe(completed'.started)
    BY <1>19, <2>1, <2>2
  <2>4. (completed # NoRun /\ completed.failed = 0 =>
           completed.started <= clock /\ Safe(completed.started))'
    BY <1>2, <2>3 DEF Safe, Earliest, DayOf
  <2>5. QED
    BY <1>3, <1>21, <2>1, <2>4 DEF Windows
<1>23. ASSUME NEW c \in Cycles, Abandon(c) \/ EnqueueUnconfirmed(c) PROVE Windows'
  BY <1>3, <1>4, <1>21, <1>23 DEF Abandon, EnqueueUnconfirmed, Windows
<1>24. ASSUME NEW co \in Companies, AttemptStep(co) \/ ClearQuarantine(co) PROVE Windows'
  <2>1. UNCHANGED <<cursor, completed, pc, localVars>>
    BY <1>24 DEF AttemptStep, BeginAttempt, AttemptSucceeds, AttemptFails, AttemptMarks,
                 ClearQuarantine, cycleVars
  <2>2. QED
    BY <1>8, <2>1
<1>25. ASSUME Tick \/ (\E f \in Filings : ListFiling(f)) \/ UNCHANGED vars PROVE Windows'
  BY <1>8, <1>25 DEF Tick, ListFiling, vars, cycleVars
<1>26. QED
  BY <1>9, <1>10, <1>12, <1>13, <1>14, <1>15, <1>16, <1>17, <1>18, <1>20, <1>22, <1>23, <1>24, <1>25
  DEF Next, CycleStep

(* Past the first deployment: a cursor is there from the start. *)
LEMMA WindowsHold == InitialCursor # NoCursor /\ Spec => []Windows
<1>1. InitialCursor # NoCursor /\ Init => Windows
  <2> SUFFICES ASSUME InitialCursor # NoCursor, Init PROVE Windows
    OBVIOUS
  <2>1. Outstanding = {}
    BY DEF Init, Outstanding, Listed
  <2>2. cursor \in Int /\ cursor <= 0 /\ clock = 0 /\ completed = NoRun
    BY PollerAssumption DEF Init
  <2>3. \A c \in Cycles : Swept(c)
    BY <2>1 DEF Init, Swept, Safe
  <2>4. QED
    BY <2>1, <2>2, <2>3 DEF Windows, Safe
<1>2. TypeOK /\ TypeOK' /\ Windows /\ [Next]_vars => Windows'
  BY WindowsStep
<1>3. QED
  BY <1>1, <1>2, TypeCorrect, PTL DEF Spec

(* No filing falls out of the window before it is found, however cycles fail,
   die and overlap. *)
THEOREM NothingIsLeftBehind == InitialCursor # NoCursor /\ Spec => []NothingFallsBehind
<1>1. Windows => NothingFallsBehind
  BY DEF Windows, Safe, NothingFallsBehind
<1>2. QED
  BY <1>1, WindowsHold, PTL

(* A completed run with no company failed vouches for all before its window. *)
THEOREM CleanRunsVouch == Spec => []CleanRunVouches
<1>1. Windows => CleanRunVouches
  BY DEF Windows, Safe, CleanRunVouches
<1>2. InitialCursor = NoCursor => CleanRunVouches
  BY DEF CleanRunVouches
<1>3. CASE InitialCursor = NoCursor
  <2>1. CleanRunVouches
    BY <1>2, <1>3
  <2>2. QED
    BY <2>1, PTL
<1>4. CASE InitialCursor # NoCursor
  BY <1>1, <1>4, WindowsHold, PTL
<1>5. QED
  BY <1>3, <1>4
=============================================================================
