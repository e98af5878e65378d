------------------------- MODULE ResponseCacheProofs -------------------------
(***************************************************************************)
(* Proofs about ResponseCache, for any requests, writers, times and faults:*)
(* the types, what the second deletion leaves behind, what an empty list   *)
(* of facts says, and that no answer misses what BoundedStaleness promises.*)
(***************************************************************************)
EXTENDS ResponseCache, DataLemmas, TLAPS

-----------------------------------------------------------------------------
(* The latest commit *)

Commits == [kind : Kinds, at : 0 .. MaxTime]

(* Latest is a commit of its kind among the first n, none of them later, or 0
   when there is none. *)
LEMMA LatestCommit ==
  ASSUME log \in Seq(Commits), NEW n \in 0 .. Len(log), NEW kind \in Kinds
  PROVE  /\ Latest(kind, n) \in 0 .. n
         /\ \A i \in 1 .. n : log[i].kind = kind => i <= Latest(kind, n)
<1> DEFINE S == {0} \cup {i \in 1 .. n : log[i].kind = kind}
<1>1. n \in Nat /\ S \in SUBSET (0 .. n) /\ S # {}
  OBVIOUS
<1>2. Max(S) \in S /\ \A y \in S : Max(S) >= y
  BY <1>1, Greatest
<1>3. Latest(kind, n) = Max(S)
  BY DEF Latest
<1>4. QED
  BY <1>1, <1>2, <1>3

-----------------------------------------------------------------------------
(* The invariant *)

Clearing == {"clearCompany", "clearFacts"}

(* Clock, commits and replica: the replica lags by no more than MaxLag. *)
World ==
  /\ now \in 0 .. MaxTime /\ log \in Seq(Commits) /\ applied \in 0 .. Len(log)
  /\ skippedUntil \in Nat /\ key \in Keys /\ faults \in 0 .. MaxFaults
  /\ \A i \in 1 .. Len(log) : log[i].at <= now
  /\ \A i \in (applied + 1) .. Len(log) : now <= log[i].at + MaxLag

(* What was seen of a kind shows every commit more than lag older than a time. *)
Shows(seen, kind, since, lag) ==
  \A i \in 1 .. Len(log) : log[i].kind = kind /\ log[i].at + lag < since => i <= seen[kind]

(* A process at x with local variables m: what a request has read is recent
   enough for the time it began, and all there was if readDb missed the company. *)
Fine(p, x, m) ==
  /\ x \in PCs /\ m \in Local /\ m.began <= now
  /\ \A kind \in Kinds : m.seen[kind] <= Len(log)
  /\ x \in Clearing => m.commit \in 1 .. Len(log)
  /\ key = "facts" /\ m.missedReplica => m.db = "pool"
  /\ p \in Requests /\ x # "idle" => now <= m.began + MaxSlow
  /\ x \in {"facts", "store"} => Shows(m.seen, "company", m.began, MaxLag)
  /\ x = "store" /\ key # "company" => Shows(m.seen, "facts", m.began, MaxLag)
  /\ x = "store" /\ key = "facts" /\ m.missedReplica => Shows(m.seen, "facts", m.began, 0)

Running ==
  /\ pc \in [Processes -> PCs] /\ req \in [Processes -> Local]
  /\ \A p \in Processes : Fine(p, pc[p], req[p])

(* An entry shows what was old enough for the request that stored it. *)
EntryFine(e) ==
  /\ e.seen \in [Kinds -> 0 .. Len(log)]
  /\ e.stored \in Nat /\ e.stored <= now /\ now < e.stored + TTL
  /\ \A kind \in Needs(key) : Shows(e.seen, kind, e.stored, MaxLag + MaxSlow)

TimerFine(t) ==
  /\ t \in [commit : 1 .. Len(log), due : Nat, owner : Writers \cup {"api"}]
  /\ log[t.commit].at + Repeat <= t.due

(* Every deletion is still owed until Repeat after its commit, or missed. *)
Settled(i) == Owed(i) \/ i \in missed

Deletions ==
  /\ missed \subseteq 1 .. Len(log)
  /\ \A t \in timers : TimerFine(t)
  /\ \A i \in 1 .. Len(log) :
       key \in Clears(log[i].kind) /\ now < log[i].at + Repeat => Settled(i)

Inv ==
  /\ World /\ Running /\ Deletions
  /\ \A e \in entry : EntryFine(e)
  /\ NothingStaleOutlivesTheRepeat

-----------------------------------------------------------------------------
(* Lemmas *)

LEMMA Times ==
  /\ TTL \in Nat /\ Repeat \in Nat /\ Cooldown \in Nat /\ MaxLag \in Nat /\ MaxSlow \in Nat
  /\ MaxTime \in Nat /\ MaxFaults \in Nat
  /\ Cached \subseteq Writers /\ Requests \cap Writers = {}
BY CacheAssumption

LEMMA KeyFacts ==
  /\ Kinds = {"company", "facts"}
  /\ \A k : Needs(k) \subseteq Kinds
  /\ Needs("company") = {"company"}
BY DEF Kinds, Needs

LEMMA WorldFacts ==
  ASSUME World
  PROVE  /\ now \in Nat /\ Len(log) \in Nat
         /\ \A i \in 1 .. Len(log) : log[i] \in Commits /\ log[i].kind \in Kinds /\ log[i].at \in Nat
<1>1. \A i \in 1 .. Len(log) : log[i] \in Commits
  BY DEF World
<1>2. \A c \in Commits : c.kind \in Kinds /\ c.at \in Nat
  BY Times DEF Commits
<1>3. QED
  BY <1>1, <1>2, Times DEF World

(* What a query shows: all there is, or all the replica must have by now. *)
LEMMA QueryShows ==
  ASSUME World, NEW r, NEW kind \in Kinds, NEW since \in 0 .. now, NEW seen
  PROVE  LET found == Latest(kind, ReadFrom(r))
         IN /\ found \in 0 .. Len(log)
            /\ seen[kind] = found => Shows(seen, kind, since, MaxLag)
            /\ seen[kind] = found /\ req[r].db = "pool" => Shows(seen, kind, since, 0)
<1>1. ReadFrom(r) \in {Len(log), applied} /\ (req[r].db = "pool" => ReadFrom(r) = Len(log))
  BY DEF ReadFrom
<1>2. ReadFrom(r) \in 0 .. Len(log) /\ Len(log) \in Nat /\ applied \in Nat
  BY <1>1 DEF World
<1>3. /\ Latest(kind, ReadFrom(r)) \in 0 .. ReadFrom(r)
      /\ \A i \in 1 .. ReadFrom(r) : log[i].kind = kind => i <= Latest(kind, ReadFrom(r))
  BY <1>2, LatestCommit DEF World
<1>4. ASSUME seen[kind] = Latest(kind, ReadFrom(r)) PROVE Shows(seen, kind, since, MaxLag)
  <2>1. ASSUME NEW i \in 1 .. Len(log), log[i].at + MaxLag < since PROVE i \in 1 .. ReadFrom(r)
    <3>1. log[i].at \in Nat /\ now \in Nat
      BY WorldFacts
    <3>2. ~ (i \in (applied + 1) .. Len(log))
      BY <2>1, <3>1, Times DEF World
    <3>3. QED
      BY <1>1, <1>2, <2>1, <3>2
  <2>2. QED
    BY <1>3, <1>4, <2>1 DEF Shows
<1>5. ASSUME seen[kind] = Latest(kind, ReadFrom(r)), req[r].db = "pool"
      PROVE  Shows(seen, kind, since, 0)
  BY <1>1, <1>3, <1>5 DEF Shows
<1>6. QED
  BY <1>2, <1>3, <1>4, <1>5

(* A commit made now is not one anything seen before had to show. *)
LEMMA StillShows ==
  ASSUME World, NEW kind \in Kinds, NEW c \in Commits, c.at = now, log' = Append(log, c),
         NEW seen, NEW since \in 0 .. now, NEW lag \in Nat, Shows(seen, kind, since, lag)
  PROVE  Shows(seen, kind, since, lag)'
<1>1. /\ Len(log) \in Nat /\ Len(log') = Len(log) + 1 /\ log'[Len(log) + 1] = c
      /\ \A i \in 1 .. Len(log) : log'[i] = log[i]
  BY DEF World
<1>2. now \in Nat
  BY Times DEF World
<1>3. QED
  BY <1>1, <1>2 DEF Shows

LEMMA FineStays ==
  ASSUME World, NEW p, NEW x, NEW m, Fine(p, x, m), key' = key, now' = now, log' = log
  PROVE  Fine(p, x, m)'
BY DEF Fine, Shows

LEMMA FineAfterCommit ==
  ASSUME World, NEW p, NEW x, NEW m, Fine(p, x, m), key' = key, now' = now,
         NEW c \in Commits, c.at = now, log' = Append(log, c)
  PROVE  Fine(p, x, m)'
<1>1. Len(log) \in Nat /\ Len(log') = Len(log) + 1
  BY DEF World
<1>2. m \in Local /\ m.began \in 0 .. now /\ m.seen \in Seen /\ m.commit \in Nat
  BY DEF Fine, Local
<1>3. \A kind \in Kinds, lag \in {0, MaxLag} :
        Shows(m.seen, kind, m.began, lag) => Shows(m.seen, kind, m.began, lag)'
  BY <1>2, Times, StillShows
<1>4. "company" \in Kinds /\ "facts" \in Kinds
  BY DEF Kinds
<1>5. \A kind \in Kinds : m.seen[kind] \in Nat
  BY <1>2 DEF Seen
<1>6. /\ x \in {"facts", "store"} => Shows(m.seen, "company", m.began, MaxLag)'
      /\ x = "store" /\ key # "company" => Shows(m.seen, "facts", m.began, MaxLag)'
      /\ x = "store" /\ key = "facts" /\ m.missedReplica => Shows(m.seen, "facts", m.began, 0)'
  BY <1>3, <1>4 DEF Fine
<1>7. \A kind \in Kinds : m.seen[kind] <= Len(log')
  BY <1>1, <1>5 DEF Fine
<1>8. x \in Clearing => m.commit \in 1 .. Len(log')
  BY <1>1 DEF Fine
<1>9. QED
  BY <1>6, <1>7, <1>8 DEF Fine

(* What is owed stays owed, unless it is missed. *)
LEMMA StaysSettled ==
  ASSUME NEW i, Settled(i), missed \subseteq missed',
         \A t \in timers : t.commit = i => t \in timers' \/ i \in missed',
         \A q \in Processes : pc[q] \in Clearing /\ req[q].commit = i =>
           \/ pc'[q] \in Clearing /\ req'[q].commit = i
           \/ i \in missed'
           \/ \E t \in timers' : t.commit = i
  PROVE  Settled(i)'
BY DEF Settled, Owed, Clearing

(* Entries and obligations in a step that leaves the log and the clock alone. *)
LEMMA StorageStays ==
  ASSUME Inv, key' = key, now' = now, log' = log, missed' \subseteq 1 .. Len(log),
         \A i \in 1 .. Len(log) :
           \/ Settled(i) => Settled(i)'
           \/ key \notin Clears(log[i].kind)
           \/ now >= log[i].at + Repeat /\ entry' = {},
         \A t \in timers' : TimerFine(t),
         \A e \in entry' : e \in entry \/ (EntryFine(e) /\ e.stored = now)
  PROVE  Deletions' /\ (\A e \in entry' : EntryFine(e)') /\ NothingStaleOutlivesTheRepeat'
<1>1. \A e : EntryFine(e) => EntryFine(e)'
  BY DEF EntryFine, Shows
<1>2. \A t : TimerFine(t) => TimerFine(t)'
  BY DEF TimerFine
<1>3. Deletions'
  <2>1. ASSUME NEW i \in 1 .. Len(log), now < log[i].at + Repeat PROVE ~(now >= log[i].at + Repeat)
    <3>1. now \in Nat /\ log[i].at \in Nat /\ Repeat \in Nat
      BY <2>1, WorldFacts, Times DEF Inv
    <3>2. QED
      BY <2>1, <3>1
  <2>2. QED
    BY <1>2, <2>1 DEF Inv, Deletions
<1>4. \A e \in entry' : EntryFine(e)'
  BY <1>1 DEF Inv
<1>5. ASSUME NEW i \in 1 .. Len(log), NEW e \in entry', Lacks(e, i),
             key \in Clears(log[i].kind), e.stored < log[i].at + Repeat
      PROVE  Settled(i)'
  <2>1. Settled(i)
    BY <1>5 DEF Inv, Deletions, NothingStaleOutlivesTheRepeat, Settled
  <2>2. QED
    BY <1>5, <2>1
<1>6. \A e, i : Lacks(e, i)' <=> Lacks(e, i)
  BY DEF Lacks
<1>7. NothingStaleOutlivesTheRepeat'
  BY <1>5, <1>6 DEF NothingStaleOutlivesTheRepeat, Settled
<1>8. QED
  BY <1>3, <1>4, <1>7

LEMMA WorldStays ==
  ASSUME World, key' = key, now' = now, log' = log, applied' = applied,
         skippedUntil' \in Nat, faults' \in 0 .. MaxFaults
  PROVE  World'
BY DEF World

(* A process moves on, deleting nothing: its new place and variables are fine,
   and what it stores is. *)
LEMMA OneMoves ==
  ASSUME Inv, NEW p \in Processes, NEW x, NEW m, Fine(p, x, m),
         pc[p] \notin Clearing, x \notin Clearing,
         pc' = [pc EXCEPT ![p] = x], req' = [req EXCEPT ![p] = m],
         skippedUntil' \in Nat, faults' \in 0 .. MaxFaults,
         \A e \in entry' : e \in entry \/ (EntryFine(e) /\ e.stored = now),
         UNCHANGED <<key, now, log, applied, timers, missed>>
  PROVE  Inv'
<1>1. World'
  BY WorldStays DEF Inv
<1>2. Running'
  <2>1. x \in PCs /\ m \in Local
    BY DEF Fine
  <2>2. ASSUME NEW q \in Processes PROVE Fine(q, pc[q], req[q])'
    <3>1. PICK y, n : y = pc'[q] /\ n = req'[q]
      OBVIOUS
    <3>2. Fine(q, y, n)
      <4>1. (q = p => y = x /\ n = m) /\ (q # p => y = pc[q] /\ n = req[q])
        BY <3>1 DEF Inv, Running
      <4>2. QED
        BY <4>1 DEF Inv, Running
    <3>3. Fine(q, y, n)'
      BY <3>2, FineStays DEF Inv
    <3>4. QED
      BY <3>1, <3>3
  <2>3. QED
    BY <2>1, <2>2 DEF Inv, Running
<1>3. ASSUME NEW i, Settled(i) PROVE Settled(i)'
  BY <1>3, StaysSettled DEF Inv, Running
<1>4. QED
  BY <1>1, <1>2, <1>3, StorageStays DEF Inv, Deletions

-----------------------------------------------------------------------------
(* Steps of one process *)

LEMMA ProcessFacts ==
  ASSUME Inv, NEW p \in Processes
  PROVE  /\ Fine(p, pc[p], req[p]) /\ req[p] \in Local
         /\ skippedUntil \in Nat /\ faults \in Nat /\ faults <= MaxFaults
BY Times DEF Inv, Running, World

LEMMA BlankIsFine ==
  ASSUME Inv, NEW p \in Processes
  PROVE  /\ Fine(p, "idle", Blank)
         /\ Fine(p, "company", [Blank EXCEPT !.began = now])
<1>1. /\ Blank \in Local /\ Blank.began = 0 /\ Blank.missedReplica = FALSE
      /\ \A kind \in Kinds : Blank.seen[kind] = 0
      /\ [Blank EXCEPT !.began = now] \in Local
      /\ [Blank EXCEPT !.began = now].began = now
      /\ [Blank EXCEPT !.began = now].missedReplica = FALSE
      /\ \A kind \in Kinds : [Blank EXCEPT !.began = now].seen[kind] = 0
  BY WorldFacts DEF Inv, Blank, Local, Nothing, Seen
<1>2. Len(log) \in Nat /\ now \in Nat /\ now <= now + MaxSlow
  BY WorldFacts, Times DEF Inv
<1>3. {"idle", "company"} \cap {"facts", "store", "clearCompany", "clearFacts"} = {}
      /\ {"idle", "company"} \subseteq PCs
  BY DEF PCs, Reading
<1> HIDE DEF Blank
<1>4. QED
  BY <1>1, <1>2, <1>3 DEF Fine, Clearing

(* A company row read: everything but what is seen of the companies stays. *)
LEMMA FoundFacts ==
  ASSUME Inv, NEW r \in Requests
  PROVE  LET m == Found(r)
         IN /\ m \in Local /\ m.seen["company"] = CompanyRow(r)
            /\ CompanyRow(r) \in 0 .. Len(log)
            /\ m.db = req[r].db /\ m.missedReplica = req[r].missedReplica
            /\ m.began = req[r].began /\ m.commit = req[r].commit
            /\ m.seen["facts"] = req[r].seen["facts"]
            /\ Shows(m.seen, "company", m.began, MaxLag)
<1>1. req[r] \in Local /\ Fine(r, pc[r], req[r])
  BY ProcessFacts DEF Processes
<1>2. "company" \in Kinds /\ req[r].began \in 0 .. now
  BY <1>1, WorldFacts DEF Inv, Kinds, Fine, Local
<1>3. CompanyRow(r) \in 0 .. Len(log) /\ Len(log) \in Nat
  BY <1>2, QueryShows, WorldFacts DEF Inv, CompanyRow
<1>4. \A row \in Nat :
        LET m == [req[r] EXCEPT !.seen["company"] = row, !.retry = FALSE]
        IN /\ m \in Local /\ m.seen["company"] = row
           /\ m.db = req[r].db /\ m.missedReplica = req[r].missedReplica
           /\ m.began = req[r].began /\ m.commit = req[r].commit
           /\ m.seen["facts"] = req[r].seen["facts"]
  BY <1>1 DEF Local, Seen, Kinds
<1>5. CompanyRow(r) \in Nat
  BY <1>3
<1> DEFINE m == Found(r)
<1>6. /\ m \in Local /\ m.seen["company"] = CompanyRow(r)
      /\ m.db = req[r].db /\ m.missedReplica = req[r].missedReplica
      /\ m.began = req[r].began /\ m.commit = req[r].commit
      /\ m.seen["facts"] = req[r].seen["facts"]
  BY <1>4, <1>5 DEF Found
<1> HIDE DEF m
<1>7. Shows(m.seen, "company", req[r].began, MaxLag)
  BY <1>2, <1>6, QueryShows DEF Inv, CompanyRow
<1>8. QED
  BY <1>3, <1>6, <1>7 DEF m

(* The facts read. *)
Body(r) == [req[r].seen EXCEPT !["facts"] = Latest("facts", ReadFrom(r))]
Served(r) == [req[r] EXCEPT !.seen = Body(r), !.retry = FALSE]

LEMMA BodyFacts ==
  ASSUME Inv, NEW r \in Requests, pc[r] = "facts"
  PROVE  Fine(r, "store", Served(r)) /\ Served(r).seen = Body(r) /\ Served(r).began = req[r].began
<1>1. req[r] \in Local /\ Fine(r, "facts", req[r])
  BY ProcessFacts DEF Processes
<1>2. "facts" \in Kinds /\ req[r].began \in 0 .. now /\ req[r].seen \in Seen
  BY <1>1, WorldFacts DEF Inv, Kinds, Fine, Local
<1> DEFINE row == Latest("facts", ReadFrom(r))
<1>3. row \in 0 .. Len(log) /\ Len(log) \in Nat
  BY <1>2, QueryShows, WorldFacts DEF Inv
<1>4. /\ Body(r) \in Seen /\ Body(r)["facts"] = row
      /\ Body(r)["company"] = req[r].seen["company"]
  BY <1>2, <1>3 DEF Body, Seen, Kinds
<1>5. /\ Shows(Body(r), "facts", req[r].began, MaxLag)
      /\ req[r].db = "pool" => Shows(Body(r), "facts", req[r].began, 0)
  BY <1>2, <1>4, QueryShows DEF Inv
<1>6. \A b \in Seen : LET m == [req[r] EXCEPT !.seen = b, !.retry = FALSE]
                      IN /\ m \in Local /\ m.seen = b /\ m.began = req[r].began
                         /\ m.db = req[r].db /\ m.missedReplica = req[r].missedReplica
  BY <1>1 DEF Local
<1> DEFINE m == Served(r)
<1>7. /\ m \in Local /\ m.seen = Body(r) /\ m.began = req[r].began
      /\ m.db = req[r].db /\ m.missedReplica = req[r].missedReplica
  BY <1>4, <1>6 DEF Served
<1> HIDE DEF m, row
<1>8. Shows(m.seen, "company", m.began, MaxLag)
  BY <1>1, <1>4, <1>7 DEF Fine, Shows
<1>9. \A kind \in Kinds : m.seen[kind] <= Len(log)
  BY <1>1, <1>3, <1>4, <1>7 DEF Fine, Kinds
<1>10. "store" \in PCs /\ "store" \notin Clearing
  BY DEF PCs, Clearing
<1>11. /\ key = "facts" /\ m.missedReplica => m.db = "pool"
       /\ now <= m.began + MaxSlow /\ m.began <= now
  BY <1>1, <1>7 DEF Fine
<1>12. Fine(r, "store", m)
  BY <1>5, <1>7, <1>8, <1>9, <1>10, <1>11 DEF Fine
<1>13. QED
  BY <1>7, <1>12 DEF m

LEMMA MissStep == ASSUME Inv, NEW r \in Requests, Miss(r) PROVE Inv'
<1>1. r \in Processes /\ pc[r] = "idle" /\ faults' \in 0 .. MaxFaults
  BY ProcessFacts, Times DEF Miss, Processes, Inv, World
<1>2. Fine(r, "company", [Blank EXCEPT !.began = now])
  BY <1>1, BlankIsFine
<1>3. "idle" \notin Clearing /\ "company" \notin Clearing
  BY DEF Clearing
<1>4. QED
  BY <1>1, <1>2, <1>3, OneMoves, ProcessFacts DEF Miss

LEMMA FailStep == ASSUME Inv, NEW p \in Processes, Fail(p) PROVE Inv'
<1>1. faults' \in 0 .. MaxFaults
  BY ProcessFacts, Times DEF Fail
<1>2. "idle" \notin Clearing /\ pc[p] \notin Clearing
  BY DEF Clearing, Fail, Reading
<1>3. QED
  BY <1>1, <1>2, OneMoves, BlankIsFine, ProcessFacts DEF Fail

LEMMA BeginStep == ASSUME Inv, NEW w \in Writers, Begin(w) PROVE Inv'
<1>1. w \in Processes /\ w \notin Requests
  BY Times DEF Processes
<1>2. PICK x \in {"fetch", "storeFacts"} : pc' = [pc EXCEPT ![w] = x]
  BY DEF Begin
<1>3. x \in PCs \ Clearing /\ x \notin {"facts", "store"} /\ "idle" \notin Clearing
  BY DEF PCs, Clearing, Reading
<1>4. Fine(w, x, req[w])
  BY <1>1, <1>3, ProcessFacts DEF Fine
<1>5. req' = [req EXCEPT ![w] = req[w]] /\ pc[w] = "idle"
  BY <1>1 DEF Begin, Inv, Running
<1>6. QED
  BY <1>1, <1>2, <1>3, <1>4, <1>5, OneMoves, ProcessFacts DEF Begin, Inv, World

LEMMA ReplicaFailsStep == ASSUME Inv, NEW r \in Requests, ReplicaFails(r) PROVE Inv'
<1>1. r \in Processes /\ faults' \in 0 .. MaxFaults /\ skippedUntil' \in Nat
  BY ProcessFacts, WorldFacts, Times DEF ReplicaFails, Processes, Inv
<1> DEFINE m == [req[r] EXCEPT !.retry = TRUE]
<1>2. /\ m \in Local /\ m.seen = req[r].seen /\ m.began = req[r].began /\ m.commit = req[r].commit
      /\ m.db = req[r].db /\ m.missedReplica = req[r].missedReplica
  BY <1>1, ProcessFacts DEF Local
<1>3. req' = [req EXCEPT ![r] = m] /\ pc' = [pc EXCEPT ![r] = pc[r]]
  BY <1>1 DEF ReplicaFails, Inv, Running
<1> HIDE DEF m
<1>4. Fine(r, pc[r], m)
  BY <1>1, <1>2, ProcessFacts DEF Fine
<1>5. pc[r] \notin Clearing
  BY DEF Clearing, Reading, ReplicaFails
<1>6. QED
  BY <1>1, <1>3, <1>4, <1>5, OneMoves DEF ReplicaFails

LEMMA ReadCompanyStep == ASSUME Inv, NEW r \in Requests, ReadCompany(r) PROVE Inv'
<1>1. /\ r \in Processes /\ pc[r] = "company" /\ Fine(r, "company", req[r])
      /\ skippedUntil' \in Nat /\ faults' \in 0 .. MaxFaults
  BY ProcessFacts DEF ReadCompany, Processes, Inv, World
<1>2. /\ "company" \notin Clearing
      /\ {"facts", "store", "fetch", "idle", "company"} \subseteq PCs \ Clearing
  BY DEF PCs, Clearing, Reading
<1> DEFINE f == Found(r)
<1>3. /\ f \in Local /\ f.seen["company"] = CompanyRow(r)
      /\ CompanyRow(r) \in 0 .. Len(log)
      /\ f.db = req[r].db /\ f.missedReplica = req[r].missedReplica
      /\ f.began = req[r].began /\ f.commit = req[r].commit
      /\ f.seen["facts"] = req[r].seen["facts"]
      /\ Shows(f.seen, "company", f.began, MaxLag)
  BY FoundFacts
<1> HIDE DEF f
<1>4. /\ f.began <= now /\ now <= f.began + MaxSlow
      /\ key = "facts" /\ f.missedReplica => f.db = "pool"
      /\ \A kind \in Kinds : f.seen[kind] <= Len(log)
  BY <1>1, <1>3 DEF Fine, Kinds
<1>5. CASE GoOnToFacts(r)
  <2> DEFINE m == [f EXCEPT !.db = FactsDb(r)]
  <2>1. pc' = [pc EXCEPT ![r] = "facts"] /\ req' = [req EXCEPT ![r] = m]
    BY <1>5 DEF GoOnToFacts, f
  <2>2. FactsDb(r) \in {"readDb", "pool"} /\ (key = "facts" => FactsDb(r) = f.db)
    BY <1>3 DEF FactsDb, Local
  <2>3. /\ m \in Local /\ m.seen = f.seen /\ m.began = f.began /\ m.commit = f.commit
        /\ m.missedReplica = f.missedReplica /\ m.db = FactsDb(r)
    BY <1>3, <2>2 DEF Local
  <2> HIDE DEF m
  <2>4. Fine(r, "facts", m)
    BY <1>2, <1>3, <1>4, <2>2, <2>3 DEF Fine
  <2>5. QED
    BY <1>1, <1>2, <2>1, <2>4, OneMoves DEF ReadCompany
<1>6. CASE AskPrimary(r)
  <2> DEFINE m == [f EXCEPT !.db = "pool", !.missedReplica = TRUE]
  <2>1. pc' = [pc EXCEPT ![r] = "company"] /\ req' = [req EXCEPT ![r] = m]
    BY <1>1, <1>6 DEF AskPrimary, f, Inv, Running
  <2>2. /\ m \in Local /\ m.seen = f.seen /\ m.began = f.began /\ m.commit = f.commit
        /\ m.db = "pool"
    BY <1>3 DEF Local
  <2> HIDE DEF m
  <2>3. Fine(r, "company", m)
    BY <1>2, <1>4, <2>2 DEF Fine
  <2>4. QED
    BY <1>1, <1>2, <2>1, <2>3, OneMoves DEF ReadCompany
<1>7. CASE key = "company" /\ pc' = [pc EXCEPT ![r] = "store"] /\ req' = [req EXCEPT ![r] = Found(r)]
  <2>1. Fine(r, "store", f)
    BY <1>2, <1>3, <1>4, <1>7 DEF Fine
  <2>2. QED
    BY <1>1, <1>2, <1>7, <2>1, OneMoves DEF ReadCompany, f
<1>8. CASE pc' = [pc EXCEPT ![r] = "fetch"] /\ req' = req
  <2>1. Fine(r, "fetch", req[r])
    BY <1>1, <1>2 DEF Fine
  <2>2. req' = [req EXCEPT ![r] = req[r]]
    BY <1>1, <1>8 DEF Inv, Running
  <2>3. QED
    BY <1>1, <1>2, <1>8, <2>1, <2>2, OneMoves DEF ReadCompany
<1>9. CASE pc' = [pc EXCEPT ![r] = "idle"] /\ req' = [req EXCEPT ![r] = Blank]
  BY <1>1, <1>2, <1>9, BlankIsFine, OneMoves DEF ReadCompany
<1>10. QED
  BY <1>5, <1>6, <1>7, <1>8, <1>9 DEF ReadCompany, ReadIndustries, GetOrFetch, FindStored

LEMMA ReadFactsStep == ASSUME Inv, NEW r \in Requests, ReadFacts(r) PROVE Inv'
<1>1. /\ r \in Processes /\ pc[r] = "facts" /\ skippedUntil' \in Nat /\ faults' \in 0 .. MaxFaults
      /\ "facts" \notin Clearing /\ "store" \notin Clearing
  BY ProcessFacts DEF ReadFacts, Processes, Inv, World, Clearing
<1>2. pc' = [pc EXCEPT ![r] = "store"] /\ req' = [req EXCEPT ![r] = Served(r)]
  BY DEF ReadFacts, Served, Body
<1>3. QED
  BY <1>1, <1>2, BodyFacts, OneMoves DEF ReadFacts

(* What a request is about to store shows what is MaxLag + MaxSlow old. *)
LEMMA StoredIsFine ==
  ASSUME Inv, NEW r \in Requests, pc[r] = "store", TTL > 0
  PROVE  LET e == [seen |-> req[r].seen, stored |-> now] IN EntryFine(e) /\ e.stored = now
<1>1. Fine(r, "store", req[r])
  BY ProcessFacts DEF Processes
<1>2. req[r].seen \in [Kinds -> 0 .. Len(log)] /\ req[r].began \in Nat
  BY <1>1, WorldFacts DEF Fine, Local, Seen, Inv
<1>3. \A kind \in Needs(key) : Shows(req[r].seen, kind, req[r].began, MaxLag)
  BY <1>1 DEF Fine, Needs, Kinds
<1>4. now \in Nat /\ now <= req[r].began + MaxSlow
  BY <1>1, WorldFacts DEF Fine, Inv
<1>5. \A kind \in Needs(key) : Shows(req[r].seen, kind, now, MaxLag + MaxSlow)
  <2>1. ASSUME NEW i \in 1 .. Len(log), log[i].at + (MaxLag + MaxSlow) < now
        PROVE  log[i].at + MaxLag < req[r].began
    <3>1. log[i].at \in Nat
      BY <2>1, WorldFacts DEF Inv
    <3>2. MaxLag \in Nat /\ MaxSlow \in Nat
      BY Times
    <3>3. QED
      BY <1>2, <1>4, <2>1, <3>1, <3>2
  <2>2. QED
    BY <1>3, <2>1 DEF Shows
<1>6. now < now + TTL
  BY <1>4, Times
<1>7. QED
  BY <1>2, <1>4, <1>5, <1>6 DEF EntryFine

LEMMA StoreBodyStep == ASSUME Inv, TTL > 0, NEW r \in Requests, StoreBody(r) PROVE Inv'
<1>1. /\ r \in Processes /\ pc[r] = "store" /\ skippedUntil' \in Nat /\ faults' \in 0 .. MaxFaults
      /\ "store" \notin Clearing /\ "idle" \notin Clearing
  BY ProcessFacts, Times DEF StoreBody, Processes, Inv, World, Clearing
<1>2. \A e \in entry' : e \in entry \/ (EntryFine(e) /\ e.stored = now)
  BY <1>1, StoredIsFine DEF StoreBody
<1>3. QED
  BY <1>1, <1>2, BlankIsFine, OneMoves DEF StoreBody

LEMMA HitStep == ASSUME Inv, NEW r \in Requests, Hit(r) PROVE Inv'
BY DEF Hit, Inv, World, Running, Fine, Shows, Deletions, TimerFine, EntryFine, Settled, Owed,
       NothingStaleOutlivesTheRepeat, Lacks

-----------------------------------------------------------------------------
(* Commits and deletions *)

LEMMA CommitStep ==
  ASSUME Inv, NEW p \in Processes, NEW kind \in Kinds, NEW next, Commit(p, kind, next),
         pc[p] \notin Clearing \cup {"idle"}, next \in PCs \ {"facts", "store"},
         HasCache(p) => next \in Clearing, next \in Clearing => HasCache(p)
  PROVE  Inv'
<1> DEFINE c == [kind |-> kind, at |-> now]
           n == IF HasCache(p) THEN Len(log') ELSE 0
           m == [req[p] EXCEPT !.commit = n]
<1>1. c \in Commits /\ c.at = now /\ c.kind = kind /\ log' = Append(log, c)
  BY DEF Commits, Commit, Inv, World
<1> HIDE DEF c
<1>2. /\ Len(log) \in Nat /\ now \in Nat /\ log' \in Seq(Commits) /\ Len(log') = Len(log) + 1
      /\ log'[Len(log) + 1] = c /\ \A i \in 1 .. Len(log) : log'[i] = log[i]
      /\ \A i \in 1 .. Len(log') : i \in 1 .. Len(log) \/ i = Len(log')
  BY <1>1, WorldFacts DEF Inv, World
<1>3. /\ pc' = [pc EXCEPT ![p] = next] /\ req' = [req EXCEPT ![p] = m]
      /\ missed' = missed \cup (IF HasCache(p) THEN {} ELSE {Len(log')})
      /\ UNCHANGED <<key, now, applied, skippedUntil, entry, timers, faults>>
  BY DEF Commit
<1>4. /\ m \in Local /\ m.commit = n /\ m.seen = req[p].seen /\ m.began = req[p].began
      /\ m.db = req[p].db /\ m.missedReplica = req[p].missedReplica
  <2>1. req[p] \in Local /\ n \in Nat
    BY <1>2, ProcessFacts
  <2> HIDE DEF n
  <2>2. QED
    BY <2>1 DEF Local
<1>5. n = (IF HasCache(p) THEN Len(log') ELSE 0)
  OBVIOUS
<1> HIDE DEF m, n
<1>6. World'
  <2>1. ASSUME NEW i \in (applied + 1) .. Len(log') PROVE now <= log'[i].at + MaxLag
    <3>1. applied \in Nat
      BY <1>2 DEF Inv, World
    <3>2. CASE i \in (applied + 1) .. Len(log)
      BY <1>2, <3>1, <3>2 DEF Inv, World
    <3>3. CASE i = Len(log')
      BY <1>1, <1>2, <3>3, Times
    <3>4. QED
      BY <1>2, <3>1, <3>2, <3>3
  <2>2. ASSUME NEW i \in 1 .. Len(log') PROVE log'[i].at <= now
    BY <1>1, <1>2 DEF Inv, World
  <2>3. applied \in 0 .. Len(log')
    BY <1>2 DEF Inv, World
  <2>4. QED
    BY <1>2, <1>3, <2>1, <2>2, <2>3 DEF Inv, World
<1>7. Running'
  <2>1. ASSUME NEW q \in Processes PROVE Fine(q, pc[q], req[q])'
    <3>1. PICK y, l : y = pc'[q] /\ l = req'[q]
      OBVIOUS
    <3>2. Fine(q, pc[q], req[q])'
      <4>1. CASE q # p
        <5>1. y = pc[q] /\ l = req[q]
          BY <1>3, <3>1, <4>1 DEF Inv, Running
        <5>2. Fine(q, y, l)
          BY <5>1 DEF Inv, Running
        <5>3. Fine(q, y, l)'
          BY <1>1, <1>3, <5>2, FineAfterCommit DEF Inv
        <5>4. QED
          BY <3>1, <5>3
      <4>2. CASE q = p
        <5>1. y = next /\ l = m
          BY <1>3, <3>1, <4>2 DEF Inv, Running
        <5>2. Fine(p, pc[p], req[p])
          BY DEF Inv, Running
        <5>3. PICK x, k : x = pc[p] /\ k = req[p]
          OBVIOUS
        <5>4. Fine(p, x, k)'
          BY <1>1, <1>3, <5>2, <5>3, FineAfterCommit DEF Inv
        <5>5. next \in Clearing => n \in 1 .. Len(log')
          BY <1>2, <1>5
        <5>6. Fine(p, y, l)'
          BY <1>4, <5>1, <5>3, <5>4, <5>5 DEF Fine, Clearing
        <5>7. QED
          BY <3>1, <4>2, <5>6
      <4>3. QED
        BY <4>1, <4>2
    <3>3. QED
      BY <3>2
  <2>2. QED
    BY <1>3, <1>4, <2>1 DEF Inv, Running
<1>8. ASSUME NEW i, Settled(i) PROVE Settled(i)'
  BY <1>3, <1>8, StaysSettled DEF Inv, Running
<1>9. ASSUME NEW i, i = Len(log') PROVE Settled(i)'
  <2>1. pc'[p] = next /\ req'[p].commit = n
    BY <1>3, <1>4 DEF Inv, Running
  <2>2. QED
    BY <1>3, <1>5, <1>9, <2>1 DEF Settled, Owed, Clearing
<1>10. Deletions'
  <2>1. missed' \subseteq 1 .. Len(log')
    <3>1. missed \subseteq 1 .. Len(log)
      BY DEF Inv, Deletions
    <3>2. 1 .. Len(log) \subseteq 1 .. Len(log') /\ Len(log') \in 1 .. Len(log')
      BY <1>2
    <3>3. QED
      BY <1>3, <3>1, <3>2
  <2>2. ASSUME NEW t \in timers' PROVE TimerFine(t)'
    <3>1. TimerFine(t)
      BY <1>3 DEF Inv, Deletions
    <3>2. t.commit \in 1 .. Len(log) /\ 1 .. Len(log) \subseteq 1 .. Len(log')
      BY <1>2, <3>1 DEF TimerFine
    <3>3. log'[t.commit] = log[t.commit]
      BY <1>2, <3>2
    <3>4. QED
      BY <3>1, <3>2, <3>3 DEF TimerFine
  <2>3. ASSUME NEW i \in 1 .. Len(log'), key \in Clears(log'[i].kind), now < log'[i].at + Repeat
        PROVE  Settled(i)'
    BY <1>2, <1>8, <1>9, <2>3 DEF Inv, Deletions
  <2>4. QED
    BY <1>3, <2>1, <2>2, <2>3 DEF Deletions
<1>11. ASSUME NEW e \in entry' PROVE EntryFine(e)'
  <2>1. EntryFine(e)
    BY <1>3 DEF Inv
  <2>2. e.stored \in 0 .. now /\ e.seen \in [Kinds -> 0 .. Len(log')]
    BY <1>2, <2>1 DEF EntryFine
  <2>3. ASSUME NEW k \in Needs(key) PROVE Shows(e.seen, k, e.stored, MaxLag + MaxSlow)'
    <3>1. k \in Kinds /\ MaxLag + MaxSlow \in Nat
      BY KeyFacts, Times
    <3>2. Shows(e.seen, k, e.stored, MaxLag + MaxSlow)
      BY <2>1 DEF EntryFine
    <3>3. PICK s, b : s = e.seen /\ b = e.stored
      OBVIOUS
    <3>4. Shows(s, k, b, MaxLag + MaxSlow)'
      BY <1>1, <2>2, <3>1, <3>2, <3>3, StillShows DEF Inv
    <3>5. QED
      BY <3>3, <3>4
  <2>4. QED
    BY <1>3, <2>1, <2>2, <2>3 DEF EntryFine
<1>12. NothingStaleOutlivesTheRepeat'
  <2>1. ASSUME NEW i \in 1 .. Len(log'), NEW e \in entry', Lacks(e, i)',
               key \in Clears(log'[i].kind), e.stored < log'[i].at + Repeat
        PROVE  Settled(i)'
    <3>1. CASE i \in 1 .. Len(log)
      <4>1. Lacks(e, i) /\ log'[i] = log[i]
        BY <1>2, <1>3, <2>1, <3>1 DEF Lacks
      <4>2. Settled(i)
        BY <1>3, <2>1, <3>1, <4>1 DEF Inv, NothingStaleOutlivesTheRepeat, Settled
      <4>3. QED
        BY <1>8, <4>2
    <3>2. QED
      BY <1>2, <1>9, <3>1
  <2>2. QED
    BY <1>3, <2>1 DEF NothingStaleOutlivesTheRepeat, Settled
<1>13. QED
  BY <1>6, <1>7, <1>10, <1>11, <1>12 DEF Inv

LEMMA UpsertStep ==
  ASSUME Inv, NEW p \in Processes, UpsertCompany(p) \/ UpsertFacts(p)
  PROVE  Inv'
<1>1. {"clearCompany", "storeFacts", "clearFacts", "idle"} \subseteq PCs \ {"facts", "store"}
      /\ {"fetch", "storeFacts"} \cap (Clearing \cup {"idle"}) = {}
      /\ Clearing = {"clearCompany", "clearFacts"} /\ {"storeFacts", "idle"} \cap Clearing = {}
      /\ Kinds = {"company", "facts"}
  BY DEF PCs, Clearing, Reading, Kinds
<1>2. CASE UpsertCompany(p)
  <2> DEFINE x == IF HasCache(p) THEN "clearCompany" ELSE "storeFacts"
  <2>1. Commit(p, "company", x) /\ pc[p] = "fetch"
    BY <1>2 DEF UpsertCompany
  <2>2. /\ x \in PCs \ {"facts", "store"} /\ (HasCache(p) <=> x \in Clearing)
        /\ pc[p] \notin Clearing \cup {"idle"} /\ "company" \in Kinds
    BY <1>1, <2>1
  <2> HIDE DEF x
  <2>3. QED
    BY <2>1, <2>2, CommitStep
<1>3. CASE UpsertFacts(p)
  <2> DEFINE x == IF HasCache(p) THEN "clearFacts" ELSE "idle"
  <2>1. Commit(p, "facts", x) /\ pc[p] = "storeFacts"
    BY <1>3 DEF UpsertFacts
  <2>2. /\ x \in PCs \ {"facts", "store"} /\ (HasCache(p) <=> x \in Clearing)
        /\ pc[p] \notin Clearing \cup {"idle"} /\ "facts" \in Kinds
    BY <1>1, <2>1
  <2> HIDE DEF x
  <2>3. QED
    BY <2>1, <2>2, CommitStep
<1>4. QED
  BY <1>2, <1>3

LEMMA RunningStays ==
  ASSUME Inv, UNCHANGED <<key, now, log, pc, req>>
  PROVE  Running'
<1>1. ASSUME NEW q \in Processes PROVE Fine(q, pc[q], req[q])'
  <2>1. PICK y, n : y = pc[q] /\ n = req[q]
    OBVIOUS
  <2>2. Fine(q, y, n)'
    BY <2>1, FineStays DEF Inv, Running
  <2>3. QED
    BY <2>1, <2>2
<1>2. QED
  BY <1>1 DEF Inv, Running

LEMMA ClearStep == ASSUME Inv, NEW p \in Processes, Clear(p) PROVE Inv'
<1> DEFINE x == IF pc[p] = "clearCompany" THEN "storeFacts"
                ELSE IF p \in Requests THEN "company" ELSE "idle"
           m == [req[p] EXCEPT !.commit = 0]
           t == [commit |-> req[p].commit, due |-> now + Repeat, owner |-> Owner(p)]
<1>1. /\ pc[p] \in Clearing /\ pc' = [pc EXCEPT ![p] = x] /\ req' = [req EXCEPT ![p] = m]
      /\ timers' = timers \cup {t} /\ faults' \in 0 .. MaxFaults /\ entry' \subseteq entry
      /\ UNCHANGED <<key, now, log, applied, skippedUntil, missed>>
  BY ProcessFacts, Times DEF Clear, Invalidate, GoOn, Clearing, Delete, Inv, World, Running
<1>2. Fine(p, pc[p], req[p]) /\ req[p] \in Local
  BY ProcessFacts
<1>3. /\ m \in Local /\ m.seen = req[p].seen /\ m.began = req[p].began
      /\ m.db = req[p].db /\ m.missedReplica = req[p].missedReplica
  BY <1>2 DEF Local
<1>4. x \in PCs /\ x \notin {"facts", "store"} /\ x \notin Clearing /\ pc[p] # "idle"
      /\ "idle" \notin Clearing
  BY <1>1 DEF PCs, Reading, Clearing
<1>5. t.commit = req[p].commit /\ t.due = now + Repeat /\ t.owner = Owner(p)
  OBVIOUS
<1>6. TimerFine(t)
  <2>1. req[p].commit \in 1 .. Len(log)
    BY <1>1, <1>2 DEF Fine
  <2>2. Owner(p) \in Writers \cup {"api"} /\ now + Repeat \in Nat
    BY WorldFacts, Times DEF Inv, Owner, Processes
  <2>3. log[req[p].commit].at + Repeat <= now + Repeat
    BY <2>1, WorldFacts, Times DEF Inv, World
  <2>4. QED
    BY <2>1, <2>2, <2>3 DEF TimerFine
<1> HIDE DEF x, m, t
<1>7. Fine(p, x, m)
  BY <1>2, <1>3, <1>4 DEF Fine
<1>8. World'
  BY <1>1, WorldStays DEF Inv, World
<1>9. Running'
  <2>1. ASSUME NEW q \in Processes PROVE Fine(q, pc[q], req[q])'
    <3>1. PICK y, n : y = pc'[q] /\ n = req'[q]
      OBVIOUS
    <3>2. Fine(q, y, n)
      <4>1. (q = p => y = x /\ n = m) /\ (q # p => y = pc[q] /\ n = req[q])
        BY <1>1, <3>1 DEF Inv, Running
      <4>2. QED
        BY <1>7, <4>1 DEF Inv, Running
    <3>3. Fine(q, y, n)'
      BY <1>1, <3>2, FineStays DEF Inv
    <3>4. QED
      BY <3>1, <3>3
  <2>2. QED
    BY <1>1, <1>3, <1>4, <2>1 DEF Inv, Running
<1>10. ASSUME NEW i, Settled(i) PROVE Settled(i)'
  <2>1. ASSUME NEW q \in Processes, pc[q] \in Clearing, req[q].commit = i
        PROVE  (pc'[q] \in Clearing /\ req'[q].commit = i) \/ \E u \in timers' : u.commit = i
    BY <1>1, <1>5, <2>1 DEF Inv, Running
  <2>2. QED
    BY <1>1, <1>10, <2>1, StaysSettled
<1>11. \A u \in timers' : TimerFine(u)
  BY <1>1, <1>6 DEF Inv, Deletions
<1>12. QED
  BY <1>1, <1>8, <1>9, <1>10, <1>11, StorageStays DEF Inv, Deletions

LEMMA SecondDeletionStep == ASSUME Inv, NEW t \in timers, SecondDeletion(t) PROVE Inv'
<1>1. /\ now = t.due /\ timers' = timers \ {t} /\ faults' \in 0 .. MaxFaults
      /\ UNCHANGED <<key, now, log, applied, skippedUntil, pc, req>>
      /\ \/ /\ entry' = (IF key \in Clears(log[t.commit].kind) THEN {} ELSE entry) /\ missed' = missed
         \/ missed' = missed \cup {t.commit} /\ entry' = entry
  BY Times DEF SecondDeletion, Delete, Inv, World
<1>2. TimerFine(t)
  BY DEF Inv, Deletions
<1>3. World' /\ Running'
  BY <1>1, WorldStays, RunningStays DEF Inv, World
<1>4. missed' \subseteq 1 .. Len(log) /\ \A u \in timers' : TimerFine(u)
  BY <1>1, <1>2 DEF Inv, Deletions, TimerFine
<1>5. ASSUME NEW i \in 1 .. Len(log)
      PROVE  \/ Settled(i) => Settled(i)'
             \/ key \notin Clears(log[i].kind)
             \/ now >= log[i].at + Repeat /\ entry' = {}
  <2>1. CASE i = t.commit /\ i \notin missed'
    <3>1. now >= log[i].at + Repeat
      BY <1>1, <1>2, <2>1, WorldFacts, Times DEF TimerFine, Inv
    <3>2. QED
      BY <1>1, <2>1, <3>1
  <2>2. CASE i # t.commit \/ i \in missed'
    BY <1>1, <2>2, StaysSettled
  <2>3. QED
    BY <2>1, <2>2
<1>6. \A e \in entry' : e \in entry
  BY <1>1
<1>7. QED
  BY <1>1, <1>3, <1>4, <1>5, <1>6, StorageStays DEF Inv

LEMMA CrashStep == ASSUME Inv, NEW owner \in Writers \cup {"api"}, Crash(owner) PROVE Inv'
<1> DEFINE dead == {p \in Processes : Owner(p) = owner}
           owing == {p \in dead : pc[p] \in Clearing}
           gone == {t \in timers : t.owner = owner}
<1>1. /\ pc' = [p \in Processes |-> IF p \in dead THEN "idle" ELSE pc[p]]
      /\ req' = [p \in Processes |-> IF p \in dead THEN Blank ELSE req[p]]
      /\ timers' = timers \ gone
      /\ missed' = missed \cup {req[p].commit : p \in owing} \cup {t.commit : t \in gone}
      /\ UNCHANGED <<key, now, log, applied, entry>>
      /\ skippedUntil' \in Nat /\ faults' \in 0 .. MaxFaults
  BY Times DEF Crash, Clearing, Inv, World
<1>2. World'
  BY <1>1, WorldStays DEF Inv
<1>3. Blank \in Local /\ "idle" \in PCs
  BY BlankIsFine DEF Blank, Local, Nothing, Seen, PCs
<1>4. Running'
  <2>1. ASSUME NEW q \in Processes PROVE Fine(q, pc[q], req[q])'
    <3>1. PICK y, n : y = pc'[q] /\ n = req'[q]
      OBVIOUS
    <3>2. Fine(q, y, n)
      <4>1. \/ y = "idle" /\ n = Blank
            \/ y = pc[q] /\ n = req[q]
        BY <1>1, <3>1
      <4>2. QED
        BY <4>1, BlankIsFine DEF Inv, Running
    <3>3. Fine(q, y, n)'
      BY <1>1, <3>2, FineStays DEF Inv
    <3>4. QED
      BY <3>1, <3>3
  <2>2. QED
    BY <1>1, <1>3, <2>1 DEF Inv, Running
<1>5. missed' \subseteq 1 .. Len(log)
  <2>1. \A p \in owing : req[p].commit \in 1 .. Len(log)
    BY ProcessFacts DEF Fine
  <2>2. \A t \in gone : t.commit \in 1 .. Len(log)
    BY DEF Inv, Deletions, TimerFine
  <2>3. QED
    BY <1>1, <2>1, <2>2 DEF Inv, Deletions
<1>6. ASSUME NEW i, Settled(i) PROVE Settled(i)'
  <2>1. ASSUME NEW t \in timers, t.commit = i PROVE t \in timers' \/ i \in missed'
    BY <1>1, <2>1
  <2>2. ASSUME NEW q \in Processes, pc[q] \in Clearing, req[q].commit = i
        PROVE  (pc'[q] \in Clearing /\ req'[q].commit = i) \/ i \in missed'
    BY <1>1, <2>2
  <2>3. QED
    BY <1>1, <1>6, <2>1, <2>2, StaysSettled
<1>7. \A t \in timers' : TimerFine(t)
  BY <1>1 DEF Inv, Deletions
<1>8. QED
  BY <1>1, <1>2, <1>4, <1>5, <1>6, <1>7, StorageStays DEF Inv

LEMMA ReplicateStep == ASSUME Inv, Replicate PROVE Inv'
<1>1. /\ applied' = applied + 1 /\ applied < Len(log)
      /\ UNCHANGED <<key, now, log, skippedUntil, entry, timers, pc, req, missed, faults>>
  BY DEF Replicate
<1>2. World'
  <2>1. applied' \in 0 .. Len(log)
    BY <1>1 DEF Inv, World
  <2>2. (applied' + 1) .. Len(log) \subseteq (applied + 1) .. Len(log)
    BY <1>1, WorldFacts DEF Inv, World
  <2>3. QED
    BY <1>1, <2>1, <2>2 DEF Inv, World
<1>3. Running'
  BY <1>1, RunningStays
<1>4. ASSUME NEW i, Settled(i) PROVE Settled(i)'
  BY <1>1, <1>4, StaysSettled
<1>5. QED
  BY <1>1, <1>2, <1>3, <1>4, StorageStays DEF Inv, Deletions

-----------------------------------------------------------------------------
(* Time *)

LEMMA TickStep == ASSUME Inv, Tick PROVE Inv'
<1>1. /\ now < MaxTime /\ now' = now + 1 /\ now \in Nat
      /\ \A i \in (applied + 1) .. Len(log) : now < log[i].at + MaxLag
      /\ \A r \in Requests : pc[r] # "idle" => now < req[r].began + MaxSlow
      /\ entry' = {e \in entry : now' < e.stored + TTL}
      /\ skippedUntil' \in Nat
      /\ UNCHANGED <<key, log, applied, timers, pc, req, missed, faults>>
  BY WorldFacts DEF Tick, Inv, World
<1>2. World'
  <2>1. now' \in 0 .. MaxTime
    BY <1>1, Times
  <2>2. \A i \in 1 .. Len(log) : log[i].at <= now'
    BY <1>1, WorldFacts DEF Inv, World
  <2>3. \A i \in (applied + 1) .. Len(log) : now' <= log[i].at + MaxLag
    <3>1. ASSUME NEW i \in (applied + 1) .. Len(log) PROVE now' <= log[i].at + MaxLag
      <4>1. i \in 1 .. Len(log)
        BY WorldFacts DEF Inv, World
      <4>2. now < log[i].at + MaxLag /\ log[i].at \in Nat
        BY <1>1, <4>1, WorldFacts DEF Inv
      <4>3. QED
        BY <1>1, <4>2, Times
    <3>2. QED
      BY <3>1
  <2>4. QED
    BY <1>1, <2>1, <2>2, <2>3 DEF Inv, World
<1>3. Running'
  <2>1. ASSUME NEW q \in Processes PROVE Fine(q, pc[q], req[q])'
    <3>1. Fine(q, pc[q], req[q]) /\ req[q].began \in Nat
      BY ProcessFacts DEF Local
    <3>2. PICK y, n : y = pc[q] /\ n = req[q]
      OBVIOUS
    <3>3. n.began <= now'
      BY <1>1, <3>1, <3>2 DEF Fine
    <3>4. q \in Requests /\ y # "idle" => now' <= n.began + MaxSlow
      BY <1>1, <3>1, <3>2, Times
    <3>5. Fine(q, y, n)'
      BY <1>1, <3>1, <3>2, <3>3, <3>4 DEF Fine, Shows
    <3>6. QED
      BY <1>1, <3>2, <3>5
  <2>2. QED
    BY <1>1, <2>1 DEF Inv, Running
<1>4. ASSUME NEW i, Settled(i) PROVE Settled(i)'
  BY <1>1, <1>4, StaysSettled
<1>5. Deletions'
  <2>1. \A t \in timers' : TimerFine(t)'
    BY <1>1 DEF Inv, Deletions, TimerFine
  <2>2. ASSUME NEW i \in 1 .. Len(log), now' < log[i].at + Repeat PROVE now < log[i].at + Repeat
    BY <1>1, <2>2, WorldFacts, Times DEF Inv
  <2>3. QED
    BY <1>1, <1>4, <2>1, <2>2 DEF Inv, Deletions
<1>6. ASSUME NEW e \in entry' PROVE EntryFine(e)'
  <2>1. EntryFine(e) /\ now' < e.stored + TTL
    BY <1>1 DEF Inv
  <2>2. e.stored <= now'
    BY <1>1, <2>1 DEF EntryFine
  <2>3. QED
    BY <1>1, <2>1, <2>2 DEF EntryFine, Shows
<1>7. NothingStaleOutlivesTheRepeat'
  <2>1. ASSUME NEW i \in 1 .. Len(log), NEW e \in entry', Lacks(e, i)',
               key \in Clears(log[i].kind), e.stored < log[i].at + Repeat
        PROVE  Settled(i)'
    <3>1. Lacks(e, i) /\ e \in entry
      BY <1>1, <2>1 DEF Lacks
    <3>2. QED
      BY <1>4, <2>1, <3>1 DEF Inv, NothingStaleOutlivesTheRepeat, Settled
  <2>2. QED
    BY <1>1, <2>1 DEF NothingStaleOutlivesTheRepeat, Settled
<1>8. QED
  BY <1>2, <1>3, <1>5, <1>6, <1>7 DEF Inv

LEMMA IdleStep == ASSUME Inv, UNCHANGED vars PROVE Inv'
BY DEF Inv, World, Running, Fine, Shows, Deletions, TimerFine, EntryFine, Settled, Owed,
       NothingStaleOutlivesTheRepeat, Lacks, vars

LEMMA InitInv == ASSUME Init PROVE Inv
<1>1. Len(log) = 0 /\ log \in Seq(Commits)
  BY DEF Init
<1>2. /\ Blank \in Local /\ Blank.began = 0 /\ Blank.missedReplica = FALSE
      /\ \A kind \in Kinds : Blank.seen[kind] = 0
  BY DEF Blank, Local, Nothing, Seen
<1>3. "idle" \in PCs /\ "idle" \notin Clearing
  BY DEF PCs, Clearing
<1>4. World
  BY <1>1, Times DEF Init, World
<1> HIDE DEF Blank
<1>5. Running
  BY <1>1, <1>2, <1>3 DEF Init, Running, Fine
<1>6. QED
  BY <1>1, <1>4, <1>5 DEF Init, Inv, Deletions, NothingStaleOutlivesTheRepeat

LEMMA NextInv == ASSUME TTL > 0, Inv, [Next]_vars PROVE Inv'
<1>1. ASSUME NEW r \in Requests, \/ Hit(r) \/ Miss(r) \/ ReadCompany(r) \/ ReadFacts(r)
                                 \/ ReplicaFails(r) \/ StoreBody(r)
      PROVE  Inv'
  BY <1>1, HitStep, MissStep, ReadCompanyStep, ReadFactsStep, ReplicaFailsStep, StoreBodyStep
<1>2. ASSUME NEW p \in Processes, UpsertCompany(p) \/ UpsertFacts(p) \/ Clear(p) \/ Fail(p)
      PROVE  Inv'
  BY <1>2, UpsertStep, ClearStep, FailStep
<1>3. CASE UNCHANGED vars
  BY <1>3, IdleStep
<1>4. QED
  BY <1>1, <1>2, <1>3, BeginStep, SecondDeletionStep, CrashStep, ReplicateStep, TickStep DEF Next

-----------------------------------------------------------------------------
(* Theorems.  An entry with a TTL of zero would expire as it is stored; the
   code's is 300 s (cache.ts:33). *)

LEMMA Invariance == ASSUME TTL > 0 PROVE Spec => []Inv
<1>1. Init => Inv
  BY InitInv
<1>2. Inv /\ [Next]_vars => Inv'
  BY NextInv
<1>3. QED
  BY <1>1, <1>2, PTL DEF Spec

(* Every variable of ResponseCache keeps its type: what has been seen, stored
   or owed speaks of commits there are, and an entry in Redis has not expired. *)
THEOREM TypeCorrect == ASSUME TTL > 0 PROVE Spec => []TypeOK
<1>1. Inv => TypeOK
  <2> SUFFICES ASSUME Inv PROVE TypeOK
    OBVIOUS
  <2>1. \A t \in timers : t \in [commit : 1 .. Len(log), due : Nat, owner : Writers \cup {"api"}]
    BY DEF Inv, Deletions, TimerFine
  <2>2. \A e \in entry : e.seen \in [Kinds -> 0 .. Len(log)] /\ e.stored <= now /\ now < e.stored + TTL
    BY DEF Inv, EntryFine
  <2>3. QED
    BY <2>1, <2>2 DEF Inv, World, Running, Deletions, TypeOK, Commits
<1>2. QED
  BY <1>1, Invariance, PTL

(* A response that misses a commit and was stored before it or within the
   repeat interval does not outlive the second deletion (cache.ts:143-160),
   for any requests, writers and failures of Redis. *)
THEOREM NothingStaleStays == ASSUME TTL > 0 PROVE Spec => []NothingStaleOutlivesTheRepeat
<1>1. Inv => NothingStaleOutlivesTheRepeat
  BY DEF Inv
<1>2. QED
  BY <1>1, Invariance, PTL

(* An empty list of facts is never the replica's answer about a company readDb
   missed (getOrFetchCompany returns the database to go on with). *)
THEOREM EmptyListsAreExplained == ASSUME TTL > 0 PROVE Spec => []EmptyListForAReason
<1>1. Inv => EmptyListForAReason
  <2> SUFFICES ASSUME Inv, NEW r \in Requests, NEW i \in 1 .. Len(log), req[r].missedReplica,
                      pc[r] = "store", key = "facts", req[r].seen["facts"] = 0,
                      log[i].kind = "facts", log[i].at < req[r].began
               PROVE  FALSE
    BY DEF EmptyListForAReason
  <2>1. Shows(req[r].seen, "facts", req[r].began, 0)
    BY ProcessFacts DEF Fine, Processes
  <2>2. log[i].at + 0 < req[r].began
    BY WorldFacts DEF Inv
  <2>3. i <= 0
    BY <2>1, <2>2 DEF Shows
  <2>4. QED
    BY <2>3
<1>2. QED
  BY <1>1, Invariance, PTL

-----------------------------------------------------------------------------
(* The refinement *)

(* A body with what a request has read answers, if it shows every commit older
   than the replica's lag when the request began. *)
LEMMA Responds ==
  ASSUME Inv, TTL > 0, NEW seen \in [Kinds -> 0 .. Len(log)], answer' = [key |-> key, seen |-> seen],
         UNCHANGED <<now, log>>, NEW since \in Nat, now < since + MaxSlow + TTL,
         \A kind \in Needs(key) : Shows(seen, kind, since, MaxLag)
  PROVE  Stale!Respond
<1>1. answer'.key = key /\ answer'.seen = seen /\ key \in Keys
  BY DEF Inv, World
<1>2. \A kind \in Kinds : answer'.seen[kind] \in 0 .. Len(log)
  BY <1>1
<1>3. ASSUME NEW i \in 1 .. Len(log), log[i].kind \in Needs(key),
             log[i].at + (MaxLag + MaxSlow + TTL) <= now
      PROVE  i <= seen[log[i].kind]
  <2>1. log[i].at + MaxLag < since
    BY <1>3, WorldFacts, Times DEF Inv
  <2>2. QED
    BY <1>3, <2>1 DEF Shows
<1>4. Stale!ShowsWhatIsOld(answer')
  BY <1>1, <1>3 DEF Stale!ShowsWhatIsOld
<1>5. QED
  BY <1>1, <1>2, <1>4 DEF Stale!Respond

LEMMA HitResponds == ASSUME Inv, TTL > 0, NEW r \in Requests, Hit(r) PROVE Stale!Respond
<1>1. PICK e \in entry : answer' = [key |-> key, seen |-> e.seen]
  BY DEF Hit, Send
<1>2. EntryFine(e) /\ UNCHANGED <<now, log>>
  BY DEF Inv, Hit
<1>3. \A i \in 1 .. Len(log) : log[i].at \in Nat /\ (log[i].at + (MaxLag + MaxSlow + TTL) <= now
                                 => log[i].at + (MaxLag + MaxSlow) < e.stored)
  BY <1>2, WorldFacts, Times DEF Inv, EntryFine
<1>4. ASSUME NEW i \in 1 .. Len(log), log[i].kind \in Needs(key),
             log[i].at + (MaxLag + MaxSlow + TTL) <= now
      PROVE  i <= e.seen[log[i].kind]
  BY <1>2, <1>3, <1>4 DEF EntryFine, Shows
<1>5. answer'.key = key /\ answer'.seen = e.seen /\ key \in Keys
  BY <1>1 DEF Inv, World
<1>6. Stale!ShowsWhatIsOld(answer')
  BY <1>2, <1>4, <1>5 DEF Stale!ShowsWhatIsOld
<1>7. QED
  BY <1>2, <1>5, <1>6 DEF Stale!Respond, EntryFine

LEMMA ReadResponds ==
  ASSUME Inv, TTL > 0, NEW r \in Requests, ReadCompany(r) \/ ReadFacts(r)
  PROVE  Stale!Respond \/ Stale!Pause
<1>1. /\ req[r].began \in Nat /\ now <= req[r].began + MaxSlow /\ Fine(r, pc[r], req[r])
      /\ now < req[r].began + MaxSlow + TTL /\ UNCHANGED <<now, log>>
  <2>1. req[r].began \in Nat /\ Fine(r, pc[r], req[r])
    BY ProcessFacts DEF Processes, Local
  <2>2. pc[r] # "idle" /\ UNCHANGED <<now, log>>
    BY DEF ReadCompany, ReadFacts
  <2>3. now <= req[r].began + MaxSlow
    BY <2>1, <2>2 DEF Fine
  <2>4. QED
    BY <2>1, <2>2, <2>3, WorldFacts, Times DEF Inv
<1>2. CASE answer' = NoAnswer
  BY <1>1, <1>2 DEF NoAnswer, Nothing, Stale!Pause, Stale!NoAnswer
<1>3. CASE key = "company" /\ Send(Found(r).seen)
  <2> DEFINE seen == Found(r).seen
  <2>1. /\ Found(r) \in Local /\ seen["company"] \in 0 .. Len(log)
        /\ seen["facts"] = req[r].seen["facts"] /\ Found(r).began = req[r].began
        /\ Shows(seen, "company", req[r].began, MaxLag)
    BY FoundFacts
  <2>2. seen["facts"] \in 0 .. Len(log)
    BY <1>1, <2>1, WorldFacts DEF Fine, Kinds, Local, Seen, Inv
  <2>3. seen \in [Kinds -> 0 .. Len(log)] /\ answer' = [key |-> key, seen |-> seen]
    BY <1>3, <2>1, <2>2 DEF Local, Seen, Kinds, Send
  <2>4. \A kind \in Needs(key) : Shows(seen, kind, req[r].began, MaxLag)
    BY <1>3, <2>1, KeyFacts
  <2> HIDE DEF seen
  <2>5. QED
    BY <1>1, <2>3, <2>4, Responds
<1>4. CASE ReadFacts(r)
  <2>1. pc[r] = "facts" /\ answer' = [key |-> key, seen |-> Body(r)]
    BY <1>4 DEF ReadFacts, Send, Body
  <2>2. Fine(r, "store", Served(r)) /\ Served(r).seen = Body(r) /\ Served(r).began = req[r].began
    BY <2>1, BodyFacts
  <2>3. Body(r) \in [Kinds -> 0 .. Len(log)]
    BY <2>2, WorldFacts DEF Fine, Local, Seen, Inv
  <2>4. \A kind \in Needs(key) : Shows(Body(r), kind, req[r].began, MaxLag)
    <3>1. Shows(Body(r), "company", req[r].began, MaxLag)
      BY <2>2 DEF Fine
    <3>2. key # "company" => Shows(Body(r), "facts", req[r].began, MaxLag)
      BY <2>2 DEF Fine
    <3>3. QED
      BY <3>1, <3>2, KeyFacts
  <2>5. QED
    BY <1>1, <2>1, <2>3, <2>4, Responds
<1>5. QED
  BY <1>2, <1>3, <1>4
     DEF ReadCompany, ReadIndustries, GetOrFetch, FindStored, GoOnToFacts, AskPrimary, Silent

(* A commit is a write. *)
LEMMA CommitWrites ==
  ASSUME NEW p, UpsertCompany(p) \/ UpsertFacts(p)
  PROVE  Stale!Write
<1>1. PICK kind \in Kinds : /\ log' = Append(log, [kind |-> kind, at |-> now])
                            /\ now' = now /\ answer' = NoAnswer
  BY DEF UpsertCompany, UpsertFacts, Commit, Silent, Kinds
<1>2. QED
  BY <1>1 DEF Stale!Write, Stale!NoAnswer, NoAnswer, Nothing

(* Whatever fails, dies or lags, an answer shows every commit older than the
   replica's lag, a request and the TTL last together: with the assumptions on
   lag and slowness, the backstop of cache.ts:27-33 holds. *)
THEOREM CacheImplementsBoundedStaleness == ASSUME TTL > 0 PROVE Spec => ImplementsBoundedStaleness
<1>1. Init => Stale!StaleInit
  BY DEF Init, Stale!StaleInit, NoAnswer, Nothing, Stale!NoAnswer
<1>2. Inv /\ [Next]_vars =>
        [Stale!Write \/ Stale!TimePasses \/ Stale!Respond \/ Stale!Pause]_(Stale!staleVars)
  <2> SUFFICES ASSUME Inv, [Next]_vars
               PROVE  Stale!Write \/ Stale!TimePasses \/ Stale!Respond \/ Stale!Pause
                      \/ UNCHANGED Stale!staleVars
    OBVIOUS
  <2>1. CASE UNCHANGED <<now, log>> /\ Silent
    BY <2>1 DEF Silent, NoAnswer, Nothing, Stale!Pause, Stale!NoAnswer
  <2>2. CASE \E r \in Requests : Hit(r)
    BY <2>2, HitResponds
  <2>3. CASE \E r \in Requests : ReadCompany(r) \/ ReadFacts(r)
    BY <2>3, ReadResponds
  <2>4. CASE \E p \in Processes : UpsertCompany(p) \/ UpsertFacts(p)
    BY <2>4, CommitWrites
  <2>5. CASE Tick
    BY <2>5 DEF Tick, Silent, NoAnswer, Nothing, Stale!TimePasses, Stale!NoAnswer
  <2>6. CASE UNCHANGED vars
    BY <2>6 DEF vars, Stale!staleVars
  <2>7. CASE \E r \in Requests : Miss(r) \/ ReplicaFails(r) \/ StoreBody(r)
    BY <2>1, <2>7 DEF Miss, ReplicaFails, StoreBody
  <2>8. CASE \/ \E w \in Writers : Begin(w)
             \/ \E p \in Processes : Clear(p) \/ Fail(p)
             \/ \E t \in timers : SecondDeletion(t)
             \/ \E owner \in Writers \cup {"api"} : Crash(owner)
             \/ Replicate
    BY <2>1, <2>8 DEF Begin, Clear, Invalidate, GoOn, Fail, SecondDeletion, Crash, Replicate
  <2>9. QED
    BY <2>2, <2>3, <2>4, <2>5, <2>6, <2>7, <2>8 DEF Next
<1>3. QED
  BY <1>1, <1>2, Invariance, PTL DEF Spec, ImplementsBoundedStaleness, Stale!StaleSpec
=============================================================================
