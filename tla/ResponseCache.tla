---------------------------- MODULE ResponseCache ----------------------------
(***************************************************************************)
(* One company's API responses: the cache-aside routes, the response cache *)
(* in Redis, the read replica behind a circuit breaker, and the writers    *)
(* that store the company on the primary and delete the cached responses.  *)
(*                                                                         *)
(* The primary is the sequence of its commits.  A database's state is how  *)
(* many of them it has, so the replica is a number no larger than          *)
(* Len(log), and a response is known by the last commit of each kind it    *)
(* shows.  What a row says is left out: a response differs from another    *)
(* exactly when it misses a commit.                                        *)
(*                                                                         *)
(* Redis and PostgreSQL are external: a command succeeds or fails, Redis   *)
(* expires an entry, the replica applies commits in order.                 *)
(***************************************************************************)
EXTENDS Naturals, Sequences, FiniteSetsExt

CONSTANTS
  Requests,    \* requests the API serves at once
  Writers,     \* processes that store the company: parser worker, host scripts
  Cached,      \* those that called initResponseCache
  Keys,        \* the responses asked for
  TTL,         \* CACHE_TTL_SECONDS
  Repeat,      \* INVALIDATION_REPEAT_MS
  Cooldown,    \* cooldownMs of createReadDb
  MaxLag,      \* assumed: the longest the replica lags
  MaxSlow,     \* assumed: the longest a request takes, storing its body included
  MaxTime,     \* bound on the clock
  MaxCommits,  \* bound on commits when a writer begins
  MaxFaults    \* bound on failed commands, failed requests and crashes

Kinds == {"company", "facts"}

ASSUME CacheAssumption ==
  /\ Cached \subseteq Writers
  /\ Requests \cap Writers = {}
  /\ Keys \subseteq {"company", "facts", "scores", "list"}
  /\ {TTL, Repeat, Cooldown, MaxLag, MaxSlow, MaxTime, MaxCommits, MaxFaults} \subseteq Nat

Processes == Requests \cup Writers

VARIABLES
  now,          \* the clock
  log,          \* the primary's commits: what was written and when
  applied,      \* how many of them the replica has applied
  skippedUntil, \* replicaSkippedUntil
  key,          \* the response asked for, one per behaviour: entries of
                \* different keys never meet
  entry,        \* what Redis holds under it, at most one entry
  timers,       \* second deletions still to come
  pc,           \* where each request or writer is
  req,          \* its local variables
  answer,       \* the response the last step sent
  missed,       \* history: commits whose second deletion will never happen
  faults        \* how many of the MaxFaults have happened

vars == <<now, log, applied, skippedUntil, key, entry, timers, pc, req, answer, missed, faults>>

Seen == [Kinds -> Nat]
Nothing == [kind \in Kinds |-> 0]
NoAnswer == [key |-> "none", seen |-> Nothing]
Silent == answer' = NoAnswer

(* The database a request's next read uses, whether the replica just failed it,
   whether readDb did not find the company (history), what it has read and since
   when; the commit a writer must invalidate. *)
Local == [db : {"readDb", "pool"}, retry : BOOLEAN, missedReplica : BOOLEAN,
          seen : Seen, began : Nat, commit : Nat]
Blank == [db |-> "readDb", retry |-> FALSE, missedReplica |-> FALSE,
          seen |-> Nothing, began |-> 0, commit |-> 0]

Reading == {"company", "facts"}
PCs == Reading \cup {"idle", "fetch", "clearCompany", "storeFacts", "clearFacts", "store"}

TypeOK ==
  /\ now \in 0..MaxTime
  /\ log \in Seq([kind : Kinds, at : 0..MaxTime])
  /\ applied \in 0..Len(log)
  /\ skippedUntil \in Nat
  /\ key \in Keys
  /\ \A e \in entry : /\ e.seen \in [Kinds -> 0..Len(log)]
                      /\ e.stored <= now /\ now < e.stored + TTL
  /\ timers \subseteq [commit : 1..Len(log), due : Nat, owner : Writers \cup {"api"}]
  /\ pc \in [Processes -> PCs]
  /\ req \in [Processes -> Local]
  /\ missed \subseteq 1..Len(log)
  /\ faults \in 0..MaxFaults

-----------------------------------------------------------------------------
(* Databases *)

(* The last commit of a kind among the first n. *)
Latest(kind, n) == Max({0} \cup {i \in 1..n : log[i].kind = kind})

(* The databases a request's next query may be answered from: its own choice,
   the primary while the breaker is open or after the replica's error. *)
ReadFrom(r) ==
  IF req[r].db = "pool" \/ req[r].retry \/ now < skippedUntil THEN Len(log) ELSE applied

(* Only readDb's catch sets the breaker; the query is repeated on the primary. *)
ReplicaFails(r) ==
  /\ pc[r] \in Reading
  /\ req[r].db = "readDb" /\ ~ req[r].retry /\ now >= skippedUntil
  /\ faults < MaxFaults
  /\ faults' = faults + 1
  /\ skippedUntil' = now + Cooldown
  /\ req' = [req EXCEPT ![r].retry = TRUE]
  /\ UNCHANGED <<key, now, log, applied, entry, timers, pc, missed>>
  /\ Silent

(* The replica replays the primary's log. *)
Replicate ==
  /\ applied < Len(log)
  /\ applied' = applied + 1
  /\ UNCHANGED <<key, now, log, skippedUntil, entry, timers, pc, req, missed, faults>>
  /\ Silent

-----------------------------------------------------------------------------
(* The routes *)

(* The kinds of rows a response is computed from. *)
Needs(k) == IF k = "company" THEN {"company"} ELSE IF k = "scores" THEN {"facts"} ELSE Kinds

(* The keys a write of a kind deletes.  The list is never deleted. *)
Clears(kind) == IF kind = "company" THEN {"company", "facts"} ELSE {"facts", "scores"}

Send(seen) == answer' = [key |-> key, seen |-> seen]

(* Mutant: a hit renews the entry's time to live. *)
HitRenews(r) ==
  /\ pc[r] = "idle"
  /\ \E e \in entry : Send(e.seen) /\ entry' = {[e EXCEPT !.stored = now]}
  /\ UNCHANGED <<key, now, log, applied, skippedUntil, timers, pc, req, missed, faults>>

(* sendIfCached on a hit. *)
Hit(r) ==
  /\ pc[r] = "idle"
  /\ \E e \in entry : Send(e.seen)
  /\ UNCHANGED <<key, now, log, applied, skippedUntil, entry, timers, pc, req, missed, faults>>

(* A miss, or a cache that cannot be reached. *)
Miss(r) ==
  /\ pc[r] = "idle"
  /\ IF entry = {} THEN UNCHANGED faults
                      ELSE faults < MaxFaults /\ faults' = faults + 1
  /\ pc' = [pc EXCEPT ![r] = "company"]
  /\ req' = [req EXCEPT ![r] = [Blank EXCEPT !.began = now]]
  /\ UNCHANGED <<key, now, log, applied, skippedUntil, entry, timers, missed>>
  /\ Silent

(* The database the facts come from: the one the company row came from, and
   always the primary for getAnnualValues. *)
(* Mutant: the facts of a company found on the primary read from the replica. *)
FactsFromReplica(r) == IF key \in {"scores", "list"} THEN "pool" ELSE "readDb"
FactsDb(r) == IF key \in {"scores", "list"} THEN "pool" ELSE req[r].db

CompanyRow(r) == Latest("company", ReadFrom(r))
Found(r) == [req[r] EXCEPT !.seen["company"] = CompanyRow(r), !.retry = FALSE]

GoOnToFacts(r) ==
  /\ pc' = [pc EXCEPT ![r] = "facts"]
  /\ req' = [req EXCEPT ![r] = [Found(r) EXCEPT !.db = FactsDb(r)]]
  /\ Silent

(* A company readDb does not know is looked for on the primary. *)
AskPrimary(r) ==
  /\ CompanyRow(r) = 0 /\ req[r].db = "readDb"
  /\ req' = [req EXCEPT ![r] = [Found(r) EXCEPT !.db = "pool", !.missedReplica = TRUE]]
  /\ UNCHANGED pc /\ Silent

(* The list: getIndustries, and then every company's scores. *)
ReadIndustries(r) == key = "list" /\ GoOnToFacts(r)

(* getOrFetchCompany, for the company and its facts: found nowhere, the company
   is fetched from SEC. *)
GetOrFetch(r) ==
  /\ key \in {"company", "facts"}
  /\ \/ CompanyRow(r) > 0 /\ key = "facts" /\ GoOnToFacts(r)
     \/ /\ CompanyRow(r) > 0 /\ key = "company"
        /\ pc' = [pc EXCEPT ![r] = "store"]
        /\ req' = [req EXCEPT ![r] = Found(r)]
        /\ Send(Found(r).seen)
     \/ AskPrimary(r)
     \/ /\ CompanyRow(r) = 0 /\ req[r].db = "pool"
        /\ pc' = [pc EXCEPT ![r] = "fetch"] /\ UNCHANGED req /\ Silent

(* The scores, and the financials in the same way: found nowhere, a 404. *)
FindStored(r) ==
  /\ key = "scores"
  /\ \/ CompanyRow(r) > 0 /\ GoOnToFacts(r)
     \/ AskPrimary(r)
     \/ /\ CompanyRow(r) = 0 /\ req[r].db = "pool"
        /\ pc' = [pc EXCEPT ![r] = "idle"] /\ req' = [req EXCEPT ![r] = Blank] /\ Silent

ReadCompany(r) ==
  /\ pc[r] = "company"
  /\ ReadIndustries(r) \/ GetOrFetch(r) \/ FindStored(r)
  /\ UNCHANGED <<key, now, log, applied, skippedUntil, entry, timers, missed, faults>>

(* The facts.  The response leaves before it is stored. *)
ReadFacts(r) ==
  /\ pc[r] = "facts"
  /\ LET body == [req[r].seen EXCEPT !["facts"] = Latest("facts", ReadFrom(r))]
     IN /\ req' = [req EXCEPT ![r].seen = body, ![r].retry = FALSE]
        /\ Send(body)
  /\ pc' = [pc EXCEPT ![r] = "store"]
  /\ UNCHANGED <<key, now, log, applied, skippedUntil, entry, timers, missed, faults>>

(* sendAndCache's set reaches Redis, or fails. *)
StoreBody(r) ==
  /\ pc[r] = "store"
  /\ \/ entry' = {[seen |-> req[r].seen, stored |-> now]} /\ UNCHANGED faults
     \/ faults < MaxFaults /\ faults' = faults + 1 /\ UNCHANGED entry
  /\ pc' = [pc EXCEPT ![r] = "idle"]
  /\ req' = [req EXCEPT ![r] = Blank]
  /\ UNCHANGED <<key, now, log, applied, skippedUntil, timers, missed>>
  /\ Silent

-----------------------------------------------------------------------------
(* Storing a company: storeCompanyFacts, in the parser worker, a host script
   or a request that found the company nowhere. *)

(* The whole document, or the facts of a company already stored
   (reconciliation).  Room for the commits of those under way is kept. *)
Begin(w) ==
  /\ pc[w] = "idle"
  /\ LET room == MaxCommits - Len(log) - 2 * Quantify(Processes, LAMBDA p : pc[p] # "idle")
     IN \/ room >= 2 /\ pc' = [pc EXCEPT ![w] = "fetch"]
        \/ room >= 1 /\ Latest("company", Len(log)) > 0 /\ pc' = [pc EXCEPT ![w] = "storeFacts"]
  /\ UNCHANGED <<key, now, log, applied, skippedUntil, entry, timers, req, missed, faults>>
  /\ Silent

(* The process whose timer repeats p's deletion, and whether p has a cache. *)
Owner(p) == IF p \in Requests THEN "api" ELSE p
HasCache(p) == p \in Requests \cup Cached

(* One row committed; a process without the cache deletes nothing. *)
Commit(p, kind, next) ==
  /\ log' = Append(log, [kind |-> kind, at |-> now])
  /\ req' = [req EXCEPT ![p].commit = IF HasCache(p) THEN Len(log') ELSE 0]
  /\ missed' = IF HasCache(p) THEN missed ELSE missed \cup {Len(log')}
  /\ pc' = [pc EXCEPT ![p] = next]
  /\ UNCHANGED <<key, now, applied, skippedUntil, entry, timers, faults>>
  /\ Silent

UpsertCompany(p) == pc[p] = "fetch" /\ Commit(p, "company", IF HasCache(p) THEN "clearCompany" ELSE "storeFacts")
UpsertFacts(p) == pc[p] = "storeFacts" /\ Commit(p, "facts", IF HasCache(p) THEN "clearFacts" ELSE "idle")

Delete(commit) == entry' = IF key \in Clears(log[commit].kind) THEN {} ELSE entry

(* Mutant: the keys are deleted once. *)
InvalidateOnce(p) ==
  /\ pc[p] \in {"clearCompany", "clearFacts"}
  /\ \/ Delete(req[p].commit) /\ UNCHANGED faults
     \/ faults < MaxFaults /\ faults' = faults + 1 /\ UNCHANGED entry
  /\ UNCHANGED timers
  /\ UNCHANGED <<key, now, log, applied, skippedUntil, missed>>
  /\ Silent

(* invalidate: the first deletion, which may fail, and the timer of the second. *)
Invalidate(p) ==
  /\ pc[p] \in {"clearCompany", "clearFacts"}
  /\ \/ Delete(req[p].commit) /\ UNCHANGED faults
     \/ faults < MaxFaults /\ faults' = faults + 1 /\ UNCHANGED entry
  /\ timers' = timers \cup {[commit |-> req[p].commit, due |-> now + Repeat, owner |-> Owner(p)]}
  /\ UNCHANGED <<key, now, log, applied, skippedUntil, missed>>
  /\ Silent

(* After the company row come the facts; after the facts a request reads the
   company again, from the primary. *)
GoOn(p) ==
  /\ pc' = [pc EXCEPT ![p] = IF @ = "clearCompany" THEN "storeFacts"
                              ELSE IF p \in Requests THEN "company" ELSE "idle"]
  /\ req' = [req EXCEPT ![p].commit = 0]

Clear(p) == Invalidate(p) /\ GoOn(p)

(* A timer fires. *)
SecondDeletion(t) ==
  /\ now = t.due
  /\ timers' = timers \ {t}
  /\ \/ Delete(t.commit) /\ UNCHANGED <<missed, faults>>
     \/ /\ faults < MaxFaults /\ faults' = faults + 1
        /\ missed' = missed \cup {t.commit}
        /\ UNCHANGED entry
  /\ UNCHANGED <<key, now, log, applied, skippedUntil, pc, req>>
  /\ Silent

-----------------------------------------------------------------------------
(* Failures and time *)

(* Any await of a request or writer rejects: a 404 or 500, or a failed job.
   Deletions never throw and the body's store is not awaited. *)
Fail(p) ==
  /\ pc[p] \in Reading \cup {"fetch", "storeFacts"}
  /\ faults < MaxFaults
  /\ faults' = faults + 1
  /\ pc' = [pc EXCEPT ![p] = "idle"]
  /\ req' = [req EXCEPT ![p] = Blank]
  /\ UNCHANGED <<key, now, log, applied, skippedUntil, entry, timers, missed>>
  /\ Silent

(* A process is killed with its requests and the second deletions it owed. *)
Crash(owner) ==
  LET dead == {p \in Processes : Owner(p) = owner}
      owing == {p \in dead : pc[p] \in {"clearCompany", "clearFacts"}}
      gone == {t \in timers : t.owner = owner}
  IN /\ faults < MaxFaults
     /\ \E p \in dead : pc[p] # "idle" \/ gone # {}
     /\ faults' = faults + 1
     /\ pc' = [p \in Processes |-> IF p \in dead THEN "idle" ELSE pc[p]]
     /\ req' = [p \in Processes |-> IF p \in dead THEN Blank ELSE req[p]]
     /\ timers' = timers \ gone
     /\ missed' = missed \cup {req[p].commit : p \in owing} \cup {t.commit : t \in gone}
     /\ skippedUntil' = IF owner = "api" THEN 0 ELSE skippedUntil
     /\ UNCHANGED <<key, now, log, applied, entry>>
  /\ Silent

(* Mutant: entries are stored without EX. *)
TickWithoutExpiry ==
  /\ now < MaxTime
  /\ \A t \in timers : now < t.due
  /\ \A i \in (applied + 1)..Len(log) : now < log[i].at + MaxLag
  /\ \A r \in Requests : pc[r] # "idle" => now < req[r].began + MaxSlow
  /\ now' = now + 1
  /\ skippedUntil' = IF now' < skippedUntil THEN skippedUntil ELSE 0
  /\ UNCHANGED <<key, log, applied, entry, timers, pc, req, missed, faults>>
  /\ Silent

(* Time passes, within the assumed lag and slowness and no further than the next
   timer; Redis drops what expires, and a breaker whose time is over is closed. *)
Tick ==
  /\ now < MaxTime
  /\ \A t \in timers : now < t.due
  /\ \A i \in (applied + 1)..Len(log) : now < log[i].at + MaxLag
  /\ \A r \in Requests : pc[r] # "idle" => now < req[r].began + MaxSlow
  /\ now' = now + 1
  /\ entry' = {e \in entry : now' < e.stored + TTL}
  /\ skippedUntil' = IF now' < skippedUntil THEN skippedUntil ELSE 0
  /\ UNCHANGED <<key, log, applied, timers, pc, req, missed, faults>>
  /\ Silent

-----------------------------------------------------------------------------
Init ==
  /\ now = 0 /\ log = <<>> /\ applied = 0 /\ skippedUntil = 0
  /\ key \in Keys /\ entry = {}
  /\ timers = {}
  /\ pc = [p \in Processes |-> "idle"]
  /\ req = [p \in Processes |-> Blank]
  /\ answer = NoAnswer
  /\ missed = {} /\ faults = 0

Next ==
  \/ \E r \in Requests : \/ Hit(r) \/ Miss(r)
                         \/ ReadCompany(r) \/ ReadFacts(r) \/ ReplicaFails(r)
                         \/ StoreBody(r)
  \/ \E w \in Writers : Begin(w)
  \/ \E p \in Processes : UpsertCompany(p) \/ UpsertFacts(p) \/ Clear(p) \/ Fail(p)
  \/ \E t \in timers : SecondDeletion(t)
  \/ \E owner \in Writers \cup {"api"} : Crash(owner)
  \/ Replicate
  \/ Tick

Spec == Init /\ [][Next]_vars

-----------------------------------------------------------------------------
(* Properties *)

Lacks(e, i) == log[i].kind \in Needs(key) /\ e.seen[log[i].kind] < i

(* The second deletion for commit i is still to come. *)
Owed(i) == \/ \E t \in timers : t.commit = i
           \/ \E p \in Processes : pc[p] \in {"clearCompany", "clearFacts"} /\ req[p].commit = i

(* Deleting twice does what cache.ts promises: a response that misses a
   commit, stored before the commit or within INVALIDATION_REPEAT_MS of it by
   a request that read the old rows or a lagging replica, does not outlive the
   second deletion, unless that deletion failed or its process died. *)
NothingStaleOutlivesTheRepeat ==
  \A i \in 1..Len(log) : \A e \in entry :
    /\ Lacks(e, i)
    /\ key \in Clears(log[i].kind)
    /\ e.stored < log[i].at + Repeat
    => Owed(i) \/ i \in missed

(* A facts response without a single fact is explained: the facts were not
   stored when its request began, or readDb knew the company and not yet its
   facts.  A company readDb missed is never answered with a lagging replica's
   facts (getOrFetchCompany returns the database to go on with). *)
EmptyListForAReason ==
  \A r \in Requests, i \in 1..Len(log) :
    /\ pc[r] = "store" /\ key = "facts" /\ req[r].seen["facts"] = 0
    /\ log[i].kind = "facts" /\ log[i].at < req[r].began
    => ~ req[r].missedReplica

(* Whatever fails, a commit is missing from answers no longer than the replica
   lags, a request takes and the TTL lasts together. *)
Stale == INSTANCE BoundedStaleness WITH Bound <- MaxLag + MaxSlow + TTL
ImplementsBoundedStaleness == Stale!StaleSpec
=============================================================================
