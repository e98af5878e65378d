------------------------------ MODULE SecClient ------------------------------
(***************************************************************************)
(* The SEC client (src/sec.ts, src/rateLimiter.ts, src/retry.ts): every    *)
(* request to SEC goes through secFetch, which takes a token from the      *)
(* process's bucket for each attempt and retries transient failures.  SEC  *)
(* limits the whole host, so the processes' shares must add up.            *)
(*                                                                         *)
(* Time passes in ticks of 1/Second seconds.  A token is Second units, so  *)
(* that a bucket refills by its rate in units at every tick.  A timer      *)
(* counts whole ticks, as setTimeout counts whole milliseconds: it drops   *)
(* the fraction of its delay and waits at least one.  Every clock here is  *)
(* an age or a countdown, so behaviours need no bound on time.             *)
(***************************************************************************)
EXTENDS Integers, Sequences, FiniteSetsExt, Functions

CONSTANTS
  Processes,    \* those that call SEC: API, parser worker, poller, ...
  Rate,         \* SEC_REQUESTS_PER_SECOND of each
  Capacity,     \* SEC_BURST_CAPACITY
  Limit,        \* SEC's limit on requests in a second
  Calls,        \* calls of secFetch
  ProcessOf,    \* the process of each call
  MaxRetries,   \* maxRetries of fetchWithRetry
  BaseDelay,    \* baseDelayMs, in ticks
  Second,       \* ticks in a second
  MaxRestarts   \* bound on restarts of a process in any second

(* A tick refills less than one token, as a millisecond does. *)
ASSUME SecAssumption ==
  /\ {Capacity, MaxRetries, MaxRestarts} \subseteq Nat
  /\ Limit \in Nat /\ BaseDelay \in Nat \ {0} /\ Second \in Nat \ {0}
  /\ Rate \in [Processes -> 1..(Second - 1)]
  /\ ProcessOf \in [Calls -> Processes]
  /\ IsFiniteSet(Processes)

(* What secBudget.test.ts adds up. *)
ASSUME BudgetAssumption == SumFunction([p \in Processes |-> Rate[p] + Capacity]) <= Limit

(* The fractions of a tick that timers drop, once for each life of a process in
   a second, are less than a token: at 8 requests a second and 1000 ticks, a
   process would have to restart more than 140 times in a second. *)
ASSUME FractionAssumption == \A p \in Processes : (MaxRestarts + 1) * (Rate[p] - 1) < Second

VARIABLES
  tokens,    \* units in each bucket, as of its last refill
  elapsed,   \* ticks since that refill
  queue,     \* the calls inside acquire, in order: the chain of promises
  pc,        \* where each call is
  timer,     \* ticks until the call's setTimeout fires
  attempt,   \* the loop variable of fetchWithRetry
  tried,     \* history: requests the call has sent without a final answer
  sent,      \* history: sent[p][a], requests p sent a ticks ago
  restarted  \* history: restarted[p][a], restarts of p a ticks ago

vars == <<tokens, elapsed, queue, pc, timer, attempt, tried, sent, restarted>>

Full(p) == Capacity * Second
Ages == 0..Second
MaxElapsed == (Capacity + 1) * Second
Ended == {"done", "gave_up"}  \* with a response below 500, or without one
PCs == {"queued", "wait", "fetch", "backoff"} \cup Ended

TypeOK ==
  /\ tokens \in [Processes -> Int] /\ \A p \in Processes : tokens[p] <= Full(p)
  /\ elapsed \in [Processes -> 0..MaxElapsed]
  /\ queue \in [Processes -> Seq(Calls)]
  /\ \A p \in Processes : /\ IsInjective(queue[p])
                          /\ \A c \in Calls : (\E i \in DOMAIN queue[p] : queue[p][i] = c)
                               <=> ProcessOf[c] = p /\ pc[c] \in {"queued", "wait"}
  /\ pc \in [Calls -> PCs]
  /\ timer \in [Calls -> Nat]
  /\ attempt \in [Calls -> 0..MaxRetries]
  /\ tried \in [Calls -> Nat]
  /\ sent \in [Processes -> [Ages -> Nat]]
  /\ restarted \in [Processes -> [Ages -> Nat]]

-----------------------------------------------------------------------------
(* TokenBucket *)

(* Mutant: the refill is not capped at the capacity. *)
RefilledUncapped(p) == tokens[p] + elapsed[p] * Rate[p]
(* refill: what the bucket holds once the time since the last refill counts. *)
Refilled(p) == Min({Full(p), tokens[p] + elapsed[p] * Rate[p]})

(* Mutant: a token spent early is not owed. *)
SpendWithoutDebt(p, c) ==
  /\ tokens' = [tokens EXCEPT ![p] = Max({Refilled(p) - Second, 0})]
  /\ elapsed' = [elapsed EXCEPT ![p] = 0]
  /\ queue' = [queue EXCEPT ![p] = Tail(@)]
  /\ pc' = [pc EXCEPT ![c] = "fetch"]
  /\ sent' = [sent EXCEPT ![p][0] = @ + 1]
  /\ tried' = [tried EXCEPT ![c] = @ + 1]
  /\ UNCHANGED <<timer, attempt, restarted>>
(* tokens -= 1 and the next in the queue may go on; the request leaves at once. *)
Spend(p, c) ==
  /\ tokens' = [tokens EXCEPT ![p] = Refilled(p) - Second]
  /\ elapsed' = [elapsed EXCEPT ![p] = 0]
  /\ queue' = [queue EXCEPT ![p] = Tail(@)]
  /\ pc' = [pc EXCEPT ![c] = "fetch"]
  /\ sent' = [sent EXCEPT ![p][0] = @ + 1]
  /\ tried' = [tried EXCEPT ![c] = @ + 1]
  /\ UNCHANGED <<timer, attempt, restarted>>

(* Mutant: every waiting call waits for the time of one token. *)
WaitOneTick(p) == 1
(* The time to a whole token, without its fraction. *)
WaitTicks(p) == Max({1, (Second - Refilled(p)) \div Rate[p]})

(* A call whose predecessor has released the chain takes a token or waits for
   the rest of one. *)
Turn(p, c) == pc[c] = "queued" /\ queue[p] # <<>> /\ Head(queue[p]) = c

Acquire(p, c) ==
  /\ Turn(p, c)
  /\ IF Refilled(p) < Second
     THEN /\ tokens' = [tokens EXCEPT ![p] = Refilled(p)]
          /\ elapsed' = [elapsed EXCEPT ![p] = 0]
          /\ pc' = [pc EXCEPT ![c] = "wait"]
          /\ timer' = [timer EXCEPT ![c] = WaitTicks(p)]
          /\ UNCHANGED <<queue, attempt, tried, sent, restarted>>
     ELSE Spend(p, c)

(* Its timer fired: one token is spent, whole or not. *)
Wake(p, c) ==
  /\ pc[c] = "wait" /\ ProcessOf[c] = p
  /\ timer[c] = 0
  /\ Spend(p, c)

-----------------------------------------------------------------------------
(* fetchWithRetry *)

(* Mutant: a call goes ahead of those that queue. *)
JoinAhead(c) == /\ queue' = [queue EXCEPT ![ProcessOf[c]] =
                               IF @ = <<>> THEN <<c>> ELSE <<Head(@), c>> \o Tail(@)]
                /\ pc' = [pc EXCEPT ![c] = "queued"]
(* acquire joins the chain. *)
Join(c) == /\ queue' = [queue EXCEPT ![ProcessOf[c]] = Append(@, c)]
           /\ pc' = [pc EXCEPT ![c] = "queued"]

(* Every retry takes a token of its own, at the end of the queue. *)
Call(c) ==
  /\ pc[c] \in Ended
  /\ Join(c)
  /\ attempt' = [attempt EXCEPT ![c] = 0]
  /\ tried' = [tried EXCEPT ![c] = 0]
  /\ UNCHANGED <<tokens, elapsed, timer, sent, restarted>>

(* backoffDelay: between half and the whole of baseDelay * 2^attempt. *)
Delays(n) == LET most == BaseDelay * 2^n IN {d \in 0..most : 2 * d >= most}

Backoff(c) ==
  /\ pc[c] = "fetch"
  /\ attempt[c] < MaxRetries
  /\ pc' = [pc EXCEPT ![c] = "backoff"]
  /\ \E d \in Delays(attempt[c]) : timer' = [timer EXCEPT ![c] = d]
  /\ UNCHANGED <<tokens, elapsed, queue, attempt, tried, sent, restarted>>

Retry(c) ==
  /\ pc[c] = "backoff" /\ timer[c] = 0
  /\ Join(c)
  /\ attempt' = [attempt EXCEPT ![c] = @ + 1]
  /\ UNCHANGED <<tokens, elapsed, timer, tried, sent, restarted>>

(* A response below 500 ends the call; a 5xx or a network error does so only
   when no retry is left. *)
(* Mutant: the loop stops one attempt early. *)
SecondLastAttempt(c) == attempt[c] + 1 >= MaxRetries
LastAttempt(c) == attempt[c] = MaxRetries

End(c) ==
  /\ pc[c] = "fetch"
  /\ \/ pc' = [pc EXCEPT ![c] = "done"] /\ tried' = [tried EXCEPT ![c] = 0]
     \/ LastAttempt(c) /\ pc' = [pc EXCEPT ![c] = "gave_up"] /\ UNCHANGED tried
  /\ UNCHANGED <<tokens, elapsed, queue, timer, attempt, sent, restarted>>

-----------------------------------------------------------------------------
(* A restarted process has lost its calls and has a full bucket. *)
Restart(p) ==
  /\ SumFunction(restarted[p]) < MaxRestarts
  /\ tokens' = [tokens EXCEPT ![p] = Full(p)]
  /\ elapsed' = [elapsed EXCEPT ![p] = 0]
  /\ queue' = [queue EXCEPT ![p] = <<>>]
  /\ pc' = [c \in Calls |-> IF ProcessOf[c] = p THEN "done" ELSE pc[c]]
  /\ timer' = [c \in Calls |-> IF ProcessOf[c] = p THEN 0 ELSE timer[c]]
  /\ attempt' = [c \in Calls |-> IF ProcessOf[c] = p THEN 0 ELSE attempt[c]]
  /\ tried' = [c \in Calls |-> IF ProcessOf[c] = p THEN 0 ELSE tried[c]]
  /\ restarted' = [restarted EXCEPT ![p][0] = @ + 1]
  /\ UNCHANGED sent

Older(count) == [a \in Ages |-> IF a = 0 THEN 0 ELSE count[a - 1]]

(* Time passes; a timer that is due fires then, or late. *)
Tick ==
  /\ elapsed' = [p \in Processes |-> Min({elapsed[p] + 1, MaxElapsed})]
  /\ timer' = [c \in Calls |-> Max({timer[c] - 1, 0})]
  /\ sent' = [p \in Processes |-> Older(sent[p])]
  /\ restarted' = [p \in Processes |-> Older(restarted[p])]
  /\ UNCHANGED <<tokens, queue, pc, attempt, tried>>

Init ==
  /\ tokens = [p \in Processes |-> Full(p)]
  /\ elapsed = [p \in Processes |-> 0]
  /\ queue = [p \in Processes |-> <<>>]
  /\ pc = [c \in Calls |-> "done"]
  /\ timer = [c \in Calls |-> 0]
  /\ attempt = [c \in Calls |-> 0]
  /\ tried = [c \in Calls |-> 0]
  /\ sent = [p \in Processes |-> [a \in Ages |-> 0]]
  /\ restarted = [p \in Processes |-> [a \in Ages |-> 0]]

Step(c) == \/ \E p \in Processes : Acquire(p, c) \/ Wake(p, c)
           \/ Backoff(c) \/ Retry(c) \/ End(c)

Next ==
  \/ \E c \in Calls : Call(c) \/ Step(c)
  \/ \E p \in Processes : Restart(p)
  \/ Tick

(* Time passes and a call whose turn has come goes on; SEC answers. *)
Fairness == WF_vars(Tick) /\ \A c \in Calls : WF_vars(Step(c))

Spec == Init /\ [][Next]_vars /\ Fairness

-----------------------------------------------------------------------------
(* Properties *)

InASecond(count) == SumFunction([p \in Processes |-> SumFunction(count[p])])

(* In any second SEC gets no more requests than its limit from all processes
   together, whatever is retried and however calls compete, but for the full
   bucket each restart brings. *)
SecBudgetKept == InASecond(sent) <= Limit + Capacity * InASecond(restarted)

(* Concurrent calls never run a bucket into more debt than the fraction of a
   tick a timer dropped. *)
DebtIsLessThanATick == \A p \in Processes : tokens[p] > - Rate[p]

(* A transient failure reaches the caller only after MaxRetries retries, and no
   call sends more requests than that. *)
GivesUpAfterEveryRetry ==
  \A c \in Calls : /\ tried[c] <= MaxRetries + 1
                   /\ pc[c] = "gave_up" => tried[c] = MaxRetries + 1

(* Every call ends, however long the queue and whatever SEC answers. *)
EveryFetchEnds == \A c \in Calls : pc[c] \notin Ended ~> pc[c] \in Ended
=============================================================================
