--------------------------- MODULE SecClientProofs ---------------------------
(***************************************************************************)
(* Proofs about SecClient, for any processes, rates, calls, retries and    *)
(* ticks: the types, how far concurrent calls can overdraw a bucket, and   *)
(* what a call that gives up has tried.  The time a timer drops and the    *)
(* rates are variables of the arithmetic, not numbers.                     *)
(***************************************************************************)
EXTENDS SecClient, DataLemmas, TLAPS

-----------------------------------------------------------------------------
(* Helpers *)

Holds(q, c) == \E i \in DOMAIN q : q[i] = c

(* The head leaves a queue, and nothing else. *)
LEMMA HeadLeaves ==
  ASSUME NEW S, NEW q \in Seq(S), q # <<>>, IsInjective(q)
  PROVE  /\ Tail(q) \in Seq(S) /\ IsInjective(Tail(q)) /\ Head(q) \in S
         /\ \A c : Holds(Tail(q), c) <=> c # Head(q) /\ Holds(q, c)
<1>1. /\ Len(q) \in Nat \ {0} /\ DOMAIN q = 1 .. Len(q) /\ Head(q) = q[1]
      /\ Tail(q) \in Seq(S) /\ Len(Tail(q)) = Len(q) - 1 /\ DOMAIN Tail(q) = 1 .. (Len(q) - 1)
      /\ \A i \in 1 .. (Len(q) - 1) : Tail(q)[i] = q[i + 1]
  OBVIOUS
<1>2. IsInjective(Tail(q))
  BY <1>1 DEF IsInjective
<1>3. ASSUME NEW c, Holds(Tail(q), c) PROVE c # Head(q) /\ Holds(q, c)
  <2>1. PICK i \in 1 .. (Len(q) - 1) : q[i + 1] = c
    BY <1>1, <1>3 DEF Holds
  <2>2. i + 1 \in DOMAIN q /\ 1 \in DOMAIN q /\ i + 1 # 1
    BY <1>1
  <2>3. QED
    BY <1>1, <2>1, <2>2 DEF Holds, IsInjective
<1>4. ASSUME NEW c, c # Head(q), Holds(q, c) PROVE Holds(Tail(q), c)
  <2>1. PICK i \in 1 .. Len(q) : q[i] = c
    BY <1>1, <1>4 DEF Holds
  <2>2. i - 1 \in 1 .. (Len(q) - 1)
    BY <1>1, <1>4, <2>1
  <2>3. Tail(q)[i - 1] = c
    BY <1>1, <2>1, <2>2
  <2>4. QED
    BY <1>1, <2>2, <2>3 DEF Holds
<1>5. QED
  BY <1>1, <1>2, <1>3, <1>4

(* A call joins a queue it is not in. *)
LEMMA LastJoins ==
  ASSUME NEW S, NEW q \in Seq(S), NEW d \in S, IsInjective(q), ~Holds(q, d)
  PROVE  /\ Append(q, d) \in Seq(S) /\ IsInjective(Append(q, d))
         /\ \A c : Holds(Append(q, d), c) <=> c = d \/ Holds(q, c)
         /\ Append(q, d) # <<>> /\ (q # <<>> => Head(Append(q, d)) = Head(q))
<1>1. /\ Len(q) \in Nat /\ DOMAIN q = 1 .. Len(q) /\ Append(q, d) \in Seq(S)
      /\ Len(Append(q, d)) = Len(q) + 1 /\ DOMAIN Append(q, d) = 1 .. (Len(q) + 1)
      /\ \A i \in 1 .. Len(q) : Append(q, d)[i] = q[i]
      /\ Append(q, d)[Len(q) + 1] = d
  OBVIOUS
<1>2. IsInjective(Append(q, d))
  BY <1>1 DEF IsInjective, Holds
<1>3. ASSUME NEW c PROVE Holds(Append(q, d), c) <=> c = d \/ Holds(q, c)
  <2>1. ASSUME Holds(Append(q, d), c) PROVE c = d \/ Holds(q, c)
    BY <1>1, <2>1 DEF Holds
  <2>2. ASSUME c = d PROVE Holds(Append(q, d), c)
    BY <1>1, <2>2 DEF Holds
  <2>3. ASSUME Holds(q, c) PROVE Holds(Append(q, d), c)
    <3>1. PICK i \in 1 .. Len(q) : q[i] = c
      BY <1>1, <2>3 DEF Holds
    <3>2. i \in 1 .. (Len(q) + 1) /\ Append(q, d)[i] = c
      BY <1>1, <3>1
    <3>3. QED
      BY <1>1, <3>2 DEF Holds
  <2>4. QED
    BY <2>1, <2>2, <2>3
<1>4. Append(q, d) # <<>> /\ (q # <<>> => Head(Append(q, d)) = Head(q))
  BY <1>1
<1>5. QED
  BY <1>1, <1>2, <1>3, <1>4

-----------------------------------------------------------------------------
(* Types *)

QueueOK(p) ==
  /\ IsInjective(queue[p])
  /\ \A c \in Calls : Holds(queue[p], c) <=> ProcessOf[c] = p /\ pc[c] \in {"queued", "wait"}

BucketsOK ==
  /\ tokens \in [Processes -> Int] /\ \A p \in Processes : tokens[p] <= Full(p)
  /\ elapsed \in [Processes -> 0 .. MaxElapsed]

CallsOK ==
  /\ pc \in [Calls -> PCs] /\ timer \in [Calls -> Nat]
  /\ attempt \in [Calls -> 0 .. MaxRetries] /\ tried \in [Calls -> Nat]

CountsOK == sent \in [Processes -> [Ages -> Nat]] /\ restarted \in [Processes -> [Ages -> Nat]]

ScalarsOK == BucketsOK /\ queue \in [Processes -> Seq(Calls)] /\ CallsOK /\ CountsOK

LEMMA TypeParts == TypeOK <=> ScalarsOK /\ \A p \in Processes : QueueOK(p)
BY DEF TypeOK, ScalarsOK, BucketsOK, CallsOK, CountsOK, QueueOK, Holds

LEMMA Numbers ==
  /\ Capacity \in Nat /\ MaxRetries \in Nat /\ Second \in Nat \ {0} /\ BaseDelay \in Nat \ {0}
  /\ MaxElapsed \in Nat /\ 0 \in 0 .. MaxElapsed /\ 0 \in Ages
  /\ \A p \in Processes : Rate[p] \in Nat \ {0} /\ Rate[p] < Second
  /\ \A c \in Calls : ProcessOf[c] \in Processes
<1>1. /\ Capacity \in Nat /\ MaxRetries \in Nat /\ Second \in Nat \ {0} /\ BaseDelay \in Nat \ {0}
      /\ \A p \in Processes : Rate[p] \in 1 .. (Second - 1)
      /\ \A c \in Calls : ProcessOf[c] \in Processes
  BY SecAssumption
<1>2. MaxElapsed \in Nat
  BY <1>1 DEF MaxElapsed
<1>3. QED
  BY <1>1, <1>2 DEF Ages

(* What the bucket holds now, in numbers. *)
LEMMA Levels ==
  ASSUME ScalarsOK, NEW p \in Processes
  PROVE  /\ Rate[p] \in Nat \ {0} /\ Rate[p] < Second /\ Second \in Nat \ {0} /\ Full(p) \in Nat
         /\ tokens[p] \in Int /\ elapsed[p] \in Nat /\ tokens[p] <= Full(p)
         /\ elapsed[p] * Rate[p] \in Nat
         /\ Refilled(p) = IF Full(p) <= tokens[p] + elapsed[p] * Rate[p]
                          THEN Full(p) ELSE tokens[p] + elapsed[p] * Rate[p]
         /\ Refilled(p) \in Int /\ Refilled(p) <= Full(p) /\ Refilled(p) >= tokens[p]
<1>1. /\ Rate[p] \in Nat \ {0} /\ Rate[p] < Second /\ Second \in Nat \ {0} /\ Capacity \in Nat
      /\ tokens[p] \in Int /\ elapsed[p] \in Nat /\ tokens[p] <= Full(p)
  BY Numbers DEF ScalarsOK, BucketsOK
<1>2. Full(p) \in Nat
  BY <1>1 DEF Full
<1>3. elapsed[p] * Rate[p] \in Nat
  BY <1>1
<1>4. Refilled(p) = IF Full(p) <= tokens[p] + elapsed[p] * Rate[p]
                    THEN Full(p) ELSE tokens[p] + elapsed[p] * Rate[p]
  BY <1>1, <1>2, <1>3, MinOfTwo DEF Refilled
<1>5. QED
  BY <1>1, <1>2, <1>3, <1>4

(* The time a call waits brings the bucket to a token but for a tick's worth. *)
LEMMA WaitIsEnough ==
  ASSUME ScalarsOK, NEW p \in Processes, Refilled(p) < Second
  PROVE  /\ WaitTicks(p) \in Nat
         /\ Refilled(p) + WaitTicks(p) * Rate[p] > Second - Rate[p]
<1>1. /\ Rate[p] \in Nat \ {0} /\ Second - Refilled(p) \in Nat /\ Refilled(p) \in Int
      /\ Second \in Nat
  BY Levels
<1> DEFINE missing == Second - Refilled(p)
           q == missing \div Rate[p]
<1>2. q \in Nat /\ q * Rate[p] > missing - Rate[p]
  BY <1>1
<1>3. WaitTicks(p) = IF 1 >= q THEN 1 ELSE q
  BY <1>2, MaxOfTwo DEF WaitTicks
<1>4. CASE WaitTicks(p) = q
  BY <1>1, <1>2, <1>4
<1>5. CASE WaitTicks(p) = 1 /\ 1 >= q
  <2>1. 1 * Rate[p] >= q * Rate[p]
    <3>1. q = 0 \/ q = 1
      BY <1>2, <1>5
    <3>2. QED
      BY <1>1, <3>1
  <2>2. Refilled(p) + 1 * Rate[p] > Second - Rate[p]
    BY <1>1, <1>2, <2>1
  <2>3. QED
    BY <1>5, <2>2
<1>6. QED
  BY <1>3, <1>4, <1>5

(* A waiting call is the head of its queue, and the bucket will hold a token
   but for a tick's worth when its timer fires. *)
Paid(c) ==
  LET p == ProcessOf[c]
  IN pc[c] = "wait" => /\ queue[p] # <<>> /\ Head(queue[p]) = c
                       /\ tokens[p] + (elapsed[p] + timer[c]) * Rate[p] > Second - Rate[p]

(* What a call has sent, by where it is. *)
Counted(c) ==
  /\ pc[c] \in {"queued", "wait"} => tried[c] = attempt[c]
  /\ pc[c] \in {"fetch", "backoff"} => tried[c] = attempt[c] + 1
  /\ pc[c] = "backoff" => attempt[c] < MaxRetries
  /\ pc[c] = "done" => tried[c] = 0
  /\ pc[c] = "gave_up" => tried[c] = MaxRetries + 1

Inv ==
  /\ ScalarsOK
  /\ \A p \in Processes : QueueOK(p)
  /\ \A c \in Calls : Paid(c) /\ Counted(c)
  /\ DebtIsLessThanATick

(* A token is spent by the head of the queue, when the bucket holds one but for
   a tick's worth. *)
LEMMA SpendStep ==
  ASSUME Inv, NEW p \in Processes, NEW c \in Calls, ProcessOf[c] = p, pc[c] \in {"queued", "wait"},
         queue[p] # <<>>, Head(queue[p]) = c, Refilled(p) > Second - Rate[p], Spend(p, c)
  PROVE  Inv'
<1> USE DEF Inv
<1>1. /\ tokens' = [tokens EXCEPT ![p] = Refilled(p) - Second] /\ elapsed' = [elapsed EXCEPT ![p] = 0]
      /\ queue' = [queue EXCEPT ![p] = Tail(@)] /\ pc' = [pc EXCEPT ![c] = "fetch"]
      /\ sent' = [sent EXCEPT ![p][0] = @ + 1] /\ tried' = [tried EXCEPT ![c] = @ + 1]
      /\ UNCHANGED <<timer, attempt, restarted>>
  BY DEF Spend
<1>2. /\ Refilled(p) \in Int /\ Refilled(p) <= Full(p) /\ Second \in Nat \ {0} /\ Rate[p] \in Nat
      /\ Full(p) \in Nat
  BY Levels
<1>3. queue[p] \in Seq(Calls) /\ IsInjective(queue[p])
  BY DEF ScalarsOK, QueueOK
<1>4. /\ Tail(queue[p]) \in Seq(Calls) /\ IsInjective(Tail(queue[p]))
      /\ \A d : Holds(Tail(queue[p]), d) <=> d # c /\ Holds(queue[p], d)
  BY <1>3, HeadLeaves
<1>5. ScalarsOK'
  <2> USE DEF ScalarsOK
  <2>1. BucketsOK'
    <3>1. tokens' \in [Processes -> Int] /\ \A q \in Processes : tokens'[q] <= Full(q)
      BY <1>1, <1>2 DEF BucketsOK
    <3>2. elapsed' \in [Processes -> 0 .. MaxElapsed]
      BY <1>1, Numbers DEF BucketsOK
    <3>3. QED
      BY <3>1, <3>2 DEF BucketsOK, Full
  <2>2. CallsOK'
    BY <1>1 DEF CallsOK, PCs
  <2>3. CountsOK'
    <3>1. 0 \in Ages /\ sent[p] \in [Ages -> Nat]
      BY Numbers DEF CountsOK
    <3>2. [sent[p] EXCEPT ![0] = sent[p][0] + 1] \in [Ages -> Nat]
      BY <3>1
    <3>3. sent' = [sent EXCEPT ![p] = [sent[p] EXCEPT ![0] = sent[p][0] + 1]]
      BY <1>1
    <3>4. QED
      BY <1>1, <3>2, <3>3 DEF CountsOK
  <2>4. queue' \in [Processes -> Seq(Calls)]
    BY <1>1, <1>4
  <2>5. QED
    BY <2>1, <2>2, <2>3, <2>4
<1>6. /\ queue'[p] = Tail(queue[p]) /\ tokens'[p] = Refilled(p) - Second /\ pc'[c] = "fetch"
      /\ tried'[c] = tried[c] + 1
      /\ \A q \in Processes \ {p} : queue'[q] = queue[q] /\ tokens'[q] = tokens[q] /\ elapsed'[q] = elapsed[q]
      /\ \A d \in Calls \ {c} : pc'[d] = pc[d] /\ tried'[d] = tried[d]
  BY <1>1 DEF ScalarsOK, BucketsOK, CallsOK
<1>7. ASSUME NEW q \in Processes PROVE QueueOK(q)'
  <2>1. CASE q = p
    BY <1>4, <1>6, <2>1 DEF QueueOK
  <2>2. CASE q # p
    BY <1>6, <2>2 DEF QueueOK
  <2>3. QED
    BY <2>1, <2>2
<1>8. ASSUME NEW d \in Calls PROVE Paid(d)' /\ Counted(d)'
  <2>1. CASE d = c
    BY <1>1, <1>6, <2>1 DEF Paid, Counted
  <2>2. CASE d # c
    <3>1. pc[d] = "wait" => ProcessOf[d] # p
      BY <2>2 DEF Paid
    <3>2. ProcessOf[d] \in Processes
      BY Numbers
    <3>3. QED
      BY <1>1, <1>6, <2>2, <3>1, <3>2 DEF Paid, Counted
  <2>3. QED
    BY <2>1, <2>2
<1>9. DebtIsLessThanATick'
  BY <1>2, <1>6 DEF DebtIsLessThanATick
<1>10. QED
  BY <1>5, <1>7, <1>8, <1>9

(* A call joins its queue: as a new one, or to retry. *)
LEMMA JoinStep ==
  ASSUME Inv, NEW c \in Calls, pc[c] \notin {"queued", "wait"}, Join(c),
         attempt' \in [Calls -> 0 .. MaxRetries], tried' \in [Calls -> Nat],
         \A d \in Calls \ {c} : attempt'[d] = attempt[d] /\ tried'[d] = tried[d],
         tried'[c] = attempt'[c],
         UNCHANGED <<tokens, elapsed, timer, sent, restarted>>
  PROVE  Inv'
<1> USE DEF Inv, ScalarsOK
<1> DEFINE p == ProcessOf[c]
<1>1. p \in Processes /\ queue \in [Processes -> Seq(Calls)] /\ pc \in [Calls -> PCs]
  BY Numbers DEF CallsOK
<1>2. queue' = [queue EXCEPT ![p] = Append(queue[p], c)] /\ pc' = [pc EXCEPT ![c] = "queued"]
  BY DEF Join
<1>3. IsInjective(queue[p]) /\ ~Holds(queue[p], c)
  BY <1>1 DEF QueueOK
<1>4. /\ Append(queue[p], c) \in Seq(Calls) /\ IsInjective(Append(queue[p], c))
      /\ \A d : Holds(Append(queue[p], c), d) <=> d = c \/ Holds(queue[p], d)
      /\ queue[p] # <<>> => Append(queue[p], c) # <<>> /\ Head(Append(queue[p], c)) = Head(queue[p])
  <2>1. queue[p] \in Seq(Calls)
    BY <1>1
  <2>2. QED
    BY <1>3, <2>1, LastJoins
<1>5. /\ queue'[p] = Append(queue[p], c) /\ pc'[c] = "queued"
      /\ \A q \in Processes \ {p} : queue'[q] = queue[q]
      /\ \A d \in Calls \ {c} : pc'[d] = pc[d]
  BY <1>1, <1>2
<1>6. ScalarsOK'
  <2>1. queue' \in [Processes -> Seq(Calls)] /\ pc' \in [Calls -> PCs]
    BY <1>1, <1>2, <1>4 DEF PCs
  <2>2. BucketsOK' /\ CountsOK'
    BY DEF BucketsOK, CountsOK, Full
  <2>3. CallsOK'
    BY <2>1 DEF CallsOK
  <2>4. QED
    BY <2>1, <2>2, <2>3
<1>7. ASSUME NEW q \in Processes PROVE QueueOK(q)'
  <2>1. IsInjective(queue'[q])
    BY <1>4, <1>5 DEF QueueOK
  <2>2. ASSUME NEW d \in Calls
        PROVE  Holds(queue'[q], d) <=> ProcessOf[d] = q /\ pc'[d] \in {"queued", "wait"}
    <3>1. Holds(queue'[q], d) <=> (q = p /\ d = c) \/ Holds(queue[q], d)
      BY <1>4, <1>5
    <3>2. Holds(queue[q], d) <=> ProcessOf[d] = q /\ pc[d] \in {"queued", "wait"}
      BY DEF QueueOK
    <3>3. QED
      BY <1>5, <3>1, <3>2
  <2>3. QED
    BY <2>1, <2>2 DEF QueueOK, Holds
<1>8. ASSUME NEW d \in Calls PROVE Paid(d)' /\ Counted(d)'
  <2>1. CASE d = c
    BY <1>5, <2>1 DEF Paid, Counted
  <2>2. CASE d # c
    <3>1. ProcessOf[d] \in Processes
      BY Numbers
    <3>2. Counted(d)'
      BY <1>5, <2>2 DEF Counted
    <3>3. CASE ProcessOf[d] = p
      BY <1>4, <1>5, <2>2, <3>2, <3>3 DEF Paid
    <3>4. CASE ProcessOf[d] # p
      BY <1>5, <2>2, <3>1, <3>2, <3>4 DEF Paid
    <3>5. QED
      BY <3>3, <3>4
  <2>3. QED
    BY <2>1, <2>2
<1>9. QED
  BY <1>6, <1>7, <1>8 DEF DebtIsLessThanATick

(* A step of one call outside the queues. *)
LEMMA CallStep ==
  ASSUME Inv, NEW c \in Calls, pc[c] \in {"fetch", "backoff"},
         UNCHANGED <<tokens, elapsed, queue, attempt, sent, restarted>>,
         NEW st \in {"backoff", "done", "gave_up"}, pc' = [pc EXCEPT ![c] = st],
         NEW t \in Nat, timer' = [timer EXCEPT ![c] = t],
         NEW n \in Nat, tried' = [tried EXCEPT ![c] = n],
         st = "backoff" => n = attempt[c] + 1 /\ attempt[c] < MaxRetries,
         st = "done" => n = 0,
         st = "gave_up" => n = MaxRetries + 1
  PROVE  Inv'
<1> USE DEF Inv, ScalarsOK
<1>1. /\ pc' \in [Calls -> PCs] /\ timer' \in [Calls -> Nat] /\ tried' \in [Calls -> Nat]
      /\ pc'[c] = st /\ tried'[c] = n
      /\ \A d \in Calls \ {c} : pc'[d] = pc[d] /\ timer'[d] = timer[d] /\ tried'[d] = tried[d]
  BY DEF CallsOK, PCs, Ended
<1>2. BucketsOK' /\ CallsOK' /\ CountsOK'
  BY <1>1 DEF BucketsOK, CallsOK, CountsOK, Full
<1>3. \A q \in Processes : QueueOK(q)'
  BY <1>1 DEF QueueOK
<1>4. ASSUME NEW d \in Calls PROVE Paid(d)' /\ Counted(d)'
  BY <1>1 DEF Paid, Counted
<1>5. QED
  BY <1>2, <1>3, <1>4 DEF DebtIsLessThanATick

LEMMA AcquireStep ==
  ASSUME Inv, NEW p \in Processes, NEW c \in Calls, Acquire(p, c)
  PROVE  Inv'
<1> USE DEF Inv
<1>1. pc[c] = "queued" /\ queue[p] # <<>> /\ Head(queue[p]) = c /\ queue[p] \in Seq(Calls)
  BY DEF Acquire, Turn, ScalarsOK
<1>2. ProcessOf[c] = p
  <2>1. 1 \in DOMAIN queue[p] /\ queue[p][1] = c
    BY <1>1
  <2>2. QED
    BY <2>1 DEF QueueOK, Holds
<1>3. /\ Refilled(p) \in Int /\ Refilled(p) <= Full(p) /\ Refilled(p) >= tokens[p] /\ tokens[p] \in Int
      /\ Rate[p] \in Nat \ {0} /\ Second \in Nat
  BY Levels
<1>4. CASE Refilled(p) >= Second
  <2>1. Spend(p, c)
    BY <1>3, <1>4 DEF Acquire
  <2>2. Refilled(p) > Second - Rate[p]
    BY <1>3, <1>4
  <2>3. QED
    BY <1>1, <1>2, <2>1, <2>2, SpendStep
<1>5. CASE Refilled(p) < Second
  <2>1. /\ tokens' = [tokens EXCEPT ![p] = Refilled(p)] /\ elapsed' = [elapsed EXCEPT ![p] = 0]
        /\ pc' = [pc EXCEPT ![c] = "wait"] /\ timer' = [timer EXCEPT ![c] = WaitTicks(p)]
        /\ UNCHANGED <<queue, attempt, tried, sent, restarted>>
    BY <1>5 DEF Acquire
  <2>2. WaitTicks(p) \in Nat /\ Refilled(p) + WaitTicks(p) * Rate[p] > Second - Rate[p]
    BY <1>5, WaitIsEnough
  <2>3. /\ tokens'[p] = Refilled(p) /\ elapsed'[p] = 0 /\ pc'[c] = "wait" /\ timer'[c] = WaitTicks(p)
        /\ \A q \in Processes \ {p} : tokens'[q] = tokens[q] /\ elapsed'[q] = elapsed[q]
        /\ \A d \in Calls \ {c} : pc'[d] = pc[d] /\ timer'[d] = timer[d]
    BY <2>1 DEF ScalarsOK, BucketsOK, CallsOK
  <2>4. BucketsOK'
    <3>1. tokens' \in [Processes -> Int] /\ \A q \in Processes : tokens'[q] <= Full(q)
      BY <1>3, <2>1 DEF ScalarsOK, BucketsOK
    <3>2. elapsed' \in [Processes -> 0 .. MaxElapsed]
      BY <2>1, Numbers DEF ScalarsOK, BucketsOK
    <3>3. QED
      BY <3>1, <3>2 DEF BucketsOK, Full
  <2>5. CallsOK' /\ CountsOK' /\ queue' \in [Processes -> Seq(Calls)]
    BY <2>1, <2>2 DEF ScalarsOK, CallsOK, CountsOK, PCs
  <2>6. \A q \in Processes : QueueOK(q)'
    BY <1>1, <2>1, <2>3 DEF QueueOK
  <2>7. ASSUME NEW d \in Calls PROVE Paid(d)' /\ Counted(d)'
    <3>1. CASE d = c
      <4>1. (elapsed'[p] + timer'[c]) * Rate[p] = WaitTicks(p) * Rate[p]
        BY <2>2, <2>3
      <4>2. QED
        BY <1>1, <1>2, <2>1, <2>2, <2>3, <3>1, <4>1 DEF Paid, Counted
    <3>2. CASE d # c
      <4>1. pc[d] = "wait" => ProcessOf[d] # p
        BY <1>1, <3>2 DEF Paid
      <4>2. ProcessOf[d] \in Processes
        BY Numbers
      <4>3. QED
        BY <2>1, <2>3, <3>2, <4>1, <4>2 DEF Paid, Counted
    <3>3. QED
      BY <3>1, <3>2
  <2>8. DebtIsLessThanATick'
    BY <1>3, <2>3 DEF DebtIsLessThanATick
  <2>9. QED
    BY <2>4, <2>5, <2>6, <2>7, <2>8 DEF ScalarsOK
<1>6. QED
  BY <1>3, <1>4, <1>5

(* A timer that fires finds a token but for a tick's worth; a bucket that can
   hold no token would not. *)
LEMMA WakeStep ==
  ASSUME Inv, Capacity > 0, NEW p \in Processes, NEW c \in Calls, Wake(p, c)
  PROVE  Inv'
<1> USE DEF Inv
<1>1. pc[c] = "wait" /\ ProcessOf[c] = p /\ timer[c] = 0 /\ Spend(p, c)
  BY DEF Wake
<1>2. /\ queue[p] # <<>> /\ Head(queue[p]) = c
      /\ tokens[p] + (elapsed[p] + timer[c]) * Rate[p] > Second - Rate[p]
  BY <1>1 DEF Paid
<1>3. /\ tokens[p] \in Int /\ elapsed[p] \in Nat /\ Rate[p] \in Nat \ {0} /\ Second \in Nat \ {0}
      /\ elapsed[p] * Rate[p] \in Nat /\ Full(p) \in Nat
      /\ Refilled(p) = IF Full(p) <= tokens[p] + elapsed[p] * Rate[p]
                       THEN Full(p) ELSE tokens[p] + elapsed[p] * Rate[p]
  BY Levels
<1>4. tokens[p] + elapsed[p] * Rate[p] > Second - Rate[p]
  BY <1>1, <1>2, <1>3
<1>5. Full(p) >= Second
  <2>1. Capacity \in Nat /\ Capacity >= 1
    BY Numbers
  <2>2. QED
    BY <1>3, <2>1 DEF Full
<1>6. Refilled(p) > Second - Rate[p]
  BY <1>3, <1>4, <1>5
<1>7. QED
  BY <1>1, <1>2, <1>6, SpendStep

(* Time that passes makes up for the ticks of the timers. *)
LEMMA TickStep ==
  ASSUME Inv, Tick
  PROVE  Inv'
<1> USE DEF Inv
<1>1. /\ elapsed' = [p \in Processes |-> Min({elapsed[p] + 1, MaxElapsed})]
      /\ timer' = [c \in Calls |-> Max({timer[c] - 1, 0})]
      /\ sent' = [p \in Processes |-> Older(sent[p])] /\ restarted' = [p \in Processes |-> Older(restarted[p])]
      /\ UNCHANGED <<tokens, queue, pc, attempt, tried>>
  BY DEF Tick
<1>2. \A p \in Processes :
        /\ elapsed[p] \in Nat /\ elapsed[p] <= MaxElapsed /\ MaxElapsed \in Nat
        /\ elapsed'[p] = IF elapsed[p] + 1 <= MaxElapsed THEN elapsed[p] + 1 ELSE MaxElapsed
  <2> SUFFICES ASSUME NEW p \in Processes
               PROVE  /\ elapsed[p] \in Nat /\ elapsed[p] <= MaxElapsed /\ MaxElapsed \in Nat
                      /\ elapsed'[p] = IF elapsed[p] + 1 <= MaxElapsed THEN elapsed[p] + 1 ELSE MaxElapsed
    OBVIOUS
  <2>1. elapsed[p] \in Nat /\ elapsed[p] <= MaxElapsed /\ MaxElapsed \in Nat
    BY Numbers DEF ScalarsOK, BucketsOK
  <2>2. elapsed[p] + 1 \in Int /\ MaxElapsed \in Int
    BY <2>1
  <2>3. Min({elapsed[p] + 1, MaxElapsed}) = IF elapsed[p] + 1 <= MaxElapsed THEN elapsed[p] + 1 ELSE MaxElapsed
    BY <2>2, MinOfTwo
  <2>4. QED
    BY <1>1, <2>1, <2>3
<1>3. \A c \in Calls : /\ timer[c] \in Nat
                       /\ timer'[c] = IF timer[c] >= 1 THEN timer[c] - 1 ELSE 0
  <2> SUFFICES ASSUME NEW c \in Calls
               PROVE  /\ timer[c] \in Nat
                      /\ timer'[c] = IF timer[c] >= 1 THEN timer[c] - 1 ELSE 0
    OBVIOUS
  <2>1. timer[c] \in Nat
    BY DEF ScalarsOK, CallsOK
  <2>2. timer[c] - 1 \in Int /\ 0 \in Int
    BY <2>1
  <2>3. Max({timer[c] - 1, 0}) = IF timer[c] - 1 >= 0 THEN timer[c] - 1 ELSE 0
    BY <2>2, MaxOfTwo
  <2>4. timer'[c] = Max({timer[c] - 1, 0})
    BY <1>1
  <2>5. QED
    BY <2>1, <2>3, <2>4
<1>4. BucketsOK'
  <2>1. elapsed' \in [Processes -> 0 .. MaxElapsed]
    BY <1>1, <1>2
  <2>2. QED
    BY <1>1, <2>1 DEF ScalarsOK, BucketsOK, Full
<1>5. CallsOK'
  <2>1. timer' \in [Calls -> Nat]
    BY <1>1, <1>3
  <2>2. QED
    BY <1>1, <2>1 DEF ScalarsOK, CallsOK
<1>6. CountsOK'
  <2>1. ASSUME NEW f \in [Ages -> Nat] PROVE Older(f) \in [Ages -> Nat]
    <3>1. \A a \in Ages : a # 0 => a - 1 \in Ages
      BY Numbers DEF Ages
    <3>2. QED
      BY <3>1 DEF Older
  <2>2. QED
    BY <1>1, <2>1 DEF ScalarsOK, CountsOK
<1>7. \A q \in Processes : QueueOK(q)'
  BY <1>1 DEF QueueOK
<1>8. ASSUME NEW c \in Calls PROVE Paid(c)' /\ Counted(c)'
  <2>1. Counted(c)'
    BY <1>1 DEF Counted
  <2> DEFINE p == ProcessOf[c]
  <2>2. /\ p \in Processes /\ Rate[p] \in Nat \ {0} /\ Rate[p] < Second /\ Second \in Nat \ {0}
        /\ Capacity \in Nat
    BY Numbers
  <2>3. tokens[p] \in Int /\ tokens[p] > - Rate[p]
    BY <2>2 DEF ScalarsOK, BucketsOK, DebtIsLessThanATick
  <2>4. ASSUME pc[c] = "wait"
        PROVE  tokens[p] + (elapsed'[p] + timer'[c]) * Rate[p] > Second - Rate[p]
    <3>1. tokens[p] + (elapsed[p] + timer[c]) * Rate[p] > Second - Rate[p]
      BY <2>4 DEF Paid
    <3>2. elapsed[p] \in Nat /\ timer[c] \in Nat /\ elapsed'[p] \in Nat /\ timer'[c] \in Nat
      BY <1>2, <1>3, <2>2
    <3>3. CASE elapsed[p] + 1 <= MaxElapsed
      <4>1. elapsed'[p] + timer'[c] >= elapsed[p] + timer[c]
        BY <1>2, <1>3, <2>2, <3>3
      <4>2. (elapsed'[p] + timer'[c]) * Rate[p] >= (elapsed[p] + timer[c]) * Rate[p]
        BY <2>2, <3>2, <4>1
      <4>3. QED
        BY <2>2, <2>3, <3>1, <3>2, <4>2
    <3>4. CASE ~(elapsed[p] + 1 <= MaxElapsed)
      <4>1. elapsed'[p] + timer'[c] >= MaxElapsed
        BY <1>2, <2>2, <3>2, <3>4
      <4>2. MaxElapsed \in Nat /\ MaxElapsed >= Second
        BY <2>2 DEF MaxElapsed
      <4>3. (elapsed'[p] + timer'[c]) * Rate[p] >= elapsed'[p] + timer'[c]
        BY <2>2, <3>2
      <4>4. (elapsed'[p] + timer'[c]) * Rate[p] \in Int
        BY <2>2, <3>2
      <4>5. QED
        BY <2>2, <2>3, <3>2, <4>1, <4>2, <4>3, <4>4
    <3>5. QED
      BY <3>3, <3>4
  <2>5. Paid(c)'
    BY <1>1, <2>4 DEF Paid
  <2>6. QED
    BY <2>1, <2>5
<1>9. QED
  BY <1>1, <1>4, <1>5, <1>6, <1>7, <1>8 DEF ScalarsOK, DebtIsLessThanATick

LEMMA RestartStep ==
  ASSUME Inv, NEW p \in Processes, Restart(p)
  PROVE  Inv'
<1> USE DEF Inv
<1> DEFINE Own == {c \in Calls : ProcessOf[c] = p}
<1>1. /\ tokens' = [tokens EXCEPT ![p] = Full(p)] /\ elapsed' = [elapsed EXCEPT ![p] = 0]
      /\ queue' = [queue EXCEPT ![p] = <<>>]
      /\ pc' = [c \in Calls |-> IF ProcessOf[c] = p THEN "done" ELSE pc[c]]
      /\ timer' = [c \in Calls |-> IF ProcessOf[c] = p THEN 0 ELSE timer[c]]
      /\ attempt' = [c \in Calls |-> IF ProcessOf[c] = p THEN 0 ELSE attempt[c]]
      /\ tried' = [c \in Calls |-> IF ProcessOf[c] = p THEN 0 ELSE tried[c]]
      /\ restarted' = [restarted EXCEPT ![p][0] = @ + 1] /\ UNCHANGED sent
  BY DEF Restart
<1>2. Full(p) \in Nat /\ Rate[p] \in Nat \ {0}
  BY Levels
<1>3. BucketsOK'
  <2>1. tokens' \in [Processes -> Int] /\ \A q \in Processes : tokens'[q] <= Full(q)
    BY <1>1, <1>2 DEF ScalarsOK, BucketsOK
  <2>2. elapsed' \in [Processes -> 0 .. MaxElapsed]
    BY <1>1, Numbers DEF ScalarsOK, BucketsOK
  <2>3. QED
    BY <2>1, <2>2 DEF BucketsOK, Full
<1>4. CallsOK'
  BY <1>1, Numbers DEF ScalarsOK, CallsOK, PCs, Ended
<1>5. CountsOK'
  <2>1. 0 \in Ages /\ restarted[p] \in [Ages -> Nat]
    BY Numbers DEF ScalarsOK, CountsOK
  <2>2. [restarted[p] EXCEPT ![0] = restarted[p][0] + 1] \in [Ages -> Nat]
    BY <2>1
  <2>3. restarted' = [restarted EXCEPT ![p] = [restarted[p] EXCEPT ![0] = restarted[p][0] + 1]]
    BY <1>1
  <2>4. QED
    BY <1>1, <2>2, <2>3 DEF ScalarsOK, CountsOK
<1>6. /\ queue' \in [Processes -> Seq(Calls)] /\ queue'[p] = <<>>
      /\ \A q \in Processes \ {p} : queue'[q] = queue[q] /\ tokens'[q] = tokens[q] /\ elapsed'[q] = elapsed[q]
      /\ tokens'[p] = Full(p)
  <2>1. <<>> \in Seq(Calls)
    OBVIOUS
  <2>2. QED
    BY <1>1, <2>1 DEF ScalarsOK, BucketsOK
<1>7. ASSUME NEW q \in Processes PROVE QueueOK(q)'
  <2>1. CASE q = p
    <3>1. IsInjective(<<>>) /\ \A c : ~Holds(<<>>, c)
      BY DEF IsInjective, Holds
    <3>2. QED
      BY <1>1, <1>6, <2>1, <3>1 DEF QueueOK
  <2>2. CASE q # p
    BY <1>1, <1>6, <2>2 DEF QueueOK
  <2>3. QED
    BY <2>1, <2>2
<1>8. ASSUME NEW c \in Calls PROVE Paid(c)' /\ Counted(c)'
  <2>1. CASE ProcessOf[c] = p
    BY <1>1, <2>1 DEF Paid, Counted
  <2>2. CASE ProcessOf[c] # p
    <3>1. ProcessOf[c] \in Processes
      BY Numbers
    <3>2. QED
      BY <1>1, <1>6, <2>2, <3>1 DEF Paid, Counted
  <2>3. QED
    BY <2>1, <2>2
<1>9. DebtIsLessThanATick'
  BY <1>2, <1>6 DEF DebtIsLessThanATick
<1>10. QED
  BY <1>3, <1>4, <1>5, <1>6, <1>7, <1>8, <1>9 DEF ScalarsOK

LEMMA NextStep ==
  ASSUME Inv, Capacity > 0, [Next]_vars
  PROVE  Inv'
<1>1. ASSUME NEW c \in Calls, Call(c) PROVE Inv'
  <2>1. /\ pc[c] \in Ended /\ Join(c) /\ attempt' = [attempt EXCEPT ![c] = 0]
        /\ tried' = [tried EXCEPT ![c] = 0] /\ UNCHANGED <<tokens, elapsed, timer, sent, restarted>>
    BY <1>1 DEF Call
  <2>2. /\ attempt' \in [Calls -> 0 .. MaxRetries] /\ tried' \in [Calls -> Nat] /\ tried'[c] = attempt'[c]
        /\ \A d \in Calls \ {c} : attempt'[d] = attempt[d] /\ tried'[d] = tried[d]
    BY <2>1, Numbers DEF Inv, ScalarsOK, CallsOK
  <2>3. pc[c] \notin {"queued", "wait"}
    BY <2>1 DEF Ended
  <2>4. QED
    BY <2>1, <2>2, <2>3, JoinStep
<1>2. ASSUME NEW c \in Calls, Retry(c) PROVE Inv'
  <2>1. /\ pc[c] = "backoff" /\ Join(c) /\ attempt' = [attempt EXCEPT ![c] = @ + 1]
        /\ UNCHANGED <<tokens, elapsed, timer, tried, sent, restarted>>
    BY <1>2 DEF Retry
  <2>2. attempt[c] \in 0 .. MaxRetries /\ attempt[c] < MaxRetries /\ tried[c] = attempt[c] + 1
    BY <2>1 DEF Inv, ScalarsOK, CallsOK, Counted
  <2>3. /\ attempt' \in [Calls -> 0 .. MaxRetries] /\ tried' \in [Calls -> Nat] /\ tried'[c] = attempt'[c]
        /\ \A d \in Calls \ {c} : attempt'[d] = attempt[d] /\ tried'[d] = tried[d]
    BY <2>1, <2>2, Numbers DEF Inv, ScalarsOK, CallsOK
  <2>4. QED
    BY <2>1, <2>3, JoinStep
<1>3. ASSUME NEW c \in Calls, Backoff(c) PROVE Inv'
  <2>1. PICK d \in Delays(attempt[c]) : timer' = [timer EXCEPT ![c] = d]
    BY <1>3 DEF Backoff
  <2>2. d \in Nat
    BY <2>1 DEF Delays
  <2>3. /\ pc[c] = "fetch" /\ attempt[c] < MaxRetries /\ pc' = [pc EXCEPT ![c] = "backoff"]
        /\ UNCHANGED <<tokens, elapsed, queue, attempt, tried, sent, restarted>>
    BY <1>3 DEF Backoff
  <2>4. tried[c] \in Nat /\ tried[c] = attempt[c] + 1 /\ tried' = [tried EXCEPT ![c] = tried[c]]
    BY <2>3 DEF Inv, ScalarsOK, CallsOK, Counted
  <2>5. QED
    BY <2>1, <2>2, <2>3, <2>4, CallStep
<1>4. ASSUME NEW c \in Calls, End(c) PROVE Inv'
  <2>1. pc[c] = "fetch" /\ UNCHANGED <<tokens, elapsed, queue, timer, attempt, sent, restarted>>
    BY <1>4 DEF End
  <2>2. /\ timer[c] \in Nat /\ timer' = [timer EXCEPT ![c] = timer[c]]
        /\ tried[c] \in Nat /\ tried[c] = attempt[c] + 1 /\ tried = [tried EXCEPT ![c] = tried[c]]
    BY <2>1 DEF Inv, ScalarsOK, CallsOK, Counted
  <2>3. CASE pc' = [pc EXCEPT ![c] = "done"] /\ tried' = [tried EXCEPT ![c] = 0]
    BY <2>1, <2>2, <2>3, CallStep
  <2>4. CASE LastAttempt(c) /\ pc' = [pc EXCEPT ![c] = "gave_up"] /\ UNCHANGED tried
    <3>1. tried[c] = MaxRetries + 1 /\ tried' = [tried EXCEPT ![c] = tried[c]]
      BY <2>2, <2>4 DEF LastAttempt
    <3>2. QED
      BY <2>1, <2>2, <2>4, <3>1, CallStep
  <2>5. QED
    BY <1>4, <2>3, <2>4 DEF End
<1>5. CASE UNCHANGED vars
  BY <1>5 DEF vars, Inv, ScalarsOK, BucketsOK, CallsOK, CountsOK, QueueOK, Paid, Counted, DebtIsLessThanATick, Full
<1>6. QED
  BY <1>1, <1>2, <1>3, <1>4, <1>5, AcquireStep, WakeStep, RestartStep, TickStep DEF Next, Step

LEMMA InvHolds ==
  ASSUME Capacity > 0
  PROVE  Spec => []Inv
<1>1. ASSUME Init PROVE Inv
  <2>1. \A p \in Processes : Full(p) \in Nat /\ Rate[p] \in Nat \ {0}
    BY Numbers DEF Full
  <2>2. BucketsOK /\ CallsOK /\ CountsOK /\ DebtIsLessThanATick
    BY <1>1, <2>1, Numbers DEF Init, BucketsOK, CallsOK, CountsOK, PCs, Ended, DebtIsLessThanATick
  <2>3. queue \in [Processes -> Seq(Calls)] /\ \A p \in Processes : QueueOK(p)
    <3>1. <<>> \in Seq(Calls) /\ IsInjective(<<>>) /\ \A c : ~Holds(<<>>, c)
      BY DEF IsInjective, Holds
    <3>2. QED
      BY <1>1, <3>1 DEF Init, QueueOK
  <2>4. \A c \in Calls : Paid(c) /\ Counted(c)
    BY <1>1 DEF Init, Paid, Counted
  <2>5. QED
    BY <2>2, <2>3, <2>4 DEF Inv, ScalarsOK
<1>2. ASSUME Inv, [Next]_vars PROVE Inv'
  BY <1>2, NextStep
<1>3. QED
  BY <1>1, <1>2, PTL DEF Spec

(* Every variable keeps its type, no bucket holds more than its capacity, and
   a queue is made of the calls that wait in it, each once. *)
THEOREM TypeCorrect ==
  ASSUME Capacity > 0
  PROVE  Spec => []TypeOK
BY InvHolds, TypeParts, PTL DEF Inv

(* However calls compete, wait and are retried, a bucket that can hold a token
   is never overdrawn by more than the fraction of a tick a timer dropped. *)
THEOREM OverdraftIsBounded ==
  ASSUME Capacity > 0
  PROVE  Spec => []DebtIsLessThanATick
BY InvHolds, PTL DEF Inv

(* A call gives up only after MaxRetries retries, and sends no more requests. *)
THEOREM GivingUpIsEarned ==
  ASSUME Capacity > 0
  PROVE  Spec => []GivesUpAfterEveryRetry
<1>1. ASSUME Inv PROVE GivesUpAfterEveryRetry
  <2> SUFFICES ASSUME NEW c \in Calls
               PROVE  tried[c] <= MaxRetries + 1 /\ (pc[c] = "gave_up" => tried[c] = MaxRetries + 1)
    BY DEF GivesUpAfterEveryRetry
  <2>1. /\ pc[c] \in PCs /\ attempt[c] \in 0 .. MaxRetries /\ tried[c] \in Nat /\ MaxRetries \in Nat
        /\ Counted(c)
    BY <1>1, Numbers DEF Inv, ScalarsOK, CallsOK
  <2>2. QED
    BY <2>1 DEF Counted, PCs, Ended
<1>2. QED
  BY <1>1, InvHolds, PTL
-----------------------------------------------------------------------------
(* Requests in a second *)

Sent(p, a) == SumFunctionOnSet(sent[p], 0 .. a)
Restarts(p, a) == SumFunctionOnSet(restarted[p], 0 .. a)

(* In the last a ticks a process spends no more than a full bucket and what
   came in, and each restart brings no more than a full bucket and the debt it
   forgets.  What the bucket still holds is not spent. *)
Metered(p) ==
  /\ Restarts(p, Second) <= MaxRestarts
  /\ \A a \in Ages : Second * Sent(p, a) + Refilled(p)
                       <= Full(p) + Rate[p] * a + (Full(p) + Rate[p] - 1) * Restarts(p, a)

AllMetered == \A p \in Processes : Metered(p)

(* The numbers in it. *)
LEMMA Meters ==
  ASSUME Inv, NEW p \in Processes
  PROVE  /\ sent[p] \in [0 .. Second -> Nat] /\ restarted[p] \in [0 .. Second -> Nat]
         /\ \A a \in Ages : a \in Nat /\ Sent(p, a) \in Nat /\ Restarts(p, a) \in Nat
         /\ Second \in Nat \ {0} /\ Full(p) \in Nat /\ Rate[p] \in Nat \ {0} /\ Refilled(p) \in Int
         /\ Refilled(p) <= Full(p) /\ Refilled(p) > - Rate[p] /\ Second \in Ages
<1>1. sent[p] \in [0 .. Second -> Nat] /\ restarted[p] \in [0 .. Second -> Nat] /\ Second \in Nat \ {0}
  BY Numbers DEF Inv, ScalarsOK, CountsOK, Ages
<1>2. \A a \in Ages : Sent(p, a) \in Nat
  BY <1>1, PrefixSums DEF Sent, Ages
<1>3. \A a \in Ages : Restarts(p, a) \in Nat
  BY <1>1, PrefixSums DEF Restarts, Ages
<1>4. /\ Full(p) \in Nat /\ Rate[p] \in Nat \ {0} /\ Refilled(p) \in Int /\ Refilled(p) <= Full(p)
      /\ Refilled(p) >= tokens[p] /\ tokens[p] \in Int
  BY Levels DEF Inv
<1>5. Refilled(p) > - Rate[p]
  BY <1>4 DEF Inv, DebtIsLessThanATick
<1>6. QED
  BY <1>1, <1>2, <1>3, <1>4, <1>5 DEF Ages

(* The arithmetic of a tick and of a restart: level v becomes w. *)
LEMMA TickInNumbers ==
  ASSUME NEW second \in Nat, NEW full \in Nat, NEW rate \in Nat, NEW n \in Nat, NEW m \in Nat, NEW a \in Nat,
         NEW v \in Int, NEW w \in Int, w <= v + rate,
         second * n + v <= full + rate * a + (full + rate - 1) * m
  PROVE  second * n + w <= full + rate * (a + 1) + (full + rate - 1) * m
<1>1. second * n \in Int /\ rate * a \in Int /\ (full + rate - 1) * m \in Int
  OBVIOUS
<1>2. rate * (a + 1) = rate * a + rate
  OBVIOUS
<1>3. QED
  BY <1>1, <1>2

LEMMA RestartInNumbers ==
  ASSUME NEW second \in Nat, NEW full \in Nat, NEW rate \in Nat, NEW n \in Nat, NEW m \in Nat, NEW a \in Nat,
         NEW v \in Int, v > - rate,
         second * n + v <= full + rate * a + (full + rate - 1) * m
  PROVE  second * n + full <= full + rate * a + (full + rate - 1) * (m + 1)
<1>1. PICK cost \in Int : cost = full + rate - 1
  OBVIOUS
<1>2. second * n \in Int /\ rate * a \in Int /\ cost * m \in Int
  BY <1>1
<1>3. cost * (m + 1) = cost * m + cost
  BY <1>1
<1>4. full <= v + cost
  BY <1>1
<1>5. second * n + v <= full + rate * a + cost * m
  BY <1>1
<1>6. second * n + full <= full + rate * a + cost * (m + 1)
  BY <1>2, <1>3, <1>4, <1>5
<1>7. QED
  BY <1>1, <1>6

(* A level that time raises, with the capacity and the age of the refill capped. *)
LEMMA LevelInNumbers ==
  ASSUME NEW full \in Nat, NEW rate \in Nat, NEW n \in Int, NEW e \in Nat, NEW f \in {e, e + 1},
         NEW v, v = Min({full, n + e * rate}), NEW w, w = Min({full, n + f * rate})
  PROVE  w \in Int /\ w <= full /\ w <= v + rate
<1>1. f \in Nat /\ (f = e \/ f = e + 1)
  OBVIOUS
<1>2. e * rate \in Int /\ (f * rate = e * rate \/ f * rate = e * rate + rate)
  <2>1. (e + 1) * rate = e * rate + rate
    OBVIOUS
  <2>2. QED
    BY <1>1, <2>1
<1>3. PICK x \in Int, y \in Int : x = n + e * rate /\ y = n + f * rate /\ (y = x \/ y = x + rate)
  BY <1>2
<1>4. /\ Min({full, x}) = IF full <= x THEN full ELSE x
      /\ Min({full, y}) = IF full <= y THEN full ELSE y
  BY MinOfTwo
<1>5. QED
  BY <1>3, <1>4

(* The arithmetic of a second: debts that restarts forget add up to less than
   a token. *)
LEMMA ShareInNumbers ==
  ASSUME NEW second \in Nat \ {0}, NEW capacity \in Nat, NEW rate \in Nat \ {0}, NEW n \in Nat, NEW m \in Nat,
         NEW most \in Nat, m <= most, (most + 1) * (rate - 1) < second,
         NEW v \in Int, v > - rate,
         second * n + v <= capacity * second + rate * second + (capacity * second + rate - 1) * m
  PROVE  n <= rate + capacity + capacity * m
<1>1. PICK d \in Nat : d = rate - 1
  OBVIOUS
<1>2. PICK x \in Nat : x = rate + capacity + capacity * m
  <2>1. capacity * m \in Nat
    OBVIOUS
  <2>2. QED
    BY <2>1
<1>3. (m + 1) * d <= (most + 1) * d
  <2>1. PICK k \in Nat : most = m + k
    <3>1. most - m \in Nat /\ most = m + (most - m)
      OBVIOUS
    <3>2. QED
      BY <3>1
  <2>2. (m + k + 1) * d = (m + 1) * d + k * d /\ k * d \in Nat /\ (m + 1) * d \in Nat
    BY <1>1
  <2>3. QED
    BY <2>1, <2>2
<1>4. (m + 1) * d < second /\ (m + 1) * d \in Nat
  BY <1>1, <1>3
<1>5. capacity * second + rate * second + (capacity * second + rate - 1) * m = second * x + d * m
  <2>1. (capacity * second + rate - 1) * m = (capacity * second) * m + d * m
    BY <1>1
  <2>2. second * x = second * rate + second * capacity + second * (capacity * m)
    BY <1>2
  <2>3. second * (capacity * m) = (capacity * second) * m
    OBVIOUS
  <2>4. second * rate = rate * second /\ second * capacity = capacity * second
    OBVIOUS
  <2>5. QED
    BY <2>1, <2>2, <2>3, <2>4
<1>6. (m + 1) * d = d * m + d
  BY <1>1
<1>7. second * n < second * x + second
  <2>1. second * n \in Int /\ second * x \in Int /\ d * m \in Int
    BY <1>1, <1>2
  <2>2. second * n + v <= second * x + d * m
    BY <1>5
  <2>3. v >= - d
    BY <1>1
  <2>4. QED
    BY <1>4, <1>6, <2>1, <2>2, <2>3
<1>8. ASSUME n >= x + 1 PROVE FALSE
  <2>1. second * (x + 1) = second * x + second
    BY <1>2
  <2>2. second * n >= second * (x + 1)
    <3>1. PICK k \in Nat : n = (x + 1) + k
      <4>1. n - (x + 1) \in Nat /\ n = (x + 1) + (n - (x + 1))
        BY <1>2, <1>8
      <4>2. QED
        BY <4>1
    <3>2. second * n = second * (x + 1) + second * k /\ second * k \in Nat /\ second * (x + 1) \in Int
      BY <1>2, <3>1
    <3>3. QED
      BY <3>2
  <2>3. second * n \in Int /\ second * x \in Int
    BY <1>2
  <2>4. QED
    BY <1>7, <2>1, <2>2, <2>3
<1>9. QED
  BY <1>2, <1>8

(* A bucket that neither spends nor fills keeps within its meter. *)
LEMMA MeterRests ==
  ASSUME NEW p \in Processes, Metered(p), sent'[p] = sent[p], restarted'[p] = restarted[p],
         tokens'[p] = tokens[p], elapsed'[p] = elapsed[p]
  PROVE  Metered(p)'
<1>1. Refilled(p)' = Refilled(p) /\ \A a : Sent(p, a)' = Sent(p, a) /\ Restarts(p, a)' = Restarts(p, a)
  BY DEF Refilled, Full, Sent, Restarts
<1>2. QED
  BY <1>1 DEF Metered, Full

(* What a bucket holds once it is written down, with no time since. *)
LEMMA JustRefilled ==
  ASSUME NEW p \in Processes, Full(p) \in Nat, Rate[p] \in Nat,
         NEW n \in Int, n <= Full(p), tokens'[p] = n, elapsed'[p] = 0
  PROVE  Refilled(p)' = n
<1>1. Refilled(p)' = Min({Full(p), n + 0 * Rate[p]})
  BY DEF Refilled, Full
<1>2. n + 0 * Rate[p] = n
  OBVIOUS
<1>3. QED
  BY <1>1, <1>2, MinOfTwo

LEMMA MeteredSpend ==
  ASSUME Inv, NEW p \in Processes, Metered(p), NEW c \in Calls, Spend(p, c)
  PROVE  Metered(p)'
<1>1. /\ tokens' = [tokens EXCEPT ![p] = Refilled(p) - Second] /\ elapsed' = [elapsed EXCEPT ![p] = 0]
      /\ sent' = [sent EXCEPT ![p][0] = @ + 1] /\ restarted' = restarted
  BY DEF Spend
<1>2. /\ sent[p] \in [0 .. Second -> Nat]
      /\ \A a \in Ages : a \in Nat /\ Sent(p, a) \in Nat /\ Restarts(p, a) \in Nat
      /\ Second \in Nat \ {0} /\ Full(p) \in Nat /\ Rate[p] \in Nat \ {0} /\ Refilled(p) \in Int
      /\ Refilled(p) <= Full(p)
  BY Meters
<1>3. Refilled(p)' = Refilled(p) - Second
  <2>1. tokens'[p] = Refilled(p) - Second /\ elapsed'[p] = 0
    BY <1>1 DEF Inv, ScalarsOK, BucketsOK
  <2>2. QED
    BY <1>2, <2>1, JustRefilled
<1>4. ASSUME NEW a \in Ages PROVE Sent(p, a)' = Sent(p, a) + 1 /\ Restarts(p, a)' = Restarts(p, a)
  <2>1. sent'[p] = [sent[p] EXCEPT ![0] = @ + 1]
    BY <1>1 DEF Inv, ScalarsOK, CountsOK
  <2>2. a \in 0 .. Second
    BY DEF Ages
  <2>3. SumFunctionOnSet([sent[p] EXCEPT ![0] = @ + 1], 0 .. a) = SumFunctionOnSet(sent[p], 0 .. a) + 1
    BY <1>2, <2>2, OneMoreNow
  <2>4. QED
    BY <1>1, <2>1, <2>3 DEF Sent, Restarts
<1>5. ASSUME NEW a \in Ages
      PROVE  Second * Sent(p, a)' + Refilled(p)' = Second * Sent(p, a) + Refilled(p)
  <2>1. Second * (Sent(p, a) + 1) = Second * Sent(p, a) + Second
    BY <1>2
  <2>2. QED
    BY <1>2, <1>3, <1>4, <2>1
<1>6. Second \in Ages
  BY Meters
<1>7. QED
  BY <1>4, <1>5, <1>6 DEF Metered, Full

(* A tick of time brings no more than the rate, and what happened is a tick
   older. *)
LEMMA MeteredTick ==
  ASSUME Inv, NEW p \in Processes, Metered(p), Tick
  PROVE  Metered(p)'
<1>1. /\ tokens' = tokens /\ elapsed'[p] = Min({elapsed[p] + 1, MaxElapsed})
      /\ sent'[p] = Older(sent[p]) /\ restarted'[p] = Older(restarted[p])
  BY DEF Tick
<1>2. /\ sent[p] \in [0 .. Second -> Nat] /\ restarted[p] \in [0 .. Second -> Nat]
      /\ \A a \in Ages : a \in Nat /\ Sent(p, a) \in Nat /\ Restarts(p, a) \in Nat
      /\ Second \in Nat \ {0} /\ Full(p) \in Nat /\ Rate[p] \in Nat \ {0} /\ Refilled(p) \in Int
      /\ Refilled(p) <= Full(p)
  BY Meters
<1>3. Refilled(p)' \in Int /\ Refilled(p)' <= Refilled(p) + Rate[p] /\ Refilled(p)' <= Full(p)
  <2>1. tokens[p] \in Int /\ elapsed[p] \in Nat /\ elapsed[p] <= MaxElapsed /\ MaxElapsed \in Nat
    BY Levels, Numbers DEF Inv, ScalarsOK, BucketsOK
  <2>2. elapsed'[p] = IF elapsed[p] + 1 <= MaxElapsed THEN elapsed[p] + 1 ELSE MaxElapsed
    BY <1>1, <2>1, MinOfTwo
  <2>3. /\ Refilled(p) = Min({Full(p), tokens[p] + elapsed[p] * Rate[p]})
        /\ Refilled(p)' = Min({Full(p), tokens[p] + elapsed'[p] * Rate[p]})
    BY <1>1 DEF Refilled, Full
  <2>4. Rate[p] \in Nat /\ elapsed'[p] \in {elapsed[p], elapsed[p] + 1}
    BY <1>2, <2>1, <2>2
  <2>5. QED
    BY <1>2, <2>1, <2>2, <2>3, <2>4, LevelInNumbers
<1>4. ASSUME NEW f \in [0 .. Second -> Nat]
      PROVE  /\ SumFunctionOnSet(Older(f), 0 .. 0) = 0
             /\ \A a \in 1 .. Second : SumFunctionOnSet(Older(f), 0 .. a) = SumFunctionOnSet(f, 0 .. (a - 1))
  <2>1. IsOlder(Older(f), f, Second)
    <3>1. Older(f) = [a \in 0 .. Second |-> IF a = 0 THEN 0 ELSE f[a - 1]]
      BY DEF Older, Ages
    <3>2. ASSUME NEW a \in 0 .. Second, a # 0 PROVE a - 1 \in 0 .. Second /\ f[a - 1] \in Nat
      <4>1. a - 1 \in 0 .. Second
        BY <1>2, <3>2
      <4>2. QED
        BY <4>1
    <3>3. Older(f) \in [0 .. Second -> Nat]
      BY <3>1, <3>2
    <3>4. Older(f)[0] = 0
      BY <1>2, <3>1
    <3>5. ASSUME NEW a \in 0 .. Second, a + 1 <= Second PROVE Older(f)[a + 1] = f[a]
      <4>1. a + 1 \in 0 .. Second /\ a + 1 # 0 /\ (a + 1) - 1 = a
        BY <1>2, <3>5
      <4>2. QED
        BY <3>1, <4>1
    <3>6. QED
      BY <3>3, <3>4, <3>5 DEF IsOlder
  <2>2. Second \in Nat
    BY <1>2
  <2>3. QED
    BY <2>1, <2>2, OneTickOlder
<1>5. /\ Sent(p, 0)' = 0 /\ Restarts(p, 0)' = 0
      /\ \A a \in 1 .. Second : Sent(p, a)' = Sent(p, a - 1) /\ Restarts(p, a)' = Restarts(p, a - 1)
  BY <1>1, <1>2, <1>4 DEF Sent, Restarts
<1>6. Restarts(p, Second)' <= MaxRestarts
  <2>1. Second \in 1 .. Second /\ Second \in 0 .. Second /\ Second > 0 /\ Second - 1 \in Ages
    BY <1>2 DEF Ages
  <2>2. Restarts(p, Second) = restarted[p][Second] + Restarts(p, Second - 1) /\ restarted[p][Second] \in Nat
    BY <1>2, <2>1, PrefixSums DEF Restarts
  <2>3. Restarts(p, Second) <= MaxRestarts /\ MaxRestarts \in Nat
    BY SecAssumption DEF Metered
  <2>4. Restarts(p, Second)' = Restarts(p, Second - 1) /\ Restarts(p, Second - 1) \in Nat
    BY <1>2, <1>5, <2>1
  <2>5. QED
    BY <2>2, <2>3, <2>4
<1>7. ASSUME NEW a \in Ages
      PROVE  Second * Sent(p, a)' + Refilled(p)'
               <= Full(p) + Rate[p] * a + (Full(p) + Rate[p] - 1) * Restarts(p, a)'
  <2>1. CASE a = 0
    BY <1>2, <1>3, <1>5, <2>1
  <2>2. CASE a # 0
    <3>1. PICK b \in Ages : a = b + 1
      <4>1. a - 1 \in Ages /\ a = (a - 1) + 1
        BY <1>2, <2>2 DEF Ages
      <4>2. QED
        BY <4>1
    <3>2. Sent(p, a)' = Sent(p, b) /\ Restarts(p, a)' = Restarts(p, b)
      <4>1. a \in 1 .. Second /\ a - 1 = b
        BY <1>2, <2>2, <3>1 DEF Ages
      <4>2. QED
        BY <1>5, <4>1
    <3>3. Second * Sent(p, b) + Refilled(p)
            <= Full(p) + Rate[p] * b + (Full(p) + Rate[p] - 1) * Restarts(p, b)
      BY DEF Metered
    <3>4. b \in Nat /\ Sent(p, b) \in Nat /\ Restarts(p, b) \in Nat /\ Rate[p] \in Nat /\ Second \in Nat
      BY <1>2
    <3>5. Second * Sent(p, b) + Refilled(p)'
            <= Full(p) + Rate[p] * (b + 1) + (Full(p) + Rate[p] - 1) * Restarts(p, b)
      BY <1>2, <1>3, <3>3, <3>4, TickInNumbers
    <3>6. QED
      BY <3>1, <3>2, <3>5
  <2>3. QED
    BY <2>1, <2>2
<1>8. QED
  BY <1>6, <1>7 DEF Metered, Full

(* A restart forgets a debt of less than a tick's worth. *)
LEMMA MeteredRestart ==
  ASSUME Inv, NEW p \in Processes, Metered(p), Restart(p)
  PROVE  Metered(p)'
<1>1. /\ tokens' = [tokens EXCEPT ![p] = Full(p)] /\ elapsed' = [elapsed EXCEPT ![p] = 0]
      /\ restarted' = [restarted EXCEPT ![p][0] = @ + 1] /\ sent' = sent
      /\ SumFunction(restarted[p]) < MaxRestarts
  BY DEF Restart
<1>2. /\ restarted[p] \in [0 .. Second -> Nat]
      /\ \A a \in Ages : a \in Nat /\ Sent(p, a) \in Nat /\ Restarts(p, a) \in Nat
      /\ Second \in Nat \ {0} /\ Full(p) \in Nat /\ Rate[p] \in Nat \ {0} /\ Refilled(p) \in Int
      /\ Refilled(p) > - Rate[p] /\ Second \in Ages
  BY Meters
<1>3. Refilled(p)' = Full(p)
  <2>1. tokens'[p] = Full(p) /\ elapsed'[p] = 0
    BY <1>1 DEF Inv, ScalarsOK, BucketsOK
  <2>2. QED
    BY <1>2, <2>1, JustRefilled
<1>4. ASSUME NEW a \in Ages PROVE Sent(p, a)' = Sent(p, a) /\ Restarts(p, a)' = Restarts(p, a) + 1
  <2>1. restarted'[p] = [restarted[p] EXCEPT ![0] = @ + 1]
    BY <1>1 DEF Inv, ScalarsOK, CountsOK
  <2>2. a \in 0 .. Second
    BY DEF Ages
  <2>3. SumFunctionOnSet([restarted[p] EXCEPT ![0] = @ + 1], 0 .. a) = SumFunctionOnSet(restarted[p], 0 .. a) + 1
    BY <1>2, <2>2, OneMoreNow
  <2>4. QED
    BY <1>1, <2>1, <2>3 DEF Sent, Restarts
<1>5. Restarts(p, Second)' <= MaxRestarts
  <2>1. SumFunction(restarted[p]) = Restarts(p, Second)
    BY <1>2 DEF SumFunction, Restarts
  <2>2. MaxRestarts \in Nat
    BY SecAssumption
  <2>3. QED
    BY <1>1, <1>2, <1>4, <2>1, <2>2
<1>6. ASSUME NEW a \in Ages
      PROVE  Second * Sent(p, a)' + Refilled(p)'
               <= Full(p) + Rate[p] * a + (Full(p) + Rate[p] - 1) * Restarts(p, a)'
  <2>1. Second * Sent(p, a) + Refilled(p)
          <= Full(p) + Rate[p] * a + (Full(p) + Rate[p] - 1) * Restarts(p, a)
    BY DEF Metered
  <2>2. a \in Nat /\ Sent(p, a) \in Nat /\ Restarts(p, a) \in Nat /\ Rate[p] \in Nat /\ Second \in Nat
    BY <1>2
  <2>3. Second * Sent(p, a) + Full(p)
          <= Full(p) + Rate[p] * a + (Full(p) + Rate[p] - 1) * (Restarts(p, a) + 1)
    BY <1>2, <2>1, <2>2, RestartInNumbers
  <2>4. QED
    BY <1>3, <1>4, <2>3
<1>7. QED
  BY <1>5, <1>6 DEF Metered, Full

LEMMA MeteredStep ==
  ASSUME Inv, AllMetered, [Next]_vars
  PROVE  AllMetered'
<1> SUFFICES ASSUME NEW p \in Processes, Metered(p) PROVE Metered(p)'
  BY DEF AllMetered
<1>1. ASSUME NEW q \in Processes, NEW c \in Calls, Spend(q, c) PROVE Metered(p)'
  <2>1. CASE q = p
    BY <1>1, <2>1, MeteredSpend
  <2>2. CASE q # p
    <3>1. /\ sent'[p] = sent[p] /\ restarted'[p] = restarted[p]
          /\ tokens'[p] = tokens[p] /\ elapsed'[p] = elapsed[p]
      BY <1>1, <2>2 DEF Spend, Inv, ScalarsOK, BucketsOK, CountsOK
    <3>2. QED
      BY <3>1, MeterRests
  <2>3. QED
    BY <2>1, <2>2
<1>2. ASSUME NEW q \in Processes, NEW c \in Calls, Acquire(q, c) PROVE Metered(p)'
  <2>1. CASE Refilled(q) < Second
    <3>1. /\ tokens' = [tokens EXCEPT ![q] = Refilled(q)] /\ elapsed' = [elapsed EXCEPT ![q] = 0]
          /\ sent' = sent /\ restarted' = restarted
      BY <1>2, <2>1 DEF Acquire
    <3>2. CASE q = p
      <4>1. tokens'[p] = Refilled(p) /\ elapsed'[p] = 0
        BY <3>1, <3>2 DEF Inv, ScalarsOK, BucketsOK
      <4>2. Refilled(p)' = Refilled(p)
        BY <4>1, Meters, JustRefilled
      <4>3. \A a : Sent(p, a)' = Sent(p, a) /\ Restarts(p, a)' = Restarts(p, a)
        BY <3>1 DEF Sent, Restarts
      <4>4. QED
        BY <4>2, <4>3 DEF Metered, Full
    <3>3. CASE q # p
      <4>1. tokens'[p] = tokens[p] /\ elapsed'[p] = elapsed[p]
        BY <3>1, <3>3 DEF Inv, ScalarsOK, BucketsOK
      <4>2. QED
        BY <3>1, <4>1, MeterRests
    <3>4. QED
      BY <3>2, <3>3
  <2>2. CASE ~(Refilled(q) < Second)
    BY <1>1, <1>2, <2>2 DEF Acquire
  <2>3. QED
    BY <2>1, <2>2
<1>3. ASSUME NEW q \in Processes, Restart(q) PROVE Metered(p)'
  <2>1. CASE q = p
    BY <1>3, <2>1, MeteredRestart
  <2>2. CASE q # p
    <3>1. /\ sent'[p] = sent[p] /\ restarted'[p] = restarted[p]
          /\ tokens'[p] = tokens[p] /\ elapsed'[p] = elapsed[p]
      BY <1>3, <2>2 DEF Restart, Inv, ScalarsOK, BucketsOK, CountsOK
    <3>2. QED
      BY <3>1, MeterRests
  <2>3. QED
    BY <2>1, <2>2
<1>4. ASSUME NEW c \in Calls, Call(c) \/ Backoff(c) \/ Retry(c) \/ End(c) PROVE Metered(p)'
  <2>1. UNCHANGED <<tokens, elapsed, sent, restarted>>
    BY <1>4 DEF Call, Backoff, Retry, End
  <2>2. QED
    BY <2>1, MeterRests
<1>5. CASE UNCHANGED vars
  BY <1>5, MeterRests DEF vars
<1>6. CASE Tick
  BY <1>6, MeteredTick
<1>7. QED
  BY <1>1, <1>2, <1>3, <1>4, <1>5, <1>6 DEF Next, Step, Wake

(* What a process has sent in a second. *)
LEMMA ShareKept ==
  ASSUME Inv, NEW p \in Processes, Metered(p)
  PROVE  /\ SumFunction(sent[p]) \in Nat /\ SumFunction(restarted[p]) \in Nat
         /\ SumFunction(sent[p]) <= Rate[p] + Capacity + Capacity * SumFunction(restarted[p])
<1>1. /\ sent[p] \in [0 .. Second -> Nat] /\ restarted[p] \in [0 .. Second -> Nat]
      /\ Second \in Nat \ {0} /\ Rate[p] \in Nat \ {0} /\ Refilled(p) \in Int /\ Refilled(p) > - Rate[p]
      /\ Second \in Ages /\ Sent(p, Second) \in Nat /\ Restarts(p, Second) \in Nat
  BY Meters
<1>2. SumFunction(sent[p]) = Sent(p, Second) /\ SumFunction(restarted[p]) = Restarts(p, Second)
  BY <1>1 DEF SumFunction, Sent, Restarts
<1>3. Restarts(p, Second) <= MaxRestarts /\ MaxRestarts \in Nat /\ Capacity \in Nat
  BY SecAssumption DEF Metered
<1>4. Second * Sent(p, Second) + Refilled(p)
        <= Capacity * Second + Rate[p] * Second + (Capacity * Second + Rate[p] - 1) * Restarts(p, Second)
  BY <1>1 DEF Metered, Full
<1>5. (MaxRestarts + 1) * (Rate[p] - 1) < Second
  BY FractionAssumption
<1>6. Sent(p, Second) <= Rate[p] + Capacity + Capacity * Restarts(p, Second)
  BY <1>1, <1>3, <1>4, <1>5, ShareInNumbers
<1>7. QED
  BY <1>1, <1>2, <1>6

(* In any second SEC gets no more requests than its limit from all processes
   together, but for the full bucket each restart brings. *)
THEOREM BudgetIsKept ==
  ASSUME Capacity > 0
  PROVE  Spec => []SecBudgetKept
<1>1. ASSUME Init PROVE AllMetered
  <2> SUFFICES ASSUME NEW p \in Processes PROVE Metered(p)
    BY DEF AllMetered
  <2> DEFINE zero == [a \in Ages |-> 0]
  <2>1. Second \in Nat /\ Second \in Ages /\ Full(p) \in Nat /\ Rate[p] \in Nat /\ MaxRestarts \in Nat
    BY Numbers, SecAssumption DEF Full, Ages
  <2>2. sent[p] = zero /\ restarted[p] = zero /\ tokens[p] = Full(p) /\ elapsed[p] = 0
    BY <1>1 DEF Init
  <2>3. ASSUME NEW a \in Ages PROVE SumFunctionOnSet(zero, 0 .. a) = 0
    <3>1. a \in Nat /\ IsFiniteSet(0 .. a)
      BY FS_Interval DEF Ages
    <3>2. \A i \in 0 .. a : i \in Ages
      BY <2>1, <3>1 DEF Ages
    <3>3. Vanishes(zero, 0 .. a)
      BY <3>2 DEF Vanishes
    <3> HIDE DEF zero
    <3>4. QED
      BY <3>1, <3>3, SumOfZeros
  <2>4. Refilled(p) = Full(p)
    <3>1. Refilled(p) = Min({Full(p), Full(p) + 0 * Rate[p]})
      BY <2>2 DEF Refilled
    <3>2. Full(p) + 0 * Rate[p] = Full(p)
      BY <2>1
    <3>3. QED
      BY <2>1, <3>1, <3>2, MinOfTwo
  <2> HIDE DEF zero
  <2>5. \A a \in Ages : Sent(p, a) = 0 /\ Restarts(p, a) = 0
    BY <2>2, <2>3 DEF Sent, Restarts
  <2>6. ASSUME NEW a \in Ages
        PROVE  Second * Sent(p, a) + Refilled(p)
                 <= Full(p) + Rate[p] * a + (Full(p) + Rate[p] - 1) * Restarts(p, a)
    <3>1. Rate[p] * a \in Nat /\ Second * 0 = 0 /\ (Full(p) + Rate[p] - 1) * 0 = 0
      BY <2>1 DEF Ages
    <3>2. QED
      BY <2>1, <2>4, <2>5, <3>1
  <2>7. QED
    BY <2>1, <2>5, <2>6 DEF Metered
<1>2. ASSUME Inv, AllMetered PROVE SecBudgetKept
  <2> DEFINE share == [p \in Processes |-> Rate[p] + Capacity]
             restarts == [p \in Processes |-> SumFunction(restarted[p])]
             spent == [p \in Processes |-> SumFunction(sent[p])]
             allowed == [p \in Processes |-> share[p] + Capacity * restarts[p]]
  <2>1. IsFiniteSet(Processes) /\ Capacity \in Nat /\ Limit \in Nat
    BY SecAssumption
  <2>2. \A p \in Processes : Rate[p] \in Nat
    BY Numbers
  <2>3. \A p \in Processes : spent[p] \in Int /\ allowed[p] \in Int /\ spent[p] <= allowed[p]
    BY <1>2, <2>1, <2>2, ShareKept DEF AllMetered
  <2>4. Combines(allowed, share, Capacity, restarts, Processes)
    BY <1>2, <2>1, <2>2, ShareKept DEF AllMetered, Combines
  <2>5. Integral(restarts, Processes)
    BY <1>2, ShareKept DEF AllMetered, Integral
  <2>6. /\ SumFunction(share) = SumFunctionOnSet(share, Processes)
        /\ SumFunction(restarts) = SumFunctionOnSet(restarts, Processes)
        /\ SumFunction(spent) = SumFunctionOnSet(spent, Processes)
    BY DEF SumFunction
  <2>7. SumFunction(share) <= Limit /\ InASecond(sent) = SumFunction(spent) /\ InASecond(restarted) = SumFunction(restarts)
    BY BudgetAssumption DEF InASecond
  <2>8. \A p \in Processes : share[p] \in Int
    BY <2>1, <2>2
  <2> HIDE DEF share, restarts, spent, allowed
  <2>9. SumFunctionOnSet(spent, Processes) <= SumFunctionOnSet(allowed, Processes)
    BY <2>1, <2>3, SumAtMost
  <2>10. /\ SumFunctionOnSet(allowed, Processes)
              = SumFunctionOnSet(share, Processes) + Capacity * SumFunctionOnSet(restarts, Processes)
    BY <2>1, <2>4, SumOfMultiples
  <2>11. SumFunctionOnSet(share, Processes) \in Int /\ SumFunctionOnSet(restarts, Processes) \in Int
    BY <2>1, <2>5, <2>8, SumOf DEF Integral
  <2>12. Capacity * SumFunctionOnSet(restarts, Processes) \in Int
    BY <2>1, <2>11
  <2>13. SumFunctionOnSet(spent, Processes) \in Int
    BY <2>1, <2>3, SumOf
  <2>14. SumFunction(spent) <= Limit + Capacity * SumFunction(restarts)
    BY <2>1, <2>6, <2>7, <2>9, <2>10, <2>11, <2>12, <2>13
  <2>15. QED
    BY <2>7, <2>14 DEF SecBudgetKept
<1>3. ASSUME Inv, AllMetered, [Next]_vars PROVE AllMetered'
  BY <1>3, MeteredStep
<1>4. QED
  BY <1>1, <1>2, <1>3, InvHolds, PTL DEF Spec
=============================================================================
