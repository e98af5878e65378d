--------------------------- MODULE HeartbeatProofs ---------------------------
(***************************************************************************)
(* Proofs about Heartbeat, for any checks that overlap, cycles, times and  *)
(* mishaps: the types, when an outage is reported twice, and when a check  *)
(* stays silent.                                                           *)
(***************************************************************************)
EXTENDS Heartbeat, DataLemmas, TLAPS

-----------------------------------------------------------------------------
(* The invariant *)

Runs(t) == [at : 1 .. t, failed : Failures]

World ==
  /\ now \in Nat /\ now >= 1 /\ startedAt \in 0 .. now /\ mishaps \in 0 .. MaxMishaps
  /\ runs \in Seq(Runs(now))
  /\ \A i, j \in 1 .. Len(runs) : i < j => runs[i].at < runs[j].at
  /\ alertState \in [Types -> 0 .. now]

(* A check at x, with variables k: its outage began in the past, and unless
   another check overlaps it Slack was not told of it. *)
Reporting == {"send", "record"}

CheckFine(x, k) ==
  /\ x \in PCs /\ k \in CheckRecord /\ k.since <= now
  /\ x = "healthy" => k.type = "failing"
  /\ x \in Reporting => \A m \in messages :
       m.type = k.type /\ m.since = k.since /\ m.recorded # 0 => k.overlaps \/ m.overlaps

ChecksFine ==
  /\ pc \in [Checks -> PCs] /\ check \in [Checks -> CheckRecord]
  /\ \A c \in Checks : CheckFine(pc[c], check[c])

(* Two checks about to report the same outage know of each other. *)
Overlapping ==
  \A c, d \in Checks :
    /\ c # d /\ {pc[c], pc[d]} \subseteq Reporting
    /\ check[c].type = check[d].type /\ check[c].since = check[d].since
    => check[c].overlaps \/ check[d].overlaps

(* A recorded alert was recorded after its outage began, and alert_state is no
   older; every alert_state is of a recorded alert. *)
Ledger ==
  /\ messages \subseteq Message
  /\ \A m \in messages : m.recorded # 0 => m.since < m.recorded /\ m.recorded <= alertState[m.type]
  /\ \A type \in Types : alertState[type] # 0 =>
       \E m \in messages : m.type = type /\ m.recorded = alertState[type]

Inv == World /\ ChecksFine /\ Overlapping /\ Ledger /\ ReportedTwiceForAReason

(* What a check or a recorded alert a knows of a cycle: if the cycle ended
   outages of its type, then its outage began after it, or the cycle overtook
   it. *)
Explained(a, i) == EndsOutage(a.type, runs[i]) => runs[i].at <= a.since \/ OvertakenBefore(a, runs[i].at)

(* A check that holds an outage knows of every cycle, and its outage began with
   one, unless there was none. *)
Holding == Reporting \cup {"state"}
Holds(x, k) ==
  /\ k.overtaken <= now
  /\ x \in Holding =>
       /\ \A i \in DOMAIN runs : Explained(k, i)
       /\ k.since = 0 \/ \E i \in DOMAIN runs : EndsOutage(k.type, runs[i]) /\ runs[i].at = k.since

(* So did every recorded alert when it was recorded. *)
Silence ==
  /\ \A c \in Checks : Holds(pc[c], check[c])
  /\ \A m \in messages : m.recorded # 0 =>
       \A i \in DOMAIN runs : runs[i].at <= m.recorded => Explained(m, i)

-----------------------------------------------------------------------------
(* Lemmas *)

LEMMA Bounds == MaxMishaps \in Nat /\ Types = {"silence", "failing"}
BY HeartbeatAssumption DEF Types

LEMMA RunsGrow ==
  ASSUME NEW t \in Nat, NEW u \in Nat, t <= u, NEW s \in Seq(Runs(t))
  PROVE  s \in Seq(Runs(u))
<1>1. Runs(t) \subseteq Runs(u)
  BY DEF Runs
<1>2. QED
  BY <1>1

(* The moments an outage may have begun after. *)
LEMMA Moments ==
  ASSUME World
  PROVE  LastSuccess \in 0 .. now /\ LastHealthy \in 0 .. now
<1>1. \A i \in DOMAIN runs : runs[i].at \in 0 .. now
  <2>1. \A i \in DOMAIN runs : runs[i] \in Runs(now)
    BY DEF World
  <2>2. QED
    BY <2>1 DEF Runs, World
<1>2. ASSUME NEW S \in SUBSET DOMAIN runs PROVE Max({0} \cup {runs[i].at : i \in S}) \in 0 .. now
  <2> DEFINE T == {0} \cup {runs[i].at : i \in S}
  <2>1. T \in SUBSET (0 .. now) /\ T # {} /\ now \in Nat
    BY <1>1 DEF World
  <2> HIDE DEF T
  <2>2. Max(T) \in T
    BY <2>1, Greatest
  <2>3. QED
    BY <2>1, <2>2 DEF T
<1>3. QED
  BY <1>2 DEF LastSuccess, LastHealthy

LEMMA FreshIsFine == ASSUME World, NEW type \in Types PROVE CheckFine("read", Fresh(type)) /\ Fresh(type).overlaps = FALSE
BY DEF CheckFine, PCs, Fresh, CheckRecord, Reporting, World

(* A recorded alert answers for its outage. *)
LEMMA RecordedIsReported ==
  ASSUME Inv, NEW c \in Checks, NEW m \in messages, m.recorded # 0,
         m.type = check[c].type, m.since = check[c].since
  PROVE  AlreadyReported(c)
<1>1. m.since < m.recorded /\ m.recorded <= alertState[m.type] /\ m \in Message
  BY DEF Inv, Ledger
<1>2. m.since \in Nat /\ m.recorded \in Nat /\ m.type \in Types /\ alertState[m.type] \in Nat
  BY <1>1 DEF Message, Inv, World
<1>3. QED
  BY <1>1, <1>2 DEF AlreadyReported

-----------------------------------------------------------------------------
(* Steps *)

(* A check moves on without recording; what it sends is not recorded yet. *)
LEMMA OneMoves ==
  ASSUME Inv, NEW c \in Checks, NEW x, NEW k, CheckFine(x, k),
         pc' = [pc EXCEPT ![c] = x], check' = [check EXCEPT ![c] = k],
         x \in Reporting => \A d \in Checks \ {c} :
           pc[d] \in Reporting /\ check[d].type = k.type /\ check[d].since = k.since
           => k.overlaps \/ check[d].overlaps,
         mishaps' \in 0 .. MaxMishaps, messages \subseteq messages', messages' \subseteq Message,
         \A m \in messages' : m \in messages \/ m.recorded = 0,
         UNCHANGED <<now, runs, alertState, startedAt>>
  PROVE  Inv'
<1>1. World'
  BY DEF Inv, World
<1>2. /\ pc'[c] = x /\ check'[c] = k
      /\ \A d \in Checks \ {c} : pc'[d] = pc[d] /\ check'[d] = check[d]
      /\ x \in PCs /\ k \in CheckRecord
  BY DEF Inv, ChecksFine, CheckFine
<1>3. ChecksFine'
  <2>1. ASSUME NEW d \in Checks PROVE CheckFine(pc[d], check[d])'
    <3>1. PICK y, l : y = pc'[d] /\ l = check'[d]
      OBVIOUS
    <3>2. CheckFine(y, l)
      BY <1>2, <3>1 DEF Inv, ChecksFine
    <3>3. CheckFine(y, l)'
      BY <3>2 DEF CheckFine
    <3>4. QED
      BY <3>1, <3>3
  <2>2. QED
    BY <1>2, <2>1 DEF Inv, ChecksFine
<1>4. Overlapping'
  BY <1>2 DEF Inv, Overlapping
<1>5. Ledger' /\ ReportedTwiceForAReason'
  BY DEF Inv, Ledger, ReportedTwiceForAReason
<1>6. QED
  BY <1>1, <1>3, <1>4, <1>5 DEF Inv

LEMMA EndMoves ==
  ASSUME Inv, NEW c \in Checks, EndCheck(c),
         mishaps' \in 0 .. MaxMishaps, messages \subseteq messages', messages' \subseteq Message,
         \A m \in messages' : m \in messages \/ m.recorded = 0,
         UNCHANGED <<now, runs, alertState, startedAt>>
  PROVE  Inv'
<1>1. PICK type \in Types : pc' = [pc EXCEPT ![c] = "read"] /\ check' = [check EXCEPT ![c] = Fresh(type)]
  BY DEF EndCheck, Begin, Types
<1>2. CheckFine("read", Fresh(type)) /\ "read" \notin Reporting
  BY FreshIsFine DEF Inv, Reporting
<1>3. QED
  BY <1>1, <1>2, OneMoves

LEMMA CheckFacts ==
  ASSUME Inv, NEW c \in Checks
  PROVE  /\ CheckFine(pc[c], check[c]) /\ check[c] \in CheckRecord /\ check[c].type \in Types
         /\ check[c].since \in 0 .. now /\ check[c].overlaps \in BOOLEAN /\ check[c].overtaken \in Nat
         /\ mishaps \in 0 .. MaxMishaps /\ messages \subseteq Message
BY DEF Inv, ChecksFine, CheckFine, CheckRecord, World, Ledger

LEMMA ReadStep ==
  ASSUME Inv, NEW c \in Checks, ReadSuccess(c) \/ ReadRecent(c) \/ ReadHealthy(c)
  PROVE  Inv'
<1>1. /\ mishaps' \in 0 .. MaxMishaps /\ messages' = messages /\ messages \subseteq Message
      /\ UNCHANGED <<now, runs, alertState, startedAt>>
  BY CheckFacts DEF ReadSuccess, ReadRecent, ReadHealthy
<1>2. CASE EndCheck(c)
  BY <1>1, <1>2, EndMoves
<1>3. ASSUME NEW x \in {"healthy", "state"}, NEW since \in 0 .. now,
             x = "healthy" => check[c].type = "failing",
             pc' = [pc EXCEPT ![c] = x], check' = [check EXCEPT ![c].since = since]
      PROVE  Inv'
  <2> DEFINE k == [check[c] EXCEPT !.since = since]
  <2>1. k \in CheckRecord /\ k.since = since /\ k.type = check[c].type
    <3>1. since \in Nat
      BY DEF Inv, World
    <3>2. QED
      BY <3>1, CheckFacts DEF CheckRecord
  <2>2. check' = [check EXCEPT ![c] = k]
    BY <1>3
  <2>3. x \in PCs /\ x \notin Reporting
    BY DEF PCs, Reporting
  <2> HIDE DEF k
  <2>4. CheckFine(x, k)
    BY <1>3, <2>1, <2>3 DEF CheckFine, Inv, World
  <2>5. QED
    BY <1>1, <1>3, <2>2, <2>3, <2>4, OneMoves
<1>4. CASE ReadSuccess(c) /\ Silent
  BY <1>3, <1>4, Moments DEF ReadSuccess, Goto, Inv
<1>5. CASE ReadRecent(c) /\ Goto(c, "healthy") /\ check' = check
  <2>1. check' = [check EXCEPT ![c].since = check[c].since]
    BY <1>5, CheckFacts DEF Inv, ChecksFine, CheckRecord
  <2>2. QED
    BY <1>3, <1>5, <2>1, CheckFacts DEF ReadRecent, Goto
<1>6. CASE ReadHealthy(c)
  BY <1>3, <1>6, Moments DEF ReadHealthy, Goto, Inv
<1>7. QED
  BY <1>2, <1>4, <1>5, <1>6 DEF ReadSuccess, ReadRecent

LEMMA ReadStateStep == ASSUME Inv, NEW c \in Checks, ReadState(c) PROVE Inv'
<1>1. /\ mishaps' \in 0 .. MaxMishaps /\ messages' = messages /\ messages \subseteq Message
      /\ UNCHANGED <<now, runs, alertState, startedAt>>
  BY CheckFacts DEF ReadState
<1>2. CASE AlreadyReported(c)
  BY <1>1, <1>2, EndMoves DEF ReadState
<1>3. CASE ~AlreadyReported(c)
  <2> DEFINE others == \E d \in Checks \ {c} : /\ pc[d] \in {"send", "record"}
                                               /\ check[d].type = check[c].type
                                               /\ check[d].since = check[c].since
             k == [check[c] EXCEPT !.overlaps = others]
  <2>1. pc' = [pc EXCEPT ![c] = "send"] /\ check' = [check EXCEPT ![c] = k]
    BY <1>3 DEF ReadState, Goto
  <2>2. others \in BOOLEAN
    OBVIOUS
  <2>3. \A o \in BOOLEAN : LET l == [check[c] EXCEPT !.overlaps = o]
          IN l \in CheckRecord /\ l.type = check[c].type /\ l.since = check[c].since /\ l.overlaps = o
    BY CheckFacts DEF CheckRecord
  <2>4. /\ k \in CheckRecord /\ k.type = check[c].type /\ k.since = check[c].since
        /\ k.overlaps = others
    <3> HIDE DEF others
    <3>1. QED
      BY <2>2, <2>3
  <2>5. \A m \in messages : ~(m.type = check[c].type /\ m.since = check[c].since /\ m.recorded # 0)
    BY <1>3, RecordedIsReported
  <2>6. "send" \in PCs /\ "send" # "healthy"
    BY DEF PCs
  <2>7. \A d \in Checks \ {c} :
          pc[d] \in Reporting /\ check[d].type = k.type /\ check[d].since = k.since => k.overlaps
    BY <2>4 DEF Reporting
  <2> HIDE DEF k, others
  <2>8. CheckFine("send", k)
    BY <2>4, <2>5, <2>6, CheckFacts DEF CheckFine
  <2>9. QED
    BY <1>1, <2>1, <2>7, <2>8, OneMoves
<1>4. QED
  BY <1>2, <1>3

LEMMA SentFacts ==
  ASSUME Inv, NEW c \in Checks
  PROVE  /\ Sent(c) \in Message /\ Sent(c).recorded = 0 /\ Sent(c).type = check[c].type
         /\ Sent(c).since = check[c].since /\ Sent(c).overlaps = check[c].overlaps
BY CheckFacts DEF Sent, Message, Inv, World

LEMMA SendStep == ASSUME Inv, NEW c \in Checks, Send(c) PROVE Inv'
<1>1. /\ mishaps' \in 0 .. MaxMishaps /\ messages \subseteq messages' /\ messages' \subseteq Message
      /\ \A m \in messages' : m \in messages \/ m.recorded = 0
      /\ UNCHANGED <<now, runs, alertState, startedAt>>
  BY CheckFacts, SentFacts, Bounds DEF Send
<1>2. CASE EndCheck(c)
  BY <1>1, <1>2, EndMoves
<1>3. CASE Goto(c, "record") /\ check' = check
  <2>1. /\ pc' = [pc EXCEPT ![c] = "record"] /\ check' = [check EXCEPT ![c] = check[c]]
        /\ pc[c] = "send"
    BY <1>3 DEF Send, Goto, Inv, ChecksFine
  <2>2. {"send", "record"} \subseteq Reporting /\ "record" \in PCs /\ "record" # "healthy"
    BY DEF PCs, Reporting
  <2>3. CheckFine("record", check[c])
    BY <2>1, <2>2, CheckFacts DEF CheckFine
  <2>4. \A d \in Checks \ {c} :
          /\ pc[d] \in Reporting /\ check[d].type = check[c].type /\ check[d].since = check[c].since
          => check[c].overlaps \/ check[d].overlaps
    BY <2>1, <2>2 DEF Inv, Overlapping
  <2>5. QED
    BY <1>1, <2>1, <2>3, <2>4, OneMoves
<1>4. QED
  BY <1>2, <1>3 DEF Send

LEMMA FailsStep == ASSUME Inv, NEW c \in Checks, Fails(c) PROVE Inv'
<1>1. mishaps' \in 0 .. MaxMishaps /\ messages' = messages /\ messages \subseteq Message
  BY CheckFacts, Bounds DEF Fails
<1>2. QED
  BY <1>1, EndMoves DEF Fails

(* The clock moves: what was true of the past still is. *)
LEMMA LaterFine ==
  ASSUME Inv, now' = now + 1, NEW x, NEW k, CheckFine(x, k), messages' = messages
  PROVE  CheckFine(x, k)'
<1>1. k.since \in Nat /\ now \in Nat /\ k.since <= now
  BY DEF CheckFine, CheckRecord, Inv, World
<1>2. QED
  BY <1>1 DEF CheckFine

LEMMA RecordStep == ASSUME Inv, NEW c \in Checks, Record(c) PROVE Inv'
<1> DEFINE r == [Sent(c) EXCEPT !.recorded = now + 1, !.overtaken = check[c].overtaken]
<1>1. PICK type \in Types : pc' = [pc EXCEPT ![c] = "read"] /\ check' = [check EXCEPT ![c] = Fresh(type)]
  BY DEF Record, EndCheck, Begin, Types
<1>2. /\ pc[c] = "record" /\ now' = now + 1
      /\ alertState' = [alertState EXCEPT ![check[c].type] = now + 1]
      /\ messages' = (messages \ {Sent(c)}) \cup {r}
      /\ UNCHANGED <<runs, startedAt, mishaps>>
  BY DEF Record
<1>3. /\ r \in Message /\ r.recorded = now + 1 /\ r.type = check[c].type
      /\ r.since = check[c].since /\ r.overlaps = check[c].overlaps
  <2>1. now + 1 \in Nat
    BY DEF Inv, World
  <2>2. QED
    BY <2>1, SentFacts, CheckFacts DEF Message
<1> HIDE DEF r
<1>4. now \in Nat /\ now >= 1 /\ messages \subseteq Message /\ check[c].since \in 0 .. now
  BY CheckFacts DEF Inv, World
<1>5. \A m \in messages' : m = r \/ m \in messages
  BY <1>2
<1>6. World'
  <2>1. runs \in Seq(Runs(now + 1))
    BY <1>4, RunsGrow DEF Inv, World
  <2>2. alertState' \in [Types -> 0 .. now']
    <3>1. alertState \in [Types -> 0 .. now]
      BY DEF Inv, World
    <3>2. now' \in 0 .. now' /\ 0 .. now \subseteq 0 .. now'
      BY <1>2, <1>4
    <3>3. QED
      BY <1>2, <3>1, <3>2
  <2>3. startedAt \in 0 .. now' /\ now' \in Nat /\ now' >= 1
    BY <1>2, <1>4 DEF Inv, World
  <2>4. runs' \in Seq(Runs(now))'
    BY <1>2, <2>1 DEF Runs
  <2>5. QED
    BY <1>2, <2>2, <2>3, <2>4 DEF Inv, World
<1>7. ChecksFine'
  <2>1. ASSUME NEW d \in Checks PROVE CheckFine(pc[d], check[d])'
    <3>1. PICK y, l : y = pc'[d] /\ l = check'[d]
      OBVIOUS
    <3>2. CASE d = c
      <4>1. y = "read" /\ l = Fresh(type)
        BY <1>1, <3>1, <3>2 DEF Inv, ChecksFine
      <4>2. CheckFine("read", Fresh(type))
        BY FreshIsFine DEF Inv
      <4>3. l.since = 0
        BY <4>1 DEF Fresh
      <4>4. CheckFine(y, l)'
        BY <1>2, <1>4, <4>1, <4>2, <4>3 DEF CheckFine, Reporting
      <4>5. QED
        BY <3>1, <4>4
    <3>3. CASE d # c
      <4>1. y = pc[d] /\ l = check[d] /\ CheckFine(y, l)
        BY <1>1, <3>1, <3>3 DEF Inv, ChecksFine
      <4>2. l.since <= now'
        BY <1>2, <1>4, <4>1 DEF CheckFine, CheckRecord
      <4>3. y \in Reporting /\ l.type = r.type /\ l.since = r.since => l.overlaps \/ r.overlaps
        BY <1>2, <1>3, <3>3, <4>1 DEF Inv, Overlapping, Reporting
      <4>4. CheckFine(y, l)'
        BY <1>5, <4>1, <4>2, <4>3 DEF CheckFine
      <4>5. QED
        BY <3>1, <4>4
    <3>4. QED
      BY <3>2, <3>3
  <2>2. QED
    BY <1>1, <2>1, FreshIsFine DEF Inv, ChecksFine, CheckFine
<1>8. Overlapping'
  <2>1. pc'[c] \notin Reporting /\ \A d \in Checks \ {c} : pc'[d] = pc[d] /\ check'[d] = check[d]
    BY <1>1 DEF Inv, ChecksFine, Reporting
  <2>2. QED
    BY <2>1 DEF Inv, Overlapping
<1>9. Ledger'
  <2>1. \A t \in Types : alertState[t] \in 0 .. now /\ alertState'[t] = IF t = r.type THEN now + 1 ELSE alertState[t]
    BY <1>2, <1>3 DEF Inv, World
  <2>2. ASSUME NEW m \in messages', m.recorded # 0
        PROVE  m.since < m.recorded /\ m.recorded <= alertState'[m.type]
    <3>1. CASE m = r
      BY <1>3, <1>4, <2>1, <3>1, CheckFacts
    <3>2. CASE m \in messages
      <4>1. /\ m.since < m.recorded /\ m.recorded <= alertState[m.type]
            /\ m.type \in Types /\ m.recorded \in Nat
        BY <1>4, <2>2, <3>2 DEF Inv, Ledger, Message
      <4>2. QED
        BY <1>4, <2>1, <4>1
    <3>3. QED
      BY <1>5, <3>1, <3>2
  <2>3. ASSUME NEW t \in Types, alertState'[t] # 0
        PROVE  \E m \in messages' : m.type = t /\ m.recorded = alertState'[t]
    <3>1. CASE t = r.type
      BY <1>2, <1>3, <2>1, <3>1
    <3>2. CASE t # r.type
      <4>1. PICK m \in messages : m.type = t /\ m.recorded = alertState[t]
        BY <2>1, <2>3, <3>2 DEF Inv, Ledger
      <4>2. m # Sent(c)
        BY <1>3, <3>2, <4>1, SentFacts
      <4>3. QED
        BY <1>2, <2>1, <3>2, <4>1, <4>2
    <3>3. QED
      BY <3>1, <3>2
  <2>4. messages' \subseteq Message
    BY <1>3, <1>4, <1>5
  <2>5. QED
    BY <2>2, <2>3, <2>4 DEF Ledger
<1>10. ReportedTwiceForAReason'
  <2>1. \A m \in messages : m.type = r.type /\ m.since = r.since /\ m.recorded # 0 => r.overlaps \/ m.overlaps
    BY <1>2, <1>3, CheckFacts DEF CheckFine, Reporting
  <2>2. QED
    BY <1>5, <2>1 DEF Inv, ReportedTwiceForAReason
<1>11. QED
  BY <1>6, <1>7, <1>8, <1>9, <1>10 DEF Inv

(* Steps that report nothing while the clock moves: a restart, a cycle, time. *)
LEMMA LaterStep ==
  ASSUME Inv, now' = now + 1, UNCHANGED <<alertState, messages>>,
         startedAt' \in {startedAt, now + 1}, mishaps' \in 0 .. MaxMishaps,
         runs' \in Seq(Runs(now + 1)),
         \A i, j \in 1 .. Len(runs') : i < j => runs'[i].at < runs'[j].at,
         \/ /\ pc' = pc /\ check' \in [Checks -> CheckRecord]
            /\ \A c \in Checks : /\ check'[c].type = check[c].type
                                 /\ check'[c].since = check[c].since
                                 /\ check'[c].overlaps = check[c].overlaps
         \/ /\ pc' = [c \in Checks |-> "read"]
            /\ check' = [c \in Checks |-> Fresh("silence")]
  PROVE  Inv'
<1>1. now \in Nat /\ now >= 1 /\ "silence" \in Types
  BY DEF Inv, World, Types
<1>2. World'
  <2>1. alertState' \in [Types -> 0 .. now']
    <3>1. alertState \in [Types -> 0 .. now] /\ 0 .. now \subseteq 0 .. now'
      BY <1>1 DEF Inv, World
    <3>2. QED
      BY <3>1
  <2>2. startedAt' \in 0 .. now' /\ now' \in Nat /\ now' >= 1
    BY <1>1 DEF Inv, World
  <2>3. runs' \in Seq(Runs(now))'
    BY DEF Runs
  <2>4. QED
    BY <2>1, <2>2, <2>3 DEF World
<1>3. CheckFine("read", Fresh("silence")) /\ Fresh("silence") \in CheckRecord /\ "read" \in PCs
      /\ "read" \notin Reporting
  BY <1>1, FreshIsFine DEF Inv, CheckFine, Reporting
<1>4. ChecksFine'
  <2>1. ASSUME NEW d \in Checks PROVE CheckFine(pc[d], check[d])'
    <3>1. PICK y, l : y = pc'[d] /\ l = check'[d]
      OBVIOUS
    <3>2. CheckFine(y, l)
      BY <1>3, <3>1 DEF Inv, ChecksFine, CheckFine
    <3>3. CheckFine(y, l)'
      BY <3>2, LaterFine
    <3>4. QED
      BY <3>1, <3>3
  <2>2. QED
    BY <1>3, <2>1 DEF Inv, ChecksFine
<1>5. Overlapping'
  BY <1>3 DEF Inv, Overlapping
<1>6. Ledger' /\ ReportedTwiceForAReason'
  BY DEF Inv, Ledger, ReportedTwiceForAReason
<1>7. QED
  BY <1>2, <1>4, <1>5, <1>6 DEF Inv

LEMMA RunFacts ==
  ASSUME Inv
  PROVE  runs \in Seq(Runs(now + 1)) /\ now \in Nat /\ mishaps \in 0 .. MaxMishaps
         /\ \A i \in 1 .. Len(runs) : runs[i].at \in 1 .. now
<1>1. now \in Nat /\ mishaps \in 0 .. MaxMishaps /\ runs \in Seq(Runs(now))
  BY DEF Inv, World
<1>2. \A i \in 1 .. Len(runs) : runs[i] \in Runs(now)
  BY <1>1
<1>3. \A i \in 1 .. Len(runs) : runs[i].at \in 1 .. now
  BY <1>2 DEF Runs
<1>4. runs \in Seq(Runs(now + 1))
  BY <1>1, RunsGrow
<1>5. QED
  BY <1>1, <1>3, <1>4

(* Being overtaken changes nothing else of a check. *)
LEMMA OvertakeFacts ==
  ASSUME Inv, NEW run, run.at \in Nat, Overtake(run)
  PROVE  /\ check' \in [Checks -> CheckRecord]
         /\ \A c \in Checks : /\ check'[c].type = check[c].type
                              /\ check'[c].since = check[c].since
                              /\ check'[c].overlaps = check[c].overlaps
                              /\ check'[c].overtaken =
                                   IF /\ pc[c] # "read" /\ check[c].overtaken = 0
                                      /\ EndsOutage(check[c].type, run)
                                   THEN run.at ELSE check[c].overtaken
<1>1. ASSUME NEW c \in Checks
      PROVE  /\ [check[c] EXCEPT !.overtaken = run.at] \in CheckRecord
             /\ [check[c] EXCEPT !.overtaken = run.at].type = check[c].type
             /\ [check[c] EXCEPT !.overtaken = run.at].since = check[c].since
             /\ [check[c] EXCEPT !.overtaken = run.at].overlaps = check[c].overlaps
             /\ [check[c] EXCEPT !.overtaken = run.at].overtaken = run.at
             /\ check[c] \in CheckRecord
  BY CheckFacts DEF CheckRecord
<1>2. \A c \in Checks : check'[c] =
        IF pc[c] # "read" /\ check[c].overtaken = 0 /\ EndsOutage(check[c].type, run)
        THEN [check[c] EXCEPT !.overtaken = run.at] ELSE check[c]
  BY DEF Overtake
<1>3. check' \in [Checks -> CheckRecord]
  BY <1>1 DEF Overtake
<1>4. QED
  BY <1>1, <1>2, <1>3

LEMMA CompleteRunStep == ASSUME Inv, NEW failed \in Failures, CompleteRun(failed) PROVE Inv'
<1> DEFINE run == [at |-> now + 1, failed |-> failed]
<1>1. /\ runs' = Append(runs, run) /\ now' = now + 1 /\ Overtake(run)
      /\ UNCHANGED <<alertState, startedAt, pc, messages, mishaps>>
  BY DEF CompleteRun, Completes
<1>2. run \in Runs(now + 1) /\ run.at = now + 1
  BY RunFacts DEF Runs
<1> HIDE DEF run
<1>3. /\ runs' \in Seq(Runs(now + 1)) /\ Len(runs) \in Nat /\ Len(runs') = Len(runs) + 1
      /\ runs'[Len(runs) + 1] = run /\ \A i \in 1 .. Len(runs) : runs'[i] = runs[i]
  BY <1>1, <1>2, RunFacts
<1>4. ASSUME NEW i \in 1 .. Len(runs'), NEW j \in 1 .. Len(runs'), i < j
      PROVE  runs'[i].at < runs'[j].at
  <2>1. i \in 1 .. Len(runs) /\ (j \in 1 .. Len(runs) \/ j = Len(runs) + 1)
    BY <1>3, <1>4
  <2>2. CASE j \in 1 .. Len(runs)
    BY <1>3, <1>4, <2>1, <2>2 DEF Inv, World
  <2>3. CASE j = Len(runs) + 1
    BY <1>2, <1>3, <2>1, <2>3, RunFacts
  <2>4. QED
    BY <2>1, <2>2, <2>3
<1>5. /\ check' \in [Checks -> CheckRecord]
      /\ \A c \in Checks : /\ check'[c].type = check[c].type
                           /\ check'[c].since = check[c].since
                           /\ check'[c].overlaps = check[c].overlaps
  BY <1>1, <1>2, OvertakeFacts, RunFacts
<1>6. QED
  BY <1>1, <1>3, <1>4, <1>5, LaterStep, RunFacts

LEMMA TickStep == ASSUME Inv, Tick PROVE Inv'
BY LaterStep, RunFacts DEF Tick, Inv, World, ChecksFine

LEMMA RestartStep == ASSUME Inv, Restart PROVE Inv'
<1>1. /\ now' = now + 1 /\ UNCHANGED <<alertState, messages, runs>> /\ startedAt' = now + 1
      /\ mishaps' \in 0 .. MaxMishaps
      /\ pc' = [c \in Checks |-> "read"] /\ check' = [c \in Checks |-> Fresh("silence")]
  BY RunFacts, Bounds DEF Restart
<1>2. QED
  BY <1>1, LaterStep, RunFacts DEF Inv, World

LEMMA InitInv == ASSUME Init PROVE Inv
<1>1. /\ runs \in Seq(Runs(1))
      /\ \A i, j \in 1 .. Len(runs) : i < j => runs[i].at < runs[j].at
  <2>1. CASE runs = <<>>
    BY <2>1
  <2>2. CASE \E f \in Failures : runs = <<[at |-> 1, failed |-> f]>>
    <3>1. PICK f \in Failures : runs = <<[at |-> 1, failed |-> f]>>
      BY <2>2
    <3>2. [at |-> 1, failed |-> f] \in Runs(1)
      BY DEF Runs
    <3>3. Len(runs) = 1 /\ runs \in Seq(Runs(1))
      BY <3>1, <3>2
    <3>4. QED
      BY <3>3
  <2>3. QED
    BY <2>1, <2>2 DEF Init
<1>2. now = 1 /\ startedAt = 1 /\ alertState = [type \in Types |-> 0] /\ mishaps = 0 /\ messages = {}
  BY DEF Init
<1>3. World
  BY <1>1, <1>2, Bounds DEF World
<1>4. CheckFine("read", Fresh("silence")) /\ Fresh("silence") \in CheckRecord /\ "read" \in PCs
      /\ "read" \notin Reporting
  BY <1>3, FreshIsFine DEF CheckFine, Types, Reporting
<1>5. ChecksFine
  BY <1>4 DEF Init, ChecksFine
<1>6. Overlapping
  BY <1>4 DEF Init, Overlapping
<1>7. QED
  BY <1>2, <1>3, <1>5, <1>6 DEF Inv, Ledger, ReportedTwiceForAReason

LEMMA NextInv == ASSUME Inv, [Next]_vars PROVE Inv'
<1>1. CASE UNCHANGED vars
  BY <1>1 DEF vars, Inv, World, ChecksFine, CheckFine, Overlapping, Ledger, ReportedTwiceForAReason
<1>2. QED
  BY <1>1, ReadStep, ReadStateStep, SendStep, RecordStep, FailsStep, RestartStep,
     CompleteRunStep, TickStep DEF Next, CheckStep

-----------------------------------------------------------------------------
(* Theorems *)

LEMMA Invariance == Spec => []Inv
<1>1. Init => Inv
  BY InitInv
<1>2. Inv /\ [Next]_vars => Inv'
  BY NextInv
<1>3. QED
  BY <1>1, <1>2, PTL DEF Spec

(* Every variable of Heartbeat keeps its type; cycles finish one after another. *)
THEOREM TypeCorrect == Spec => []TypeOK
<1>1. Inv => TypeOK
  <2> SUFFICES ASSUME Inv PROVE TypeOK
    OBVIOUS
  <2>1. \A c \in Checks : pc[c] = "healthy" => check[c].type = "failing"
    BY DEF Inv, ChecksFine, CheckFine
  <2>2. QED
    BY <2>1 DEF Inv, World, ChecksFine, Ledger, TypeOK, Runs
<1>2. QED
  BY <1>1, Invariance, PTL

(* An outage is reported twice only if an alert was never recorded or its check
   read alert_state while another was sending (sendOncePerOutage). *)
THEOREM RepeatsAreExplained == Spec => []ReportedTwiceForAReason
<1>1. Inv => ReportedTwiceForAReason
  BY DEF Inv
<1>2. QED
  BY <1>1, Invariance, PTL

-----------------------------------------------------------------------------
(* Silence: what the checks and the alerts know of the cycles *)

(* The last cycle that ended outages of a type is the newest such cycle. *)
LEMMA LastIsNewest ==
  ASSUME World
  PROVE  /\ \A i \in DOMAIN runs : runs[i].at <= LastSuccess
         /\ LastSuccess = 0 \/ \E i \in DOMAIN runs : runs[i].at = LastSuccess
         /\ \A i \in DOMAIN runs : EndsOutage("failing", runs[i]) => runs[i].at <= LastHealthy
         /\ LastHealthy = 0 \/ \E i \in DOMAIN runs :
              EndsOutage("failing", runs[i]) /\ runs[i].at = LastHealthy
<1>1. \A i \in DOMAIN runs : runs[i].at \in 0 .. now
  <2>1. \A i \in DOMAIN runs : runs[i] \in Runs(now)
    BY DEF World
  <2>2. QED
    BY <2>1 DEF Runs, World
<1>2. ASSUME NEW S \in SUBSET DOMAIN runs
      PROVE  /\ \A i \in S : runs[i].at <= Max({0} \cup {runs[j].at : j \in S})
             /\ Max({0} \cup {runs[j].at : j \in S}) = 0
                \/ \E i \in S : runs[i].at = Max({0} \cup {runs[j].at : j \in S})
  <2> DEFINE T == {0} \cup {runs[j].at : j \in S}
  <2>1. T \in SUBSET (0 .. now) /\ T # {} /\ now \in Nat
    BY <1>1 DEF World
  <2>2. \A i \in S : runs[i].at \in T
    OBVIOUS
  <2>3. \A x \in T : x = 0 \/ \E i \in S : runs[i].at = x
    OBVIOUS
  <2> HIDE DEF T
  <2>4. Max(T) \in T /\ \A y \in T : y <= Max(T)
    BY <2>1, Greatest
  <2>5. QED
    BY <2>2, <2>3, <2>4 DEF T
<1>3. \A i \in DOMAIN runs :
        EndsOutage("failing", runs[i]) <=> i \in {j \in DOMAIN runs : 2 * runs[j].failed <= Companies}
  BY DEF EndsOutage
<1>4. QED
  BY <1>2, <1>3 DEF LastSuccess, LastHealthy

(* Steps that complete no cycle. *)
LEMMA NoCycle ==
  ASSUME Inv, Inv', Silence, runs' = runs, now' \in {now, now + 1},
         \A c \in Checks : Holds(pc'[c], check'[c]),
         \A m \in messages' : \/ m \in messages \/ m.recorded = 0
                              \/ \A i \in DOMAIN runs : Explained(m, i)
  PROVE  Silence'
<1>1. now \in Nat /\ now' \in Nat /\ now <= now'
  BY DEF Inv, World
<1>2. ASSUME NEW c \in Checks PROVE Holds(pc[c], check[c])'
  <2>1. PICK x, k : x = pc'[c] /\ k = check'[c]
    OBVIOUS
  <2>2. Holds(x, k) /\ k.overtaken \in Nat
    BY <2>1 DEF Inv, ChecksFine, CheckRecord
  <2>3. Holds(x, k)'
    BY <1>1, <2>2 DEF Holds, Explained
  <2>4. QED
    BY <2>1, <2>3
<1>3. ASSUME NEW m \in messages', m.recorded # 0, NEW i \in DOMAIN runs, runs[i].at <= m.recorded
      PROVE  Explained(m, i)'
  BY <1>3 DEF Silence, Explained
<1>4. QED
  BY <1>2, <1>3 DEF Silence

(* A check moves on and no alert is recorded. *)
LEMMA OneHolds ==
  ASSUME Inv, Inv', Silence, NEW c \in Checks, NEW x, NEW k, Holds(x, k),
         pc' = [pc EXCEPT ![c] = x], check' = [check EXCEPT ![c] = k],
         \A m \in messages' : m \in messages \/ m.recorded = 0,
         UNCHANGED <<now, runs>>
  PROVE  Silence'
<1>1. \A d \in Checks : Holds(pc'[d], check'[d])
  BY DEF Inv, ChecksFine, Silence
<1>2. QED
  BY <1>1, NoCycle

LEMMA FreshHolds == ASSUME Inv, NEW type PROVE Holds("read", Fresh(type))
BY DEF Inv, World, Holds, Holding, Reporting, Fresh

LEMMA EndHolds ==
  ASSUME Inv, Inv', Silence, NEW c \in Checks, EndCheck(c),
         \A m \in messages' : m \in messages \/ m.recorded = 0,
         UNCHANGED <<now, runs>>
  PROVE  Silence'
<1>1. PICK type : pc' = [pc EXCEPT ![c] = "read"] /\ check' = [check EXCEPT ![c] = Fresh(type)]
  BY DEF EndCheck, Begin
<1>2. QED
  BY <1>1, FreshHolds, OneHolds

LEMMA ReadHolds ==
  ASSUME Inv, Inv', Silence, NEW c \in Checks, ReadSuccess(c) \/ ReadRecent(c) \/ ReadHealthy(c)
  PROVE  Silence'
<1>1. messages' = messages /\ UNCHANGED <<now, runs>>
  BY DEF ReadSuccess, ReadRecent, ReadHealthy
<1>2. CASE EndCheck(c)
  BY <1>1, <1>2, EndHolds
<1>3. ASSUME NEW since, pc' = [pc EXCEPT ![c] = "state"], check' = [check EXCEPT ![c].since = since],
             \A i \in DOMAIN runs : EndsOutage(check[c].type, runs[i]) => runs[i].at <= since,
             since = 0 \/ \E i \in DOMAIN runs : EndsOutage(check[c].type, runs[i]) /\ runs[i].at = since
      PROVE  Silence'
  <2> DEFINE k == [check[c] EXCEPT !.since = since]
  <2>1. k.since = since /\ k.type = check[c].type /\ k.overtaken = check[c].overtaken
    BY CheckFacts DEF CheckRecord
  <2>2. check' = [check EXCEPT ![c] = k]
    BY <1>3
  <2> HIDE DEF k
  <2>3. Holds("state", k)
    BY <1>3, <2>1 DEF Holds, Silence, Explained
  <2>4. QED
    BY <1>1, <1>3, <2>2, <2>3, OneHolds
<1>4. CASE ReadSuccess(c) /\ Silent
  <2>1. \A i \in DOMAIN runs : EndsOutage(check[c].type, runs[i])
    BY <1>4 DEF ReadSuccess, EndsOutage
  <2>2. QED
    BY <1>3, <1>4, <2>1, LastIsNewest DEF ReadSuccess, Goto, Inv
<1>5. CASE ReadRecent(c) /\ Goto(c, "healthy") /\ check' = check
  <2>1. check' = [check EXCEPT ![c] = check[c]] /\ Holds("healthy", check[c])
    BY <1>5 DEF Inv, ChecksFine, Silence, Holds, Holding, Reporting
  <2>2. QED
    BY <1>1, <1>5, <2>1, OneHolds DEF Goto
<1>6. CASE ReadHealthy(c)
  <2>1. check[c].type = "failing"
    BY <1>6, CheckFacts DEF ReadHealthy, CheckFine
  <2>2. QED
    BY <1>3, <1>6, <2>1, LastIsNewest DEF ReadHealthy, Goto, Inv
<1>7. QED
  BY <1>2, <1>4, <1>5, <1>6 DEF ReadSuccess, ReadRecent

LEMMA ReadStateHolds == ASSUME Inv, Inv', Silence, NEW c \in Checks, ReadState(c) PROVE Silence'
<1>1. messages' = messages /\ UNCHANGED <<now, runs>> /\ pc[c] = "state"
  BY DEF ReadState
<1>2. CASE AlreadyReported(c)
  BY <1>1, <1>2, EndHolds DEF ReadState
<1>3. CASE ~AlreadyReported(c)
  <2>1. PICK o : check' = [check EXCEPT ![c] = [check[c] EXCEPT !.overlaps = o]]
    BY <1>3 DEF ReadState
  <2> DEFINE k == [check[c] EXCEPT !.overlaps = o]
  <2>2. k.since = check[c].since /\ k.type = check[c].type /\ k.overtaken = check[c].overtaken
    BY CheckFacts DEF CheckRecord
  <2>3. pc' = [pc EXCEPT ![c] = "send"] /\ check' = [check EXCEPT ![c] = k]
    BY <1>3, <2>1 DEF ReadState, Goto
  <2> HIDE DEF k
  <2>4. Holds("send", k)
    BY <1>1, <2>2 DEF Silence, Holds, Holding, Reporting, Explained, OvertakenBefore
  <2>5. QED
    BY <1>1, <2>3, <2>4, OneHolds
<1>4. QED
  BY <1>2, <1>3

LEMMA SendHolds == ASSUME Inv, Inv', Silence, NEW c \in Checks, Send(c) PROVE Silence'
<1>1. /\ \A m \in messages' : m \in messages \/ m.recorded = 0
      /\ UNCHANGED <<now, runs>> /\ pc[c] = "send"
  BY SentFacts DEF Send
<1>2. CASE EndCheck(c)
  BY <1>1, <1>2, EndHolds
<1>3. CASE Goto(c, "record") /\ check' = check
  <2>1. check' = [check EXCEPT ![c] = check[c]] /\ Holds("record", check[c])
    BY <1>1, <1>3 DEF Inv, ChecksFine, Silence, Holds, Holding, Reporting
  <2>2. QED
    BY <1>1, <1>3, <2>1, OneHolds DEF Goto
<1>4. QED
  BY <1>2, <1>3 DEF Send

(* The alert takes with it what its check knows. *)
LEMMA RecordHolds == ASSUME Inv, Inv', Silence, NEW c \in Checks, Record(c) PROVE Silence'
<1> DEFINE r == [Sent(c) EXCEPT !.recorded = now + 1, !.overtaken = check[c].overtaken]
<1>1. PICK type : pc' = [pc EXCEPT ![c] = "read"] /\ check' = [check EXCEPT ![c] = Fresh(type)]
  BY DEF Record, EndCheck, Begin
<1>2. pc[c] = "record" /\ now' = now + 1 /\ messages' = (messages \ {Sent(c)}) \cup {r} /\ runs' = runs
  BY DEF Record
<1>3. r.type = check[c].type /\ r.since = check[c].since /\ r.overtaken = check[c].overtaken
  BY SentFacts DEF Message
<1> HIDE DEF r
<1>4. \A i \in DOMAIN runs : Explained(r, i)
  BY <1>2, <1>3 DEF Silence, Holds, Holding, Reporting, Explained, OvertakenBefore
<1>5. \A d \in Checks : Holds(pc'[d], check'[d])
  BY <1>1, FreshHolds DEF Inv, ChecksFine, Silence
<1>6. QED
  BY <1>2, <1>4, <1>5, NoCycle

(* A cycle overtakes every check under way, and is newer than every record. *)
LEMMA CompleteRunHolds ==
  ASSUME Inv, Inv', Silence, NEW failed \in Failures, CompleteRun(failed)
  PROVE  Silence'
<1> DEFINE run == [at |-> now + 1, failed |-> failed]
<1>1. runs' = Append(runs, run) /\ now' = now + 1 /\ Overtake(run) /\ pc' = pc /\ messages' = messages
  BY DEF CompleteRun, Completes
<1>2. run.at = now + 1 /\ now \in Nat /\ now + 1 \in Nat
  BY DEF Inv, World
<1> HIDE DEF run
<1>0. PICK n : n = Len(runs) + 1
  OBVIOUS
<1>3. /\ DOMAIN runs' = DOMAIN runs \cup {n} /\ n \notin DOMAIN runs /\ runs'[n] = run
      /\ \A i \in DOMAIN runs : runs'[i] = runs[i] /\ runs[i].at \in 1 .. now
  BY <1>1, <1>0, RunFacts
<1>4. ASSUME NEW c \in Checks PROVE Holds(pc[c], check[c])'
  <2> DEFINE overtakes == pc[c] # "read" /\ check[c].overtaken = 0 /\ EndsOutage(check[c].type, run)
  <2>1. PICK k : k = check'[c]
    OBVIOUS
  <2>2. /\ k.type = check[c].type /\ k.since = check[c].since
        /\ k.overtaken = IF overtakes THEN now + 1 ELSE check[c].overtaken
    BY <1>1, <1>2, <2>1, OvertakeFacts
  <2>3. /\ check[c].overtaken \in Nat /\ check[c].overtaken <= now /\ check[c].since \in 0 .. now
        /\ pc'[c] = pc[c]
    BY <1>1, CheckFacts DEF Silence, Holds
  <2>4. k.overtaken <= now'
    BY <1>1, <1>2, <2>2, <2>3
  <2>5. ASSUME pc[c] \in Holding
        PROVE  /\ \A i \in DOMAIN runs' : Explained(k, i)'
               /\ k.since = 0 \/ \E i \in DOMAIN runs' : EndsOutage(k.type, runs'[i]) /\ runs'[i].at = k.since
    <3>1. \A i \in DOMAIN runs : Explained(check[c], i)
      BY <2>5 DEF Silence, Holds
    <3>2. ASSUME NEW i \in DOMAIN runs PROVE Explained(k, i)'
      <4>1. k.overtaken = check[c].overtaken \/ check[c].overtaken = 0
        BY <2>2
      <4>2. QED
        BY <1>3, <2>2, <3>1, <4>1 DEF Explained, OvertakenBefore, EndsOutage
    <3>3. Explained(k, n)'
      <4>1. pc[c] # "read"
        BY <2>5 DEF Holding, Reporting
      <4>2. EndsOutage(k.type, run) => k.overtaken # 0 /\ k.overtaken <= now + 1
        BY <1>2, <2>2, <2>3, <4>1
      <4>3. QED
        BY <1>2, <1>3, <4>2 DEF Explained, OvertakenBefore, EndsOutage
    <3>4. check[c].since = 0 \/ \E i \in DOMAIN runs :
            EndsOutage(check[c].type, runs[i]) /\ runs[i].at = check[c].since
      BY <2>5 DEF Silence, Holds
    <3>5. \A i \in DOMAIN runs' : Explained(k, i)'
      BY <1>3, <3>2, <3>3
    <3>6. k.since = 0 \/ \E i \in DOMAIN runs' : EndsOutage(k.type, runs'[i]) /\ runs'[i].at = k.since
      BY <1>3, <2>2, <3>4
    <3>7. QED
      BY <3>5, <3>6
  <2>6. Holds(pc[c], k)'
    BY <2>3, <2>4, <2>5 DEF Holds
  <2>7. QED
    BY <2>1, <2>6
<1>5. ASSUME NEW m \in messages, m.recorded # 0, NEW i \in DOMAIN runs', runs'[i].at <= m.recorded
      PROVE  Explained(m, i)'
  <2>1. m.recorded <= now
    <3>1. m.recorded <= alertState[m.type] /\ m.type \in Types /\ m.recorded \in Nat
      BY <1>5 DEF Inv, Ledger, Message
    <3>2. alertState[m.type] \in 0 .. now
      BY <3>1 DEF Inv, World
    <3>3. QED
      BY <1>2, <3>1, <3>2
  <2>2. m.recorded \in Nat
    BY DEF Inv, Ledger, Message
  <2>3. i # n
    BY <1>2, <1>3, <1>5, <2>1, <2>2
  <2>4. QED
    BY <1>3, <1>5, <2>3 DEF Silence, Explained
<1>6. QED
  BY <1>1, <1>4, <1>5 DEF Silence

LEMMA NextHolds == ASSUME Inv, Inv', Silence, [Next]_vars PROVE Silence'
<1>1. CASE UNCHANGED vars
  BY <1>1 DEF vars, Silence, Holds, Explained
<1>2. ASSUME NEW c \in Checks, Fails(c) PROVE Silence'
  BY <1>2, EndHolds DEF Fails
<1>3. CASE Restart
  <2>1. \A c \in Checks : Holds(pc'[c], check'[c])
    BY <1>3, FreshHolds DEF Restart
  <2>2. QED
    BY <1>3, <2>1, NoCycle DEF Restart
<1>4. CASE Tick
  <2>1. \A c \in Checks : Holds(pc'[c], check'[c])
    BY <1>4 DEF Tick, Silence
  <2>2. QED
    BY <1>4, <2>1, NoCycle DEF Tick
<1>5. QED
  BY <1>1, <1>2, <1>3, <1>4, ReadHolds, ReadStateHolds, SendHolds, RecordHolds, CompleteRunHolds
  DEF Next, CheckStep

LEMMA SilenceInvariance == Spec => []Silence
<1>1. Init => Silence
  <2> SUFFICES ASSUME Init PROVE Silence
    OBVIOUS
  <2>1. Inv
    BY InitInv
  <2>2. QED
    BY <2>1, FreshHolds DEF Init, Silence
<1>2. Inv /\ Inv' /\ Silence /\ [Next]_vars => Silence'
  BY NextHolds
<1>3. QED
  BY <1>1, <1>2, Invariance, PTL DEF Spec

(* Only the early return of sendOncePerOutage is silent. *)
LEMMA SilencedIsReported ==
  ASSUME Inv, [Next]_vars, NEW c \in Checks, Silenced(c)
  PROVE  AlreadyReported(c)
<1>1. pc[c] = "state" /\ pc'[c] = "read" /\ mishaps' = mishaps /\ mishaps \in Nat
  BY DEF Silenced, Inv, World
<1>2. ASSUME NEW d \in Checks, CheckStep(d) PROVE d = c
  <2>1. \E x : pc' = [pc EXCEPT ![d] = x]
    BY <1>2 DEF CheckStep, ReadSuccess, ReadRecent, ReadHealthy, ReadState, Send, Record, Fails,
       Goto, EndCheck, Begin
  <2>2. QED
    BY <1>1, <2>1
<1>3. CASE CheckStep(c)
  <2>1. ReadState(c)
    BY <1>1, <1>3 DEF CheckStep, ReadSuccess, ReadRecent, ReadHealthy, Send, Record, Fails
  <2>2. CASE Goto(c, "send")
    BY <1>1, <2>2 DEF Goto, Inv, ChecksFine
  <2>3. QED
    BY <2>1, <2>2 DEF ReadState
<1>4. ~Restart /\ ~Tick /\ \A failed \in Failures : ~CompleteRun(failed)
  <2>1. ~Restart
    BY <1>1, Bounds DEF Restart
  <2>2. pc' # pc
    BY <1>1
  <2>3. QED
    BY <2>1, <2>2 DEF Tick, CompleteRun, Completes
<1>5. ~UNCHANGED vars
  BY <1>1 DEF vars
<1>6. QED
  BY <1>2, <1>3, <1>4, <1>5 DEF Next

(* A check that stays silent is right: Slack received an alert about its outage
   or a later one, unless that alert was overtaken, before this outage began, by
   a cycle that completed while it was being made (alerting.ts). *)
THEOREM SilenceIsExplained == Spec => SilencedForAReason
<1>1. ASSUME Inv, Silence, [Next]_vars PROVE
        \A c \in Checks : Silenced(c) =>
          LET type == check[c].type  since == check[c].since IN
          \E m \in messages : /\ m.type = type /\ m.recorded = alertState[type]
                              /\ TellsOf(m, type, since) \/ OvertakenBefore(m, since)
  <2> SUFFICES ASSUME NEW c \in Checks, Silenced(c)
               PROVE  \E m \in messages :
                        /\ m.type = check[c].type /\ m.recorded = alertState[check[c].type]
                        /\ TellsOf(m, check[c].type, check[c].since) \/ OvertakenBefore(m, check[c].since)
    OBVIOUS
  <2> DEFINE at == alertState[check[c].type]
  <2>1. at # 0 /\ (check[c].since = 0 \/ at > check[c].since)
    BY <1>1, SilencedIsReported DEF AlreadyReported
  <2>2. at \in Nat /\ check[c].type \in Types /\ check[c].since \in Nat
    BY <1>1, CheckFacts DEF Inv, World
  <2>3. PICK m \in messages : m.type = check[c].type /\ m.recorded = at
    BY <1>1, <2>1, <2>2 DEF Inv, Ledger
  <2>4. m.since \in Nat /\ m.overtaken \in Nat
    BY <1>1 DEF Inv, Ledger, Message
  <2>5. check[c].since = 0 \/ \E i \in DOMAIN runs :
          EndsOutage(check[c].type, runs[i]) /\ runs[i].at = check[c].since
    BY <1>1 DEF Silence, Holds, Holding, Silenced
  <2>6. check[c].since <= m.since \/ OvertakenBefore(m, check[c].since)
    <3>1. CASE check[c].since = 0
      BY <2>4, <3>1
    <3>2. CASE check[c].since # 0
      <4>1. PICK i \in DOMAIN runs : EndsOutage(check[c].type, runs[i]) /\ runs[i].at = check[c].since
        BY <2>5, <3>2
      <4>2. runs[i].at <= m.recorded
        BY <2>1, <2>2, <2>3, <3>2, <4>1
      <4>3. Explained(m, i)
        BY <1>1, <2>1, <2>3, <4>2 DEF Silence
      <4>4. QED
        BY <2>3, <4>1, <4>3 DEF Explained
    <3>3. QED
      BY <3>1, <3>2
  <2>7. TellsOf(m, check[c].type, check[c].since) \/ OvertakenBefore(m, check[c].since)
    BY <2>2, <2>3, <2>4, <2>6 DEF TellsOf
  <2>8. QED
    BY <2>3, <2>7
<1>2. QED
  BY <1>1, Invariance, SilenceInvariance, PTL DEF Spec, SilencedForAReason
=============================================================================
