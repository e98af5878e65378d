-------------------------- MODULE BoundedStaleness --------------------------
(***************************************************************************)
(* What a visitor may rely on, with no cache, replica or process in sight: *)
(* an answer shows rows that were committed, and shows every commit at     *)
(* least Bound old.                                                        *)
(***************************************************************************)
EXTENDS Naturals, Sequences

CONSTANTS
  Kinds,     \* kinds of rows
  Keys,      \* kinds of answers
  Needs(_),  \* the kinds of rows an answer is computed from
  Bound      \* how long a commit may be missing from an answer

VARIABLES
  now,    \* the clock
  log,    \* the commits: what was written and when
  answer  \* the answer given last, if the last step gave one: its key and, by
          \* kind, the last commit it shows

staleVars == <<now, log, answer>>

NoAnswer == [key |-> "none", seen |-> [kind \in Kinds |-> 0]]

StaleInit == now = 0 /\ log = <<>> /\ answer = NoAnswer

(* Every commit answer a had to show by now. *)
ShowsWhatIsOld(a) ==
  \A i \in 1..Len(log) :
    log[i].kind \in Needs(a.key) /\ log[i].at + Bound <= now => i <= a.seen[log[i].kind]

Write == /\ \E kind \in Kinds : log' = Append(log, [kind |-> kind, at |-> now])
         /\ answer' = NoAnswer /\ UNCHANGED now

TimePasses == now' = now + 1 /\ answer' = NoAnswer /\ UNCHANGED log

Pause == answer' = NoAnswer /\ UNCHANGED <<now, log>>

Respond ==
  /\ answer'.key \in Keys
  /\ \A kind \in Kinds : answer'.seen[kind] \in 0..Len(log)
  /\ ShowsWhatIsOld(answer')
  /\ UNCHANGED <<now, log>>

StaleSpec == StaleInit /\ [][Write \/ TimePasses \/ Respond \/ Pause]_staleVars
=============================================================================
