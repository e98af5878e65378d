------------------------------ MODULE Verdicts ------------------------------
(***************************************************************************)
(* What the web pages make of a company's scores: the company page's       *)
(* cards, gauges and summary (web/src/lib/explain.ts, HealthCheck.tsx,     *)
(* CompanyPage.tsx) and the company list's chips (ratings.ts,              *)
(* CompaniesPage.tsx).  `scores` is [altmanZ, piotroskiF, beneishM], as    *)
(* computeCompanyScores returns it.  A sentence is named by what it says.  *)
(***************************************************************************)
EXTENDS Scores, Orders

ScoreNames == {"altmanZ", "piotroskiF", "beneishM"}

(* JSON has no Infinity and no NaN: such a value arrives as null, and the
   browser's arithmetic and formatScore take null for 0.  toFixed(3) drops
   the last digits, here of millionths. *)
OverTheWire(m) == IF m.kind = "number"
                  THEN LET up == ((IF m.value < 0 THEN -m.value ELSE m.value) + 500) \div 1000
                       IN 1000 * (IF m.value < 0 THEN -up ELSE up)
                  ELSE 0

IsScored(outcome) == outcome.status = "ok"

(* summarizeScore: what the list gets of an outcome. *)
RatingSummary(outcome) ==
  IF IsScored(outcome) THEN [status |-> "ok", value |-> outcome.value, classification |-> outcome.classification]
  ELSE [status |-> "insufficient-history"]

-----------------------------------------------------------------------------
(* explain.ts *)

Clamp(x, low, high) == IF x < low THEN low ELSE IF x > high THEN high ELSE x

(* Where the marker stands, on the scale of the gauge. *)
AltmanGauge == [min |-> 0, cautionFrom |-> 110000, safeFrom |-> 260000, max |-> 400000]
BeneishGauge == [min |-> -4000000, threshold |-> -2220000, max |-> -1000000]

AltmanBand(rating) ==
  [position |-> Clamp(rating.value, AltmanGauge.min, AltmanGauge.max),
   tone |-> CASE rating.classification = "safe" -> "good"
              [] rating.classification = "distress" -> "critical"
              [] OTHER -> "warning"]

PiotroskiBand(classification) ==
  [tone |-> CASE classification = "high-quality" -> "good"
              [] classification = "low-quality" -> "critical"
              [] OTHER -> "neutral"]

BeneishBand(rating) ==
  [position |-> Clamp(OverTheWire(rating.value), BeneishGauge.min, BeneishGauge.max),
   tone |-> IF rating.classification = "likely-manipulator" THEN "serious" ELSE "good"]

PiotroskiOrder == <<"positiveROA", "positiveCFO", "cfoExceedsNetIncome", "decreasingLeverage", "noNewShares",
                    "improvingGrossMargin", "improvingROA", "improvingCurrentRatio", "improvingAssetTurnover">>

(* The nine checks, the passed ones first. *)
PiotroskiChecks(signals) ==
  LET checks(passed) == Picked(PiotroskiOrder, {i \in DOMAIN PiotroskiOrder : signals[PiotroskiOrder[i]] = passed})
  IN [i \in DOMAIN checks(TRUE) |-> TRUE] \o [i \in DOMAIN checks(FALSE) |-> FALSE]

(* Beneish's averages of the manipulators, in thousandths. *)
BeneishFlags == [dsri |-> 1465, gmi |-> 1193, aqi |-> 1254, sgi |-> 1607, depi |-> 1077, sgai |-> 1041, lvgi |-> 1111, tata |-> 31]

(* An index that is no number arrives as null, taken for 0. *)
BeneishReasons(indices) ==
  LET flagged == {i \in DOMAIN BeneishFlags : indices[i].kind = "number" /\ indices[i].value > BeneishFlags[i]}
  IN IF flagged # {} THEN flagged ELSE {"within normal ranges"}

(* A missing score's reason, in the page's words: more than three figures are
   not listed. *)
MaxListed == 3
UnscoredReason(why) ==
  CASE why.reason = "no-common-year" -> {"years differ"}
    [] why.reason = "missing" -> IF Cardinality(why.figures) > MaxListed THEN {"most figures"} ELSE why.figures
    [] OTHER -> {"not enough figures"}

(* clauses: of each score that is there, whether it reads well. *)
Clauses(scores) ==
  LET reads(s) == CASE s = "altmanZ" -> scores[s].classification = "safe"
                    [] s = "piotroskiF" -> scores[s].classification # "low-quality"
                    [] s = "beneishM" -> scores[s].classification # "likely-manipulator"
  IN [s \in {n \in ScoreNames : IsScored(scores[n])} |-> reads(s)]

(* The sentence "In short": what it praises, then what comes after "but". *)
Summarize(scores) ==
  LET all == Clauses(scores)
  IN [praise |-> {s \in DOMAIN all : all[s]}, but |-> {s \in DOMAIN all : ~all[s]}]

HasSummary(scores) == DOMAIN Clauses(scores) # {}

-----------------------------------------------------------------------------
(* The company page's cards *)

UnscoredCard(outcome) == [tone |-> "neutral", reasons |-> UnscoredReason(outcome.why)]

AltmanCard(outcome) ==
  [tone |-> AltmanBand(outcome).tone, position |-> AltmanBand(outcome).position,
   zones |-> [critical |-> <<AltmanGauge.min, AltmanGauge.cautionFrom>>,
              warning  |-> <<AltmanGauge.cautionFrom, AltmanGauge.safeFrom>>,
              good     |-> <<AltmanGauge.safeFrom, AltmanGauge.max>>]]

PiotroskiCard(outcome) ==
  [tone |-> PiotroskiBand(outcome.classification).tone,
   bars |-> [i \in 1..9 |-> i <= outcome.value],
   checks |-> PiotroskiChecks(outcome.signals)]

BeneishCard(outcome) ==
  [tone |-> BeneishBand(outcome).tone, position |-> BeneishBand(outcome).position,
   reasons |-> BeneishReasons(outcome.indices),
   zones |-> [good    |-> <<BeneishGauge.min, BeneishGauge.threshold>>,
              serious |-> <<BeneishGauge.threshold, BeneishGauge.max>>]]

Card(scores, s) ==
  IF ~IsScored(scores[s]) THEN UnscoredCard(scores[s])
  ELSE CASE s = "altmanZ" -> AltmanCard(scores[s])
         [] s = "piotroskiF" -> PiotroskiCard(scores[s])
         [] s = "beneishM" -> BeneishCard(scores[s])

(* Gauge: the zones the marker stands in, a boundary being in both. *)
MarkedZones(card) ==
  {z \in DOMAIN card.zones : card.zones[z][1] <= card.position /\ card.position <= card.zones[z][2]}

(* Cards: none for a bank or an insurer without scores. *)
ShowsNotice(scores, isFinancial) == isFinancial /\ \A s \in ScoreNames : ~IsScored(scores[s])

-----------------------------------------------------------------------------
(* The company list *)

RatingChip(s, rating) ==
  CASE s = "altmanZ" -> AltmanBand(rating).tone
    [] s = "piotroskiF" -> PiotroskiBand(rating.classification).tone
    [] s = "beneishM" -> IF rating.classification = "likely-manipulator" THEN "serious" ELSE "good"

ScoredCount(ratings) == Cardinality({s \in ScoreNames : IsScored(ratings[s])})

(* Mutant: the grey zone is no concern. *)
ConcernsDistressOnly(ratings) ==
  \/ IsScored(ratings["altmanZ"]) /\ ratings["altmanZ"].classification = "distress"
  \/ IsScored(ratings["piotroskiF"]) /\ ratings["piotroskiF"].classification = "low-quality"
  \/ IsScored(ratings["beneishM"]) /\ ratings["beneishM"].classification = "likely-manipulator"
HasConcern(ratings) ==
  \/ IsScored(ratings["altmanZ"]) /\ ratings["altmanZ"].classification # "safe"
  \/ IsScored(ratings["piotroskiF"]) /\ ratings["piotroskiF"].classification = "low-quality"
  \/ IsScored(ratings["beneishM"]) /\ ratings["beneishM"].classification = "likely-manipulator"

(* A row without scores names the company a bank. *)
RowSaysBank(ratings, isFinancial) == ScoredCount(ratings) = 0 /\ isFinancial

-----------------------------------------------------------------------------

Alarming == {"warning", "serious", "critical"}
NoNumber(outcome) == outcome.value.kind \in {"nan", "-inf"}

(* List and company page, computed apart from the same outcomes, tell one
   story: the same tones; a concern listed exactly when a card is alarming and
   when the summary has a "but"; nothing summarised exactly when nothing is
   scored.  A badge names the zone its marker stands in - but for a Beneish
   score that is no number, which the code lets through - and the bars count
   the checks that passed. *)
VerdictsAgree(scores, isFinancial) ==
  LET ratings == [s \in ScoreNames |-> RatingSummary(scores[s])]
      scored == {s \in ScoreNames : IsScored(scores[s])}
      alarming == {s \in ScoreNames : Card(scores, s).tone \in Alarming}
  IN /\ \A s \in scored : RatingChip(s, ratings[s]) = Card(scores, s).tone
     /\ HasConcern(ratings) <=> alarming # {}
     /\ Summarize(scores).but = alarming
     /\ HasSummary(scores) <=> ScoredCount(ratings) > 0
     /\ RowSaysBank(ratings, isFinancial) <=> ShowsNotice(scores, isFinancial)
     /\ \A s \in scored \ {"piotroskiF"} :
          \/ Card(scores, s).tone \in MarkedZones(Card(scores, s))
          \/ s = "beneishM" /\ NoNumber(scores[s])
     /\ "piotroskiF" \in scored => Card(scores, "piotroskiF").bars = Card(scores, "piotroskiF").checks
=============================================================================
