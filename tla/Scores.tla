------------------------------- MODULE Scores -------------------------------
(***************************************************************************)
(* The three health scores (src/scoring.ts) and the company page's charts  *)
(* (src/companyFinancials.ts), as operators.  A series maps fiscal years   *)
(* to values; `series` maps each figure a formula needs to its series.     *)
(*                                                                         *)
(* Money is in small integers and quotients in thousandths, cut off; a     *)
(* quotient also keeps what IEEE arithmetic does with a zero denominator.  *)
(***************************************************************************)
EXTENDS Integers, FiniteSetsExt, Functions

(* -Infinity *)
NoYear == -1

(* combineByYear: for the years both have. *)
Difference(a, b) == [y \in DOMAIN a \cap DOMAIN b |-> a[y] - b[y]]
Total(a, b) == [y \in DOMAIN a \cap DOMAIN b |-> a[y] + b[y]]

NewestYear(s) == Max({NoYear} \cup DOMAIN s)

(* Mutant: the years of the reported and the derived figure are mixed. *)
DeriveMixed(series, key, combined) ==
  [series EXCEPT ![key] = [y \in DOMAIN @ \cup DOMAIN combined |->
                             IF y \in DOMAIN combined THEN combined[y] ELSE @[y]]]

(* deriveIfMissing: a figure the company does not report, or not as lately as
   some other figure, is combined from two parts, if that reaches a newer year. *)
DeriveIfMissing(series, key, combined) ==
  LET reported == series[key]
      elsewhere == Max({NewestYear(series[k]) : k \in DOMAIN series \ {key}})
  IN IF \/ DOMAIN reported # {} /\ NewestYear(reported) >= elsewhere
        \/ NewestYear(combined) <= NewestYear(reported)
     THEN series
     ELSE [series EXCEPT ![key] = combined]

(* fetchSeries, of what getAnnualValues returns for each figure. *)
FetchSeries(values, figures) == [k \in figures |-> values[k]]

DeriveLiabilities(series) == DeriveIfMissing(series, "liabilities", Difference(series["assets"], series["equity"]))
DeriveGrossProfit(series, cost) == DeriveIfMissing(series, "grossProfit", Difference(series["revenue"], cost))
DeriveSga(series, selling, general) == DeriveIfMissing(series, "sga", Total(selling, general))

(* The figures of one year, for a formula. *)
At(series, y) == [k \in DOMAIN series |-> series[k][y]]

(* selectYears: the newest year every figure has, and has the year before of
   if needed; or why there is none. *)
Candidates(series, needPrior) ==
  LET everywhere == {y \in UNION {DOMAIN series[k] : k \in DOMAIN series} :
                       \A k \in DOMAIN series : y \in DOMAIN series[k]}
  IN {y \in everywhere : needPrior => y - 1 \in everywhere}

SelectYears(series, needPrior) ==
  LET required == IF needPrior THEN 2 ELSE 1
      candidates == Candidates(series, needPrior)
  IN IF \E k \in DOMAIN series : Cardinality(DOMAIN series[k]) < required
     THEN [ok |-> FALSE, reason |-> "missing",
           figures |-> {k \in DOMAIN series : Cardinality(DOMAIN series[k]) < required}]
     ELSE IF candidates = {} THEN [ok |-> FALSE, reason |-> "no-common-year"]
     ELSE [ok |-> TRUE, year |-> Max(candidates)]

(* getCompanyFinancials: the chart of liabilities. *)
ChartLiabilities(series) ==
  LET derived == Difference(series["assets"], series["equity"])
  IN IF NewestYear(derived) > NewestYear(series["liabilities"]) THEN derived ELSE series["liabilities"]

-----------------------------------------------------------------------------
(* Numbers *)

(* x / y in thousandths, with y > 0; 0 / 0 is no number, and anything else by
   zero is infinite. *)
Quotient(x, y) ==
  IF y # 0 THEN [kind |-> "number", value |-> LET s == IF y > 0 THEN x ELSE -x
                                                  d == IF y > 0 THEN y ELSE -y
                                              IN (1000 * s) \div d]
  ELSE [kind |-> IF x > 0 THEN "+inf" ELSE IF x < 0 THEN "-inf" ELSE "nan", value |-> 0]

(* q > r, false of what is no number. *)
Above(q, r) ==
  \/ q.kind = "number" /\ r.kind = "number" /\ q.value > r.value
  \/ q.kind = "+inf" /\ r.kind \in {"number", "-inf"}
  \/ q.kind = "number" /\ r.kind = "-inf"

-----------------------------------------------------------------------------
(* computeAltmanZDoublePrime: z in 1/100000. *)

Unscored(selection) == [status |-> "insufficient-history", why |-> selection]

AltmanFigures == {"assets", "liabilities", "currentAssets", "currentLiabilities", "retainedEarnings", "ebit", "equity"}

AltmanZ(v) ==
  656 * Quotient(v.currentAssets - v.currentLiabilities, v.assets).value + 326 * Quotient(v.retainedEarnings, v.assets).value
    + 672 * Quotient(v.ebit, v.assets).value + 105 * Quotient(v.equity, v.liabilities).value

AltmanZone(z) == IF z > 260000 THEN "safe" ELSE IF z > 110000 THEN "grey-zone" ELSE "distress"

(* toFixed(3), of the absolute value: back to 1/100000. *)
Rounded(z) == IF z >= 0 THEN ((z + 50) \div 100) * 100 ELSE -((((-z) + 50) \div 100) * 100)

Altman(v) ==
  IF v.assets = 0 \/ v.liabilities = 0 THEN Unscored([reason |-> "zero"])
  ELSE [status |-> "ok", value |-> Rounded(AltmanZ(v)), classification |-> AltmanZone(AltmanZ(v))]

ComputeAltman(values) ==
  LET series == DeriveLiabilities(FetchSeries(values, AltmanFigures))
      selection == SelectYears(series, FALSE)
  IN IF selection.ok THEN Altman(At(series, selection.year)) ELSE Unscored(selection)

(* computePiotroskiFScore *)

PiotroskiFigures == {"assets", "currentAssets", "currentLiabilities", "longTermDebt", "cfo", "netIncome",
                     "shares", "grossProfit", "revenue"}

Signals(t, p) == [
  positiveROA            |-> Quotient(t.netIncome, t.assets).value > 0,
  positiveCFO            |-> t.cfo > 0,
  improvingROA           |-> Above(Quotient(t.netIncome, t.assets), Quotient(p.netIncome, p.assets)),
  cfoExceedsNetIncome    |-> t.cfo > t.netIncome,
  decreasingLeverage     |-> Above(Quotient(p.longTermDebt, p.assets), Quotient(t.longTermDebt, t.assets)),
  improvingCurrentRatio  |-> Above(Quotient(t.currentAssets, t.currentLiabilities), Quotient(p.currentAssets, p.currentLiabilities)),
  noNewShares            |-> t.shares <= p.shares,
  improvingGrossMargin   |-> Above(Quotient(t.grossProfit, t.revenue), Quotient(p.grossProfit, p.revenue)),
  improvingAssetTurnover |-> Above(Quotient(t.revenue, t.assets), Quotient(p.revenue, p.assets))]

Passed(signals) == {s \in DOMAIN signals : signals[s]}

Quality(score) == IF score >= 8 THEN "high-quality" ELSE IF score <= 2 THEN "low-quality" ELSE "moderate"

Piotroski(t, p) ==
  IF 0 \in {t.assets, p.assets, t.revenue, p.revenue} THEN Unscored([reason |-> "zero"])
  ELSE LET score == Cardinality(Passed(Signals(t, p))) IN
       [status |-> "ok", value |-> score, classification |-> Quality(score), signals |-> Signals(t, p)]

ComputePiotroski(values) ==
  LET series == DeriveGrossProfit(FetchSeries(values, PiotroskiFigures), values["costOfRevenue"])
      selection == SelectYears(series, TRUE)
  IN IF selection.ok THEN Piotroski(At(series, selection.year), At(series, selection.year - 1))
     ELSE Unscored(selection)

(* computeBeneishMScore: the indices, as quotients; those of quotients are
   multiplied out. *)
Indices(t, p) == [
  dsri |-> Quotient(t.receivables * p.revenue, t.revenue * p.receivables),
  gmi  |-> Quotient(p.grossProfit * t.revenue, p.revenue * t.grossProfit),
  aqi  |-> Quotient((t.assets - t.currentAssets - t.ppe) * p.assets, t.assets * (p.assets - p.currentAssets - p.ppe)),
  sgi  |-> Quotient(t.revenue, p.revenue),
  depi |-> Quotient(p.depreciation * (t.depreciation + t.ppe), (p.depreciation + p.ppe) * t.depreciation),
  sgai |-> Quotient(t.sga * p.revenue, t.revenue * p.sga),
  tata |-> Quotient(t.netIncome - t.cfo, t.assets),
  lvgi |-> Quotient((t.longTermDebt + t.currentLiabilities) * p.assets, t.assets * (p.longTermDebt + p.currentLiabilities))]

BeneishFigures == {"assets", "currentAssets", "currentLiabilities", "longTermDebt", "cfo", "netIncome",
                   "revenue", "grossProfit", "receivables", "ppe", "depreciation", "sga"}

Weights == [dsri |-> 920, gmi |-> 528, aqi |-> 404, sgi |-> 892, depi |-> 115, sgai |-> -172, tata |-> 4679, lvgi |-> -327]

(* The sum, in millionths: infinite if a term is, no number if one is none or
   two infinities cancel. *)
BeneishM(indices) ==
  LET up == {i \in DOMAIN indices : indices[i].kind = IF Weights[i] > 0 THEN "+inf" ELSE "-inf"}
      down == {i \in DOMAIN indices : indices[i].kind = IF Weights[i] > 0 THEN "-inf" ELSE "+inf"}
  IN IF (\E i \in DOMAIN indices : indices[i].kind = "nan") \/ (up # {} /\ down # {})
     THEN [kind |-> "nan", value |-> 0]
     ELSE IF up # {} THEN [kind |-> "+inf", value |-> 0]
     ELSE IF down # {} THEN [kind |-> "-inf", value |-> 0]
     ELSE [kind |-> "number",
           value |-> SumFunction([i \in DOMAIN indices |-> Weights[i] * indices[i].value]) - 4840000]

DenominatorsAreNonZero(t, p) ==
  /\ t.revenue # 0 /\ p.revenue # 0 /\ t.assets # 0 /\ p.assets # 0
  /\ t.depreciation + t.ppe # 0 /\ p.depreciation + p.ppe # 0

Beneish(t, p) ==
  IF ~DenominatorsAreNonZero(t, p) THEN Unscored([reason |-> "zero"])
  ELSE LET m == BeneishM(Indices(t, p)) IN
       [status |-> "ok", value |-> m, indices |-> Indices(t, p),
        classification |-> IF Above(m, [kind |-> "number", value |-> -2220000])
                           THEN "likely-manipulator" ELSE "unlikely-manipulator"]

ComputeBeneish(values) ==
  LET withMargin == DeriveGrossProfit(FetchSeries(values, BeneishFigures), values["costOfRevenue"])
      series == DeriveSga(withMargin, values["sellingMarketing"], values["generalAdmin"])
      selection == SelectYears(series, TRUE)
  IN IF selection.ok THEN Beneish(At(series, selection.year), At(series, selection.year - 1))
     ELSE Unscored(selection)

(* computeCompanyScores *)
CompanyScores(values) ==
  [altmanZ |-> ComputeAltman(values), piotroskiF |-> ComputePiotroski(values), beneishM |-> ComputeBeneish(values)]

-----------------------------------------------------------------------------

(* The years a formula can score: every figure reported, or one of them
   replaced throughout by its derivation. *)
Whole(values, figures, replaced) ==
  [k \in figures |-> IF k \notin replaced THEN values[k]
                     ELSE CASE k = "liabilities" -> Difference(values["assets"], values["equity"])
                            [] k = "grossProfit" -> Difference(values["revenue"], values["costOfRevenue"])
                            [] k = "sga" -> Total(values["sellingMarketing"], values["generalAdmin"])]

ScoresOneYear(outcome, values, figures, derivable, needPrior, formula(_, _)) ==
  outcome.status = "ok" =>
    \E replaced \in SUBSET derivable :
      LET series == Whole(values, figures, replaced)
          candidates == Candidates(series, needPrior)
      IN candidates # {} /\ outcome = formula(series, Max(candidates))

(* A score is that of one year - with the year before, if it compares - with
   no mix of reported and derived values in a figure and none of another
   year; deriving liabilities never costs a company its Altman score; the
   chart of liabilities shows what that score read; a reason names only
   figures that are short of years as they are reported or derived. *)
ScoredYearIsCommon(values) ==
  LET reported == FetchSeries(values, AltmanFigures)
      scores == CompanyScores(values)
  IN /\ ScoresOneYear(scores.altmanZ, values, AltmanFigures, {"liabilities"}, FALSE, LAMBDA s, y : Altman(At(s, y)))
     /\ ScoresOneYear(scores.piotroskiF, values, PiotroskiFigures, {"grossProfit"}, TRUE,
                      LAMBDA s, y : Piotroski(At(s, y), At(s, y - 1)))
     /\ ScoresOneYear(scores.beneishM, values, BeneishFigures, {"grossProfit", "sga"}, TRUE,
                      LAMBDA s, y : Beneish(At(s, y), At(s, y - 1)))
     /\ SelectYears(reported, FALSE).ok =>
          LET after == SelectYears(DeriveLiabilities(reported), FALSE)
          IN after.ok /\ after.year >= SelectYears(reported, FALSE).year
     /\ ChartLiabilities(reported) = DeriveLiabilities(reported)["liabilities"]
     /\ \A s \in DOMAIN scores :
          scores[s].status # "ok" /\ scores[s].why.reason = "missing" =>
            \A k \in scores[s].why.figures : \E replaced \in SUBSET {"liabilities", "grossProfit", "sga"} :
              Cardinality(DOMAIN Whole(values, {k}, replaced)[k]) < 2
=============================================================================
