------------------------------ MODULE ReadSide ------------------------------
(***************************************************************************)
(* What a visitor reads: the path from a company's facts and filings to    *)
(* the pages.  The pages themselves (WebPages) are a state machine; what   *)
(* they show is computed by pure code, whose cases are tried one by one:   *)
(* the selection of facts, the scores, the verdicts, the comparison of     *)
(* Risk Factors sections and the feed of filings.                          *)
(***************************************************************************)
EXTENDS FactSelection, Verdicts, RiskFactorDiff, FilingFeed, WebPages

CONSTANTS Tags,           \* of one concept, in order of preference
          FactCases,      \* [earlier, later, count, latestToo]: two documents
          SeriesCases,    \* the annual values of every figure
          VerdictCases,   \* [now, before, missing, financial]: figures of two years
          SectionCases,   \* the lines of a 10-K
          DiffCases,      \* [old, new]: the chunks of two years
          FeedCases,      \* [table, hours, filter]
          NoCase

Reported == AltmanFigures \cup PiotroskiFigures \cup BeneishFigures
Parts == {"costOfRevenue", "sellingMarketing", "generalAdmin"}

(* A later document repeats what was filed until some month, and a filing
   reports a tag's year once; figures are whole numbers, of any sign, of
   finitely many fiscal years; a word's id is its place in the filing, so that
   no two are the same; the feed is newest first. *)
ASSUME CaseAssumption ==
  /\ Tags \in Seq(STRING) /\ "none" \notin ToSet(Tags)
  /\ \A c \in FactCases :
       /\ {c.earlier, c.later} \subseteq Seq([tag : STRING, length : Nat, end : Nat, filed : Nat, yearly : BOOLEAN])
       /\ c.count \in Nat \ {0}
       /\ \E t \in {0} \cup {f.filed : f \in ToSet(c.later)} :
            ToSet(c.earlier) = {f \in ToSet(c.later) : f.filed <= t}
       /\ \A f, g \in {a \in ToSet(c.later) : a.yearly /\ CoversAFullYear(a)} :
            f.tag = g.tag /\ f.end = g.end /\ f.filed = g.filed => f = g
  /\ \A values \in SeriesCases : /\ DOMAIN values = Reported \cup Parts
                                 /\ \A k \in Reported \cup Parts :
                                      DOMAIN values[k] \subseteq Nat /\ IsFiniteSet(DOMAIN values[k])
  /\ VerdictCases \subseteq [now : [Reported -> Int], before : [Reported -> Int],
                            missing : SUBSET ScoreNames, financial : BOOLEAN]
  /\ \A f \in SectionCases :
       /\ f \in Seq([kind : {"heading", "next", "artifact", "text"}, words : Seq(Vocabulary)])
       /\ \A i, j \in DOMAIN f : \A k \in DOMAIN f[i].words, l \in DOMAIN f[j].words :
            f[i].words[k] = f[j].words[l] => i = j /\ k = l
  /\ DiffCases \subseteq [old : Seq(Texts), new : Seq(Texts)]
  /\ \A c \in FeedCases : /\ c.hours \in 1..MaxHours /\ c.filter \in DOMAIN FeedFilters
                         /\ c.table \in Seq([cik : Companies, form : STRING, amended : BOOLEAN, age : Nat])
                         /\ \A i, j \in DOMAIN c.table : i < j => c.table[i].age <= c.table[j].age

VARIABLES part, case

readVars == <<part, case, vars>>

ReadInit ==
  /\ part \in {"facts", "series", "verdicts", "sections", "diffs", "feed", "web"} /\ case = NoCase
  /\ Init /\ (part = "web" \/ route = List)

Try(p, cases) == part = p /\ case = NoCase /\ case' \in cases /\ UNCHANGED <<part, vars>>

TryFacts == Try("facts", FactCases)
TrySeries == Try("series", SeriesCases)
TryVerdicts == Try("verdicts", VerdictCases)
TrySections == Try("sections", SectionCases)
TryDiffs == Try("diffs", DiffCases)
TryFeed == Try("feed", FeedCases)

Browse == part = "web" /\ Next /\ UNCHANGED <<part, case>>

ReadNext ==
  TryFacts \/ TrySeries \/ TryVerdicts \/ TrySections \/ TryDiffs \/ TryFeed \/ Browse

ReadSpec == ReadInit /\ [][ReadNext]_readVars

-----------------------------------------------------------------------------

Tried(p) == part = p /\ case # NoCase

(* annualFacts selects, of one tag, the newest years as last reported by the
   period that closes each: SelectsTheStandingYears. *)
SelectedYearsStand ==
  Tried("facts") =>
    /\ SelectsTheStandingYears(case.later, Tags, case.count, 999, Min({case.count, 2}))
    /\ SelectsTheStandingYears(case.later, Tags, case.count, 2, 1)

(* The scores read the values that ingestion selected: ReadsTheSelection. *)
ScoresReadTheSelection ==
  Tried("facts") => ReadsTheSelection(case.earlier, case.later, Tags, case.count, case.latestToo)

(* A score is of one year, and charts agree with it: ScoredYearIsCommon. *)
ScoresAreOfOneYear == Tried("series") => ScoredYearIsCommon(case)

(* The list and the company's page tell one story: VerdictsAgree. *)
VerdictsTellOneStory ==
  Tried("verdicts") =>
    VerdictsAgree([s \in ScoreNames |->
                     CASE s \in case.missing -> Unscored([reason |-> "no-common-year"])
                       [] s \notin case.missing /\ s = "altmanZ" -> Altman(case.now)
                       [] s \notin case.missing /\ s = "piotroskiF" -> Piotroski(case.now, case.before)
                       [] s \notin case.missing /\ s = "beneishM" -> Beneish(case.now, case.before)],
                  case.financial)

(* Extracting and chunking a section keeps its text: ChunksKeepTheText. *)
SectionsKeepTheirText == Tried("sections") => ChunksKeepTheText(case)

(* A comparison accounts for the chunks of both years: DiffAccountsForBoth. *)
DiffsAccountForBoth == Tried("diffs") => DiffAccountsForBoth(case.old, case.new)

(* The feed accounts for its window: FeedAccountsForTheWindow. *)
FeedAccountsForItsWindow == Tried("feed") => FeedAccountsForTheWindow(case.table, case.hours, case.filter)
=============================================================================
