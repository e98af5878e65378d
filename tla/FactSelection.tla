---------------------------- MODULE FactSelection ----------------------------
(***************************************************************************)
(* Which values of a companyfacts document are stored and which the scores *)
(* read back (src/sec.ts, src/repositories/scoringRepository.ts), as       *)
(* operators over sequences of facts in the document's order.              *)
(*                                                                         *)
(* A fact is [tag, length, end, filed, yearly]: dates and lengths in       *)
(* months, length 0 for a balance-sheet value, filed also naming the       *)
(* filing, yearly for form 10-K and fp FY.  Tags are compared by their     *)
(* place in a list of tags.                                                *)
(***************************************************************************)
EXTENDS Orders, SequencesExt

None == [tag |-> "none", facts |-> <<>>]

FiscalYear(f) == f.end \div 12
CoversAFullYear(f) == f.length = 0 \/ f.length \in 11..13

OfTag(doc, tag) == Picked(doc, {i \in DOMAIN doc : doc[i].tag = tag})

(* The latest period; the last of the entries that report it. *)
LatestOf(values) ==
  LET newest == CHOOSE i \in DOMAIN values :
        \A j \in DOMAIN values : \/ values[j].end < values[i].end
                                 \/ values[j].end = values[i].end /\ j <= i
  IN values[newest]

(* mostRecentFact: an earlier tag wins a tie.  A sequence of at most one. *)
MostRecentFact(doc, tags) ==
  FoldLeft(LAMBDA best, tag :
             LET values == OfTag(doc, tag) IN
             IF values # <<>> /\ (best = <<>> \/ LatestOf(values).end > best[1].end)
             THEN <<LatestOf(values)>> ELSE best,
           <<>>, tags)

-----------------------------------------------------------------------------
(* annualFacts *)

Qualifies(f, maxYear) == f.yearly /\ CoversAFullYear(f) /\ FiscalYear(f) <= maxYear

(* Mutant: the first report of a period stands. *)
FirstReports(values, maxYear) ==
  FoldLeft(LAMBDA known, f : IF Qualifies(f, maxYear) /\ f.end \notin DOMAIN known
                             THEN [e \in DOMAIN known \cup {f.end} |-> IF e = f.end THEN f ELSE known[e]]
                             ELSE known,
           [e \in {} |-> None], values)
(* byPeriodEnd: every period as last reported. *)
ByPeriodEnd(values, maxYear) ==
  FoldLeft(LAMBDA known, f : IF Qualifies(f, maxYear) /\ (f.end \in DOMAIN known => f.filed > known[f.end].filed)
                             THEN [e \in DOMAIN known \cup {f.end} |-> IF e = f.end THEN f ELSE known[e]]
                             ELSE known,
           [e \in {} |-> None], values)

(* facts of different ends *)
NewestFirst(facts) == Ordered(facts, {p \in facts \X facts : p[1].end > p[2].end})

(* One value for a fiscal year: a changed year-end can put two periods in it. *)
OnePerYear(sorted) ==
  FoldLeft(LAMBDA kept, f : IF kept = <<>> \/ FiscalYear(Last(kept)) # FiscalYear(f)
                            THEN Append(kept, f) ELSE kept,
           <<>>, sorted)

TagHistory(doc, tag, maxYear) == OnePerYear(NewestFirst(Range(ByPeriodEnd(OfTag(doc, tag), maxYear))))

FresherThan(facts, best) == best = None \/ facts[1].end > best.facts[1].end

(* The first tag with enough years, unless a later one is fresher. *)
BestHistory(doc, tags, maxYear, minimum) ==
  FoldLeft(LAMBDA best, tag :
             LET facts == TagHistory(doc, tag, maxYear) IN
             IF facts # <<>> /\ Len(facts) >= minimum /\ FresherThan(facts, best)
             THEN [tag |-> tag, facts |-> facts] ELSE best,
           None, tags)

AnnualFacts(doc, tags, count, maxYear, minimum) ==
  [BestHistory(doc, tags, maxYear, minimum) EXCEPT !.facts = SubSeq(@, 1, Min({count, Len(@)}))]

-----------------------------------------------------------------------------
(* The table *)

(* What storeCompanyFacts upserts from a document, on top of what is stored:
   the latest value, for the two concepts the company list shows, and the
   annual ones. *)
Ingest(rows, doc, tags, count, latestToo) ==
  rows \cup ToSet(AnnualFacts(doc, tags, count, 999, Min({count, 2})).facts)
       \cup (IF latestToo THEN ToSet(MostRecentFact(doc, tags)) ELSE {})

(* Mutant: the first tag of the list that has any year. *)
AnnualOfFirstTag(rows, tags, years, maxYear) ==
  LET annual == {f \in rows : Qualifies(f, maxYear) /\ f.tag \in ToSet(tags)}
      ofTag(tag) == {f \in annual : f.tag = tag}
      first == Picked(tags, {i \in DOMAIN tags : ofTag(tags[i]) # {}})
      latest == IF first = <<>> THEN {}
                ELSE {f \in ofTag(first[1]) : \A g \in ofTag(first[1]) : FiscalYear(g) = FiscalYear(f) => g.filed <= f.filed}
      sorted == NewestFirst(latest)
  IN SubSeq(sorted, 1, Min({years, Len(sorted)}))
(* getAnnualValues: one tag, the one with the newest year, then the earlier in
   the list; for each fiscal year the value filed last. *)
AnnualValues(rows, tags, years, maxYear) ==
  LET annual == {f \in rows : Qualifies(f, maxYear) /\ f.tag \in ToSet(tags)}
      place(f) == CHOOSE i \in DOMAIN tags : tags[i] = f.tag
      chosen == {f \in annual : \A g \in annual : \/ FiscalYear(g) < FiscalYear(f)
                                                  \/ (FiscalYear(g) = FiscalYear(f) /\ place(f) <= place(g))}
      ofTag == {f \in annual : \E g \in chosen : g.tag = f.tag}
      latest == {f \in ofTag : \A g \in ofTag : FiscalYear(g) = FiscalYear(f) => g.filed <= f.filed}
      sorted == NewestFirst(latest)
  IN SubSeq(sorted, 1, Min({years, Len(sorted)}))

-----------------------------------------------------------------------------
(* Reference definitions *)

(* f is what a careful reader takes for its fiscal year: the last period that
   ends in it, as last reported by a 10-K. *)
Stands(f, doc, maxYear) ==
  /\ f \in ToSet(doc) /\ Qualifies(f, maxYear)
  /\ \A g \in ToSet(doc) : g.tag = f.tag /\ Qualifies(g, maxYear) /\ FiscalYear(g) = FiscalYear(f) =>
       g.end < f.end \/ (g.end = f.end /\ g.filed <= f.filed)

YearsOf(doc, tag, maxYear) == {FiscalYear(f) : f \in {g \in ToSet(doc) : g.tag = tag /\ Stands(g, doc, maxYear)}}

Eligible(doc, tags, maxYear, minimum) ==
  {i \in DOMAIN tags : LET years == YearsOf(doc, tags[i], maxYear) IN
                       years # {} /\ Cardinality(years) >= minimum}

LastEnd(doc, tag, maxYear) == Max({f.end : f \in {g \in ToSet(doc) : g.tag = tag /\ Stands(g, doc, maxYear)}})

(* The result is one tag's, the freshest with enough years and the first in
   the list among those; its newest years, each once, each with the value that
   stands for it; and nothing only if no tag has enough years. *)
SelectsTheStandingYears(doc, tags, count, maxYear, minimum) ==
  LET result == AnnualFacts(doc, tags, count, maxYear, minimum)
      eligible == Eligible(doc, tags, maxYear, minimum)
      freshest == {i \in eligible : \A j \in eligible :
                     LastEnd(doc, tags[j], maxYear) <= LastEnd(doc, tags[i], maxYear)}
      years == YearsOf(doc, result.tag, maxYear)
      newest == {y \in years : Cardinality({z \in years : z > y}) < count}
  IN IF eligible = {} THEN result = None
     ELSE /\ result.tag = tags[Min(freshest)]
          /\ {FiscalYear(f) : f \in ToSet(result.facts)} = newest
          /\ Len(result.facts) = Cardinality(newest)
          /\ \A i \in DOMAIN result.facts :
               /\ Stands(result.facts[i], doc, maxYear)
               /\ \A j \in DOMAIN result.facts : i < j => FiscalYear(result.facts[i]) > FiscalYear(result.facts[j])

(* getAnnualValues over what two ingestions left, an earlier document's and
   then a later one's that repeats it, reads what the later one's selection
   holds - unless a row of another tag, stored as a latest value or by the
   earlier document, is of as new a fiscal year. *)
ReadsTheSelection(earlier, later, tags, count, latestToo) ==
  LET rows == Ingest(Ingest({}, earlier, tags, count, latestToo), later, tags, count, latestToo)
      selected == AnnualFacts(later, tags, count, 999, Min({count, 2}))
      shadows == {f \in rows : f.tag # selected.tag /\ Qualifies(f, 999)}
  IN \/ AnnualValues(rows, tags, count, 999) = selected.facts
     \/ \E f \in shadows : selected # None => FiscalYear(f) >= FiscalYear(selected.facts[1])
=============================================================================
