----------------------------- MODULE MCReadSide -----------------------------
(* The cases and the small web site on which TLC checks ReadSide. *)
EXTENDS ReadSide, TLC

CONSTANTS c1, c2, c3

-----------------------------------------------------------------------------
(* Facts of two tags over three fiscal years: two periods that end in one
   year, amended reports, quarters and a value of no annual report. *)

Fact(tag, length, end, filed, yearly) ==
  [tag |-> tag, length |-> length, end |-> end, filed |-> filed, yearly |-> yearly]

MCTags == <<"A", "B">>

Pool == <<Fact("A", 12, 23, 24, TRUE), Fact("A", 12, 23, 36, TRUE), Fact("A", 12, 35, 36, TRUE),
          Fact("A", 12, 41, 42, TRUE), Fact("A", 12, 47, 48, TRUE),
          Fact("B", 12, 35, 36, TRUE), Fact("B", 12, 35, 48, TRUE), Fact("B", 3, 47, 48, TRUE),
          Fact("B", 12, 47, 48, TRUE), Fact("B", 3, 50, 51, FALSE)>>

Document(facts, upTo) ==
  LET places == SelectSeq([i \in DOMAIN Pool |-> i], LAMBDA i : i \in facts /\ Pool[i].filed <= upTo)
  IN [k \in DOMAIN places |-> Pool[places[k]]]

MCFactCases ==
  {[earlier |-> Document(facts, t), later |-> Document(facts, 60), count |-> count, latestToo |-> latestToo] :
     facts \in SUBSET DOMAIN Pool, t \in {36, 42}, count \in {1, 2}, latestToo \in BOOLEAN}

-----------------------------------------------------------------------------
(* Every figure of the three scores over three years; the figures a
   derivation joins lie in different groups, and a group's figures have the
   same years. *)

Groups == <<{"liabilities", "grossProfit", "sga"},
            {"assets", "costOfRevenue", "sellingMarketing"},
            {"equity", "revenue", "generalAdmin"},
            {"currentAssets", "currentLiabilities", "retainedEarnings", "ebit", "longTermDebt", "cfo",
             "netIncome", "shares", "receivables", "ppe", "depreciation"}>>

Base == [assets |-> 100, liabilities |-> 50, currentAssets |-> 40, currentLiabilities |-> 30,
         retainedEarnings |-> 20, ebit |-> 10, equity |-> 40, longTermDebt |-> 20, cfo |-> 12, netIncome |-> 10,
         shares |-> 10, grossProfit |-> 40, revenue |-> 100, receivables |-> 20, ppe |-> 40,
         depreciation |-> 10, sga |-> 20, costOfRevenue |-> 50, sellingMarketing |-> 10, generalAdmin |-> 15]

GroupOf(figure) == CHOOSE g \in DOMAIN Groups : figure \in Groups[g]

MCSeriesCases ==
  {[k \in DOMAIN Base |-> [y \in years[GroupOf(k)] |-> Base[k] + y]] : years \in [DOMAIN Groups -> SUBSET (1..3)]}

-----------------------------------------------------------------------------
(* Two figures of this year and one of the year before differ from those of
   an unremarkable company. *)

Figures == DOMAIN Base \ {"costOfRevenue", "sellingMarketing", "generalAdmin"}
Ordinary == [k \in Figures |-> Base[k]]

(* What may be a loss may be negative. *)
Odd(k) == {0, 100} \cup (IF k \in {"retainedEarnings", "ebit", "equity", "cfo", "netIncome", "grossProfit"} THEN {-40} ELSE {})

BeforeCases == UNION {{[Ordinary EXCEPT ![k] = x] : x \in Odd(k)} : k \in Figures}
NowCases == {[b EXCEPT ![l] = y] : b \in BeforeCases, l \in {"cfo", "ebit"}, y \in {-40, 100}}

MCVerdictCases ==
  {[now |-> now, before |-> before, missing |-> {}, financial |-> FALSE] : now \in NowCases, before \in BeforeCases}
    \cup {[now |-> now, before |-> Ordinary, missing |-> missing, financial |-> financial] :
            now \in NowCases, missing \in SUBSET ScoreNames, financial \in BOOLEAN}

-----------------------------------------------------------------------------
(* Filings of four lines after a first heading, before the last. *)

(* A line's words, TRUE for those that end a sentence. *)
LineShapes == {[kind |-> "heading", stops |-> <<FALSE>>], [kind |-> "next", stops |-> <<FALSE>>],
               [kind |-> "artifact", stops |-> <<FALSE>>], [kind |-> "text", stops |-> <<>>],
               [kind |-> "text", stops |-> <<TRUE>>], [kind |-> "text", stops |-> <<FALSE, FALSE>>],
               [kind |-> "text", stops |-> <<FALSE, TRUE, FALSE>>],
               [kind |-> "text", stops |-> <<FALSE, FALSE, FALSE, FALSE, TRUE>>],
               [kind |-> "text", stops |-> <<FALSE, TRUE, FALSE, FALSE, FALSE, FALSE>>]}

Line(shape, n) == [kind |-> shape.kind,
                   words |-> [i \in DOMAIN shape.stops |-> [id |-> <<n, i>>, stop |-> shape.stops[i]]]]

MCVocabulary == [id : (1..4) \X (1..6), stop : BOOLEAN]

First == [kind |-> "heading", words |-> <<>>]
LastLine == [kind |-> "next", words |-> <<>>]

MCSectionCases ==
  {<<First>> \o [n \in 1..4 |-> Line(shapes[n], n)] \o <<LastLine>> : shapes \in [1..4 -> LineShapes]}

-----------------------------------------------------------------------------
(* Four texts, some close to one another; up to three a year, the same one
   more than once. *)

Likeness == <<<<100, 95, 70, 10>>, <<95, 100, 60, 40>>, <<70, 60, 100, 59>>, <<10, 40, 59, 100>>>>
MCTexts == 1..4
MCSimilarity(a, b) == Likeness[a][b]

MCDiffCases == {[old |-> old, new |-> new] : old, new \in UNION {[1..n -> 1..4] : n \in 0..3}}

-----------------------------------------------------------------------------
(* Up to three filings, newest first, around the edge of a day. *)

Filed(cik, form, age) == [cik |-> cik, form |-> form, amended |-> form = "10-Q" /\ age = 1, age |-> age]

Discovered == {Filed(c, f, a) : c \in {c1, c2}, f \in {"10-Q", "424B2", "144"}, a \in {1, 23}}
                \cup {Filed(c1, "SD", 24), Filed(c2, "8-K", 30), Filed(c1, "10-Q", 200)}

MCFeedCases ==
  {[table |-> table, hours |-> hours, filter |-> filter] :
     table \in {t \in UNION {[1..n -> Discovered] : n \in 0..3} : \A i \in 2..Len(t) : t[i - 1].age <= t[i].age},
     hours \in {24, 168}, filter \in DOMAIN FeedFilters}

-----------------------------------------------------------------------------
(* Three companies and what a visitor may type. *)

MCTickers == c1 :> <<"a">> @@ c2 :> <<"a", "b">> @@ c3 :> <<"c", "c">>
MCDisplayNames == c1 :> <<<<"a", "b">>, <<"c">>>> @@ c2 :> <<<<"b">>>> @@ c3 :> <<<<"c", "a", "a">>>>
MCNames == [MCDisplayNames EXCEPT ![c2] = <<<<"b", "c">>, <<"d">>>>]
MCQueries == {<<"a">>, <<"c", "c">>}
=============================================================================
