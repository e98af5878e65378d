----------------------------- MODULE FilingFeed -----------------------------
(***************************************************************************)
(* The feed of recent filings, from the poller's table to the page         *)
(* (src/routes/filings.ts, src/repositories/statsRepository.ts,            *)
(* src/filingCategories.ts, web/src/lib/feed.ts, FilingsPage.tsx).         *)
(*                                                                         *)
(* A discovered filing is [cik, form, amended, age], its age in hours; a   *)
(* form is its name without the "/A" that an amendment adds.               *)
(***************************************************************************)
EXTENDS Orders, SequencesExt

CONSTANT MaxFilings  \* MAX_FILINGS

ASSUME FeedAssumption == MaxFilings \in Nat \ {0}

MaxHours == 168

FormsOf == [annualReport    |-> {"10-K", "20-F", "40-F"},
            quarterlyReport |-> {"10-Q"},
            majorEvent      |-> {"8-K", "6-K"},
            insiderTrade    |-> {"3", "4", "5", "144"},
            merger          |-> {"425", "S-4", "DEFM14A"},
            offering        |-> {"FWP", "S-3", "S-3ASR", "424B2"},
            exchangeNotice  |-> {"25-NSE", "25"},
            shareholderVote |-> {"DEF 14A", "DEFA14A"},
            majorHolder     |-> {"SC 13D", "SC 13G", "SCHEDULE 13D", "SCHEDULE 13G"}]

FilingCategories == DOMAIN FormsOf \cup {"other"}

(* An amendment goes with the form it amends. *)
CategorizeForm(filing) ==
  IF \E c \in DOMAIN FormsOf : filing.form \in FormsOf[c]
  THEN CHOOSE c \in DOMAIN FormsOf : filing.form \in FormsOf[c]
  ELSE "other"

Kind(filing) == [cik |-> filing.cik, category |-> CategorizeForm(filing)]

-----------------------------------------------------------------------------
(* GET /filings/recent *)

(* getRecentFilings: newest first, as `table` is. *)
GetRecentFilings(table, hours) == Picked(table, {i \in DOMAIN table : table[i].age < hours})

CountsByCategory(all) ==
  [c \in FilingCategories |-> Cardinality({i \in DOMAIN all : CategorizeForm(all[i]) = c})]

Listed(all, exclude) ==
  LET kept == Picked(all, {i \in DOMAIN all : CategorizeForm(all[i]) \notin exclude})
  IN SubSeq(kept, 1, Min({MaxFilings, Len(kept)}))

BadRequest == [status |-> 400]

(* Mutant: only what is listed is counted. *)
RecentListed(table, hours, exclude) ==
  LET all == Listed(GetRecentFilings(table, hours), exclude) IN
  [status |-> 200, total |-> Len(all),
   countsByCategory |-> CountsByCategory(all),
   filings |-> all]
Recent(table, hours, exclude) ==
  IF hours \notin 1..MaxHours \/ ~(exclude \subseteq FilingCategories) THEN BadRequest
  ELSE LET all == GetRecentFilings(table, hours) IN
       [status |-> 200, total |-> Len(all),
        countsByCategory |-> CountsByCategory(all),
        filings |-> Listed(all, exclude)]

-----------------------------------------------------------------------------
(* The page *)

(* groupFilings: a line for a company's filings of a kind, newest first. *)
GroupFilings(filings) ==
  LET firsts == {i \in DOMAIN filings : \A j \in 1..(i - 1) : Kind(filings[j]) # Kind(filings[i])}
      of(kind) == {i \in DOMAIN filings : Kind(filings[i]) = kind}
      line(kind) == [kind |-> kind, count |-> Cardinality(of(kind)),
                     forms |-> {<<filings[i].form, filings[i].amended>> : i \in of(kind)},
                     latest |-> Min({filings[i].age : i \in of(kind)})]
  IN [l \in 1..Cardinality(firsts) |-> line(Kind(Picked(filings, firsts)[l]))]

FeedFilters == [everything |-> FilingCategories, events |-> {"majorEvent"}, insider |-> {"insiderTrade"},
                reports |-> {"annualReport", "quarterlyReport"}, mergers |-> {"merger"}]

MatchesFilter(filter, category) == category \in FeedFilters[filter]

(* describeGroup: the number of filings is in most sentences; a lone notice of
   a planned sale and the conflict-minerals report are named. *)
DescribeGroup(line) ==
  CASE line.kind.category = "insiderTrade" /\ line.count = 1 /\ line.forms = {<<"144", FALSE>>} -> <<"planned-sale">>
    [] line.kind.category = "other" /\ line.forms = {<<"SD", FALSE>>} -> <<"conflict-minerals">>
    [] line.kind.category \in {"exchangeNotice", "shareholderVote", "majorHolder"} -> <<line.kind.category>>
    [] OTHER -> <<line.kind.category, line.count>>

(* FilingsPage: it asks for everything but offerings, which it folds. *)
FilingsPage(table, hours, filter) ==
  LET feed == Recent(table, hours, {"offering"})
      groups == GroupFilings(feed.filings)
      visible == Picked(groups, {g \in DOMAIN groups : MatchesFilter(filter, groups[g].kind.category)})
  IN [found |-> feed.total,
      folded |-> IF filter = "everything" THEN feed.countsByCategory["offering"] ELSE 0,
      lines |-> visible,
      sentences |-> [i \in DOMAIN visible |-> DescribeGroup(visible[i])],
      saysNothing |-> visible = <<>>]

-----------------------------------------------------------------------------

(* The page accounts for every filing of its window: what it counts as found
   is in one line or folded, each line counts all of its company's filings of
   its kind and stands by the newest of them, a sentence that names a form is
   about no other form, and "nothing of this kind" is said only if there is
   none - unless the list was cut at MaxFilings, when a line may count too few
   and the older kinds go missing. *)
FeedAccountsForTheWindow(table, hours, filter) ==
  LET page == FilingsPage(table, hours, filter)
      window == {i \in DOMAIN table : table[i].age < hours}
      listable == {i \in window : CategorizeForm(table[i]) # "offering"}
      matching == {i \in listable : MatchesFilter(filter, CategorizeForm(table[i]))}
      cut == Cardinality(listable) > MaxFilings
      ofLine(l) == {i \in matching : Kind(table[i]) = page.lines[l].kind}
  IN /\ page.found = Cardinality(window)
     /\ filter = "everything" => page.folded = Cardinality(window \ listable)
     /\ \A l \in DOMAIN page.lines :
          /\ page.lines[l].count <= Cardinality(ofLine(l))
          /\ page.lines[l].latest = table[Min(ofLine(l))].age
          /\ \A m \in 1..(l - 1) : /\ page.lines[m].kind # page.lines[l].kind
                                   /\ page.lines[m].latest <= page.lines[l].latest
     /\ ~cut => /\ \A l \in DOMAIN page.lines : page.lines[l].count = Cardinality(ofLine(l))
                /\ {page.lines[l].kind : l \in DOMAIN page.lines} = {Kind(table[i]) : i \in matching}
                /\ page.saysNothing <=> matching = {}
                /\ \A l \in DOMAIN page.lines : \A i \in ofLine(l) :
                     /\ page.sentences[l] = <<"planned-sale">> => table[i].form = "144"
                     /\ page.sentences[l] = <<"conflict-minerals">> => table[i].form = "SD"
=============================================================================
