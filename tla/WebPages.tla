------------------------------ MODULE WebPages ------------------------------
(***************************************************************************)
(* The web front end in one browser tab: what its pages load and share     *)
(* (web/src/lib/useData.ts), the search in the header (SearchBox.tsx,      *)
(* search.ts) that opens a company's page, and the paged company list      *)
(* (CompaniesPage.tsx).                                                    *)
(*                                                                         *)
(* Two consumers of data are mounted: the header, which searches the       *)
(* company list, and the page of the current route: the list itself or a   *)
(* company's scores.  A render, an effect and a settled promise are steps  *)
(* of their own.  Strings are sequences of letters.                        *)
(***************************************************************************)
EXTENDS Orders, SequencesExt

CONSTANTS Companies, Letters,
          TickerOf, NameOf, DisplayNameOf,  \* of each; a name is a sequence of words
          Queries,      \* what a visitor types, compacted
          SearchLimit,  \* searchCompanies' limit
          PageSize,     \* PAGE_SIZE
          MaxFailures   \* bound on the failed requests of a behaviour

ASSUME WebAssumption == /\ SearchLimit \in Nat \ {0} /\ PageSize \in Nat \ {0}
                        /\ MaxFailures \in Nat /\ <<>> \notin Queries
                        /\ IsFiniteSet(Companies)
                        /\ \A c \in Companies : DisplayNameOf[c] \in Seq(Seq(Letters))

VARIABLES route,     \* "list" or a company
          hooks,     \* [key, state, effectDue, waitsFor] of each consumer
          requests,  \* every request made: [key, status]
          cache,     \* key -> the request whose promise is cached, 0 for none
          query, active,        \* SearchBox
          shownBy, page          \* CompanyTable

dataVars == <<requests, cache>>
searchVars == <<query, active>>
tableVars == <<shownBy, page>>
vars == <<route, hooks, dataVars, searchVars, tableVars>>

List == "list"
Keys == {List} \cup Companies  \* `companies` and `scores:${cik}`
Consumers == {"header", "page"}
Null == 0

-----------------------------------------------------------------------------
(* searchCompanies *)

HasInside(name, q) == \E i \in 0..Len(name) : IsPrefix(q, SubSeq(name, i + 1, Len(name)))
Compact(name) == FoldLeft(LAMBDA acc, w : acc \o w, <<>>, name)

NamesOf(company) == {DisplayNameOf[company], NameOf[company]}

(* Lower is better; 5 is no match. *)
Rank(company, q) ==
  CASE TickerOf[company] = q -> 0
    [] TickerOf[company] # q /\ IsPrefix(q, TickerOf[company]) -> 1
    [] OTHER -> Min({5} \cup
                    {2 : n \in {m \in NamesOf(company) : IsPrefix(q, Compact(m))}} \cup
                    {3 : n \in {m \in NamesOf(company) : \E i \in DOMAIN m : IsPrefix(q, m[i])}} \cup
                    {4 : n \in {m \in NamesOf(company) : HasInside(Compact(m), q)}})

(* displayName.length *)
NameLength(company) ==
  LET name == DisplayNameOf[company] IN Len(name) + SumFunction([i \in DOMAIN name |-> Len(name[i])])

(* Any fixed order of their names; a place in it. *)
Alphabetical == SetToSeq(Companies)
Place(company) == CHOOSE i \in DOMAIN Alphabetical : Alphabetical[i] = company

(* [a, b]: a is listed before b. *)
Before(q) ==
  {p \in Companies \X Companies :
     LET a == p[1]
         b == p[2]
     IN \/ Rank(a, q) < Rank(b, q)
        \/ Rank(a, q) = Rank(b, q) /\ NameLength(a) < NameLength(b)
        \/ Rank(a, q) = Rank(b, q) /\ NameLength(a) = NameLength(b) /\ Place(a) < Place(b)}

Matches(q) ==
  IF q = <<>> THEN <<>>
  ELSE Ordered({c \in Companies : Rank(c, q) < 5}, Before(q))

AllMatches == [q \in Queries \cup {<<>>} |-> Matches(q)]

SearchCompanies(q, limit) == SubSeq(AllMatches[q], 1, Min({limit, Len(AllMatches[q])}))

-----------------------------------------------------------------------------
(* useCached *)

LoadingState(key) == [key |-> key, kind |-> "loading", data |-> Null]
Mounted(key) == [key |-> key, state |-> LoadingState(key), effectDue |-> TRUE, waitsFor |-> Null]

(* What the consumer's component is given. *)
(* Mutant: the state is shown whichever key it belongs to. *)
ShownWhateverKey(h) == hooks[h].state
Shown(h) == IF hooks[h].state.key = hooks[h].key THEN hooks[h].state ELSE LoadingState(hooks[h].key)

(* CompanyPage shows the view that loads the scores once it has the list.  Its
   own useCompanies gets the promise that is cached for the header, whose request
   stands for it here. *)
ListLoaded == cache[List] # Null /\ requests[cache[List]].status = "ok"

(* The effect of [key, attempt]: the cached promise, or a request; an earlier
   one is no longer listened to. *)
RunEffect(h) ==
  /\ hooks[h].effectDue
  /\ hooks[h].key # List => ListLoaded
  /\ LET key == hooks[h].key
         promise == IF cache[key] # Null THEN cache[key] ELSE Len(requests) + 1
     IN /\ hooks' = [hooks EXCEPT ![h].effectDue = FALSE, ![h].waitsFor = promise]
        /\ cache' = [cache EXCEPT ![key] = promise]
        /\ requests' = IF promise > Len(requests) THEN Append(requests, [key |-> key, status |-> "pending"])
                       ELSE requests
  /\ UNCHANGED <<route, searchVars, tableVars>>

Failures == Cardinality({i \in DOMAIN requests : requests[i].status = "failed"})

(* A request ends; a failure leaves the cache. *)
Answer(i) ==
  /\ requests[i].status = "pending"
  /\ \/ /\ requests' = [requests EXCEPT ![i].status = "ok"]
        /\ UNCHANGED cache
     \/ /\ Failures < MaxFailures
        /\ requests' = [requests EXCEPT ![i].status = "failed"]
        /\ cache' = [cache EXCEPT ![requests[i].key] = Null]
  /\ UNCHANGED <<route, hooks, searchVars, tableVars>>

(* The consumer that waits for it learns of it. *)
Deliver(h) ==
  LET i == hooks[h].waitsFor IN
  /\ i # Null /\ requests[i].status # "pending"
  /\ hooks' = [hooks EXCEPT ![h].waitsFor = Null,
                            ![h].state = [key |-> requests[i].key,
                                          kind |-> IF requests[i].status = "ok" THEN "loaded" ELSE "failed",
                                          data |-> IF requests[i].status = "ok" THEN i ELSE Null]]
  /\ UNCHANGED <<route, dataVars, searchVars, tableVars>>

(* The "Try again" button of a page; the header has none. *)
Retry ==
  /\ Shown("page").kind = "failed"
  /\ hooks' = [hooks EXCEPT !["page"].state = LoadingState(hooks["page"].key), !["page"].effectDue = TRUE]
  /\ UNCHANGED <<route, dataVars, searchVars, tableVars>>

-----------------------------------------------------------------------------
(* Routes *)

(* From one company to another the page stays mounted and only its key
   changes; otherwise it is mounted anew. *)
Navigate(to) ==
  /\ route' = to
  /\ hooks' = CASE to = route -> hooks
                [] to # route /\ List \in {to, route} -> [hooks EXCEPT !["page"] = Mounted(to)]
                [] OTHER -> [hooks EXCEPT !["page"].key = to, !["page"].effectDue = TRUE]
  /\ IF to = route THEN UNCHANGED tableVars ELSE shownBy' = <<>> /\ page' = 0
  /\ UNCHANGED dataVars

GoToList == route # List /\ Navigate(List) /\ UNCHANGED searchVars

-----------------------------------------------------------------------------
(* SearchBox *)

Results == IF Shown("header").kind = "loaded" THEN SearchCompanies(query, SearchLimit) ELSE <<>>
ShowResults == Results # <<>>

Search(newQuery, newActive) ==
  /\ query' = newQuery /\ active' = newActive
  /\ UNCHANGED <<route, hooks, dataVars, tableVars>>

Type(q) == q # query /\ Search(q, -1)
Clear == query # <<>> /\ Search(<<>>, -1)  \* the button, or Escape
ArrowDown == ShowResults /\ Search(query, Min({active + 1, Len(Results) - 1}))
ArrowUp == ShowResults /\ Search(query, IF active - 1 > 0 THEN active - 1 ELSE 0)
Hover(i) == i \in DOMAIN Results /\ Search(query, i - 1)

Highlighted == (IF active > 0 THEN active ELSE 0) + 1
Enter == ShowResults /\ Navigate(Results[Highlighted]) /\ UNCHANGED searchVars

-----------------------------------------------------------------------------
(* CompanyTable: rows in alphabetical order.  The buttons that show only some
   companies narrow it, and go back to the first page, as a query does. *)

TableShown == route = List /\ Shown("page").kind = "loaded"
Filtered == IF shownBy = <<>> THEN Alphabetical
            ELSE LET matches == ToSet(SearchCompanies(shownBy, Cardinality(Companies)))
                 IN Picked(Alphabetical, {i \in DOMAIN Alphabetical : Alphabetical[i] \in matches})

Pages == IF Filtered = <<>> THEN 1 ELSE (Len(Filtered) + PageSize - 1) \div PageSize
Current == Min({page, Pages - 1})
Rows == SubSeq(Filtered, Current * PageSize + 1, Min({(Current + 1) * PageSize, Len(Filtered)}))

Table(newFilter, newPage) ==
  /\ TableShown
  /\ shownBy' = newFilter /\ page' = newPage
  /\ UNCHANGED <<route, hooks, dataVars, searchVars>>

FilterTable(q) == q # shownBy /\ Table(q, 0)
NextPage == Current < Pages - 1 /\ Table(shownBy, Current + 1)
PreviousPage == Current > 0 /\ Table(shownBy, Current - 1)
OpenRow(i) == TableShown /\ i \in DOMAIN Rows /\ Navigate(Rows[i]) /\ UNCHANGED searchVars

-----------------------------------------------------------------------------

Init ==
  /\ route \in Keys
  /\ hooks = [h \in Consumers |-> Mounted(IF h = "header" THEN List ELSE route)]
  /\ requests = <<>> /\ cache = [k \in Keys |-> Null]
  /\ query = <<>> /\ active = -1 /\ shownBy = <<>> /\ page = 0

Next ==
  \/ \E h \in Consumers : RunEffect(h) \/ Deliver(h)
  \/ \E i \in DOMAIN requests : Answer(i)
  \/ Retry \/ GoToList
  \/ \E q \in Queries : Type(q) \/ FilterTable(q)
  \/ FilterTable(<<>>)
  \/ Clear \/ ArrowDown \/ ArrowUp \/ Enter
  \/ \E i \in 1..SearchLimit : Hover(i)
  \/ NextPage \/ PreviousPage
  \/ \E i \in 1..PageSize : OpenRow(i)

-----------------------------------------------------------------------------

ShowsItsOwnData(h) ==
  LET shown == Shown(h) IN
  /\ shown.kind = "loaded" => requests[shown.data] = [key |-> hooks[h].key, status |-> "ok"]
  /\ shown.kind = "failed" => \E i \in DOMAIN requests : requests[i] = [key |-> hooks[h].key, status |-> "failed"]

(* A page shows data of its own company only, whatever answers arrive while
   the visitor moves on; nothing is asked for twice while it loads or once it
   is there, and no failure is kept, so "Try again" does ask again.  Enter
   opens a company on the list of results, the one highlighted if one is,
   however the results changed since; and the table of companies is empty
   only if nothing matches. *)
PagesShowTheirOwnData ==
  /\ \A h \in Consumers : ShowsItsOwnData(h)
  /\ \A k \in Keys : {i \in DOMAIN requests : requests[i].key = k /\ requests[i].status # "failed"}
                       = {cache[k]} \ {Null}
  /\ ShowResults => Highlighted \in DOMAIN Results /\ active < Len(Results)
  /\ Rows = <<>> <=> Filtered = <<>>
=============================================================================
