--------------------------- MODULE ReadSideProofs ---------------------------
(***************************************************************************)
(* Proofs about ReadSide.  The pages are proved by an inductive invariant; *)
(* the computations by what their operators return for any input of the    *)
(* types that the assumptions of ReadSide give to its cases.               *)
(***************************************************************************)
EXTENDS ReadSide, DataLemmas, SequenceTheorems, TLAPS

-----------------------------------------------------------------------------
(* The search and the table of companies *)

LEMMA RankType ==
  ASSUME NEW company, NEW q
  PROVE  Rank(company, q) \in 0 .. 5
<1> DEFINE two == {2 : n \in {m \in NamesOf(company) : IsPrefix(q, Compact(m))}}
           three == {3 : n \in {m \in NamesOf(company) : \E i \in DOMAIN m : IsPrefix(q, m[i])}}
           four == {4 : n \in {m \in NamesOf(company) : HasInside(Compact(m), q)}}
           S == {5} \cup two \cup three \cup four
<1>1. two \subseteq {2} /\ three \subseteq {3} /\ four \subseteq {4}
  OBVIOUS
<1>2. \/ Rank(company, q) = 0 \/ Rank(company, q) = 1
      \/ Rank(company, q) = Min(S)
  BY DEF Rank
<1> HIDE DEF two, three, four
<1>3. S \in SUBSET Nat /\ S # {} /\ S \subseteq 0 .. 5
  BY <1>1
<1> HIDE DEF S
<1>4. Min(S) \in S
  BY <1>3, LeastMember
<1>5. PICK m \in 0 .. 5 : m = Min(S)
  BY <1>3, <1>4
<1>6. Rank(company, q) = 0 \/ Rank(company, q) = 1 \/ Rank(company, q) = m
  BY <1>2, <1>5
<1>7. QED
  BY <1>6

LEMMA NameLengthType ==
  ASSUME NEW company \in Companies
  PROVE  NameLength(company) \in Int
<1> DEFINE name == DisplayNameOf[company]
           lengths == [i \in DOMAIN name |-> Len(name[i])]
<1>1. name \in Seq(Seq(Letters))
  BY WebAssumption
<1> HIDE DEF name
<1>2. Len(name) \in Nat /\ DOMAIN name = 1 .. Len(name) /\ \A i \in DOMAIN name : name[i] \in Seq(Letters)
  BY <1>1
<1>3. \A i \in 1 .. Len(name) : lengths[i] \in Int
  BY <1>2
<1>4. SumFunction(lengths) = SumFunctionOnSet(lengths, 1 .. Len(name))
  BY <1>2 DEF SumFunction
<1>5. IsFiniteSet(1 .. Len(name))
  BY <1>2, FS_Interval
<1> HIDE DEF lengths
<1>6. SumFunction(lengths) \in Int
  BY <1>3, <1>4, <1>5, SumOf
<1>7. NameLength(company) = Len(name) + SumFunction(lengths)
  BY DEF NameLength, name, lengths
<1>8. QED
  BY <1>2, <1>6, <1>7

(* The alphabetical list names every company once. *)
LEMMA AlphabeticalLists ==
  /\ Cardinality(Companies) \in Nat /\ Alphabetical \in [1 .. Cardinality(Companies) -> Companies]
  /\ \A c \in Companies : Place(c) \in 1 .. Cardinality(Companies) /\ Alphabetical[Place(c)] = c
<1> DEFINE n == Cardinality(Companies)
<1>1. IsFiniteSet(Companies)
  BY WebAssumption
<1>2. n \in Nat /\ ExistsBijection(1 .. n, Companies)
  BY <1>1, FS_CardinalityType
<1>3. \E f \in [1 .. n -> Companies] : IsInjective(f)
  BY <1>2 DEF ExistsBijection, Bijection, Injection
<1>4. Alphabetical \in [1 .. n -> Companies] /\ IsInjective(Alphabetical)
  BY <1>3 DEF Alphabetical, SetToSeq
<1>5. IsFiniteSet(1 .. n) /\ Cardinality(1 .. n) = n
  BY <1>2, FS_Interval
<1>6. Alphabetical \in Surjection(1 .. n, Companies)
  <2>1. Alphabetical \in Injection(1 .. n, Companies)
    BY <1>4 DEF Injection
  <2>2. QED
    BY <1>1, <1>5, <2>1, FS_Injection
<1>7. ASSUME NEW c \in Companies PROVE Place(c) \in 1 .. n /\ Alphabetical[Place(c)] = c
  <2>1. \E i \in 1 .. n : Alphabetical[i] = c
    BY <1>6 DEF Surjection
  <2>2. DOMAIN Alphabetical = 1 .. n
    BY <1>4
  <2>3. QED
    BY <2>1, <2>2 DEF Place
<1>8. QED
  BY <1>2, <1>4, <1>7

(* A search orders its results. *)
LEMMA BeforeIsOrder ==
  ASSUME NEW S \in SUBSET Companies, NEW q
  PROVE  IsOrder(Before(q), S)
<1> DEFINE Less(a, b) == \/ Rank(a, q) < Rank(b, q)
                         \/ Rank(a, q) = Rank(b, q) /\ NameLength(a) < NameLength(b)
                         \/ Rank(a, q) = Rank(b, q) /\ NameLength(a) = NameLength(b) /\ Place(a) < Place(b)
<1>1. \A a, b \in S : <<a, b>> \in Before(q) <=> Less(a, b)
  BY DEF Before
<1>2. \A a \in S : Rank(a, q) \in Int /\ NameLength(a) \in Int /\ Place(a) \in Int /\ Alphabetical[Place(a)] = a
  BY RankType, NameLengthType, AlphabeticalLists
<1>3. \A a \in S : ~Less(a, a)
  BY <1>2
<1>4. ASSUME NEW a \in S, NEW b \in S, a # b PROVE Less(a, b) \/ Less(b, a)
  <2>1. Place(a) # Place(b)
    BY <1>2, <1>4
  <2>2. QED
    BY <1>2, <2>1
<1>5. ASSUME NEW a \in S, NEW b \in S, NEW c \in S, Less(a, b), Less(b, c) PROVE Less(a, c)
  BY <1>2, <1>5
<1> HIDE DEF Less
<1>6. QED
  BY <1>1, <1>3, <1>4, <1>5 DEF IsOrder

LEMMA MatchesType ==
  ASSUME NEW q
  PROVE  Matches(q) \in Seq(Companies)
<1> DEFINE S == {c \in Companies : Rank(c, q) < 5}
<1>1. IsFiniteSet(S) /\ S \in SUBSET Companies
  BY WebAssumption, FS_Subset
<1>2. <<>> \in Seq(Companies)
  OBVIOUS
<1>3. Matches(q) = <<>> \/ Matches(q) = Ordered(S, Before(q))
  BY DEF Matches
<1> HIDE DEF S
<1>4. IsOrder(Before(q), S)
  BY <1>1, BeforeIsOrder
<1>5. Cardinality(S) \in Nat /\ Lists(Ordered(S, Before(q)), S, Before(q))
  BY <1>1, <1>4, OrderedLists
<1>6. Ordered(S, Before(q)) \in [1 .. Cardinality(S) -> Companies]
  BY <1>1, <1>5 DEF Lists
<1> DEFINE n == Cardinality(S)
           o == Ordered(S, Before(q))
<1>7. n \in Nat /\ o \in [1 .. n -> Companies]
  BY <1>5, <1>6
<1> HIDE DEF n, o
<1>8. o \in Seq(Companies)
  BY <1>7
<1>9. QED
  BY <1>2, <1>3, <1>8 DEF o

Asked == Queries \cup {<<>>}

LEMMA SearchType ==
  ASSUME NEW q \in Asked, NEW limit \in Nat
  PROVE  SearchCompanies(q, limit) \in Seq(Companies)
<1>1. AllMatches[q] \in Seq(Companies)
  BY MatchesType DEF AllMatches, Asked
<1>2. PICK n \in Nat : n = Min({limit, Len(AllMatches[q])}) /\ n <= Len(AllMatches[q])
  <2>1. Len(AllMatches[q]) \in Nat
    BY <1>1
  <2>2. Min({limit, Len(AllMatches[q])}) = IF limit <= Len(AllMatches[q]) THEN limit ELSE Len(AllMatches[q])
    BY <2>1, MinOfTwo
  <2>3. QED
    BY <2>1, <2>2
<1>3. SubSeq(AllMatches[q], 1, n) \in Seq(Companies)
  <2>1. \A i \in 1 .. n : AllMatches[q][i] \in Companies
    BY <1>1, <1>2
  <2>2. QED
    BY <2>1, SubSeqProperties
<1>4. QED
  BY <1>2, <1>3 DEF SearchCompanies

LEMMA FilteredType ==
  ASSUME shownBy \in Asked
  PROVE  Filtered \in Seq(Companies)
<1>1. Alphabetical \in Seq(Companies)
  BY AlphabeticalLists
<1> DEFINE matches == ToSet(SearchCompanies(shownBy, Cardinality(Companies)))
           places == {i \in DOMAIN Alphabetical : Alphabetical[i] \in matches}
<1>2. Filtered = Alphabetical \/ Filtered = Picked(Alphabetical, places)
  BY DEF Filtered
<1>3. places \in SUBSET DOMAIN Alphabetical
  OBVIOUS
<1> HIDE DEF places
<1>4. Picked(Alphabetical, places) \in Seq(Companies)
  BY <1>1, <1>3, PickedPlaces
<1>5. QED
  BY <1>1, <1>2, <1>4

(* A page of a table with rows has rows, and they are companies. *)
LEMMA RowsType ==
  ASSUME shownBy \in Asked, page \in Nat
  PROVE  Rows \in Seq(Companies) /\ (Rows = <<>> <=> Filtered = <<>>) /\ Current \in Nat
<1> DEFINE L == Len(Filtered)
<1>1. Filtered \in Seq(Companies) /\ L \in Nat /\ (Filtered = <<>> <=> L = 0)
  BY FilteredType
<1>2. PageSize \in Nat \ {0}
  BY WebAssumption
<1>3. Pages \in Nat \ {0} /\ (L > 0 => (Pages - 1) * PageSize < L)
  <2>1. CASE Filtered = <<>>
    BY <1>1, <2>1 DEF Pages
  <2>2. CASE Filtered # <<>>
    <3>1. Pages = (L + PageSize - 1) \div PageSize
      BY <2>2 DEF Pages
    <3> HIDE DEF L
    <3>2. L >= 1
      BY <1>1, <2>2
    <3>3. PICK n \in Nat : n = L + PageSize - 1 /\ n >= PageSize
      BY <1>1, <1>2, <3>2
    <3>4. PICK d \in Int : d = n \div PageSize /\ d * PageSize <= n /\ n < (d + 1) * PageSize
      BY <1>2
    <3>5. d >= 1
      <4>1. ASSUME d <= 0 PROVE FALSE
        <5>1. (d + 1) * PageSize <= PageSize
          <6>1. PICK e \in Nat : d = - e
            <7>1. - d \in Nat /\ d = - (- d)
              BY <3>4, <4>1
            <7>2. QED
              BY <7>1
          <6>2. (- e + 1) * PageSize = - (e * PageSize) + PageSize /\ e * PageSize \in Nat
            BY <1>2
          <6>3. QED
            BY <1>2, <6>1, <6>2
        <5>2. (d + 1) * PageSize \in Int
          BY <1>2
        <5>3. QED
          BY <1>2, <3>3, <3>4, <5>1, <5>2
      <4>2. QED
        BY <4>1
    <3>6. (d - 1) * PageSize = d * PageSize - PageSize /\ d * PageSize \in Int
      BY <1>2
    <3>7. (d - 1) * PageSize < L
      BY <1>1, <1>2, <3>3, <3>4, <3>6
    <3>8. QED
      BY <3>1, <3>3, <3>4, <3>5, <3>7
  <2>3. QED
    BY <2>1, <2>2
<1>4. Current \in Nat /\ Current <= Pages - 1
  <2>1. Current = IF page <= Pages - 1 THEN page ELSE Pages - 1
    BY <1>3, MinOfTwo DEF Current
  <2>2. QED
    BY <1>3, <2>1
<1>5. L > 0 => Current * PageSize < L
  <2>1. PICK k \in Nat : Pages - 1 = Current + k
    <3>1. (Pages - 1) - Current \in Nat /\ Pages - 1 = Current + ((Pages - 1) - Current)
      BY <1>3, <1>4
    <3>2. QED
      BY <3>1
  <2>2. (Current + k) * PageSize = Current * PageSize + k * PageSize /\ k * PageSize \in Nat
        /\ Current * PageSize \in Nat
    BY <1>2, <1>4
  <2> HIDE DEF L
  <2>3. QED
    BY <1>1, <1>3, <2>1, <2>2
<1> DEFINE from == Current * PageSize + 1
           upto == Min({(Current + 1) * PageSize, L})
<1>6. from \in Nat /\ from >= 1 /\ (L > 0 => from <= L)
  <2>1. Current * PageSize \in Nat
    BY <1>2, <1>4
  <2> HIDE DEF L
  <2>2. QED
    BY <1>1, <1>5, <2>1
<1>7. upto \in Nat /\ upto <= L /\ (L > 0 => from <= upto)
  <2>1. (Current + 1) * PageSize = Current * PageSize + PageSize /\ Current * PageSize \in Nat
    BY <1>2, <1>4
  <2>2. upto = IF (Current + 1) * PageSize <= L THEN (Current + 1) * PageSize ELSE L
    <3>1. (Current + 1) * PageSize \in Int /\ L \in Int
      BY <1>1, <1>2, <2>1
    <3>2. QED
      BY <3>1, MinOfTwo
  <2> HIDE DEF L, upto
  <2>3. QED
    BY <1>1, <1>2, <1>5, <1>6, <2>1, <2>2
<1>8. Rows = SubSeq(Filtered, from, upto)
  BY DEF Rows
<1> HIDE DEF from, upto, L
<1>9. Rows \in Seq(Companies) /\ Len(Rows) = IF from <= upto THEN (upto - from) + 1 ELSE 0
  BY <1>1, <1>6, <1>7, <1>8 DEF L
<1>10. Rows = <<>> <=> Len(Rows) = 0
  BY <1>9
<1>11. Rows = <<>> <=> L = 0
  BY <1>1, <1>6, <1>7, <1>9, <1>10
<1>12. QED
  BY <1>1, <1>4, <1>9, <1>11

-----------------------------------------------------------------------------
(* The pages *)

RequestType == [key : Keys, status : {"pending", "ok", "failed"}]
StateType == [key : Keys, kind : {"loading", "loaded", "failed"}, data : Nat]
HookType == [key : Keys, state : StateType, effectDue : BOOLEAN, waitsFor : Nat]

WebTypes ==
  /\ route \in Keys /\ hooks \in [Consumers -> HookType]
  /\ requests \in Seq(RequestType) /\ cache \in [Keys -> Nat]
  /\ query \in Asked /\ active \in Int /\ shownBy \in Asked /\ page \in Nat

(* What a consumer holds came of a request for the key it is labelled with,
   and the one it waits for was made. *)
Truthful(h) ==
  LET state == hooks[h].state IN
  /\ hooks[h].waitsFor \in 0 .. Len(requests)
  /\ state.kind = "loaded" => /\ state.data \in DOMAIN requests
                              /\ requests[state.data] = [key |-> state.key, status |-> "ok"]
  /\ state.kind = "failed" =>
       \E i \in DOMAIN requests : requests[i] = [key |-> state.key, status |-> "failed"]

(* The cached request is the only one of its key that did not fail. *)
CachedAlone(k) ==
  /\ cache[k] \in {Null} \cup DOMAIN requests
  /\ \A i \in DOMAIN requests : requests[i].key = k /\ requests[i].status # "failed" <=> i = cache[k]

Found(q) == SearchCompanies(q, SearchLimit)

WebInv ==
  /\ WebTypes
  /\ \A h \in Consumers : Truthful(h)
  /\ \A k \in Keys : CachedAlone(k)
  /\ active >= -1 /\ active < Len(Found(query))

LEMMA WebConsequence == WebInv => PagesShowTheirOwnData
<1> SUFFICES ASSUME WebInv PROVE PagesShowTheirOwnData
  OBVIOUS
<1>1. /\ WebTypes
      /\ \A h \in Consumers : Truthful(h)
      /\ \A k \in Keys : CachedAlone(k)
      /\ active >= -1 /\ active < Len(Found(query))
  BY DEF WebInv
<1>2. ASSUME NEW h \in Consumers PROVE ShowsItsOwnData(h)
  <2>1. hooks[h] \in HookType /\ Truthful(h)
    BY <1>1 DEF WebTypes
  <2>2. CASE hooks[h].state.key = hooks[h].key
    BY <2>1, <2>2 DEF ShowsItsOwnData, Shown, Truthful
  <2>3. CASE hooks[h].state.key # hooks[h].key
    BY <2>3 DEF ShowsItsOwnData, Shown, LoadingState
  <2>4. QED
    BY <2>2, <2>3
<1>3. ASSUME NEW k \in Keys
      PROVE  {i \in DOMAIN requests : requests[i].key = k /\ requests[i].status # "failed"} = {cache[k]} \ {Null}
  <2>1. CachedAlone(k) /\ DOMAIN requests = 1 .. Len(requests)
    BY <1>1 DEF WebTypes
  <2>2. Null \notin DOMAIN requests
    BY <2>1 DEF Null
  <2>3. QED
    BY <2>1, <2>2 DEF CachedAlone
<1>4. ShowResults => Highlighted \in DOMAIN Results /\ active < Len(Results)
  <2> SUFFICES ASSUME ShowResults PROVE Highlighted \in DOMAIN Results /\ active < Len(Results)
    OBVIOUS
  <2>1. Results = Found(query)
    BY DEF ShowResults, Results, Found
  <2>2. Found(query) \in Seq(Companies)
    BY <1>1, SearchType, WebAssumption DEF WebTypes, Found
  <2>3. PICK n \in Nat : n = Len(Results) /\ DOMAIN Results = 1 .. n /\ n # 0
    BY <2>1, <2>2 DEF ShowResults
  <2>4. active \in Int /\ active >= -1 /\ active < n
    BY <1>1, <2>1, <2>3 DEF WebTypes
  <2>5. QED
    BY <2>3, <2>4 DEF Highlighted
<1>5. Rows = <<>> <=> Filtered = <<>>
  BY <1>1, RowsType DEF WebTypes
<1>6. QED
  BY <1>2, <1>3, <1>4, <1>5 DEF PagesShowTheirOwnData

LEMMA FoundNothing ==
  ASSUME NEW q \in Asked
  PROVE  Found(q) \in Seq(Companies) /\ Len(Found(q)) \in Nat
<1>1. Found(q) \in Seq(Companies)
  BY SearchType, WebAssumption DEF Found
<1>2. QED
  BY <1>1

LEMMA WebStarts == Init => WebInv
<1> SUFFICES ASSUME Init PROVE WebInv
  OBVIOUS
<1>1. <<>> \in Asked /\ List \in Keys
  BY DEF Asked, Keys
<1>2. ASSUME NEW k \in Keys PROVE Mounted(k) \in HookType /\ Mounted(k).state.kind = "loading" /\ Mounted(k).waitsFor = 0
  BY <1>2 DEF Mounted, HookType, StateType, LoadingState, Null
<1>3. hooks \in [Consumers -> HookType] /\ \A h \in Consumers : hooks[h].state.kind = "loading" /\ hooks[h].waitsFor = 0
  BY <1>1, <1>2 DEF Init
<1>4. WebTypes
  BY <1>1, <1>3 DEF WebTypes, Init, Null
<1>5. \A h \in Consumers : Truthful(h)
  BY <1>3 DEF Truthful, Init
<1>6. \A k \in Keys : CachedAlone(k)
  BY DEF CachedAlone, Init
<1>7. active = -1 /\ Len(Found(query)) \in Nat
  BY <1>4, FoundNothing DEF Init, WebTypes
<1>8. QED
  BY <1>4, <1>5, <1>6, <1>7 DEF WebInv

(* What the search box is about. *)
SearchInv == query \in Asked /\ active \in Int /\ active >= -1 /\ active < Len(Found(query))
TableInv == shownBy \in Asked /\ page \in Nat
DataInv ==
  /\ route \in Keys /\ hooks \in [Consumers -> HookType]
  /\ requests \in Seq(RequestType) /\ cache \in [Keys -> Nat]
  /\ \A h \in Consumers : Truthful(h)
  /\ \A k \in Keys : CachedAlone(k)

LEMMA WebParts == WebInv <=> SearchInv /\ TableInv /\ DataInv
BY DEF WebInv, WebTypes, SearchInv, TableInv, DataInv

LEMMA SearchRests == ASSUME SearchInv, UNCHANGED searchVars PROVE SearchInv'
BY DEF SearchInv, searchVars, Found, SearchCompanies, AllMatches, Asked

LEMMA TableRests == ASSUME TableInv, UNCHANGED tableVars PROVE TableInv'
BY DEF TableInv, tableVars

LEMMA DataRests == ASSUME DataInv, UNCHANGED <<route, hooks, dataVars>> PROVE DataInv'
BY DEF DataInv, dataVars, Truthful, CachedAlone

LEMMA ResultsType ==
  ASSUME SearchInv
  PROVE  /\ Results \in Seq(Companies) /\ Len(Results) \in Nat
         /\ ShowResults => /\ Results = Found(query) /\ Len(Results) > 0
                           /\ Highlighted \in DOMAIN Results
<1>1. Found(query) \in Seq(Companies) /\ <<>> \in Seq(Companies)
  BY FoundNothing DEF SearchInv
<1>2. Results \in Seq(Companies) /\ (ShowResults => Results = Found(query) /\ Results # <<>>)
  BY <1>1 DEF Results, ShowResults, Found
<1>3. PICK n \in Nat : n = Len(Results) /\ DOMAIN Results = 1 .. n /\ (Results # <<>> => n # 0)
  BY <1>2
<1>4. ASSUME ShowResults PROVE Highlighted \in DOMAIN Results
  <2>1. n > 0 /\ active \in Int /\ active < n
    BY <1>2, <1>3, <1>4 DEF SearchInv
  <2>2. QED
    BY <1>3, <2>1 DEF Highlighted
<1>5. QED
  BY <1>2, <1>3, <1>4

(* The search box *)
LEMMA SearchSteps ==
  ASSUME SearchInv,
         (\E q \in Queries : Type(q)) \/ Clear \/ ArrowDown \/ ArrowUp \/ \E i \in 1 .. SearchLimit : Hover(i)
  PROVE  SearchInv' /\ UNCHANGED <<route, hooks, dataVars, tableVars>>
<1>1. ASSUME NEW q \in Asked, NEW a \in Int, Search(q, a), a >= -1, a < Len(Found(q))
      PROVE  SearchInv' /\ UNCHANGED <<route, hooks, dataVars, tableVars>>
  BY <1>1 DEF Search, SearchInv, Found, SearchCompanies, AllMatches, Asked
<1>2. ASSUME NEW q \in Queries, Type(q) PROVE SearchInv' /\ UNCHANGED <<route, hooks, dataVars, tableVars>>
  <2>1. q \in Asked /\ -1 \in Int /\ Search(q, -1) /\ -1 >= -1
    BY <1>2 DEF Type, Asked
  <2>2. Len(Found(q)) \in Nat
    BY <2>1, FoundNothing
  <2>3. -1 < Len(Found(q))
    BY <2>2
  <2>4. QED
    BY <1>1, <2>1, <2>3
<1>3. ASSUME Clear PROVE SearchInv' /\ UNCHANGED <<route, hooks, dataVars, tableVars>>
  <2>1. <<>> \in Asked /\ -1 \in Int /\ Search(<<>>, -1) /\ -1 >= -1
    BY <1>3 DEF Clear, Asked
  <2>2. Len(Found(<<>>)) \in Nat
    BY <2>1, FoundNothing
  <2>3. -1 < Len(Found(<<>>))
    BY <2>2
  <2>4. QED
    BY <1>1, <2>1, <2>3
<1>4. PICK n \in Nat : n = Len(Results) /\ DOMAIN Results = 1 .. n
  BY ResultsType
<1>5. ShowResults => n > 0 /\ n = Len(Found(query))
  BY <1>4, ResultsType
<1>6. active \in Int /\ active >= -1 /\ query \in Asked
  BY DEF SearchInv
<1>7. ASSUME ArrowDown PROVE SearchInv' /\ UNCHANGED <<route, hooks, dataVars, tableVars>>
  <2>1. Min({active + 1, n - 1}) = IF active + 1 <= n - 1 THEN active + 1 ELSE n - 1
    BY <1>4, <1>6, MinOfTwo
  <2>2. PICK a \in Int : a = Min({active + 1, n - 1}) /\ (n > 0 => a >= -1 /\ a < n)
    BY <1>4, <1>6, <2>1
  <2>3. ShowResults /\ Search(query, a)
    BY <1>4, <1>7, <2>2 DEF ArrowDown
  <2>4. QED
    BY <1>1, <1>5, <1>6, <2>2, <2>3
<1>8. ASSUME ArrowUp PROVE SearchInv' /\ UNCHANGED <<route, hooks, dataVars, tableVars>>
  <2>1. PICK a \in Int : a = (IF active - 1 > 0 THEN active - 1 ELSE 0)
    BY <1>6
  <2>2. ShowResults /\ Search(query, a)
    BY <1>8, <2>1 DEF ArrowUp
  <2>3. active < n
    BY <1>5, <2>2 DEF SearchInv
  <2>4. a >= -1 /\ a < n
    BY <1>4, <1>5, <1>6, <2>1, <2>2, <2>3
  <2>5. QED
    BY <1>1, <1>5, <1>6, <2>2, <2>4
<1>9. ASSUME NEW i \in 1 .. SearchLimit, Hover(i) PROVE SearchInv' /\ UNCHANGED <<route, hooks, dataVars, tableVars>>
  <2>1. i \in 1 .. n /\ Search(query, i - 1)
    BY <1>4, <1>9 DEF Hover
  <2>2. ShowResults
    BY <1>4, <2>1 DEF ShowResults
  <2>3. i - 1 \in Int /\ i - 1 >= -1 /\ i - 1 < n
    BY <2>1
  <2>4. QED
    BY <1>1, <1>5, <1>6, <2>1, <2>2, <2>3
<1>10. QED
  BY <1>2, <1>3, <1>7, <1>8, <1>9

(* The table of companies *)
LEMMA TableSteps ==
  ASSUME TableInv, (\E q \in Asked : FilterTable(q)) \/ NextPage \/ PreviousPage
  PROVE  TableInv' /\ UNCHANGED <<route, hooks, dataVars, searchVars>>
<1>1. Current \in Nat
  BY RowsType DEF TableInv
<1>2. ASSUME NEW q \in Asked, FilterTable(q) PROVE TableInv' /\ UNCHANGED <<route, hooks, dataVars, searchVars>>
  BY <1>2 DEF FilterTable, Table, TableInv
<1>3. ASSUME NextPage PROVE TableInv' /\ UNCHANGED <<route, hooks, dataVars, searchVars>>
  BY <1>1, <1>3 DEF NextPage, Table, TableInv
<1>4. ASSUME PreviousPage PROVE TableInv' /\ UNCHANGED <<route, hooks, dataVars, searchVars>>
  BY <1>1, <1>4 DEF PreviousPage, Table, TableInv
<1>5. QED
  BY <1>2, <1>3, <1>4

(* Moving on: only the page's consumer changes, to another key or to nothing
   loaded yet. *)
LEMMA NavigateStep ==
  ASSUME TableInv, DataInv, NEW to \in Keys, Navigate(to)
  PROVE  TableInv' /\ DataInv'
<1>1. route' = to /\ UNCHANGED <<requests, cache>>
  BY DEF Navigate, dataVars
<1>2. TableInv'
  <2>1. <<>> \in Asked
    BY DEF Asked
  <2>2. (UNCHANGED tableVars) \/ (shownBy' = <<>> /\ page' = 0)
    BY DEF Navigate
  <2>3. QED
    BY <2>1, <2>2, TableRests DEF TableInv
<1>3. \A k \in Keys : CachedAlone(k)'
  BY <1>1 DEF DataInv, CachedAlone
<1>4. hooks' \in [Consumers -> HookType] /\ \A h \in Consumers : Truthful(h)'
  <2>1. CASE hooks' = hooks
    BY <1>1, <2>1 DEF DataInv, Truthful
  <2>2. CASE hooks' = [hooks EXCEPT !["page"] = Mounted(to)]
    <3>1. Mounted(to) \in HookType /\ Mounted(to).state.kind = "loading" /\ Mounted(to).waitsFor = 0
      BY DEF Mounted, HookType, StateType, LoadingState, Null
    <3>2. hooks' \in [Consumers -> HookType]
      BY <2>2, <3>1 DEF DataInv
    <3>3. \A h \in Consumers : hooks'[h] = IF h = "page" THEN Mounted(to) ELSE hooks[h]
      BY <2>2 DEF DataInv
    <3>4. requests \in Seq(RequestType)
      BY DEF DataInv
    <3>5. \A h \in Consumers : Truthful(h)'
      BY <1>1, <3>1, <3>3, <3>4 DEF DataInv, Truthful
    <3>6. QED
      BY <3>2, <3>5
  <2>3. CASE hooks' = [hooks EXCEPT !["page"].key = to, !["page"].effectDue = TRUE]
    <3>1. hooks' \in [Consumers -> HookType]
      BY <2>3 DEF DataInv, HookType, Consumers
    <3>2. \A h \in Consumers : hooks'[h].state = hooks[h].state /\ hooks'[h].waitsFor = hooks[h].waitsFor
      BY <2>3 DEF DataInv, HookType, Consumers
    <3>3. \A h \in Consumers : Truthful(h)'
      BY <1>1, <3>2 DEF DataInv, Truthful
    <3>4. QED
      BY <3>1, <3>3
  <2>4. QED
    BY <2>1, <2>2, <2>3 DEF Navigate
<1>5. QED
  BY <1>1, <1>2, <1>3, <1>4 DEF DataInv

LEMMA EffectStep ==
  ASSUME DataInv, NEW h \in Consumers, RunEffect(h)
  PROVE  DataInv'
<1> DEFINE key == hooks[h].key
           promise == IF cache[key] # Null THEN cache[key] ELSE Len(requests) + 1
           fresh == [key |-> key, status |-> "pending"]
<1>1. /\ hooks' = [hooks EXCEPT ![h].effectDue = FALSE, ![h].waitsFor = promise]
      /\ cache' = [cache EXCEPT ![key] = promise]
      /\ requests' = IF promise > Len(requests) THEN Append(requests, fresh) ELSE requests
      /\ route' = route
  BY DEF RunEffect
<1>2. /\ hooks \in [Consumers -> HookType] /\ requests \in Seq(RequestType) /\ cache \in [Keys -> Nat]
      /\ key \in Keys /\ route \in Keys
  BY DEF DataInv, HookType
<1>3. PICK n \in Nat : n = Len(requests) /\ DOMAIN requests = 1 .. n
  BY <1>2
<1>4. cache[key] \in 0 .. n
  BY <1>2, <1>3 DEF DataInv, CachedAlone, Null
<1>5. promise \in Nat /\ (cache[key] = 0 => promise = n + 1) /\ (cache[key] # 0 => promise = cache[key] /\ promise <= n)
  BY <1>2, <1>3, <1>4 DEF Null
<1>6. fresh \in RequestType /\ fresh.key = key /\ fresh.status = "pending"
  BY <1>2 DEF RequestType
<1> HIDE DEF promise, key, fresh
<1>7. /\ requests' \in Seq(RequestType)
      /\ DOMAIN requests' = 1 .. (IF promise > n THEN n + 1 ELSE n)
      /\ Len(requests') = (IF promise > n THEN n + 1 ELSE n)
      /\ \A i \in 1 .. n : requests'[i] = requests[i]
      /\ promise > n => requests'[n + 1] = fresh
  BY <1>1, <1>2, <1>3, <1>5, <1>6
<1>8. hooks' \in [Consumers -> HookType]
  BY <1>1, <1>2, <1>5 DEF HookType
<1>9. \A c \in Consumers : hooks'[c].state = hooks[c].state /\ hooks'[c].waitsFor = IF c = h THEN promise ELSE hooks[c].waitsFor
  BY <1>1, <1>2 DEF HookType
<1>10. ASSUME NEW c \in Consumers PROVE Truthful(c)'
  <2>1. Truthful(c) /\ hooks[c].waitsFor \in 0 .. n
    BY <1>3 DEF DataInv, Truthful
  <2>2. hooks'[c].waitsFor \in 0 .. Len(requests')
    BY <1>3, <1>5, <1>7, <1>9, <2>1
  <2>3. DOMAIN requests \subseteq DOMAIN requests' /\ \A i \in DOMAIN requests : requests'[i] = requests[i]
    BY <1>3, <1>7
  <2>4. QED
    BY <1>9, <2>1, <2>2, <2>3 DEF Truthful
<1>11. cache' \in [Keys -> Nat]
  BY <1>1, <1>2, <1>5
<1>12. ASSUME NEW k \in Keys PROVE CachedAlone(k)'
  <2>1. /\ cache[k] \in 0 .. n
        /\ \A i \in 1 .. n : requests[i].key = k /\ requests[i].status # "failed" <=> i = cache[k]
    BY <1>3 DEF DataInv, CachedAlone, Null
  <2>2. cache'[k] = IF k = key THEN promise ELSE cache[k]
    BY <1>1, <1>2
  <2>3. CASE promise > n
    <3>1. promise = n + 1 /\ cache[key] = 0
      BY <1>4, <1>5, <2>3
    <3>2. cache'[k] \in {0} \cup DOMAIN requests'
      BY <1>7, <2>1, <2>2, <2>3, <3>1
    <3>3. ASSUME NEW i \in 1 .. (n + 1)
          PROVE  requests'[i].key = k /\ requests'[i].status # "failed" <=> i = cache'[k]
      <4>1. CASE i = n + 1
        BY <1>6, <1>7, <2>1, <2>2, <2>3, <3>1, <4>1
      <4>2. CASE i \in 1 .. n
        BY <1>7, <2>1, <2>2, <3>1, <4>2
      <4>3. QED
        BY <4>1, <4>2
    <3>4. QED
      BY <1>7, <2>3, <3>2, <3>3 DEF CachedAlone, Null
  <2>4. CASE ~(promise > n)
    <3>1. cache'[k] = cache[k] /\ requests' = requests
      BY <1>1, <1>3, <1>4, <1>5, <2>2, <2>4
    <3>2. QED
      BY <3>1 DEF DataInv, CachedAlone
  <2>5. QED
    BY <2>3, <2>4
<1>13. QED
  BY <1>1, <1>2, <1>7, <1>8, <1>10, <1>11, <1>12 DEF DataInv

(* A request that settles was pending: nobody holds what it brought, and only
   if it fails is it taken out of the cache. *)
LEMMA AnswerStep ==
  ASSUME DataInv, NEW i \in DOMAIN requests, Answer(i)
  PROVE  DataInv'
<1>1. /\ hooks \in [Consumers -> HookType] /\ requests \in Seq(RequestType) /\ cache \in [Keys -> Nat]
      /\ requests[i] \in RequestType /\ requests[i].status = "pending" /\ route \in Keys
  BY DEF DataInv, Answer
<1>2. hooks' = hooks /\ route' = route
  BY DEF Answer
<1>3. PICK s \in {"ok", "failed"} :
        /\ requests' = [requests EXCEPT ![i].status = s]
        /\ cache' = IF s = "failed" THEN [cache EXCEPT ![requests[i].key] = Null] ELSE cache
  BY DEF Answer
<1>4. PICK n \in Nat : n = Len(requests) /\ DOMAIN requests = 1 .. n
  BY <1>1
<1>5. /\ requests' \in Seq(RequestType) /\ Len(requests') = n /\ DOMAIN requests' = 1 .. n
      /\ \A j \in 1 .. n : j # i => requests'[j] = requests[j]
      /\ requests'[i].key = requests[i].key /\ requests'[i].status = s
  <2>1. [requests[i] EXCEPT !.status = s] \in RequestType
    BY <1>1 DEF RequestType
  <2>2. requests' = [requests EXCEPT ![i] = [requests[i] EXCEPT !.status = s]]
    BY <1>3
  <2>3. requests[i].status = "pending" /\ [requests[i] EXCEPT !.status = s].status = s
        /\ [requests[i] EXCEPT !.status = s].key = requests[i].key
    BY <1>1 DEF RequestType
  <2>4. QED
    BY <1>1, <1>4, <2>1, <2>2, <2>3, ExceptSeq
<1>6. requests[i].key \in Keys
  BY <1>1 DEF RequestType
<1>7. cache' \in [Keys -> Nat]
  BY <1>1, <1>3 DEF Null
<1>8. ASSUME NEW c \in Consumers PROVE Truthful(c)'
  <2>1. Truthful(c)
    BY DEF DataInv
  <2>2. ASSUME NEW j \in DOMAIN requests, requests[j].status # "pending" PROVE j \in DOMAIN requests' /\ requests'[j] = requests[j]
    BY <1>1, <1>4, <1>5, <2>2
  <2>3. QED
    BY <1>2, <1>4, <1>5, <2>1, <2>2 DEF Truthful
<1>9. ASSUME NEW k \in Keys PROVE CachedAlone(k)'
  <2>1. /\ cache[k] \in 0 .. n
        /\ \A j \in 1 .. n : requests[j].key = k /\ requests[j].status # "failed" <=> j = cache[k]
    BY <1>4 DEF DataInv, CachedAlone, Null
  <2>2. cache'[k] = IF s = "failed" /\ requests[i].key = k THEN 0 ELSE cache[k]
    BY <1>1, <1>3 DEF Null
  <2>3. requests[i].key = k <=> i = cache[k]
    BY <1>1, <1>4, <2>1
  <2>4. \A j \in 1 .. n : requests'[j].key = k /\ requests'[j].status # "failed" <=> j = cache'[k]
    BY <1>3, <1>4, <1>5, <2>1, <2>2, <2>3
  <2>5. QED
    BY <1>5, <2>1, <2>2, <2>4 DEF CachedAlone, Null
<1>10. QED
  BY <1>1, <1>2, <1>5, <1>7, <1>8, <1>9 DEF DataInv

LEMMA DeliverStep ==
  ASSUME DataInv, NEW h \in Consumers, Deliver(h)
  PROVE  DataInv'
<1> DEFINE i == hooks[h].waitsFor
           told == [key |-> requests[i].key,
                    kind |-> IF requests[i].status = "ok" THEN "loaded" ELSE "failed",
                    data |-> IF requests[i].status = "ok" THEN i ELSE Null]
<1>1. /\ i # Null /\ requests[i].status # "pending"
      /\ hooks' = [hooks EXCEPT ![h].waitsFor = Null, ![h].state = told]
      /\ UNCHANGED <<route, requests, cache>>
  BY DEF Deliver, dataVars
<1>2. /\ hooks \in [Consumers -> HookType] /\ requests \in Seq(RequestType) /\ Truthful(h)
  BY DEF DataInv
<1>3. i \in DOMAIN requests /\ requests[i] \in RequestType /\ i \in Nat
  BY <1>1, <1>2 DEF Truthful, Null
<1>4. told \in StateType
  BY <1>3 DEF StateType, RequestType, Null
<1>5. /\ told.kind = "loaded" => told.data \in DOMAIN requests /\ requests[told.data] = [key |-> told.key, status |-> "ok"]
      /\ told.kind = "failed" => \E j \in DOMAIN requests : requests[j] = [key |-> told.key, status |-> "failed"]
  <2>1. CASE requests[i].status = "ok"
    BY <1>3, <2>1 DEF RequestType
  <2>2. CASE requests[i].status = "failed"
    BY <1>3, <2>2 DEF RequestType
  <2>3. QED
    BY <1>1, <1>3, <2>1, <2>2 DEF RequestType
<1> HIDE DEF told, i
<1>6. hooks' \in [Consumers -> HookType]
  BY <1>1, <1>2, <1>4 DEF HookType, Null
<1>7. \A c \in Consumers : /\ hooks'[c].state = IF c = h THEN told ELSE hooks[c].state
                           /\ hooks'[c].waitsFor = IF c = h THEN 0 ELSE hooks[c].waitsFor
  BY <1>1, <1>2 DEF HookType, Null
<1>8. ASSUME NEW c \in Consumers PROVE Truthful(c)'
  <2>1. Truthful(c) /\ Len(requests) \in Nat
    BY <1>2 DEF DataInv
  <2>2. requests' = requests
    BY <1>1
  <2>3. CASE c = h
    <3>1. hooks'[c].state = told /\ hooks'[c].waitsFor = 0
      BY <1>7, <2>3
    <3>2. 0 \in 0 .. Len(requests')
      BY <2>1, <2>2
    <3>3. QED
      BY <1>5, <2>2, <3>1, <3>2 DEF Truthful
  <2>4. CASE c # h
    <3>1. hooks'[c].state = hooks[c].state /\ hooks'[c].waitsFor = hooks[c].waitsFor
      BY <1>7, <2>4
    <3>2. QED
      BY <2>1, <2>2, <3>1 DEF Truthful
  <2>5. QED
    BY <2>3, <2>4
<1>9. QED
  BY <1>1, <1>6, <1>8 DEF DataInv, CachedAlone

LEMMA RetryStep ==
  ASSUME DataInv, Retry
  PROVE  DataInv'
<1>1. "page" \in Consumers /\ hooks \in [Consumers -> HookType]
  BY DEF DataInv, Consumers
<1>2. hooks["page"].key \in Keys
  BY <1>1 DEF HookType
<1>3. LoadingState(hooks["page"].key) \in StateType /\ LoadingState(hooks["page"].key).kind = "loading"
  BY <1>2 DEF LoadingState, StateType, Null
<1>4. hooks' = [hooks EXCEPT !["page"].state = LoadingState(hooks["page"].key), !["page"].effectDue = TRUE]
      /\ UNCHANGED <<route, requests, cache>>
  BY DEF Retry, dataVars
<1>5. hooks' \in [Consumers -> HookType]
  BY <1>1, <1>3, <1>4 DEF HookType
<1>6. \A c \in Consumers : /\ hooks'[c].state = IF c = "page" THEN LoadingState(hooks["page"].key) ELSE hooks[c].state
                           /\ hooks'[c].waitsFor = hooks[c].waitsFor
  BY <1>1, <1>4 DEF HookType
<1>7. \A c \in Consumers : Truthful(c)'
  BY <1>3, <1>4, <1>6 DEF DataInv, Truthful
<1>8. QED
  BY <1>4, <1>5, <1>7 DEF DataInv, CachedAlone

LEMMA WebStep == WebInv /\ Next => WebInv'
<1> SUFFICES ASSUME WebInv, Next PROVE WebInv'
  OBVIOUS
<1>1. SearchInv /\ TableInv /\ DataInv
  BY WebParts
<1>2. SearchInv' /\ TableInv' /\ DataInv' => WebInv'
  BY WebParts DEF WebInv, WebTypes, SearchInv, TableInv, DataInv
<1>3. ASSUME NEW h \in Consumers, RunEffect(h) PROVE WebInv'
  BY <1>1, <1>2, <1>3, EffectStep, SearchRests, TableRests DEF RunEffect
<1>4. ASSUME NEW h \in Consumers, Deliver(h) PROVE WebInv'
  BY <1>1, <1>2, <1>4, DeliverStep, SearchRests, TableRests DEF Deliver
<1>5. ASSUME NEW i \in DOMAIN requests, Answer(i) PROVE WebInv'
  BY <1>1, <1>2, <1>5, AnswerStep, SearchRests, TableRests DEF Answer
<1>6. ASSUME Retry PROVE WebInv'
  BY <1>1, <1>2, <1>6, RetryStep, SearchRests, TableRests DEF Retry
<1>7. ASSUME NEW to \in Keys, Navigate(to), UNCHANGED searchVars PROVE WebInv'
  BY <1>1, <1>2, <1>7, NavigateStep, SearchRests
<1>8. ASSUME GoToList PROVE WebInv'
  BY <1>7, <1>8 DEF GoToList, Keys
<1>9. ASSUME Enter PROVE WebInv'
  <2>1. Results \in Seq(Companies) /\ Highlighted \in DOMAIN Results
    BY <1>1, <1>9, ResultsType DEF Enter
  <2>2. Results[Highlighted] \in Keys
    BY <2>1 DEF Keys
  <2>3. QED
    BY <1>7, <1>9, <2>2 DEF Enter
<1>10. ASSUME NEW i \in 1 .. PageSize, OpenRow(i) PROVE WebInv'
  <2>1. Rows \in Seq(Companies) /\ i \in DOMAIN Rows
    BY <1>1, <1>10, RowsType DEF OpenRow, TableInv
  <2>2. Rows[i] \in Keys
    BY <2>1 DEF Keys
  <2>3. QED
    BY <1>7, <1>10, <2>2 DEF OpenRow
<1>11. ASSUME (\E q \in Queries : Type(q)) \/ Clear \/ ArrowDown \/ ArrowUp \/ \E i \in 1 .. SearchLimit : Hover(i)
       PROVE  WebInv'
  <2>1. SearchInv' /\ UNCHANGED <<route, hooks, dataVars>> /\ UNCHANGED tableVars
    BY <1>1, <1>11, SearchSteps
  <2>2. QED
    BY <1>1, <1>2, <2>1, DataRests, TableRests
<1>12. ASSUME (\E q \in Asked : FilterTable(q)) \/ NextPage \/ PreviousPage PROVE WebInv'
  <2>1. TableInv' /\ UNCHANGED <<route, hooks, dataVars>> /\ UNCHANGED searchVars
    BY <1>1, <1>12, TableSteps
  <2>2. QED
    BY <1>1, <1>2, <2>1, DataRests, SearchRests
<1>13. \A q \in Queries : q \in Asked
  BY DEF Asked
<1>14. <<>> \in Asked
  BY DEF Asked
<1>15. QED
  BY <1>3, <1>4, <1>5, <1>6, <1>8, <1>9, <1>10, <1>11, <1>12, <1>13, <1>14 DEF Next

(* Every state of the browser shows its own data: what a page shows was
   answered to the request for its key, no key has two live requests, no
   failure is kept, Enter opens a listed company and a table page with
   companies is not empty - for any companies, queries and limits. *)
THEOREM PagesAreTruthful == ReadSpec => []PagesShowTheirOwnData
<1>1. ReadInit => WebInv
  BY WebStarts DEF ReadInit
<1>2. WebInv /\ UNCHANGED vars => WebInv'
  <2> SUFFICES ASSUME WebInv, UNCHANGED vars PROVE WebInv'
    OBVIOUS
  <2>1. SearchInv' /\ TableInv' /\ DataInv'
    BY WebParts, SearchRests, TableRests, DataRests DEF vars
  <2>2. QED
    BY <2>1 DEF WebInv, WebTypes, SearchInv, TableInv, DataInv
<1>3. WebInv /\ [ReadNext]_readVars => WebInv'
  <2>1. [ReadNext]_readVars => Next \/ UNCHANGED vars
    BY DEF ReadNext, readVars, Browse, Try, TryFacts, TrySeries, TryVerdicts, TrySections, TryDiffs, TryFeed
  <2>2. QED
    BY <1>2, <2>1, WebStep
<1>4. WebInv => PagesShowTheirOwnData
  BY WebConsequence
<1>5. QED
  BY <1>1, <1>3, <1>4, PTL DEF ReadSpec

-----------------------------------------------------------------------------
(* The cases tried *)

CasesOf(p) ==
  CASE p = "facts" -> FactCases
    [] p = "series" -> SeriesCases
    [] p = "verdicts" -> VerdictCases
    [] p = "sections" -> SectionCases
    [] p = "diffs" -> DiffCases
    [] p = "feed" -> FeedCases
    [] p = "web" -> {}

TriedIsCase == case = NoCase \/ case \in CasesOf(part)

LEMMA TriedAreCases == ReadSpec => []TriedIsCase
<1>1. ReadInit => TriedIsCase
  BY DEF ReadInit, TriedIsCase
<1>2. ASSUME TriedIsCase, [ReadNext]_readVars PROVE TriedIsCase'
  <2>1. ASSUME NEW p, NEW cases, cases = CasesOf(p), Try(p, cases) PROVE TriedIsCase'
    BY <2>1 DEF Try, TriedIsCase
  <2>2. ASSUME part' = part, case' = case PROVE TriedIsCase'
    BY <1>2, <2>2 DEF TriedIsCase
  <2>3. /\ CasesOf("facts") = FactCases /\ CasesOf("series") = SeriesCases /\ CasesOf("verdicts") = VerdictCases
        /\ CasesOf("sections") = SectionCases /\ CasesOf("diffs") = DiffCases /\ CasesOf("feed") = FeedCases
    BY DEF CasesOf
  <2>4. CASE TryFacts
    BY <2>1, <2>3, <2>4 DEF TryFacts
  <2>5. CASE TrySeries
    BY <2>1, <2>3, <2>5 DEF TrySeries
  <2>6. CASE TryVerdicts
    BY <2>1, <2>3, <2>6 DEF TryVerdicts
  <2>7. CASE TrySections
    BY <2>1, <2>3, <2>7 DEF TrySections
  <2>8. CASE TryDiffs
    BY <2>1, <2>3, <2>8 DEF TryDiffs
  <2>9. CASE TryFeed
    BY <2>1, <2>3, <2>9 DEF TryFeed
  <2>10. CASE Browse \/ UNCHANGED readVars
    BY <2>2, <2>10 DEF Browse, readVars
  <2>11. QED
    BY <1>2, <2>4, <2>5, <2>6, <2>7, <2>8, <2>9, <2>10 DEF ReadNext
<1>3. QED
  BY <1>1, <1>2, PTL DEF ReadSpec

-----------------------------------------------------------------------------
(* The scores' numbers *)

LEMMA FourFinite ==
  ASSUME NEW a, NEW b, NEW c, NEW d
  PROVE  IsFiniteSet({a, b, c, d})
<1>1. IsFiniteSet({a}) /\ IsFiniteSet({b}) /\ IsFiniteSet({c}) /\ IsFiniteSet({d})
  BY FS_Singleton
<1>2. IsFiniteSet({a} \cup {b}) /\ IsFiniteSet({c} \cup {d})
  BY <1>1, FS_Union
<1>3. IsFiniteSet(({a} \cup {b}) \cup ({c} \cup {d}))
  BY <1>2, FS_Union
<1>4. {a, b, c, d} = ({a} \cup {b}) \cup ({c} \cup {d})
  OBVIOUS
<1>5. QED
  BY <1>3, <1>4

LEMMA QuotientType ==
  ASSUME NEW x \in Int, NEW y \in Int
  PROVE  /\ Quotient(x, y).value \in Int
         /\ Quotient(x, y).kind \in {"number", "+inf", "-inf", "nan"}
<1>1. CASE y > 0
  <2>1. (1000 * x) \div y \in Int
    BY <1>1
  <2>2. QED
    BY <1>1, <2>1 DEF Quotient
<1>2. CASE y < 0
  <2>1. PICK d \in Int : d = -y /\ d > 0
    BY <1>2
  <2>2. PICK s \in Int : s = -x
    OBVIOUS
  <2>3. (1000 * s) \div d \in Int
    BY <2>1
  <2>4. y # 0 /\ ~(y > 0)
    BY <1>2
  <2>5. QED
    BY <2>1, <2>2, <2>3, <2>4 DEF Quotient
<1>3. CASE y = 0
  BY <1>3 DEF Quotient
<1>4. QED
  BY <1>1, <1>2, <1>3

Unavailable(o) == o.status = "insufficient-history"

WellAltman(o) ==
  \/ Unavailable(o)
  \/ /\ o.status = "ok" /\ o.value \in Int
     /\ \/ o.classification = "safe" /\ o.value >= 260000
        \/ o.classification = "grey-zone" /\ o.value >= 110000 /\ o.value <= 260000
        \/ o.classification = "distress" /\ o.value <= 110000

Nine == {PiotroskiOrder[i] : i \in 1 .. 9}
Qualities == {"high-quality", "low-quality", "moderate"}

WellPiotroski(o) ==
  \/ Unavailable(o)
  \/ /\ o.status = "ok" /\ o.signals \in [Nine -> BOOLEAN]
     /\ o.value = Cardinality(Passed(o.signals)) /\ o.classification \in Qualities

WellBeneish(o) ==
  \/ Unavailable(o)
  \/ /\ o.status = "ok"
     /\ \/ /\ o.value.kind = "number" /\ o.value.value \in Int
           /\ o.classification = IF o.value.value > -2220000 THEN "likely-manipulator" ELSE "unlikely-manipulator"
        \/ o.value.kind = "+inf" /\ o.classification = "likely-manipulator"
        \/ o.value.kind \in {"nan", "-inf"} /\ o.classification = "unlikely-manipulator"

(* Rounding does not take a score over the edge of its zone. *)
LEMMA AltmanIsWell ==
  ASSUME NEW v \in [Reported -> Int]
  PROVE  WellAltman(Altman(v))
<1>1. CASE v.assets = 0 \/ v.liabilities = 0
  BY <1>1 DEF Altman, Unscored, WellAltman, Unavailable
<1>2. CASE ~(v.assets = 0 \/ v.liabilities = 0)
  <2>1. \A k \in {"assets", "liabilities", "currentAssets", "currentLiabilities", "retainedEarnings", "ebit", "equity"} :
          v[k] \in Int
    BY DEF Reported, AltmanFigures
  <2>2. /\ Quotient(v.currentAssets - v.currentLiabilities, v.assets).value \in Int
        /\ Quotient(v.retainedEarnings, v.assets).value \in Int
        /\ Quotient(v.ebit, v.assets).value \in Int
        /\ Quotient(v.equity, v.liabilities).value \in Int
    BY <2>1, QuotientType
  <2>3. PICK z \in Int : z = AltmanZ(v)
    BY <2>2 DEF AltmanZ
  <2>4. Altman(v) = [status |-> "ok", value |-> Rounded(z), classification |-> AltmanZone(z)]
    BY <1>2, <2>3 DEF Altman
  <2>5. /\ Rounded(z) \in Int
        /\ z > 260000 => Rounded(z) >= 260000
        /\ z <= 260000 => Rounded(z) <= 260000
        /\ z > 110000 => Rounded(z) >= 110000
        /\ z <= 110000 => Rounded(z) <= 110000
    BY DEF Rounded
  <2>6. QED
    BY <2>4, <2>5 DEF WellAltman, AltmanZone
<1>3. QED
  BY <1>1, <1>2

LEMMA PiotroskiIsWell ==
  ASSUME NEW t, NEW p
  PROVE  WellPiotroski(Piotroski(t, p))
<1>1. Signals(t, p) \in [Nine -> BOOLEAN]
  <2>1. Nine = {"positiveROA", "positiveCFO", "cfoExceedsNetIncome", "decreasingLeverage", "noNewShares",
                "improvingGrossMargin", "improvingROA", "improvingCurrentRatio", "improvingAssetTurnover"}
    BY DEF Nine, PiotroskiOrder
  <2>2. \A q, r : Above(q, r) \in BOOLEAN
    BY DEF Above
  <2>4. DOMAIN Signals(t, p) = Nine
    BY <2>1 DEF Signals
  <2>5. \A s \in Nine : Signals(t, p)[s] \in BOOLEAN
    <3>1. /\ Signals(t, p).positiveROA \in BOOLEAN
          /\ Signals(t, p).positiveCFO \in BOOLEAN
          /\ Signals(t, p).cfoExceedsNetIncome \in BOOLEAN
      BY <2>2, SMT DEF Signals
    <3>2. /\ Signals(t, p).decreasingLeverage \in BOOLEAN
          /\ Signals(t, p).noNewShares \in BOOLEAN
          /\ Signals(t, p).improvingGrossMargin \in BOOLEAN
      BY <2>2, SMT DEF Signals
    <3>3. /\ Signals(t, p).improvingROA \in BOOLEAN
          /\ Signals(t, p).improvingCurrentRatio \in BOOLEAN
          /\ Signals(t, p).improvingAssetTurnover \in BOOLEAN
      BY <2>2, SMT DEF Signals
    <3>4. QED
      BY <2>1, <3>1, <3>2, <3>3
  <2>6. Signals(t, p) = [s \in DOMAIN Signals(t, p) |-> Signals(t, p)[s]]
    BY DEF Signals
  <2>7. QED
    BY <2>4, <2>5, <2>6
<1>2. \A n : Quality(n) \in Qualities
  BY DEF Quality, Qualities
<1>3. CASE 0 \in {t.assets, p.assets, t.revenue, p.revenue}
  BY <1>3 DEF Piotroski, Unscored, WellPiotroski, Unavailable
<1>4. CASE 0 \notin {t.assets, p.assets, t.revenue, p.revenue}
  BY <1>1, <1>2, <1>4 DEF Piotroski, WellPiotroski
<1>5. QED
  BY <1>3, <1>4

IndexNames == {"dsri", "gmi", "aqi", "sgi", "depi", "sgai", "tata", "lvgi"}

LEMMA BeneishIsWell ==
  ASSUME NEW t \in [Reported -> Int], NEW p \in [Reported -> Int]
  PROVE  WellBeneish(Beneish(t, p))
<1> DEFINE ix == Indices(t, p)
           m == BeneishM(ix)
           terms == [i \in DOMAIN ix |-> Weights[i] * ix[i].value]
<1>1. \A k \in BeneishFigures : t[k] \in Int /\ p[k] \in Int
  BY DEF Reported
<1>2. \A x, y \in Int : Quotient(x, y).value \in Int /\ Quotient(x, y).kind \in {"number", "+inf", "-inf", "nan"}
  BY QuotientType
<1>3. DOMAIN ix = IndexNames
  BY DEF Indices, IndexNames
<1>4. \A i \in IndexNames : ix[i].value \in Int
  <2>1. /\ t.receivables \in Int /\ t.revenue \in Int /\ t.grossProfit \in Int /\ t.assets \in Int
        /\ t.currentAssets \in Int /\ t.ppe \in Int /\ t.depreciation \in Int /\ t.sga \in Int
        /\ t.netIncome \in Int /\ t.cfo \in Int /\ t.longTermDebt \in Int /\ t.currentLiabilities \in Int
    BY <1>1 DEF BeneishFigures
  <2>2. /\ p.receivables \in Int /\ p.revenue \in Int /\ p.grossProfit \in Int /\ p.assets \in Int
        /\ p.currentAssets \in Int /\ p.ppe \in Int /\ p.depreciation \in Int /\ p.sga \in Int
        /\ p.longTermDebt \in Int /\ p.currentLiabilities \in Int
    BY <1>1 DEF BeneishFigures
  <2>3. ASSUME NEW x \in Int, NEW y \in Int, NEW i, ix[i] = Quotient(x, y) PROVE ix[i].value \in Int
    BY <1>2, <2>3
  <2>4. ix.dsri.value \in Int
    <3>1. ix.dsri = Quotient(t.receivables * p.revenue, t.revenue * p.receivables)
      BY DEF Indices
    <3>2. t.receivables * p.revenue \in Int /\ t.revenue * p.receivables \in Int
      BY <2>1, <2>2
    <3> HIDE DEF ix
    <3>3. QED
      BY <2>3, <3>1, <3>2
  <2>5. ix.gmi.value \in Int
    <3>1. ix.gmi = Quotient(p.grossProfit * t.revenue, p.revenue * t.grossProfit)
      BY DEF Indices
    <3>2. p.grossProfit * t.revenue \in Int /\ p.revenue * t.grossProfit \in Int
      BY <2>1, <2>2
    <3> HIDE DEF ix
    <3>3. QED
      BY <2>3, <3>1, <3>2
  <2>6. ix.aqi.value \in Int
    <3>1. ix.aqi = Quotient((t.assets - t.currentAssets - t.ppe) * p.assets, t.assets * (p.assets - p.currentAssets - p.ppe))
      BY DEF Indices
    <3>2. (t.assets - t.currentAssets - t.ppe) * p.assets \in Int /\ t.assets * (p.assets - p.currentAssets - p.ppe) \in Int
      BY <2>1, <2>2
    <3> HIDE DEF ix
    <3>3. QED
      BY <2>3, <3>1, <3>2
  <2>7. ix.sgi.value \in Int
    <3>1. ix.sgi = Quotient(t.revenue, p.revenue)
      BY DEF Indices
    <3> HIDE DEF ix
    <3>2. QED
      BY <2>1, <2>2, <2>3, <3>1
  <2>8. ix.depi.value \in Int
    <3>1. ix.depi = Quotient(p.depreciation * (t.depreciation + t.ppe), (p.depreciation + p.ppe) * t.depreciation)
      BY DEF Indices
    <3>2. p.depreciation * (t.depreciation + t.ppe) \in Int /\ (p.depreciation + p.ppe) * t.depreciation \in Int
      BY <2>1, <2>2
    <3> HIDE DEF ix
    <3>3. QED
      BY <2>3, <3>1, <3>2
  <2>9. ix.sgai.value \in Int
    <3>1. ix.sgai = Quotient(t.sga * p.revenue, t.revenue * p.sga)
      BY DEF Indices
    <3>2. t.sga * p.revenue \in Int /\ t.revenue * p.sga \in Int
      BY <2>1, <2>2
    <3> HIDE DEF ix
    <3>3. QED
      BY <2>3, <3>1, <3>2
  <2>10. ix.tata.value \in Int
    <3>1. ix.tata = Quotient(t.netIncome - t.cfo, t.assets)
      BY DEF Indices
    <3>2. t.netIncome - t.cfo \in Int
      BY <2>1
    <3> HIDE DEF ix
    <3>3. QED
      BY <2>1, <2>3, <3>1, <3>2
  <2>11. ix.lvgi.value \in Int
    <3>1. ix.lvgi = Quotient((t.longTermDebt + t.currentLiabilities) * p.assets, t.assets * (p.longTermDebt + p.currentLiabilities))
      BY DEF Indices
    <3>2. (t.longTermDebt + t.currentLiabilities) * p.assets \in Int /\ t.assets * (p.longTermDebt + p.currentLiabilities) \in Int
      BY <2>1, <2>2
    <3> HIDE DEF ix
    <3>3. QED
      BY <2>3, <3>1, <3>2
  <2> HIDE DEF ix
  <2>12. QED
    BY <2>4, <2>5, <2>6, <2>7, <2>8, <2>9, <2>10, <2>11 DEF IndexNames
<1>5. \A i \in IndexNames : Weights[i] \in Int
  BY DEF Weights, IndexNames
<1>6. SumFunction(terms) \in Int
  <2>1. IsFiniteSet(IndexNames)
    <3>1. IsFiniteSet({"dsri", "gmi", "aqi", "sgi"}) /\ IsFiniteSet({"depi", "sgai", "tata", "lvgi"})
      BY FourFinite
    <3>2. IndexNames = {"dsri", "gmi", "aqi", "sgi"} \cup {"depi", "sgai", "tata", "lvgi"}
      BY DEF IndexNames
    <3>3. QED
      BY <3>1, <3>2, FS_Union
  <2>2. DOMAIN terms = IndexNames
    BY <1>3
  <2> HIDE DEF ix
  <2>3. \A i \in IndexNames : terms[i] \in Int
    BY <1>3, <1>4, <1>5
  <2> HIDE DEF terms
  <2>4. SumFunction(terms) = SumFunctionOnSet(terms, IndexNames)
    BY <2>2 DEF SumFunction
  <2>5. QED
    BY <2>1, <2>3, <2>4, SumOf
<1> HIDE DEF ix
<1>7. m.kind \in {"number", "+inf", "-inf", "nan"} /\ m.value \in Int
  <2> DEFINE up == {i \in DOMAIN ix : ix[i].kind = IF Weights[i] > 0 THEN "+inf" ELSE "-inf"}
             down == {i \in DOMAIN ix : ix[i].kind = IF Weights[i] > 0 THEN "-inf" ELSE "+inf"}
             none == \E i \in DOMAIN ix : ix[i].kind = "nan"
  <2>1. m = IF none \/ (up # {} /\ down # {})
            THEN [kind |-> "nan", value |-> 0]
            ELSE IF up # {} THEN [kind |-> "+inf", value |-> 0]
            ELSE IF down # {} THEN [kind |-> "-inf", value |-> 0]
            ELSE [kind |-> "number", value |-> SumFunction(terms) - 4840000]
    BY DEF BeneishM
  <2> HIDE DEF m, up, down, none, terms
  <2>2. QED
    BY <1>6, <2>1
<1>8. CASE ~DenominatorsAreNonZero(t, p)
  BY <1>8 DEF Beneish, Unscored, WellBeneish, Unavailable
<1>9. CASE DenominatorsAreNonZero(t, p)
  <2>1. Beneish(t, p) = [status |-> "ok", value |-> m, indices |-> ix,
                         classification |-> IF Above(m, [kind |-> "number", value |-> -2220000])
                                            THEN "likely-manipulator" ELSE "unlikely-manipulator"]
    BY <1>9 DEF Beneish, ix
  <2> HIDE DEF m
  <2>2. Above(m, [kind |-> "number", value |-> -2220000])
          <=> (m.kind = "number" /\ m.value > -2220000) \/ m.kind = "+inf"
    BY DEF Above
  <2>3. QED
    BY <1>7, <2>1, <2>2 DEF WellBeneish
<1>10. QED
  BY <1>8, <1>9

-----------------------------------------------------------------------------
(* The verdicts on them *)

Well(scores) ==
  /\ scores = [s \in ScoreNames |-> scores[s]]
  /\ WellAltman(scores["altmanZ"]) /\ WellPiotroski(scores["piotroskiF"]) /\ WellBeneish(scores["beneishM"])

(* A card's colour is alarming in the cases in which the list has a concern
   and the sentence a "but". *)
LEMMA AltmanTold ==
  ASSUME NEW scores, WellAltman(scores["altmanZ"]), IsScored(scores["altmanZ"])
  PROVE  LET o == scores["altmanZ"]
             c == Card(scores, "altmanZ")
         IN /\ c.tone = RatingChip("altmanZ", RatingSummary(o))
            /\ c.tone \in Alarming <=> o.classification # "safe"
            /\ c.tone \in MarkedZones(c)
<1> DEFINE o == scores["altmanZ"]
           c == Card(scores, "altmanZ")
<1>1. o.status = "ok"
  BY DEF IsScored
<1>2. /\ o.value \in Int
      /\ \/ o.classification = "safe" /\ o.value >= 260000
         \/ o.classification = "grey-zone" /\ o.value >= 110000 /\ o.value <= 260000
         \/ o.classification = "distress" /\ o.value <= 110000
  BY <1>1 DEF WellAltman, Unavailable
<1>3. c = AltmanCard(o)
  BY DEF Card
<1> HIDE DEF o, c
<1> DEFINE band == AltmanBand(o)
<1>4. /\ c.tone = band.tone /\ c.position = band.position
      /\ c.zones = [critical |-> <<0, 110000>>, warning |-> <<110000, 260000>>, good |-> <<260000, 400000>>]
  BY <1>3 DEF AltmanCard, AltmanGauge
<1>5. band.tone = IF o.classification = "safe" THEN "good"
                  ELSE IF o.classification = "distress" THEN "critical" ELSE "warning"
  BY <1>2 DEF AltmanBand
<1>6. band.position = IF o.value < 0 THEN 0 ELSE IF o.value > 400000 THEN 400000 ELSE o.value
  BY DEF AltmanBand, Clamp, AltmanGauge
<1>7. RatingChip("altmanZ", RatingSummary(o)) = band.tone
  <2>1. RatingSummary(o) = [status |-> "ok", value |-> o.value, classification |-> o.classification]
    BY <1>1 DEF RatingSummary, IsScored
  <2>2. RatingChip("altmanZ", RatingSummary(o)) = AltmanBand(RatingSummary(o)).tone
    BY DEF RatingChip
  <2>3. AltmanBand(RatingSummary(o)).tone = IF o.classification = "safe" THEN "good"
                  ELSE IF o.classification = "distress" THEN "critical" ELSE "warning"
    BY <1>2, <2>1 DEF AltmanBand
  <2>4. QED
    BY <1>5, <2>2, <2>3
<1> HIDE DEF band
<1>8. c.tone \in MarkedZones(c)
  <2>1. c.tone \in DOMAIN c.zones
    BY <1>4, <1>5
  <2>2. c.zones[c.tone][1] <= c.position /\ c.position <= c.zones[c.tone][2]
    <3>1. CASE o.classification = "safe"
      BY <1>2, <1>4, <1>5, <1>6, <3>1
    <3>2. CASE o.classification = "grey-zone"
      BY <1>2, <1>4, <1>5, <1>6, <3>2
    <3>3. CASE o.classification = "distress"
      BY <1>2, <1>4, <1>5, <1>6, <3>3
    <3>4. QED
      BY <1>2, <3>1, <3>2, <3>3
  <2>3. QED
    BY <2>1, <2>2 DEF MarkedZones
<1>9. c.tone \in Alarming <=> o.classification # "safe"
  BY <1>2, <1>4, <1>5 DEF Alarming
<1>10. QED
  BY <1>4, <1>7, <1>8, <1>9 DEF o, c

LEMMA BeneishTold ==
  ASSUME NEW scores, WellBeneish(scores["beneishM"]), IsScored(scores["beneishM"])
  PROVE  LET o == scores["beneishM"]
             c == Card(scores, "beneishM")
         IN /\ c.tone = RatingChip("beneishM", RatingSummary(o))
            /\ c.tone \in Alarming <=> o.classification = "likely-manipulator"
            /\ c.tone \in MarkedZones(c) \/ NoNumber(o)
<1> DEFINE o == scores["beneishM"]
           c == Card(scores, "beneishM")
<1>1. o.status = "ok"
  BY DEF IsScored
<1>2. \/ /\ o.value.kind = "number" /\ o.value.value \in Int
         /\ o.classification = IF o.value.value > -2220000 THEN "likely-manipulator" ELSE "unlikely-manipulator"
      \/ o.value.kind = "+inf" /\ o.classification = "likely-manipulator"
      \/ o.value.kind \in {"nan", "-inf"} /\ o.classification = "unlikely-manipulator"
  BY <1>1 DEF WellBeneish, Unavailable
<1>3. c = BeneishCard(o)
  BY DEF Card
<1> HIDE DEF o, c
<1> DEFINE band == BeneishBand(o)
           wire == OverTheWire(o.value)
<1>4. /\ c.tone = band.tone /\ c.position = band.position
      /\ c.zones = [good |-> <<-4000000, -2220000>>, serious |-> <<-2220000, -1000000>>]
  BY <1>3 DEF BeneishCard, BeneishGauge
<1>5. band.tone = IF o.classification = "likely-manipulator" THEN "serious" ELSE "good"
  BY DEF BeneishBand
<1>6. band.position = IF wire < -4000000 THEN -4000000 ELSE IF wire > -1000000 THEN -1000000 ELSE wire
  BY DEF BeneishBand, Clamp, BeneishGauge
<1>7. RatingChip("beneishM", RatingSummary(o)) = band.tone
  BY <1>1, <1>5 DEF RatingSummary, IsScored, RatingChip
<1>8. o.value.kind = "number" => /\ wire \in Int
                                 /\ o.value.value > -2220000 => wire >= -2220000
                                 /\ o.value.value <= -2220000 => wire <= -2220000
  <2>1. ASSUME NEW v \in Int
        PROVE  LET up == ((IF v < 0 THEN -v ELSE v) + 500) \div 1000
                   w == 1000 * (IF v < 0 THEN -up ELSE up)
               IN w \in Int /\ (v > -2220000 => w >= -2220000) /\ (v <= -2220000 => w <= -2220000)
    OBVIOUS
  <2>2. QED
    BY <1>2, <2>1 DEF OverTheWire
<1>9. o.value.kind # "number" => wire = 0
  BY DEF OverTheWire
<1> HIDE DEF band, wire
<1>10. c.tone \in MarkedZones(c) \/ NoNumber(o)
  <2>1. SUFFICES ASSUME ~NoNumber(o) PROVE c.tone \in MarkedZones(c)
    OBVIOUS
  <2>2. c.tone \in DOMAIN c.zones
    BY <1>4, <1>5
  <2>3. c.zones[c.tone][1] <= c.position /\ c.position <= c.zones[c.tone][2]
    <3>1. CASE o.value.kind = "number" /\ o.value.value > -2220000
      BY <1>2, <1>4, <1>5, <1>6, <1>8, <3>1
    <3>2. CASE o.value.kind = "number" /\ ~(o.value.value > -2220000)
      BY <1>2, <1>4, <1>5, <1>6, <1>8, <3>2
    <3>3. CASE o.value.kind = "+inf"
      BY <1>2, <1>4, <1>5, <1>6, <1>9, <3>3
    <3>4. QED
      BY <1>2, <2>1, <3>1, <3>2, <3>3 DEF NoNumber
  <2>4. QED
    BY <2>2, <2>3 DEF MarkedZones
<1>11. c.tone \in Alarming <=> o.classification = "likely-manipulator"
  BY <1>4, <1>5 DEF Alarming
<1>12. QED
  BY <1>4, <1>7, <1>10, <1>11 DEF o, c

(* The bars light up as the passed checks stand first. *)
LEMMA ChecksCounted ==
  ASSUME NEW signals \in [Nine -> BOOLEAN]
  PROVE  [i \in 1 .. 9 |-> i <= Cardinality(Passed(signals))] = PiotroskiChecks(signals)
<1> DEFINE o == PiotroskiOrder
           yes == {i \in DOMAIN o : signals[o[i]] = TRUE}
           no == {i \in DOMAIN o : signals[o[i]] = FALSE}
           k == Cardinality(yes)
           first == [i \in DOMAIN Picked(o, yes) |-> TRUE]
           second == [i \in DOMAIN Picked(o, no) |-> FALSE]
<1>0. o \in Seq(Nine) /\ Len(o) = 9 /\ DOMAIN o = 1 .. 9
  <2>1. \A i \in 1 .. 9 : o[i] \in Nine
    BY DEF Nine
  <2>2. o \in Seq(Nine)
    BY <2>1 DEF PiotroskiOrder
  <2>3. Len(o) = 9 /\ DOMAIN o = 1 .. 9
    BY DEF PiotroskiOrder
  <2>4. QED
    BY <2>2, <2>3
<1>a. \A i, j \in 1 .. 9 : o[i] = o[j] => i = j
  <2>1. /\ o[1] = "positiveROA" /\ o[2] = "positiveCFO" /\ o[3] = "cfoExceedsNetIncome"
        /\ o[4] = "decreasingLeverage" /\ o[5] = "noNewShares" /\ o[6] = "improvingGrossMargin"
        /\ o[7] = "improvingROA" /\ o[8] = "improvingCurrentRatio" /\ o[9] = "improvingAssetTurnover"
    BY DEF PiotroskiOrder
  <2> HIDE DEF o
  <2>2. \A i \in 1 .. 9 : i = 1 \/ i = 2 \/ i = 3 \/ i = 4 \/ i = 5 \/ i = 6 \/ i = 7 \/ i = 8 \/ i = 9
    OBVIOUS
  <2>3. QED
    BY <2>1, <2>2
<1>b. Nine = {o[i] : i \in 1 .. 9}
  BY DEF Nine
<1>4. PiotroskiChecks(signals) = first \o second
  BY DEF PiotroskiChecks
<1> HIDE DEF o
<1>c. PICK n \in Nat : n = 9
  OBVIOUS
<1>1. o \in Seq(Nine) /\ Len(o) = n /\ DOMAIN o = 1 .. n
  BY <1>0, <1>c
<1>2. \A i, j \in 1 .. n : o[i] = o[j] => i = j
  BY <1>a, <1>c
<1>3. Nine = {o[i] : i \in 1 .. n}
  BY <1>b, <1>c
<1>5. \A i \in 1 .. n : signals[o[i]] \in BOOLEAN /\ o[i] \in Nine
  <2>1. ASSUME NEW i \in 1 .. n PROVE o[i] \in Nine
    BY <1>3
  <2>2. \A s \in Nine : signals[s] \in BOOLEAN
    OBVIOUS
  <2>3. QED
    BY <2>1, <2>2
<1>6. IsFiniteSet(1 .. n) /\ Cardinality(1 .. n) = n
  BY FS_Interval
<1>7. yes \in SUBSET (1 .. n) /\ no \in SUBSET (1 .. n) /\ yes \cup no = 1 .. n /\ yes \cap no = {}
  BY <1>1, <1>5
<1>8. IsFiniteSet(yes) /\ IsFiniteSet(no)
  BY <1>6, <1>7, FS_Subset
<1>9. k \in Nat /\ Cardinality(no) \in Nat /\ k + Cardinality(no) = n
  <2> HIDE DEF yes, no
  <2>1. Cardinality(yes \cup no) = Cardinality(yes) + Cardinality(no) - Cardinality(yes \cap no)
    BY <1>8, FS_Union
  <2>2. Cardinality(yes \cap no) = 0
    BY <1>7, FS_EmptySet
  <2>3. Cardinality(yes) \in Nat /\ Cardinality(no) \in Nat
    BY <1>8, FS_CardinalityType
  <2>4. Cardinality(yes \cup no) = n
    BY <1>6, <1>7
  <2>5. PICK a \in Nat, b \in Nat : a = Cardinality(yes) /\ b = Cardinality(no)
    BY <2>3
  <2>6. n = a + b - 0
    BY <2>1, <2>2, <2>4, <2>5
  <2>7. QED
    BY <2>5, <2>6
<1>10. Cardinality(Passed(signals)) = k
  <2> DEFINE f == [i \in yes |-> o[i]]
  <2>1. f \in Bijection(yes, Passed(signals))
    <3>1. f \in [yes -> Passed(signals)]
      BY <1>5, <1>7 DEF Passed
    <3>2. \A i, j \in yes : f[i] = f[j] => i = j
      BY <1>2, <1>7
    <3>3. \A s \in Passed(signals) : \E i \in yes : f[i] = s
      <4>1. ASSUME NEW s \in Passed(signals) PROVE \E i \in yes : f[i] = s
        <5>1. s \in Nine /\ signals[s] = TRUE
          BY <4>1 DEF Passed
        <5>2. PICK i \in 1 .. n : o[i] = s
          BY <1>3, <5>1
        <5>3. QED
          BY <1>1, <5>1, <5>2
      <4>2. QED
        BY <4>1
    <3> HIDE DEF f, yes
    <3>4. f \in Injection(yes, Passed(signals))
      BY <3>1, <3>2 DEF Injection, IsInjective
    <3>5. f \in Surjection(yes, Passed(signals))
      BY <3>1, <3>3 DEF Surjection
    <3>6. QED
      BY <3>4, <3>5 DEF Bijection
  <2>2. ExistsBijection(yes, Passed(signals))
    BY <2>1 DEF ExistsBijection
  <2> HIDE DEF yes, f
  <2>3. QED
    BY <1>8, <2>2, FS_Bijection
<1>11. DOMAIN Picked(o, yes) = 1 .. k /\ DOMAIN Picked(o, no) = 1 .. Cardinality(no)
  <2>1. yes \in SUBSET DOMAIN o /\ no \in SUBSET DOMAIN o
    BY <1>1, <1>7
  <2> HIDE DEF yes, no
  <2>2. /\ Picked(o, yes) \in Seq(Nine) /\ Len(Picked(o, yes)) = Cardinality(yes)
        /\ Picked(o, no) \in Seq(Nine) /\ Len(Picked(o, no)) = Cardinality(no)
    BY <1>1, <2>1, PickedPlaces
  <2>3. QED
    BY <2>2
<1> HIDE DEF yes, no
<1>12. PICK m \in Nat : m = Cardinality(no) /\ k + m = n
  BY <1>9
<1> HIDE DEF k
<1>13. first = [i \in 1 .. k |-> TRUE] /\ second = [i \in 1 .. m |-> FALSE]
  BY <1>11, <1>12
<1> HIDE DEF first, second
<1>14. first \in Seq(BOOLEAN) /\ Len(first) = k /\ second \in Seq(BOOLEAN) /\ Len(second) = m
  BY <1>9, <1>13
<1>15. /\ first \o second \in Seq(BOOLEAN) /\ Len(first \o second) = k + m
       /\ \A i \in 1 .. (k + m) : (first \o second)[i] = IF i <= k THEN first[i] ELSE second[i - k]
  BY <1>14, ConcatProperties
<1> DEFINE all == first \o second
<1>16. all = [i \in 1 .. n |-> all[i]]
  <2> HIDE DEF all
  <2>1. all \in Seq(BOOLEAN) /\ Len(all) = n
    BY <1>12, <1>15 DEF all
  <2>2. QED
    BY <2>1
<1>17. ASSUME NEW i \in 1 .. n PROVE all[i] = (i <= k)
  <2>1. all[i] = IF i <= k THEN first[i] ELSE second[i - k]
    BY <1>12, <1>15
  <2> HIDE DEF all
  <2>2. CASE i <= k
    <3>1. all[i] = TRUE
      BY <1>9, <1>13, <2>1, <2>2
    <3>2. QED
      BY <2>2, <3>1
  <2>3. CASE ~(i <= k)
    <3>1. i - k \in 1 .. m
      BY <1>9, <1>12, <2>3
    <3>2. second[i - k] = FALSE
      BY <1>13, <3>1
    <3>3. all[i] = FALSE
      BY <2>1, <2>3, <3>2
    <3>4. (i <= k) = FALSE
      BY <1>9, <2>3
    <3>5. QED
      BY <3>3, <3>4
  <2>4. QED
    BY <2>2, <2>3
<1> HIDE DEF all
<1>18. [i \in 1 .. n |-> i <= k] = all
  BY <1>16, <1>17
<1>19. QED
  BY <1>4, <1>10, <1>18, <1>c DEF all

LEMMA PiotroskiTold ==
  ASSUME NEW scores, WellPiotroski(scores["piotroskiF"]), IsScored(scores["piotroskiF"])
  PROVE  LET o == scores["piotroskiF"]
             c == Card(scores, "piotroskiF")
         IN /\ c.tone = RatingChip("piotroskiF", RatingSummary(o))
            /\ c.tone \in Alarming <=> o.classification = "low-quality"
            /\ c.bars = c.checks
<1> DEFINE o == scores["piotroskiF"]
           c == Card(scores, "piotroskiF")
<1>1. o.status = "ok"
  BY DEF IsScored
<1>2. /\ o.signals \in [Nine -> BOOLEAN] /\ o.value = Cardinality(Passed(o.signals))
      /\ o.classification \in Qualities
  BY <1>1 DEF WellPiotroski, Unavailable
<1>3. c = PiotroskiCard(o)
  BY DEF Card
<1> HIDE DEF o, c
<1>4. /\ c.tone = PiotroskiBand(o.classification).tone
      /\ c.bars = [i \in 1 .. 9 |-> i <= o.value] /\ c.checks = PiotroskiChecks(o.signals)
  BY <1>3 DEF PiotroskiCard
<1>5. c.bars = c.checks
  BY <1>2, <1>4, ChecksCounted
<1>6. RatingChip("piotroskiF", RatingSummary(o)) = PiotroskiBand(o.classification).tone
  <2>1. RatingSummary(o).classification = o.classification
    BY <1>1 DEF RatingSummary, IsScored
  <2>2. RatingChip("piotroskiF", RatingSummary(o)) = PiotroskiBand(RatingSummary(o).classification).tone
    BY DEF RatingChip
  <2>3. QED
    BY <2>1, <2>2
<1>7. c.tone \in Alarming <=> o.classification = "low-quality"
  BY <1>2, <1>4 DEF PiotroskiBand, Alarming, Qualities
<1>8. QED
  BY <1>4, <1>5, <1>6, <1>7 DEF o, c

LEMMA UnscoredTold ==
  ASSUME NEW scores, NEW s, ~IsScored(scores[s])
  PROVE  Card(scores, s).tone \notin Alarming
<1>1. Card(scores, s) = UnscoredCard(scores[s])
  BY DEF Card
<1>2. QED
  BY <1>1 DEF UnscoredCard, Alarming

LEMMA VerdictsTold ==
  ASSUME NEW scores, Well(scores), NEW isFinancial \in BOOLEAN
  PROVE  VerdictsAgree(scores, isFinancial)
<1> DEFINE ratings == [s \in ScoreNames |-> RatingSummary(scores[s])]
           scored == {s \in ScoreNames : IsScored(scores[s])}
           alarming == {s \in ScoreNames : Card(scores, s).tone \in Alarming}
           Concern(s) == CASE s = "altmanZ" -> scores[s].classification # "safe"
                           [] s = "piotroskiF" -> scores[s].classification = "low-quality"
                           [] s = "beneishM" -> scores[s].classification = "likely-manipulator"
           grave == {s \in scored : Concern(s)}
<1>1. WellAltman(scores["altmanZ"]) /\ WellPiotroski(scores["piotroskiF"]) /\ WellBeneish(scores["beneishM"])
  BY DEF Well
<1>2. ScoreNames = {"altmanZ", "piotroskiF", "beneishM"}
  BY DEF ScoreNames
<1>3. \A s \in scored : /\ Card(scores, s).tone = RatingChip(s, RatingSummary(scores[s]))
                        /\ Card(scores, s).tone \in Alarming <=> Concern(s)
  <2>1. ASSUME IsScored(scores["altmanZ"])
        PROVE  /\ Card(scores, "altmanZ").tone = RatingChip("altmanZ", RatingSummary(scores["altmanZ"]))
               /\ Card(scores, "altmanZ").tone \in Alarming <=> Concern("altmanZ")
    BY <1>1, <2>1, AltmanTold
  <2>2. ASSUME IsScored(scores["piotroskiF"])
        PROVE  /\ Card(scores, "piotroskiF").tone = RatingChip("piotroskiF", RatingSummary(scores["piotroskiF"]))
               /\ Card(scores, "piotroskiF").tone \in Alarming <=> Concern("piotroskiF")
    BY <1>1, <2>2, PiotroskiTold
  <2>3. ASSUME IsScored(scores["beneishM"])
        PROVE  /\ Card(scores, "beneishM").tone = RatingChip("beneishM", RatingSummary(scores["beneishM"]))
               /\ Card(scores, "beneishM").tone \in Alarming <=> Concern("beneishM")
    BY <1>1, <2>3, BeneishTold
  <2> HIDE DEF Concern
  <2>4. QED
    BY <1>2, <2>1, <2>2, <2>3
<1>4. alarming = grave
  <2> HIDE DEF Concern
  <2>1. QED
    BY <1>3, UnscoredTold
<1>5. \A s \in scored : RatingChip(s, ratings[s]) = Card(scores, s).tone
  BY <1>3
<1>6. ASSUME NEW s \in ScoreNames
      PROVE  /\ IsScored(ratings[s]) <=> s \in scored
             /\ s \in scored => ratings[s].classification = scores[s].classification
  BY DEF RatingSummary, IsScored
<1>7. HasConcern(ratings) <=> grave # {}
  <2>1. HasConcern(ratings) <=>
          \/ "altmanZ" \in scored /\ Concern("altmanZ")
          \/ "piotroskiF" \in scored /\ Concern("piotroskiF")
          \/ "beneishM" \in scored /\ Concern("beneishM")
    <3>1. /\ "altmanZ" \in ScoreNames /\ "piotroskiF" \in ScoreNames /\ "beneishM" \in ScoreNames
      BY <1>2
    <3>2. /\ Concern("altmanZ") <=> scores["altmanZ"].classification # "safe"
          /\ Concern("piotroskiF") <=> scores["piotroskiF"].classification = "low-quality"
          /\ Concern("beneishM") <=> scores["beneishM"].classification = "likely-manipulator"
      OBVIOUS
    <3> HIDE DEF Concern, scored, ratings
    <3>3. QED
      BY <1>6, <3>1, <3>2 DEF HasConcern
  <2> HIDE DEF Concern, ratings
  <2>2. QED
    BY <1>2, <2>1
<1>8. Summarize(scores).but = grave
  <2> DEFINE Reads(s) == CASE s = "altmanZ" -> scores[s].classification = "safe"
                           [] s = "piotroskiF" -> scores[s].classification # "low-quality"
                           [] s = "beneishM" -> scores[s].classification # "likely-manipulator"
  <2>1. Clauses(scores) = [s \in scored |-> Reads(s)]
    BY DEF Clauses
  <2>2. \A s \in scored : ~Reads(s) <=> Concern(s)
    BY <1>2
  <2> HIDE DEF Reads, Concern, scored
  <2>3. Summarize(scores).but = {s \in scored : ~Reads(s)}
    BY <2>1 DEF Summarize
  <2>4. QED
    BY <2>2, <2>3
<1>9. DOMAIN Clauses(scores) = scored
  BY DEF Clauses
<1>10. ScoredCount(ratings) \in Nat /\ (ScoredCount(ratings) = 0 <=> scored = {})
  <2>1. {s \in ScoreNames : IsScored(ratings[s])} = scored
    BY <1>6
  <2>2. IsFiniteSet(ScoreNames)
    <3>1. IsFiniteSet({"altmanZ"}) /\ IsFiniteSet({"piotroskiF"}) /\ IsFiniteSet({"beneishM"})
      BY FS_Singleton
    <3>2. IsFiniteSet({"altmanZ"} \cup {"piotroskiF"})
      BY <3>1, FS_Union
    <3>3. IsFiniteSet(({"altmanZ"} \cup {"piotroskiF"}) \cup {"beneishM"})
      BY <3>1, <3>2, FS_Union
    <3>4. ScoreNames = ({"altmanZ"} \cup {"piotroskiF"}) \cup {"beneishM"}
      BY <1>2
    <3>5. QED
      BY <3>3, <3>4
  <2>3. scored \in SUBSET ScoreNames
    OBVIOUS
  <2> HIDE DEF scored, ratings
  <2>4. IsFiniteSet(scored)
    BY <2>2, <2>3, FS_Subset
  <2>5. Cardinality(scored) \in Nat /\ (Cardinality(scored) = 0 <=> scored = {})
    BY <2>4, FS_CardinalityType, FS_EmptySet
  <2>6. QED
    BY <2>1, <2>5 DEF ScoredCount
<1>11. HasSummary(scores) <=> ScoredCount(ratings) > 0
  BY <1>9, <1>10 DEF HasSummary
<1>12. RowSaysBank(ratings, isFinancial) <=> ShowsNotice(scores, isFinancial)
  BY <1>10 DEF RowSaysBank, ShowsNotice
<1>13. \A s \in scored \ {"piotroskiF"} :
         \/ Card(scores, s).tone \in MarkedZones(Card(scores, s))
         \/ s = "beneishM" /\ NoNumber(scores[s])
  <2>1. IsScored(scores["altmanZ"]) => Card(scores, "altmanZ").tone \in MarkedZones(Card(scores, "altmanZ"))
    BY <1>1, AltmanTold
  <2>2. IsScored(scores["beneishM"]) => \/ Card(scores, "beneishM").tone \in MarkedZones(Card(scores, "beneishM"))
                                        \/ NoNumber(scores["beneishM"])
    BY <1>1, BeneishTold
  <2>3. QED
    BY <1>2, <2>1, <2>2
<1>14. "piotroskiF" \in scored => Card(scores, "piotroskiF").bars = Card(scores, "piotroskiF").checks
  BY <1>1, PiotroskiTold
<1> HIDE DEF Concern
<1>15. QED
  BY <1>4, <1>5, <1>7, <1>8, <1>11, <1>12, <1>13, <1>14 DEF VerdictsAgree

(* The list and the company's page tell one story of any figures of two
   years: the same colours, the same concerns, a marker in the zone it is
   named for and bars that count the passed checks. *)
THEOREM VerdictsAlwaysAgree == ReadSpec => []VerdictsTellOneStory
<1>1. ASSUME TriedIsCase PROVE VerdictsTellOneStory
  <2> SUFFICES ASSUME Tried("verdicts") PROVE VerdictsTellOneStory
    BY DEF VerdictsTellOneStory
  <2> DEFINE Told(s) == CASE s \in case.missing -> Unscored([reason |-> "no-common-year"])
                          [] s \notin case.missing /\ s = "altmanZ" -> Altman(case.now)
                          [] s \notin case.missing /\ s = "piotroskiF" -> Piotroski(case.now, case.before)
                          [] s \notin case.missing /\ s = "beneishM" -> Beneish(case.now, case.before)
             scores == [s \in ScoreNames |-> Told(s)]
  <2>1. case \in VerdictCases
    BY <1>1 DEF Tried, TriedIsCase, CasesOf
  <2>2. case \in [now : [Reported -> Int], before : [Reported -> Int], missing : SUBSET ScoreNames, financial : BOOLEAN]
    BY <2>1, CaseAssumption
  <2>3. case.now \in [Reported -> Int] /\ case.before \in [Reported -> Int] /\ case.financial \in BOOLEAN
    BY <2>2
  <2>4. Unavailable(Unscored([reason |-> "no-common-year"]))
    BY DEF Unscored, Unavailable
  <2>5. WellAltman(Told("altmanZ"))
    <3>1. Told("altmanZ") = Unscored([reason |-> "no-common-year"]) \/ Told("altmanZ") = Altman(case.now)
      OBVIOUS
    <3> HIDE DEF Told
    <3>2. WellAltman(Altman(case.now))
      BY <2>3, AltmanIsWell
    <3>3. \A o : Unavailable(o) => WellAltman(o)
      BY DEF WellAltman
    <3>4. QED
      BY <2>4, <3>1, <3>2, <3>3
  <2>6. WellPiotroski(Told("piotroskiF"))
    <3>1. Told("piotroskiF") = Unscored([reason |-> "no-common-year"]) \/ Told("piotroskiF") = Piotroski(case.now, case.before)
      OBVIOUS
    <3> HIDE DEF Told
    <3>2. WellPiotroski(Piotroski(case.now, case.before))
      BY <2>3, PiotroskiIsWell
    <3>3. \A o : Unavailable(o) => WellPiotroski(o)
      BY DEF WellPiotroski
    <3>4. QED
      BY <2>4, <3>1, <3>2, <3>3
  <2>7. WellBeneish(Told("beneishM"))
    <3>1. Told("beneishM") = Unscored([reason |-> "no-common-year"]) \/ Told("beneishM") = Beneish(case.now, case.before)
      OBVIOUS
    <3> HIDE DEF Told
    <3>2. WellBeneish(Beneish(case.now, case.before))
      BY <2>3, BeneishIsWell
    <3>3. \A o : Unavailable(o) => WellBeneish(o)
      BY DEF WellBeneish
    <3>4. QED
      BY <2>4, <3>1, <3>2, <3>3
  <2> HIDE DEF Told
  <2>8. Well(scores)
    BY <2>5, <2>6, <2>7 DEF Well, ScoreNames
  <2>9. VerdictsAgree(scores, case.financial)
    BY <2>3, <2>8, VerdictsTold
  <2>10. QED
    BY <2>9 DEF VerdictsTellOneStory, Told
<1>2. QED
  BY <1>1, TriedAreCases, PTL

-----------------------------------------------------------------------------
(* The comparison of two years *)

ChunkType == [text : Texts, status : Statuses, match : Nat]

LEMMA BestMatchIsFirst ==
  ASSUME NEW text \in Texts, NEW old \in Seq(Texts)
  PROVE  LET b == BestMatch(text, old)
         IN /\ b \in 0 .. Len(old) /\ (b = 0 <=> old = <<>>)
            /\ b # 0 => \A k \in DOMAIN old : Similarity(text, old[k]) <= Similarity(text, old[b])
            /\ \A k \in 1 .. (b - 1) : Similarity(text, old[k]) < Similarity(text, old[b])
<1> DEFINE sim == [j \in DOMAIN old |-> Similarity(text, old[j])]
           best == {j \in DOMAIN old : \A k \in DOMAIN old : sim[k] <= sim[j]}
           b == BestMatch(text, old)
<1>1. PICK n \in Nat : n = Len(old) /\ DOMAIN old = 1 .. n /\ (n = 0 <=> old = <<>>)
  BY EmptySeq
<1>2. \A j \in 1 .. n : sim[j] = Similarity(text, old[j]) /\ sim[j] \in Int
  <2>1. ASSUME NEW j \in 1 .. n PROVE Similarity(text, old[j]) \in Int
    BY <1>1, SimilarityAssumption
  <2>2. QED
    BY <1>1, <2>1
<1>3. best = {j \in DOMAIN old : \A k \in DOMAIN old : Similarity(text, old[k]) <= Similarity(text, old[j])}
  BY <1>1, <1>2
<1>4. b = IF best = {} THEN 0 ELSE Min(best)
  BY <1>3 DEF BestMatch
<1> HIDE DEF sim, b
<1>5. n # 0 => best # {}
  <2>1. ASSUME n # 0 PROVE \E j \in 1 .. n : \A k \in 1 .. n : sim[k] <= sim[j]
    <3>1. IsFiniteSet(1 .. n)
      BY FS_Interval
    <3>2. 1 \in 1 .. n
      BY <2>1
    <3>3. Integral(sim, 1 .. n)
      BY <1>2 DEF Integral
    <3>4. QED
      BY <3>1, <3>2, <3>3, Highest
  <2>2. QED
    BY <1>1, <2>1
<1>6. best \in SUBSET (1 .. n) /\ best \in SUBSET Nat
  BY <1>1
<1>7. best # {} => b \in best /\ \A j \in best : b <= j
  BY <1>4, <1>6, LeastMember
<1>8. n = 0 => best = {}
  BY <1>6
<1>9. b \in 0 .. n /\ (b = 0 <=> n = 0)
  <2> HIDE DEF best
  <2>1. CASE best = {}
    BY <1>4, <1>5, <2>1
  <2>2. CASE best # {}
    <3>1. b \in 1 .. n
      BY <1>6, <1>7, <2>2
    <3>2. QED
      BY <3>1
  <2>3. QED
    BY <2>1, <2>2
<1>10. b # 0 => \A k \in 1 .. n : sim[k] <= sim[b]
  BY <1>1, <1>4, <1>7
<1>11. ASSUME NEW k \in 1 .. (b - 1) PROVE sim[k] < sim[b]
  <2>1. k \in 1 .. n /\ k < b /\ b # 0 /\ b \in 1 .. n
    BY <1>9
  <2>2. k \notin best
    <3> HIDE DEF best
    <3>1. best # {}
      BY <1>4, <2>1
    <3>2. QED
      BY <1>7, <2>1, <3>1
  <2>3. PICK l \in 1 .. n : ~(sim[l] <= sim[k])
    BY <1>1, <2>1, <2>2
  <2>4. sim[l] <= sim[b] /\ sim[l] \in Int /\ sim[k] \in Int /\ sim[b] \in Int
    BY <1>2, <1>10, <2>1
  <2>5. QED
    BY <2>3, <2>4
<1>12. \A k \in 1 .. (b - 1) : k \in 1 .. n /\ b \in 1 .. n
  BY <1>9
<1>13. QED
  BY <1>1, <1>2, <1>9, <1>10, <1>11, <1>12 DEF b

LEMMA ClassifiedByTheNearest ==
  ASSUME NEW text \in Texts, NEW old \in Seq(Texts)
  PROVE  LET c == Classified(text, old)
             Near(threshold) == \E j \in DOMAIN old : Similarity(text, old[j]) >= threshold
         IN /\ c \in ChunkType /\ c.text = text /\ c.status # "removed"
            /\ c.status = "new" <=> ~Near(ModifiedThreshold)
            /\ c.status = "unchanged" <=> Near(UnchangedThreshold)
            /\ Near(ModifiedThreshold) => c.match = BestMatch(text, old)
<1> DEFINE b == BestMatch(text, old)
           c == Classified(text, old)
           Near(threshold) == \E j \in DOMAIN old : Similarity(text, old[j]) >= threshold
<1>1. PICK n \in Nat : n = Len(old) /\ DOMAIN old = 1 .. n /\ (n = 0 <=> old = <<>>)
  BY EmptySeq
<1>2. /\ b \in 0 .. n /\ (b = 0 <=> n = 0)
      /\ b # 0 => \A k \in 1 .. n : Similarity(text, old[k]) <= Similarity(text, old[b])
  BY <1>1, BestMatchIsFirst
<1>3. \A j \in 1 .. n : Similarity(text, old[j]) \in Int
  BY <1>1, SimilarityAssumption
<1> DEFINE score == IF b = 0 THEN -1 ELSE Similarity(text, old[b])
<1>4. c = IF score < 60 THEN [text |-> text, status |-> "new", match |-> 0]
          ELSE [text |-> text, status |-> IF score >= 92 THEN "unchanged" ELSE "modified", match |-> b]
  BY DEF Classified, ModifiedThreshold, UnchangedThreshold
<1> HIDE DEF b, c
<1>5. score \in Int
  BY <1>2, <1>3
<1>6. ASSUME NEW threshold \in Nat PROVE Near(threshold) <=> score >= threshold
  <2>1. CASE b = 0
    BY <1>1, <1>2, <2>1
  <2>2. CASE b # 0
    <3>1. b \in 1 .. n /\ score = Similarity(text, old[b])
      BY <1>2, <2>2
    <3>2. \A k \in 1 .. n : Similarity(text, old[k]) <= score
      BY <1>2, <2>2, <3>1
    <3> HIDE DEF score
    <3>3. QED
      BY <1>1, <1>3, <1>5, <3>1, <3>2
  <2>3. QED
    BY <2>1, <2>2
<1>7. (Near(60) <=> score >= 60) /\ (Near(92) <=> score >= 92)
  <2> HIDE DEF Near, score
  <2>1. QED
    BY <1>6
<1> HIDE DEF score, Near
<1>8. c \in ChunkType /\ c.text = text /\ c.status # "removed"
  BY <1>2, <1>4 DEF ChunkType, Statuses
<1>9. (c.status = "new" <=> ~Near(60)) /\ (c.status = "unchanged" <=> Near(92)) /\ (Near(60) => c.match = b)
  BY <1>4, <1>5, <1>7
<1>10. QED
  BY <1>8, <1>9 DEF b, c, Near, ModifiedThreshold, UnchangedThreshold

(* The places of the old chunks that no new one matches. *)
Gone(old, new) == {j \in DOMAIN old : \A i \in DOMAIN new : Classified(new[i], old).match # j}

LEMMA ChunksOfTheDiff ==
  ASSUME NEW old \in Seq(Texts), NEW new \in Seq(Texts)
  PROVE  LET d == DiffChunks(old, new)
             gone == Gone(old, new)
         IN /\ d \in Seq(ChunkType) /\ Len(d) = Len(new) + Cardinality(gone) /\ Cardinality(gone) \in Nat
            /\ \A i \in DOMAIN new : d[i] = Classified(new[i], old)
            /\ \A i \in (Len(new) + 1) .. Len(d) : d[i].status = "removed" /\ d[i].match \in gone
            /\ \A j \in gone : \E i \in (Len(new) + 1) .. Len(d) : d[i].match = j
<1> DEFINE kept == [i \in DOMAIN new |-> Classified(new[i], old)]
           gone == Gone(old, new)
           unmatched == Ascending(gone)
           lost == [k \in DOMAIN unmatched |->
                      [text |-> old[unmatched[k]], status |-> "removed", match |-> unmatched[k]]]
           d == DiffChunks(old, new)
<1>1. PICK n \in Nat : n = Len(new) /\ DOMAIN new = 1 .. n
  BY EmptySeq
<1>2. PICK m \in Nat : m = Len(old) /\ DOMAIN old = 1 .. m
  BY EmptySeq
<1>3. d = kept \o lost
  <2>1. {j \in DOMAIN old : \A i \in DOMAIN kept : kept[i].match # j} = gone
    BY DEF Gone
  <2> DEFINE inside == {j \in DOMAIN old : \A i \in DOMAIN kept : kept[i].match # j}
             L(S) == [k \in DOMAIN Ascending(S) |->
                        [text |-> old[Ascending(S)[k]], status |-> "removed", match |-> Ascending(S)[k]]]
  <2>2. d = kept \o L(inside)
    BY DEF DiffChunks
  <2>3. lost = L(gone)
    OBVIOUS
  <2> HIDE DEF L, lost, kept, d
  <2>4. inside = gone
    BY <2>1 DEF kept
  <2> HIDE DEF inside, gone
  <2>5. QED
    BY <2>2, <2>3, <2>4
<1>4. gone \in SUBSET (1 .. m)
  BY <1>2 DEF Gone
<1> DEFINE c == Cardinality(gone)
<1>5. /\ c \in 0 .. m /\ unmatched \in [1 .. c -> gone]
      /\ \A x \in gone : \E i \in 1 .. c : unmatched[i] = x
  <2> HIDE DEF gone
  <2>1. QED
    BY <1>4, AscendingLists
<1>6. \A i \in 1 .. n : Classified(new[i], old) \in ChunkType
  BY <1>1, ClassifiedByTheNearest
<1>7. kept \in Seq(ChunkType) /\ Len(kept) = n /\ \A i \in 1 .. n : kept[i] = Classified(new[i], old)
  BY <1>1, <1>6
<1> HIDE DEF kept, gone, unmatched, d
<1>8. PICK l \in Nat : l = c
  BY <1>5
<1>9. lost = [k \in 1 .. l |-> [text |-> old[unmatched[k]], status |-> "removed", match |-> unmatched[k]]]
  BY <1>5, <1>8
<1>10. \A k \in 1 .. l : unmatched[k] \in gone /\ unmatched[k] \in 1 .. m
  BY <1>4, <1>5, <1>8
<1> HIDE DEF lost, c
<1>11. \A k \in 1 .. l : [text |-> old[unmatched[k]], status |-> "removed", match |-> unmatched[k]] \in ChunkType
  <2>1. ASSUME NEW k \in 1 .. l PROVE old[unmatched[k]] \in Texts /\ unmatched[k] \in Nat
    BY <1>2, <1>10
  <2>2. QED
    BY <2>1 DEF ChunkType, Statuses
<1>12. /\ lost \in Seq(ChunkType) /\ Len(lost) = l
       /\ \A k \in 1 .. l : lost[k].status = "removed" /\ lost[k].match = unmatched[k]
  BY <1>9, <1>11
<1>13. /\ d \in Seq(ChunkType) /\ Len(d) = n + l
       /\ \A i \in 1 .. (n + l) : d[i] = IF i <= n THEN kept[i] ELSE lost[i - n]
  BY <1>3, <1>7, <1>12, ConcatProperties
<1>14. \A i \in DOMAIN new : d[i] = Classified(new[i], old)
  BY <1>1, <1>7, <1>13
<1>15. ASSUME NEW i \in (n + 1) .. (n + l) PROVE d[i].status = "removed" /\ d[i].match \in gone
  <2>1. d[i] = lost[i - n] /\ i - n \in 1 .. l
    BY <1>13
  <2>2. QED
    BY <1>10, <1>12, <2>1
<1>16. ASSUME NEW j \in gone PROVE \E i \in (n + 1) .. (n + l) : d[i].match = j
  <2>1. PICK k \in 1 .. l : unmatched[k] = j
    BY <1>5, <1>8
  <2>2. n + k \in (n + 1) .. (n + l) /\ d[n + k] = lost[k]
    <3>1. n + k \in 1 .. (n + l) /\ ~(n + k <= n) /\ (n + k) - n = k
      OBVIOUS
    <3>2. QED
      BY <1>13, <3>1
  <2>3. d[n + k].match = j
    BY <1>12, <2>1, <2>2
  <2>4. QED
    BY <2>2, <2>3
<1>17. Cardinality(gone) = l
  BY <1>8 DEF c
<1>18. QED
  BY <1>1, <1>13, <1>14, <1>15, <1>16, <1>17 DEF gone, d

(* The summary's fold counts. *)
LEMMA SummaryCounts ==
  ASSUME NEW chunks \in Seq(ChunkType), NEW s \in Statuses
  PROVE  Summary(chunks)[s] = Cardinality({i \in DOMAIN chunks : chunks[i].status = s})
<1>1. PICK n \in Nat : n = Len(chunks) /\ DOMAIN chunks = 1 .. n
  BY EmptySeq
<1> DEFINE D == 1 .. n
           Of(T) == {i \in T : chunks[i].status = s}
           Body(i) == [T \in SUBSET D |-> IF T = {} THEN 0
                         ELSE IF chunks[Max(T)].status = s THEN i[T \ {Max(T)}] + 1 ELSE i[T \ {Max(T)}]]
           iter == CHOOSE i : i = Body(i)
           h == [T \in SUBSET D |-> Cardinality(Of(T))]
<1>2. Summary(chunks)[s] = iter[D]
  BY <1>1 DEF Summary, FoldLeft, MapThenFoldSet
<1>3. IsFiniteSet(D)
  BY FS_Interval
<1>4. ASSUME NEW T \in SUBSET D PROVE IsFiniteSet(Of(T)) /\ Cardinality(Of(T)) \in Nat
  <2>1. Of(T) \in SUBSET D
    OBVIOUS
  <2> HIDE DEF Of, D
  <2>2. QED
    BY <1>3, <2>1, FS_Subset, FS_CardinalityType
<1>5. ASSUME NEW T \in SUBSET D, T # {} PROVE Max(T) \in T
  <2>1. T \in SUBSET (0 .. n)
    OBVIOUS
  <2>2. QED
    BY <1>5, <2>1, Greatest
<1>6. Cardinality(Of({})) = 0
  <2>1. Of({}) = {}
    OBVIOUS
  <2> HIDE DEF Of
  <2>2. QED
    BY <2>1, FS_EmptySet
<1>7. ASSUME NEW T \in SUBSET D, NEW x \in T
      PROVE  Cardinality(Of(T)) = IF chunks[x].status = s THEN Cardinality(Of(T \ {x})) + 1 ELSE Cardinality(Of(T \ {x}))
  <2>1. Of(T) = IF chunks[x].status = s THEN Of(T \ {x}) \cup {x} ELSE Of(T \ {x})
    OBVIOUS
  <2>2. x \notin Of(T \ {x}) /\ T \ {x} \in SUBSET D
    OBVIOUS
  <2>3. IsFiniteSet(Of(T \ {x}))
    BY <1>4, <2>2
  <2> HIDE DEF Of
  <2>4. Cardinality(Of(T \ {x}) \cup {x}) = Cardinality(Of(T \ {x})) + 1
    BY <2>2, <2>3, FS_AddElement
  <2>5. QED
    BY <2>1, <2>4
<1> HIDE DEF Of, D
<1>8. ASSUME NEW T \in SUBSET D PROVE h[T] = IF T = {} THEN 0
                         ELSE IF chunks[Max(T)].status = s THEN h[T \ {Max(T)}] + 1 ELSE h[T \ {Max(T)}]
  <2>1. CASE T = {}
    BY <1>6, <2>1
  <2>2. CASE T # {}
    <3>1. Max(T) \in T /\ T \ {Max(T)} \in SUBSET D
      BY <1>5, <2>2
    <3>2. h[T] = Cardinality(Of(T)) /\ h[T \ {Max(T)}] = Cardinality(Of(T \ {Max(T)}))
      BY <3>1
    <3> HIDE DEF h
    <3>3. QED
      BY <1>7, <2>2, <3>1, <3>2
  <2>3. QED
    BY <2>1, <2>2
<1> HIDE DEF h
<1>9. h = Body(h)
  <2>1. h = [T \in SUBSET D |-> h[T]]
    BY DEF h
  <2>2. QED
    BY <1>8, <2>1
<1>10. iter = Body(iter)
  <2> HIDE DEF Body
  <2>1. QED
    BY <1>9
<1>11. \A T \in SUBSET D : iter[T] = IF T = {} THEN 0
                         ELSE IF chunks[Max(T)].status = s THEN iter[T \ {Max(T)}] + 1 ELSE iter[T \ {Max(T)}]
  BY <1>10
<1> DEFINE Good == {T \in SUBSET D : iter[T] = h[T]}
           pick == [T \in SUBSET D |-> Max(T)]
<1> HIDE DEF iter, Body
<1>12. {} \in Good
  BY <1>8, <1>11
<1>13. Picks(pick, D)
  BY <1>5 DEF Picks
<1>14. ASSUME NEW T \in SUBSET D, T # {}, T \ {pick[T]} \in Good PROVE T \in Good
  <2>1. pick[T] = Max(T)
    OBVIOUS
  <2>2. iter[T \ {Max(T)}] = h[T \ {Max(T)}]
    BY <1>14, <2>1
  <2>3. QED
    BY <1>8, <1>11, <1>14, <2>2
<1> HIDE DEF Good, pick
<1>15. \A T \in SUBSET D : T \in Good
  BY <1>3, <1>12, <1>13, <1>14, PickInduction
<1>16. iter[D] = h[D]
  BY <1>15 DEF Good
<1>17. h[D] = Cardinality(Of(D))
  BY DEF h
<1>18. QED
  BY <1>1, <1>2, <1>16, <1>17 DEF Of, D

LEMMA DiffsAccount ==
  ASSUME NEW old \in Seq(Texts), NEW new \in Seq(Texts)
  PROVE  DiffAccountsForBoth(old, new)
<1> DEFINE diff == DiffRiskFactorTexts(old, new)
           d == diff.chunks
           Of(s) == {i \in DOMAIN d : d[i].status = s}
           near(i, threshold) == \E j \in DOMAIN old : Similarity(new[i], old[j]) >= threshold
           removed == {d[i].match : i \in Of("removed")}
           gone == Gone(old, new)
<1>1. PICK n \in Nat : n = Len(new) /\ DOMAIN new = 1 .. n
  BY EmptySeq
<1>2. PICK m \in Nat : m = Len(old) /\ DOMAIN old = 1 .. m
  BY EmptySeq
<1>3. d = DiffChunks(old, new) /\ diff.summary = Summary(d)
  BY DEF DiffRiskFactorTexts
<1>a. /\ d \in Seq(ChunkType) /\ Len(d) = Len(new) + Cardinality(gone) /\ Cardinality(gone) \in Nat
      /\ \A i \in DOMAIN new : d[i] = Classified(new[i], old)
      /\ \A i \in (Len(new) + 1) .. Len(d) : d[i].status = "removed" /\ d[i].match \in gone
      /\ \A j \in gone : \E i \in (Len(new) + 1) .. Len(d) : d[i].match = j
  <2> HIDE DEF d
  <2>1. QED
    BY <1>3, ChunksOfTheDiff
<1> HIDE DEF gone, diff
<1>4. /\ d \in Seq(ChunkType) /\ Len(d) = n + Cardinality(gone) /\ Cardinality(gone) \in Nat
      /\ \A i \in 1 .. n : d[i] = Classified(new[i], old)
      /\ \A i \in (n + 1) .. Len(d) : d[i].status = "removed" /\ d[i].match \in gone
      /\ \A j \in gone : \E i \in (n + 1) .. Len(d) : d[i].match = j
  BY <1>1, <1>a
<1> HIDE DEF d
<1>5. PICK l \in Nat : Len(d) = l /\ DOMAIN d = 1 .. l /\ n <= l
  BY <1>4
<1>6. ASSUME NEW i \in 1 .. n
      PROVE  LET c == Classified(new[i], old)
             IN /\ d[i] = c /\ c.text = new[i] /\ c.status # "removed"
                /\ c.status = "new" <=> ~near(i, ModifiedThreshold)
                /\ c.status = "unchanged" <=> near(i, UnchangedThreshold)
                /\ near(i, ModifiedThreshold) => c.match = BestMatch(new[i], old)
  <2>1. new[i] \in Texts
    BY <1>1
  <2>2. QED
    BY <1>4, <2>1, ClassifiedByTheNearest
<1>7. Of("removed") = DOMAIN d \ DOMAIN new
  <2>1. ASSUME NEW i \in 1 .. l PROVE d[i].status = "removed" <=> i > n
    <3>1. CASE i <= n
      <4>1. i \in 1 .. n
        BY <3>1
      <4>2. d[i].status # "removed"
        BY <1>6, <4>1
      <4>3. QED
        BY <3>1, <4>2
    <3>2. CASE i > n
      <4>1. i \in (n + 1) .. Len(d)
        BY <1>5, <3>2
      <4>2. QED
        BY <1>4, <3>2, <4>1
    <3>3. QED
      BY <3>1, <3>2
  <2>2. QED
    BY <1>1, <1>5, <2>1
<1>8. removed = gone
  <2>1. \A i \in Of("removed") : i \in (n + 1) .. l
    BY <1>1, <1>5, <1>7
  <2>2. \A i \in (n + 1) .. l : i \in Of("removed")
    BY <1>1, <1>5, <1>7
  <2> HIDE DEF Of, gone
  <2>3. QED
    BY <1>4, <1>5, <2>1, <2>2
<1>9. gone = DOMAIN old \ {d[i].match : i \in DOMAIN new}
  BY <1>1, <1>6 DEF gone, Gone
<1>10. ASSUME NEW j \in gone, old[j] \in ToSet(new)
       PROVE  \E k \in 1 .. (j - 1) : Similarity(old[j], old[k]) = Similarity(old[j], old[j])
  <2>1. PICK i \in 1 .. n : new[i] = old[j]
    BY <1>1, <1>10 DEF ToSet
  <2>2. j \in 1 .. m /\ old[j] \in Texts /\ Classified(new[i], old).match # j
    BY <1>1, <1>2 DEF gone, Gone
  <2> DEFINE b == BestMatch(old[j], old)
  <2>3. /\ b \in 0 .. m /\ (b = 0 <=> old = <<>>)
        /\ b # 0 => \A k \in DOMAIN old : Similarity(old[j], old[k]) <= Similarity(old[j], old[b])
        /\ \A k \in 1 .. (b - 1) : Similarity(old[j], old[k]) < Similarity(old[j], old[b])
    BY <1>2, <2>2, BestMatchIsFirst
  <2>4. Similarity(old[j], old[j]) \in Int /\ Similarity(old[j], old[j]) >= 92
    BY <2>2, SimilarityAssumption DEF UnchangedThreshold
  <2>5. near(i, 60)
    <3>1. Similarity(new[i], old[j]) >= 60
      BY <2>1, <2>4
    <3>2. QED
      BY <1>2, <2>2, <3>1
  <2>6. b # j
    BY <1>6, <2>1, <2>2, <2>5 DEF ModifiedThreshold
  <2> HIDE DEF b
  <2>7. b # 0
    BY <1>2, <2>2, <2>3
  <2>8. b \in 1 .. m /\ old[b] \in Texts
    BY <1>2, <2>3, <2>7
  <2>9. Similarity(old[j], old[b]) \in Int /\ Similarity(old[j], old[b]) <= Similarity(old[j], old[j])
    BY <2>2, <2>8, SimilarityAssumption
  <2>10. Similarity(old[j], old[j]) <= Similarity(old[j], old[b])
    BY <1>2, <2>2, <2>3, <2>7
  <2>11. Similarity(old[j], old[b]) = Similarity(old[j], old[j])
    BY <2>4, <2>9, <2>10
  <2>12. ~(j < b)
    <3>1. ASSUME j < b PROVE FALSE
      <4>1. j \in 1 .. (b - 1)
        BY <2>2, <2>8, <3>1
      <4>2. Similarity(old[j], old[j]) < Similarity(old[j], old[b])
        BY <2>3, <4>1
      <4>3. QED
        BY <2>4, <2>11, <4>2
    <3>2. QED
      BY <3>1
  <2>13. b \in 1 .. (j - 1)
    BY <2>2, <2>6, <2>8, <2>12
  <2>14. QED
    BY <2>11, <2>13
<1>11. ASSUME NEW s \in Statuses PROVE Tab(diff, s).count = Len(Tab(diff, s).list)
  <2>1. Of(s) \in SUBSET DOMAIN d
    OBVIOUS
  <2>2. Tab(diff, s).count = Summary(d)[s] /\ Tab(diff, s).list = Picked(d, Of(s))
    BY <1>3 DEF Tab, d
  <2>3. Summary(d)[s] = Cardinality(Of(s))
    BY <1>4, SummaryCounts
  <2> HIDE DEF Of
  <2>4. Len(Picked(d, Of(s))) = Cardinality(Of(s))
    BY <1>4, <2>1, PickedPlaces
  <2>5. QED
    BY <2>2, <2>3, <2>4
<1>12. \A i \in DOMAIN new : /\ d[i].text = new[i]
                             /\ i \in Of("new") <=> ~near(i, ModifiedThreshold)
                             /\ i \in Of("unchanged") <=> near(i, UnchangedThreshold)
  <2> HIDE DEF near
  <2>1. \A i \in 1 .. n : i \in 1 .. l
    BY <1>5
  <2>2. QED
    BY <1>1, <1>5, <1>6, <2>1
<1>13. /\ removed = DOMAIN old \ {d[i].match : i \in DOMAIN new}
       /\ \A j \in removed : old[j] \in ToSet(new) =>
            \E k \in 1 .. (j - 1) : Similarity(old[j], old[k]) = Similarity(old[j], old[j])
  <2> HIDE DEF removed
  <2>1. QED
    BY <1>8, <1>9, <1>10
<1>14. \A s \in Statuses : Tab(diff, s).count = Len(Tab(diff, s).list)
  BY <1>11
<1>15. QED
  BY ONLY <1>7, <1>12, <1>13, <1>14 DEF DiffAccountsForBoth, diff, d

(* A comparison of any two years' chunks, whatever their number and whichever
   are alike, tells each new chunk once by the nearest old one, matches or
   removes each old one, and its tabs count what they list. *)
THEOREM DiffsAlwaysAccount == ReadSpec => []DiffsAccountForBoth
<1>1. ASSUME TriedIsCase PROVE DiffsAccountForBoth
  <2> SUFFICES ASSUME Tried("diffs") PROVE DiffAccountsForBoth(case.old, case.new)
    BY DEF DiffsAccountForBoth
  <2>1. case \in DiffCases
    BY <1>1 DEF Tried, TriedIsCase, CasesOf
  <2>2. case \in [old : Seq(Texts), new : Seq(Texts)]
    BY <2>1, CaseAssumption
  <2>3. QED
    BY <2>2, DiffsAccount
<1>2. QED
  BY <1>1, TriedAreCases, PTL

-----------------------------------------------------------------------------
(* The year a score is of *)

OfYears(s) == DOMAIN s \subseteq Nat /\ IsFiniteSet(DOMAIN s)

LEMMA NewestOf ==
  ASSUME NEW S, S \subseteq Int, S # {}, IsFiniteSet(S)
  PROVE  Max(S) \in S /\ \A y \in S : y <= Max(S)
<1> DEFINE same == [y \in S |-> y]
<1>1. Integral(same, S)
  BY DEF Integral
<1>2. PICK m \in S : \A y \in S : same[y] <= same[m]
  BY <1>1, Highest
<1>3. \A y \in S : m >= y
  BY <1>2
<1>4. Max(S) \in S /\ \A y \in S : Max(S) >= y
  BY <1>3 DEF Max
<1>5. QED
  BY <1>4

LEMMA NewestCandidate ==
  ASSUME NEW S \in SUBSET Nat, S # {}, IsFiniteSet(S)
  PROVE  Max(S) \in S /\ (\A y \in S : y <= Max(S)) /\ Max(S) \in Nat
<1>1. S \subseteq Int
  OBVIOUS
<1>2. QED
  BY <1>1, NewestOf

LEMMA NewestYearIs ==
  ASSUME NEW s, OfYears(s)
  PROVE  /\ NewestYear(s) \in Int
         /\ \A y \in DOMAIN s : y <= NewestYear(s)
         /\ DOMAIN s # {} => NewestYear(s) \in DOMAIN s
         /\ DOMAIN s = {} => NewestYear(s) = -1
<1>1. {NoYear} \cup DOMAIN s \in SUBSET Int /\ IsFiniteSet({NoYear} \cup DOMAIN s)
  <2>1. NoYear \in Int
    BY DEF NoYear
  <2>2. IsFiniteSet({NoYear})
    BY FS_Singleton
  <2>3. IsFiniteSet({NoYear} \cup DOMAIN s)
    BY <2>2, FS_Union DEF OfYears
  <2>4. QED
    BY <2>1, <2>3 DEF OfYears
<1>2. NewestYear(s) \in {NoYear} \cup DOMAIN s /\ \A y \in {NoYear} \cup DOMAIN s : y <= NewestYear(s)
  BY <1>1, NewestOf DEF NewestYear
<1>3. NoYear = -1 /\ \A y \in DOMAIN s : y \in Nat
  BY DEF NoYear, OfYears
<1>4. ASSUME DOMAIN s # {} PROVE NewestYear(s) \in DOMAIN s
  <2>1. PICK y \in DOMAIN s : TRUE
    BY <1>4
  <2>2. QED
    BY <1>2, <1>3, <2>1
<1>5. QED
  BY <1>2, <1>3, <1>4

LEMMA CombinedYears ==
  ASSUME NEW a, NEW b, OfYears(a), OfYears(b)
  PROVE  /\ OfYears(Difference(a, b)) /\ DOMAIN Difference(a, b) = DOMAIN a \cap DOMAIN b
         /\ OfYears(Total(a, b)) /\ DOMAIN Total(a, b) = DOMAIN a \cap DOMAIN b
<1>1. IsFiniteSet(DOMAIN a \cap DOMAIN b)
  BY FS_Intersection DEF OfYears
<1>2. QED
  BY <1>1 DEF OfYears, Difference, Total

LEMMA Derivation ==
  ASSUME NEW series, NEW key, NEW combined
  PROVE  DeriveIfMissing(series, key, combined) \in {series, [series EXCEPT ![key] = combined]}
BY DEF DeriveIfMissing

(* What selectYears found, of series of finitely many years. *)
LEMMA SelectionIs ==
  ASSUME NEW series, NEW needPrior \in BOOLEAN, DOMAIN series # {}, \A k \in DOMAIN series : OfYears(series[k])
  PROVE  LET selection == SelectYears(series, needPrior)
             required == IF needPrior THEN 2 ELSE 1
             short == {k \in DOMAIN series : Cardinality(DOMAIN series[k]) < required}
             candidates == Candidates(series, needPrior)
         IN /\ \A y \in candidates : \A k \in DOMAIN series : y \in DOMAIN series[k]
            /\ candidates \in SUBSET Nat /\ IsFiniteSet(candidates)
            /\ selection.ok \in BOOLEAN
            /\ selection.ok <=> short = {} /\ candidates # {}
            /\ selection.ok => selection.year = Max(candidates)
            /\ ~selection.ok => \/ selection.reason = "missing" /\ selection.figures = short
                                \/ selection.reason = "no-common-year"
<1> DEFINE required == IF needPrior THEN 2 ELSE 1
           short == {k \in DOMAIN series : Cardinality(DOMAIN series[k]) < required}
           candidates == Candidates(series, needPrior)
<1>1. \A y \in candidates : \A k \in DOMAIN series : y \in DOMAIN series[k]
  BY DEF Candidates
<1>2. PICK k \in DOMAIN series : TRUE
  OBVIOUS
<1>3. candidates \subseteq DOMAIN series[k]
  BY <1>1, <1>2
<1>4. candidates \in SUBSET Nat /\ IsFiniteSet(candidates)
  BY <1>3, FS_Subset DEF OfYears
<1> HIDE DEF candidates
<1>5. CASE short # {}
  <2>1. \E l \in DOMAIN series : Cardinality(DOMAIN series[l]) < required
    BY <1>5
  <2>2. SelectYears(series, needPrior) = [ok |-> FALSE, reason |-> "missing", figures |-> short]
    BY <2>1 DEF SelectYears
  <2>3. QED
    BY <1>1, <1>4, <1>5, <2>2 DEF candidates
<1>6. CASE short = {} /\ candidates = {}
  <2>1. SelectYears(series, needPrior) = [ok |-> FALSE, reason |-> "no-common-year"]
    BY <1>6 DEF SelectYears, candidates
  <2>2. ~SelectYears(series, needPrior).ok /\ SelectYears(series, needPrior).ok \in BOOLEAN
    BY <2>1
  <2>3. SelectYears(series, needPrior).reason = "no-common-year"
    BY <2>1
  <2>4. QED
    BY <1>1, <1>4, <1>6, <2>2, <2>3 DEF candidates
<1>7. CASE short = {} /\ candidates # {}
  <2>1. SelectYears(series, needPrior) = [ok |-> TRUE, year |-> Max(candidates)]
    BY <1>7 DEF SelectYears, candidates
  <2>2. QED
    BY <1>1, <1>4, <1>7, <2>1 DEF candidates
<1>8. QED
  BY <1>5, <1>6, <1>7

IsSeries(values) == \A k \in Reported \cup Parts : OfYears(values[k])

Derivable == {"liabilities", "grossProfit", "sga"}

(* What a figure is derived as. *)
Derivative(values, k) ==
  CASE k = "liabilities" -> Difference(values["assets"], values["equity"])
    [] k = "grossProfit" -> Difference(values["revenue"], values["costOfRevenue"])
    [] k = "sga" -> Total(values["sellingMarketing"], values["generalAdmin"])

LEMMA Derivatives ==
  ASSUME NEW values
  PROVE  /\ Derivative(values, "liabilities") = Difference(values["assets"], values["equity"])
         /\ Derivative(values, "grossProfit") = Difference(values["revenue"], values["costOfRevenue"])
         /\ Derivative(values, "sga") = Total(values["sellingMarketing"], values["generalAdmin"])
BY DEF Derivative

LEMMA WholeIs ==
  ASSUME NEW values, NEW figures, NEW replaced
  PROVE  /\ DOMAIN Whole(values, figures, replaced) = figures
         /\ Whole(values, figures, replaced)
              = [k \in figures |-> IF k \notin replaced THEN values[k] ELSE Derivative(values, k)]
BY DEF Whole, Derivative

LEMMA WholeIsOfYears ==
  ASSUME NEW values, IsSeries(values), NEW figures \in SUBSET Reported, NEW replaced \in SUBSET Derivable
  PROVE  \A k \in figures : OfYears(Whole(values, figures, replaced)[k])
<1>1. \A k \in figures : OfYears(values[k])
  BY DEF IsSeries
<1>2. \A k \in Derivable : OfYears(Derivative(values, k))
  <2>1. /\ OfYears(values["assets"]) /\ OfYears(values["equity"]) /\ OfYears(values["revenue"])
        /\ OfYears(values["costOfRevenue"]) /\ OfYears(values["sellingMarketing"]) /\ OfYears(values["generalAdmin"])
    BY DEF IsSeries, Reported, Parts, AltmanFigures, PiotroskiFigures
  <2>2. /\ OfYears(Derivative(values, "liabilities")) /\ OfYears(Derivative(values, "grossProfit"))
        /\ OfYears(Derivative(values, "sga"))
    BY <2>1, CombinedYears, Derivatives
  <2>3. QED
    BY <2>2 DEF Derivable
<1>3. QED
  BY <1>1, <1>2, WholeIs

LEMMA OneMoreReplaced ==
  ASSUME NEW values, NEW figures, NEW replaced, NEW key \in figures,
         NEW series, series = Whole(values, figures, replaced)
  PROVE  DeriveIfMissing(series, key, Derivative(values, key))
           \in {Whole(values, figures, replaced), Whole(values, figures, replaced \cup {key})}
<1>1. [series EXCEPT ![key] = Derivative(values, key)] = Whole(values, figures, replaced \cup {key})
  BY WholeIs
<1>2. QED
  BY <1>1, Derivation

(* A score of a whole series is of its newest common year. *)
LEMMA OneYearOfIt ==
  ASSUME NEW values, IsSeries(values), NEW figures \in SUBSET Reported, figures # {},
         NEW derivable \in SUBSET Derivable, NEW replaced \in SUBSET derivable, NEW needPrior \in BOOLEAN,
         NEW series, series = Whole(values, figures, replaced)
  PROVE  LET selection == SelectYears(series, needPrior)
         IN /\ selection.ok \in BOOLEAN
            /\ selection.ok => Candidates(series, needPrior) # {} /\ selection.year = Max(Candidates(series, needPrior))
            /\ ~selection.ok /\ selection.reason = "missing" =>
                 \A k \in selection.figures : k \in figures /\ Cardinality(DOMAIN series[k]) < 2
<1>1. DOMAIN series = figures /\ \A k \in figures : OfYears(series[k])
  BY WholeIs, WholeIsOfYears
<1>2. \A k \in figures : Cardinality(DOMAIN series[k]) \in Nat
  BY <1>1, FS_CardinalityType DEF OfYears
<1>3. QED
  BY <1>1, <1>2, SelectionIs

ShortOfYears(values, k) ==
  \E replaced \in SUBSET Derivable : Cardinality(DOMAIN Whole(values, {k}, replaced)[k]) < 2

LEMMA ShortWhole ==
  ASSUME NEW values, NEW figures, NEW replaced \in SUBSET Derivable, NEW k \in figures,
         Cardinality(DOMAIN Whole(values, figures, replaced)[k]) < 2
  PROVE  ShortOfYears(values, k)
<1>1. Whole(values, {k}, replaced)[k] = Whole(values, figures, replaced)[k]
  BY WholeIs
<1>2. QED
  BY <1>1 DEF ShortOfYears

(* What the three scores read. *)
LEMMA ReadAsWhole ==
  ASSUME NEW values
  PROVE  /\ \E replaced \in SUBSET {"liabilities"} :
              DeriveLiabilities(FetchSeries(values, AltmanFigures)) = Whole(values, AltmanFigures, replaced)
         /\ \E replaced \in SUBSET {"grossProfit"} :
              DeriveGrossProfit(FetchSeries(values, PiotroskiFigures), values["costOfRevenue"])
                = Whole(values, PiotroskiFigures, replaced)
         /\ \E replaced \in SUBSET {"grossProfit", "sga"} :
              DeriveSga(DeriveGrossProfit(FetchSeries(values, BeneishFigures), values["costOfRevenue"]),
                        values["sellingMarketing"], values["generalAdmin"])
                = Whole(values, BeneishFigures, replaced)
<1>1. \A figures : FetchSeries(values, figures) = Whole(values, figures, {})
  BY WholeIs DEF FetchSeries
<1>2. /\ "assets" \in AltmanFigures /\ "equity" \in AltmanFigures /\ "liabilities" \in AltmanFigures
      /\ "revenue" \in PiotroskiFigures /\ "grossProfit" \in PiotroskiFigures
      /\ "revenue" \in BeneishFigures /\ "grossProfit" \in BeneishFigures /\ "sga" \in BeneishFigures
  BY DEF AltmanFigures, PiotroskiFigures, BeneishFigures
<1>3. \A figures : \A k \in figures : Whole(values, figures, {})[k] = values[k]
  BY WholeIs
<1>4. \E replaced \in SUBSET {"liabilities"} :
        DeriveLiabilities(FetchSeries(values, AltmanFigures)) = Whole(values, AltmanFigures, replaced)
  <2> DEFINE s == Whole(values, AltmanFigures, {})
  <2>1. DeriveLiabilities(FetchSeries(values, AltmanFigures))
          = DeriveIfMissing(s, "liabilities", Derivative(values, "liabilities"))
    BY <1>1, <1>2, <1>3, Derivatives DEF DeriveLiabilities
  <2>2. DeriveIfMissing(s, "liabilities", Derivative(values, "liabilities"))
          \in {Whole(values, AltmanFigures, {}), Whole(values, AltmanFigures, {} \cup {"liabilities"})}
    BY <1>2, OneMoreReplaced
  <2>3. QED
    BY <2>1, <2>2
<1>5. ASSUME NEW figures, "revenue" \in figures, "grossProfit" \in figures
      PROVE  DeriveGrossProfit(FetchSeries(values, figures), values["costOfRevenue"])
               \in {Whole(values, figures, {}), Whole(values, figures, {"grossProfit"})}
  <2> DEFINE s == Whole(values, figures, {})
  <2>1. DeriveGrossProfit(FetchSeries(values, figures), values["costOfRevenue"])
          = DeriveIfMissing(s, "grossProfit", Derivative(values, "grossProfit"))
    BY <1>1, <1>3, <1>5, Derivatives DEF DeriveGrossProfit
  <2>2. DeriveIfMissing(s, "grossProfit", Derivative(values, "grossProfit"))
          \in {Whole(values, figures, {}), Whole(values, figures, {} \cup {"grossProfit"})}
    BY <1>5, OneMoreReplaced
  <2>3. {} \cup {"grossProfit"} = {"grossProfit"}
    OBVIOUS
  <2>4. QED
    BY <2>1, <2>2, <2>3
<1>6. \E replaced \in SUBSET {"grossProfit", "sga"} :
        DeriveSga(DeriveGrossProfit(FetchSeries(values, BeneishFigures), values["costOfRevenue"]),
                  values["sellingMarketing"], values["generalAdmin"])
          = Whole(values, BeneishFigures, replaced)
  <2>1. PICK first \in SUBSET {"grossProfit"} :
          DeriveGrossProfit(FetchSeries(values, BeneishFigures), values["costOfRevenue"]) = Whole(values, BeneishFigures, first)
    BY <1>2, <1>5
  <2>2. DeriveIfMissing(Whole(values, BeneishFigures, first), "sga", Derivative(values, "sga"))
          \in {Whole(values, BeneishFigures, first), Whole(values, BeneishFigures, first \cup {"sga"})}
    BY <1>2, OneMoreReplaced
  <2>3. first \in SUBSET {"grossProfit", "sga"} /\ first \cup {"sga"} \in SUBSET {"grossProfit", "sga"}
    OBVIOUS
  <2>4. QED
    BY <2>1, <2>2, <2>3, Derivatives DEF DeriveSga
<1>7. QED
  BY <1>2, <1>4, <1>5, <1>6

NamesTheShort(values, outcome) ==
  outcome.status # "ok" /\ outcome.why.reason = "missing" => \A k \in outcome.why.figures : ShortOfYears(values, k)

LEMMA ReasonOfASelection ==
  ASSUME NEW values, IsSeries(values), NEW figures \in SUBSET Reported, figures # {},
         NEW replaced \in SUBSET Derivable, NEW needPrior \in BOOLEAN
  PROVE  LET selection == SelectYears(Whole(values, figures, replaced), needPrior)
         IN ~selection.ok => NamesTheShort(values, Unscored(selection)) /\ Unscored(selection).status # "ok"
<1> DEFINE series == Whole(values, figures, replaced)
           selection == SelectYears(series, needPrior)
<1> SUFFICES ASSUME ~selection.ok PROVE NamesTheShort(values, Unscored(selection)) /\ Unscored(selection).status # "ok"
  OBVIOUS
<1>1. selection.reason = "missing" => \A k \in selection.figures : k \in figures /\ Cardinality(DOMAIN series[k]) < 2
  BY OneYearOfIt
<1>2. Unscored(selection).why = selection /\ Unscored(selection).status = "insufficient-history"
  BY DEF Unscored
<1> HIDE DEF selection
<1>3. selection.reason = "missing" => \A k \in selection.figures : ShortOfYears(values, k)
  BY <1>1, ShortWhole
<1>4. QED
  BY <1>2, <1>3 DEF NamesTheShort

LEMMA ReasonOfAZero ==
  ASSUME NEW values
  PROVE  LET outcome == Unscored([reason |-> "zero"])
         IN NamesTheShort(values, outcome) /\ outcome.status # "ok"
BY DEF Unscored, NamesTheShort

LEMMA FormulaOrZero ==
  /\ \A v : Altman(v).status = "ok" \/ Altman(v) = Unscored([reason |-> "zero"])
  /\ \A t, p : Piotroski(t, p).status = "ok" \/ Piotroski(t, p) = Unscored([reason |-> "zero"])
  /\ \A t, p : Beneish(t, p).status = "ok" \/ Beneish(t, p) = Unscored([reason |-> "zero"])
BY DEF Altman, Piotroski, Beneish

LEMMA SomeFigures ==
  /\ AltmanFigures \in SUBSET Reported /\ AltmanFigures # {}
  /\ PiotroskiFigures \in SUBSET Reported /\ PiotroskiFigures # {}
  /\ BeneishFigures \in SUBSET Reported /\ BeneishFigures # {}
  /\ {"liabilities"} \in SUBSET Derivable /\ {"grossProfit"} \in SUBSET Derivable
  /\ {"grossProfit", "sga"} \in SUBSET Derivable
BY DEF AltmanFigures, PiotroskiFigures, BeneishFigures, Reported, Derivable

LEMMA AltmanOfOneYear ==
  ASSUME NEW values, IsSeries(values)
  PROVE  /\ ComputeAltman(values).status = "ok" =>
              \E replaced \in SUBSET {"liabilities"} :
                LET series == Whole(values, AltmanFigures, replaced)
                    candidates == Candidates(series, FALSE)
                IN candidates # {} /\ ComputeAltman(values) = Altman(At(series, Max(candidates)))
         /\ NamesTheShort(values, ComputeAltman(values))
<1>1. PICK replaced \in SUBSET {"liabilities"} :
        DeriveLiabilities(FetchSeries(values, AltmanFigures)) = Whole(values, AltmanFigures, replaced)
  BY ReadAsWhole
<1> DEFINE series == Whole(values, AltmanFigures, replaced)
           selection == SelectYears(series, FALSE)
           outcome == ComputeAltman(values)
<1>2. replaced \in SUBSET Derivable
  BY SomeFigures
<1>3. /\ selection.ok \in BOOLEAN
      /\ selection.ok => Candidates(series, FALSE) # {} /\ selection.year = Max(Candidates(series, FALSE))
  BY <1>2, OneYearOfIt, SomeFigures
<1>4. ~selection.ok => NamesTheShort(values, Unscored(selection)) /\ Unscored(selection).status # "ok"
  BY <1>2, ReasonOfASelection, SomeFigures
<1>5. outcome = IF selection.ok THEN Altman(At(series, selection.year)) ELSE Unscored(selection)
  BY <1>1 DEF ComputeAltman
<1> HIDE DEF series, selection, outcome
<1>6. CASE selection.ok
  <2>1. outcome = Altman(At(series, Max(Candidates(series, FALSE)))) /\ Candidates(series, FALSE) # {}
    BY <1>3, <1>5, <1>6
  <2>2. NamesTheShort(values, outcome)
    BY <2>1, FormulaOrZero, ReasonOfAZero DEF NamesTheShort
  <2>3. QED
    BY <2>1, <2>2 DEF series, outcome
<1>7. CASE ~selection.ok
  BY <1>4, <1>5, <1>7 DEF outcome
<1>8. QED
  BY <1>6, <1>7

LEMMA PiotroskiOfOneYear ==
  ASSUME NEW values, IsSeries(values)
  PROVE  /\ ComputePiotroski(values).status = "ok" =>
              \E replaced \in SUBSET {"grossProfit"} :
                LET series == Whole(values, PiotroskiFigures, replaced)
                    candidates == Candidates(series, TRUE)
                IN /\ candidates # {}
                   /\ ComputePiotroski(values) = Piotroski(At(series, Max(candidates)), At(series, Max(candidates) - 1))
         /\ NamesTheShort(values, ComputePiotroski(values))
<1>1. PICK replaced \in SUBSET {"grossProfit"} :
        DeriveGrossProfit(FetchSeries(values, PiotroskiFigures), values["costOfRevenue"])
          = Whole(values, PiotroskiFigures, replaced)
  BY ReadAsWhole
<1> DEFINE series == Whole(values, PiotroskiFigures, replaced)
           selection == SelectYears(series, TRUE)
           outcome == ComputePiotroski(values)
<1>2. replaced \in SUBSET Derivable
  BY SomeFigures
<1>3. /\ selection.ok \in BOOLEAN
      /\ selection.ok => Candidates(series, TRUE) # {} /\ selection.year = Max(Candidates(series, TRUE))
  BY <1>2, OneYearOfIt, SomeFigures
<1>4. ~selection.ok => NamesTheShort(values, Unscored(selection)) /\ Unscored(selection).status # "ok"
  BY <1>2, ReasonOfASelection, SomeFigures
<1>5. outcome = IF selection.ok THEN Piotroski(At(series, selection.year), At(series, selection.year - 1))
                ELSE Unscored(selection)
  BY <1>1 DEF ComputePiotroski
<1> HIDE DEF series, selection, outcome
<1>6. CASE selection.ok
  <2>1. /\ outcome = Piotroski(At(series, Max(Candidates(series, TRUE))), At(series, Max(Candidates(series, TRUE)) - 1))
        /\ Candidates(series, TRUE) # {}
    BY <1>3, <1>5, <1>6
  <2>2. NamesTheShort(values, outcome)
    BY <2>1, FormulaOrZero, ReasonOfAZero DEF NamesTheShort
  <2>3. QED
    BY <2>1, <2>2 DEF series, outcome
<1>7. CASE ~selection.ok
  BY <1>4, <1>5, <1>7 DEF outcome
<1>8. QED
  BY <1>6, <1>7

LEMMA BeneishOfOneYear ==
  ASSUME NEW values, IsSeries(values)
  PROVE  /\ ComputeBeneish(values).status = "ok" =>
              \E replaced \in SUBSET {"grossProfit", "sga"} :
                LET series == Whole(values, BeneishFigures, replaced)
                    candidates == Candidates(series, TRUE)
                IN /\ candidates # {}
                   /\ ComputeBeneish(values) = Beneish(At(series, Max(candidates)), At(series, Max(candidates) - 1))
         /\ NamesTheShort(values, ComputeBeneish(values))
<1>1. PICK replaced \in SUBSET {"grossProfit", "sga"} :
        DeriveSga(DeriveGrossProfit(FetchSeries(values, BeneishFigures), values["costOfRevenue"]),
                  values["sellingMarketing"], values["generalAdmin"])
          = Whole(values, BeneishFigures, replaced)
  BY ReadAsWhole
<1> DEFINE series == Whole(values, BeneishFigures, replaced)
           selection == SelectYears(series, TRUE)
           outcome == ComputeBeneish(values)
<1>2. replaced \in SUBSET Derivable
  BY SomeFigures
<1>3. /\ selection.ok \in BOOLEAN
      /\ selection.ok => Candidates(series, TRUE) # {} /\ selection.year = Max(Candidates(series, TRUE))
  BY <1>2, OneYearOfIt, SomeFigures
<1>4. ~selection.ok => NamesTheShort(values, Unscored(selection)) /\ Unscored(selection).status # "ok"
  BY <1>2, ReasonOfASelection, SomeFigures
<1>5. outcome = IF selection.ok THEN Beneish(At(series, selection.year), At(series, selection.year - 1))
                ELSE Unscored(selection)
  BY <1>1 DEF ComputeBeneish
<1> HIDE DEF series, selection, outcome
<1>6. CASE selection.ok
  <2>1. /\ outcome = Beneish(At(series, Max(Candidates(series, TRUE))), At(series, Max(Candidates(series, TRUE)) - 1))
        /\ Candidates(series, TRUE) # {}
    BY <1>3, <1>5, <1>6
  <2>2. NamesTheShort(values, outcome)
    BY <2>1, FormulaOrZero, ReasonOfAZero DEF NamesTheShort
  <2>3. QED
    BY <2>1, <2>2 DEF series, outcome
<1>7. CASE ~selection.ok
  BY <1>4, <1>5, <1>7 DEF outcome
<1>8. QED
  BY <1>6, <1>7

LEMMA CombinationIsNoNewer ==
  ASSUME NEW a, NEW b, OfYears(a), OfYears(b)
  PROVE  NewestYear(Difference(a, b)) <= NewestYear(a)
<1>1. OfYears(Difference(a, b)) /\ DOMAIN Difference(a, b) \subseteq DOMAIN a
  <2>1. OfYears(Difference(a, b)) /\ DOMAIN Difference(a, b) = DOMAIN a \cap DOMAIN b
    BY CombinedYears
  <2>2. QED
    BY <2>1
<1>2. CASE DOMAIN Difference(a, b) = {}
  <2>1. NewestYear(Difference(a, b)) = -1 /\ (DOMAIN a = {} => NewestYear(a) = -1)
    BY <1>1, <1>2, NewestYearIs
  <2>2. DOMAIN a # {} => NewestYear(a) \in Nat
    BY NewestYearIs DEF OfYears
  <2>3. QED
    BY <2>1, <2>2
<1>3. CASE DOMAIN Difference(a, b) # {}
  BY <1>1, <1>3, NewestYearIs
<1>4. QED
  BY <1>2, <1>3

(* The chart of liabilities and the Altman score take the derived ones alike. *)
LEMMA ChartReadsTheDerived ==
  ASSUME NEW values, IsSeries(values)
  PROVE  LET reported == FetchSeries(values, AltmanFigures)
         IN ChartLiabilities(reported) = DeriveLiabilities(reported)["liabilities"]
<1> DEFINE reported == FetchSeries(values, AltmanFigures)
           derived == Difference(reported["assets"], reported["equity"])
           elsewhere == Max({NewestYear(reported[k]) : k \in DOMAIN reported \ {"liabilities"}})
<1>1. /\ "assets" \in AltmanFigures /\ "equity" \in AltmanFigures /\ "liabilities" \in AltmanFigures
      /\ IsFiniteSet(AltmanFigures \ {"liabilities"}) /\ "assets" \in AltmanFigures \ {"liabilities"}
  <2>1. IsFiniteSet({"assets", "liabilities", "currentAssets", "currentLiabilities"})
    BY FourFinite
  <2>2. IsFiniteSet({"retainedEarnings", "ebit", "equity", "equity"})
    BY FourFinite
  <2>3. AltmanFigures = {"assets", "liabilities", "currentAssets", "currentLiabilities"}
                          \cup {"retainedEarnings", "ebit", "equity", "equity"}
    BY DEF AltmanFigures
  <2>4. IsFiniteSet(AltmanFigures)
    BY <2>1, <2>2, <2>3, FS_Union
  <2>5. IsFiniteSet(AltmanFigures \ {"liabilities"})
    BY <2>4, FS_Difference
  <2>6. QED
    BY <2>5 DEF AltmanFigures
<1>2. DOMAIN reported = AltmanFigures /\ \A k \in AltmanFigures : reported[k] = values[k] /\ OfYears(reported[k])
  BY DEF FetchSeries, IsSeries, Reported
<1> HIDE DEF reported
<1>3. elsewhere >= NewestYear(reported["assets"]) /\ elsewhere \in Int
  <2> DEFINE others == AltmanFigures \ {"liabilities"}
             newest == [k \in others |-> NewestYear(reported[k])]
             S == {NewestYear(reported[k]) : k \in DOMAIN reported \ {"liabilities"}}
  <2>1. \A k \in others : newest[k] = NewestYear(reported[k]) /\ newest[k] \in Int
    BY <1>2, NewestYearIs
  <2>2. IsFiniteSet(others) /\ others # {} /\ "assets" \in others /\ Integral(newest, others)
    BY <1>1, <2>1 DEF Integral
  <2>3. PICK m \in others : \A k \in others : newest[k] <= newest[m]
    BY <2>2, Highest
  <2>4. S = {NewestYear(reported[k]) : k \in others}
    BY <1>2
  <2>5. NewestYear(reported[m]) \in S /\ \A x \in S : NewestYear(reported[m]) >= x
    BY <2>1, <2>3, <2>4
  <2>6. NewestYear(reported["assets"]) \in S /\ S \subseteq Int
    BY <2>1, <2>2, <2>4
  <2> HIDE DEF S, newest
  <2>7. Max(S) \in S /\ \A x \in S : Max(S) >= x
    BY <2>5 DEF Max
  <2>8. QED
    BY <2>6, <2>7 DEF S
<1>4. NewestYear(derived) <= NewestYear(reported["assets"]) /\ OfYears(derived)
  BY <1>1, <1>2, CombinationIsNoNewer, CombinedYears
<1>5. NewestYear(reported["liabilities"]) \in Int /\ NewestYear(derived) \in Int /\ NewestYear(reported["assets"]) \in Int
  BY <1>1, <1>2, <1>4, NewestYearIs
<1>6. CASE NewestYear(derived) > NewestYear(reported["liabilities"])
  <2>1. ~(NewestYear(reported["liabilities"]) >= elsewhere) /\ ~(NewestYear(derived) <= NewestYear(reported["liabilities"]))
    <3> HIDE DEF elsewhere, derived
    <3>1. QED
      BY <1>3, <1>4, <1>5, <1>6
  <2>2. DeriveLiabilities(reported) = [reported EXCEPT !["liabilities"] = derived]
    BY <2>1 DEF DeriveLiabilities, DeriveIfMissing
  <2>3. ChartLiabilities(reported) = derived
    BY <1>6 DEF ChartLiabilities
  <2>4. DeriveLiabilities(reported)["liabilities"] = derived
    BY <1>1, <1>2, <2>2
  <2>5. QED
    BY <2>3, <2>4 DEF reported
<1>7. CASE ~(NewestYear(derived) > NewestYear(reported["liabilities"]))
  <2>1. NewestYear(derived) <= NewestYear(reported["liabilities"])
    <3> HIDE DEF derived
    <3>1. QED
      BY <1>5, <1>7
  <2>2. DeriveLiabilities(reported) = reported
    BY <2>1 DEF DeriveLiabilities, DeriveIfMissing
  <2>3. ChartLiabilities(reported) = reported["liabilities"]
    BY <1>7 DEF ChartLiabilities
  <2>4. QED
    BY <2>2, <2>3 DEF reported
<1>8. QED
  BY <1>6, <1>7 DEF reported

LEMMA NotEmptySize ==
  ASSUME NEW S, IsFiniteSet(S)
  PROVE  Cardinality(S) \in Nat /\ (Cardinality(S) < 1 <=> S = {})
<1>1. Cardinality(S) \in Nat /\ (Cardinality(S) = 0 <=> S = {})
  BY FS_CardinalityType, FS_EmptySet
<1>2. QED
  BY <1>1

LEMMA CandidatesOfNow ==
  ASSUME NEW series, DOMAIN series # {}
  PROVE  \A y : y \in Candidates(series, FALSE) <=> \A k \in DOMAIN series : y \in DOMAIN series[k]
<1>1. PICK k \in DOMAIN series : TRUE
  OBVIOUS
<1>2. QED
  BY <1>1 DEF Candidates

(* Deriving liabilities never costs a company its score, nor a newer year. *)
LEMMA DerivingKeepsTheYear ==
  ASSUME NEW values, IsSeries(values)
  PROVE  LET reported == FetchSeries(values, AltmanFigures)
             after == SelectYears(DeriveLiabilities(reported), FALSE)
         IN SelectYears(reported, FALSE).ok => after.ok /\ after.year >= SelectYears(reported, FALSE).year
<1> DEFINE reported == FetchSeries(values, AltmanFigures)
           derived == Difference(reported["assets"], reported["equity"])
           series == DeriveLiabilities(reported)
<1>1. /\ "assets" \in AltmanFigures /\ "equity" \in AltmanFigures /\ "liabilities" \in AltmanFigures
      /\ AltmanFigures # {}
  BY DEF AltmanFigures
<1>2. DOMAIN reported = AltmanFigures /\ \A k \in AltmanFigures : OfYears(reported[k])
  BY DEF FetchSeries, IsSeries, Reported
<1> HIDE DEF reported
<1>3. series \in {reported, [reported EXCEPT !["liabilities"] = derived]}
  BY Derivation DEF DeriveLiabilities
<1>4. OfYears(derived) /\ DOMAIN derived = DOMAIN reported["assets"] \cap DOMAIN reported["equity"]
  BY <1>1, <1>2, CombinedYears
<1> HIDE DEF derived, series
<1>5. DOMAIN series = AltmanFigures /\ \A k \in AltmanFigures : OfYears(series[k])
  BY <1>2, <1>3, <1>4
<1>6. \A y \in Nat : y \in Candidates(reported, FALSE) => y \in Candidates(series, FALSE)
  <2> SUFFICES ASSUME NEW y \in Nat, y \in Candidates(reported, FALSE) PROVE y \in Candidates(series, FALSE)
    OBVIOUS
  <2>1. \A k \in AltmanFigures : y \in DOMAIN reported[k]
    BY <1>1, <1>2, CandidatesOfNow
  <2>2. y \in DOMAIN derived
    BY <1>1, <1>4, <2>1
  <2>3. \A k \in AltmanFigures : y \in DOMAIN series[k]
    BY <1>2, <1>3, <2>1, <2>2
  <2>4. QED
    BY <1>1, <1>5, <2>3, CandidatesOfNow
<1> SUFFICES ASSUME SelectYears(reported, FALSE).ok
             PROVE  SelectYears(series, FALSE).ok /\ SelectYears(series, FALSE).year >= SelectYears(reported, FALSE).year
  BY DEF reported, series
<1>7. /\ Candidates(reported, FALSE) # {} /\ SelectYears(reported, FALSE).year = Max(Candidates(reported, FALSE))
      /\ Candidates(reported, FALSE) \in SUBSET Nat /\ IsFiniteSet(Candidates(reported, FALSE))
  BY <1>1, <1>2, SelectionIs
<1>8. Max(Candidates(reported, FALSE)) \in Candidates(reported, FALSE)
  BY <1>7, NewestCandidate
<1> DEFINE y == Max(Candidates(reported, FALSE))
<1>9. y \in Candidates(series, FALSE) /\ y \in Nat
  BY <1>6, <1>7, <1>8
<1> HIDE DEF y
<1>10. \A k \in AltmanFigures : ~(Cardinality(DOMAIN series[k]) < 1)
  <2>1. \A k \in AltmanFigures : DOMAIN series[k] # {} /\ IsFiniteSet(DOMAIN series[k])
    BY <1>1, <1>5, <1>9, CandidatesOfNow DEF OfYears
  <2>2. QED
    BY <2>1, NotEmptySize
<1>11. /\ SelectYears(series, FALSE).ok /\ SelectYears(series, FALSE).year = Max(Candidates(series, FALSE))
       /\ Candidates(series, FALSE) \in SUBSET Nat /\ IsFiniteSet(Candidates(series, FALSE))
  BY <1>1, <1>5, <1>9, <1>10, SelectionIs
<1>12. y <= Max(Candidates(series, FALSE)) /\ Max(Candidates(series, FALSE)) \in Nat
  <2>1. Candidates(series, FALSE) # {}
    BY <1>9
  <2>2. QED
    BY <1>9, <1>11, <2>1, NewestCandidate
<1>13. QED
  BY <1>7, <1>11, <1>12, <1>9 DEF y

LEMMA ScoresHold ==
  ASSUME NEW values, IsSeries(values)
  PROVE  ScoredYearIsCommon(values)
<1> DEFINE scores == CompanyScores(values)
<1>1. /\ DOMAIN scores = {"altmanZ", "piotroskiF", "beneishM"} /\ scores["altmanZ"] = ComputeAltman(values)
      /\ scores["piotroskiF"] = ComputePiotroski(values) /\ scores["beneishM"] = ComputeBeneish(values)
  BY DEF CompanyScores
<1>2. ScoresOneYear(scores.altmanZ, values, AltmanFigures, {"liabilities"}, FALSE, LAMBDA s, y : Altman(At(s, y)))
  BY <1>1, AltmanOfOneYear DEF ScoresOneYear
<1>3. ScoresOneYear(scores.piotroskiF, values, PiotroskiFigures, {"grossProfit"}, TRUE,
                    LAMBDA s, y : Piotroski(At(s, y), At(s, y - 1)))
  BY <1>1, PiotroskiOfOneYear DEF ScoresOneYear
<1>4. ScoresOneYear(scores.beneishM, values, BeneishFigures, {"grossProfit", "sga"}, TRUE,
                    LAMBDA s, y : Beneish(At(s, y), At(s, y - 1)))
  BY <1>1, BeneishOfOneYear DEF ScoresOneYear
<1>5. \A s \in DOMAIN scores : NamesTheShort(values, scores[s])
  BY <1>1, AltmanOfOneYear, PiotroskiOfOneYear, BeneishOfOneYear
<1>6. \A s \in DOMAIN scores :
        scores[s].status # "ok" /\ scores[s].why.reason = "missing" =>
          \A k \in scores[s].why.figures : \E replaced \in SUBSET {"liabilities", "grossProfit", "sga"} :
            Cardinality(DOMAIN Whole(values, {k}, replaced)[k]) < 2
  BY <1>5 DEF NamesTheShort, ShortOfYears, Derivable
<1> HIDE DEF scores
<1>7. QED
  BY <1>2, <1>3, <1>4, <1>6, ChartReadsTheDerived, DerivingKeepsTheYear DEF ScoredYearIsCommon, scores

(* Of any company's figures, over any years, a score reads one common year,
   mixes no reported and derived values in a figure, is not lost by deriving
   liabilities, agrees with the chart, and blames only figures short of years. *)
THEOREM ScoresKeepToOneYear == ReadSpec => []ScoresAreOfOneYear
<1>1. ASSUME TriedIsCase PROVE ScoresAreOfOneYear
  <2> SUFFICES ASSUME Tried("series") PROVE ScoredYearIsCommon(case)
    BY DEF ScoresAreOfOneYear
  <2>1. case \in SeriesCases
    BY <1>1 DEF Tried, TriedIsCase, CasesOf
  <2>2. IsSeries(case)
    BY <2>1, CaseAssumption DEF IsSeries, OfYears
  <2>3. QED
    BY <2>2, ScoresHold
<1>2. QED
  BY <1>1, TriedAreCases, PTL

-----------------------------------------------------------------------------
(* The feed *)

(* p lists the numbers of S, in order. *)
Enumerates(p, S, m) ==
  /\ m \in Nat /\ S \subseteq Nat /\ p \in [1 .. m -> S]
  /\ \A x \in S : \E i \in 1 .. m : p[i] = x
  /\ \A i, j \in 1 .. m : i < j <=> p[i] < p[j]

LEMMA PickedBy ==
  ASSUME NEW D, NEW s \in Seq(D), NEW S \in SUBSET DOMAIN s
  PROVE  /\ Picked(s, S) \in Seq(D) /\ Len(Picked(s, S)) = Cardinality(S) /\ Cardinality(S) \in Nat
         /\ Cardinality(S) <= Len(s)
         /\ \E p : Enumerates(p, S, Cardinality(S)) /\ \A i \in 1 .. Cardinality(S) : Picked(s, S)[i] = s[p[i]]
<1>1. Len(s) \in Nat /\ Cardinality(S) \in 0 .. Len(s)
  BY PickedPlaces
<1>2. PICK o \in [1 .. Cardinality(S) -> S] :
        /\ \A x \in S : \E i \in 1 .. Cardinality(S) : o[i] = x
        /\ \A i, j \in 1 .. Cardinality(S) : i < j <=> o[i] < o[j]
        /\ \A i \in 1 .. Cardinality(S) : Picked(s, S)[i] = s[o[i]]
  BY PickedPlaces
<1>3. Cardinality(S) \in Nat /\ Cardinality(S) <= Len(s)
  BY <1>1
<1>4. Enumerates(o, S, Cardinality(S))
  <2>1. S \subseteq Nat
    BY DOMAIN s = 1 .. Len(s), <1>1
  <2>2. QED
    BY <1>2, <1>3, <2>1 DEF Enumerates
<1>5. Picked(s, S) \in Seq(D) /\ Len(Picked(s, S)) = Cardinality(S)
  BY PickedPlaces
<1>6. QED
  BY <1>2, <1>3, <1>4, <1>5

(* The places T of a list of S are those of the numbers U. *)
Matching(p, S, m, T, U) == T \subseteq 1 .. m /\ U \subseteq S /\ \A i \in 1 .. m : i \in T <=> p[i] \in U

(* The numbers at some places of a list are as many as the places. *)
LEMMA AsMany ==
  ASSUME NEW p, NEW S, NEW m, Enumerates(p, S, m), NEW T, NEW U, Matching(p, S, m, T, U)
  PROVE  IsFiniteSet(T) /\ IsFiniteSet(U) /\ Cardinality(U) = Cardinality(T) /\ Cardinality(T) \in Nat
<1> DEFINE q == [i \in T |-> p[i]]
<1>1. m \in Nat /\ S \subseteq Nat /\ U \subseteq S /\ T \subseteq 1 .. m /\ \A i \in T : q[i] = p[i] /\ q[i] \in U
  BY DEF Enumerates, Matching
<1>2. IsFiniteSet(1 .. m)
  BY <1>1, FS_Interval
<1>3. IsFiniteSet(T) /\ Cardinality(T) \in Nat
  BY <1>1, <1>2, FS_Subset, FS_CardinalityType
<1>4. q \in Injection(T, U)
  <2>1. q \in [T -> U]
    BY <1>1
  <2>2. ASSUME NEW i \in T, NEW j \in T, q[i] = q[j] PROVE i = j
    <3>1. p[i] = p[j] /\ i \in 1 .. m /\ j \in 1 .. m /\ p[i] \in Nat
      BY <1>1, <2>2
    <3>2. ~(i < j) /\ ~(j < i)
      BY <3>1 DEF Enumerates
    <3>3. QED
      BY <3>1, <3>2, <1>1
  <2> HIDE DEF q
  <2>3. QED
    BY <2>1, <2>2 DEF Injection, IsInjective
<1>5. q \in Surjection(T, U)
  <2>1. ASSUME NEW x \in U PROVE \E i \in T : q[i] = x
    BY <1>1 DEF Enumerates, Matching
  <2>2. q \in [T -> U]
    BY <1>1
  <2> HIDE DEF q
  <2>3. QED
    BY <2>1, <2>2 DEF Surjection
<1>6. ExistsBijection(T, U)
  BY <1>4, <1>5 DEF ExistsBijection, Bijection
<1>7. QED
  BY <1>3, <1>6, FS_Bijection

(* Places chosen among chosen places. *)
LEMMA ChosenTwice ==
  ASSUME NEW p, NEW S, NEW m, Enumerates(p, S, m),
         NEW q, NEW T, NEW k, Enumerates(q, T, k), NEW U, Matching(p, S, m, T, U)
  PROVE  Enumerates([i \in 1 .. k |-> p[q[i]]], U, k)
<1> DEFINE r == [i \in 1 .. k |-> p[q[i]]]
<1>1. k \in Nat /\ S \subseteq Nat /\ U \subseteq S /\ \A i \in 1 .. k : q[i] \in T /\ q[i] \in 1 .. m /\ r[i] = p[q[i]] /\ r[i] \in U
  BY DEF Enumerates, Matching
<1>2. r \in [1 .. k -> U]
  BY <1>1
<1>3. \A x \in U : \E i \in 1 .. k : r[i] = x
  <2> TAKE x \in U
  <2>1. PICK j \in 1 .. m : p[j] = x
    BY <1>1 DEF Enumerates
  <2>2. j \in T
    BY <2>1 DEF Matching
  <2>3. PICK i \in 1 .. k : q[i] = j
    BY <2>2 DEF Enumerates
  <2>4. QED
    BY <1>1, <2>1, <2>3
<1>4. \A i, j \in 1 .. k : i < j <=> r[i] < r[j]
  <2> TAKE i, j \in 1 .. k
  <2>1. i < j <=> q[i] < q[j]
    BY DEF Enumerates
  <2>2. q[i] < q[j] <=> p[q[i]] < p[q[j]]
    BY <1>1 DEF Enumerates
  <2>3. QED
    BY <1>1, <2>1, <2>2
<1> HIDE DEF r
<1>5. Enumerates(r, U, k)
  BY <1>1, <1>2, <1>3, <1>4 DEF Enumerates
<1>6. QED
  BY <1>5 DEF r

Window(table, hours) == {i \in DOMAIN table : table[i].age < hours}
Listable(table, hours) == {i \in Window(table, hours) : CategorizeForm(table[i]) # "offering"}

LEMMA OfferingsAreACategory == "offering" \in FilingCategories
BY DEF FilingCategories, FormsOf

FollowsTable(filings, table, S) ==
  \E p : Enumerates(p, S, Cardinality(S)) /\ \A i \in 1 .. Len(filings) : filings[i] = table[p[i]]

(* What GET /filings/recent answers the page: the window's filings are
   counted, and the newest that are no offerings are listed in order. *)
LEMMA FeedIs ==
  ASSUME NEW F, NEW table \in Seq(F), NEW hours \in 1 .. MaxHours
  PROVE  LET feed == Recent(table, hours, {"offering"})
             all == Cardinality(Listable(table, hours))
         IN /\ feed.total = Cardinality(Window(table, hours))
            /\ feed.countsByCategory["offering"] = Cardinality(Window(table, hours) \ Listable(table, hours))
            /\ all \in Nat /\ feed.filings \in Seq(F)
            /\ Len(feed.filings) = IF MaxFilings <= all THEN MaxFilings ELSE all
            /\ FollowsTable(feed.filings, table, Listable(table, hours))
<1> DEFINE window == Window(table, hours)
           listable == Listable(table, hours)
           all == Picked(table, window)
           of == {i \in DOMAIN all : CategorizeForm(all[i]) = "offering"}
           other == {i \in DOMAIN all : CategorizeForm(all[i]) \notin {"offering"}}
           kept == Picked(all, other)
           n == Cardinality(window)
<1>1. Recent(table, hours, {"offering"})
        = [status |-> 200, total |-> Len(all), countsByCategory |-> CountsByCategory(all),
           filings |-> Listed(all, {"offering"})]
  BY OfferingsAreACategory DEF Recent, GetRecentFilings, Window
<1>2. window \in SUBSET DOMAIN table /\ listable \in SUBSET window /\ window \subseteq Nat /\ listable \subseteq Nat
  BY DEF Window, Listable
<1>3. \A i \in window : i \in listable <=> CategorizeForm(table[i]) # "offering"
  BY DEF Listable
<1>4. all \in Seq(F) /\ Len(all) = n /\ n \in Nat
  BY <1>2, PickedBy
<1>5. PICK o : Enumerates(o, window, n) /\ \A i \in 1 .. n : all[i] = table[o[i]]
  BY <1>2, PickedBy
<1>6. DOMAIN all = 1 .. n
  BY <1>4
<1> HIDE DEF window, listable, all, n
<1>7. \A i \in 1 .. n : o[i] \in window
  BY <1>5 DEF Enumerates
<1>8. /\ of \in SUBSET (1 .. n) /\ other \in SUBSET (1 .. n)
      /\ Matching(o, window, n, of, window \ listable) /\ Matching(o, window, n, other, listable)
  <2>1. /\ of \in SUBSET (1 .. n) /\ other \in SUBSET (1 .. n)
        /\ \A i \in 1 .. n : i \in of <=> o[i] \in window \ listable
        /\ \A i \in 1 .. n : i \in other <=> o[i] \in listable
    BY <1>3, <1>5, <1>6, <1>7
  <2>2. QED
    BY <1>2, <2>1 DEF Matching
<1>9. CountsByCategory(all)["offering"] = Cardinality(of)
  BY OfferingsAreACategory DEF CountsByCategory
<1> HIDE DEF of, other
<1>10. Cardinality(window \ listable) = Cardinality(of)
  BY <1>5, <1>8, AsMany
<1>11. /\ kept \in Seq(F) /\ Len(kept) = Cardinality(other) /\ Cardinality(other) \in Nat
       /\ \E q : Enumerates(q, other, Cardinality(other)) /\ \A i \in 1 .. Cardinality(other) : kept[i] = all[q[i]]
  <2>1. other \in SUBSET DOMAIN all
    BY <1>6, <1>8
  <2>2. QED
    BY <1>4, <2>1, PickedBy
<1>12. PICK q : Enumerates(q, other, Cardinality(other)) /\ \A i \in 1 .. Cardinality(other) : kept[i] = all[q[i]]
  BY <1>11
<1>13. Cardinality(listable) = Cardinality(other)
  BY <1>5, <1>8, AsMany
<1> DEFINE m == Cardinality(listable)
           p == [i \in 1 .. m |-> o[q[i]]]
<1>14. Enumerates(p, listable, m)
  BY <1>5, <1>8, <1>12, <1>13, ChosenTwice
<1>15. \A i \in 1 .. m : kept[i] = table[p[i]]
  <2> TAKE i \in 1 .. m
  <2>1. kept[i] = all[q[i]] /\ q[i] \in 1 .. n /\ p[i] = o[q[i]]
    BY <1>8, <1>12, <1>13 DEF Enumerates
  <2>2. QED
    BY <1>5, <2>1
<1>16. Listed(all, {"offering"}) = SubSeq(kept, 1, Min({MaxFilings, Len(kept)}))
  BY DEF Listed, other
<1> HIDE DEF p, m, kept
<1>17. Len(kept) = m /\ m \in Nat /\ MaxFilings \in Nat /\ MaxFilings > 0
  BY <1>11, <1>13, FeedAssumption DEF m
<1>18. Min({MaxFilings, Len(kept)}) = IF MaxFilings <= m THEN MaxFilings ELSE m
  BY <1>17, MinOfTwo
<1> DEFINE l == IF MaxFilings <= m THEN MaxFilings ELSE m
           filings == Listed(all, {"offering"})
<1>19. l \in Nat /\ l <= m
  BY <1>17
<1>20. filings = SubSeq(kept, 1, l)
  BY <1>16, <1>18
<1> HIDE DEF l, filings
<1>21. filings \in Seq(F) /\ Len(filings) = l /\ \A i \in 1 .. l : filings[i] = kept[i]
  <2>1. kept \in Seq(F)
    BY <1>11
  <2>2. \A i \in 1 .. l : i \in 1 .. m /\ kept[i] \in F
    BY <1>17, <1>19, <2>1
  <2>3. \A i \in 1 .. l : kept[i] \in F
    BY <2>2
  <2>4. 1 \in Int /\ l \in Int /\ l - 1 + 1 = l /\ (1 <= l \/ l = 0) /\ \A i \in 1 .. l : 1 + i - 1 = i
    BY <1>19
  <2>5. /\ SubSeq(kept, 1, l) \in Seq(F) /\ Len(SubSeq(kept, 1, l)) = (IF 1 <= l THEN l - 1 + 1 ELSE 0)
        /\ \A i \in 1 .. (l - 1 + 1) : SubSeq(kept, 1, l)[i] = kept[1 + i - 1]
    BY <2>3, <2>4, SubSeqProperties
  <2>6. QED
    BY <1>20, <2>4, <2>5
<1>22. \A i \in 1 .. Len(filings) : filings[i] = table[p[i]]
  BY <1>15, <1>19, <1>17, <1>21
<1>23. Len(filings) = IF MaxFilings <= m THEN MaxFilings ELSE m
  BY <1>21 DEF l
<1>24. FollowsTable(filings, table, listable)
  BY <1>14, <1>22 DEF FollowsTable, m
<1>25. QED
  BY <1>1, <1>4, <1>9, <1>10, <1>17, <1>21, <1>23, <1>24 DEF filings, m, window, listable, n

OfKind(filings, kind) == {i \in DOMAIN filings : Kind(filings[i]) = kind}

LineOf(filings, kind) ==
  [kind |-> kind, count |-> Cardinality(OfKind(filings, kind)),
   forms |-> {<<filings[i].form, filings[i].amended>> : i \in OfKind(filings, kind)},
   latest |-> Min({filings[i].age : i \in OfKind(filings, kind)})]

Firsts(filings) == {i \in DOMAIN filings : \A j \in 1 .. (i - 1) : Kind(filings[j]) # Kind(filings[i])}

(* The first filings of the kinds that a filter shows. *)
ShownFirsts(filings, filter) == {i \in Firsts(filings) : MatchesFilter(filter, CategorizeForm(filings[i]))}

LEMMA LineFields ==
  ASSUME NEW filings, NEW filing
  PROVE  LET line == LineOf(filings, Kind(filing))
         IN /\ line.kind = Kind(filing) /\ line.kind.category = CategorizeForm(filing)
            /\ line.count = Cardinality(OfKind(filings, Kind(filing)))
            /\ line.forms = {<<filings[i].form, filings[i].amended>> : i \in OfKind(filings, Kind(filing))}
            /\ line.latest = Min({filings[i].age : i \in OfKind(filings, Kind(filing))})
BY DEF LineOf, Kind

AreLines(visible, filings, filter) ==
  \E lines, f, m : /\ visible \in Seq(lines) /\ Len(visible) = m /\ Enumerates(f, ShownFirsts(filings, filter), m)
                   /\ \A l \in 1 .. m : visible[l] = LineOf(filings, Kind(filings[f[l]]))

(* groupFilings, and the lines a filter leaves. *)
LEMMA VisibleLines ==
  ASSUME NEW F, NEW filings \in Seq(F), NEW filter
  PROVE  LET groups == GroupFilings(filings)
             visible == Picked(groups, {g \in DOMAIN groups : MatchesFilter(filter, groups[g].kind.category)})
         IN AreLines(visible, filings, filter)
<1> DEFINE firsts == Firsts(filings)
           groups == GroupFilings(filings)
           lines == {LineOf(filings, Kind(filings[i])) : i \in firsts}
           n == Cardinality(firsts)
           chosen == {g \in DOMAIN groups : MatchesFilter(filter, groups[g].kind.category)}
           visible == Picked(groups, chosen)
           m == Cardinality(chosen)
<1>1. firsts \in SUBSET DOMAIN filings
  BY DEF Firsts
<1>2. PICK q : Enumerates(q, firsts, n) /\ \A l \in 1 .. n : Picked(filings, firsts)[l] = filings[q[l]]
  BY <1>1, PickedBy
<1>3. n \in Nat /\ Len(Picked(filings, firsts)) = n
  BY <1>1, PickedBy
<1>4. groups = [l \in 1 .. n |-> LineOf(filings, Kind(Picked(filings, firsts)[l]))]
  BY DEF GroupFilings, LineOf, OfKind, Firsts
<1> HIDE DEF groups, firsts, n
<1>5. \A l \in 1 .. n : q[l] \in firsts /\ groups[l] = LineOf(filings, Kind(filings[q[l]]))
  BY <1>2, <1>4 DEF Enumerates
<1>6. groups \in Seq(lines) /\ Len(groups) = n /\ DOMAIN groups = 1 .. n
  <2>1. \A l \in 1 .. n : groups[l] \in lines
    BY <1>5
  <2> HIDE DEF lines
  <2>2. groups \in [1 .. n -> lines]
    BY <1>4, <2>1
  <2>3. QED
    BY <1>3, <2>2
<1> HIDE DEF lines
<1>7. \A g \in 1 .. n : g \in chosen <=> MatchesFilter(filter, CategorizeForm(filings[q[g]]))
  <2> TAKE g \in 1 .. n
  <2>1. groups[g].kind.category = CategorizeForm(filings[q[g]])
    <3>1. LineOf(filings, Kind(filings[q[g]])).kind.category = CategorizeForm(filings[q[g]])
      BY LineFields
    <3>2. QED
      BY <1>5, <3>1
  <2>2. QED
    BY <1>6, <2>1
<1>8. chosen \in SUBSET DOMAIN groups /\ chosen \in SUBSET (1 .. n)
  BY <1>6
<1> HIDE DEF chosen
<1>9. visible \in Seq(lines) /\ Len(visible) = m /\ m \in Nat
  BY <1>6, <1>8, PickedBy
<1>10. PICK r : Enumerates(r, chosen, m) /\ \A l \in 1 .. m : visible[l] = groups[r[l]]
  BY <1>6, <1>8, PickedBy
<1> DEFINE shown == ShownFirsts(filings, filter)
           f == [l \in 1 .. m |-> q[r[l]]]
<1>11. shown \subseteq firsts /\ \A i \in firsts : i \in shown <=> MatchesFilter(filter, CategorizeForm(filings[i]))
  BY DEF ShownFirsts, firsts
<1> HIDE DEF shown, m
<1>12. Matching(q, firsts, n, chosen, shown)
  BY <1>5, <1>7, <1>8, <1>11 DEF Matching
<1>13. Enumerates(f, shown, m)
  BY <1>2, <1>10, <1>12, ChosenTwice
<1>14. \A l \in 1 .. m : visible[l] = LineOf(filings, Kind(filings[f[l]]))
  <2> TAKE l \in 1 .. m
  <2>1. visible[l] = groups[r[l]] /\ r[l] \in 1 .. n /\ f[l] = q[r[l]]
    BY <1>8, <1>10 DEF Enumerates
  <2>2. QED
    BY <1>5, <2>1
<1> HIDE DEF f, visible
<1>15. AreLines(visible, filings, filter)
  BY <1>9, <1>13, <1>14 DEF AreLines, shown
<1>16. QED
  BY <1>15 DEF visible, groups, chosen

LEMMA LeastIs ==
  ASSUME NEW S, S \subseteq Int, NEW x \in S, \A y \in S : x <= y
  PROVE  Min(S) = x
<1>1. Min(S) \in S /\ \A y \in S : Min(S) <= y
  BY DEF Min
<1>2. Min(S) \in Int /\ x \in Int /\ Min(S) <= x /\ x <= Min(S)
  BY <1>1
<1>3. QED
  BY <1>2

(* `filings` are the first of those of the table that p lists. *)
Heads(filings, table, p, S, m) ==
  /\ Enumerates(p, S, m) /\ Len(filings) \in Nat /\ Len(filings) <= m /\ DOMAIN filings = 1 .. Len(filings)
  /\ \A i \in 1 .. Len(filings) : filings[i] = table[p[i]]

NewestFirstTable(table) ==
  /\ \A i \in DOMAIN table : table[i].age \in Nat
  /\ \A i, j \in DOMAIN table : i < j => table[i].age <= table[j].age

LEMMA FirstOfItsLine ==
  ASSUME NEW table, NewestFirstTable(table), NEW S \in SUBSET DOMAIN table, IsFiniteSet(S),
         NEW p, NEW m, NEW filings, Heads(filings, table, p, S, m), NEW a \in Firsts(filings)
  PROVE  LET of == OfKind(filings, Kind(filings[a]))
             ofTable == {i \in S : Kind(table[i]) = Kind(filings[a])}
         IN /\ Cardinality(of) <= Cardinality(ofTable)
            /\ m = Len(filings) => Cardinality(of) = Cardinality(ofTable)
            /\ Min(ofTable) = p[a]
            /\ Min({filings[i].age : i \in of}) = table[p[a]].age
            /\ p[a] \in S
<1> DEFINE of == OfKind(filings, Kind(filings[a]))
           ofTable == {i \in S : Kind(table[i]) = Kind(filings[a])}
           n == Len(filings)
           U == {x \in ofTable : \E i \in of : p[i] = x}
<1>1. /\ n \in Nat /\ m \in Nat /\ n <= m /\ S \subseteq Nat /\ Enumerates(p, S, m)
      /\ \A i \in 1 .. n : i \in 1 .. m /\ p[i] \in S /\ filings[i] = table[p[i]]
  BY DEF Heads, Enumerates
<1>2. \A i, j \in 1 .. m : i < j <=> p[i] < p[j]
  BY <1>1 DEF Enumerates
<1>3. /\ a \in 1 .. n /\ a \in of /\ of \subseteq 1 .. n
      /\ \A i \in of : i \in 1 .. n /\ Kind(filings[i]) = Kind(filings[a])
      /\ \A i \in 1 .. n : Kind(filings[i]) = Kind(filings[a]) => i \in of
      /\ \A i \in of : a <= i
  <2>1. /\ a \in 1 .. n /\ a \in of /\ of \subseteq 1 .. n
        /\ \A i \in of : i \in 1 .. n /\ Kind(filings[i]) = Kind(filings[a])
        /\ \A i \in 1 .. n : Kind(filings[i]) = Kind(filings[a]) => i \in of
    BY DEF Heads, Firsts, OfKind
  <2>2. \A j \in 1 .. (a - 1) : Kind(filings[j]) # Kind(filings[a])
    BY DEF Firsts
  <2> HIDE DEF of, n
  <2>3. \A i \in of : a <= i
    <3> TAKE i \in of
    <3>1. i \in 1 .. (a - 1) \/ a <= i
      BY <1>1, <2>1
    <3>2. QED
      BY <2>1, <2>2, <3>1
  <2>4. QED
    BY <2>1, <2>3
<1> HIDE DEF of
<1>4. \A i \in of : p[i] \in ofTable
  BY <1>1, <1>3
<1>5. Matching(p, S, m, of, U)
  <2>1. \A i \in 1 .. m : p[i] \in U => i \in of
    <3> SUFFICES ASSUME NEW i \in 1 .. m, p[i] \in U PROVE i \in of
      OBVIOUS
    <3>1. PICK j \in of : p[j] = p[i]
      OBVIOUS
    <3>2. j \in 1 .. m /\ p[i] \in Nat /\ p[j] \in Nat
      BY <1>1, <1>3
    <3>3. ~(i < j) /\ ~(j < i)
      BY <1>2, <3>1, <3>2
    <3>4. i = j
      BY <1>1, <3>2, <3>3
    <3>5. QED
      BY <3>4
  <2>2. of \subseteq 1 .. m /\ U \subseteq S /\ \A i \in of : p[i] \in U
    BY <1>1, <1>3, <1>4
  <2> HIDE DEF U
  <2>3. QED
    BY <2>1, <2>2 DEF Matching
<1>6. IsFiniteSet(ofTable) /\ Cardinality(ofTable) \in Nat /\ U \subseteq ofTable
  <2>1. ofTable \subseteq S
    OBVIOUS
  <2>2. QED
    BY <2>1, FS_Subset, FS_CardinalityType
<1>7. Cardinality(U) = Cardinality(of) /\ Cardinality(U) <= Cardinality(ofTable)
  <2> HIDE DEF U, ofTable
  <2>1. Cardinality(U) = Cardinality(of)
    BY <1>1, <1>5, AsMany
  <2>2. QED
    BY <1>6, <2>1, FS_Subset
<1>8. \A x \in ofTable : \E i \in 1 .. m : p[i] = x /\ (i \in 1 .. n => i \in of)
  <2> TAKE x \in ofTable
  <2>1. PICK i \in 1 .. m : p[i] = x
    BY <1>1 DEF Enumerates
  <2>2. QED
    BY <1>1, <1>3, <2>1
<1>9. m = n => U = ofTable
  BY <1>8
<1> HIDE DEF U
<1>10. Min(ofTable) = p[a]
  <2>1. p[a] \in ofTable /\ ofTable \subseteq Int
    BY <1>1, <1>3, <1>4
  <2>2. \A x \in ofTable : p[a] <= x
    <3> TAKE x \in ofTable
    <3>1. PICK i \in 1 .. m : p[i] = x /\ (i \in 1 .. n => i \in of)
      BY <1>8
    <3>2. a <= i
      <4>1. CASE i \in 1 .. n
        BY <1>3, <3>1, <4>1
      <4>2. CASE i \notin 1 .. n
        BY <1>1, <1>3, <4>2
      <4>3. QED
        BY <4>1, <4>2
    <3>3. a \in 1 .. m /\ p[a] \in Nat /\ p[i] \in Nat
      BY <1>1, <1>3, <3>1
    <3>4. p[a] <= p[i]
      <4>1. a = i \/ a < i
        BY <3>2, <3>3
      <4>2. QED
        BY <1>2, <3>3, <4>1
    <3>5. QED
      BY <3>1, <3>4
  <2> HIDE DEF ofTable
  <2>3. QED
    BY <2>1, <2>2, LeastIs
<1>11. Min({filings[i].age : i \in of}) = table[p[a]].age
  <2> DEFINE ages == {filings[i].age : i \in of}
  <2>1. \A i \in of : filings[i].age = table[p[i]].age /\ p[i] \in DOMAIN table /\ filings[i].age \in Int
    BY <1>1, <1>3 DEF NewestFirstTable
  <2>2. table[p[a]].age \in ages /\ ages \subseteq Int
    BY <1>3, <2>1
  <2>3. \A i \in of : table[p[a]].age <= filings[i].age
    <3> TAKE i \in of
    <3>1. a \in 1 .. m /\ i \in 1 .. m /\ (a = i \/ a < i)
      BY <1>1, <1>3
    <3>2. p[a] = p[i] \/ p[a] < p[i]
      BY <1>2, <3>1
    <3>3. table[p[a]].age <= table[p[i]].age
      BY <1>3, <2>1, <3>2 DEF NewestFirstTable
    <3>4. QED
      BY <2>1, <3>3
  <2>4. \A y \in ages : table[p[a]].age <= y
    BY <2>3
  <2> HIDE DEF ages
  <2>5. QED
    BY <2>2, <2>4, LeastIs DEF ages
<1>12. QED
  BY <1>1, <1>3, <1>7, <1>9, <1>10, <1>11 DEF ofTable, of

LEMMA SentencesNameTheirForms ==
  ASSUME NEW line
  PROVE  /\ DescribeGroup(line) = <<"planned-sale">> => line.forms = {<<"144", FALSE>>}
         /\ DescribeGroup(line) = <<"conflict-minerals">> => line.forms = {<<"SD", FALSE>>}
<1> DEFINE c == line.kind.category
<1>1. CASE c = "insiderTrade" /\ line.count = 1 /\ line.forms = {<<"144", FALSE>>}
  BY <1>1 DEF DescribeGroup
<1>2. CASE c = "other" /\ line.forms = {<<"SD", FALSE>>}
  BY <1>2 DEF DescribeGroup
<1>3. CASE c \in {"exchangeNotice", "shareholderVote", "majorHolder"}
  <2>1. DescribeGroup(line) = <<c>>
    BY <1>3 DEF DescribeGroup
  <2>2. c # "planned-sale" /\ c # "conflict-minerals"
    BY <1>3
  <2> HIDE DEF c
  <2>3. \A x : <<c>> = <<x>> => c = x
    OBVIOUS
  <2>4. QED
    BY <2>1, <2>2, <2>3
<1>4. CASE /\ ~(c = "insiderTrade" /\ line.count = 1 /\ line.forms = {<<"144", FALSE>>})
           /\ ~(c = "other" /\ line.forms = {<<"SD", FALSE>>})
           /\ ~(c \in {"exchangeNotice", "shareholderVote", "majorHolder"})
  <2>1. DescribeGroup(line) = <<c, line.count>>
    BY <1>4 DEF DescribeGroup
  <2>2. QED
    BY <2>1
<1>5. QED
  BY <1>1, <1>2, <1>3, <1>4

LEMMA FormsOfALine ==
  ASSUME NEW filings, NEW form, NEW filing,
         {<<filings[i].form, filings[i].amended>> : i \in OfKind(filings, Kind(filing))} = {<<form, FALSE>>}
  PROVE  \A i \in OfKind(filings, Kind(filing)) : filings[i].form = form
<1> TAKE i \in OfKind(filings, Kind(filing))
<1>1. <<filings[i].form, filings[i].amended>> = <<form, FALSE>>
  OBVIOUS
<1>2. QED
  BY <1>1

LEMMA FirstOfEachKind ==
  ASSUME NEW filings, NEW n \in Nat, DOMAIN filings = 1 .. n, NEW i \in 1 .. n
  PROVE  \E j \in Firsts(filings) : Kind(filings[j]) = Kind(filings[i])
<1> DEFINE of == {j \in 1 .. n : Kind(filings[j]) = Kind(filings[i])}
<1>1. of \in SUBSET Nat /\ of # {}
  OBVIOUS
<1>2. Min(of) \in of /\ \A j \in of : Min(of) <= j
  BY <1>1, LeastMember
<1> DEFINE j == Min(of)
<1>3. j \in 1 .. n /\ Kind(filings[j]) = Kind(filings[i])
  BY <1>2
<1>4. \A k \in 1 .. n : Kind(filings[k]) = Kind(filings[i]) => j <= k
  BY <1>2
<1> HIDE DEF j
<1>5. \A k \in 1 .. (j - 1) : Kind(filings[k]) # Kind(filings[j])
  <2> SUFFICES ASSUME NEW k \in 1 .. (j - 1), Kind(filings[k]) = Kind(filings[j]) PROVE FALSE
    OBVIOUS
  <2>1. k \in 1 .. n /\ ~(j <= k)
    BY <1>3
  <2>2. QED
    BY <1>3, <1>4, <2>1
<1>6. QED
  BY <1>3, <1>5 DEF Firsts

LEMMA FeedHolds ==
  ASSUME NEW F, NEW table \in Seq(F), NewestFirstTable(table), NEW hours \in 1 .. MaxHours,
         NEW filter
  PROVE  FeedAccountsForTheWindow(table, hours, filter)
<1> DEFINE feedPage == FilingsPage(table, hours, filter)
           feed == Recent(table, hours, {"offering"})
           filings == feed.filings
           window == Window(table, hours)
           listable == Listable(table, hours)
           matching == {i \in listable : MatchesFilter(filter, CategorizeForm(table[i]))}
           groups == GroupFilings(filings)
           visible == Picked(groups, {g \in DOMAIN groups : MatchesFilter(filter, groups[g].kind.category)})
           all == Cardinality(listable)
           n == Len(filings)
           ofLine(l) == {i \in matching : Kind(table[i]) = visible[l].kind}
<1>1. /\ feedPage.found = feed.total
      /\ filter = "everything" => feedPage.folded = feed.countsByCategory["offering"]
      /\ feedPage.lines = visible
      /\ feedPage.sentences = [i \in DOMAIN visible |-> DescribeGroup(visible[i])]
      /\ feedPage.saysNothing = (visible = <<>>)
  BY DEF FilingsPage
<1>2. /\ feed.total = Cardinality(window) /\ feed.countsByCategory["offering"] = Cardinality(window \ listable)
      /\ all \in Nat /\ filings \in Seq(F) /\ n = IF MaxFilings <= all THEN MaxFilings ELSE all
  BY FeedIs
<1>3. PICK p : Enumerates(p, listable, all) /\ \A i \in 1 .. n : filings[i] = table[p[i]]
  <2>1. FollowsTable(filings, table, listable)
    BY FeedIs
  <2> HIDE DEF filings, listable
  <2>2. QED
    BY <2>1 DEF FollowsTable
<1>4. listable \in SUBSET DOMAIN table /\ IsFiniteSet(listable)
  <2>1. DOMAIN table = 1 .. Len(table) /\ Len(table) \in Nat
    OBVIOUS
  <2>2. listable \in SUBSET DOMAIN table
    BY DEF Listable, Window
  <2>3. IsFiniteSet(1 .. Len(table))
    BY <2>1, FS_Interval
  <2> HIDE DEF listable
  <2>4. QED
    BY <2>1, <2>2, <2>3, FS_Subset
<1>5. PICK lines, f, m : /\ visible \in Seq(lines) /\ Len(visible) = m /\ Enumerates(f, ShownFirsts(filings, filter), m)
                         /\ \A l \in 1 .. m : visible[l] = LineOf(filings, Kind(filings[f[l]]))
  <2>1. AreLines(visible, filings, filter)
    <3>1. filings \in Seq(F)
      BY <1>2
    <3> HIDE DEF filings
    <3>2. QED
      BY <3>1, VisibleLines
  <2> HIDE DEF visible, filings
  <2>2. QED
    BY <2>1 DEF AreLines
<1> HIDE DEF feedPage, feed, filings, window, listable, visible, all, n
<1>6. Heads(filings, table, p, listable, all) /\ n \in Nat /\ DOMAIN filings = 1 .. n /\ (all <= MaxFilings => n = all)
  <2>1. n \in Nat /\ n <= all /\ DOMAIN filings = 1 .. n /\ (all <= MaxFilings => n = all)
    BY <1>2, FeedAssumption DEF n
  <2>2. QED
    BY <1>3, <2>1 DEF Heads, n
<1>7. /\ DOMAIN visible = 1 .. m /\ m \in Nat /\ (m = 0 <=> visible = <<>>)
  <2>1. m \in Nat
    BY <1>5 DEF Enumerates
  <2>2. QED
    BY <1>5, <2>1
<1>8. \A l \in 1 .. m : f[l] \in ShownFirsts(filings, filter) /\ f[l] \in Firsts(filings) /\ f[l] \in 1 .. n
  BY <1>5, <1>6 DEF Enumerates, ShownFirsts, Firsts
<1>9. ASSUME NEW l \in 1 .. m
      PROVE  /\ visible[l].kind = Kind(filings[f[l]])
             /\ visible[l].count = Cardinality(OfKind(filings, Kind(filings[f[l]])))
             /\ visible[l].forms = {<<filings[i].form, filings[i].amended>> : i \in OfKind(filings, Kind(filings[f[l]]))}
             /\ visible[l].latest = Min({filings[i].age : i \in OfKind(filings, Kind(filings[f[l]]))})
             /\ MatchesFilter(filter, CategorizeForm(filings[f[l]]))
             /\ ofLine(l) = {i \in listable : Kind(table[i]) = Kind(filings[f[l]])}
  <2>1. visible[l] = LineOf(filings, Kind(filings[f[l]]))
    BY <1>5
  <2>2. MatchesFilter(filter, CategorizeForm(filings[f[l]]))
    BY <1>8 DEF ShownFirsts
  <2> DEFINE line == LineOf(filings, Kind(filings[f[l]]))
  <2>7. /\ line.kind = Kind(filings[f[l]])
        /\ line.count = Cardinality(OfKind(filings, Kind(filings[f[l]])))
        /\ line.forms = {<<filings[i].form, filings[i].amended>> : i \in OfKind(filings, Kind(filings[f[l]]))}
        /\ line.latest = Min({filings[i].age : i \in OfKind(filings, Kind(filings[f[l]]))})
    BY LineFields
  <2>3. visible[l].kind = Kind(filings[f[l]])
    BY <2>1, <2>7
  <2>4. \A i \in listable : Kind(table[i]) = Kind(filings[f[l]]) => CategorizeForm(table[i]) = CategorizeForm(filings[f[l]])
    BY DEF Kind
  <2>5. ofLine(l) = {i \in listable : Kind(table[i]) = Kind(filings[f[l]])}
    BY <2>2, <2>3, <2>4
  <2>6. QED
    BY <2>1, <2>2, <2>5, <2>7
<1>10. ASSUME NEW l \in 1 .. m
       PROVE  /\ visible[l].count <= Cardinality(ofLine(l))
              /\ all <= MaxFilings => visible[l].count = Cardinality(ofLine(l))
              /\ Min(ofLine(l)) = p[f[l]] /\ visible[l].latest = table[p[f[l]]].age /\ p[f[l]] \in listable
  <2>1. f[l] \in Firsts(filings)
    BY <1>8
  <2> DEFINE of == OfKind(filings, Kind(filings[f[l]]))
             ofTable == {i \in listable : Kind(table[i]) = Kind(filings[f[l]])}
  <2>2. /\ Cardinality(of) <= Cardinality(ofTable)
        /\ all = Len(filings) => Cardinality(of) = Cardinality(ofTable)
        /\ Min(ofTable) = p[f[l]]
        /\ Min({filings[i].age : i \in of}) = table[p[f[l]]].age
        /\ p[f[l]] \in listable
    BY <1>4, <1>6, <2>1, FirstOfItsLine
  <2>3. ofLine(l) = ofTable /\ visible[l].count = Cardinality(of) /\ visible[l].latest = Min({filings[i].age : i \in of})
    BY <1>9
  <2> HIDE DEF of, ofTable, ofLine
  <2>4. QED
    BY <1>6, <2>2, <2>3 DEF n
<1>11. \A l \in 1 .. m : \A k \in 1 .. (l - 1) : /\ visible[k].kind # visible[l].kind
                                                /\ visible[k].latest <= visible[l].latest
  <2> SUFFICES ASSUME NEW l \in 1 .. m, NEW k \in 1 .. (l - 1)
               PROVE  visible[k].kind # visible[l].kind /\ visible[k].latest <= visible[l].latest
    OBVIOUS
  <2>1. k \in 1 .. m /\ k < l
    BY <1>7
  <2>2. f[k] < f[l]
    BY <1>5, <2>1 DEF Enumerates
  <2>3. f[k] \in 1 .. (f[l] - 1)
    BY <1>6, <1>8, <2>1, <2>2
  <2>4. Kind(filings[f[k]]) # Kind(filings[f[l]])
    BY <1>8, <2>3 DEF Firsts
  <2>5. f[k] \in 1 .. all /\ f[l] \in 1 .. all
    <3>1. n <= all /\ all \in Nat
      BY <1>2, <1>6 DEF Heads, n
    <3>2. f[k] \in 1 .. n /\ f[l] \in 1 .. n
      BY <1>8, <2>1
    <3>3. QED
      BY <1>6, <3>1, <3>2
  <2>6. p[f[k]] < p[f[l]]
    BY <1>3, <2>2, <2>5 DEF Enumerates
  <2>7. table[p[f[k]]].age <= table[p[f[l]]].age
    BY <1>4, <1>10, <2>1, <2>6 DEF NewestFirstTable
  <2>8. QED
    <3>1. visible[k].kind = Kind(filings[f[k]]) /\ visible[l].kind = Kind(filings[f[l]])
      BY <1>9, <2>1
    <3>2. visible[k].latest = table[p[f[k]]].age /\ visible[l].latest = table[p[f[l]]].age
      BY <1>10, <2>1
    <3>3. QED
      BY <2>4, <2>7, <3>1, <3>2
<1>12. ASSUME all <= MaxFilings, NEW i \in matching
       PROVE  \E j \in 1 .. n : p[j] = i /\ \E l \in 1 .. m : Kind(filings[j]) = Kind(filings[f[l]])
  <2>1. PICK j \in 1 .. all : p[j] = i
    BY <1>3 DEF Enumerates
  <2>2. j \in 1 .. n /\ filings[j] = table[i]
    BY <1>3, <1>6, <1>12, <2>1
  <2>3. PICK k \in Firsts(filings) : Kind(filings[k]) = Kind(filings[j])
    BY <1>6, <2>2, FirstOfEachKind
  <2>4. CategorizeForm(filings[k]) = CategorizeForm(table[i])
    BY <2>2, <2>3 DEF Kind
  <2>5. k \in ShownFirsts(filings, filter)
    BY <2>4 DEF ShownFirsts
  <2>6. PICK l \in 1 .. m : f[l] = k
    BY <1>5, <2>5 DEF Enumerates
  <2>7. QED
    BY <2>1, <2>2, <2>3, <2>6
<1>13. ASSUME NEW l \in 1 .. m
       PROVE  p[f[l]] \in matching /\ Kind(table[p[f[l]]]) = visible[l].kind
  <2>1. filings[f[l]] = table[p[f[l]]] /\ p[f[l]] \in listable
    BY <1>3, <1>8, <1>10
  <2>2. QED
    BY <1>9, <2>1
<1>14. all <= MaxFilings =>
         /\ {visible[l].kind : l \in 1 .. m} = {Kind(table[i]) : i \in matching}
         /\ visible = <<>> <=> matching = {}
  <2> SUFFICES ASSUME all <= MaxFilings
               PROVE  /\ {visible[l].kind : l \in 1 .. m} = {Kind(table[i]) : i \in matching}
                      /\ visible = <<>> <=> matching = {}
    OBVIOUS
  <2>1. \A i \in matching : \E l \in 1 .. m : Kind(table[i]) = visible[l].kind
    <3> TAKE i \in matching
    <3>1. PICK j \in 1 .. n : p[j] = i /\ \E l \in 1 .. m : Kind(filings[j]) = Kind(filings[f[l]])
      BY <1>12
    <3>2. filings[j] = table[i]
      BY <1>3, <3>1
    <3>3. QED
      BY <1>9, <3>1, <3>2
  <2>2. \A l \in 1 .. m : \E i \in matching : Kind(table[i]) = visible[l].kind
    BY <1>13
  <2> HIDE DEF matching
  <2>3. {visible[l].kind : l \in 1 .. m} = {Kind(table[i]) : i \in matching}
    BY <2>1, <2>2
  <2>4. m = 0 <=> matching = {}
    <3>1. ASSUME matching # {} PROVE m # 0
      BY <1>7, <2>1, <3>1
    <3>2. ASSUME matching = {} PROVE m = 0
      <4>1. 1 .. m = {}
        BY <2>2, <3>2
      <4>2. 1 \notin 1 .. m
        BY <4>1
      <4>3. QED
        BY <1>7, <4>2
    <3>3. QED
      BY <3>1, <3>2
  <2>5. QED
    BY <1>7, <2>3, <2>4
<1>15. all <= MaxFilings =>
         \A l \in 1 .. m : \A i \in ofLine(l) :
           /\ DescribeGroup(visible[l]) = <<"planned-sale">> => table[i].form = "144"
           /\ DescribeGroup(visible[l]) = <<"conflict-minerals">> => table[i].form = "SD"
  <2> SUFFICES ASSUME all <= MaxFilings, NEW l \in 1 .. m, NEW i \in ofLine(l)
               PROVE  /\ DescribeGroup(visible[l]) = <<"planned-sale">> => table[i].form = "144"
                      /\ DescribeGroup(visible[l]) = <<"conflict-minerals">> => table[i].form = "SD"
    OBVIOUS
  <2>1. PICK j \in 1 .. n : p[j] = i
    BY <1>12
  <2>2. filings[j] = table[i] /\ Kind(filings[j]) = Kind(filings[f[l]])
    BY <1>3, <1>9, <2>1
  <2>3. j \in OfKind(filings, Kind(filings[f[l]]))
    BY <1>6, <2>2 DEF OfKind
  <2>4. ASSUME NEW form, visible[l].forms = {<<form, FALSE>>} PROVE table[i].form = form
    <3>1. {<<filings[x].form, filings[x].amended>> : x \in OfKind(filings, Kind(filings[f[l]]))} = {<<form, FALSE>>}
      BY <1>9, <2>4
    <3>2. \A x \in OfKind(filings, Kind(filings[f[l]])) : filings[x].form = form
      BY <3>1, FormsOfALine
    <3>3. QED
      BY <2>2, <2>3, <3>2
  <2>5. QED
    BY <2>4, SentencesNameTheirForms
<1>16. ~(all > MaxFilings) => all <= MaxFilings
  BY <1>2, FeedAssumption
<1>17. ~(all > MaxFilings) => \A l \in 1 .. m : visible[l].count = Cardinality(ofLine(l))
  BY <1>10, <1>16
<1>18. \A l \in 1 .. m : /\ visible[l].count <= Cardinality(ofLine(l))
                         /\ visible[l].latest = table[Min(ofLine(l))].age
  BY <1>10
<1>19. /\ window = {i \in DOMAIN table : table[i].age < hours}
       /\ listable = {i \in window : CategorizeForm(table[i]) # "offering"}
  BY DEF window, listable, Window, Listable
<1>20. /\ DOMAIN feedPage.lines = 1 .. m
       /\ \A l \in 1 .. m : feedPage.lines[l] = visible[l] /\ feedPage.sentences[l] = DescribeGroup(visible[l])
       /\ feedPage.saysNothing <=> visible = <<>>
       /\ feedPage.found = Cardinality(window)
       /\ filter = "everything" => feedPage.folded = Cardinality(window \ listable)
  <2>1. feedPage.saysNothing <=> visible = <<>>
    BY <1>1
  <2>2. QED
    BY <1>1, <1>2, <1>7, <2>1
<1> DEFINE cut == all > MaxFilings
           ofPage(l) == {i \in matching : Kind(table[i]) = feedPage.lines[l].kind}
<1>21. \A l \in 1 .. m : ofPage(l) = ofLine(l)
  BY <1>20
<1> HIDE DEF cut, matching, ofLine, ofPage
<1>22. \A l \in DOMAIN feedPage.lines :
          /\ feedPage.lines[l].count <= Cardinality(ofPage(l))
          /\ feedPage.lines[l].latest = table[Min(ofPage(l))].age
          /\ \A k \in 1 .. (l - 1) : /\ feedPage.lines[k].kind # feedPage.lines[l].kind
                                     /\ feedPage.lines[k].latest <= feedPage.lines[l].latest
  <2> SUFFICES ASSUME NEW l \in 1 .. m
               PROVE  /\ feedPage.lines[l].count <= Cardinality(ofPage(l))
                      /\ feedPage.lines[l].latest = table[Min(ofPage(l))].age
                      /\ \A k \in 1 .. (l - 1) : /\ feedPage.lines[k].kind # feedPage.lines[l].kind
                                                 /\ feedPage.lines[k].latest <= feedPage.lines[l].latest
    BY <1>20
  <2>1. \A k \in 1 .. (l - 1) : k \in 1 .. m
    BY <1>7
  <2>2. QED
    BY <1>11, <1>18, <1>20, <1>21, <2>1
<1>23. ~cut => /\ \A l \in DOMAIN feedPage.lines : feedPage.lines[l].count = Cardinality(ofPage(l))
               /\ {feedPage.lines[l].kind : l \in DOMAIN feedPage.lines} = {Kind(table[i]) : i \in matching}
               /\ feedPage.saysNothing <=> matching = {}
  <2> SUFFICES ASSUME ~cut
               PROVE  /\ \A l \in DOMAIN feedPage.lines : feedPage.lines[l].count = Cardinality(ofPage(l))
                      /\ {feedPage.lines[l].kind : l \in DOMAIN feedPage.lines} = {Kind(table[i]) : i \in matching}
                      /\ feedPage.saysNothing <=> matching = {}
    OBVIOUS
  <2>1. ~(all > MaxFilings)
    BY DEF cut
  <2>2. \A l \in DOMAIN feedPage.lines : feedPage.lines[l].count = Cardinality(ofPage(l))
    BY <1>17, <1>20, <1>21, <2>1
  <2>3. {feedPage.lines[l].kind : l \in DOMAIN feedPage.lines} = {visible[l].kind : l \in 1 .. m}
    BY <1>20
  <2>4. QED
    BY <1>14, <1>16, <1>20, <2>1, <2>2, <2>3
<1>24. ~cut => \A l \in DOMAIN feedPage.lines : \A i \in ofPage(l) :
                 /\ feedPage.sentences[l] = <<"planned-sale">> => table[i].form = "144"
                 /\ feedPage.sentences[l] = <<"conflict-minerals">> => table[i].form = "SD"
  <2> SUFFICES ASSUME ~cut, NEW l \in 1 .. m, NEW i \in ofPage(l)
               PROVE  /\ feedPage.sentences[l] = <<"planned-sale">> => table[i].form = "144"
                      /\ feedPage.sentences[l] = <<"conflict-minerals">> => table[i].form = "SD"
    BY <1>20
  <2>1. ~(all > MaxFilings)
    BY DEF cut
  <2>2. i \in ofLine(l) /\ feedPage.sentences[l] = DescribeGroup(visible[l])
    BY <1>20, <1>21
  <2>3. QED
    BY <1>15, <1>16, <2>1, <2>2
<1>25. cut = (Cardinality(listable) > MaxFilings)
  BY DEF cut, all
<1>26. QED
  <2>1. /\ feedPage.found = Cardinality(window)
        /\ filter = "everything" => feedPage.folded = Cardinality(window \ listable)
    BY <1>20
  <2>2. QED
    BY <1>19, <1>22, <1>23, <1>24, <1>25, <2>1 DEF FeedAccountsForTheWindow, feedPage, matching, ofPage

(* Whatever was discovered, the page counts it all, groups it without losing
   or doubling a filing, orders it, and names only what is there; a cut list
   is the only excuse. *)
THEOREM FeedAlwaysAccounts == ReadSpec => []FeedAccountsForItsWindow
<1>1. ASSUME TriedIsCase PROVE FeedAccountsForItsWindow
  <2> SUFFICES ASSUME Tried("feed") PROVE FeedAccountsForTheWindow(case.table, case.hours, case.filter)
    BY DEF FeedAccountsForItsWindow
  <2>1. case \in FeedCases
    BY <1>1 DEF Tried, TriedIsCase, CasesOf
  <2>2. /\ case.hours \in 1 .. MaxHours
        /\ case.table \in Seq([cik : Companies, form : STRING, amended : BOOLEAN, age : Nat])
        /\ \A i, j \in DOMAIN case.table : i < j => case.table[i].age <= case.table[j].age
    BY <2>1, CaseAssumption
  <2>3. \A i \in DOMAIN case.table : case.table[i].age \in Nat
    <3> TAKE i \in DOMAIN case.table
    <3>1. \A R : \A s \in Seq(R) : \A j \in DOMAIN s : s[j] \in R
      OBVIOUS
    <3>2. case.table[i] \in [cik : Companies, form : STRING, amended : BOOLEAN, age : Nat]
      BY <2>2, <3>1
    <3>3. QED
      BY <3>2
  <2>4. NewestFirstTable(case.table)
    BY <2>2, <2>3 DEF NewestFirstTable
  <2>5. QED
    BY <2>2, <2>4, FeedHolds
<1>2. QED
  BY <1>1, TriedAreCases, PTL

-----------------------------------------------------------------------------
(* Sections: the folds that chunk them, one piece at a time *)

LEMMA ConcatenatedFold ==
  ASSUME NEW V
  PROVE  /\ Concatenated(<<>>) = <<>>
         /\ \A ss \in Seq(Seq(V)) : /\ Concatenated(ss) \in Seq(V)
                                    /\ \A s \in Seq(V) : Concatenated(Append(ss, s)) = Concatenated(ss) \o s
<1> DEFINE op == [p \in Seq(V) \X Seq(V) |-> p[1] \o p[2]]
<1>1. \A a, s \in Seq(V) : op[<<a, s>>] = a \o s /\ a \o s \in Seq(V)
  BY ConcatProperties
<1> HIDE DEF op
<1>2. IsMap(op, Seq(V), Seq(V))
  BY <1>1 DEF IsMap
<1>3. PICK F : IsFold(F, op, <<>>, Seq(V), Seq(V))
  BY <1>2, EmptySeq, FoldAsFunction
<1>4. ASSUME NEW ss \in Seq(Seq(V)) PROVE Concatenated(ss) = F[ss]
  <2>1. PICK n \in Nat : n = Len(ss) /\ DOMAIN ss = 1 .. n
    OBVIOUS
  <2> DEFINE Body(i) == [T \in SUBSET (1 .. n) |-> IF T = {} THEN <<>> ELSE i[T \ {Max(T)}] \o ss[Max(T)]]
             iter == CHOOSE i : i = Body(i)
  <2>2. Concatenated(ss) = iter[1 .. n]
    BY <2>1 DEF Concatenated, FoldLeft, MapThenFoldSet
  <2>3. \A T \in SUBSET (1 .. n) : T # {} => ss[Max(T)] \in Seq(V) /\ T \ {Max(T)} \in SUBSET (1 .. n)
    <3>1. \A i \in 1 .. n : ss[i] \in Seq(V)
      BY <2>1
    <3>2. \A T \in SUBSET (1 .. n) : T # {} => Max(T) \in 1 .. n
      BY GreatestPicks
    <3>3. QED
      BY <3>1, <3>2
  <2>4. PICK h \in [SUBSET (1 .. n) -> Seq(V)] : Unfolds(h, op, <<>>, Seq(V), ss)
    BY <1>3, <2>1 DEF IsFold
  <2>5. \A T \in SUBSET (1 .. n) : h[T] = IF T = {} THEN <<>> ELSE h[T \ {Max(T)}] \o ss[Max(T)]
    BY <1>1, <2>1, <2>3, <2>4 DEF Unfolds
  <2>6. h = Body(h)
    <3>1. h = [T \in SUBSET (1 .. n) |-> h[T]]
      BY <2>4
    <3>2. QED
      BY <2>5, <3>1
  <2>7. iter = Body(iter)
    <3> HIDE DEF Body
    <3>1. QED
      BY <2>6
  <2> HIDE DEF iter
  <2>8. \A T \in SUBSET (1 .. n) : iter[T] = IF T = {} THEN <<>> ELSE iter[T \ {Max(T)}] \o ss[Max(T)]
    BY <2>7
  <2> HIDE DEF Body
  <2>9. Unfolds(iter, op, <<>>, Seq(V), ss)
    BY <1>1, <2>1, <2>3, <2>8 DEF Unfolds
  <2>10. QED
    BY <1>3, <2>1, <2>2, <2>9 DEF IsFold
<1>5. \A ss \in Seq(Seq(V)), s \in Seq(V) : Append(ss, s) \in Seq(Seq(V))
  BY AppendProperties
<1>6. <<>> \in Seq(Seq(V))
  BY EmptySeq
<1>7. F[<<>>] = <<>> /\ \A ss \in Seq(Seq(V)) : F[ss] \in Seq(V) /\ \A s \in Seq(V) : F[Append(ss, s)] = op[<<F[ss], s>>]
  BY <1>3 DEF IsFold, Folds
<1>8. Concatenated(<<>>) = <<>>
  BY <1>4, <1>6, <1>7
<1>9. ASSUME NEW ss \in Seq(Seq(V)), NEW s \in Seq(V) PROVE Concatenated(Append(ss, s)) = Concatenated(ss) \o s
  <2>1. Concatenated(Append(ss, s)) = op[<<F[ss], s>>]
    BY <1>4, <1>5, <1>7
  <2>2. QED
    BY <1>1, <1>4, <1>7, <2>1
<1>10. QED
  BY <1>4, <1>7, <1>8, <1>9

(* The state of each fold after one piece more. *)
JoinedBy(acc, l) ==
  LET buffer == acc.buffer \o l.words IN
  IF Len(buffer) >= MinChunk THEN [merged |-> Append(acc.merged, buffer), buffer |-> <<>>]
  ELSE [acc EXCEPT !.buffer = buffer]

JoinedStates(V) == [merged : Seq(Seq(V)), buffer : Seq(V)]

LEMMA JoinedFold ==
  ASSUME NEW V, NEW E, \A l \in E : l.words \in Seq(V)
  PROVE  /\ Joined(<<>>) = [merged |-> <<>>, buffer |-> <<>>]
         /\ \A s \in Seq(E) : /\ Joined(s) \in JoinedStates(V)
                              /\ \A l \in E : Joined(Append(s, l)) = JoinedBy(Joined(s), l)
<1> DEFINE A == JoinedStates(V)
           base == [merged |-> <<>>, buffer |-> <<>>]
           op == [p \in A \X E |-> JoinedBy(p[1], p[2])]
<1>1. base \in A
  BY EmptySeq DEF JoinedStates
<1>2. ASSUME NEW a \in A, NEW l \in E PROVE JoinedBy(a, l) \in A
  <2>1. a.merged \in Seq(Seq(V)) /\ a.buffer \in Seq(V) /\ l.words \in Seq(V)
    BY DEF JoinedStates
  <2>2. a.buffer \o l.words \in Seq(V)
    BY <2>1, ConcatProperties
  <2>3. Append(a.merged, a.buffer \o l.words) \in Seq(Seq(V))
    BY <2>1, <2>2, AppendProperties
  <2>4. <<>> \in Seq(V)
    BY EmptySeq
  <2>5. QED
    BY <2>1, <2>2, <2>3, <2>4 DEF JoinedBy, JoinedStates
<1>3. \A a \in A, l \in E : op[<<a, l>>] = JoinedBy(a, l) /\ op[<<a, l>>] \in A
  BY <1>2
<1> HIDE DEF A, base, op
<1>4. IsMap(op, A, E)
  BY <1>3 DEF IsMap
<1>5. PICK F : IsFold(F, op, base, A, E)
  BY <1>1, <1>4, FoldAsFunction
<1>6. ASSUME NEW s \in Seq(E) PROVE Joined(s) = F[s]
  <2>1. PICK n \in Nat : n = Len(s) /\ DOMAIN s = 1 .. n
    OBVIOUS
  <2> DEFINE Body(i) == [T \in SUBSET (1 .. n) |-> IF T = {} THEN base ELSE JoinedBy(i[T \ {Max(T)}], s[Max(T)])]
             iter == CHOOSE i : i = Body(i)
  <2>2. Joined(s) = iter[1 .. n]
    BY <2>1 DEF Joined, FoldLeft, MapThenFoldSet, JoinedBy, base
  <2>3. \A T \in SUBSET (1 .. n) : T # {} => s[Max(T)] \in E /\ T \ {Max(T)} \in SUBSET (1 .. n)
    <3>1. \A i \in 1 .. n : s[i] \in E
      BY <2>1
    <3>2. \A T \in SUBSET (1 .. n) : T # {} => Max(T) \in 1 .. n
      BY GreatestPicks
    <3>3. QED
      BY <3>1, <3>2
  <2>4. PICK h \in [SUBSET (1 .. n) -> A] : Unfolds(h, op, base, A, s)
    BY <1>5, <2>1 DEF IsFold
  <2>5. \A T \in SUBSET (1 .. n) : h[T] = IF T = {} THEN base ELSE JoinedBy(h[T \ {Max(T)}], s[Max(T)])
    BY <1>3, <2>1, <2>3, <2>4 DEF Unfolds
  <2>6. h = Body(h)
    <3>1. h = [T \in SUBSET (1 .. n) |-> h[T]]
      BY <2>4
    <3>2. QED
      BY <2>5, <3>1
  <2>7. iter = Body(iter)
    <3> HIDE DEF Body
    <3>1. QED
      BY <2>6
  <2> HIDE DEF iter
  <2>8. \A T \in SUBSET (1 .. n) : iter[T] = IF T = {} THEN base ELSE JoinedBy(iter[T \ {Max(T)}], s[Max(T)])
    BY <2>7
  <2> HIDE DEF Body
  <2>9. Unfolds(iter, op, base, A, s)
    BY <1>3, <2>1, <2>3, <2>8 DEF Unfolds
  <2>10. QED
    BY <1>5, <2>1, <2>2, <2>9 DEF IsFold
<1>7. F[<<>>] = base /\ \A s \in Seq(E) : F[s] \in A /\ \A l \in E : F[Append(s, l)] = op[<<F[s], l>>]
  BY <1>5 DEF IsFold, Folds
<1>8. <<>> \in Seq(E) /\ \A s \in Seq(E), l \in E : Append(s, l) \in Seq(E)
  BY EmptySeq, AppendProperties
<1>9. Joined(<<>>) = base
  BY <1>6, <1>7, <1>8
<1>10. ASSUME NEW s \in Seq(E), NEW l \in E PROVE Joined(Append(s, l)) = JoinedBy(Joined(s), l)
  <2>1. Joined(Append(s, l)) = op[<<F[s], l>>]
    BY <1>6, <1>7, <1>8
  <2>2. QED
    BY <1>3, <1>6, <1>7, <2>1
<1>11. QED
  BY <1>6, <1>7, <1>9, <1>10 DEF base, A

PunctuatedBy(acc, w) ==
  IF w.stop THEN [done |-> Append(acc.done, Append(acc.open, w)), open |-> <<>>]
  ELSE [acc EXCEPT !.open = Append(@, w)]

PunctuatedStates(V) == [done : Seq(Seq(V)), open : Seq(V)]

LEMMA PunctuatedFold ==
  ASSUME NEW V
  PROVE  /\ Punctuated(<<>>) = [done |-> <<>>, open |-> <<>>]
         /\ \A s \in Seq(V) : /\ Punctuated(s) \in PunctuatedStates(V)
                              /\ \A l \in V : Punctuated(Append(s, l)) = PunctuatedBy(Punctuated(s), l)
<1> DEFINE A == PunctuatedStates(V)
           base == [done |-> <<>>, open |-> <<>>]
           op == [p \in A \X V |-> PunctuatedBy(p[1], p[2])]
<1>1. base \in A
  BY EmptySeq DEF PunctuatedStates
<1>2. ASSUME NEW a \in A, NEW l \in V PROVE PunctuatedBy(a, l) \in A
  <2>1. a.done \in Seq(Seq(V)) /\ a.open \in Seq(V)
    BY DEF PunctuatedStates
  <2>2. Append(a.open, l) \in Seq(V)
    BY <2>1, AppendProperties
  <2>3. Append(a.done, Append(a.open, l)) \in Seq(Seq(V))
    BY <2>1, <2>2, AppendProperties
  <2>4. <<>> \in Seq(V)
    BY EmptySeq
  <2>5. QED
    BY <2>1, <2>2, <2>3, <2>4 DEF PunctuatedBy, PunctuatedStates
<1>3. \A a \in A, l \in V : op[<<a, l>>] = PunctuatedBy(a, l) /\ op[<<a, l>>] \in A
  BY <1>2
<1> HIDE DEF A, base, op
<1>4. IsMap(op, A, V)
  BY <1>3 DEF IsMap
<1>5. PICK F : IsFold(F, op, base, A, V)
  BY <1>1, <1>4, FoldAsFunction
<1>6. ASSUME NEW s \in Seq(V) PROVE Punctuated(s) = F[s]
  <2>1. PICK n \in Nat : n = Len(s) /\ DOMAIN s = 1 .. n
    OBVIOUS
  <2> DEFINE Body(i) == [T \in SUBSET (1 .. n) |-> IF T = {} THEN base ELSE PunctuatedBy(i[T \ {Max(T)}], s[Max(T)])]
             iter == CHOOSE i : i = Body(i)
  <2>2. Punctuated(s) = iter[1 .. n]
    BY <2>1 DEF Punctuated, FoldLeft, MapThenFoldSet, PunctuatedBy, base
  <2>3. \A T \in SUBSET (1 .. n) : T # {} => s[Max(T)] \in V /\ T \ {Max(T)} \in SUBSET (1 .. n)
    <3>1. \A i \in 1 .. n : s[i] \in V
      BY <2>1
    <3>2. \A T \in SUBSET (1 .. n) : T # {} => Max(T) \in 1 .. n
      BY GreatestPicks
    <3>3. QED
      BY <3>1, <3>2
  <2>4. PICK h \in [SUBSET (1 .. n) -> A] : Unfolds(h, op, base, A, s)
    BY <1>5, <2>1 DEF IsFold
  <2>5. \A T \in SUBSET (1 .. n) : h[T] = IF T = {} THEN base ELSE PunctuatedBy(h[T \ {Max(T)}], s[Max(T)])
    BY <1>3, <2>1, <2>3, <2>4 DEF Unfolds
  <2>6. h = Body(h)
    <3>1. h = [T \in SUBSET (1 .. n) |-> h[T]]
      BY <2>4
    <3>2. QED
      BY <2>5, <3>1
  <2>7. iter = Body(iter)
    <3> HIDE DEF Body
    <3>1. QED
      BY <2>6
  <2> HIDE DEF iter
  <2>8. \A T \in SUBSET (1 .. n) : iter[T] = IF T = {} THEN base ELSE PunctuatedBy(iter[T \ {Max(T)}], s[Max(T)])
    BY <2>7
  <2> HIDE DEF Body
  <2>9. Unfolds(iter, op, base, A, s)
    BY <1>3, <2>1, <2>3, <2>8 DEF Unfolds
  <2>10. QED
    BY <1>5, <2>1, <2>2, <2>9 DEF IsFold
<1>7. F[<<>>] = base /\ \A s \in Seq(V) : F[s] \in A /\ \A l \in V : F[Append(s, l)] = op[<<F[s], l>>]
  BY <1>5 DEF IsFold, Folds
<1>8. <<>> \in Seq(V) /\ \A s \in Seq(V), l \in V : Append(s, l) \in Seq(V)
  BY EmptySeq, AppendProperties
<1>9. Punctuated(<<>>) = base
  BY <1>6, <1>7, <1>8
<1>10. ASSUME NEW s \in Seq(V), NEW l \in V PROVE Punctuated(Append(s, l)) = PunctuatedBy(Punctuated(s), l)
  <2>1. Punctuated(Append(s, l)) = op[<<F[s], l>>]
    BY <1>6, <1>7, <1>8
  <2>2. QED
    BY <1>3, <1>6, <1>7, <2>1
<1>11. QED
  BY <1>6, <1>7, <1>9, <1>10 DEF base, A

CutBy(acc, s) ==
  IF Len(acc.sub) + Len(s) > MaxChunk /\ acc.sub # <<>> THEN [done |-> Append(acc.done, acc.sub), sub |-> s]
  ELSE [acc EXCEPT !.sub = @ \o s]

CutStates(V) == [done : Seq(Seq(V)), sub : Seq(V)]

LEMMA CutFold ==
  ASSUME NEW V
  PROVE  /\ Cut(<<>>) = [done |-> <<>>, sub |-> <<>>]
         /\ \A s \in Seq(Seq(V)) : /\ Cut(s) \in CutStates(V)
                                   /\ \A l \in Seq(V) : Cut(Append(s, l)) = CutBy(Cut(s), l)
<1> DEFINE A == CutStates(V)
           base == [done |-> <<>>, sub |-> <<>>]
           E == Seq(V)
           op == [p \in A \X E |-> CutBy(p[1], p[2])]
<1>1. base \in A
  BY EmptySeq DEF CutStates
<1>2. ASSUME NEW a \in A, NEW l \in E PROVE CutBy(a, l) \in A
  <2>1. a.done \in Seq(Seq(V)) /\ a.sub \in Seq(V)
    BY DEF CutStates
  <2>2. a.sub \o l \in Seq(V)
    BY <2>1, ConcatProperties
  <2>3. Append(a.done, a.sub) \in Seq(Seq(V))
    BY <2>1, AppendProperties
  <2>4. QED
    BY <2>1, <2>2, <2>3 DEF CutBy, CutStates
<1>3. \A a \in A, l \in E : op[<<a, l>>] = CutBy(a, l) /\ op[<<a, l>>] \in A
  BY <1>2
<1> HIDE DEF A, base, op, E
<1>4. IsMap(op, A, E)
  BY <1>3 DEF IsMap
<1>5. PICK F : IsFold(F, op, base, A, E)
  BY <1>1, <1>4, FoldAsFunction
<1>6. ASSUME NEW s \in Seq(E) PROVE Cut(s) = F[s]
  <2>1. PICK n \in Nat : n = Len(s) /\ DOMAIN s = 1 .. n
    OBVIOUS
  <2> DEFINE Body(i) == [T \in SUBSET (1 .. n) |-> IF T = {} THEN base ELSE CutBy(i[T \ {Max(T)}], s[Max(T)])]
             iter == CHOOSE i : i = Body(i)
  <2>2. Cut(s) = iter[1 .. n]
    BY <2>1 DEF Cut, FoldLeft, MapThenFoldSet, CutBy, base
  <2>3. \A T \in SUBSET (1 .. n) : T # {} => s[Max(T)] \in E /\ T \ {Max(T)} \in SUBSET (1 .. n)
    <3>1. \A i \in 1 .. n : s[i] \in E
      BY <2>1
    <3>2. \A T \in SUBSET (1 .. n) : T # {} => Max(T) \in 1 .. n
      BY GreatestPicks
    <3>3. QED
      BY <3>1, <3>2
  <2>4. PICK h \in [SUBSET (1 .. n) -> A] : Unfolds(h, op, base, A, s)
    BY <1>5, <2>1 DEF IsFold
  <2>5. \A T \in SUBSET (1 .. n) : h[T] = IF T = {} THEN base ELSE CutBy(h[T \ {Max(T)}], s[Max(T)])
    BY <1>3, <2>1, <2>3, <2>4 DEF Unfolds
  <2>6. h = Body(h)
    <3>1. h = [T \in SUBSET (1 .. n) |-> h[T]]
      BY <2>4
    <3>2. QED
      BY <2>5, <3>1
  <2>7. iter = Body(iter)
    <3> HIDE DEF Body
    <3>1. QED
      BY <2>6
  <2> HIDE DEF iter
  <2>8. \A T \in SUBSET (1 .. n) : iter[T] = IF T = {} THEN base ELSE CutBy(iter[T \ {Max(T)}], s[Max(T)])
    BY <2>7
  <2> HIDE DEF Body
  <2>9. Unfolds(iter, op, base, A, s)
    BY <1>3, <2>1, <2>3, <2>8 DEF Unfolds
  <2>10. QED
    BY <1>5, <2>1, <2>2, <2>9 DEF IsFold
<1>7. F[<<>>] = base /\ \A s \in Seq(E) : F[s] \in A /\ \A l \in E : F[Append(s, l)] = op[<<F[s], l>>]
  BY <1>5 DEF IsFold, Folds
<1>8. <<>> \in Seq(E) /\ \A s \in Seq(E), l \in E : Append(s, l) \in Seq(E)
  BY EmptySeq, AppendProperties
<1>9. Cut(<<>>) = base
  BY <1>6, <1>7, <1>8
<1>10. ASSUME NEW s \in Seq(E), NEW l \in E PROVE Cut(Append(s, l)) = CutBy(Cut(s), l)
  <2>1. Cut(Append(s, l)) = op[<<F[s], l>>]
    BY <1>6, <1>7, <1>8
  <2>2. QED
    BY <1>3, <1>6, <1>7, <2>1
<1>11. QED
  BY <1>6, <1>7, <1>9, <1>10 DEF base, A, E

-----------------------------------------------------------------------------
(* Sections: the words kept *)

LEMMA EnumerationsAgree ==
  ASSUME NEW S, NEW m, NEW p, NEW q, Enumerates(p, S, m), Enumerates(q, S, m)
  PROVE  \A i \in 1 .. m : p[i] = q[i]
<1>1. /\ m \in Nat /\ S \subseteq Nat /\ \A i \in 1 .. m : p[i] \in S /\ q[i] \in S /\ p[i] \in Nat /\ q[i] \in Nat
      /\ \A i, j \in 1 .. m : (i < j <=> p[i] < p[j]) /\ (i < j <=> q[i] < q[j])
      /\ \A x \in S : (\E i \in 1 .. m : p[i] = x) /\ (\E i \in 1 .. m : q[i] = x)
  BY DEF Enumerates
<1> DEFINE Good == {n \in Nat : \A i \in 1 .. m : i <= n => p[i] = q[i]}
<1>2. 0 \in Good
  OBVIOUS
<1>3. ASSUME NEW n \in Nat, n \in Good PROVE n + 1 \in Good
  <2>1. SUFFICES ASSUME n + 1 \in 1 .. m PROVE p[n + 1] = q[n + 1]
    <3>1. \A i \in 1 .. m : i <= n + 1 => i <= n \/ i = n + 1
      BY <1>1
    <3>2. QED
      BY <1>3, <3>1
  <2>2. PICK k \in 1 .. m : q[k] = p[n + 1]
    BY <1>1, <2>1
  <2>3. PICK l \in 1 .. m : p[l] = q[n + 1]
    BY <1>1, <2>1
  <2>4. ~(k <= n)
    <3>1. SUFFICES ASSUME k <= n PROVE FALSE
      OBVIOUS
    <3>2. p[k] = q[k] /\ k < n + 1
      BY <1>1, <1>3, <3>1
    <3>3. p[k] < p[n + 1]
      BY <1>1, <2>1, <3>2
    <3>4. QED
      BY <1>1, <2>1, <2>2, <3>2, <3>3
  <2>5. ~(l <= n)
    <3>1. SUFFICES ASSUME l <= n PROVE FALSE
      OBVIOUS
    <3>2. p[l] = q[l] /\ l < n + 1
      BY <1>1, <1>3, <3>1
    <3>3. q[l] < q[n + 1]
      BY <1>1, <2>1, <3>2
    <3>4. QED
      BY <1>1, <2>1, <2>3, <3>2, <3>3
  <2>6. k \in Nat /\ l \in Nat /\ k >= n + 1 /\ l >= n + 1
    BY <1>1, <2>4, <2>5
  <2>7. q[k] >= q[n + 1] /\ p[l] >= p[n + 1]
    <3>1. k = n + 1 \/ q[n + 1] < q[k]
      BY <1>1, <2>1, <2>6
    <3>2. l = n + 1 \/ p[n + 1] < p[l]
      BY <1>1, <2>1, <2>6
    <3>3. QED
      BY <1>1, <2>1, <3>1, <3>2
  <2>8. QED
    BY <1>1, <2>1, <2>2, <2>3, <2>7
<1> HIDE DEF Good
<1>4. \A n \in Nat : n \in Good
  BY <1>2, <1>3, NumberInduction
<1>5. m \in Good
  BY <1>1, <1>4
<1>6. QED
  BY <1>1, <1>5 DEF Good

LEMMA AscendingEnumerates ==
  ASSUME NEW n \in Nat, NEW S \in SUBSET (1 .. n)
  PROVE  Cardinality(S) \in Nat /\ Cardinality(S) <= n /\ Enumerates(Ascending(S), S, Cardinality(S))
<1> DEFINE o == Ascending(S)
<1>1. /\ Cardinality(S) \in 0 .. n /\ o \in [1 .. Cardinality(S) -> S]
      /\ \A x \in S : \E i \in 1 .. Cardinality(S) : o[i] = x
      /\ \A i, j \in 1 .. Cardinality(S) : i < j <=> o[i] < o[j]
  BY AscendingLists
<1> HIDE DEF o
<1>2. Cardinality(S) \in Nat /\ Cardinality(S) <= n /\ S \subseteq Nat
  BY <1>1
<1>3. Enumerates(o, S, Cardinality(S))
  BY <1>1, <1>2 DEF Enumerates
<1>4. QED
  BY <1>2, <1>3 DEF o

(* An element more is picked last or not at all. *)
LEMMA PickedOfOneMore ==
  ASSUME NEW V, NEW s \in Seq(V), NEW e \in V, NEW S \in SUBSET DOMAIN s
  PROVE  /\ Picked(Append(s, e), S) = Picked(s, S)
         /\ Picked(Append(s, e), S \cup {Len(s) + 1}) = Append(Picked(s, S), e)
<1> DEFINE t == Append(s, e)
           U == S \cup {Len(s) + 1}
           m == Cardinality(S)
           p == Ascending(S)
<1>1. PICK n \in Nat : n = Len(s) /\ DOMAIN s = 1 .. n
  OBVIOUS
<1>2. t \in Seq(V) /\ Len(t) = n + 1 /\ t[n + 1] = e /\ \A i \in 1 .. n : t[i] = s[i]
  BY <1>1, AppendProperties
<1> HIDE DEF t
<1>3. m \in Nat /\ m <= n /\ Enumerates(p, S, m)
  BY <1>1, AscendingEnumerates
<1>4. Picked(s, S) = [k \in 1 .. m |-> s[p[k]]] /\ Picked(t, S) = [k \in 1 .. m |-> t[p[k]]]
  BY DEF Picked
<1>5. m + 1 = Cardinality(U) /\ U \in SUBSET (1 .. (n + 1))
  <2>1. IsFiniteSet(S) /\ Len(s) + 1 \notin S
    <3>1. IsFiniteSet(1 .. n) /\ S \subseteq 1 .. n
      BY <1>1, FS_Interval
    <3>2. n + 1 \notin 1 .. n
      OBVIOUS
    <3>3. QED
      BY <1>1, <3>1, <3>2, FS_Subset
  <2>2. Cardinality(U) = m + 1
    BY <2>1, FS_AddElement
  <2>3. QED
    BY <1>1, <2>2
<1>6. Enumerates(Ascending(U), U, m + 1) /\ Picked(t, U) = [k \in 1 .. (m + 1) |-> t[Ascending(U)[k]]]
  <2>1. Enumerates(Ascending(U), U, Cardinality(U))
    BY <1>5, AscendingEnumerates, n + 1 \in Nat
  <2> HIDE DEF m, U
  <2>2. QED
    BY <1>5, <2>1 DEF Picked
<1>7. U = S \cup {n + 1} /\ S \subseteq 1 .. n
  BY <1>1
<1> HIDE DEF p, m, U
<1>8. \A k \in 1 .. m : p[k] \in S /\ p[k] \in 1 .. n
  BY <1>7, <1>3 DEF Enumerates
<1>9. Picked(t, S) = Picked(s, S)
  BY <1>2, <1>4, <1>8
<1> DEFINE q == [k \in 1 .. (m + 1) |-> IF k <= m THEN p[k] ELSE n + 1]
<1>10. \A k \in 1 .. (m + 1) : q[k] = IF k <= m THEN p[k] ELSE n + 1
  OBVIOUS
<1>11. q \in [1 .. (m + 1) -> U]
  BY <1>3, <1>7, <1>8
<1> HIDE DEF q
<1>12. Enumerates(q, U, m + 1)
  <2>1. \A x \in U : \E i \in 1 .. (m + 1) : q[i] = x
    <3> TAKE x \in U
    <3>1. CASE x \in S
      <4>1. PICK i \in 1 .. m : p[i] = x
        BY <1>3, <3>1 DEF Enumerates
      <4>2. i \in 1 .. (m + 1) /\ i <= m
        BY <1>3
      <4>3. QED
        BY <1>10, <4>1, <4>2
    <3>2. CASE x = n + 1
      <4>1. m + 1 \in 1 .. (m + 1) /\ ~(m + 1 <= m)
        BY <1>3
      <4>2. QED
        BY <1>10, <3>2, <4>1
    <3>3. QED
      BY <1>7, <3>1, <3>2
  <2>2. ASSUME NEW i \in 1 .. (m + 1), NEW j \in 1 .. (m + 1) PROVE i < j <=> q[i] < q[j]
    <3>1. CASE i <= m /\ j <= m
      <4>1. i \in 1 .. m /\ j \in 1 .. m
        BY <1>3, <3>1
      <4>2. QED
        BY <1>3, <1>10, <3>1, <4>1 DEF Enumerates
    <3>2. CASE i <= m /\ ~(j <= m)
      <4>1. i \in 1 .. m /\ i < j
        BY <1>3, <3>2
      <4>2. QED
        BY <1>8, <1>10, <3>2, <4>1
    <3>3. CASE ~(i <= m) /\ j <= m
      <4>1. j \in 1 .. m /\ ~(i < j)
        BY <1>3, <3>3
      <4>2. QED
        BY <1>8, <1>10, <3>3, <4>1
    <3>4. CASE ~(i <= m) /\ ~(j <= m)
      <4>1. i = j
        BY <1>3, <3>4
      <4>2. i = m + 1
        BY <1>3, <3>4
      <4>3. q[i] = n + 1
        BY <1>10, <3>4
      <4>4. QED
        BY <1>3, <4>1, <4>2, <4>3
    <3>5. QED
      BY <3>1, <3>2, <3>3, <3>4
  <2>3. m + 1 \in Nat /\ U \subseteq Nat
    BY <1>3, <1>7
  <2>4. QED
    BY <1>11, <2>1, <2>2, <2>3 DEF Enumerates
<1>13. \A k \in 1 .. (m + 1) : Ascending(U)[k] = q[k]
  BY <1>6, <1>12, EnumerationsAgree
<1>14. Picked(t, U) = [k \in 1 .. (m + 1) |-> IF k <= m THEN s[p[k]] ELSE e]
  <2>1. \A k \in 1 .. (m + 1) : t[Ascending(U)[k]] = IF k <= m THEN s[p[k]] ELSE e
    <3> TAKE k \in 1 .. (m + 1)
    <3>1. CASE k <= m
      <4>1. k \in 1 .. m
        BY <1>3, <3>1
      <4>2. QED
        BY <1>2, <1>8, <1>10, <1>13, <3>1, <4>1
    <3>2. CASE ~(k <= m)
      BY <1>2, <1>10, <1>13, <3>2
    <3>3. QED
      BY <3>1, <3>2
  <2>2. QED
    BY <1>6, <2>1
<1>15. Append(Picked(s, S), e) = Picked(t, U)
  <2>1. Picked(s, S) \in Seq(V) /\ Len(Picked(s, S)) = m
    <3>1. \A k \in 1 .. m : s[p[k]] \in V
      BY <1>1, <1>8
    <3>2. Picked(s, S) \in [1 .. m -> V]
      BY <1>4, <3>1
    <3>3. QED
      BY <1>3, <3>2
  <2>2. \A k \in 1 .. m : Picked(s, S)[k] = s[p[k]] /\ s[p[k]] \in V
    BY <1>1, <1>4, <1>8
  <2>3. /\ Append(Picked(s, S), e) \in Seq(V) /\ Len(Append(Picked(s, S), e)) = m + 1
        /\ Append(Picked(s, S), e)[m + 1] = e /\ \A k \in 1 .. m : Append(Picked(s, S), e)[k] = s[p[k]]
    BY <2>1, <2>2, AppendProperties
  <2>4. Picked(t, U) \in Seq(V) /\ Len(Picked(t, U)) = m + 1
    <3>1. \A k \in 1 .. (m + 1) : (IF k <= m THEN s[p[k]] ELSE e) \in V
      BY <1>3, <2>2
    <3>2. Picked(t, U) \in [1 .. (m + 1) -> V]
      BY <1>14, <3>1
    <3>3. m + 1 \in Nat
      BY <1>3
    <3>4. QED
      BY <3>2, <3>3
  <2>5. \A k \in 1 .. (m + 1) : Picked(t, U)[k] = Append(Picked(s, S), e)[k]
    <3> TAKE k \in 1 .. (m + 1)
    <3>1. k \in 1 .. m \/ (k = m + 1 /\ ~(m + 1 <= m))
      BY <1>3
    <3>2. k \in 1 .. m => k <= m
      BY <1>3
    <3>3. QED
      BY <1>14, <2>3, <3>1, <3>2
  <2>6. QED
    BY <2>3, <2>4, <2>5, SeqEqual
<1>16. QED
  BY <1>9, <1>15 DEF t, U

(* The words of s but those of P, in their order. *)
Kept(s, P) == Picked(s, {i \in DOMAIN s : s[i] \notin P})

LEMMA KeptOfNothing == \A P : Kept(<<>>, P) = <<>>
<1> TAKE P
<1>1. <<>> \in Seq({}) /\ Len(<<>>) = 0 /\ DOMAIN <<>> = {}
  BY EmptySeq
<1>2. {i \in DOMAIN <<>> : <<>>[i] \notin P} = {}
  BY <1>1
<1>3. Picked(<<>>, {}) \in Seq({}) /\ Len(Picked(<<>>, {})) = Cardinality({}) /\ Cardinality({}) = 0
  BY <1>1, PickedBy, FS_EmptySet
<1>4. QED
  BY <1>2, <1>3, EmptySeq DEF Kept

LEMMA KeptType ==
  ASSUME NEW V, NEW P, NEW s \in Seq(V)
  PROVE  Kept(s, P) \in Seq(V)
<1> DEFINE S == {i \in DOMAIN s : s[i] \notin P}
<1>1. S \in SUBSET DOMAIN s
  OBVIOUS
<1>2. Kept(s, P) = Picked(s, S)
  BY DEF Kept
<1> HIDE DEF S
<1>3. QED
  BY <1>1, <1>2, PickedBy

LEMMA KeptOfOneMore ==
  ASSUME NEW V, NEW P, NEW s \in Seq(V), NEW e \in V
  PROVE  Kept(Append(s, e), P) = IF e \in P THEN Kept(s, P) ELSE Append(Kept(s, P), e)
<1> DEFINE S == {i \in DOMAIN s : s[i] \notin P}
           t == Append(s, e)
           T == {i \in DOMAIN t : t[i] \notin P}
<1>1. PICK n \in Nat : n = Len(s) /\ DOMAIN s = 1 .. n
  OBVIOUS
<1>2. DOMAIN t = 1 .. (n + 1) /\ t[n + 1] = e /\ \A i \in 1 .. n : t[i] = s[i]
  BY <1>1, AppendProperties
<1> HIDE DEF t
<1>3. \A i : i \in 1 .. (n + 1) <=> i \in 1 .. n \/ i = n + 1
  BY <1>1
<1>4. T = IF e \in P THEN S ELSE S \cup {n + 1}
  BY <1>1, <1>2, <1>3
<1>5. Kept(t, P) = Picked(t, T) /\ Kept(s, P) = Picked(s, S) /\ S \in SUBSET DOMAIN s
  BY DEF Kept
<1> HIDE DEF S, T
<1>6. Picked(t, S) = Picked(s, S) /\ Picked(t, S \cup {n + 1}) = Append(Picked(s, S), e)
  BY <1>1, <1>5, PickedOfOneMore DEF t
<1>7. Kept(t, P) = IF e \in P THEN Kept(s, P) ELSE Append(Kept(s, P), e)
  BY <1>4, <1>5, <1>6
<1>8. QED
  BY <1>7 DEF t

LEMMA ConcatOneMore ==
  ASSUME NEW V, NEW s \in Seq(V), NEW t \in Seq(V), NEW e \in V
  PROVE  s \o Append(t, e) = Append(s \o t, e)
<1>1. <<e>> \in Seq(V) /\ s \o t \in Seq(V)
  BY ConcatProperties
<1>2. Append(t, e) = t \o <<e>> /\ Append(s \o t, e) = (s \o t) \o <<e>>
  BY <1>1, AppendIsConcat
<1>3. QED
  BY <1>1, <1>2, ConcatAssociative

LEMMA KeptOfBoth ==
  ASSUME NEW V, NEW P, NEW s \in Seq(V), NEW t \in Seq(V)
  PROVE  Kept(s \o t, P) = Kept(s, P) \o Kept(t, P)
<1>0. ASSUME NEW r \in Seq(V), NEW x \in V
      PROVE  Kept(Append(r, x), P) = IF x \in P THEN Kept(r, P) ELSE Append(Kept(r, P), x)
  BY KeptOfOneMore
<1> DEFINE Good == {u \in Seq(V) : Kept(s \o u, P) = Kept(s, P) \o Kept(u, P)}
<1>1. <<>> \in Good
  <2>1. <<>> \in Seq(V) /\ s \o <<>> = s /\ Kept(<<>>, P) = <<>>
    BY EmptySeq, ConcatEmptySeq, KeptOfNothing
  <2>2. Kept(s, P) \in Seq(V)
    BY KeptType
  <2>3. Kept(s, P) \o <<>> = Kept(s, P)
    BY <2>2, ConcatEmptySeq
  <2>4. QED
    BY <2>1, <2>3
<1>2. ASSUME NEW u \in Seq(V), NEW e \in V, u \in Good PROVE Append(u, e) \in Good
  <2>1. Append(u, e) \in Seq(V) /\ s \o u \in Seq(V)
    BY AppendProperties, ConcatProperties
  <2>2. s \o Append(u, e) = Append(s \o u, e)
    BY ConcatOneMore
  <2>3. Kept(s, P) \in Seq(V) /\ Kept(u, P) \in Seq(V)
    BY KeptType
  <2>4. Kept(s \o u, P) = Kept(s, P) \o Kept(u, P)
    BY <1>2
  <2>5. Kept(Append(s \o u, e), P) = Kept(s, P) \o Kept(Append(u, e), P)
    <3>1. CASE e \in P
      BY <1>0, <2>1, <2>4, <3>1
    <3>2. CASE e \notin P
      <4>1. Kept(Append(s \o u, e), P) = Append(Kept(s \o u, P), e) /\ Kept(Append(u, e), P) = Append(Kept(u, P), e)
        BY <1>0, <2>1, <3>2
      <4>2. Kept(s, P) \o Append(Kept(u, P), e) = Append(Kept(s, P) \o Kept(u, P), e)
        BY <2>3, ConcatOneMore
      <4>3. QED
        BY <2>4, <4>1, <4>2
    <3>3. QED
      BY <3>1, <3>2
  <2>6. QED
    BY <2>1, <2>2, <2>5
<1> HIDE DEF Good
<1>3. \A u \in Seq(V) : u \in Good
  BY <1>1, <1>2, SequenceInduction
<1>4. QED
  BY <1>3 DEF Good

LEMMA MembersOfOneMore ==
  ASSUME NEW V, NEW s \in Seq(V), NEW e \in V
  PROVE  ToSet(Append(s, e)) = ToSet(s) \cup {e} /\ ToSet(<<>>) = {}
<1>1. PICK n \in Nat : n = Len(s) /\ DOMAIN s = 1 .. n
  OBVIOUS
<1> DEFINE t == Append(s, e)
<1>2. DOMAIN t = 1 .. (n + 1) /\ t[n + 1] = e /\ \A i \in 1 .. n : t[i] = s[i]
  BY <1>1, AppendProperties
<1> HIDE DEF t
<1>3. \A i : i \in 1 .. (n + 1) <=> i \in 1 .. n \/ i = n + 1
  BY <1>1
<1>4. ToSet(t) = ToSet(s) \cup {e}
  BY <1>1, <1>2, <1>3 DEF ToSet
<1>5. ToSet(<<>>) = {}
  BY DEF ToSet
<1>6. QED
  BY <1>4, <1>5 DEF t

LEMMA MembersOfBoth ==
  ASSUME NEW V, NEW s \in Seq(V), NEW t \in Seq(V)
  PROVE  ToSet(s \o t) = ToSet(s) \cup ToSet(t)
<1>0. \A r \in Seq(V), x \in V : ToSet(Append(r, x)) = ToSet(r) \cup {x}
  BY MembersOfOneMore
<1> DEFINE Good == {u \in Seq(V) : ToSet(s \o u) = ToSet(s) \cup ToSet(u)}
<1>1. <<>> \in Good
  <2>1. s \o <<>> = s /\ <<>> \in Seq(V) /\ ToSet(<<>>) = {}
    BY EmptySeq, ConcatEmptySeq DEF ToSet
  <2>2. QED
    BY <2>1
<1>2. ASSUME NEW u \in Seq(V), NEW e \in V, u \in Good PROVE Append(u, e) \in Good
  <2>1. Append(u, e) \in Seq(V) /\ s \o u \in Seq(V)
    BY AppendProperties, ConcatProperties
  <2>2. s \o Append(u, e) = Append(s \o u, e)
    BY ConcatOneMore
  <2>3. ToSet(Append(s \o u, e)) = ToSet(s \o u) \cup {e} /\ ToSet(Append(u, e)) = ToSet(u) \cup {e}
    BY <1>0, <2>1
  <2>4. QED
    BY <1>2, <2>1, <2>2, <2>3
<1> HIDE DEF Good
<1>3. \A u \in Seq(V) : u \in Good
  BY <1>1, <1>2, SequenceInduction
<1>4. QED
  BY <1>3 DEF Good

LEMMA KeptAllOrNone ==
  ASSUME NEW V, NEW P, NEW s \in Seq(V)
  PROVE  (ToSet(s) \cap P = {} => Kept(s, P) = s) /\ (ToSet(s) \subseteq P => Kept(s, P) = <<>>)
<1>0. ASSUME NEW r \in Seq(V), NEW x \in V
      PROVE  Kept(Append(r, x), P) = IF x \in P THEN Kept(r, P) ELSE Append(Kept(r, P), x)
  BY KeptOfOneMore
<1>9. \A r \in Seq(V), x \in V : ToSet(Append(r, x)) = ToSet(r) \cup {x}
  BY MembersOfOneMore
<1> DEFINE Good == {u \in Seq(V) : (ToSet(u) \cap P = {} => Kept(u, P) = u) /\ (ToSet(u) \subseteq P => Kept(u, P) = <<>>)}
<1>1. <<>> \in Good
  BY EmptySeq, KeptOfNothing
<1>2. ASSUME NEW u \in Seq(V), NEW e \in V, u \in Good PROVE Append(u, e) \in Good
  <2>1. Append(u, e) \in Seq(V)
    BY AppendProperties
  <2>2. ToSet(Append(u, e)) = ToSet(u) \cup {e}
    BY <1>9
  <2>3. Kept(Append(u, e), P) = IF e \in P THEN Kept(u, P) ELSE Append(Kept(u, P), e)
    BY <1>0
  <2>4. ToSet(Append(u, e)) \cap P = {} => e \notin P /\ ToSet(u) \cap P = {}
    BY <2>2
  <2>5. ToSet(Append(u, e)) \subseteq P => e \in P /\ ToSet(u) \subseteq P
    BY <2>2
  <2>6. QED
    BY <1>2, <2>1, <2>3, <2>4, <2>5
<1> HIDE DEF Good
<1>3. \A u \in Seq(V) : u \in Good
  BY <1>1, <1>2, SequenceInduction
<1>4. QED
  BY <1>3 DEF Good

LEMMA ConcatenatedOfBoth ==
  ASSUME NEW V, NEW ss \in Seq(Seq(V)), NEW tt \in Seq(Seq(V))
  PROVE  Concatenated(ss \o tt) = Concatenated(ss) \o Concatenated(tt)
<1> DEFINE Good == {u \in Seq(Seq(V)) : Concatenated(ss \o u) = Concatenated(ss) \o Concatenated(u)}
<1>1. <<>> \in Good
  BY EmptySeq, ConcatEmptySeq, ConcatenatedFold
<1>2. ASSUME NEW u \in Seq(Seq(V)), NEW s \in Seq(V), u \in Good PROVE Append(u, s) \in Good
  <2>1. Append(u, s) \in Seq(Seq(V)) /\ ss \o u \in Seq(Seq(V))
    BY AppendProperties, ConcatProperties
  <2>2. ss \o Append(u, s) = Append(ss \o u, s)
    BY ConcatOneMore
  <2>3. Concatenated(ss) \in Seq(V) /\ Concatenated(u) \in Seq(V)
    BY ConcatenatedFold
  <2>4. /\ Concatenated(Append(ss \o u, s)) = Concatenated(ss \o u) \o s
        /\ Concatenated(Append(u, s)) = Concatenated(u) \o s
    BY <2>1, ConcatenatedFold
  <2>5. (Concatenated(ss) \o Concatenated(u)) \o s = Concatenated(ss) \o (Concatenated(u) \o s)
    BY <2>3, ConcatAssociative
  <2>6. QED
    BY <1>2, <2>1, <2>2, <2>4, <2>5
<1> HIDE DEF Good
<1>3. \A u \in Seq(Seq(V)) : u \in Good
  BY <1>1, <1>2, SequenceInduction
<1>4. QED
  BY <1>3 DEF Good

LEMMA ConcatenatedOfOne ==
  ASSUME NEW V, NEW s \in Seq(V)
  PROVE  Concatenated(<<s>>) = s
<1>1. <<>> \in Seq(Seq(V)) /\ <<s>> = Append(<<>>, s)
  BY EmptySeq
<1>2. Concatenated(<<s>>) = Concatenated(<<>>) \o s /\ Concatenated(<<>>) = <<>>
  BY <1>1, ConcatenatedFold
<1>3. QED
  BY <1>2, ConcatEmptySeq

-----------------------------------------------------------------------------
(* Sections: joining lines *)

WordsOf(lines) == [i \in DOMAIN lines |-> lines[i].words]

LEMMA WordsOfOneMore ==
  ASSUME NEW V, NEW E, \A l \in E : l.words \in Seq(V), NEW s \in Seq(E), NEW l \in E
  PROVE  WordsOf(Append(s, l)) = Append(WordsOf(s), l.words) /\ WordsOf(s) \in Seq(Seq(V))
<1>1. PICK n \in Nat : n = Len(s) /\ DOMAIN s = 1 .. n
  OBVIOUS
<1> DEFINE t == Append(s, l)
<1>2. DOMAIN t = 1 .. (n + 1) /\ t[n + 1] = l /\ \A i \in 1 .. n : t[i] = s[i]
  BY <1>1, AppendProperties
<1> HIDE DEF t
<1>3. \A i \in 1 .. n : s[i].words \in Seq(V)
  BY <1>1
<1>4. WordsOf(s) = [i \in 1 .. n |-> s[i].words] /\ WordsOf(t) = [i \in 1 .. (n + 1) |-> t[i].words]
  BY <1>1, <1>2 DEF WordsOf
<1>5. WordsOf(s) \in Seq(Seq(V)) /\ Len(WordsOf(s)) = n
  <2>1. WordsOf(s) \in [1 .. n -> Seq(V)]
    BY <1>3, <1>4
  <2>2. QED
    BY <2>1
<1>6. WordsOf(t) \in Seq(Seq(V)) /\ Len(WordsOf(t)) = n + 1
  <2>1. \A i \in 1 .. (n + 1) : i \in 1 .. n \/ i = n + 1
    OBVIOUS
  <2>2. \A i \in 1 .. (n + 1) : t[i].words \in Seq(V)
    BY <1>2, <1>3, <2>1
  <2>3. WordsOf(t) \in [1 .. (n + 1) -> Seq(V)]
    BY <1>4, <2>2
  <2>4. QED
    BY <2>3
<1>7. /\ Append(WordsOf(s), l.words) \in Seq(Seq(V)) /\ Len(Append(WordsOf(s), l.words)) = n + 1
      /\ Append(WordsOf(s), l.words)[n + 1] = l.words
      /\ \A i \in 1 .. n : Append(WordsOf(s), l.words)[i] = s[i].words
  BY <1>4, <1>5, AppendProperties
<1>8. \A i \in 1 .. (n + 1) : WordsOf(t)[i] = Append(WordsOf(s), l.words)[i]
  <2>1. \A i \in 1 .. (n + 1) : i \in 1 .. n \/ i = n + 1
    OBVIOUS
  <2>2. QED
    BY <1>2, <1>4, <1>7, <2>1
<1>9. WordsOf(t) = Append(WordsOf(s), l.words)
  BY <1>6, <1>7, <1>8, SeqEqual
<1>10. QED
  BY <1>5, <1>9 DEF t

(* Joining keeps every word in its place, and joins no empty chunk. *)
JoinedWell(V, lines) ==
  LET all == Joined(lines) IN
  /\ all.merged \in Seq(Seq(V)) /\ all.buffer \in Seq(V) /\ <<>> \notin ToSet(all.merged)
  /\ Concatenated(all.merged) \o all.buffer = Concatenated(WordsOf(lines))

LEMMA JoinedKeepsTheText ==
  ASSUME NEW V, NEW E, \A l \in E : l.words \in Seq(V), NEW lines \in Seq(E)
  PROVE  JoinedWell(V, lines)
<1>0. MinChunk \in Nat \ {0}
  BY ChunkAssumption
<1>9. \A x, y, z \in Seq(V) : (x \o y) \o z = x \o (y \o z)
  BY ConcatAssociative
<1> DEFINE Good == {s \in Seq(E) : JoinedWell(V, s)}
<1>1. <<>> \in Good
  <2>1. Joined(<<>>) = [merged |-> <<>>, buffer |-> <<>>] /\ <<>> \in Seq(E)
    BY EmptySeq, JoinedFold
  <2>2. WordsOf(<<>>) = <<>>
    BY DEF WordsOf
  <2>3. Concatenated(<<>>) = <<>> /\ <<>> \in Seq(V) /\ <<>> \in Seq(Seq(V)) /\ ToSet(<<>>) = {}
    BY EmptySeq, ConcatenatedFold DEF ToSet
  <2>4. <<>> \o <<>> = <<>>
    BY <2>3, ConcatEmptySeq
  <2>5. Joined(<<>>).merged = <<>> /\ Joined(<<>>).buffer = <<>>
    BY <2>1
  <2>6. JoinedWell(V, <<>>)
    BY <2>2, <2>3, <2>4, <2>5 DEF JoinedWell
  <2>7. QED
    BY <2>1, <2>6
<1>2. ASSUME NEW s \in Seq(E), NEW l \in E, s \in Good PROVE Append(s, l) \in Good
  <2>1. PICK m \in Seq(Seq(V)), b \in Seq(V) :
          /\ Joined(s) = [merged |-> m, buffer |-> b] /\ <<>> \notin ToSet(m)
          /\ Concatenated(m) \o b = Concatenated(WordsOf(s))
    <3>1. Joined(s) \in JoinedStates(V) /\ JoinedWell(V, s)
      BY <1>2, JoinedFold
    <3>2. QED
      BY <3>1 DEF JoinedStates, JoinedWell
  <2> DEFINE c == b \o l.words
  <2>2. Joined(Append(s, l)) = IF Len(c) >= MinChunk THEN [merged |-> Append(m, c), buffer |-> <<>>]
                               ELSE [merged |-> m, buffer |-> c]
    <3>1. Joined(Append(s, l)) = JoinedBy(Joined(s), l)
      BY JoinedFold
    <3>2. \A d : [[merged |-> m, buffer |-> b] EXCEPT !.buffer = d] = [merged |-> m, buffer |-> d]
      OBVIOUS
    <3>3. Joined(s).merged = m /\ Joined(s).buffer = b
      BY <2>1
    <3>4. QED
      BY <2>1, <3>1, <3>2, <3>3 DEF JoinedBy
  <2>3. l.words \in Seq(V) /\ c \in Seq(V) /\ Append(s, l) \in Seq(E)
    BY ConcatProperties, AppendProperties
  <2>4. Concatenated(WordsOf(Append(s, l))) = Concatenated(WordsOf(s)) \o l.words
    <3>1. WordsOf(Append(s, l)) = Append(WordsOf(s), l.words) /\ WordsOf(s) \in Seq(Seq(V))
      BY WordsOfOneMore
    <3>2. QED
      BY <2>3, <3>1, ConcatenatedFold
  <2>5. Concatenated(m) \in Seq(V)
    BY ConcatenatedFold
  <2>6. Concatenated(m) \o c = Concatenated(WordsOf(Append(s, l)))
    <3>1. (Concatenated(m) \o b) \o l.words = Concatenated(m) \o (b \o l.words)
      BY <1>9, <2>3, <2>5
    <3>2. QED
      BY <2>1, <2>4, <3>1
  <2> HIDE DEF c
  <2>7. CASE Len(c) >= MinChunk
    <3>1. Joined(Append(s, l)) = [merged |-> Append(m, c), buffer |-> <<>>]
      BY <2>2, <2>7
    <3>2. c # <<>>
      <4>1. SUFFICES ASSUME c = <<>> PROVE FALSE
        OBVIOUS
      <4>2. Len(c) = 0
        BY <4>1, EmptySeq
      <4>3. QED
        BY <1>0, <2>7, <4>2
    <3>3. ToSet(Append(m, c)) = ToSet(m) \cup {c} /\ Append(m, c) \in Seq(Seq(V))
      BY <2>3, MembersOfOneMore, AppendProperties
    <3>4. Concatenated(Append(m, c)) = Concatenated(m) \o c
      BY <2>3, ConcatenatedFold
    <3>5. (Concatenated(m) \o c) \o <<>> = Concatenated(m) \o c
      <4>1. Concatenated(m) \o c \in Seq(V)
        BY <2>3, <2>5, ConcatProperties
      <4>2. QED
        BY <4>1, ConcatEmptySeq
    <3>6. <<>> \in Seq(V) /\ <<>> \notin ToSet(Append(m, c))
      BY <2>1, <3>2, <3>3, EmptySeq
    <3>7. JoinedWell(V, Append(s, l))
      BY <2>6, <3>1, <3>3, <3>4, <3>5, <3>6 DEF JoinedWell
    <3>8. QED
      BY <2>3, <3>7
  <2>8. CASE ~(Len(c) >= MinChunk)
    <3>1. Joined(Append(s, l)) = [merged |-> m, buffer |-> c]
      BY <2>2, <2>8
    <3>2. JoinedWell(V, Append(s, l))
      BY <2>1, <2>3, <2>6, <3>1 DEF JoinedWell
    <3>3. QED
      BY <2>3, <3>2
  <2>9. QED
    BY <2>7, <2>8
<1> HIDE DEF Good
<1>3. \A s \in Seq(E) : s \in Good
  BY <1>1, <1>2, SequenceInduction
<1>4. QED
  BY <1>3 DEF Good

LEMMA LastReplaced ==
  ASSUME NEW V, NEW f \in Seq(V), NEW c \in V, NEW d \in V
  PROVE  LET m == Append(f, c) IN m[Len(m)] = c /\ [m EXCEPT ![Len(m)] = d] = Append(f, d)
<1> DEFINE m == Append(f, c)
           a == Append(f, d)
           x == [m EXCEPT ![Len(m)] = d]
<1>1. PICK n \in Nat : n = Len(f)
  OBVIOUS
<1>2. m \in Seq(V) /\ Len(m) = n + 1 /\ m[n + 1] = c /\ \A i \in 1 .. n : m[i] = f[i]
  BY <1>1, AppendProperties
<1>3. a \in Seq(V) /\ Len(a) = n + 1 /\ a[n + 1] = d /\ \A i \in 1 .. n : a[i] = f[i]
  BY <1>1, AppendProperties
<1> HIDE DEF m, a
<1>4. n + 1 \in 1 .. Len(m)
  BY <1>2
<1>5. x = [m EXCEPT ![n + 1] = d]
  BY <1>2
<1> HIDE DEF x
<1>6. x \in Seq(V) /\ Len(x) = n + 1 /\ \A i \in 1 .. (n + 1) : x[i] = IF i = n + 1 THEN d ELSE m[i]
  BY <1>2, <1>4, <1>5, ExceptSeq
<1>7. \A i \in 1 .. (n + 1) : x[i] = a[i]
  <2>1. \A i \in 1 .. (n + 1) : i \in 1 .. n \/ i = n + 1
    OBVIOUS
  <2>2. QED
    BY <1>2, <1>3, <1>6, <2>1
<1>8. x = a
  BY <1>3, <1>6, <1>7, SeqEqual
<1>9. QED
  BY <1>2, <1>8 DEF m, a, x

LEMMA MergedKeepsTheText ==
  ASSUME NEW V, NEW E, \A l \in E : l.words \in Seq(V), NEW lines \in Seq(E)
  PROVE  /\ Merged(lines) \in Seq(Seq(V)) /\ <<>> \notin ToSet(Merged(lines))
         /\ Concatenated(Merged(lines)) = Concatenated(WordsOf(lines))
<1>0. \A r \in Seq(Seq(V)), x \in Seq(V) : Append(r, x) \in Seq(Seq(V)) /\ ToSet(Append(r, x)) = ToSet(r) \cup {x}
  BY AppendProperties, MembersOfOneMore
<1>1. JoinedWell(V, lines) /\ Joined(lines) \in JoinedStates(V)
  BY JoinedKeepsTheText, JoinedFold
<1>2. PICK m \in Seq(Seq(V)), b \in Seq(V) :
        /\ Joined(lines) = [merged |-> m, buffer |-> b] /\ <<>> \notin ToSet(m)
        /\ Concatenated(m) \o b = Concatenated(WordsOf(lines))
  BY <1>1 DEF JoinedStates, JoinedWell
<1>3. Concatenated(m) \in Seq(V)
  BY ConcatenatedFold
<1>4. CASE b = <<>>
  <2>1. Merged(lines) = m
    BY <1>2, <1>4 DEF Merged
  <2>2. Concatenated(m) \o b = Concatenated(m)
    BY <1>3, <1>4, ConcatEmptySeq
  <2>3. QED
    BY <1>2, <2>1, <2>2
<1>5. CASE b # <<>> /\ m = <<>>
  <2>1. Merged(lines) = <<b>>
    BY <1>2, <1>5 DEF Merged
  <2>2. Concatenated(<<b>>) = b
    BY ConcatenatedOfOne
  <2>3. Concatenated(m) = <<>>
    BY <1>5, ConcatenatedFold
  <2>4. Concatenated(m) \o b = b
    BY <2>3, ConcatEmptySeq
  <2>5. <<b>> \in Seq(Seq(V)) /\ ToSet(<<b>>) = {b}
    <3>1. <<>> \in Seq(Seq(V)) /\ <<b>> = Append(<<>>, b) /\ ToSet(<<>>) = {}
      BY EmptySeq DEF ToSet
    <3>2. Append(<<>>, b) \in Seq(Seq(V)) /\ ToSet(Append(<<>>, b)) = {} \cup {b}
      BY <1>0, <3>1
    <3>3. QED
      BY <3>1, <3>2
  <2>6. Concatenated(Merged(lines)) = Concatenated(WordsOf(lines))
    BY <1>2, <2>1, <2>2, <2>4
  <2>7. QED
    BY <1>5, <2>1, <2>5, <2>6
<1>6. CASE b # <<>> /\ m # <<>>
  <2>1. PICK f \in Seq(Seq(V)), c \in Seq(V) : m = Append(f, c)
    BY <1>6, SequenceEmptyOrAppend
  <2>2. c \o b \in Seq(V) /\ c \o b # <<>>
    <3>1. c \o b \in Seq(V) /\ (c \o b = <<>> => b = <<>>)
      BY ConcatProperties, ConcatEqualIffEmpty
    <3>2. QED
      BY <1>6, <3>1
  <2>3. Merged(lines) = [m EXCEPT ![Len(m)] = m[Len(m)] \o b]
    BY <1>2, <1>6 DEF Merged
  <2>4. Merged(lines) = Append(f, c \o b)
    <3>1. \A d \in Seq(V) : m[Len(m)] = c /\ [m EXCEPT ![Len(m)] = d] = Append(f, d)
      <4>1. ASSUME NEW d \in Seq(V)
            PROVE  Append(f, c)[Len(Append(f, c))] = c /\ [Append(f, c) EXCEPT ![Len(Append(f, c))] = d] = Append(f, d)
        BY LastReplaced
      <4>2. QED
        BY <2>1, <4>1
    <3>2. QED
      BY <2>2, <2>3, <3>1
  <2>5. ToSet(m) = ToSet(f) \cup {c}
    BY <1>0, <2>1
  <2>6. ToSet(Append(f, c \o b)) = ToSet(f) \cup {c \o b} /\ Append(f, c \o b) \in Seq(Seq(V))
    BY <1>0, <2>2
  <2>7. Concatenated(f) \in Seq(V) /\ Concatenated(m) = Concatenated(f) \o c
    BY <2>1, ConcatenatedFold
  <2>8. Concatenated(Append(f, c \o b)) = Concatenated(f) \o (c \o b)
    BY <2>2, ConcatenatedFold
  <2>9. (Concatenated(f) \o c) \o b = Concatenated(f) \o (c \o b)
    BY <2>7, ConcatAssociative
  <2>10. QED
    BY <1>2, <2>2, <2>4, <2>5, <2>6, <2>7, <2>8, <2>9
<1>7. QED
  BY <1>4, <1>5, <1>6

-----------------------------------------------------------------------------
(* Sections: the sentences of an overlong chunk *)

Distinct(s) == \A i, j \in DOMAIN s : s[i] = s[j] => i = j

LEMMA DistinctOfBoth ==
  ASSUME NEW V, NEW s \in Seq(V), NEW t \in Seq(V), Distinct(s \o t)
  PROVE  Distinct(s) /\ Distinct(t) /\ ToSet(s) \cap ToSet(t) = {}
<1> DEFINE u == s \o t
<1>1. PICK m \in Nat, n \in Nat : m = Len(s) /\ DOMAIN s = 1 .. m /\ n = Len(t) /\ DOMAIN t = 1 .. n
  OBVIOUS
<1>2. u \in Seq(V) /\ Len(u) = m + n
  BY <1>1, ConcatProperties
<1>3. /\ \A i \in 1 .. m : u[i] = s[i] /\ i \in DOMAIN u
      /\ \A i \in 1 .. n : u[m + i] = t[i] /\ m + i \in DOMAIN u
  BY <1>1, <1>2, ConcatProperties
<1> HIDE DEF u
<1>4. \A i, j \in DOMAIN u : u[i] = u[j] => i = j
  BY DEF Distinct, u
<1>5. Distinct(s)
  BY <1>1, <1>3, <1>4 DEF Distinct
<1>6. Distinct(t)
  <2>1. ASSUME NEW i \in 1 .. n, NEW j \in 1 .. n, t[i] = t[j] PROVE i = j
    <3>1. m + i = m + j
      BY <1>3, <1>4, <2>1
    <3>2. QED
      BY <1>1, <3>1
  <2>2. QED
    BY <1>1, <2>1 DEF Distinct
<1>7. ToSet(s) \cap ToSet(t) = {}
  <2>1. ASSUME NEW i \in 1 .. m, NEW j \in 1 .. n PROVE s[i] # t[j]
    <3>1. i # m + j
      BY <1>1
    <3>2. QED
      BY <1>3, <1>4, <3>1
  <2>2. QED
    BY <1>1, <2>1 DEF ToSet
<1>8. QED
  BY <1>5, <1>6, <1>7

(* A stop at its last word at most. *)
OneSentence(s) == s # <<>> /\ \A i \in 1 .. (Len(s) - 1) : ~s[i].stop

Stopless(s) == \A i \in DOMAIN s : ~s[i].stop

EndsInAStop(s) == s # <<>> => s[Len(s)].stop

PunctuatedWell(V, s) ==
  LET read == Punctuated(s) IN
  /\ read.done \in Seq(Seq(V)) /\ read.open \in Seq(V)
  /\ Concatenated(read.done) \o read.open = s
  /\ \A d \in ToSet(read.done) : OneSentence(d)
  /\ Stopless(read.open) /\ EndsInAStop(Concatenated(read.done))

LEMMA OneMoreWord ==
  ASSUME NEW V, NEW s \in Seq(V), NEW w \in V, Stopless(s)
  PROVE  OneSentence(Append(s, w)) /\ (~w.stop => Stopless(Append(s, w)))
<1>1. PICK n \in Nat : n = Len(s) /\ DOMAIN s = 1 .. n
  OBVIOUS
<1> DEFINE t == Append(s, w)
<1>2. DOMAIN t = 1 .. (n + 1) /\ Len(t) = n + 1 /\ t[n + 1] = w /\ \A i \in 1 .. n : t[i] = s[i]
  BY <1>1, AppendProperties
<1>3. t # <<>>
  BY AppendProperties
<1> HIDE DEF t
<1>4. \A i : i \in 1 .. (n + 1) => i \in 1 .. n \/ i = n + 1
  BY <1>1
<1>5. Stopless(t) \/ w.stop
  BY <1>1, <1>2, <1>4 DEF Stopless
<1>6. Len(t) - 1 = n
  BY <1>2
<1>7. OneSentence(t)
  BY <1>1, <1>2, <1>3, <1>6 DEF Stopless, OneSentence
<1>8. QED
  BY <1>5, <1>7 DEF t

LEMMA EndOfBoth ==
  ASSUME NEW V, NEW s \in Seq(V), NEW t \in Seq(V), NEW w \in V
  PROVE  LET u == s \o Append(t, w) IN u # <<>> /\ u[Len(u)] = w
<1> DEFINE u == Append(s \o t, w)
<1>1. s \o t \in Seq(V) /\ s \o Append(t, w) = u
  BY ConcatProperties, ConcatOneMore
<1>2. u # <<>> /\ u[Len(u)] = w
  BY <1>1, AppendProperties
<1>3. QED
  BY <1>1, <1>2

LEMMA PunctuatedKeepsTheText ==
  ASSUME NEW V, \A w \in V : w.stop \in BOOLEAN, NEW chunk \in Seq(V)
  PROVE  PunctuatedWell(V, chunk)
<1>8. \A r \in Seq(Seq(V)), x \in Seq(V) : Append(r, x) \in Seq(Seq(V)) /\ ToSet(Append(r, x)) = ToSet(r) \cup {x}
  BY AppendProperties, MembersOfOneMore
<1>9. \A x, y, z \in Seq(V) : (x \o y) \o z = x \o (y \o z)
  BY ConcatAssociative
<1> DEFINE Good == {s \in Seq(V) : PunctuatedWell(V, s)}
<1>1. <<>> \in Good
  <2>1. Punctuated(<<>>) = [done |-> <<>>, open |-> <<>>] /\ <<>> \in Seq(V) /\ <<>> \in Seq(Seq(V))
    BY EmptySeq, PunctuatedFold
  <2>2. Concatenated(<<>>) = <<>> /\ ToSet(<<>>) = {} /\ DOMAIN <<>> = {}
    BY ConcatenatedFold, EmptySeq DEF ToSet
  <2>3. <<>> \o <<>> = <<>>
    BY <2>1, ConcatEmptySeq
  <2>4. Punctuated(<<>>).done = <<>> /\ Punctuated(<<>>).open = <<>>
    BY <2>1
  <2>5. Stopless(<<>>) /\ EndsInAStop(<<>>)
    BY <2>2 DEF Stopless, EndsInAStop
  <2>6. PunctuatedWell(V, <<>>)
    BY <2>1, <2>2, <2>3, <2>4, <2>5 DEF PunctuatedWell
  <2>7. QED
    BY <2>1, <2>6
<1>2. ASSUME NEW s \in Seq(V), NEW w \in V, s \in Good PROVE Append(s, w) \in Good
  <2>1. PICK d \in Seq(Seq(V)), o \in Seq(V) :
          /\ Punctuated(s) = [done |-> d, open |-> o] /\ Concatenated(d) \o o = s
          /\ \A x \in ToSet(d) : OneSentence(x)
          /\ Stopless(o) /\ EndsInAStop(Concatenated(d))
    <3>1. Punctuated(s) \in PunctuatedStates(V) /\ PunctuatedWell(V, s)
      BY <1>2, PunctuatedFold
    <3>2. QED
      BY <3>1 DEF PunctuatedStates, PunctuatedWell
  <2> DEFINE c == Append(o, w)
  <2>2. Punctuated(Append(s, w)) = IF w.stop THEN [done |-> Append(d, c), open |-> <<>>] ELSE [done |-> d, open |-> c]
    <3>1. Punctuated(Append(s, w)) = PunctuatedBy(Punctuated(s), w)
      BY PunctuatedFold
    <3>2. \A x : [[done |-> d, open |-> o] EXCEPT !.open = x] = [done |-> d, open |-> x]
      OBVIOUS
    <3>3. Punctuated(s).done = d /\ Punctuated(s).open = o
      BY <2>1
    <3>4. PunctuatedBy(Punctuated(s), w) = IF w.stop THEN [done |-> Append(d, c), open |-> <<>>]
                                           ELSE [[done |-> d, open |-> o] EXCEPT !.open = c]
      BY <2>1, <3>3 DEF PunctuatedBy
    <3>5. QED
      BY <3>1, <3>2, <3>4
  <2>3. c \in Seq(V) /\ Append(s, w) \in Seq(V) /\ Concatenated(d) \in Seq(V)
    BY AppendProperties, ConcatenatedFold
  <2>4. Concatenated(d) \o c = Append(s, w)
    <3>1. Concatenated(d) \o Append(o, w) = Append(Concatenated(d) \o o, w)
      BY <2>3, ConcatOneMore
    <3>2. QED
      BY <2>1, <3>1
  <2>5. OneSentence(c) /\ (~w.stop => Stopless(c))
    BY <2>1, OneMoreWord
  <2>6. (Concatenated(d) \o c)[Len(Concatenated(d) \o c)] = w
    BY <2>3, EndOfBoth
  <2> HIDE DEF c
  <2>7. CASE w.stop
    <3>1. Punctuated(Append(s, w)).done = Append(d, c) /\ Punctuated(Append(s, w)).open = <<>>
      BY <2>2, <2>7
    <3>2. Concatenated(Append(d, c)) = Concatenated(d) \o c
      BY <2>3, ConcatenatedFold
    <3>3. (Concatenated(d) \o c) \o <<>> = Concatenated(d) \o c
      <4>1. Concatenated(d) \o c \in Seq(V)
        BY <2>3, ConcatProperties
      <4>2. QED
        BY <4>1, ConcatEmptySeq
    <3>4. EndsInAStop(Concatenated(d) \o c)
      BY <2>6, <2>7 DEF EndsInAStop
    <3>5. Stopless(<<>>) /\ <<>> \in Seq(V)
      BY EmptySeq DEF Stopless
    <3>6. ToSet(Append(d, c)) = ToSet(d) \cup {c} /\ Append(d, c) \in Seq(Seq(V))
      BY <1>8, <2>3
    <3>7. PunctuatedWell(V, Append(s, w))
      BY <2>1, <2>4, <2>5, <3>1, <3>2, <3>3, <3>4, <3>5, <3>6 DEF PunctuatedWell
    <3>8. QED
      BY <2>3, <3>7
  <2>8. CASE ~w.stop
    <3>1. Punctuated(Append(s, w)).done = d /\ Punctuated(Append(s, w)).open = c
      BY <2>2, <2>8
    <3>2. PunctuatedWell(V, Append(s, w))
      BY <2>1, <2>3, <2>4, <2>5, <2>8, <3>1 DEF PunctuatedWell
    <3>3. QED
      BY <2>3, <3>2
  <2>9. QED
    BY <2>7, <2>8
<1> HIDE DEF Good
<1>3. \A s \in Seq(V) : s \in Good
  BY <1>1, <1>2, SequenceInduction
<1>4. QED
  BY <1>3 DEF Good

LEMMA NothingPassedOver ==
  ASSUME NEW V, NEW d \in Seq(V), EndsInAStop(d)
  PROVE  Unpunctuated(d) = {}
<1>1. PICK n \in Nat : n = Len(d)
  OBVIOUS
<1>2. ASSUME NEW i \in 1 .. (n - 1), \A k \in i .. n : ~d[k].stop PROVE FALSE
  <2>1. n \in i .. n /\ d # <<>>
    BY <1>1, EmptySeq
  <2>2. QED
    BY <1>1, <1>2, <2>1 DEF EndsInAStop
<1>3. {i \in 1 .. (n - 1) : \A k \in i .. n : ~d[k].stop} = {}
  BY <1>2
<1>4. QED
  BY <1>1, <1>3 DEF Unpunctuated

LEMMA LastWordsPassedOver ==
  ASSUME NEW V, NEW d \in Seq(V), NEW f \in Seq(V), NEW x \in V,
         EndsInAStop(d), Stopless(Append(f, x)), Len(d \o Append(f, x)) > MaxChunk
  PROVE  Unpunctuated(d \o Append(f, x)) = ToSet(f)
<1> DEFINE o == Append(f, x)
           u == d \o o
<1>1. PICK p \in Nat, q \in Nat : p = Len(d) /\ q = Len(f) /\ DOMAIN f = 1 .. q
  OBVIOUS
<1>2. o \in Seq(V) /\ Len(o) = q + 1 /\ DOMAIN o = 1 .. (q + 1) /\ \A i \in 1 .. q : o[i] = f[i]
  BY <1>1, AppendProperties
<1> HIDE DEF o
<1>3. Len(u) = p + q + 1 /\ \A i \in 1 .. (p + q + 1) : u[i] = IF i <= p THEN d[i] ELSE o[i - p]
  <2>1. Len(d \o o) = Len(d) + Len(o) /\ \A i \in 1 .. (Len(d) + Len(o)) : (d \o o)[i] = IF i <= Len(d) THEN d[i] ELSE o[i - Len(d)]
    BY <1>2, ConcatProperties
  <2>2. Len(d) + Len(o) = p + q + 1
    BY <1>1, <1>2
  <2>3. QED
    BY <1>1, <2>1, <2>2
<1> HIDE DEF u
<1>4. ASSUME NEW i \in 1 .. (p + q) PROVE (\A k \in i .. (p + q + 1) : ~u[k].stop) <=> i > p
  <2>1. CASE i <= p
    <3>1. p \in i .. (p + q + 1) /\ p \in 1 .. (p + q + 1) /\ p <= p /\ d # <<>>
      BY <1>1, <2>1, EmptySeq
    <3>2. u[p].stop
      BY <1>1, <1>3, <3>1 DEF EndsInAStop
    <3>3. QED
      BY <1>1, <2>1, <3>1, <3>2
  <2>2. CASE i > p
    <3>1. ASSUME NEW k \in i .. (p + q + 1) PROVE ~u[k].stop
      <4>1. k \in 1 .. (p + q + 1) /\ ~(k <= p) /\ k - p \in 1 .. (q + 1)
        BY <2>2
      <4>2. u[k] = o[k - p]
        BY <1>3, <4>1
      <4>3. ~o[k - p].stop
        BY <1>2, <4>1 DEF Stopless, o
      <4>4. QED
        BY <4>2, <4>3
    <3>2. QED
      BY <2>2, <3>1
  <2>3. QED
    BY <2>1, <2>2
<1>5. {i \in 1 .. (p + q) : \A k \in i .. (p + q + 1) : ~u[k].stop} = (p + 1) .. (p + q)
  <2>1. \A i : i \in (p + 1) .. (p + q) <=> i \in 1 .. (p + q) /\ i > p
    OBVIOUS
  <2>2. QED
    BY <1>4, <2>1
<1>6. Unpunctuated(u) = {u[i] : i \in (p + 1) .. (p + q)}
  <2>1. ~(Len(u) <= MaxChunk)
    BY <1>3, ChunkAssumption DEF u, o
  <2>2. Len(u) - 1 = p + q
    BY <1>3
  <2>3. QED
    BY <1>3, <1>5, <2>1, <2>2 DEF Unpunctuated
<1>7. \A i \in (p + 1) .. (p + q) : i - p \in 1 .. q /\ u[i] = f[i - p]
  <2> TAKE i \in (p + 1) .. (p + q)
  <2>1. i - p \in 1 .. q /\ i \in 1 .. (p + q + 1) /\ ~(i <= p)
    OBVIOUS
  <2>2. QED
    BY <1>2, <1>3, <2>1
<1>8. \A j \in 1 .. q : p + j \in (p + 1) .. (p + q) /\ u[p + j] = f[j]
  <2> TAKE j \in 1 .. q
  <2>1. p + j \in (p + 1) .. (p + q) /\ (p + j) - p = j
    OBVIOUS
  <2>2. QED
    BY <1>7, <2>1
<1>9. ToSet(f) = {f[j] : j \in 1 .. q}
  BY <1>1 DEF ToSet
<1>10. Unpunctuated(u) = ToSet(f)
  <2>1. ASSUME NEW i \in (p + 1) .. (p + q) PROVE u[i] \in ToSet(f)
    BY <1>7, <1>9
  <2>2. ASSUME NEW j \in 1 .. q PROVE f[j] \in Unpunctuated(u)
    <3>1. p + j \in (p + 1) .. (p + q) /\ u[p + j] = f[j]
      BY <1>8
    <3> HIDE DEF u
    <3>2. QED
      BY <1>6, <3>1
  <2>3. QED
    BY <1>6, <1>9, <2>1, <2>2
<1>11. QED
  BY <1>10 DEF u, o

SentencesWell(V, chunk, P) ==
  /\ Sentences(chunk) \in Seq({s \in Seq(V) : OneSentence(s)})
  /\ Concatenated(Sentences(chunk)) = Kept(chunk, P)

LEMMA SubsetSequence ==
  ASSUME NEW V, NEW s \in Seq(V), NEW W, \A x \in ToSet(s) : x \in W
  PROVE  s \in Seq(W)
<1>1. PICK n \in Nat : n = Len(s) /\ s \in [1 .. n -> V]
  OBVIOUS
<1>2. \A i \in 1 .. n : s[i] \in W
  BY <1>1 DEF ToSet
<1>3. s \in [1 .. n -> W]
  BY <1>1, <1>2
<1>4. QED
  BY <1>3

LEMMA SentencesKeepTheText ==
  ASSUME NEW V, \A w \in V : w.stop \in BOOLEAN, NEW chunk \in Seq(V), Distinct(chunk), Len(chunk) > MaxChunk,
         NEW P, ToSet(chunk) \cap P = Unpunctuated(chunk)
  PROVE  SentencesWell(V, chunk, P)
<1> DEFINE O == {s \in Seq(V) : OneSentence(s)}
<1>1. PunctuatedWell(V, chunk) /\ Punctuated(chunk) \in PunctuatedStates(V)
  BY PunctuatedKeepsTheText, PunctuatedFold
<1>2. PICK d \in Seq(Seq(V)), o \in Seq(V) :
        /\ Punctuated(chunk).done = d /\ Punctuated(chunk).open = o /\ Concatenated(d) \o o = chunk
        /\ \A x \in ToSet(d) : OneSentence(x)
        /\ Stopless(o) /\ EndsInAStop(Concatenated(d))
  BY <1>1 DEF PunctuatedWell, PunctuatedStates
<1>3. Concatenated(d) \in Seq(V)
  BY ConcatenatedFold
<1>4. d \in Seq(O)
  <2>1. ToSet(d) \subseteq Seq(V)
    BY DEF ToSet
  <2>2. QED
    BY <1>2, <2>1, SubsetSequence
<1>5. CASE o = <<>>
  <2>1. Sentences(chunk) = d
    BY <1>2, <1>5 DEF Sentences
  <2>2. Concatenated(d) = chunk
    BY <1>2, <1>3, <1>5, ConcatEmptySeq
  <2>3. Unpunctuated(chunk) = {}
    BY <1>2, <2>2, NothingPassedOver
  <2>4. Kept(chunk, P) = chunk
    BY <2>3, KeptAllOrNone
  <2>5. QED
    BY <1>4, <2>1, <2>2, <2>4 DEF SentencesWell
<1>6. CASE o # <<>>
  <2>1. PICK f \in Seq(V), x \in V : o = Append(f, x)
    BY <1>6, SequenceEmptyOrAppend
  <2>2. Last(o) = x
    <3>1. Append(f, x)[Len(Append(f, x))] = x
      BY AppendProperties
    <3>2. QED
      BY <2>1, <3>1 DEF Last
  <2>3. Sentences(chunk) = Append(d, <<x>>)
    BY <1>2, <1>6, <2>2 DEF Sentences
  <2>4. <<x>> \in O
    <3>1. <<x>> \in Seq(V) /\ <<x>> # <<>> /\ Len(<<x>>) = 1
      OBVIOUS
    <3>2. 1 .. (Len(<<x>>) - 1) = {}
      BY <3>1
    <3>3. QED
      BY <3>1, <3>2 DEF OneSentence
  <2>5. Sentences(chunk) \in Seq(O)
    BY <1>4, <2>3, <2>4, AppendProperties
  <2>6. Unpunctuated(chunk) = ToSet(f)
    <3>1. EndsInAStop(Concatenated(d)) /\ Stopless(Append(f, x)) /\ Len(Concatenated(d) \o Append(f, x)) > MaxChunk
      BY <1>2, <2>1
    <3>2. Unpunctuated(Concatenated(d) \o Append(f, x)) = ToSet(f)
      BY <1>3, <3>1, LastWordsPassedOver
    <3>3. QED
      BY <1>2, <2>1, <3>2
  <2>7. Distinct(o) /\ ToSet(Concatenated(d)) \cap ToSet(o) = {}
    <3>1. Distinct(Concatenated(d) \o o)
      BY <1>2
    <3>2. QED
      BY <1>3, <3>1, DistinctOfBoth
  <2>8. ToSet(o) = ToSet(f) \cup {x}
    BY <2>1, MembersOfOneMore
  <2>9. x \notin ToSet(f)
    <3>1. o = f \o <<x>> /\ <<x>> \in Seq(V)
      BY <2>1, AppendIsConcat
    <3>2. ToSet(f) \cap ToSet(<<x>>) = {}
      BY <2>7, <3>1, DistinctOfBoth
    <3>3. x \in ToSet(<<x>>)
      BY DEF ToSet
    <3>4. QED
      BY <3>2, <3>3
  <2>10. ToSet(chunk) = ToSet(Concatenated(d)) \cup ToSet(o)
    <3>1. ToSet(Concatenated(d) \o o) = ToSet(Concatenated(d)) \cup ToSet(o)
      BY <1>3, MembersOfBoth
    <3>2. QED
      BY <1>2, <3>1
  <2>11. Kept(Concatenated(d), P) = Concatenated(d)
    <3>1. ToSet(Concatenated(d)) \cap P = {}
      BY <2>6, <2>7, <2>8, <2>10
    <3>2. QED
      BY <1>3, <3>1, KeptAllOrNone
  <2>12. Kept(f, P) = <<>>
    <3>1. ToSet(f) \subseteq P
      BY <2>6
    <3>2. QED
      BY <3>1, KeptAllOrNone
  <2>13. x \notin P
    BY <2>6, <2>8, <2>9, <2>10
  <2>14. Kept(o, P) = <<x>>
    <3>1. Kept(Append(f, x), P) = IF x \in P THEN Kept(f, P) ELSE Append(Kept(f, P), x)
      BY KeptOfOneMore
    <3>2. Append(<<>>, x) = <<x>>
      OBVIOUS
    <3>3. QED
      BY <2>1, <2>12, <2>13, <3>1, <3>2
  <2>15. Kept(chunk, P) = Concatenated(d) \o <<x>>
    <3>1. Kept(Concatenated(d) \o o, P) = Kept(Concatenated(d), P) \o Kept(o, P)
      BY <1>3, KeptOfBoth
    <3>2. QED
      BY <1>2, <2>11, <2>14, <3>1
  <2>16. Concatenated(Append(d, <<x>>)) = Concatenated(d) \o <<x>>
    BY <2>4, ConcatenatedFold
  <2>17. QED
    BY <2>3, <2>5, <2>15, <2>16 DEF SentencesWell
<1>7. QED
  BY <1>5, <1>6

-----------------------------------------------------------------------------
(* Sections: pieces no longer than a sentence or the maximum *)

Fine(c) == c # <<>> /\ (Len(c) > MaxChunk => \A i \in 1 .. (Len(c) - 1) : ~c[i].stop)

LEMMA SentencesAreFine == \A s : OneSentence(s) => Fine(s)
BY DEF OneSentence, Fine

CutWell(V, sentences) ==
  LET cut == Cut(sentences) IN
  /\ cut.done \in Seq(Seq(V)) /\ cut.sub \in Seq(V)
  /\ Concatenated(cut.done) \o cut.sub = Concatenated(sentences)
  /\ \A c \in ToSet(cut.done) : Fine(c)
  /\ cut.sub # <<>> => Fine(cut.sub)

LEMMA CutKeepsTheText ==
  ASSUME NEW V, NEW sentences \in Seq({s \in Seq(V) : OneSentence(s)})
  PROVE  CutWell(V, sentences)
<1> DEFINE O == {s \in Seq(V) : OneSentence(s)}
           Good == {ss \in Seq(O) : CutWell(V, ss)}
<1>7. \A ss \in Seq(O) : ss \in Seq(Seq(V))
  <2>1. O \subseteq Seq(V)
    OBVIOUS
  <2> HIDE DEF O
  <2>2. QED
    BY <2>1, SeqMonotonic
<1>8. \A r \in Seq(Seq(V)), x \in Seq(V) : Append(r, x) \in Seq(Seq(V)) /\ ToSet(Append(r, x)) = ToSet(r) \cup {x}
  BY AppendProperties, MembersOfOneMore
<1>9. \A x, y, z \in Seq(V) : (x \o y) \o z = x \o (y \o z)
  BY ConcatAssociative
<1>10. \A r \in Seq(Seq(V)), x \in Seq(V) : Concatenated(Append(r, x)) = Concatenated(r) \o x /\ Concatenated(r) \in Seq(V)
  BY ConcatenatedFold
<1>11. MaxChunk \in Nat
  BY ChunkAssumption
<1>1. <<>> \in Good
  <2>1. Cut(<<>>) = [done |-> <<>>, sub |-> <<>>] /\ <<>> \in Seq(O) /\ <<>> \in Seq(Seq(V)) /\ <<>> \in Seq(V)
    BY EmptySeq, CutFold
  <2>2. Concatenated(<<>>) = <<>> /\ ToSet(<<>>) = {}
    BY ConcatenatedFold, EmptySeq DEF ToSet
  <2>3. <<>> \o <<>> = <<>>
    BY <2>1, ConcatEmptySeq
  <2>4. Cut(<<>>).done = <<>> /\ Cut(<<>>).sub = <<>>
    BY <2>1
  <2>5. CutWell(V, <<>>)
    BY <2>1, <2>2, <2>3, <2>4 DEF CutWell
  <2>6. QED
    BY <2>1, <2>5
<1>2. ASSUME NEW ss \in Seq(O), NEW s \in O, ss \in Good PROVE Append(ss, s) \in Good
  <2>1. PICK d \in Seq(Seq(V)), u \in Seq(V) :
          /\ Cut(ss) = [done |-> d, sub |-> u] /\ Concatenated(d) \o u = Concatenated(ss)
          /\ \A c \in ToSet(d) : Fine(c)
          /\ u # <<>> => Fine(u)
    <3>1. Cut(ss) \in CutStates(V) /\ CutWell(V, ss)
      BY <1>2, <1>7, CutFold
    <3>2. QED
      BY <3>1 DEF CutStates, CutWell
  <2>2. s \in Seq(V) /\ OneSentence(s) /\ Fine(s) /\ s # <<>>
    BY SentencesAreFine DEF OneSentence
  <2>3. Cut(Append(ss, s)) = IF Len(u) + Len(s) > MaxChunk /\ u # <<>> THEN [done |-> Append(d, u), sub |-> s]
                             ELSE [done |-> d, sub |-> u \o s]
    <3>1. ss \in Seq(Seq(V)) /\ s \in Seq(V)
      BY <1>7, <2>2
    <3>2. Cut(Append(ss, s)) = CutBy(Cut(ss), s)
      BY <3>1, CutFold
    <3>3. \A x : [[done |-> d, sub |-> u] EXCEPT !.sub = x] = [done |-> d, sub |-> x]
      OBVIOUS
    <3>4. Cut(ss).done = d /\ Cut(ss).sub = u
      BY <2>1
    <3>5. CutBy(Cut(ss), s) = IF Len(u) + Len(s) > MaxChunk /\ u # <<>> THEN [done |-> Append(d, u), sub |-> s]
                              ELSE [[done |-> d, sub |-> u] EXCEPT !.sub = u \o s]
      BY <2>1, <3>4 DEF CutBy
    <3>6. QED
      BY <3>2, <3>3, <3>5
  <2>4. Append(ss, s) \in Seq(O) /\ ss \in Seq(Seq(V))
    BY <1>7, AppendProperties
  <2>5. Concatenated(Append(ss, s)) = Concatenated(ss) \o s /\ Concatenated(d) \in Seq(V)
    BY <1>10, <2>2, <2>4
  <2>6. u \o s \in Seq(V) /\ Concatenated(d) \o u \in Seq(V)
    BY <2>2, <2>5, ConcatProperties
  <2>7. CASE Len(u) + Len(s) > MaxChunk /\ u # <<>>
    <3>1. Cut(Append(ss, s)).done = Append(d, u) /\ Cut(Append(ss, s)).sub = s
      BY <2>3, <2>7
    <3>2. Concatenated(Append(d, u)) = Concatenated(d) \o u
      BY <1>10
    <3>3. ToSet(Append(d, u)) = ToSet(d) \cup {u} /\ Append(d, u) \in Seq(Seq(V))
      BY <1>8
    <3>4. CutWell(V, Append(ss, s))
      BY <2>1, <2>2, <2>5, <2>7, <3>1, <3>2, <3>3 DEF CutWell
    <3>5. QED
      BY <2>4, <3>4
  <2>8. CASE ~(Len(u) + Len(s) > MaxChunk /\ u # <<>>)
    <3>1. Cut(Append(ss, s)).done = d /\ Cut(Append(ss, s)).sub = u \o s
      BY <2>3, <2>8
    <3>2. Fine(u \o s)
      <4>1. CASE u = <<>>
        <5>1. u \o s = s
          BY <2>2, <4>1, ConcatEmptySeq
        <5>2. QED
          BY <2>2, <5>1
      <4>2. CASE u # <<>>
        <5>1. Len(u) \in Nat /\ Len(s) \in Nat /\ Len(u \o s) = Len(u) + Len(s)
          BY <2>2, ConcatProperties
        <5>2. ~(Len(u \o s) > MaxChunk)
          BY <1>11, <2>8, <4>2, <5>1
        <5>3. u \o s # <<>>
          BY <2>2, <4>2, ConcatEqualIffEmpty
        <5>4. QED
          BY <5>2, <5>3 DEF Fine
      <4>3. QED
        BY <4>1, <4>2
    <3>3. (Concatenated(d) \o u) \o s = Concatenated(d) \o (u \o s)
      BY <1>9, <2>2, <2>5
    <3>4. CutWell(V, Append(ss, s))
      BY <2>1, <2>5, <2>6, <3>1, <3>2, <3>3 DEF CutWell
    <3>5. QED
      BY <2>4, <3>4
  <2>9. QED
    BY <2>7, <2>8
<1> HIDE DEF Good, O
<1>3. \A ss \in Seq(O) : ss \in Good
  BY <1>1, <1>2, SequenceInduction
<1>4. QED
  BY <1>3 DEF Good, O

SplitWell(V, chunk, P) ==
  /\ Split(chunk) \in Seq(Seq(V))
  /\ Concatenated(Split(chunk)) = Kept(chunk, P)
  /\ \A c \in ToSet(Split(chunk)) : Fine(c)

LEMMA SplitKeepsTheText ==
  ASSUME NEW V, \A w \in V : w.stop \in BOOLEAN, NEW chunk \in Seq(V), Distinct(chunk), chunk # <<>>,
         NEW P, ToSet(chunk) \cap P = Unpunctuated(chunk)
  PROVE  SplitWell(V, chunk, P)
<1>0. MaxChunk \in Nat /\ Len(chunk) \in Nat
  BY ChunkAssumption
<1>8. \A r \in Seq(Seq(V)), x \in Seq(V) : Append(r, x) \in Seq(Seq(V)) /\ ToSet(Append(r, x)) = ToSet(r) \cup {x}
  BY AppendProperties, MembersOfOneMore
<1>10. \A r \in Seq(Seq(V)), x \in Seq(V) : Concatenated(Append(r, x)) = Concatenated(r) \o x /\ Concatenated(r) \in Seq(V)
  BY ConcatenatedFold
<1>1. CASE Len(chunk) <= MaxChunk
  <2>1. Split(chunk) = <<chunk>> /\ Unpunctuated(chunk) = {}
    BY <1>1 DEF Split, Unpunctuated
  <2>2. <<>> \in Seq(Seq(V)) /\ <<chunk>> = Append(<<>>, chunk) /\ ToSet(<<>>) = {}
    BY EmptySeq DEF ToSet
  <2>3. Append(<<>>, chunk) \in Seq(Seq(V)) /\ ToSet(Append(<<>>, chunk)) = {} \cup {chunk}
    BY <1>8, <2>2
  <2>4. Concatenated(<<chunk>>) = chunk
    BY ConcatenatedOfOne
  <2>5. Kept(chunk, P) = chunk
    BY <2>1, KeptAllOrNone
  <2>6. Fine(chunk)
    BY <1>0, <1>1 DEF Fine
  <2>7. QED
    BY <2>1, <2>2, <2>3, <2>4, <2>5, <2>6 DEF SplitWell
<1>2. CASE ~(Len(chunk) <= MaxChunk)
  <2>1. Len(chunk) > MaxChunk
    BY <1>0, <1>2
  <2>2. SentencesWell(V, chunk, P)
    BY <2>1, SentencesKeepTheText
  <2>3. CutWell(V, Sentences(chunk)) /\ Concatenated(Sentences(chunk)) = Kept(chunk, P)
    BY <2>2, CutKeepsTheText DEF SentencesWell
  <2>4. PICK d \in Seq(Seq(V)), u \in Seq(V) :
          /\ Cut(Sentences(chunk)).done = d /\ Cut(Sentences(chunk)).sub = u
          /\ Concatenated(d) \o u = Kept(chunk, P)
          /\ \A c \in ToSet(d) : Fine(c)
          /\ u # <<>> => Fine(u)
    BY <2>3 DEF CutWell
  <2>5. Split(chunk) = IF u = <<>> THEN d ELSE Append(d, u)
    BY <1>2, <2>4 DEF Split
  <2>6. Concatenated(d) \o <<>> = Concatenated(d) /\ Concatenated(Append(d, u)) = Concatenated(d) \o u
    <3>1. Concatenated(d) \in Seq(V)
      BY <1>10, EmptySeq
    <3>2. QED
      BY <1>10, <3>1, ConcatEmptySeq
  <2>7. CASE u = <<>>
    BY <2>4, <2>5, <2>6, <2>7 DEF SplitWell
  <2>8. CASE u # <<>>
    BY <1>8, <2>4, <2>5, <2>6, <2>8 DEF SplitWell
  <2>9. QED
    BY <2>7, <2>8
<1>3. QED
  BY <1>1, <1>2

-----------------------------------------------------------------------------
(* Sections: the chunks of a whole section *)

SplitsOf(merged) == [k \in DOMAIN merged |-> Split(merged[k])]

LEMMA SplitsOfOneMore ==
  ASSUME NEW W, NEW C, \A c \in C : Split(c) \in W, NEW s \in Seq(C), NEW c \in C
  PROVE  SplitsOf(Append(s, c)) = Append(SplitsOf(s), Split(c)) /\ SplitsOf(s) \in Seq(W)
<1>1. PICK n \in Nat : n = Len(s) /\ DOMAIN s = 1 .. n
  OBVIOUS
<1> DEFINE t == Append(s, c)
<1>2. DOMAIN t = 1 .. (n + 1) /\ t[n + 1] = c /\ \A i \in 1 .. n : t[i] = s[i]
  BY <1>1, AppendProperties
<1> HIDE DEF t
<1>3. \A i \in 1 .. n : Split(s[i]) \in W
  BY <1>1
<1>4. SplitsOf(s) = [i \in 1 .. n |-> Split(s[i])] /\ SplitsOf(t) = [i \in 1 .. (n + 1) |-> Split(t[i])]
  BY <1>1, <1>2 DEF SplitsOf
<1>5. SplitsOf(s) \in Seq(W) /\ Len(SplitsOf(s)) = n
  <2>1. SplitsOf(s) \in [1 .. n -> W]
    BY <1>3, <1>4
  <2>2. QED
    BY <2>1
<1>6. SplitsOf(t) \in Seq(W) /\ Len(SplitsOf(t)) = n + 1
  <2>1. \A i \in 1 .. (n + 1) : i \in 1 .. n \/ i = n + 1
    OBVIOUS
  <2>2. \A i \in 1 .. (n + 1) : Split(t[i]) \in W
    BY <1>2, <1>3, <2>1
  <2>3. SplitsOf(t) \in [1 .. (n + 1) -> W]
    BY <1>4, <2>2
  <2>4. QED
    BY <2>3
<1>7. /\ Append(SplitsOf(s), Split(c)) \in Seq(W) /\ Len(Append(SplitsOf(s), Split(c))) = n + 1
      /\ Append(SplitsOf(s), Split(c))[n + 1] = Split(c)
      /\ \A i \in 1 .. n : Append(SplitsOf(s), Split(c))[i] = Split(s[i])
  BY <1>4, <1>5, AppendProperties
<1>8. \A i \in 1 .. (n + 1) : SplitsOf(t)[i] = Append(SplitsOf(s), Split(c))[i]
  <2>1. \A i \in 1 .. (n + 1) : i \in 1 .. n \/ i = n + 1
    OBVIOUS
  <2>2. QED
    BY <1>2, <1>4, <1>7, <2>1
<1>9. SplitsOf(t) = Append(SplitsOf(s), Split(c))
  BY <1>6, <1>7, <1>8, SeqEqual
<1>10. QED
  BY <1>5, <1>9 DEF t

(* Chunks of which P holds the words passed over, and no others. *)
Splittable(V, P) ==
  {c \in Seq(V) : Distinct(c) /\ c # <<>> /\ ToSet(c) \cap P = Unpunctuated(c)}

AllSplitWell(V, merged, P) ==
  LET chunks == Concatenated(SplitsOf(merged)) IN
  /\ chunks \in Seq(Seq(V))
  /\ Concatenated(chunks) = Kept(Concatenated(merged), P)
  /\ \A c \in ToSet(chunks) : Fine(c)

LEMMA AllSplitKeepTheText ==
  ASSUME NEW V, \A w \in V : w.stop \in BOOLEAN, NEW P, NEW merged \in Seq(Splittable(V, P))
  PROVE  AllSplitWell(V, merged, P)
<1> DEFINE C == Splittable(V, P)
           Good == {m \in Seq(C) : AllSplitWell(V, m, P)}
<1>4. ASSUME NEW c \in C PROVE SplitWell(V, c, P) /\ c \in Seq(V)
  <2>1. c \in Seq(V) /\ Distinct(c) /\ c # <<>> /\ ToSet(c) \cap P = Unpunctuated(c)
    BY DEF Splittable
  <2>2. QED
    BY <2>1, SplitKeepsTheText
<1>5. \A c \in C : Split(c) \in Seq(Seq(V))
  BY <1>4 DEF SplitWell
<1>6. \A m \in Seq(C) : m \in Seq(Seq(V))
  <2>1. C \subseteq Seq(V)
    BY <1>4
  <2> HIDE DEF C
  <2>2. QED
    BY <2>1, SeqMonotonic
<1> HIDE DEF C
<1>7. \A r \in Seq(Seq(V)), x \in Seq(V) : Concatenated(Append(r, x)) = Concatenated(r) \o x /\ Concatenated(r) \in Seq(V)
  BY ConcatenatedFold
<1>1. <<>> \in Good
  <2>1. SplitsOf(<<>>) = <<>> /\ <<>> \in Seq(C) /\ <<>> \in Seq(Seq(V)) /\ ToSet(<<>>) = {}
    BY EmptySeq DEF SplitsOf, ToSet
  <2>2. Concatenated(<<>>) = <<>> /\ Kept(<<>>, P) = <<>>
    BY ConcatenatedFold, KeptOfNothing
  <2>3. QED
    BY <2>1, <2>2 DEF AllSplitWell
<1>2. ASSUME NEW m \in Seq(C), NEW c \in C, m \in Good PROVE Append(m, c) \in Good
  <2> DEFINE all == Concatenated(SplitsOf(m))
  <2>1. SplitsOf(Append(m, c)) = Append(SplitsOf(m), Split(c)) /\ SplitsOf(m) \in Seq(Seq(Seq(V)))
    BY <1>5, SplitsOfOneMore
  <2>2. Split(c) \in Seq(Seq(V)) /\ c \in Seq(V) /\ m \in Seq(Seq(V)) /\ Append(m, c) \in Seq(C)
    BY <1>4, <1>5, <1>6, AppendProperties
  <2>3. Concatenated(SplitsOf(Append(m, c))) = all \o Split(c)
    <3>1. \A r \in Seq(Seq(Seq(V))), x \in Seq(Seq(V)) : Concatenated(Append(r, x)) = Concatenated(r) \o x
      BY ConcatenatedFold
    <3>2. QED
      BY <2>1, <2>2, <3>1
  <2>4. all \in Seq(Seq(V)) /\ Concatenated(all) = Kept(Concatenated(m), P) /\ \A x \in ToSet(all) : Fine(x)
    BY <1>2 DEF AllSplitWell
  <2>5. Concatenated(Split(c)) = Kept(c, P) /\ \A x \in ToSet(Split(c)) : Fine(x)
    BY <1>4 DEF SplitWell
  <2> HIDE DEF all
  <2>6. all \o Split(c) \in Seq(Seq(V))
    BY <2>2, <2>4, ConcatProperties
  <2>7. Concatenated(all \o Split(c)) = Concatenated(all) \o Concatenated(Split(c))
    BY <2>2, <2>4, ConcatenatedOfBoth
  <2>8. Kept(Concatenated(Append(m, c)), P) = Kept(Concatenated(m), P) \o Kept(c, P)
    <3>1. Concatenated(Append(m, c)) = Concatenated(m) \o c /\ Concatenated(m) \in Seq(V)
      BY <1>7, <2>2
    <3>2. Kept(Concatenated(m) \o c, P) = Kept(Concatenated(m), P) \o Kept(c, P)
      BY <2>2, <3>1, KeptOfBoth
    <3>3. QED
      BY <3>1, <3>2
  <2>9. ToSet(all \o Split(c)) = ToSet(all) \cup ToSet(Split(c))
    BY <2>2, <2>4, MembersOfBoth
  <2>10. AllSplitWell(V, Append(m, c), P)
    BY <2>3, <2>4, <2>5, <2>6, <2>7, <2>8, <2>9 DEF AllSplitWell
  <2>11. QED
    BY <2>2, <2>10
<1> HIDE DEF Good
<1>3. \A m \in Seq(C) : m \in Good
  BY <1>1, <1>2, SequenceInduction
<1>8. QED
  BY <1>3 DEF Good, C

(* In a text that repeats no word, each chunk repeats none, and two share none. *)
ChunksApart(merged) ==
  /\ \A c \in ToSet(merged) : ToSet(c) \subseteq ToSet(Concatenated(merged))
  /\ Distinct(Concatenated(merged)) =>
       \A c \in ToSet(merged) : /\ Distinct(c)
                                /\ \A d \in ToSet(merged) : c = d \/ ToSet(c) \cap ToSet(d) = {}

LEMMA DistinctTextIsApart ==
  ASSUME NEW V, NEW merged \in Seq(Seq(V))
  PROVE  ChunksApart(merged)
<1> DEFINE Good == {m \in Seq(Seq(V)) : ChunksApart(m)}
<1>6. \A r \in Seq(Seq(V)), x \in Seq(V) : Append(r, x) \in Seq(Seq(V)) /\ ToSet(Append(r, x)) = ToSet(r) \cup {x}
  BY AppendProperties, MembersOfOneMore
<1>7. \A r \in Seq(Seq(V)), x \in Seq(V) : Concatenated(Append(r, x)) = Concatenated(r) \o x /\ Concatenated(r) \in Seq(V)
  BY ConcatenatedFold
<1>1. <<>> \in Good
  <2>1. <<>> \in Seq(Seq(V)) /\ ToSet(<<>>) = {}
    BY EmptySeq DEF ToSet
  <2>2. QED
    BY <2>1 DEF ChunksApart
<1>2. ASSUME NEW m \in Seq(Seq(V)), NEW s \in Seq(V), m \in Good PROVE Append(m, s) \in Good
  <2>1. ToSet(Append(m, s)) = ToSet(m) \cup {s} /\ Append(m, s) \in Seq(Seq(V))
    BY <1>6
  <2>2. Concatenated(Append(m, s)) = Concatenated(m) \o s /\ Concatenated(m) \in Seq(V)
    BY <1>7
  <2>3. ToSet(Concatenated(m) \o s) = ToSet(Concatenated(m)) \cup ToSet(s)
    BY <2>2, MembersOfBoth
  <2>4. Distinct(Concatenated(m) \o s) =>
          Distinct(Concatenated(m)) /\ Distinct(s) /\ ToSet(Concatenated(m)) \cap ToSet(s) = {}
    BY <2>2, DistinctOfBoth
  <2>5. ChunksApart(m)
    BY <1>2
  <2>6. \A c \in ToSet(Append(m, s)) : ToSet(c) \subseteq ToSet(Concatenated(Append(m, s)))
    BY <2>1, <2>2, <2>3, <2>5 DEF ChunksApart
  <2>7. ASSUME Distinct(Concatenated(Append(m, s))), NEW c \in ToSet(Append(m, s))
        PROVE  Distinct(c) /\ \A d \in ToSet(Append(m, s)) : c = d \/ ToSet(c) \cap ToSet(d) = {}
    <3>1. Distinct(Concatenated(m)) /\ Distinct(s) /\ ToSet(Concatenated(m)) \cap ToSet(s) = {}
      BY <2>2, <2>4, <2>7
    <3>2. \A x \in ToSet(m) : ToSet(x) \cap ToSet(s) = {}
      BY <2>5, <3>1 DEF ChunksApart
    <3>3. \A x \in ToSet(m) : Distinct(x) /\ \A d \in ToSet(m) : x = d \/ ToSet(x) \cap ToSet(d) = {}
      BY <2>5, <3>1 DEF ChunksApart
    <3>4. c \in ToSet(m) \/ c = s
      BY <2>1
    <3>5. Distinct(c)
      BY <3>1, <3>3, <3>4
    <3>6. ASSUME NEW d \in ToSet(Append(m, s)) PROVE c = d \/ ToSet(c) \cap ToSet(d) = {}
      <4>1. d \in ToSet(m) \/ d = s
        BY <2>1
      <4>2. QED
        BY <3>2, <3>3, <3>4, <4>1
    <3>7. QED
      BY <3>5, <3>6
  <2>8. ChunksApart(Append(m, s))
    BY <2>6, <2>7 DEF ChunksApart
  <2>9. QED
    BY <2>1, <2>8
<1> HIDE DEF Good
<1>3. \A m \in Seq(Seq(V)) : m \in Good
  BY <1>1, <1>2, SequenceInduction
<1>4. QED
  BY <1>3 DEF Good

PassedOver(merged) == UNION {Unpunctuated(c) : c \in ToSet(merged)}

LEMMA ChunksAreSplittable ==
  ASSUME NEW V, NEW merged \in Seq(Seq(V)), <<>> \notin ToSet(merged), Distinct(Concatenated(merged))
  PROVE  merged \in Seq(Splittable(V, PassedOver(merged)))
<1> DEFINE P == PassedOver(merged)
<1>1. ChunksApart(merged)
  BY DistinctTextIsApart
<1>2. ASSUME NEW c \in ToSet(merged) PROVE c \in Seq(V) /\ Unpunctuated(c) \subseteq ToSet(c)
  <2>1. c \in Seq(V)
    BY DEF ToSet
  <2>2. PICK n \in Nat : n = Len(c) /\ DOMAIN c = 1 .. n
    BY <2>1
  <2>3. 1 .. (n - 1) \subseteq 1 .. n
    OBVIOUS
  <2>4. ToSet(c) = {c[i] : i \in 1 .. n}
    BY <2>2 DEF ToSet
  <2>5. \A x \in Unpunctuated(c) : \E i \in 1 .. n : x = c[i]
    BY <2>2, <2>3 DEF Unpunctuated
  <2>6. QED
    BY <2>1, <2>4, <2>5
<1>3. ASSUME NEW c \in ToSet(merged) PROVE c \in Splittable(V, P)
  <2>1. ToSet(c) \cap P \subseteq Unpunctuated(c)
    <3>1. ASSUME NEW x \in ToSet(c) \cap P PROVE x \in Unpunctuated(c)
      <4>1. PICK d \in ToSet(merged) : x \in Unpunctuated(d)
        BY <3>1 DEF PassedOver
      <4>2. x \in ToSet(d) /\ x \in ToSet(c)
        BY <1>2, <3>1, <4>1
      <4>3. c = d
        BY <1>1, <1>3, <4>2 DEF ChunksApart
      <4>4. QED
        BY <4>1, <4>3
    <3>2. QED
      BY <3>1
  <2>2. Unpunctuated(c) \subseteq ToSet(c) \cap P
    BY <1>2, <1>3 DEF PassedOver
  <2>3. Distinct(c) /\ c # <<>> /\ c \in Seq(V)
    BY <1>1, <1>2, <1>3 DEF ChunksApart
  <2> HIDE DEF P
  <2>4. QED
    BY <2>1, <2>2, <2>3 DEF Splittable
<1>4. QED
  BY <1>3, SubsetSequence

LEMMA BothDistinct ==
  ASSUME NEW V, NEW s \in Seq(V), NEW t \in Seq(V), Distinct(s), Distinct(t), ToSet(s) \cap ToSet(t) = {}
  PROVE  Distinct(s \o t)
<1> DEFINE u == s \o t
<1>1. PICK m \in Nat, n \in Nat : m = Len(s) /\ DOMAIN s = 1 .. m /\ n = Len(t) /\ DOMAIN t = 1 .. n
  OBVIOUS
<1>2. u \in Seq(V) /\ Len(u) = m + n /\ \A i \in 1 .. (m + n) : u[i] = IF i <= m THEN s[i] ELSE t[i - m]
  <2>1. Len(s \o t) = Len(s) + Len(t) /\ \A i \in 1 .. (Len(s) + Len(t)) : (s \o t)[i] = IF i <= Len(s) THEN s[i] ELSE t[i - Len(s)]
    BY ConcatProperties
  <2>2. QED
    BY <1>1, <2>1, ConcatProperties
<1> HIDE DEF u
<1>3. DOMAIN u = 1 .. (m + n)
  BY <1>2
<1>4. \A i \in 1 .. m, j \in 1 .. n : s[i] # t[j]
  BY <1>1 DEF ToSet
<1>5. ASSUME NEW i \in 1 .. (m + n), NEW j \in 1 .. (m + n), u[i] = u[j] PROVE i = j
  <2>1. CASE i <= m /\ j <= m
    <3>1. i \in 1 .. m /\ j \in 1 .. m /\ s[i] = s[j]
      BY <1>2, <1>5, <2>1
    <3>2. QED
      BY <1>1, <3>1 DEF Distinct
  <2>2. CASE i <= m /\ ~(j <= m)
    <3>1. i \in 1 .. m /\ j - m \in 1 .. n /\ s[i] = t[j - m]
      BY <1>2, <1>5, <2>2
    <3>2. QED
      BY <1>4, <3>1
  <2>3. CASE ~(i <= m) /\ j <= m
    <3>1. j \in 1 .. m /\ i - m \in 1 .. n /\ s[j] = t[i - m]
      BY <1>2, <1>5, <2>3
    <3>2. QED
      BY <1>4, <3>1
  <2>4. CASE ~(i <= m) /\ ~(j <= m)
    <3>1. i - m \in 1 .. n /\ j - m \in 1 .. n /\ t[i - m] = t[j - m]
      BY <1>2, <1>5, <2>4
    <3>2. i - m = j - m
      BY <1>1, <3>1 DEF Distinct
    <3>3. QED
      BY <3>2
  <2>5. QED
    BY <2>1, <2>2, <2>3, <2>4
<1>6. Distinct(u)
  BY <1>3, <1>5 DEF Distinct
<1>7. QED
  BY <1>6 DEF u

(* No word stands twice in the lines. *)
LinesApart(lines) ==
  \A i, j \in DOMAIN lines : \A k \in DOMAIN lines[i].words, l \in DOMAIN lines[j].words :
    lines[i].words[k] = lines[j].words[l] => i = j /\ k = l

LEMMA LinesChosenApart ==
  ASSUME NEW s, NEW t, LinesApart(s), NEW q,
         \A i \in DOMAIN t : q[i] \in DOMAIN s /\ t[i] = s[q[i]],
         \A i, j \in DOMAIN t : q[i] = q[j] => i = j
  PROVE  LinesApart(t)
<1>1. ASSUME NEW i \in DOMAIN t, NEW j \in DOMAIN t, NEW k \in DOMAIN t[i].words, NEW l \in DOMAIN t[j].words,
             t[i].words[k] = t[j].words[l]
      PROVE  i = j /\ k = l
  <2>1. q[i] \in DOMAIN s /\ q[j] \in DOMAIN s /\ t[i] = s[q[i]] /\ t[j] = s[q[j]]
    OBVIOUS
  <2>2. q[i] = q[j] /\ k = l
    BY <1>1, <2>1 DEF LinesApart
  <2>3. QED
    BY <2>2
<1>2. QED
  BY <1>1 DEF LinesApart

(* The words of the text are the lines'; no word stands twice in it. *)
TextOfLines(lines) ==
  /\ \A x \in ToSet(Concatenated(WordsOf(lines))) : \E i \in DOMAIN lines : x \in ToSet(lines[i].words)
  /\ LinesApart(lines) => Distinct(Concatenated(WordsOf(lines)))

LEMMA LinesMakeADistinctText ==
  ASSUME NEW V, NEW E, \A l \in E : l.words \in Seq(V), NEW lines \in Seq(E)
  PROVE  TextOfLines(lines)
<1> DEFINE Good == {s \in Seq(E) : TextOfLines(s)}
<1>1. <<>> \in Good
  <2>1. <<>> \in Seq(E) /\ WordsOf(<<>>) = <<>> /\ Concatenated(<<>>) = <<>> /\ ToSet(<<>>) = {} /\ Distinct(<<>>)
    BY EmptySeq, ConcatenatedFold DEF WordsOf, ToSet, Distinct
  <2>2. QED
    BY <2>1 DEF TextOfLines
<1>2. ASSUME NEW s \in Seq(E), NEW l \in E, s \in Good PROVE Append(s, l) \in Good
  <2> DEFINE t == Append(s, l)
             text == Concatenated(WordsOf(s))
  <2>1. PICK n \in Nat : n = Len(s) /\ DOMAIN s = 1 .. n
    OBVIOUS
  <2>2. t \in Seq(E) /\ DOMAIN t = 1 .. (n + 1) /\ t[n + 1] = l /\ \A i \in 1 .. n : t[i] = s[i]
    BY <2>1, AppendProperties
  <2>3. l.words \in Seq(V)
    OBVIOUS
  <2>4. Concatenated(WordsOf(t)) = text \o l.words /\ text \in Seq(V)
    <3>1. WordsOf(Append(s, l)) = Append(WordsOf(s), l.words) /\ WordsOf(s) \in Seq(Seq(V))
      BY WordsOfOneMore
    <3>2. QED
      BY <2>3, <3>1, ConcatenatedFold
  <2> HIDE DEF t
  <2>5. (\A x \in ToSet(text) : \E i \in DOMAIN s : x \in ToSet(s[i].words)) /\ (LinesApart(s) => Distinct(text))
    BY <1>2 DEF TextOfLines
  <2> HIDE DEF text
  <2>6. ToSet(text \o l.words) = ToSet(text) \cup ToSet(l.words)
    BY <2>3, <2>4, MembersOfBoth
  <2>7. \A i \in 1 .. n : i \in 1 .. (n + 1) /\ i # n + 1
    BY <2>1
  <2>8. n + 1 \in 1 .. (n + 1)
    BY <2>1
  <2>9. \A x \in ToSet(text \o l.words) : \E i \in DOMAIN t : x \in ToSet(t[i].words)
    <3> TAKE x \in ToSet(text \o l.words)
    <3>1. CASE x \in ToSet(text)
      <4>1. PICK i \in 1 .. n : x \in ToSet(s[i].words)
        BY <2>1, <2>5, <3>1
      <4>2. i \in DOMAIN t /\ t[i] = s[i]
        BY <2>2, <2>7
      <4>3. QED
        BY <4>1, <4>2
    <3>2. CASE x \in ToSet(l.words)
      BY <2>2, <2>8, <3>2
    <3>3. QED
      BY <2>6, <3>1, <3>2
  <2>10. ASSUME LinesApart(t) PROVE Distinct(text \o l.words)
    <3>1. LinesApart(s)
      <4>1. ASSUME NEW i \in 1 .. n, NEW j \in 1 .. n, NEW k \in DOMAIN s[i].words, NEW m \in DOMAIN s[j].words,
                   s[i].words[k] = s[j].words[m]
            PROVE  i = j /\ k = m
        <5>1. i \in DOMAIN t /\ j \in DOMAIN t /\ t[i] = s[i] /\ t[j] = s[j]
          BY <2>2, <2>7
        <5>2. QED
          BY <2>10, <4>1, <5>1 DEF LinesApart
      <4>2. QED
        BY <2>1, <4>1 DEF LinesApart
    <3>2. Distinct(l.words)
      <4>1. ASSUME NEW k \in DOMAIN l.words, NEW m \in DOMAIN l.words, l.words[k] = l.words[m] PROVE k = m
        <5>1. n + 1 \in DOMAIN t /\ t[n + 1] = l
          BY <2>2, <2>8
        <5>2. QED
          BY <2>10, <4>1, <5>1 DEF LinesApart
      <4>2. QED
        BY <4>1 DEF Distinct
    <3>3. ASSUME NEW x \in ToSet(text), x \in ToSet(l.words) PROVE FALSE
      <4>1. PICK i \in 1 .. n : x \in ToSet(s[i].words)
        BY <2>1, <2>5
      <4>2. PICK k \in DOMAIN s[i].words : x = s[i].words[k]
        BY <4>1 DEF ToSet
      <4>3. PICK m \in DOMAIN l.words : x = l.words[m]
        BY <3>3 DEF ToSet
      <4>4. i \in DOMAIN t /\ t[i] = s[i] /\ n + 1 \in DOMAIN t /\ t[n + 1] = l /\ i # n + 1
        BY <2>2, <2>7, <2>8
      <4>5. QED
        BY <2>10, <4>2, <4>3, <4>4 DEF LinesApart
    <3>4. ToSet(text) \cap ToSet(l.words) = {}
      BY <3>3
    <3>5. QED
      BY <2>3, <2>4, <2>5, <3>1, <3>2, <3>4, BothDistinct
  <2>11. TextOfLines(t)
    BY <2>4, <2>9, <2>10 DEF TextOfLines
  <2>12. QED
    BY <2>2, <2>11 DEF t
<1> HIDE DEF Good
<1>3. \A s \in Seq(E) : s \in Good
  BY <1>1, <1>2, SequenceInduction
<1>4. QED
  BY <1>3 DEF Good

FilingLines == [kind : {"heading", "next", "artifact", "text"}, words : Seq(Vocabulary)]

ASectionOf(filing, section) ==
  /\ section \in Seq(FilingLines)
  /\ LinesApart(section)
  /\ \A i \in DOMAIN section : section[i].kind # "next"
  /\ Len(section) < MinSection =>
       /\ section = <<>>
       /\ \A h, e \in DOMAIN filing :
            filing[h].kind = "heading" /\ filing[e].kind = "next" /\ e - h > MinSection =>
              \E n \in (h + 1) .. (e - 1) : filing[n].kind = "next"

LEMMA SectionIsFound ==
  ASSUME NEW filing \in Seq(FilingLines), LinesApart(filing)
  PROVE  ASectionOf(filing, ExtractRiskFactorsSection(filing))
<1> DEFINE section == ExtractRiskFactorsSection(filing)
<1>0. MinSection \in Nat \ {0}
  BY ChunkAssumption
<1>1. PICK n \in Nat : n = Len(filing) /\ DOMAIN filing = 1 .. n
  OBVIOUS
<1>2. ASSUME NEW h \in 1 .. n, NextItem(filing, h) # {}
      PROVE  LET m == Min(NextItem(filing, h))
             IN /\ m \in 1 .. n /\ m > h /\ filing[m].kind = "next"
                /\ \A e \in 1 .. n : e > h /\ filing[e].kind = "next" => m <= e
  <2>1. NextItem(filing, h) \in SUBSET Nat
    BY <1>1 DEF NextItem
  <2>2. Min(NextItem(filing, h)) \in NextItem(filing, h) /\ \A e \in NextItem(filing, h) : Min(NextItem(filing, h)) <= e
    BY <1>2, <2>1, LeastMember
  <2>3. QED
    BY <1>1, <2>2 DEF NextItem
<1>3. CASE Qualifying(filing) = {}
  <2>1. section = <<>>
    BY <1>3 DEF ExtractRiskFactorsSection
  <2>2. section \in Seq(FilingLines) /\ DOMAIN section = {}
    BY <2>1, EmptySeq
  <2>3. ASSUME NEW h \in 1 .. n, NEW e \in 1 .. n, filing[h].kind = "heading", filing[e].kind = "next", e - h > MinSection
        PROVE  \E k \in (h + 1) .. (e - 1) : filing[k].kind = "next"
    <3>1. e \in NextItem(filing, h)
      BY <1>0, <1>1, <2>3 DEF NextItem
    <3>2. PICK m \in 1 .. n : m = Min(NextItem(filing, h)) /\ m > h /\ filing[m].kind = "next"
      BY <1>2, <3>1
    <3>3. ~(m - h - 1 >= MinSection)
      BY <1>1, <1>3, <2>3, <3>1, <3>2 DEF Qualifying
    <3>4. m \in (h + 1) .. (e - 1)
      BY <1>0, <2>3, <3>2, <3>3
    <3>5. QED
      BY <3>2, <3>4
  <2>4. LinesApart(section) /\ \A i \in DOMAIN section : section[i].kind # "next"
    BY <2>2 DEF LinesApart
  <2> HIDE DEF section
  <2>5. ASectionOf(filing, section)
    BY <1>1, <2>1, <2>2, <2>3, <2>4 DEF ASectionOf
  <2>6. QED
    BY <2>5 DEF section
<1>4. CASE Qualifying(filing) # {}
  <2> DEFINE h == Min(Qualifying(filing))
             e == Min(NextItem(filing, h))
  <2>1. h \in Qualifying(filing)
    <3>1. Qualifying(filing) \in SUBSET Nat
      BY <1>1 DEF Qualifying
    <3>2. QED
      BY <1>4, <3>1, LeastMember
  <2>2. section = SubSeq(filing, h + 1, e - 1)
    BY <1>4 DEF ExtractRiskFactorsSection
  <2>3. h \in 1 .. n /\ NextItem(filing, h) # {} /\ e - h - 1 >= MinSection
    BY <1>1, <2>1 DEF Qualifying
  <2> HIDE DEF h
  <2>4. e \in 1 .. n /\ e > h /\ \A i \in 1 .. n : i > h /\ filing[i].kind = "next" => e <= i
    BY <1>2, <2>3
  <2> HIDE DEF section, e
  <2>5. \A i \in (h + 1) .. (e - 1) : i \in 1 .. n /\ filing[i] \in FilingLines /\ filing[i].kind # "next"
    <3> TAKE i \in (h + 1) .. (e - 1)
    <3>1. i \in 1 .. n /\ i > h /\ ~(e <= i)
      BY <2>3, <2>4
    <3>2. QED
      BY <1>1, <2>4, <3>1
  <2>6. PICK m \in Nat : m = e - 1 - h /\ m >= MinSection
    BY <1>0, <2>3, <2>4
  <2>7. section \in Seq(FilingLines) /\ Len(section) = m /\ \A i \in 1 .. m : section[i] = filing[h + i]
    <3>1. h + 1 \in Int /\ e - 1 \in Int /\ h + 1 <= e - 1 /\ (e - 1) - (h + 1) + 1 = m
      BY <1>0, <2>3, <2>4, <2>6
    <3>2. /\ SubSeq(filing, h + 1, e - 1) \in Seq(FilingLines)
          /\ Len(SubSeq(filing, h + 1, e - 1)) = (e - 1) - (h + 1) + 1
          /\ \A i \in 1 .. ((e - 1) - (h + 1) + 1) : SubSeq(filing, h + 1, e - 1)[i] = filing[(h + 1) + i - 1]
      BY <2>5, <3>1, SubSeqProperties
    <3>3. \A i \in 1 .. m : (h + 1) + i - 1 = h + i
      BY <2>3
    <3>4. QED
      BY <2>2, <3>1, <3>2, <3>3
  <2> DEFINE q == [i \in 1 .. m |-> h + i]
  <2>8. DOMAIN section = 1 .. m
    BY <2>7
  <2>9. \A i \in 1 .. m : q[i] = h + i /\ h + i \in (h + 1) .. (e - 1)
    BY <2>3, <2>4, <2>6
  <2> HIDE DEF q
  <2>10. \A i \in DOMAIN section : q[i] \in DOMAIN filing /\ section[i] = filing[q[i]] /\ section[i].kind # "next"
    BY <1>1, <2>5, <2>7, <2>8, <2>9
  <2>11. \A i, j \in DOMAIN section : q[i] = q[j] => i = j
    BY <2>3, <2>8, <2>9
  <2>12. LinesApart(section)
    BY <2>10, <2>11, LinesChosenApart
  <2>13. ~(Len(section) < MinSection)
    BY <1>0, <2>6, <2>7
  <2>14. ASectionOf(filing, section)
    BY <2>7, <2>10, <2>12, <2>13 DEF ASectionOf
  <2>15. QED
    BY <2>14 DEF section
<1>5. QED
  BY <1>3, <1>4

LEMMA TextLinesAreLines ==
  ASSUME NEW section \in Seq(FilingLines), LinesApart(section)
  PROVE  TextLines(section) \in Seq(FilingLines) /\ LinesApart(TextLines(section))
<1> DEFINE S == {i \in DOMAIN section : section[i].kind # "artifact" /\ section[i].words # <<>>}
           t == TextLines(section)
           m == Cardinality(S)
<1>1. t = Picked(section, S) /\ S \in SUBSET DOMAIN section
  BY DEF TextLines
<1> HIDE DEF t, S
<1>2. t \in Seq(FilingLines) /\ Len(t) = m /\ m \in Nat
  BY <1>1, PickedBy
<1>3. PICK p : Enumerates(p, S, m) /\ \A i \in 1 .. m : t[i] = section[p[i]]
  BY <1>1, PickedBy
<1> HIDE DEF m
<1>4. DOMAIN t = 1 .. m
  BY <1>2
<1>5. \A i \in 1 .. m : p[i] \in S /\ p[i] \in Nat
  BY <1>3 DEF Enumerates
<1>6. \A i, j \in 1 .. m : p[i] = p[j] => i = j
  <2>1. \A i, j \in 1 .. m : i < j <=> p[i] < p[j]
    BY <1>3 DEF Enumerates
  <2>2. QED
    BY <1>2, <1>5, <2>1
<1>7. \A i \in DOMAIN t : p[i] \in DOMAIN section /\ t[i] = section[p[i]]
  BY <1>1, <1>3, <1>4, <1>5
<1>8. LinesApart(t)
  <2>1. \A i, j \in DOMAIN t : p[i] = p[j] => i = j
    BY <1>4, <1>6
  <2>2. QED
    BY <1>7, <2>1, LinesChosenApart
<1>9. QED
  BY <1>2, <1>8 DEF t

LEMMA SectionKeepsItsText ==
  ASSUME NEW filing \in Seq(FilingLines), LinesApart(filing)
  PROVE  ChunksKeepTheText(filing)
<1> DEFINE V == Vocabulary
           section == ExtractRiskFactorsSection(filing)
           lines == TextLines(section)
           text == Concatenated([i \in DOMAIN lines |-> lines[i].words])
           merged == Merged(lines)
           P == UNION {Unpunctuated(c) : c \in ToSet(merged)}
           chunks == ChunkRiskFactorText(section)
<1>1. ASectionOf(filing, section)
  BY SectionIsFound
<1>2. lines \in Seq(FilingLines) /\ LinesApart(lines)
  BY <1>1, TextLinesAreLines DEF ASectionOf
<1>3. \A l \in FilingLines : l.words \in Seq(V)
  BY DEF FilingLines
<1>4. text = Concatenated(WordsOf(lines)) /\ P = PassedOver(merged) /\ chunks = Concatenated(SplitsOf(merged))
  BY DEF WordsOf, PassedOver, SplitsOf, ChunkRiskFactorText
<1> HIDE DEF section, lines, text, P, chunks
<1>5. merged \in Seq(Seq(V)) /\ <<>> \notin ToSet(merged) /\ Concatenated(merged) = text
  BY <1>2, <1>3, <1>4, MergedKeepsTheText
<1>6. Distinct(text)
  <2>1. TextOfLines(lines)
    BY <1>2, <1>3, LinesMakeADistinctText
  <2>2. QED
    BY <1>2, <1>4, <2>1 DEF TextOfLines
<1> HIDE DEF merged, V
<1>7. merged \in Seq(Splittable(V, P))
  <2>1. Distinct(Concatenated(merged))
    BY <1>5, <1>6
  <2>2. QED
    BY <1>4, <1>5, <2>1, ChunksAreSplittable
<1>8. \A w \in V : w.stop \in BOOLEAN
  BY ChunkAssumption DEF V
<1>9. AllSplitWell(V, merged, P)
  BY <1>7, <1>8, AllSplitKeepTheText
<1>10. Concatenated(chunks) = Picked(text, {i \in DOMAIN text : text[i] \notin P}) /\ \A c \in ToSet(chunks) : Fine(c)
  BY <1>4, <1>5, <1>9 DEF AllSplitWell, Kept
<1>11. QED
  BY <1>1, <1>10 DEF ChunksKeepTheText, ASectionOf, Fine, section, lines, text, merged, P, chunks

(* Whatever a 10-K holds, its Risk Factors section ends before the next item,
   is missing only if none is long enough, and its chunks, none too long to
   compare, say what it says in its order, but for the words that the code's
   pattern passes over. *)
THEOREM SectionsAlwaysKeepTheirText == ReadSpec => []SectionsKeepTheirText
<1>1. ASSUME TriedIsCase PROVE SectionsKeepTheirText
  <2> SUFFICES ASSUME Tried("sections") PROVE ChunksKeepTheText(case)
    BY DEF SectionsKeepTheirText
  <2>1. case \in SectionCases
    BY <1>1 DEF Tried, TriedIsCase, CasesOf
  <2>2. case \in Seq(FilingLines) /\ LinesApart(case)
    BY <2>1, CaseAssumption DEF FilingLines, LinesApart
  <2>3. QED
    BY <2>2, SectionKeepsItsText
<1>2. QED
  BY <1>1, TriedAreCases, PTL

-----------------------------------------------------------------------------
(* The selection of facts: one value for each period *)

FactSet == [tag : STRING, length : Nat, end : Nat, filed : Nat, yearly : BOOLEAN]

LEMMA YearsFollowEnds ==
  \A f, g \in FactSet : FiscalYear(f) \in Nat /\ (f.end <= g.end => FiscalYear(f) <= FiscalYear(g))
BY DEF FiscalYear, FactSet

LEMMA OfTagIs ==
  ASSUME NEW doc \in Seq(FactSet), NEW tag
  PROVE  OfTag(doc, tag) \in Seq(FactSet) /\ ToSet(OfTag(doc, tag)) = {f \in ToSet(doc) : f.tag = tag}
<1> DEFINE S == {i \in DOMAIN doc : doc[i].tag = tag}
           t == OfTag(doc, tag)
           m == Cardinality(S)
<1>1. t = Picked(doc, S) /\ S \in SUBSET DOMAIN doc
  BY DEF OfTag
<1>2. \A i \in DOMAIN doc : i \in S <=> doc[i].tag = tag
  OBVIOUS
<1> HIDE DEF t, S
<1>3. t \in Seq(FactSet) /\ Len(t) = m /\ m \in Nat
  BY <1>1, PickedBy
<1>4. PICK p : Enumerates(p, S, m) /\ \A i \in 1 .. m : t[i] = doc[p[i]]
  BY <1>1, PickedBy
<1>5. DOMAIN t = 1 .. m
  BY <1>3
<1> HIDE DEF m
<1>6. (\A i \in 1 .. m : p[i] \in S) /\ \A x \in S : \E i \in 1 .. m : p[i] = x
  BY <1>4 DEF Enumerates
<1>7. ASSUME NEW i \in 1 .. m PROVE t[i] \in ToSet(doc) /\ t[i].tag = tag
  BY <1>1, <1>2, <1>4, <1>6 DEF ToSet
<1>8. ASSUME NEW f \in ToSet(doc), f.tag = tag PROVE f \in ToSet(t)
  <2>1. PICK j \in DOMAIN doc : f = doc[j]
    BY DEF ToSet
  <2>2. PICK i \in 1 .. m : p[i] = j
    BY <1>2, <1>6, <1>8, <2>1
  <2>3. QED
    BY <1>4, <1>5, <2>1, <2>2 DEF ToSet
<1>9. ToSet(t) = {f \in ToSet(doc) : f.tag = tag}
  BY <1>5, <1>7, <1>8 DEF ToSet
<1>10. QED
  BY <1>3, <1>9 DEF t

KnownBy(known, f, maxYear) ==
  IF Qualifies(f, maxYear) /\ (f.end \in DOMAIN known => f.filed > known[f.end].filed)
  THEN [e \in DOMAIN known \cup {f.end} |-> IF e = f.end THEN f ELSE known[e]]
  ELSE known

Knowns == UNION {[D -> FactSet] : D \in SUBSET Nat}

LEMMA KnownFold ==
  ASSUME NEW maxYear
  PROVE  /\ ByPeriodEnd(<<>>, maxYear) = [e \in {} |-> None]
         /\ \A s \in Seq(FactSet) : /\ ByPeriodEnd(s, maxYear) \in Knowns
                              /\ \A x \in FactSet : ByPeriodEnd(Append(s, x), maxYear) = KnownBy(ByPeriodEnd(s, maxYear), x, maxYear)
<1> DEFINE A == Knowns
           base == [e \in {} |-> None]
           E == FactSet
           op == [p \in A \X E |-> KnownBy(p[1], p[2], maxYear)]
<1>1. base \in A
  <2>1. base \in [{} -> FactSet]
    OBVIOUS
  <2>2. QED
    BY <2>1 DEF Knowns
<1>2. ASSUME NEW a \in A, NEW x \in E PROVE KnownBy(a, x, maxYear) \in A
  <2>1. PICK D \in SUBSET Nat : a \in [D -> FactSet]
    BY DEF Knowns
  <2>2. x.end \in Nat /\ x \in FactSet
    BY DEF FactSet
  <2> DEFINE b == [e \in DOMAIN a \cup {x.end} |-> IF e = x.end THEN x ELSE a[e]]
  <2>3. b \in [D \cup {x.end} -> FactSet]
    BY <2>1, <2>2
  <2>4. D \cup {x.end} \in SUBSET Nat
    BY <2>2
  <2>5. b \in Knowns
    BY <2>3, <2>4 DEF Knowns
  <2>6. KnownBy(a, x, maxYear) = a \/ KnownBy(a, x, maxYear) = b
    BY DEF KnownBy
  <2>7. QED
    BY <2>5, <2>6
<1>3. \A a \in A, x \in E : op[<<a, x>>] = KnownBy(a, x, maxYear) /\ op[<<a, x>>] \in A
  BY <1>2
<1> HIDE DEF A, base, op, E
<1>4. IsMap(op, A, E)
  BY <1>3 DEF IsMap
<1>5. PICK F : IsFold(F, op, base, A, E)
  BY <1>1, <1>4, FoldAsFunction
<1>6. ASSUME NEW s \in Seq(E) PROVE ByPeriodEnd(s, maxYear) = F[s]
  <2>1. PICK n \in Nat : n = Len(s) /\ DOMAIN s = 1 .. n
    OBVIOUS
  <2> DEFINE Body(i) == [T \in SUBSET (1 .. n) |-> IF T = {} THEN base ELSE KnownBy(i[T \ {Max(T)}], s[Max(T)], maxYear)]
             iter == CHOOSE i : i = Body(i)
  <2>2. ByPeriodEnd(s, maxYear) = iter[1 .. n]
    BY <2>1 DEF ByPeriodEnd, KnownBy, FoldLeft, MapThenFoldSet, base
  <2>3. \A T \in SUBSET (1 .. n) : T # {} => s[Max(T)] \in E /\ T \ {Max(T)} \in SUBSET (1 .. n)
    <3>1. \A i \in 1 .. n : s[i] \in E
      BY <2>1
    <3>2. \A T \in SUBSET (1 .. n) : T # {} => Max(T) \in 1 .. n
      BY GreatestPicks
    <3>3. QED
      BY <3>1, <3>2
  <2>4. PICK h \in [SUBSET (1 .. n) -> A] : Unfolds(h, op, base, A, s)
    BY <1>5, <2>1 DEF IsFold
  <2>5. \A T \in SUBSET (1 .. n) : h[T] = IF T = {} THEN base ELSE KnownBy(h[T \ {Max(T)}], s[Max(T)], maxYear)
    BY <1>3, <2>1, <2>3, <2>4 DEF Unfolds
  <2>6. h = Body(h)
    <3>1. h = [T \in SUBSET (1 .. n) |-> h[T]]
      BY <2>4
    <3>2. QED
      BY <2>5, <3>1
  <2>7. iter = Body(iter)
    <3> HIDE DEF Body
    <3>1. QED
      BY <2>6
  <2> HIDE DEF iter
  <2>8. \A T \in SUBSET (1 .. n) : iter[T] = IF T = {} THEN base ELSE KnownBy(iter[T \ {Max(T)}], s[Max(T)], maxYear)
    BY <2>7
  <2> HIDE DEF Body
  <2>9. Unfolds(iter, op, base, A, s)
    BY <1>3, <2>1, <2>3, <2>8 DEF Unfolds
  <2>10. QED
    BY <1>5, <2>1, <2>2, <2>9 DEF IsFold
<1>7. F[<<>>] = base /\ \A s \in Seq(E) : F[s] \in A /\ \A x \in E : F[Append(s, x)] = op[<<F[s], x>>]
  BY <1>5 DEF IsFold, Folds
<1>8. <<>> \in Seq(E) /\ \A s \in Seq(E), x \in E : Append(s, x) \in Seq(E)
  BY EmptySeq, AppendProperties
<1>9. ByPeriodEnd(<<>>, maxYear) = base
  BY <1>6, <1>7, <1>8
<1>10. ASSUME NEW s \in Seq(E), NEW x \in E PROVE ByPeriodEnd(Append(s, x), maxYear) = KnownBy(ByPeriodEnd(s, maxYear), x, maxYear)
  <2>1. ByPeriodEnd(Append(s, x), maxYear) = op[<<F[s], x>>]
    BY <1>6, <1>7, <1>8
  <2>2. QED
    BY <1>3, <1>6, <1>7, <2>1
<1>11. QED
  BY <1>6, <1>7, <1>9, <1>10 DEF base, A, E

KnownWell(s, maxYear) ==
  LET known == ByPeriodEnd(s, maxYear) IN
  /\ \A e \in DOMAIN known : known[e].end = e /\ known[e] \in ToSet(s) /\ Qualifies(known[e], maxYear)
  /\ \A f \in ToSet(s) : Qualifies(f, maxYear) => f.end \in DOMAIN known /\ f.filed <= known[f.end].filed

(* Each period that qualifies is known, as it was last filed. *)
LEMMA PeriodsAreKnown ==
  ASSUME NEW maxYear, NEW values \in Seq(FactSet)
  PROVE  KnownWell(values, maxYear)
<1> DEFINE Good == {s \in Seq(FactSet) : KnownWell(s, maxYear)}
<1>1. <<>> \in Good
  <2>1. <<>> \in Seq(FactSet) /\ ToSet(<<>>) = {}
    BY EmptySeq DEF ToSet
  <2>2. ByPeriodEnd(<<>>, maxYear) = [e \in {} |-> None]
    BY KnownFold
  <2>3. DOMAIN ByPeriodEnd(<<>>, maxYear) = {}
    BY <2>2
  <2>4. QED
    BY <2>1, <2>3 DEF KnownWell
<1>2. ASSUME NEW s \in Seq(FactSet), NEW f \in FactSet, s \in Good PROVE Append(s, f) \in Good
  <2>1. ToSet(Append(s, f)) = ToSet(s) \cup {f} /\ Append(s, f) \in Seq(FactSet)
    BY MembersOfOneMore, AppendProperties
  <2>2. ToSet(s) \subseteq FactSet
    BY DEF ToSet
  <2>3. PICK k : k = ByPeriodEnd(s, maxYear)
    OBVIOUS
  <2>4. PICK l : l = ByPeriodEnd(Append(s, f), maxYear)
    OBVIOUS
  <2>5. l = KnownBy(k, f, maxYear)
    BY <2>3, <2>4, KnownFold
  <2>6. /\ \A e \in DOMAIN k : k[e].end = e /\ k[e] \in ToSet(s) /\ Qualifies(k[e], maxYear)
        /\ \A g \in ToSet(s) : Qualifies(g, maxYear) => g.end \in DOMAIN k /\ g.filed <= k[g.end].filed
    BY <1>2, <2>3 DEF KnownWell
  <2>7. \A g \in FactSet : g.filed \in Nat /\ g.end \in Nat
    BY DEF FactSet
  <2>8. CASE Qualifies(f, maxYear) /\ (f.end \in DOMAIN k => f.filed > k[f.end].filed)
    <3>1. l = [e \in DOMAIN k \cup {f.end} |-> IF e = f.end THEN f ELSE k[e]]
      BY <2>5, <2>8 DEF KnownBy
    <3>2. DOMAIN l = DOMAIN k \cup {f.end} /\ l[f.end] = f /\ \A e \in DOMAIN k : e # f.end => l[e] = k[e]
      BY <3>1
    <3>3. ASSUME NEW e \in DOMAIN l PROVE l[e].end = e /\ l[e] \in ToSet(s) \cup {f} /\ Qualifies(l[e], maxYear)
      <4>1. CASE e = f.end
        BY <2>8, <3>2, <4>1
      <4>2. CASE e # f.end
        BY <2>6, <3>2, <4>2
      <4>3. QED
        BY <4>1, <4>2
    <3>4. ASSUME NEW g \in ToSet(s) \cup {f}, Qualifies(g, maxYear) PROVE g.end \in DOMAIN l /\ g.filed <= l[g.end].filed
      <4>1. CASE g = f
        BY <2>7, <3>2, <4>1
      <4>2. CASE g \in ToSet(s) /\ g.end # f.end
        BY <2>6, <3>2, <3>4, <4>2
      <4>3. CASE g \in ToSet(s) /\ g.end = f.end
        <5>1. f.end \in DOMAIN k /\ g.filed <= k[f.end].filed /\ k[f.end] \in FactSet
          BY <2>2, <2>6, <3>4, <4>3
        <5>2. g.filed <= f.filed
          BY <2>2, <2>7, <2>8, <4>3, <5>1
        <5>3. QED
          BY <3>2, <4>3, <5>2
      <4>4. QED
        BY <3>4, <4>1, <4>2, <4>3
    <3>5. QED
      BY <2>1, <2>4, <3>3, <3>4 DEF KnownWell
  <2>9. CASE ~(Qualifies(f, maxYear) /\ (f.end \in DOMAIN k => f.filed > k[f.end].filed))
    <3>1. l = k
      BY <2>5, <2>9 DEF KnownBy
    <3>2. ASSUME Qualifies(f, maxYear) PROVE f.end \in DOMAIN k /\ f.filed <= k[f.end].filed
      <4>1. f.end \in DOMAIN k /\ ~(f.filed > k[f.end].filed)
        BY <2>9, <3>2
      <4>2. k[f.end] \in FactSet
        BY <2>2, <2>6, <4>1
      <4>3. QED
        BY <2>7, <4>1, <4>2
    <3>3. QED
      BY <2>1, <2>4, <2>6, <3>1, <3>2 DEF KnownWell
  <2>10. QED
    BY <2>8, <2>9
<1> HIDE DEF Good
<1>3. \A s \in Seq(FactSet) : s \in Good
  BY <1>1, <1>2, SequenceInduction
<1>4. QED
  BY <1>3 DEF Good

LEMMA FiniteMembers ==
  ASSUME NEW V, NEW s \in Seq(V)
  PROVE  IsFiniteSet(ToSet(s))
<1>1. PICK n \in Nat : n = Len(s) /\ DOMAIN s = 1 .. n
  OBVIOUS
<1>2. IsFiniteSet(1 .. n)
  BY FS_Interval
<1> DEFINE g == [i \in 1 .. n |-> s[i]]
<1>3. g \in Surjection(1 .. n, ToSet(s))
  BY <1>1 DEF Surjection, ToSet
<1>4. QED
  BY <1>2, <1>3, FS_Surjection

(* facts of different ends, the newest first *)
Sorted(s) == \A i, j \in DOMAIN s : i < j => s[i].end > s[j].end

LEMMA NewestFirstIs ==
  ASSUME NEW K \in SUBSET FactSet, IsFiniteSet(K), \A f, g \in K : f.end = g.end => f = g
  PROVE  NewestFirst(K) \in Seq(FactSet) /\ Sorted(NewestFirst(K)) /\ ToSet(NewestFirst(K)) = K
<1> DEFINE R == {p \in K \X K : p[1].end > p[2].end}
           o == NewestFirst(K)
           n == Cardinality(K)
<1>1. \A f \in K : f.end \in Nat
  BY DEF FactSet
<1>2. \A f, g \in K : <<f, g>> \in R <=> f.end > g.end
  OBVIOUS
<1>3. o = Ordered(K, R)
  BY DEF NewestFirst
<1> HIDE DEF R, o
<1>4. IsOrder(R, K)
  BY <1>1, <1>2 DEF IsOrder
<1>5. n \in Nat /\ Lists(o, K, R)
  BY <1>3, <1>4, OrderedLists
<1> HIDE DEF n
<1>6. /\ o \in [1 .. n -> K] /\ \A x \in K : \E i \in 1 .. n : o[i] = x
      /\ \A i, j \in 1 .. n : i < j <=> <<o[i], o[j]>> \in R
  BY <1>5 DEF Lists, n
<1>7. o \in Seq(FactSet) /\ DOMAIN o = 1 .. n
  <2>1. o \in [1 .. n -> FactSet]
    BY <1>6
  <2>2. QED
    BY <1>5, <2>1
<1>8. Sorted(o)
  BY <1>2, <1>6, <1>7 DEF Sorted
<1>9. ToSet(o) = K
  BY <1>6, <1>7 DEF ToSet
<1>10. QED
  BY <1>7, <1>8, <1>9 DEF o

LEMMA PeriodsAreSorted ==
  ASSUME NEW values \in Seq(FactSet), NEW maxYear
  PROVE  LET K == Range(ByPeriodEnd(values, maxYear))
         IN /\ NewestFirst(K) \in Seq(FactSet) /\ Sorted(NewestFirst(K)) /\ ToSet(NewestFirst(K)) = K
            /\ \A f \in K : f \in ToSet(values) /\ Qualifies(f, maxYear)
            /\ \A f \in ToSet(values) : Qualifies(f, maxYear) => \E g \in K : g.end = f.end /\ f.filed <= g.filed
            /\ \A f, g \in K : f.end = g.end => f = g
<1> DEFINE K == Range(ByPeriodEnd(values, maxYear))
<1>1. PICK k : k = ByPeriodEnd(values, maxYear)
  OBVIOUS
<1>2. K = {k[e] : e \in DOMAIN k}
  BY <1>1 DEF Range
<1>3. /\ \A e \in DOMAIN k : k[e].end = e /\ k[e] \in ToSet(values) /\ Qualifies(k[e], maxYear)
      /\ \A f \in ToSet(values) : Qualifies(f, maxYear) => f.end \in DOMAIN k /\ f.filed <= k[f.end].filed
  BY <1>1, PeriodsAreKnown DEF KnownWell
<1> HIDE DEF K
<1>4. ToSet(values) \subseteq FactSet
  BY DEF ToSet
<1>5. \A f \in K : f \in ToSet(values) /\ Qualifies(f, maxYear)
  BY <1>2, <1>3
<1>6. \A f, g \in K : f.end = g.end => f = g
  BY <1>2, <1>3
<1>7. IsFiniteSet(K) /\ K \in SUBSET FactSet
  <2>1. K \subseteq ToSet(values) /\ IsFiniteSet(ToSet(values))
    BY <1>5, FiniteMembers
  <2>2. QED
    BY <1>4, <2>1, FS_Subset
<1>8. NewestFirst(K) \in Seq(FactSet) /\ Sorted(NewestFirst(K)) /\ ToSet(NewestFirst(K)) = K
  BY <1>6, <1>7, NewestFirstIs
<1>9. \A f \in ToSet(values) : Qualifies(f, maxYear) => \E g \in K : g.end = f.end /\ f.filed <= g.filed
  BY <1>2, <1>3
<1>10. QED
  BY <1>5, <1>6, <1>8, <1>9 DEF K

OneMoreYear(kept, f) == IF kept = <<>> \/ FiscalYear(Last(kept)) # FiscalYear(f) THEN Append(kept, f) ELSE kept

LEMMA YearsFold ==
  /\ OnePerYear(<<>>) = <<>>
         /\ \A s \in Seq(FactSet) : /\ OnePerYear(s) \in Seq(FactSet)
                              /\ \A x \in FactSet : OnePerYear(Append(s, x)) = OneMoreYear(OnePerYear(s), x)
<1> DEFINE A == Seq(FactSet)
           base == <<>>
           E == FactSet
           op == [p \in A \X E |-> OneMoreYear(p[1], p[2])]
<1>1. base \in A
  BY EmptySeq
<1>2. ASSUME NEW a \in A, NEW x \in E PROVE OneMoreYear(a, x) \in A
  <2>1. Append(a, x) \in Seq(FactSet)
    BY AppendProperties
  <2>2. QED
    BY <2>1 DEF OneMoreYear
<1>3. \A a \in A, x \in E : op[<<a, x>>] = OneMoreYear(a, x) /\ op[<<a, x>>] \in A
  BY <1>2
<1> HIDE DEF A, base, op, E
<1>4. IsMap(op, A, E)
  BY <1>3 DEF IsMap
<1>5. PICK F : IsFold(F, op, base, A, E)
  BY <1>1, <1>4, FoldAsFunction
<1>6. ASSUME NEW s \in Seq(E) PROVE OnePerYear(s) = F[s]
  <2>1. PICK n \in Nat : n = Len(s) /\ DOMAIN s = 1 .. n
    OBVIOUS
  <2> DEFINE Body(i) == [T \in SUBSET (1 .. n) |-> IF T = {} THEN base ELSE OneMoreYear(i[T \ {Max(T)}], s[Max(T)])]
             iter == CHOOSE i : i = Body(i)
  <2>2. OnePerYear(s) = iter[1 .. n]
    BY <2>1 DEF OnePerYear, OneMoreYear, FoldLeft, MapThenFoldSet, base
  <2>3. \A T \in SUBSET (1 .. n) : T # {} => s[Max(T)] \in E /\ T \ {Max(T)} \in SUBSET (1 .. n)
    <3>1. \A i \in 1 .. n : s[i] \in E
      BY <2>1
    <3>2. \A T \in SUBSET (1 .. n) : T # {} => Max(T) \in 1 .. n
      BY GreatestPicks
    <3>3. QED
      BY <3>1, <3>2
  <2>4. PICK h \in [SUBSET (1 .. n) -> A] : Unfolds(h, op, base, A, s)
    BY <1>5, <2>1 DEF IsFold
  <2>5. \A T \in SUBSET (1 .. n) : h[T] = IF T = {} THEN base ELSE OneMoreYear(h[T \ {Max(T)}], s[Max(T)])
    BY <1>3, <2>1, <2>3, <2>4 DEF Unfolds
  <2>6. h = Body(h)
    <3>1. h = [T \in SUBSET (1 .. n) |-> h[T]]
      BY <2>4
    <3>2. QED
      BY <2>5, <3>1
  <2>7. iter = Body(iter)
    <3> HIDE DEF Body
    <3>1. QED
      BY <2>6
  <2> HIDE DEF iter
  <2>8. \A T \in SUBSET (1 .. n) : iter[T] = IF T = {} THEN base ELSE OneMoreYear(iter[T \ {Max(T)}], s[Max(T)])
    BY <2>7
  <2> HIDE DEF Body
  <2>9. Unfolds(iter, op, base, A, s)
    BY <1>3, <2>1, <2>3, <2>8 DEF Unfolds
  <2>10. QED
    BY <1>5, <2>1, <2>2, <2>9 DEF IsFold
<1>7. F[<<>>] = base /\ \A s \in Seq(E) : F[s] \in A /\ \A x \in E : F[Append(s, x)] = op[<<F[s], x>>]
  BY <1>5 DEF IsFold, Folds
<1>8. <<>> \in Seq(E) /\ \A s \in Seq(E), x \in E : Append(s, x) \in Seq(E)
  BY EmptySeq, AppendProperties
<1>9. OnePerYear(<<>>) = base
  BY <1>6, <1>7, <1>8
<1>10. ASSUME NEW s \in Seq(E), NEW x \in E PROVE OnePerYear(Append(s, x)) = OneMoreYear(OnePerYear(s), x)
  <2>1. OnePerYear(Append(s, x)) = op[<<F[s], x>>]
    BY <1>6, <1>7, <1>8
  <2>2. QED
    BY <1>3, <1>6, <1>7, <2>1
<1>11. QED
  BY <1>6, <1>7, <1>9, <1>10 DEF base, A, E

YearsDescend(s) == \A i, j \in DOMAIN s : i < j => FiscalYear(s[i]) > FiscalYear(s[j])

(* Of each year the last period is kept. *)
KeptYears(s) ==
  LET kept == OnePerYear(s) IN
  /\ ToSet(kept) \subseteq ToSet(s)
  /\ YearsDescend(kept)
  /\ \A f \in ToSet(s) : /\ \E i \in DOMAIN kept : FiscalYear(kept[i]) = FiscalYear(f) /\ f.end <= kept[i].end
                          /\ FiscalYear(Last(kept)) <= FiscalYear(f)

LEMMA YearsAreKept ==
  ASSUME NEW sorted \in Seq(FactSet), Sorted(sorted)
  PROVE  KeptYears(sorted)
<1> DEFINE Good == {s \in Seq(FactSet) : Sorted(s) => KeptYears(s)}
<1>1. <<>> \in Good
  <2>1. <<>> \in Seq(FactSet) /\ ToSet(<<>>) = {} /\ OnePerYear(<<>>) = <<>> /\ DOMAIN <<>> = {}
    BY EmptySeq, YearsFold DEF ToSet
  <2>2. YearsDescend(<<>>)
    BY <2>1 DEF YearsDescend
  <2>3. QED
    BY <2>1, <2>2 DEF KeptYears
<1>2. ASSUME NEW s \in Seq(FactSet), NEW f \in FactSet, s \in Good PROVE Append(s, f) \in Good
  <2> DEFINE t == Append(s, f)
  <2>1. PICK n \in Nat : n = Len(s) /\ DOMAIN s = 1 .. n
    OBVIOUS
  <2>2. t \in Seq(FactSet) /\ DOMAIN t = 1 .. (n + 1) /\ t[n + 1] = f /\ \A i \in 1 .. n : t[i] = s[i]
    BY <2>1, AppendProperties
  <2>3. ToSet(t) = ToSet(s) \cup {f}
    BY MembersOfOneMore
  <2>4. OnePerYear(t) = OneMoreYear(OnePerYear(s), f)
    BY YearsFold
  <2> HIDE DEF t
  <2> SUFFICES ASSUME Sorted(t) PROVE KeptYears(t)
    BY <2>2 DEF t
  <2>5. \A i \in 1 .. n : i \in 1 .. (n + 1) /\ i < n + 1 /\ n + 1 \in 1 .. (n + 1)
    BY <2>1
  <2>6. Sorted(s) /\ \A g \in ToSet(s) : f.end < g.end
    <3>1. \A i, j \in 1 .. (n + 1) : i < j => t[i].end > t[j].end
      BY <2>2 DEF Sorted
    <3>2. Sorted(s)
      BY <2>1, <2>2, <2>5, <3>1 DEF Sorted
    <3>3. \A i \in 1 .. n : s[i].end > f.end
      BY <2>2, <2>5, <3>1
    <3>4. ToSet(s) \subseteq FactSet
      BY DEF ToSet
    <3>5. \A g \in FactSet : g.end \in Nat
      BY DEF FactSet
    <3>6. \A g \in ToSet(s) : g.end > f.end
      BY <2>1, <3>3 DEF ToSet
    <3>7. QED
      BY <3>2, <3>4, <3>5, <3>6
  <2>7. PICK k \in Seq(FactSet) : k = OnePerYear(s)
    BY YearsFold
  <2>8. PICK m \in Nat : m = Len(k) /\ DOMAIN k = 1 .. m /\ (k = <<>> <=> m = 0)
    BY EmptySeq
  <2>9. /\ ToSet(k) \subseteq ToSet(s) /\ YearsDescend(k)
        /\ \A g \in ToSet(s) : /\ \E i \in 1 .. m : FiscalYear(k[i]) = FiscalYear(g) /\ g.end <= k[i].end
                                /\ FiscalYear(Last(k)) <= FiscalYear(g)
    BY <1>2, <2>6, <2>7, <2>8 DEF KeptYears
  <2>10. ToSet(s) \subseteq FactSet /\ \A i \in 1 .. m : k[i] \in ToSet(s) /\ k[i] \in FactSet
    <3>1. \A i \in 1 .. m : k[i] \in ToSet(k)
      BY <2>8 DEF ToSet
    <3>2. ToSet(s) \subseteq FactSet
      BY DEF ToSet
    <3>3. QED
      BY <2>9, <3>1, <3>2
  <2>11. \A g \in FactSet : g.end \in Nat /\ FiscalYear(g) \in Nat
    BY YearsFollowEnds DEF FactSet
  <2>12. \A g \in ToSet(s) : FiscalYear(f) <= FiscalYear(g)
    <3>1. \A g \in ToSet(s) : f.end <= g.end /\ g \in FactSet
      BY <2>6, <2>10, <2>11
    <3>2. QED
      BY <3>1, YearsFollowEnds
  <2>13. m > 0 => Last(k) = k[m] /\ m \in 1 .. m
    BY <2>8 DEF Last
  <2>14. CASE k = <<>> \/ FiscalYear(Last(k)) # FiscalYear(f)
    <3> DEFINE l == Append(k, f)
    <3>1. OnePerYear(t) = l
      BY <2>4, <2>7, <2>14 DEF OneMoreYear
    <3>2. l \in Seq(FactSet) /\ Len(l) = m + 1 /\ DOMAIN l = 1 .. (m + 1) /\ l[m + 1] = f /\ \A i \in 1 .. m : l[i] = k[i]
      BY <2>8, AppendProperties
    <3>3. ToSet(l) = ToSet(k) \cup {f}
      BY MembersOfOneMore
    <3> HIDE DEF l
    <3>4. \A i \in 1 .. m : FiscalYear(k[i]) > FiscalYear(f)
      <4> TAKE i \in 1 .. m
      <4>1. m > 0 /\ FiscalYear(k[m]) # FiscalYear(f) /\ k[m] \in FactSet /\ k[m] \in ToSet(s)
        BY <2>8, <2>10, <2>13, <2>14
      <4>2. FiscalYear(f) < FiscalYear(k[m])
        BY <2>11, <2>12, <4>1
      <4>3. FiscalYear(k[m]) <= FiscalYear(k[i])
        BY <2>9, <2>10, <2>13, <4>1
      <4>4. QED
        BY <2>10, <2>11, <4>1, <4>2, <4>3
    <3>5. ASSUME NEW i \in 1 .. (m + 1), NEW j \in 1 .. (m + 1), i < j PROVE FiscalYear(l[i]) > FiscalYear(l[j])
      <4>1. i \in 1 .. m
        BY <3>5
      <4>2. CASE j = m + 1
        BY <3>2, <3>4, <4>1, <4>2
      <4>3. CASE j # m + 1
        <5>1. j \in 1 .. m
          BY <4>3
        <5>2. FiscalYear(k[i]) > FiscalYear(k[j])
          BY <2>8, <2>9, <3>5, <4>1, <5>1 DEF YearsDescend
        <5>3. QED
          BY <3>2, <4>1, <5>1, <5>2
      <4>4. QED
        BY <4>2, <4>3
    <3>6. YearsDescend(l)
      BY <3>2, <3>5 DEF YearsDescend
    <3>7. Last(l) = f /\ m + 1 \in 1 .. (m + 1)
      BY <2>8, <3>2 DEF Last
    <3>8. ASSUME NEW g \in ToSet(t)
          PROVE  /\ \E i \in DOMAIN l : FiscalYear(l[i]) = FiscalYear(g) /\ g.end <= l[i].end
                 /\ FiscalYear(Last(l)) <= FiscalYear(g)
      <4>1. CASE g = f
        <5>1. m + 1 \in DOMAIN l /\ l[m + 1] = f
          BY <3>2, <3>7
        <5>2. f.end <= f.end /\ FiscalYear(f) <= FiscalYear(f)
          BY <2>11
        <5>3. QED
          BY <3>7, <4>1, <5>1, <5>2
      <4>2. CASE g \in ToSet(s)
        <5>1. PICK i \in 1 .. m : FiscalYear(k[i]) = FiscalYear(g) /\ g.end <= k[i].end
          BY <2>9, <4>2
        <5>2. i \in DOMAIN l /\ l[i] = k[i]
          BY <2>8, <3>2
        <5>3. QED
          BY <2>12, <3>7, <4>2, <5>1, <5>2
      <4>3. QED
        BY <2>3, <4>1, <4>2
    <3>9. QED
      BY <2>3, <2>9, <3>1, <3>3, <3>6, <3>8 DEF KeptYears
  <2>15. CASE ~(k = <<>> \/ FiscalYear(Last(k)) # FiscalYear(f))
    <3>1. OnePerYear(t) = k
      BY <2>4, <2>7, <2>15 DEF OneMoreYear
    <3>2. m > 0 /\ m \in 1 .. m /\ FiscalYear(k[m]) = FiscalYear(f) /\ Last(k) = k[m]
      BY <2>8, <2>13, <2>15
    <3>3. f.end <= k[m].end
      <4>1. k[m] \in ToSet(s) /\ k[m] \in FactSet
        BY <2>10, <3>2
      <4>2. QED
        BY <2>6, <2>11, <4>1
    <3>4. ASSUME NEW g \in ToSet(t)
          PROVE  /\ \E i \in DOMAIN k : FiscalYear(k[i]) = FiscalYear(g) /\ g.end <= k[i].end
                 /\ FiscalYear(Last(k)) <= FiscalYear(g)
      <4>1. CASE g = f
        <5>1. m \in DOMAIN k
          BY <2>8, <3>2
        <5>2. FiscalYear(Last(k)) <= FiscalYear(f)
          <6>1. FiscalYear(f) <= FiscalYear(f)
            BY <2>11
          <6>2. QED
            BY <3>2, <6>1
        <5>3. QED
          BY <3>2, <3>3, <4>1, <5>1, <5>2
      <4>2. CASE g \in ToSet(s)
        BY <2>8, <2>9, <4>2
      <4>3. QED
        BY <2>3, <4>1, <4>2
    <3>5. QED
      BY <2>3, <2>9, <3>1, <3>4 DEF KeptYears
  <2>16. QED
    BY <2>14, <2>15
<1> HIDE DEF Good
<1>3. \A s \in Seq(FactSet) : s \in Good
  BY <1>1, <1>2, SequenceInduction
<1>4. QED
  BY <1>3 DEF Good

-----------------------------------------------------------------------------
(* The history of a tag *)

IsHistory(h, doc, tag, maxYear) ==
  /\ h \in Seq(FactSet) /\ YearsDescend(h)
  /\ \A i \in DOMAIN h : Stands(h[i], doc, maxYear) /\ h[i].tag = tag
  /\ \A f \in ToSet(doc) : f.tag = tag /\ Qualifies(f, maxYear) => \E i \in DOMAIN h : FiscalYear(h[i]) = FiscalYear(f)

(* No two facts of a history are of one year. *)
LEMMA YearsDiffer ==
  ASSUME NEW h \in Seq(FactSet), YearsDescend(h), NEW i \in DOMAIN h, NEW j \in DOMAIN h, FiscalYear(h[i]) = FiscalYear(h[j])
  PROVE  i = j
<1>1. PICK n \in Nat : n = Len(h) /\ DOMAIN h = 1 .. n
  OBVIOUS
<1>2. FiscalYear(h[i]) \in Nat /\ FiscalYear(h[j]) \in Nat
  BY YearsFollowEnds
<1>3. ~(i < j) /\ ~(j < i)
  BY <1>2 DEF YearsDescend
<1>4. QED
  BY <1>1, <1>3

(* A tag's history holds the fact that stands for each of its years. *)
LEMMA HistoryStands ==
  ASSUME NEW doc \in Seq(FactSet), NEW tag, NEW maxYear
  PROVE  IsHistory(TagHistory(doc, tag, maxYear), doc, tag, maxYear)
<1>1. PICK v \in Seq(FactSet) : v = OfTag(doc, tag) /\ ToSet(v) = {f \in ToSet(doc) : f.tag = tag}
  BY OfTagIs
<1>2. PICK K : K = Range(ByPeriodEnd(v, maxYear))
  OBVIOUS
<1>3. PICK s \in Seq(FactSet) : s = NewestFirst(K) /\ Sorted(s) /\ ToSet(s) = K
  BY <1>2, PeriodsAreSorted
<1>4. /\ \A f \in K : f \in ToSet(v) /\ Qualifies(f, maxYear)
      /\ \A f \in ToSet(v) : Qualifies(f, maxYear) => \E g \in K : g.end = f.end /\ f.filed <= g.filed
      /\ \A f, g \in K : f.end = g.end => f = g
  BY <1>2, PeriodsAreSorted
<1>5. PICK h \in Seq(FactSet) : h = OnePerYear(s)
  BY YearsFold
<1>6. h = TagHistory(doc, tag, maxYear)
  BY <1>1, <1>2, <1>3, <1>5 DEF TagHistory
<1>7. /\ ToSet(h) \subseteq K /\ YearsDescend(h)
      /\ \A f \in K : \E i \in DOMAIN h : FiscalYear(h[i]) = FiscalYear(f) /\ f.end <= h[i].end
  BY <1>3, <1>5, YearsAreKept DEF KeptYears
<1>8. ToSet(doc) \subseteq FactSet /\ \A f \in FactSet : f.end \in Nat /\ f.filed \in Nat
  <2>1. ToSet(doc) \subseteq FactSet
    BY DEF ToSet
  <2>2. QED
    BY <2>1 DEF FactSet
<1>9. \A i \in DOMAIN h : h[i] \in K
  BY <1>7 DEF ToSet
<1>10. \A f, g \in FactSet : f.end = g.end => FiscalYear(f) = FiscalYear(g)
  BY DEF FiscalYear
<1>11. ASSUME NEW i \in DOMAIN h, NEW g \in ToSet(doc), g.tag = tag, Qualifies(g, maxYear), FiscalYear(g) = FiscalYear(h[i])
       PROVE  g.end < h[i].end \/ (g.end = h[i].end /\ g.filed <= h[i].filed)
  <2>1. PICK k \in K : k.end = g.end /\ g.filed <= k.filed
    BY <1>1, <1>4, <1>11
  <2>2. PICK j \in DOMAIN h : FiscalYear(h[j]) = FiscalYear(k) /\ k.end <= h[j].end
    BY <1>7
  <2>3. k \in FactSet /\ g \in FactSet
    BY <1>1, <1>4, <1>8
  <2>4. FiscalYear(h[j]) = FiscalYear(h[i])
    BY <1>10, <1>11, <2>1, <2>2, <2>3
  <2>5. i = j
    BY <1>7, <2>4, YearsDiffer
  <2>6. h[i] \in FactSet
    BY <1>1, <1>4, <1>8, <1>9
  <2>7. CASE g.end = h[i].end
    BY <1>4, <1>9, <2>1, <2>7
  <2>8. CASE g.end # h[i].end
    BY <1>8, <2>1, <2>2, <2>3, <2>5, <2>6, <2>8
  <2>9. QED
    BY <2>7, <2>8
<1>12. ASSUME NEW i \in DOMAIN h PROVE Stands(h[i], doc, maxYear) /\ h[i].tag = tag
  <2>1. h[i] \in ToSet(doc) /\ h[i].tag = tag /\ Qualifies(h[i], maxYear)
    BY <1>1, <1>4, <1>9
  <2>2. QED
    BY <1>11, <2>1 DEF Stands
<1>13. ASSUME NEW f \in ToSet(doc), f.tag = tag, Qualifies(f, maxYear) PROVE \E i \in DOMAIN h : FiscalYear(h[i]) = FiscalYear(f)
  <2>1. PICK k \in K : k.end = f.end
    BY <1>1, <1>4, <1>13
  <2>2. PICK i \in DOMAIN h : FiscalYear(h[i]) = FiscalYear(k)
    BY <1>7
  <2>3. FiscalYear(k) = FiscalYear(f)
    BY <2>1 DEF FiscalYear
  <2>4. QED
    BY <2>2, <2>3
<1>14. IsHistory(h, doc, tag, maxYear)
  BY <1>7, <1>12, <1>13 DEF IsHistory
<1>15. QED
  BY <1>6, <1>14

(* The first n years of a history are n. *)
LEMMA YearsCounted ==
  ASSUME NEW h \in Seq(FactSet), YearsDescend(h), NEW n \in Nat, n <= Len(h)
  PROVE  Cardinality({FiscalYear(h[i]) : i \in 1 .. n}) = n
<1> DEFINE Y == {FiscalYear(h[i]) : i \in 1 .. n}
           q == [i \in 1 .. n |-> FiscalYear(h[i])]
<1>1. 1 .. n \subseteq DOMAIN h
  BY DOMAIN h = 1 .. Len(h), Len(h) \in Nat
<1>2. q \in [1 .. n -> Y] /\ (\A y \in Y : \E i \in 1 .. n : q[i] = y) /\ \A i \in 1 .. n : q[i] = FiscalYear(h[i])
  OBVIOUS
<1> HIDE DEF q, Y
<1>3. q \in Injection(1 .. n, Y)
  <2>1. \A i, j \in 1 .. n : q[i] = q[j] => i = j
    BY <1>1, <1>2, YearsDiffer
  <2>2. QED
    BY <1>2, <2>1 DEF Injection, IsInjective
<1>4. q \in Surjection(1 .. n, Y)
  BY <1>2 DEF Surjection
<1>5. ExistsBijection(1 .. n, Y)
  BY <1>3, <1>4 DEF ExistsBijection, Bijection
<1>6. IsFiniteSet(1 .. n) /\ Cardinality(1 .. n) = n
  BY FS_Interval
<1>7. QED
  BY <1>5, <1>6, FS_Bijection DEF Y

LEMMA MaxIs ==
  ASSUME NEW S \in SUBSET Nat, NEW m \in S, \A x \in S : x <= m
  PROVE  Max(S) = m
<1>1. Max(S) \in S /\ \A y \in S : Max(S) >= y
  BY DEF Max
<1>2. Max(S) \in Nat /\ m \in Nat
  BY <1>1
<1>3. QED
  BY <1>1, <1>2

(* The years of a tag and its last period are those of its history. *)
LEMMA YearsAreHistory ==
  ASSUME NEW doc \in Seq(FactSet), NEW tag, NEW maxYear, NEW h, IsHistory(h, doc, tag, maxYear)
  PROVE  YearsOf(doc, tag, maxYear) = {FiscalYear(h[i]) : i \in DOMAIN h}
<1>1. ToSet(doc) \subseteq FactSet
  BY DEF ToSet
<1>2. ASSUME NEW i \in DOMAIN h PROVE FiscalYear(h[i]) \in YearsOf(doc, tag, maxYear)
  <2>1. h[i] \in ToSet(doc) /\ h[i].tag = tag /\ Stands(h[i], doc, maxYear)
    BY DEF IsHistory, Stands
  <2>2. QED
    BY <2>1 DEF YearsOf
<1>3. ASSUME NEW f \in ToSet(doc), f.tag = tag, Stands(f, doc, maxYear) PROVE \E i \in DOMAIN h : FiscalYear(f) = FiscalYear(h[i])
  <2>1. Qualifies(f, maxYear)
    BY <1>3 DEF Stands
  <2>2. QED
    BY <1>3, <2>1 DEF IsHistory
<1>4. QED
  BY <1>2, <1>3 DEF YearsOf

LEMMA LastOfHistory ==
  ASSUME NEW doc \in Seq(FactSet), NEW tag, NEW maxYear, NEW h, IsHistory(h, doc, tag, maxYear), h # <<>>
  PROVE  1 \in DOMAIN h /\ LastEnd(doc, tag, maxYear) = h[1].end
<1>1. ToSet(doc) \subseteq FactSet /\ h \in Seq(FactSet) /\ YearsDescend(h)
  BY DEF ToSet, IsHistory
<1>2. PICK n \in Nat : n = Len(h) /\ DOMAIN h = 1 .. n /\ n > 0
  BY <1>1, EmptySeq
<1>3. 1 \in DOMAIN h
  BY <1>2
<1>4. \A i \in DOMAIN h : h[i] \in FactSet /\ h[i] \in ToSet(doc) /\ h[i].tag = tag /\ Stands(h[i], doc, maxYear)
  BY <1>1, <1>2 DEF IsHistory, Stands
<1>5. \A f \in FactSet : f.end \in Nat
  BY DEF FactSet
<1> DEFINE S == {f.end : f \in {g \in ToSet(doc) : g.tag = tag /\ Stands(g, doc, maxYear)}}
<1>6. S \in SUBSET Nat /\ h[1].end \in S
  BY <1>1, <1>3, <1>4, <1>5
<1>7. \A f, g \in FactSet : f.end \in Nat /\ g.end \in Nat /\ FiscalYear(f) \in Nat /\ FiscalYear(g) \in Nat /\ (f.end <= g.end => FiscalYear(f) <= FiscalYear(g))
  BY <1>5, YearsFollowEnds
<1>8. ASSUME NEW i \in DOMAIN h PROVE h[i].end <= h[1].end
  <2>1. CASE i = 1
    BY <1>4, <1>5, <2>1
  <2>2. CASE i # 1
    <3>1. 1 < i
      BY <1>2, <2>2
    <3>2. FiscalYear(h[1]) > FiscalYear(h[i])
      BY <1>1, <1>3, <3>1 DEF YearsDescend
    <3>3. QED
      BY <1>3, <1>4, <1>7, <3>2
  <2>3. QED
    BY <2>1, <2>2
<1>9. ASSUME NEW f \in ToSet(doc), f.tag = tag, Stands(f, doc, maxYear) PROVE f.end <= h[1].end
  <2>1. Qualifies(f, maxYear)
    BY <1>9 DEF Stands
  <2>2. PICK i \in DOMAIN h : FiscalYear(h[i]) = FiscalYear(f)
    BY <1>9, <2>1 DEF IsHistory
  <2>3. f.end < h[i].end \/ f.end = h[i].end
    BY <1>4, <1>9, <2>1, <2>2 DEF Stands
  <2>4. h[i].end <= h[1].end /\ h[i] \in FactSet /\ h[1] \in FactSet /\ f \in FactSet
    BY <1>1, <1>3, <1>4, <1>8
  <2>5. QED
    BY <1>5, <2>3, <2>4
<1>10. \A x \in S : x <= h[1].end
  BY <1>9
<1> HIDE DEF S
<1>11. Max(S) = h[1].end
  BY <1>6, <1>10, MaxIs
<1>12. QED
  BY <1>3, <1>11 DEF LastEnd, S

-----------------------------------------------------------------------------
(* The freshest history *)

BestBy(best, tag, doc, maxYear, minimum) ==
  LET facts == TagHistory(doc, tag, maxYear) IN
  IF facts # <<>> /\ Len(facts) >= minimum /\ FresherThan(facts, best) THEN [tag |-> tag, facts |-> facts] ELSE best

Histories(V) == [tag : V, facts : Seq(FactSet)] \cup {None}

LEMMA BestFold ==
  ASSUME NEW doc \in Seq(FactSet), NEW maxYear, NEW minimum, NEW V
  PROVE  /\ BestHistory(doc, <<>>, maxYear, minimum) = None
         /\ \A s \in Seq(V) : /\ BestHistory(doc, s, maxYear, minimum) \in Histories(V)
                              /\ \A x \in V : BestHistory(doc, Append(s, x), maxYear, minimum) = BestBy(BestHistory(doc, s, maxYear, minimum), x, doc, maxYear, minimum)
<1> DEFINE A == Histories(V)
           base == None
           E == V
           op == [p \in A \X E |-> BestBy(p[1], p[2], doc, maxYear, minimum)]
<1>1. base \in A
  BY DEF Histories
<1>2. ASSUME NEW a \in A, NEW x \in E PROVE BestBy(a, x, doc, maxYear, minimum) \in A
  <2>1. PICK h \in Seq(FactSet) : h = TagHistory(doc, x, maxYear)
    BY HistoryStands DEF IsHistory
  <2>2. [tag |-> x, facts |-> h] \in Histories(V)
    BY DEF Histories
  <2>3. BestBy(a, x, doc, maxYear, minimum) = a \/ BestBy(a, x, doc, maxYear, minimum) = [tag |-> x, facts |-> h]
    BY <2>1 DEF BestBy
  <2>4. QED
    BY <2>2, <2>3
<1>3. \A a \in A, x \in E : op[<<a, x>>] = BestBy(a, x, doc, maxYear, minimum) /\ op[<<a, x>>] \in A
  BY <1>2
<1> HIDE DEF A, base, op, E
<1>4. IsMap(op, A, E)
  BY <1>3 DEF IsMap
<1>5. PICK F : IsFold(F, op, base, A, E)
  BY <1>1, <1>4, FoldAsFunction
<1>6. ASSUME NEW s \in Seq(E) PROVE BestHistory(doc, s, maxYear, minimum) = F[s]
  <2>1. PICK n \in Nat : n = Len(s) /\ DOMAIN s = 1 .. n
    OBVIOUS
  <2> DEFINE Body(i) == [T \in SUBSET (1 .. n) |-> IF T = {} THEN base ELSE BestBy(i[T \ {Max(T)}], s[Max(T)], doc, maxYear, minimum)]
             iter == CHOOSE i : i = Body(i)
  <2>2. BestHistory(doc, s, maxYear, minimum) = iter[1 .. n]
    BY <2>1 DEF BestHistory, BestBy, FoldLeft, MapThenFoldSet, base
  <2>3. \A T \in SUBSET (1 .. n) : T # {} => s[Max(T)] \in E /\ T \ {Max(T)} \in SUBSET (1 .. n)
    <3>1. \A i \in 1 .. n : s[i] \in E
      BY <2>1
    <3>2. \A T \in SUBSET (1 .. n) : T # {} => Max(T) \in 1 .. n
      BY GreatestPicks
    <3>3. QED
      BY <3>1, <3>2
  <2>4. PICK h \in [SUBSET (1 .. n) -> A] : Unfolds(h, op, base, A, s)
    BY <1>5, <2>1 DEF IsFold
  <2>5. \A T \in SUBSET (1 .. n) : h[T] = IF T = {} THEN base ELSE BestBy(h[T \ {Max(T)}], s[Max(T)], doc, maxYear, minimum)
    BY <1>3, <2>1, <2>3, <2>4 DEF Unfolds
  <2>6. h = Body(h)
    <3>1. h = [T \in SUBSET (1 .. n) |-> h[T]]
      BY <2>4
    <3>2. QED
      BY <2>5, <3>1
  <2>7. iter = Body(iter)
    <3> HIDE DEF Body
    <3>1. QED
      BY <2>6
  <2> HIDE DEF iter
  <2>8. \A T \in SUBSET (1 .. n) : iter[T] = IF T = {} THEN base ELSE BestBy(iter[T \ {Max(T)}], s[Max(T)], doc, maxYear, minimum)
    BY <2>7
  <2> HIDE DEF Body
  <2>9. Unfolds(iter, op, base, A, s)
    BY <1>3, <2>1, <2>3, <2>8 DEF Unfolds
  <2>10. QED
    BY <1>5, <2>1, <2>2, <2>9 DEF IsFold
<1>7. F[<<>>] = base /\ \A s \in Seq(E) : F[s] \in A /\ \A x \in E : F[Append(s, x)] = op[<<F[s], x>>]
  BY <1>5 DEF IsFold, Folds
<1>8. <<>> \in Seq(E) /\ \A s \in Seq(E), x \in E : Append(s, x) \in Seq(E)
  BY EmptySeq, AppendProperties
<1>9. BestHistory(doc, <<>>, maxYear, minimum) = base
  BY <1>6, <1>7, <1>8
<1>10. ASSUME NEW s \in Seq(E), NEW x \in E PROVE BestHistory(doc, Append(s, x), maxYear, minimum) = BestBy(BestHistory(doc, s, maxYear, minimum), x, doc, maxYear, minimum)
  <2>1. BestHistory(doc, Append(s, x), maxYear, minimum) = op[<<F[s], x>>]
    BY <1>6, <1>7, <1>8
  <2>2. QED
    BY <1>3, <1>6, <1>7, <2>1
<1>11. QED
  BY <1>6, <1>7, <1>9, <1>10 DEF base, A, E

Enough(tag, doc, maxYear, minimum) ==
  TagHistory(doc, tag, maxYear) # <<>> /\ Len(TagHistory(doc, tag, maxYear)) >= minimum

EndOf(tag, doc, maxYear) == TagHistory(doc, tag, maxYear)[1].end

(* Place m holds the freshest of the tags with enough years, the first of those as fresh. *)
FirstFreshest(m, s, doc, maxYear, minimum) ==
  /\ m \in DOMAIN s /\ Enough(s[m], doc, maxYear, minimum)
  /\ \A j \in DOMAIN s : Enough(s[j], doc, maxYear, minimum) =>
       /\ EndOf(s[j], doc, maxYear) <= EndOf(s[m], doc, maxYear)
       /\ j < m => EndOf(s[j], doc, maxYear) < EndOf(s[m], doc, maxYear)

BestIs(best, s, doc, maxYear, minimum) ==
  \/ best = None /\ \A i \in DOMAIN s : ~Enough(s[i], doc, maxYear, minimum)
  \/ \E m \in DOMAIN s : /\ FirstFreshest(m, s, doc, maxYear, minimum)
                         /\ best = [tag |-> s[m], facts |-> TagHistory(doc, s[m], maxYear)]

LEMMA EndType ==
  ASSUME NEW doc \in Seq(FactSet), NEW maxYear, NEW minimum, NEW tag, Enough(tag, doc, maxYear, minimum)
  PROVE  EndOf(tag, doc, maxYear) \in Nat
<1>1. PICK h \in Seq(FactSet) : h = TagHistory(doc, tag, maxYear)
  BY HistoryStands DEF IsHistory
<1>2. h # <<>>
  BY <1>1 DEF Enough
<1>3. h[1] \in FactSet
  BY <1>2, EmptySeq
<1>4. QED
  BY <1>1, <1>3 DEF EndOf, FactSet

LEMMA BestIsFreshest ==
  ASSUME NEW doc \in Seq(FactSet), NEW maxYear, NEW minimum, NEW V, NEW tags \in Seq(V)
  PROVE  BestIs(BestHistory(doc, tags, maxYear, minimum), tags, doc, maxYear, minimum)
<1> DEFINE Good == {s \in Seq(V) : BestIs(BestHistory(doc, s, maxYear, minimum), s, doc, maxYear, minimum)}
           E(x) == Enough(x, doc, maxYear, minimum)
           end(x) == EndOf(x, doc, maxYear)
           H(x) == TagHistory(doc, x, maxYear)
<1>0. \A x : E(x) => end(x) \in Nat
  BY EndType
<1>1. <<>> \in Good
  <2>1. <<>> \in Seq(V) /\ DOMAIN <<>> = {}
    BY EmptySeq
  <2>2. BestHistory(doc, <<>>, maxYear, minimum) = None
    BY BestFold
  <2>3. QED
    BY <2>1, <2>2 DEF BestIs
<1>2. ASSUME NEW s \in Seq(V), NEW x \in V, s \in Good PROVE Append(s, x) \in Good
  <2>1. PICK n \in Nat : n = Len(s) /\ DOMAIN s = 1 .. n
    OBVIOUS
  <2>2. PICK t \in Seq(V) : t = Append(s, x) /\ DOMAIN t = 1 .. (n + 1) /\ t[n + 1] = x /\ \A i \in 1 .. n : t[i] = s[i]
    <3>0. \A U : \A r \in Seq(U), v \in U : /\ Append(r, v) \in Seq(U) /\ Len(Append(r, v)) = Len(r) + 1
                                           /\ \A i \in 1 .. Len(r) : Append(r, v)[i] = r[i]
                                           /\ Append(r, v)[Len(r) + 1] = v
      BY AppendProperties
    <3>1. /\ Append(s, x) \in Seq(V) /\ Len(Append(s, x)) = n + 1 /\ Append(s, x)[n + 1] = x
          /\ \A i \in 1 .. n : Append(s, x)[i] = s[i]
      BY <2>1, <3>0
    <3>2. DOMAIN Append(s, x) = 1 .. (n + 1)
      BY <3>1
    <3>3. QED
      BY <3>1, <3>2
  <2>3. PICK b : b = BestHistory(doc, s, maxYear, minimum)
    OBVIOUS
  <2>4. PICK c : c = BestHistory(doc, t, maxYear, minimum)
    OBVIOUS
  <2>5. c = BestBy(b, x, doc, maxYear, minimum)
    BY <2>2, <2>3, <2>4, BestFold
  <2>6. BestIs(b, s, doc, maxYear, minimum)
    BY <1>2, <2>3
  <2> SUFFICES BestIs(c, t, doc, maxYear, minimum)
    BY <2>2, <2>4
  <2>7. n + 1 \in 1 .. (n + 1) /\ \A i \in 1 .. (n + 1) : i = n + 1 \/ (i \in 1 .. n /\ i < n + 1)
    OBVIOUS
  <2>8. \A i \in 1 .. n : i \in 1 .. (n + 1) /\ i \in Nat
    OBVIOUS
  <2>9. CASE b = None /\ \A i \in 1 .. n : ~E(s[i])
    <3>1. CASE E(x)
      <4>1. c = [tag |-> x, facts |-> H(x)]
        BY <2>5, <2>9, <3>1 DEF BestBy, Enough, FresherThan
      <4>2. ASSUME NEW j \in 1 .. (n + 1), E(t[j]) PROVE end(t[j]) <= end(t[n + 1]) /\ ~(j < n + 1)
        <5>1. j = n + 1
          BY <2>2, <2>7, <2>9, <4>2
        <5>2. end(t[j]) \in Nat
          BY <1>0, <4>2
        <5>3. QED
          BY <5>1, <5>2
      <4>3. FirstFreshest(n + 1, t, doc, maxYear, minimum)
        BY <2>2, <2>7, <3>1, <4>2 DEF FirstFreshest
      <4>4. QED
        BY <2>2, <2>7, <4>1, <4>3 DEF BestIs
    <3>2. CASE ~E(x)
      <4>1. c = None
        BY <2>5, <2>9, <3>2 DEF BestBy, Enough
      <4>2. \A i \in 1 .. (n + 1) : ~E(t[i])
        BY <2>2, <2>7, <2>9, <3>2
      <4>3. QED
        BY <2>2, <4>1, <4>2 DEF BestIs
    <3>3. QED
      BY <3>1, <3>2
  <2>10. ASSUME NEW m \in 1 .. n, FirstFreshest(m, s, doc, maxYear, minimum), b = [tag |-> s[m], facts |-> H(s[m])]
         PROVE  BestIs(c, t, doc, maxYear, minimum)
    <3>1. E(s[m]) /\ end(s[m]) \in Nat
      BY <1>0, <2>10 DEF FirstFreshest
    <3>2. \A j \in 1 .. n : E(s[j]) => end(s[j]) \in Nat /\ end(s[j]) <= end(s[m]) /\ (j < m => end(s[j]) < end(s[m]))
      BY <1>0, <2>1, <2>10 DEF FirstFreshest
    <3>3. b.facts = H(s[m]) /\ b.facts # <<>>
      BY <2>10, <3>1 DEF Enough
    <3>4. b # None
      BY <3>3 DEF None
    <3>5. FresherThan(H(x), b) <=> end(x) > end(s[m])
      BY <3>3, <3>4 DEF FresherThan, EndOf
    <3>6. CASE E(x) /\ end(x) > end(s[m])
      <4>1. c = [tag |-> x, facts |-> H(x)]
        BY <2>5, <3>5, <3>6 DEF BestBy, Enough
      <4>2. end(x) \in Nat
        BY <1>0, <3>6
      <4>3. ASSUME NEW j \in 1 .. (n + 1), E(t[j]) PROVE end(t[j]) <= end(x) /\ (j < n + 1 => end(t[j]) < end(x))
        <5>1. CASE j = n + 1
          <6>1. t[j] = x /\ ~(j < n + 1)
            BY <2>1, <2>2, <5>1
          <6>2. end(x) <= end(x)
            BY <4>2
          <6>3. QED
            BY <6>1, <6>2
        <5>2. CASE j \in 1 .. n
          <6>1. t[j] = s[j] /\ E(s[j])
            BY <2>2, <4>3, <5>2
          <6>2. PICK d \in Nat : d = end(s[j]) /\ d <= end(s[m])
            BY <3>2, <5>2, <6>1
          <6>3. PICK e \in Nat : e = end(s[m])
            BY <3>1
          <6>4. PICK g \in Nat : g = end(x)
            BY <4>2
          <6>5. d <= e /\ e < g
            BY <3>6, <6>2, <6>3, <6>4
          <6>6. d <= g /\ d < g
            BY <6>5
          <6>7. QED
            BY <6>1, <6>2, <6>4, <6>6
        <5>3. QED
          BY <2>7, <5>1, <5>2
      <4>4. FirstFreshest(n + 1, t, doc, maxYear, minimum)
        BY <2>2, <2>7, <3>6, <4>3 DEF FirstFreshest
      <4>5. QED
        BY <2>2, <2>7, <4>1, <4>4 DEF BestIs
    <3>7. CASE ~(E(x) /\ end(x) > end(s[m]))
      <4>1. c = b
        BY <2>5, <3>5, <3>7 DEF BestBy, Enough
      <4>2. m \in 1 .. (n + 1) /\ t[m] = s[m] /\ ~(n + 1 < m)
        <5>1. m \in 1 .. (n + 1) /\ ~(n + 1 < m)
          BY n \in Nat, m \in 1 .. n
        <5>2. QED
          BY <2>2, <5>1
      <4>3. ASSUME NEW j \in 1 .. (n + 1), E(t[j]) PROVE end(t[j]) <= end(t[m]) /\ (j < m => end(t[j]) < end(t[m]))
        <5>1. CASE j = n + 1
          <6>1. E(x) /\ t[j] = x
            BY <2>2, <4>3, <5>1
          <6>2. end(x) \in Nat /\ ~(end(x) > end(s[m]))
            BY <1>0, <3>7, <6>1
          <6>3. PICK e \in Nat : e = end(s[m])
            BY <3>1
          <6>4. PICK g \in Nat : g = end(x)
            BY <6>2
          <6>5. ~(g > e)
            BY <6>2, <6>3, <6>4
          <6>8. g <= e
            BY <6>3, <6>4, <6>5
          <6>6. end(t[j]) <= end(t[m])
            BY <4>2, <6>1, <6>3, <6>4, <6>8
          <6>7. QED
            BY <4>2, <5>1, <6>6
        <5>2. CASE j \in 1 .. n
          <6>1. t[j] = s[j] /\ E(s[j])
            BY <2>2, <4>3, <5>2
          <6>2. QED
            BY <3>2, <4>2, <5>2, <6>1
        <5>3. QED
          BY <2>7, <5>1, <5>2
      <4>4. FirstFreshest(m, t, doc, maxYear, minimum)
        BY <2>2, <3>1, <4>2, <4>3 DEF FirstFreshest
      <4>5. QED
        BY <2>2, <2>10, <4>1, <4>2, <4>4 DEF BestIs
    <3>8. QED
      BY <3>6, <3>7
  <2>11. QED
    BY <2>1, <2>6, <2>9, <2>10 DEF BestIs
<1> HIDE DEF Good
<1>3. \A s \in Seq(V) : s \in Good
  BY <1>1, <1>2, SequenceInduction
<1>4. QED
  BY <1>3 DEF Good

LEMMA MinIs ==
  ASSUME NEW S \in SUBSET Nat, NEW m \in S, \A x \in S : m <= x
  PROVE  Min(S) = m
<1>1. Min(S) \in S /\ \A y \in S : Min(S) <= y
  BY DEF Min
<1>2. Min(S) \in Nat /\ m \in Nat
  BY <1>1
<1>3. QED
  BY <1>1, <1>2

NewestYears(years, count) == {y \in years : Cardinality({z \in years : z > y}) < count}
FirstYears(h, k) == {FiscalYear(h[i]) : i \in 1 .. k}

(* The newest years are those of a history's first facts. *)
LEMMA NewestAreFirst ==
  ASSUME NEW h \in Seq(FactSet), YearsDescend(h), NEW count \in Nat,
         NEW k \in Nat, k <= Len(h), k <= count, k = count \/ k = Len(h),
         NEW years, years = FirstYears(h, Len(h))
  PROVE  NewestYears(years, count) = FirstYears(h, k)
<1>1. PICK n \in Nat : n = Len(h) /\ DOMAIN h = 1 .. n
  OBVIOUS
<1>2. \A i \in 1 .. n : FiscalYear(h[i]) \in Nat
  BY <1>1, YearsFollowEnds
<1>3. \A i, j \in 1 .. n : i < j => FiscalYear(h[i]) > FiscalYear(h[j])
  BY <1>1 DEF YearsDescend
<1>0. years = {FiscalYear(h[i]) : i \in 1 .. n}
  BY <1>1 DEF FirstYears
<1>4. ASSUME NEW i \in 1 .. n PROVE Cardinality({z \in years : z > FiscalYear(h[i])}) = i - 1
  <2>1. i - 1 \in Nat /\ i - 1 <= Len(h) /\ \A j \in 1 .. n : j \in 1 .. (i - 1) <=> j < i
    BY <1>1
  <2>2. \A j \in 1 .. (i - 1) : j \in 1 .. n
    BY <1>1
  <2>3. \A j \in 1 .. n : FiscalYear(h[j]) > FiscalYear(h[i]) <=> j < i
    <3>1. ASSUME NEW j \in 1 .. n PROVE FiscalYear(h[j]) > FiscalYear(h[i]) <=> j < i
      <4>1. i < j \/ i = j \/ j < i
        BY <1>1
      <4>2. CASE i < j
        BY <1>1, <1>2, <1>3, <4>2
      <4>3. CASE i = j
        BY <1>1, <1>2, <4>3
      <4>4. CASE j < i
        BY <1>3, <4>4
      <4>5. QED
        BY <4>1, <4>2, <4>3, <4>4
    <3>2. QED
      BY <3>1
  <2>4. {z \in years : z > FiscalYear(h[i])} = {FiscalYear(h[j]) : j \in 1 .. (i - 1)}
    <3>1. ASSUME NEW z \in years, z > FiscalYear(h[i]) PROVE \E j \in 1 .. (i - 1) : z = FiscalYear(h[j])
      <4>1. PICK j \in 1 .. n : z = FiscalYear(h[j])
        BY <1>0
      <4>2. j \in 1 .. (i - 1)
        BY <2>1, <2>3, <3>1, <4>1
      <4>3. QED
        BY <4>1, <4>2
    <3>2. ASSUME NEW j \in 1 .. (i - 1) PROVE FiscalYear(h[j]) \in years /\ FiscalYear(h[j]) > FiscalYear(h[i])
      <4>1. j \in 1 .. n
        BY <2>2
      <4>2. QED
        BY <1>0, <2>1, <2>3, <4>1
    <3>3. QED
      BY <3>1, <3>2
  <2>5. Cardinality({FiscalYear(h[j]) : j \in 1 .. (i - 1)}) = i - 1
    BY <2>1, YearsCounted
  <2>6. QED
    BY <2>4, <2>5
<1>5. \A i \in 1 .. n : i - 1 < count <=> i \in 1 .. k
  BY <1>1
<1>6. \A i \in 1 .. k : i \in 1 .. n
  BY <1>1
<1>7. ASSUME NEW y \in years, Cardinality({z \in years : z > y}) < count PROVE \E i \in 1 .. k : y = FiscalYear(h[i])
  <2>1. PICK i \in 1 .. n : y = FiscalYear(h[i])
    BY <1>0
  <2>2. i - 1 < count
    BY <1>4, <1>7, <2>1
  <2>3. QED
    BY <1>5, <2>1, <2>2
<1>8. ASSUME NEW i \in 1 .. k PROVE FiscalYear(h[i]) \in years /\ Cardinality({z \in years : z > FiscalYear(h[i])}) < count
  <2>1. i \in 1 .. n
    BY <1>6
  <2>2. i - 1 < count
    BY <1>5, <2>1
  <2>3. QED
    BY <1>0, <1>4, <2>1, <2>2
<1> DEFINE A == {y \in years : Cardinality({z \in years : z > y}) < count}
           B == {FiscalYear(h[i]) : i \in 1 .. k}
<1>9. \A y : y \in A <=> y \in years /\ Cardinality({z \in years : z > y}) < count
  OBVIOUS
<1>10. \A y : y \in B <=> \E i \in 1 .. k : y = FiscalYear(h[i])
  OBVIOUS
<1>11. A \subseteq B
  BY <1>7, <1>9, <1>10
<1>12. B \subseteq A
  BY <1>8, <1>9, <1>10
<1>13. QED
  BY <1>11, <1>12 DEF NewestYears, FirstYears

LEMMA EnoughYears ==
  ASSUME NEW doc \in Seq(FactSet), NEW tag, NEW maxYear, NEW minimum
  PROVE  Enough(tag, doc, maxYear, minimum) <=>
           YearsOf(doc, tag, maxYear) # {} /\ Cardinality(YearsOf(doc, tag, maxYear)) >= minimum
<1>1. PICK h : h = TagHistory(doc, tag, maxYear)
  OBVIOUS
<1>2. IsHistory(h, doc, tag, maxYear)
  BY <1>1, HistoryStands
<1>3. h \in Seq(FactSet) /\ YearsDescend(h)
  BY <1>2 DEF IsHistory
<1>4. PICK n \in Nat : n = Len(h) /\ DOMAIN h = 1 .. n /\ (h = <<>> <=> n = 0)
  BY <1>3, EmptySeq
<1>5. YearsOf(doc, tag, maxYear) = {FiscalYear(h[i]) : i \in 1 .. n}
  BY <1>2, <1>4, YearsAreHistory
<1>6. Cardinality({FiscalYear(h[i]) : i \in 1 .. n}) = n
  <2>1. \A m \in Nat : m <= Len(h) => Cardinality({FiscalYear(h[i]) : i \in 1 .. m}) = m
    BY <1>3, YearsCounted
  <2>2. n <= Len(h)
    BY <1>4
  <2>3. QED
    BY <1>4, <2>1, <2>2
<1>7. {FiscalYear(h[i]) : i \in 1 .. n} # {} <=> n > 0
  <2>1. n > 0 => 1 \in 1 .. n
    BY <1>4
  <2>2. QED
    BY <1>4, <2>1
<1>8. PICK Y : Y = YearsOf(doc, tag, maxYear)
  OBVIOUS
<1>9. Cardinality(Y) = n /\ (Y # {} <=> n > 0)
  BY <1>5, <1>6, <1>7, <1>8
<1>10. Enough(tag, doc, maxYear, minimum) <=> n > 0 /\ n >= minimum
  BY <1>1, <1>4 DEF Enough
<1>11. QED
  BY <1>8, <1>9, <1>10

(* The first facts of a history are the whole of what is kept of it. *)
KeepsTheNewest(facts, doc, tag, count, maxYear) ==
  LET years == YearsOf(doc, tag, maxYear)
      newest == {y \in years : Cardinality({z \in years : z > y}) < count}
  IN /\ {FiscalYear(f) : f \in ToSet(facts)} = newest
     /\ Len(facts) = Cardinality(newest)
     /\ \A i \in DOMAIN facts :
          /\ Stands(facts[i], doc, maxYear)
          /\ \A j \in DOMAIN facts : i < j => FiscalYear(facts[i]) > FiscalYear(facts[j])

LEMMA CutKeepsTheNewest ==
  ASSUME NEW doc \in Seq(FactSet), NEW tag, NEW maxYear, NEW h, IsHistory(h, doc, tag, maxYear), NEW count \in Nat
  PROVE  KeepsTheNewest(SubSeq(h, 1, Min({count, Len(h)})), doc, tag, count, maxYear)
<1>1. h \in Seq(FactSet) /\ YearsDescend(h) /\ \A i \in DOMAIN h : Stands(h[i], doc, maxYear)
  BY DEF IsHistory
<1>2. PICK n \in Nat : n = Len(h) /\ DOMAIN h = 1 .. n
  BY <1>1
<1>3. PICK k \in Nat : k = Min({count, Len(h)}) /\ k <= n /\ k <= count /\ (k = count \/ k = n)
  <2>1. Min({count, n}) = IF count <= n THEN count ELSE n
    BY <1>2, MinOfTwo
  <2>2. QED
    BY <1>2, <2>1
<1>4. PICK c : c = SubSeq(h, 1, k)
  OBVIOUS
<1>5. c \in Seq(FactSet) /\ Len(c) = k /\ DOMAIN c = 1 .. k /\ \A i \in 1 .. k : c[i] = h[i]
  <2>1. c = [i \in 1 .. k |-> h[i]]
    BY <1>1, <1>2, <1>3, <1>4
  <2>2. \A i \in 1 .. k : h[i] \in FactSet
    BY <1>1, <1>2, <1>3
  <2>3. \A f \in [1 .. k -> FactSet] : f \in Seq(FactSet)
    <3>1. Seq(FactSet) = UNION {[1 .. m -> FactSet] : m \in Nat}
      BY SeqDef
    <3>2. k \in Nat
      BY <1>3
    <3>3. QED
      BY <3>1, <3>2
  <2>6. \A f \in Seq(FactSet) : DOMAIN f = 1 .. k => Len(f) = k
    BY <1>3
  <2>4. c \in [1 .. k -> FactSet] /\ \A i \in 1 .. k : c[i] = h[i]
    BY <2>1, <2>2
  <2>5. QED
    BY <2>3, <2>4, <2>6
<1>6. \A i \in 1 .. k : i \in 1 .. n
  BY <1>2, <1>3
<1> DEFINE years == YearsOf(doc, tag, maxYear)
           newest == NewestYears(years, count)
<1>7. newest = FirstYears(h, k)
  <2>1. years = FirstYears(h, Len(h))
    BY <1>2, YearsAreHistory DEF FirstYears
  <2>2. k <= Len(h) /\ (k = count \/ k = Len(h))
    BY <1>2, <1>3
  <2> HIDE DEF years
  <2>3. QED
    BY <1>1, <1>3, <2>1, <2>2, NewestAreFirst
<1>8. Cardinality(FirstYears(h, k)) = k
  BY <1>1, <1>2, <1>3, YearsCounted DEF FirstYears
<1> HIDE DEF newest
<1>9. {FiscalYear(f) : f \in ToSet(c)} = newest
  <2>1. ToSet(c) = {h[i] : i \in 1 .. k}
    BY <1>5 DEF ToSet
  <2>2. QED
    BY <1>7, <2>1 DEF FirstYears
<1>10. \A i \in DOMAIN c : /\ Stands(c[i], doc, maxYear)
                            /\ \A j \in DOMAIN c : i < j => FiscalYear(c[i]) > FiscalYear(c[j])
  BY <1>1, <1>2, <1>5, <1>6 DEF YearsDescend
<1>11. KeepsTheNewest(c, doc, tag, count, maxYear)
  BY <1>5, <1>7, <1>8, <1>9, <1>10 DEF KeepsTheNewest, newest, NewestYears
<1>12. QED
  BY <1>3, <1>4, <1>11

(* The first facts of the history of the tag at place m. *)
IsCut(r, m, doc, tags, count, maxYear) ==
  LET h == TagHistory(doc, tags[m], maxYear) IN r = [tag |-> tags[m], facts |-> SubSeq(h, 1, Min({count, Len(h)}))]

(* What annualFacts selects: nothing, or the newest years of the freshest tag. *)
IsSelection(r, doc, tags, count, maxYear, minimum) ==
  \/ r = None /\ \A i \in DOMAIN tags : ~Enough(tags[i], doc, maxYear, minimum)
  \/ \E m \in DOMAIN tags : FirstFreshest(m, tags, doc, maxYear, minimum) /\ IsCut(r, m, doc, tags, count, maxYear)

LEMMA AnnualSelectionIs ==
  ASSUME NEW doc \in Seq(FactSet), NEW maxYear, NEW minimum, NEW V, NEW tags \in Seq(V), NEW count \in Nat,
         NEW r, r = AnnualFacts(doc, tags, count, maxYear, minimum)
  PROVE  IsSelection(r, doc, tags, count, maxYear, minimum)
<1>1. PICK b : b = BestHistory(doc, tags, maxYear, minimum)
  OBVIOUS
<1>2. PICK d : d = SubSeq(b.facts, 1, Min({count, Len(b.facts)}))
  OBVIOUS
<1>3. r = [b EXCEPT !.facts = d]
  BY <1>1, <1>2 DEF AnnualFacts
<1>4. ASSUME NEW t, NEW f, b = [tag |-> t, facts |-> f]
      PROVE  r = [tag |-> t, facts |-> d] /\ d = SubSeq(f, 1, Min({count, Len(f)}))
  <2>1. \A e : [[tag |-> t, facts |-> f] EXCEPT !.facts = e] = [tag |-> t, facts |-> e]
    OBVIOUS
  <2>2. [tag |-> t, facts |-> f].facts = f
    OBVIOUS
  <2>3. r = [[tag |-> t, facts |-> f] EXCEPT !.facts = d]
    BY <1>3, <1>4
  <2>4. r = [tag |-> t, facts |-> d]
    BY <2>1, <2>3
  <2>5. b.facts = f
    BY <1>4, <2>2
  <2>6. QED
    BY <1>2, <2>4, <2>5
<1>5. BestIs(b, tags, doc, maxYear, minimum)
  BY <1>1, BestIsFreshest
<1>6. ASSUME b = None PROVE r = None
  <2>1. Len(<<>>) = 0 /\ Min({count, 0}) = 0
    <3>1. Min({count, 0}) = IF count <= 0 THEN count ELSE 0
      BY MinOfTwo
    <3>2. QED
      BY <3>1
  <2>2. SubSeq(<<>>, 1, 0) = <<>>
    OBVIOUS
  <2>3. QED
    BY <1>4, <1>6, <2>1, <2>2 DEF None
<1>7. ASSUME NEW m \in DOMAIN tags, b = [tag |-> tags[m], facts |-> TagHistory(doc, tags[m], maxYear)]
      PROVE  IsCut(r, m, doc, tags, count, maxYear)
  BY <1>4, <1>7 DEF IsCut
<1>8. CASE b = None /\ \A i \in DOMAIN tags : ~Enough(tags[i], doc, maxYear, minimum)
  BY <1>6, <1>8 DEF IsSelection
<1>9. ASSUME NEW m \in DOMAIN tags, FirstFreshest(m, tags, doc, maxYear, minimum),
             b = [tag |-> tags[m], facts |-> TagHistory(doc, tags[m], maxYear)]
      PROVE  IsSelection(r, doc, tags, count, maxYear, minimum)
  <2>1. IsCut(r, m, doc, tags, count, maxYear)
    BY <1>7, <1>9
  <2>2. QED
    BY <1>9, <2>1 DEF IsSelection
<1>10. \/ b = None /\ \A i \in DOMAIN tags : ~Enough(tags[i], doc, maxYear, minimum)
       \/ \E m \in DOMAIN tags : /\ FirstFreshest(m, tags, doc, maxYear, minimum)
                                 /\ b = [tag |-> tags[m], facts |-> TagHistory(doc, tags[m], maxYear)]
  BY <1>5 DEF BestIs
<1>11. ASSUME NEW m \in DOMAIN tags, FirstFreshest(m, tags, doc, maxYear, minimum) /\ b = [tag |-> tags[m], facts |-> TagHistory(doc, tags[m], maxYear)]
       PROVE  IsSelection(r, doc, tags, count, maxYear, minimum)
  BY <1>9, <1>11
<1>12. QED
  BY <1>8, <1>10, <1>11

LEMMA SelectionStands ==
  ASSUME NEW doc \in Seq(FactSet), NEW maxYear, NEW minimum, NEW V, NEW tags \in Seq(V), NEW count \in Nat
  PROVE  SelectsTheStandingYears(doc, tags, count, maxYear, minimum)
<1> DEFINE eligible == Eligible(doc, tags, maxYear, minimum)
           last(i) == LastEnd(doc, tags[i], maxYear)
           freshest == {i \in eligible : \A j \in eligible : last(j) <= last(i)}
<1>0. PICK result : result = AnnualFacts(doc, tags, count, maxYear, minimum)
  OBVIOUS
<1>1. \A i : i \in eligible <=> i \in DOMAIN tags /\ Enough(tags[i], doc, maxYear, minimum)
  BY EnoughYears DEF Eligible
<1>2. \A i \in eligible : last(i) = EndOf(tags[i], doc, maxYear) /\ last(i) \in Nat
  <2> TAKE i \in eligible
  <2>1. Enough(tags[i], doc, maxYear, minimum)
    BY <1>1
  <2>2. EndOf(tags[i], doc, maxYear) \in Nat
    BY <2>1, EndType
  <2>3. IsHistory(TagHistory(doc, tags[i], maxYear), doc, tags[i], maxYear)
    BY HistoryStands
  <2>4. LastEnd(doc, tags[i], maxYear) = EndOf(tags[i], doc, maxYear)
    BY <2>1, <2>3, LastOfHistory DEF Enough, EndOf
  <2>5. QED
    BY <2>2, <2>4
<1> HIDE DEF eligible
<1>3. CASE result = None /\ \A i \in DOMAIN tags : ~Enough(tags[i], doc, maxYear, minimum)
  <2>1. eligible = {}
    BY <1>1, <1>3
  <2>2. QED
    BY <1>0, <1>3, <2>1 DEF SelectsTheStandingYears, eligible
<1>4. ASSUME NEW m \in DOMAIN tags, FirstFreshest(m, tags, doc, maxYear, minimum), IsCut(result, m, doc, tags, count, maxYear)
      PROVE  SelectsTheStandingYears(doc, tags, count, maxYear, minimum)
  <2>1. m \in eligible /\ \A j \in eligible : last(j) <= last(m) /\ (j < m => last(j) < last(m))
    BY <1>1, <1>2, <1>4 DEF FirstFreshest
  <2>2. freshest \in SUBSET Nat /\ m \in freshest
    <3>1. eligible \subseteq Nat
      BY <1>1, DOMAIN tags = 1 .. Len(tags), Len(tags) \in Nat
    <3>2. QED
      BY <2>1, <3>1
  <2>3. \A i \in freshest : m <= i
    <3> TAKE i \in freshest
    <3>1. i \in eligible /\ last(m) <= last(i) /\ i \in Nat /\ m \in Nat
      BY <2>1, <2>2
    <3>2. ~(i < m)
      BY <1>2, <2>1, <3>1
    <3>3. QED
      BY <3>1, <3>2
  <2> HIDE DEF freshest
  <2>4. Min(freshest) = m
    BY <2>2, <2>3, MinIs
  <2>5. eligible # {}
    BY <2>1
  <2>6. result.tag = tags[m] /\ result.facts = SubSeq(TagHistory(doc, tags[m], maxYear), 1, Min({count, Len(TagHistory(doc, tags[m], maxYear))}))
    BY <1>4 DEF IsCut
  <2>7. KeepsTheNewest(result.facts, doc, result.tag, count, maxYear)
    BY <2>6, HistoryStands, CutKeepsTheNewest
  <2>8. result.tag = tags[Min(freshest)]
    BY <2>4, <2>6
  <2>9. QED
    BY <1>0, <2>5, <2>7, <2>8 DEF SelectsTheStandingYears, KeepsTheNewest, eligible, freshest
<1>5. IsSelection(result, doc, tags, count, maxYear, minimum)
  <2>1. \A r : r = AnnualFacts(doc, tags, count, maxYear, minimum) => IsSelection(r, doc, tags, count, maxYear, minimum)
    BY AnnualSelectionIs
  <2>2. QED
    BY <1>0, <2>1
<1>6. QED
  BY <1>3, <1>4, <1>5 DEF IsSelection

(* Of any document and whatever the list of tags, what ingestion stores, and
   what the older years are read from, is the newest years of the freshest
   tag, each with the value that stands for it. *)
THEOREM SelectedYearsAlwaysStand == ReadSpec => []SelectedYearsStand
<1>1. ASSUME TriedIsCase PROVE SelectedYearsStand
  <2> SUFFICES ASSUME Tried("facts")
               PROVE  /\ SelectsTheStandingYears(case.later, Tags, case.count, 999, Min({case.count, 2}))
                      /\ SelectsTheStandingYears(case.later, Tags, case.count, 2, 1)
    BY DEF SelectedYearsStand
  <2>1. case \in FactCases
    BY <1>1 DEF Tried, TriedIsCase, CasesOf
  <2>2. Tags \in Seq(STRING)
    BY CaseAssumption
  <2>3. case.later \in Seq(FactSet) /\ case.count \in Nat
    BY <2>1, CaseAssumption DEF FactSet
  <2>4. \A V : \A tags \in Seq(V) : \A doc \in Seq(FactSet), count \in Nat : \A maxYear, minimum :
          SelectsTheStandingYears(doc, tags, count, maxYear, minimum)
    BY SelectionStands
  <2>5. QED
    BY <2>2, <2>3, <2>4
<1>2. QED
  BY <1>1, TriedAreCases, PTL

-----------------------------------------------------------------------------
(* The latest value *)

LatestAt(s, i) == i \in DOMAIN s /\ \A j \in DOMAIN s : s[j].end < s[i].end \/ (s[j].end = s[i].end /\ j <= i)

LEMMA LatestExists ==
  ASSUME NEW values \in Seq(FactSet), values # <<>>
  PROVE  \E i \in DOMAIN values : LatestAt(values, i)
<1> DEFINE Good == {s \in Seq(FactSet) : s # <<>> => \E i \in DOMAIN s : LatestAt(s, i)}
<1>1. <<>> \in Good
  BY EmptySeq
<1>2. ASSUME NEW s \in Seq(FactSet), NEW f \in FactSet, s \in Good PROVE Append(s, f) \in Good
  <2>1. PICK n \in Nat : n = Len(s) /\ DOMAIN s = 1 .. n /\ (s = <<>> <=> n = 0)
    BY EmptySeq
  <2>2. PICK t \in Seq(FactSet) : t = Append(s, f) /\ DOMAIN t = 1 .. (n + 1) /\ t[n + 1] = f /\ \A i \in 1 .. n : t[i] = s[i]
    <3>1. /\ Append(s, f) \in Seq(FactSet) /\ Len(Append(s, f)) = n + 1 /\ Append(s, f)[n + 1] = f
          /\ \A i \in 1 .. n : Append(s, f)[i] = s[i]
      BY <2>1, AppendProperties
    <3>2. DOMAIN Append(s, f) = 1 .. (n + 1)
      BY <3>1
    <3>3. QED
      BY <3>1, <3>2
  <2>3. \A g \in FactSet : g.end \in Nat
    BY DEF FactSet
  <2>4. \A j \in 1 .. (n + 1) : t[j].end \in Nat
    BY <2>2, <2>3
  <2>5. \A j \in 1 .. (n + 1) : j = n + 1 \/ j \in 1 .. n
    OBVIOUS
  <2>6. CASE \A j \in 1 .. n : s[j].end <= f.end
    <3>1. LatestAt(t, n + 1)
      <4>1. n + 1 \in 1 .. (n + 1)
        BY <2>1
      <4>2. ASSUME NEW j \in 1 .. (n + 1) PROVE t[j].end < t[n + 1].end \/ (t[j].end = t[n + 1].end /\ j <= n + 1)
        <5>1. t[j].end <= t[n + 1].end
          BY <2>2, <2>4, <2>5, <2>6
        <5>2. j <= n + 1 /\ t[j].end \in Nat /\ t[n + 1].end \in Nat
          BY <2>1, <2>4, <4>1
        <5>3. QED
          BY <5>1, <5>2
      <4>3. QED
        BY <2>2, <4>1, <4>2 DEF LatestAt
    <3>2. QED
      BY <2>2, <3>1 DEF LatestAt
  <2>7. CASE \E j \in 1 .. n : ~(s[j].end <= f.end)
    <3>1. PICK q \in 1 .. n : ~(s[q].end <= f.end)
      BY <2>7
    <3>2. s # <<>>
      BY <2>1
    <3>3. PICK i \in 1 .. n : \A j \in 1 .. n : s[j].end < s[i].end \/ (s[j].end = s[i].end /\ j <= i)
      BY <1>2, <2>1, <3>2 DEF LatestAt
    <3>4. s[q].end \in Nat /\ s[i].end \in Nat /\ f.end \in Nat
      BY <2>1, <2>3
    <3>5. f.end < s[i].end
      BY <3>1, <3>3, <3>4
    <3>6. i \in 1 .. (n + 1) /\ t[i] = s[i]
      BY <2>1, <2>2
    <3>7. LatestAt(t, i)
      BY <2>2, <2>5, <3>3, <3>5, <3>6 DEF LatestAt
    <3>8. QED
      BY <2>2, <3>6, <3>7
  <2>8. QED
    BY <2>6, <2>7
<1> HIDE DEF Good
<1>3. \A s \in Seq(FactSet) : s \in Good
  BY <1>1, <1>2, SequenceInduction
<1>4. QED
  BY <1>3 DEF Good

LEMMA LatestOfIs ==
  ASSUME NEW values \in Seq(FactSet), values # <<>>
  PROVE  LatestOf(values) \in ToSet(values) /\ \A g \in ToSet(values) : g.end <= LatestOf(values).end
<1> DEFINE newest == CHOOSE i \in DOMAIN values : LatestAt(values, i)
<1>1. newest \in DOMAIN values /\ LatestAt(values, newest)
  BY LatestExists
<1>2. LatestOf(values) = values[newest]
  BY DEF LatestOf, LatestAt
<1> HIDE DEF newest
<1>3. \A f \in FactSet : f.end \in Nat
  BY DEF FactSet
<1>4. \A j \in DOMAIN values : values[j].end \in Nat
  BY <1>3
<1>5. QED
  BY <1>1, <1>2, <1>4 DEF LatestAt, ToSet

RecentBy(best, tag, doc) ==
  LET values == OfTag(doc, tag) IN
  IF values # <<>> /\ (best = <<>> \/ LatestOf(values).end > best[1].end) THEN <<LatestOf(values)>> ELSE best

LEMMA RecentFold ==
  ASSUME NEW doc \in Seq(FactSet), NEW V
  PROVE  /\ MostRecentFact(doc, <<>>) = <<>>
         /\ \A s \in Seq(V) : /\ MostRecentFact(doc, s) \in Seq(FactSet)
                              /\ \A x \in V : MostRecentFact(doc, Append(s, x)) = RecentBy(MostRecentFact(doc, s), x, doc)
<1> DEFINE A == Seq(FactSet)
           base == <<>>
           E == V
           op == [p \in A \X E |-> RecentBy(p[1], p[2], doc)]
<1>1. base \in A
  BY EmptySeq
<1>2. ASSUME NEW a \in A, NEW x \in E PROVE RecentBy(a, x, doc) \in A
  <2>1. OfTag(doc, x) \in Seq(FactSet)
    BY OfTagIs
  <2>2. ASSUME OfTag(doc, x) # <<>> PROVE <<LatestOf(OfTag(doc, x))>> \in Seq(FactSet)
    <3>1. LatestOf(OfTag(doc, x)) \in ToSet(OfTag(doc, x))
      BY <2>1, <2>2, LatestOfIs
    <3>2. LatestOf(OfTag(doc, x)) \in FactSet
      BY <2>1, <3>1 DEF ToSet
    <3>3. QED
      BY <3>2
  <2>3. QED
    BY <2>2 DEF RecentBy
<1>3. \A a \in A, x \in E : op[<<a, x>>] = RecentBy(a, x, doc) /\ op[<<a, x>>] \in A
  BY <1>2
<1> HIDE DEF A, base, op, E
<1>4. IsMap(op, A, E)
  BY <1>3 DEF IsMap
<1>5. PICK F : IsFold(F, op, base, A, E)
  BY <1>1, <1>4, FoldAsFunction
<1>6. ASSUME NEW s \in Seq(E) PROVE MostRecentFact(doc, s) = F[s]
  <2>1. PICK n \in Nat : n = Len(s) /\ DOMAIN s = 1 .. n
    OBVIOUS
  <2> DEFINE Body(i) == [T \in SUBSET (1 .. n) |-> IF T = {} THEN base ELSE RecentBy(i[T \ {Max(T)}], s[Max(T)], doc)]
             iter == CHOOSE i : i = Body(i)
  <2>2. MostRecentFact(doc, s) = iter[1 .. n]
    BY <2>1 DEF MostRecentFact, RecentBy, FoldLeft, MapThenFoldSet, base
  <2>3. \A T \in SUBSET (1 .. n) : T # {} => s[Max(T)] \in E /\ T \ {Max(T)} \in SUBSET (1 .. n)
    <3>1. \A i \in 1 .. n : s[i] \in E
      BY <2>1
    <3>2. \A T \in SUBSET (1 .. n) : T # {} => Max(T) \in 1 .. n
      BY GreatestPicks
    <3>3. QED
      BY <3>1, <3>2
  <2>4. PICK h \in [SUBSET (1 .. n) -> A] : Unfolds(h, op, base, A, s)
    BY <1>5, <2>1 DEF IsFold
  <2>5. \A T \in SUBSET (1 .. n) : h[T] = IF T = {} THEN base ELSE RecentBy(h[T \ {Max(T)}], s[Max(T)], doc)
    BY <1>3, <2>1, <2>3, <2>4 DEF Unfolds
  <2>6. h = Body(h)
    <3>1. h = [T \in SUBSET (1 .. n) |-> h[T]]
      BY <2>4
    <3>2. QED
      BY <2>5, <3>1
  <2>7. iter = Body(iter)
    <3> HIDE DEF Body
    <3>1. QED
      BY <2>6
  <2> HIDE DEF iter
  <2>8. \A T \in SUBSET (1 .. n) : iter[T] = IF T = {} THEN base ELSE RecentBy(iter[T \ {Max(T)}], s[Max(T)], doc)
    BY <2>7
  <2> HIDE DEF Body
  <2>9. Unfolds(iter, op, base, A, s)
    BY <1>3, <2>1, <2>3, <2>8 DEF Unfolds
  <2>10. QED
    BY <1>5, <2>1, <2>2, <2>9 DEF IsFold
<1>7. F[<<>>] = base /\ \A s \in Seq(E) : F[s] \in A /\ \A x \in E : F[Append(s, x)] = op[<<F[s], x>>]
  BY <1>5 DEF IsFold, Folds
<1>8. <<>> \in Seq(E) /\ \A s \in Seq(E), x \in E : Append(s, x) \in Seq(E)
  BY EmptySeq, AppendProperties
<1>9. MostRecentFact(doc, <<>>) = base
  BY <1>6, <1>7, <1>8
<1>10. ASSUME NEW s \in Seq(E), NEW x \in E PROVE MostRecentFact(doc, Append(s, x)) = RecentBy(MostRecentFact(doc, s), x, doc)
  <2>1. MostRecentFact(doc, Append(s, x)) = op[<<F[s], x>>]
    BY <1>6, <1>7, <1>8
  <2>2. QED
    BY <1>3, <1>6, <1>7, <2>1
<1>11. QED
  BY <1>6, <1>7, <1>9, <1>10 DEF base, A, E

(* No fact of its tag is of a later period. *)
IsRecent(f, doc) == f \in ToSet(doc) /\ \A g \in ToSet(doc) : g.tag = f.tag => g.end <= f.end

LEMMA RecentIs ==
  ASSUME NEW doc \in Seq(FactSet), NEW V, NEW tags \in Seq(V)
  PROVE  \A f \in ToSet(MostRecentFact(doc, tags)) : IsRecent(f, doc)
<1> DEFINE Good == {s \in Seq(V) : \A f \in ToSet(MostRecentFact(doc, s)) : IsRecent(f, doc)}
<1>1. <<>> \in Good
  <2>1. <<>> \in Seq(V) /\ ToSet(<<>>) = {}
    BY EmptySeq DEF ToSet
  <2>2. MostRecentFact(doc, <<>>) = <<>>
    BY RecentFold
  <2>3. QED
    BY <2>1, <2>2
<1>2. ASSUME NEW s \in Seq(V), NEW x \in V, s \in Good PROVE Append(s, x) \in Good
  <2>1. PICK b : b = MostRecentFact(doc, s) /\ \A f \in ToSet(b) : IsRecent(f, doc)
    BY <1>2
  <2>2. PICK c : c = MostRecentFact(doc, Append(s, x))
    OBVIOUS
  <2>3. Append(s, x) \in Seq(V)
    BY AppendProperties
  <2>4. c = RecentBy(b, x, doc)
    BY <2>1, <2>2, RecentFold
  <2>5. PICK v \in Seq(FactSet) : v = OfTag(doc, x) /\ ToSet(v) = {f \in ToSet(doc) : f.tag = x}
    BY OfTagIs
  <2>6. CASE v # <<>> /\ c = <<LatestOf(v)>>
    <3>1. LatestOf(v) \in ToSet(v) /\ \A g \in ToSet(v) : g.end <= LatestOf(v).end
      BY <2>6, LatestOfIs
    <3>2. IsRecent(LatestOf(v), doc)
      BY <2>5, <3>1 DEF IsRecent
    <3>3. \A l : ToSet(<<l>>) = {l}
      BY DEF ToSet
    <3>4. ToSet(c) = {LatestOf(v)}
      BY <2>6, <3>3
    <3>5. QED
      BY <2>2, <2>3, <3>2, <3>4
  <2>7. CASE c = b
    BY <2>1, <2>2, <2>3, <2>7
  <2>8. QED
    BY <2>4, <2>5, <2>6, <2>7 DEF RecentBy
<1> HIDE DEF Good
<1>3. \A s \in Seq(V) : s \in Good
  BY <1>1, <1>2, SequenceInduction
<1>4. QED
  BY <1>3 DEF Good

(* A run of newest facts begins the list that holds it. *)
LEMMA NewestBegin ==
  ASSUME NEW s \in Seq(FactSet), NEW c \in Seq(FactSet), Sorted(s), Sorted(c), ToSet(c) \subseteq ToSet(s),
         \A f \in ToSet(s) : f \in ToSet(c) \/ \A g \in ToSet(c) : f.end < g.end
  PROVE  Len(c) <= Len(s) /\ \A i \in DOMAIN c : s[i] = c[i]
<1>1. PICK n \in Nat : n = Len(s) /\ DOMAIN s = 1 .. n
  OBVIOUS
<1>2. PICK m \in Nat : m = Len(c) /\ DOMAIN c = 1 .. m
  OBVIOUS
<1>3. \A f \in FactSet : f.end \in Nat
  BY DEF FactSet
<1>4. (\A i \in 1 .. n : s[i].end \in Nat) /\ \A i \in 1 .. m : c[i].end \in Nat
  BY <1>1, <1>2, <1>3
<1>5. /\ \A i, j \in 1 .. n : i < j => s[i].end > s[j].end
      /\ \A i, j \in 1 .. m : i < j => c[i].end > c[j].end
  BY <1>1, <1>2 DEF Sorted
<1>6. \A i \in 1 .. m : \E p \in 1 .. n : c[i] = s[p]
  BY <1>1, <1>2 DEF ToSet
<1>7. \A p \in 1 .. n, i \in 1 .. m : s[p].end < c[i].end \/ \E q \in 1 .. m : s[p] = c[q]
  BY <1>1, <1>2 DEF ToSet
<1> DEFINE Good == {k \in Nat : \A i \in 1 .. k : i \in 1 .. m => i \in 1 .. n /\ s[i] = c[i]}
<1>8. 0 \in Good
  OBVIOUS
<1>9. ASSUME NEW k \in Nat, k \in Good PROVE k + 1 \in Good
  <2> DEFINE i == k + 1
  <2> SUFFICES ASSUME i \in 1 .. m PROVE i \in 1 .. n /\ s[i] = c[i]
    <3>1. \A j \in 1 .. (k + 1) : j = k + 1 \/ j \in 1 .. k
      OBVIOUS
    <3>2. QED
      BY <1>9, <3>1
  <2>1. \A j \in 1 .. k : j \in 1 .. m /\ j < i /\ j \in 1 .. n /\ s[j] = c[j]
    BY <1>2, <1>9
  <2>2. PICK p \in 1 .. n : c[i] = s[p]
    BY <1>6
  <2> HIDE DEF Good
  <2>3. ASSUME p < i PROVE FALSE
    <3>1. p \in 1 .. k
      BY <2>3
    <3>2. c[p].end > c[i].end /\ s[p] = c[p]
      BY <1>5, <2>1, <3>1
    <3>3. c[i].end \in Nat
      BY <1>4
    <3>4. QED
      BY <2>2, <3>2, <3>3
  <2>4. i \in 1 .. n
    BY <1>1, <2>3
  <2>5. ASSUME i < p PROVE FALSE
    <3>1. s[i].end > c[i].end
      BY <1>5, <2>2, <2>4, <2>5
    <3>2. s[i].end \in Nat /\ c[i].end \in Nat
      BY <1>4, <2>4
    <3>3. PICK q \in 1 .. m : s[i] = c[q]
      BY <1>7, <2>4, <3>1, <3>2
    <3>4. q < i
      <4>1. ~(q = i)
        BY <3>1, <3>2, <3>3
      <4>2. ~(i < q)
        BY <1>5, <3>1, <3>2, <3>3
      <4>3. QED
        BY <1>2, <4>1, <4>2
    <3>5. q \in 1 .. k
      BY <3>4
    <3>6. s[q] = s[i] /\ q \in 1 .. n
      BY <2>1, <3>3, <3>5
    <3>7. s[q].end > s[i].end
      BY <1>5, <2>4, <3>4, <3>6
    <3>8. QED
      BY <3>2, <3>6, <3>7
  <2>6. QED
    BY <2>2, <2>3, <2>4, <2>5
<1> HIDE DEF Good
<1>10. \A k \in Nat : k \in Good
  BY <1>8, <1>9, NumberInduction
<1>11. \A i \in 1 .. m : i \in 1 .. n /\ s[i] = c[i]
  <2>1. m \in Good /\ \A i \in 1 .. m : i \in 1 .. m
    BY <1>10
  <2>2. QED
    BY <2>1 DEF Good
<1>12. m <= n
  <2>1. m > 0 => m \in 1 .. m
    BY <1>2
  <2>2. QED
    BY <1>1, <1>2, <1>11, <2>1
<1>13. QED
  BY <1>1, <1>2, <1>11, <1>12

-----------------------------------------------------------------------------
(* The rows and what is read back *)

(* No fact of its tag and year closes a later period. *)
ClosesItsYear(g, doc) ==
  /\ g \in ToSet(doc)
  /\ \A f \in ToSet(doc) : f.tag = g.tag /\ Qualifies(f, 999) /\ FiscalYear(f) = FiscalYear(g) => f.end <= g.end

LEMMA StandingCloses ==
  ASSUME NEW doc \in Seq(FactSet), NEW g, Stands(g, doc, 999) \/ IsRecent(g, doc)
  PROVE  ClosesItsYear(g, doc)
<1>1. ToSet(doc) \subseteq FactSet /\ \A f \in FactSet : f.end \in Nat
  <2>1. ToSet(doc) \subseteq FactSet
    BY DEF ToSet
  <2>2. QED
    BY <2>1 DEF FactSet
<1>2. CASE Stands(g, doc, 999)
  <2>1. g \in ToSet(doc)
    BY <1>2 DEF Stands
  <2>2. ASSUME NEW f \in ToSet(doc), f.tag = g.tag, Qualifies(f, 999), FiscalYear(f) = FiscalYear(g) PROVE f.end <= g.end
    <3>1. f.end < g.end \/ f.end = g.end
      BY <1>2, <2>2 DEF Stands
    <3>2. f.end \in Nat /\ g.end \in Nat
      BY <1>1, <2>1
    <3>3. QED
      BY <3>1, <3>2
  <2>3. QED
    BY <2>1, <2>2 DEF ClosesItsYear
<1>3. CASE IsRecent(g, doc)
  BY <1>3 DEF IsRecent, ClosesItsYear
<1>4. QED
  BY <1>2, <1>3

LEMMA SelectedStand ==
  ASSUME NEW doc \in Seq(FactSet), NEW V, NEW tags \in Seq(V), NEW count \in Nat, NEW minimum
  PROVE  \A f \in ToSet(AnnualFacts(doc, tags, count, 999, minimum).facts) : Stands(f, doc, 999)
<1>1. PICK r : r = AnnualFacts(doc, tags, count, 999, minimum)
  OBVIOUS
<1>2. IsSelection(r, doc, tags, count, 999, minimum)
  BY <1>1, AnnualSelectionIs
<1>3. CASE r = None
  <2>1. ToSet(<<>>) = {}
    BY DEF ToSet
  <2>2. QED
    BY <1>1, <1>3, <2>1 DEF None
<1>4. ASSUME NEW m \in DOMAIN tags, IsCut(r, m, doc, tags, count, 999) PROVE \A f \in ToSet(r.facts) : Stands(f, doc, 999)
  <2>1. PICK h : h = TagHistory(doc, tags[m], 999)
    OBVIOUS
  <2>2. IsHistory(h, doc, tags[m], 999)
    BY <2>1, HistoryStands
  <2>3. r.facts = SubSeq(h, 1, Min({count, Len(h)}))
    <3>1. r = [tag |-> tags[m], facts |-> SubSeq(h, 1, Min({count, Len(h)}))]
      BY <1>4, <2>1 DEF IsCut
    <3>2. \A x, y : [tag |-> x, facts |-> y].facts = y
      OBVIOUS
    <3>3. QED
      BY <3>1, <3>2
  <2>4. KeepsTheNewest(r.facts, doc, tags[m], count, 999)
    BY <2>2, <2>3, CutKeepsTheNewest
  <2>5. QED
    BY <2>4 DEF KeepsTheNewest, ToSet
<1>5. QED
  BY <1>1, <1>2, <1>3, <1>4 DEF IsSelection

(* What an ingestion may store. *)
StoredOf(doc, tags, count) ==
  ToSet(AnnualFacts(doc, tags, count, 999, Min({count, 2})).facts) \cup ToSet(MostRecentFact(doc, tags))

LEMMA StoredClose ==
  ASSUME NEW doc \in Seq(FactSet), NEW V, NEW tags \in Seq(V), NEW count \in Nat, NEW f \in StoredOf(doc, tags, count)
  PROVE  ClosesItsYear(f, doc)
<1>1. \A g \in ToSet(AnnualFacts(doc, tags, count, 999, Min({count, 2})).facts) : Stands(g, doc, 999)
  BY SelectedStand
<1>2. \A g \in ToSet(MostRecentFact(doc, tags)) : IsRecent(g, doc)
  BY RecentIs
<1>3. f \in ToSet(AnnualFacts(doc, tags, count, 999, Min({count, 2})).facts) \/ f \in ToSet(MostRecentFact(doc, tags))
  BY DEF StoredOf
<1>4. Stands(f, doc, 999) \/ IsRecent(f, doc)
  BY <1>1, <1>2, <1>3
<1>5. QED
  BY <1>4, StandingCloses

RowsAfter(earlier, later, tags, count, latestToo) ==
  Ingest(Ingest({}, earlier, tags, count, latestToo), later, tags, count, latestToo)

(* Every row closes its year, in the earlier document or in the later. *)
LEMMA RowsClose ==
  ASSUME NEW earlier \in Seq(FactSet), NEW later \in Seq(FactSet), NEW V, NEW tags \in Seq(V), NEW count \in Nat, NEW latestToo,
         NEW g \in RowsAfter(earlier, later, tags, count, latestToo)
  PROVE  ClosesItsYear(g, earlier) \/ ClosesItsYear(g, later)
<1>1. g \in StoredOf(earlier, tags, count) \/ g \in StoredOf(later, tags, count)
  BY DEF Ingest, RowsAfter, StoredOf
<1>2. QED
  BY <1>1, StoredClose

(* The later document repeats what was filed until month t. *)
RepeatsUntil(earlier, later, t) == ToSet(earlier) = {f \in ToSet(later) : f.filed <= t}

OnceAFiling(doc) ==
  \A f, g \in {a \in ToSet(doc) : a.yearly /\ CoversAFullYear(a)} : f.tag = g.tag /\ f.end = g.end /\ f.filed = g.filed => f = g

(* A fact that stands is filed as late as any row of its year, and it is the
   only one filed then. *)
LEMMA StandingIsFiledLast ==
  ASSUME NEW earlier \in Seq(FactSet), NEW later \in Seq(FactSet), NEW t \in Nat, RepeatsUntil(earlier, later, t), OnceAFiling(later),
         NEW s, Stands(s, later, 999), NEW g, ClosesItsYear(g, earlier) \/ ClosesItsYear(g, later),
         Qualifies(g, 999), g.tag = s.tag, FiscalYear(g) = FiscalYear(s)
  PROVE  g.filed <= s.filed /\ (g.filed = s.filed => g = s)
<1>1. ToSet(later) \subseteq FactSet
  BY DEF ToSet
<1>2. s \in ToSet(later) /\ Qualifies(s, 999)
  BY DEF Stands
<1>3. g \in ToSet(later)
  BY DEF ClosesItsYear, RepeatsUntil
<1>4. \A f \in FactSet : f.end \in Nat /\ f.filed \in Nat
  BY DEF FactSet
<1>5. g.end \in Nat /\ s.end \in Nat /\ g.filed \in Nat /\ s.filed \in Nat
  BY <1>1, <1>2, <1>3, <1>4
<1>6. g.end < s.end \/ (g.end = s.end /\ g.filed <= s.filed)
  BY <1>3 DEF Stands
<1>7. ASSUME s.end <= g.end PROVE g.end = s.end /\ g.filed <= s.filed
  BY <1>5, <1>6, <1>7
<1>8. ASSUME g.end = s.end, g.filed = s.filed PROVE g = s
  BY <1>2, <1>3, <1>8 DEF OnceAFiling, Qualifies
<1>9. CASE ClosesItsYear(g, later)
  <2>1. s.end <= g.end
    BY <1>2, <1>9 DEF ClosesItsYear
  <2>2. QED
    BY <1>7, <1>8, <2>1
<1>10. CASE ClosesItsYear(g, earlier)
  <2>1. g.filed <= t
    BY <1>10 DEF ClosesItsYear, RepeatsUntil
  <2>2. CASE s.filed <= t
    <3>1. s \in ToSet(earlier)
      BY <1>2, <2>2 DEF RepeatsUntil
    <3>2. s.end <= g.end
      BY <1>2, <1>10, <3>1 DEF ClosesItsYear
    <3>3. QED
      BY <1>7, <1>8, <3>2
  <2>3. CASE ~(s.filed <= t)
    BY <1>5, <2>1, <2>3
  <2>4. QED
    BY <2>2, <2>3
<1>11. QED
  BY <1>9, <1>10

(* The rows of a tag that no later filing of their year replaces. *)
LatestOfTag(rows, tag) ==
  {f \in rows : /\ Qualifies(f, 999) /\ f.tag = tag
                /\ \A g \in rows : Qualifies(g, 999) /\ g.tag = tag /\ FiscalYear(g) = FiscalYear(f) => g.filed <= f.filed}

(* No row of the tag is of a later year than top, and none of another as late. *)
Leads(top, rows, tags) ==
  /\ top \in rows /\ Qualifies(top, 999) /\ top.tag \in ToSet(tags)
  /\ \A f \in rows : Qualifies(f, 999) /\ f.tag \in ToSet(tags) =>
       /\ FiscalYear(f) <= FiscalYear(top)
       /\ f.tag # top.tag => FiscalYear(f) < FiscalYear(top)

CutOf(sorted, count) == SubSeq(sorted, 1, Min({count, Len(sorted)}))

LEMMA ValuesAreOfTheLeader ==
  ASSUME NEW rows \in SUBSET FactSet, NEW V, NEW tags \in Seq(V), NEW count, NEW top, Leads(top, rows, tags)
  PROVE  AnnualValues(rows, tags, count, 999) = CutOf(NewestFirst(LatestOfTag(rows, top.tag)), count)
<1> DEFINE annual == {f \in rows : Qualifies(f, 999) /\ f.tag \in ToSet(tags)}
           place(f) == CHOOSE i \in DOMAIN tags : tags[i] = f.tag
           chosen == {f \in annual : \A g \in annual : \/ FiscalYear(g) < FiscalYear(f)
                                                       \/ (FiscalYear(g) = FiscalYear(f) /\ place(f) <= place(g))}
           ofTag == {f \in annual : \E g \in chosen : g.tag = f.tag}
           latest == {f \in ofTag : \A g \in ofTag : FiscalYear(g) = FiscalYear(f) => g.filed <= f.filed}
<1>1. AnnualValues(rows, tags, count, 999) = CutOf(NewestFirst(latest), count)
  BY DEF AnnualValues, CutOf
<1>2. \A f : f \in annual <=> f \in rows /\ Qualifies(f, 999) /\ f.tag \in ToSet(tags)
  OBVIOUS
<1>3. \A f \in annual : place(f) \in Nat
  <2> TAKE f \in annual
  <2>1. \E i \in DOMAIN tags : tags[i] = f.tag
    BY <1>2 DEF ToSet
  <2>2. place(f) \in DOMAIN tags
    BY <2>1
  <2> HIDE DEF place
  <2>3. QED
    BY <2>2
<1>4. \A f, g \in annual : f.tag = g.tag => place(f) = place(g)
  OBVIOUS
<1>5. \A f \in rows : FiscalYear(f) \in Nat
  BY YearsFollowEnds
<1>6. top \in annual /\ \A f \in annual : FiscalYear(f) <= FiscalYear(top) /\ (f.tag # top.tag => FiscalYear(f) < FiscalYear(top))
  BY DEF Leads
<1>7. \A f : f \in chosen <=> f \in annual /\ \A g \in annual : \/ FiscalYear(g) < FiscalYear(f)
                                                                \/ (FiscalYear(g) = FiscalYear(f) /\ place(f) <= place(g))
  OBVIOUS
<1> HIDE DEF annual, place, chosen
<1>8. top \in chosen
  <2>1. ASSUME NEW g \in annual
        PROVE  FiscalYear(g) < FiscalYear(top) \/ (FiscalYear(g) = FiscalYear(top) /\ place(top) <= place(g))
    <3>1. FiscalYear(g) \in Nat /\ FiscalYear(top) \in Nat
      BY <1>2, <1>5, <1>6
    <3>2. CASE g.tag # top.tag
      BY <1>6, <3>2
    <3>3. CASE g.tag = top.tag
      <4>1. place(g) = place(top) /\ place(top) \in Nat
        BY <1>3, <1>4, <1>6, <3>3
      <4>2. FiscalYear(g) <= FiscalYear(top)
        BY <1>6
      <4>3. QED
        BY <3>1, <4>1, <4>2
    <3>4. QED
      BY <3>2, <3>3
  <2>2. QED
    BY <1>6, <1>7, <2>1
<1>9. \A f \in chosen : f.tag = top.tag
  <2> SUFFICES ASSUME NEW f \in chosen, f.tag # top.tag PROVE FALSE
    OBVIOUS
  <2>1. f \in annual /\ (FiscalYear(top) < FiscalYear(f) \/ FiscalYear(top) = FiscalYear(f))
    BY <1>6, <1>7
  <2>2. FiscalYear(f) < FiscalYear(top) /\ FiscalYear(f) \in Nat /\ FiscalYear(top) \in Nat
    BY <1>2, <1>5, <1>6, <2>1
  <2>3. QED
    BY <2>1, <2>2
<1>10. \A f : f \in ofTag <=> f \in rows /\ Qualifies(f, 999) /\ f.tag = top.tag
  <2>1. \A f : f \in ofTag <=> f \in annual /\ f.tag = top.tag
    BY <1>8, <1>9
  <2>2. top.tag \in ToSet(tags)
    BY DEF Leads
  <2> HIDE DEF ofTag
  <2>3. QED
    BY <1>2, <2>1, <2>2
<1> HIDE DEF ofTag
<1>11. \A f : f \in latest <=> f \in LatestOfTag(rows, top.tag)
  <2>1. \A f : f \in latest <=> f \in ofTag /\ \A g \in ofTag : FiscalYear(g) = FiscalYear(f) => g.filed <= f.filed
    OBVIOUS
  <2> HIDE DEF latest
  <2>2. \A f : f \in LatestOfTag(rows, top.tag) <=>
          /\ f \in rows /\ Qualifies(f, 999) /\ f.tag = top.tag
          /\ \A g \in rows : Qualifies(g, 999) /\ g.tag = top.tag /\ FiscalYear(g) = FiscalYear(f) => g.filed <= f.filed
    BY DEF LatestOfTag
  <2>3. QED
    BY <1>10, <2>1, <2>2
<1> HIDE DEF latest
<1>12. latest = LatestOfTag(rows, top.tag)
  BY <1>11 DEF LatestOfTag, latest
<1>13. QED
  BY <1>1, <1>12

LEMMA NothingIsRead ==
  ASSUME NEW rows, NEW V, NEW tags \in Seq(V), NEW count \in Nat, \A f \in rows : ~(Qualifies(f, 999) /\ f.tag \in ToSet(tags))
  PROVE  AnnualValues(rows, tags, count, 999) = <<>>
<1> DEFINE annual == {f \in rows : Qualifies(f, 999) /\ f.tag \in ToSet(tags)}
           place(f) == CHOOSE i \in DOMAIN tags : tags[i] = f.tag
           chosen == {f \in annual : \A g \in annual : \/ FiscalYear(g) < FiscalYear(f)
                                                       \/ (FiscalYear(g) = FiscalYear(f) /\ place(f) <= place(g))}
           ofTag == {f \in annual : \E g \in chosen : g.tag = f.tag}
           latest == {f \in ofTag : \A g \in ofTag : FiscalYear(g) = FiscalYear(f) => g.filed <= f.filed}
<1>1. AnnualValues(rows, tags, count, 999) = CutOf(NewestFirst(latest), count)
  BY DEF AnnualValues, CutOf
<1>2. annual = {}
  OBVIOUS
<1> HIDE DEF annual
<1>3. latest = {}
  BY <1>2
<1> HIDE DEF latest
<1>4. PICK s \in Seq(FactSet) : s = NewestFirst({}) /\ ToSet(s) = {}
  <2>1. {} \in SUBSET FactSet /\ IsFiniteSet({})
    BY FS_EmptySet
  <2>2. QED
    BY <2>1, NewestFirstIs
<1>5. s = <<>>
  <2>1. DOMAIN s = {}
    BY <1>4 DEF ToSet
  <2>2. Len(s) = 0
    BY <2>1
  <2>3. QED
    BY <2>2, EmptySeq
<1>6. CutOf(<<>>, count) = <<>>
  <2>1. Min({count, 0}) = 0
    <3>1. Min({count, 0}) = IF count <= 0 THEN count ELSE 0
      BY MinOfTwo
    <3>2. QED
      BY <3>1
  <2>2. Len(<<>>) = 0 /\ SubSeq(<<>>, 1, 0) = <<>>
    OBVIOUS
  <2>3. QED
    BY <2>1, <2>2 DEF CutOf
<1>7. QED
  BY <1>1, <1>3, <1>4, <1>5, <1>6

LEMMA HistoryIsSorted ==
  ASSUME NEW h \in Seq(FactSet), YearsDescend(h)
  PROVE  Sorted(h)
<1> SUFFICES ASSUME NEW i \in DOMAIN h, NEW j \in DOMAIN h, i < j PROVE h[i].end > h[j].end
  BY DEF Sorted
<1>1. FiscalYear(h[i]) > FiscalYear(h[j])
  BY DEF YearsDescend
<1>2. h[i] \in FactSet /\ h[j] \in FactSet
  OBVIOUS
<1>3. \A f \in FactSet : f.end \in Nat /\ FiscalYear(f) \in Nat
  BY YearsFollowEnds DEF FactSet
<1>4. h[i].end <= h[j].end => FiscalYear(h[i]) <= FiscalYear(h[j])
  BY <1>2, YearsFollowEnds
<1>5. QED
  BY <1>1, <1>2, <1>3, <1>4

(* Where a run of newest facts begins a list and is cut as the list is, or is
   all of it, the cuts are the same. *)
LEMMA SameCut ==
  ASSUME NEW s \in Seq(FactSet), NEW c \in Seq(FactSet), Sorted(s), Sorted(c), ToSet(c) \subseteq ToSet(s),
         \A f \in ToSet(s) : f \in ToSet(c) \/ \A g \in ToSet(c) : f.end < g.end,
         NEW count \in Nat, Len(c) = count \/ (Len(c) <= count /\ ToSet(s) \subseteq ToSet(c))
  PROVE  CutOf(s, count) = c
<1>1. PICK m \in Nat : m = Len(c) /\ DOMAIN c = 1 .. m
  OBVIOUS
<1>2. PICK n \in Nat : n = Len(s) /\ DOMAIN s = 1 .. n
  OBVIOUS
<1>3. m <= n /\ \A i \in 1 .. m : s[i] = c[i]
  BY <1>1, <1>2, NewestBegin
<1>4. m = count \/ (m <= count /\ n <= m)
  <2>1. ASSUME ToSet(s) \subseteq ToSet(c) PROVE Len(s) <= Len(c)
    <3>1. \A f \in ToSet(c) : f \in ToSet(s)
      OBVIOUS
    <3>2. QED
      BY <2>1, <3>1, NewestBegin
  <2>2. QED
    BY <1>1, <1>2, <2>1
<1>5. Min({count, n}) = m
  <2>1. Min({count, n}) = IF count <= n THEN count ELSE n
    BY <1>2, MinOfTwo
  <2>2. QED
    BY <1>3, <1>4, <2>1
<1>6. CutOf(s, count) = SubSeq(s, 1, m)
  BY <1>2, <1>5 DEF CutOf
<1>7. SubSeq(s, 1, m) = [i \in 1 .. m |-> s[i]]
  BY <1>1, <1>2, <1>3
<1>8. c = [i \in 1 .. m |-> c[i]]
  BY <1>1
<1>9. [i \in 1 .. m |-> s[i]] = [i \in 1 .. m |-> c[i]]
  BY <1>3
<1>10. QED
  BY <1>6, <1>7, <1>8, <1>9

(* What each row is, for the selection of a later document. *)
RowsOf(rows, earlier, later) == \A g \in rows : ClosesItsYear(g, earlier) \/ ClosesItsYear(g, later)

(* The newest rows of a tag are the facts that stand for its newest years. *)
LEMMA NewestRowsStand ==
  ASSUME NEW earlier \in Seq(FactSet), NEW later \in Seq(FactSet), NEW t \in Nat, RepeatsUntil(earlier, later, t), OnceAFiling(later),
         NEW rows, RowsOf(rows, earlier, later), NEW tag, NEW h, IsHistory(h, later, tag, 999),
         NEW count \in Nat, ToSet(CutOf(h, count)) \subseteq rows
  PROVE  CutOf(NewestFirst(LatestOfTag(rows, tag)), count) = CutOf(h, count)
<1> DEFINE L == LatestOfTag(rows, tag)
           c == CutOf(h, count)
<1>1. h \in Seq(FactSet) /\ YearsDescend(h) /\ \A i \in DOMAIN h : Stands(h[i], later, 999) /\ h[i].tag = tag
  BY DEF IsHistory
<1>2. PICK n \in Nat : n = Len(h) /\ DOMAIN h = 1 .. n
  BY <1>1
<1>3. PICK k \in Nat : c = SubSeq(h, 1, k) /\ k <= n /\ (k = count \/ (k <= count /\ k = n))
  <2>1. Min({count, n}) = IF count <= n THEN count ELSE n
    BY <1>2, MinOfTwo
  <2>2. c = SubSeq(h, 1, Min({count, n}))
    BY <1>2 DEF CutOf
  <2> HIDE DEF c
  <2>3. CASE count <= n
    <3>1. c = SubSeq(h, 1, count)
      BY <2>1, <2>2, <2>3
    <3>2. QED
      BY <2>3, <3>1
  <2>4. CASE ~(count <= n)
    <3>1. Min({count, n}) = n
      BY <2>1, <2>4
    <3>2. c = SubSeq(h, 1, n)
      BY <2>2, <3>1
    <3>3. n <= n /\ n <= count
      BY <1>2, <2>4
    <3>4. QED
      BY <1>2, <3>2, <3>3
  <2>5. QED
    BY <2>3, <2>4
<1> HIDE DEF c
<1>4. \A i \in 1 .. k : i \in 1 .. n
  BY <1>2, <1>3
<1>5. c \in Seq(FactSet) /\ Len(c) = k /\ DOMAIN c = 1 .. k /\ \A i \in 1 .. k : c[i] = h[i]
  <2>1. c = [i \in 1 .. k |-> h[i]]
    BY <1>1, <1>2, <1>3
  <2>2. c \in [1 .. k -> FactSet]
    BY <1>1, <1>2, <1>4, <2>1
  <2>3. Seq(FactSet) = UNION {[1 .. m -> FactSet] : m \in Nat}
    BY SeqDef
  <2>4. c \in Seq(FactSet)
    BY <1>3, <2>2, <2>3
  <2>5. DOMAIN c = 1 .. k
    BY <2>1
  <2>6. Len(c) = k
    BY <1>3, <2>4, <2>5
  <2>7. QED
    BY <2>1, <2>4, <2>5, <2>6
<1>6. YearsDescend(c)
  BY <1>1, <1>2, <1>4, <1>5 DEF YearsDescend
<1>7. Sorted(c)
  BY <1>5, <1>6, HistoryIsSorted
<1>8. ToSet(later) \subseteq FactSet /\ \A g \in rows : g \in ToSet(later)
  <2>1. ToSet(later) \subseteq FactSet
    BY DEF ToSet
  <2>2. ToSet(earlier) \subseteq ToSet(later)
    BY DEF RepeatsUntil
  <2>3. QED
    BY <2>1, <2>2 DEF RowsOf, ClosesItsYear
<1>9. \A f : f \in L <=>
        /\ f \in rows /\ Qualifies(f, 999) /\ f.tag = tag
        /\ \A g \in rows : Qualifies(g, 999) /\ g.tag = tag /\ FiscalYear(g) = FiscalYear(f) => g.filed <= f.filed
  BY DEF LatestOfTag
<1> HIDE DEF L
<1>10. L \in SUBSET FactSet /\ IsFiniteSet(L)
  <2>1. L \subseteq ToSet(later) /\ IsFiniteSet(ToSet(later))
    BY <1>8, <1>9, FiniteMembers
  <2>2. QED
    BY <1>8, <2>1, FS_Subset
<1>11. \A f \in FactSet : f.end \in Nat /\ f.filed \in Nat /\ FiscalYear(f) \in Nat
  BY YearsFollowEnds DEF FactSet
<1>12. ASSUME NEW f \in L, NEW g \in L, f.end = g.end PROVE f = g
  <2>1. FiscalYear(f) = FiscalYear(g)
    BY <1>12 DEF FiscalYear
  <2>2. f.filed <= g.filed /\ g.filed <= f.filed
    BY <1>9, <2>1
  <2>3. f.filed = g.filed
    BY <1>10, <1>11, <2>2
  <2>4. f \in ToSet(later) /\ g \in ToSet(later) /\ f.tag = g.tag /\ Qualifies(f, 999) /\ Qualifies(g, 999)
    BY <1>8, <1>9
  <2>5. QED
    BY <1>12, <2>3, <2>4 DEF OnceAFiling, Qualifies
<1>13. PICK s \in Seq(FactSet) : s = NewestFirst(L) /\ Sorted(s) /\ ToSet(s) = L
  BY <1>10, <1>12, NewestFirstIs
<1>14. ASSUME NEW i \in 1 .. n, NEW g \in rows, Qualifies(g, 999), g.tag = tag, FiscalYear(g) = FiscalYear(h[i])
       PROVE  g.filed <= h[i].filed /\ (g.filed = h[i].filed => g = h[i])
  <2>1. Stands(h[i], later, 999) /\ h[i].tag = tag
    BY <1>1, <1>2
  <2>2. ClosesItsYear(g, earlier) \/ ClosesItsYear(g, later)
    BY DEF RowsOf
  <2>3. QED
    BY <1>14, <2>1, <2>2, StandingIsFiledLast
<1>15. \A i \in 1 .. k : h[i] \in rows
  BY <1>5 DEF ToSet, c
<1>16. ASSUME NEW i \in 1 .. k PROVE h[i] \in L
  <2>1. i \in 1 .. n
    BY <1>4
  <2>2. Qualifies(h[i], 999) /\ h[i].tag = tag
    BY <1>1, <1>2, <2>1 DEF Stands
  <2>3. QED
    BY <1>9, <1>14, <1>15, <2>1, <2>2
<1>17. ASSUME NEW f \in L PROVE \E j \in 1 .. n : FiscalYear(f) = FiscalYear(h[j])
  <2>1. f \in ToSet(later) /\ Qualifies(f, 999) /\ f.tag = tag
    BY <1>8, <1>9
  <2>2. QED
    BY <1>2, <2>1 DEF IsHistory
<1>18. ASSUME NEW f \in L, NEW i \in 1 .. k, FiscalYear(f) = FiscalYear(h[i]) PROVE f = h[i]
  <2>1. i \in 1 .. n /\ h[i] \in L
    BY <1>4, <1>16
  <2>2. f.filed <= h[i].filed /\ (f.filed = h[i].filed => f = h[i])
    BY <1>9, <1>14, <1>18, <2>1
  <2>3. h[i].filed <= f.filed
    BY <1>9, <1>18, <2>1
  <2>4. f.filed \in Nat /\ h[i].filed \in Nat
    BY <1>10, <1>11, <2>1
  <2>5. QED
    BY <2>2, <2>3, <2>4
<1>19. ToSet(c) = {h[i] : i \in 1 .. k}
  BY <1>5 DEF ToSet
<1>20. ToSet(c) \subseteq ToSet(s)
  BY <1>13, <1>16, <1>19
<1>21. ASSUME NEW f \in ToSet(s) PROVE f \in ToSet(c) \/ ((\A g \in ToSet(c) : f.end < g.end) /\ k < n)
  <2>1. f \in L
    BY <1>13
  <2>2. PICK j \in 1 .. n : FiscalYear(f) = FiscalYear(h[j])
    BY <1>17, <2>1
  <2>3. CASE j <= k
    <3>1. j \in 1 .. k
      BY <1>3, <2>3
    <3>2. f = h[j]
      BY <1>18, <2>1, <2>2, <3>1
    <3>3. QED
      BY <1>19, <3>1, <3>2
  <2>4. CASE ~(j <= k)
    <3>1. \A i \in 1 .. k : i < j
      BY <1>2, <1>3, <2>4
    <3>2. ASSUME NEW i \in 1 .. k PROVE f.end < h[i].end
      <4>1. FiscalYear(h[i]) > FiscalYear(h[j]) /\ i \in 1 .. n
        BY <1>1, <1>2, <1>4, <3>1 DEF YearsDescend
      <4>2. h[i] \in FactSet /\ h[j] \in FactSet /\ f \in FactSet
        BY <1>1, <1>2, <1>10, <2>1, <4>1
      <4>3. h[i].end <= f.end => FiscalYear(h[i]) <= FiscalYear(f)
        BY <4>2, YearsFollowEnds
      <4>4. h[i].end \in Nat /\ f.end \in Nat /\ FiscalYear(h[i]) \in Nat /\ FiscalYear(h[j]) \in Nat
        BY <1>11, <4>2
      <4>5. QED
        BY <2>2, <4>1, <4>3, <4>4
    <3>3. k < n
      BY <1>2, <1>3, <2>4
    <3>4. QED
      BY <1>19, <3>2, <3>3
  <2>5. QED
    BY <2>3, <2>4
<1>22. \A f \in ToSet(s) : f \in ToSet(c) \/ \A g \in ToSet(c) : f.end < g.end
  BY <1>21
<1>23. Len(c) = count \/ (Len(c) <= count /\ ToSet(s) \subseteq ToSet(c))
  <2>1. CASE k = count
    BY <1>5, <2>1
  <2>2. CASE k <= count /\ k = n
    <3>1. ~(k < n)
      BY <1>2, <2>2
    <3>2. \A f \in ToSet(s) : f \in ToSet(c)
      BY <1>21, <3>1
    <3>3. QED
      BY <1>5, <2>2, <3>2
  <2>3. QED
    BY <1>3, <2>1, <2>2
<1>24. CutOf(s, count) = c
  BY <1>5, <1>7, <1>13, <1>20, <1>22, <1>23, SameCut
<1>25. QED
  BY <1>13, <1>24 DEF c, L

LEMMA ReadBack ==
  ASSUME NEW earlier \in Seq(FactSet), NEW later \in Seq(FactSet), NEW t \in Nat, RepeatsUntil(earlier, later, t), OnceAFiling(later),
         NEW V, NEW tags \in Seq(V), "none" \notin ToSet(tags), NEW count \in Nat \ {0}, NEW latestToo
  PROVE  ReadsTheSelection(earlier, later, tags, count, latestToo)
<1>1. PICK rows : rows = RowsAfter(earlier, later, tags, count, latestToo)
  OBVIOUS
<1>2. PICK selected : selected = AnnualFacts(later, tags, count, 999, Min({count, 2}))
  OBVIOUS
<1> DEFINE shadows == {f \in rows : f.tag # selected.tag /\ Qualifies(f, 999)}
<1>3. ReadsTheSelection(earlier, later, tags, count, latestToo) <=>
        \/ AnnualValues(rows, tags, count, 999) = selected.facts
        \/ \E f \in shadows : selected # None => FiscalYear(f) >= FiscalYear(selected.facts[1])
  BY <1>1, <1>2 DEF ReadsTheSelection, RowsAfter
<1> SUFFICES ASSUME \A f \in rows : f.tag # selected.tag /\ Qualifies(f, 999)
                                      => selected # None /\ ~(FiscalYear(f) >= FiscalYear(selected.facts[1]))
             PROVE  AnnualValues(rows, tags, count, 999) = selected.facts
  BY <1>3
<1>4. RowsOf(rows, earlier, later)
  BY <1>1, RowsClose DEF RowsOf
<1>5. ToSet(selected.facts) \subseteq rows
  BY <1>1, <1>2 DEF Ingest, RowsAfter
<1>6. rows \in SUBSET FactSet /\ rows \subseteq ToSet(later)
  <2>1. ToSet(later) \subseteq FactSet
    BY DEF ToSet
  <2>2. ToSet(earlier) \subseteq ToSet(later)
    BY DEF RepeatsUntil
  <2>3. QED
    BY <1>4, <2>1, <2>2 DEF RowsOf, ClosesItsYear
<1>7. IsSelection(selected, later, tags, count, 999, Min({count, 2}))
  BY <1>2, AnnualSelectionIs
<1>8. CASE selected = None
  <2>1. selected.tag = "none" /\ selected.facts = <<>>
    BY <1>8 DEF None
  <2>2. \A f \in rows : ~(Qualifies(f, 999) /\ f.tag \in ToSet(tags))
    BY <1>8, <2>1
  <2>3. QED
    BY <2>1, <2>2, NothingIsRead
<1>9. ASSUME NEW m \in DOMAIN tags, FirstFreshest(m, tags, later, 999, Min({count, 2})), IsCut(selected, m, later, tags, count, 999)
      PROVE  AnnualValues(rows, tags, count, 999) = selected.facts
  <2>1. PICK h : h = TagHistory(later, tags[m], 999)
    OBVIOUS
  <2>2. IsHistory(h, later, tags[m], 999)
    BY <2>1, HistoryStands
  <2>3. selected = [tag |-> tags[m], facts |-> CutOf(h, count)]
    BY <1>9, <2>1 DEF IsCut, CutOf
  <2>4. selected.tag = tags[m] /\ selected.facts = CutOf(h, count)
    BY <2>3
  <2>5. h \in Seq(FactSet) /\ YearsDescend(h) /\ h # <<>>
    BY <1>9, <2>1, <2>2 DEF IsHistory, FirstFreshest, Enough
  <2>6. PICK n \in Nat : n = Len(h) /\ DOMAIN h = 1 .. n /\ n > 0
    BY <2>5, EmptySeq
  <2>7. selected.facts[1] = h[1] /\ h[1] \in rows /\ 1 \in 1 .. n
    <3>1. Min({count, n}) = IF count <= n THEN count ELSE n
      BY <2>6, MinOfTwo
    <3>2. PICK k \in Nat : k = Min({count, n}) /\ k > 0 /\ k <= n
      BY <2>6, <3>1
    <3>3. CutOf(h, count) = [i \in 1 .. k |-> h[i]]
      BY <2>5, <2>6, <3>2 DEF CutOf
    <3>4. 1 \in 1 .. k /\ 1 \in 1 .. n
      BY <2>6, <3>2
    <3>5. CutOf(h, count)[1] = h[1] /\ 1 \in DOMAIN CutOf(h, count)
      BY <3>3, <3>4
    <3>6. h[1] \in ToSet(CutOf(h, count))
      BY <3>5 DEF ToSet
    <3>7. QED
      BY <1>5, <2>4, <3>4, <3>5, <3>6
  <2>8. Qualifies(h[1], 999) /\ h[1].tag = tags[m] /\ tags[m] \in ToSet(tags)
    BY <2>2, <2>6, <2>7 DEF IsHistory, Stands, ToSet
  <2>9. ASSUME NEW f \in rows, Qualifies(f, 999)
        PROVE  FiscalYear(f) <= FiscalYear(h[1]) /\ (f.tag # h[1].tag => FiscalYear(f) < FiscalYear(h[1]))
    <3>1. FiscalYear(f) \in Nat /\ FiscalYear(h[1]) \in Nat
      BY <1>6, <2>7, YearsFollowEnds
    <3>2. CASE f.tag # tags[m]
      <4>1. ~(FiscalYear(f) >= FiscalYear(h[1]))
        BY <2>4, <2>7, <2>9, <3>2
      <4>2. QED
        BY <3>1, <4>1
    <3>3. CASE f.tag = tags[m]
      <4>1. PICK i \in 1 .. n : FiscalYear(h[i]) = FiscalYear(f)
        BY <1>6, <2>2, <2>6, <2>9, <3>3 DEF IsHistory
      <4>2. ASSUME i = 1 PROVE FiscalYear(f) <= FiscalYear(h[1])
        <5>1. FiscalYear(h[1]) = FiscalYear(f)
          BY <4>1, <4>2
        <5>2. QED
          BY <3>1, <5>1
      <4>3. ASSUME 1 < i PROVE FiscalYear(f) <= FiscalYear(h[1])
        <5>1. FiscalYear(h[1]) > FiscalYear(h[i])
          BY <2>5, <2>6, <2>7, <4>3 DEF YearsDescend
        <5>2. QED
          BY <3>1, <4>1, <5>1
      <4>4. i = 1 \/ 1 < i
        BY <2>6
      <4>5. FiscalYear(f) <= FiscalYear(h[1])
        BY <3>1, <4>1, <4>2, <4>3, <4>4
      <4>6. QED
        BY <2>8, <3>3, <4>5
    <3>4. QED
      BY <3>2, <3>3
  <2>10. Leads(h[1], rows, tags)
    BY <2>7, <2>8, <2>9 DEF Leads
  <2>11. AnnualValues(rows, tags, count, 999) = CutOf(NewestFirst(LatestOfTag(rows, tags[m])), count)
    BY <1>6, <2>8, <2>10, ValuesAreOfTheLeader
  <2>12. ToSet(CutOf(h, count)) \subseteq rows
    BY <1>5, <2>4
  <2>13. CutOf(NewestFirst(LatestOfTag(rows, tags[m])), count) = CutOf(h, count)
    BY <1>4, <2>2, <2>12, NewestRowsStand
  <2>14. QED
    BY <2>4, <2>11, <2>13
<1>10. QED
  BY <1>7, <1>8, <1>9 DEF IsSelection

(* Of any two documents, the later repeating the earlier, the scores read the
   values that the later's ingestion selected, unless a row of another tag is
   of as new a year. *)
THEOREM ScoresAlwaysReadTheSelection == ReadSpec => []ScoresReadTheSelection
<1>1. ASSUME TriedIsCase PROVE ScoresReadTheSelection
  <2> SUFFICES ASSUME Tried("facts") PROVE ReadsTheSelection(case.earlier, case.later, Tags, case.count, case.latestToo)
    BY DEF ScoresReadTheSelection
  <2>1. case \in FactCases
    BY <1>1 DEF Tried, TriedIsCase, CasesOf
  <2>2. Tags \in Seq(STRING) /\ "none" \notin ToSet(Tags)
    BY CaseAssumption
  <2>3. case.earlier \in Seq(FactSet) /\ case.later \in Seq(FactSet) /\ case.count \in Nat \ {0}
    BY <2>1, CaseAssumption DEF FactSet
  <2>4. PICK t \in {0} \cup {f.filed : f \in ToSet(case.later)} : RepeatsUntil(case.earlier, case.later, t)
    BY <2>1, CaseAssumption DEF RepeatsUntil
  <2>5. t \in Nat
    <3>1. ToSet(case.later) \subseteq FactSet
      BY <2>3 DEF ToSet
    <3>2. \A f \in FactSet : f.filed \in Nat
      BY DEF FactSet
    <3>3. QED
      BY <3>1, <3>2
  <2>6. OnceAFiling(case.later)
    BY <2>1, CaseAssumption DEF OnceAFiling
  <2>7. \A V : \A tags \in Seq(V) : "none" \notin ToSet(tags) =>
          \A earlier, later \in Seq(FactSet), u \in Nat, count \in Nat \ {0} : \A latestToo :
            RepeatsUntil(earlier, later, u) /\ OnceAFiling(later) => ReadsTheSelection(earlier, later, tags, count, latestToo)
    BY ReadBack
  <2>8. QED
    BY <2>2, <2>3, <2>4, <2>5, <2>6, <2>7
<1>2. QED
  BY <1>1, TriedAreCases, PTL
=============================================================================
