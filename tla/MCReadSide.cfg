SPECIFICATION ReadSpec
CONSTANTS
  c1 = c1
  c2 = c2
  c3 = c3
  NoCase = NoCase
  Tags <- MCTags
  FactCases <- MCFactCases
  SeriesCases <- MCSeriesCases
  VerdictCases <- MCVerdictCases
  SectionCases <- MCSectionCases
  DiffCases <- MCDiffCases
  FeedCases <- MCFeedCases
  Vocabulary <- MCVocabulary
  Texts <- MCTexts
  Similarity <- MCSimilarity
  MinSection = 2
  MinChunk = 3
  MaxChunk = 5
  MaxFilings = 2
  Companies = {c1, c2, c3}
  TickerOf <- MCTickers
  NameOf <- MCNames
  DisplayNameOf <- MCDisplayNames
  Letters = {"a", "b", "c", "d"}
  Queries <- MCQueries
  SearchLimit = 2
  PageSize = 2
  MaxFailures = 1
INVARIANTS
  SelectedYearsStand
  ScoresReadTheSelection
  ScoresAreOfOneYear
  VerdictsTellOneStory
  SectionsKeepTheirText
  DiffsAccountForBoth
  FeedAccountsForItsWindow
  PagesShowTheirOwnData
CHECK_DEADLOCK FALSE
