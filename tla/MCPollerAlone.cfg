SPECIFICATION FairSpec
CONSTANTS
  acme = acme
  bolt = bolt
  k1 = k1
  k2 = k2
  c1 = c1
  c2 = c2
  NoCursor = NoCursor
  NoRun = NoRun
  Unlisted = Unlisted
  Companies = {acme, bolt}
  Universe <- TwoCompanies
  Filings = {k1, k2}
  CompanyOf <- OneEach
  Cycles = {c1}
  InitialCursor = 0
  TicksPerDay = 1
  Lookback = 1
  Lag = 1
  Threshold = 2
  MaxClock = 1
  MaxMishaps = 2
PROPERTY EveryFilingIsFound
