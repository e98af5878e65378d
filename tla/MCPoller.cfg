SPECIFICATION Spec
CONSTANTS
  acme = acme
  bolt = bolt
  k1 = k1
  k2 = k2
  c1 = c1
  c2 = c2
  NoCursor = NoCursor
  NoRun = NoRun
  Unlisted = Unlisted
  Companies = {acme, bolt}
  Universe <- TwoCompanies
  Filings = {k1}
  CompanyOf <- AcmeOnly
  Cycles = {c1, c2}
  InitialCursor = 0
  TicksPerDay = 1
  Lookback = 1
  Lag = 1
  Threshold = 1
  MaxClock = 2
  MaxMishaps = 1
SYMMETRY Symmetry
INVARIANTS
  TypeOK
  NothingFallsBehind
  CleanRunVouches
  EnqueuedTwiceForAReason
  RecordedWasEnqueued
